------------------------------ MODULE MCBackend ------------------------------
(* The parcel's codes are those of DHL, with an "out for delivery".         *)
EXTENDS Backend, TLC

CONSTANTS w1, w2, w3, admin

MCAdmins == <<w1, admin>>
MCRoute  == <<{"pre"}, {}, {"fail"}, {"out", "out_for", "deliver"}, {"deliver"}>>
=============================================================================
