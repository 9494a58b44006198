----------------------------- MODULE MCAccounts -----------------------------
(* Three accounts; an asset the first of them issues starts empty.         *)
EXTENDS Accounts, TLC

MCEmpty == <<0, 0, 0>>
=============================================================================
