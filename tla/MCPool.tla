------------------------------- MODULE MCPool -------------------------------
(* Circles of three: with turns that fall due, deposits and insurance;     *)
(* drawn; bid for; and a savings goal with a deadline.  The last to        *)
(* collect can just afford all of his rounds.                              *)
EXTENDS Pool, TLC

MCGenesis == <<6, 4, 2>>

Circle(mode, contribution, len, deposit, rate, target) ==
  [members |-> <<1, 2, 3>>, mode |-> mode, contribution |-> contribution,
   roundLen |-> len, deposit |-> deposit, rate |-> rate, target |-> target]

MCOffers == {Circle("rotation", 1, 1, 1, 1, 0), Circle("rotation", 2, 3, 2, 1, 0),
             Circle("lottery", 2, 0, 0, 1, 0), Circle("bidding", 2, 0, 0, 1, 0),
             Circle("goal", 2, 1, 0, 0, 3)}
=============================================================================
