--------------------------- MODULE MCVerification ---------------------------
(* A small instance of Verification for TLC: one delegated and one static  *)
(* check of different levels.                                              *)
EXTENDS Verification
Levels == [c \in Delegated \cup Static |-> IF c \in Delegated THEN "execution" ELSE "system"]
OneDeadline == [v \in Versions |-> [c \in Delegated |-> 1]]
Half == <<1, 2>>
NineTenths == <<9, 10>>
=============================================================================
