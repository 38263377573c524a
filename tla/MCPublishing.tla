---------------------------- MODULE MCPublishing ----------------------------
(* A small instance of Publishing for TLC. *)
EXTENDS Publishing, TLC

CONSTANT s1

OneSubscriber == [i \in Item |-> s1]
AllMatch == [o \in {"publish", "correct", "kill"} |-> Subscriber]
=============================================================================
