------------------------------ MODULE MCIngest ------------------------------
(* A small instance of Ingest for TLC. *)
EXTENDS Ingest, TLC

\* Three versions: a task that was overtaken may bring the second after the third.
MCLast == 1 :> 3
=============================================================================
