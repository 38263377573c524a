----------------------------- MODULE MCTransmit -----------------------------
(* Instances of Transmit for TLC. *)
EXTENDS Transmit, TLC

CONSTANTS s1, s2, w1, w2

WorkerSymmetry == Permutations(Worker)

OneSubscriber == [i \in Item |-> s1]

SenderFaults == {"publish", "client", "critical", "other"}
AckFaults    == {"publish", "critical", "other", "ack"}
AllFaults    == FaultKinds
=============================================================================
