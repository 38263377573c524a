------------------------------ MODULE Delivery ------------------------------
(***************************************************************************)
(* What the transmission of publish_queue promises for a receiver,         *)
(* whatever workers, locks, messages and retries it takes: an entry is     *)
(* handed to the receiver only after it was posted and before its outcome  *)
(* is settled, it is called a success only when the receiver has it, and a *)
(* receiver that acknowledges what it accepts gets it at most once and     *)
(* never has what was called a failure.  Entries for the content API are   *)
(* not part of that promise: they are a success from the start, and        *)
(* nothing is handed over.  Transmit implements it.                        *)
(***************************************************************************)
EXTENDS Naturals

CONSTANTS
  Item,
  Direct, \* entries for the content API
  Limit,  \* how often an entry may be handed over when acknowledgements get lost
  Lossy   \* whether an acknowledgement may get lost

VARIABLES
  posted,   \* SUBSET Item: entries handed over by the enqueue service
  got,      \* [Item -> 0..Limit]: how often the receiver has got the content
  outcome   \* [Item -> {"open", "success", "failed"}]

vars == <<posted, got, outcome>>

Init ==
  /\ posted = {}
  /\ got = [i \in Item |-> 0]
  /\ outcome = [i \in Item |-> "open"]

Submit(i) ==
  /\ i \notin posted
  /\ posted' = posted \cup {i}
  /\ outcome' = IF i \in Direct THEN [outcome EXCEPT ![i] = "success"] ELSE outcome
  /\ UNCHANGED got

\* The receiver gets the content of an entry that is still open.
Deliver(i) ==
  /\ i \in posted
  /\ outcome[i] = "open"
  /\ got[i] < IF Lossy THEN Limit ELSE 1
  /\ got' = [got EXCEPT ![i] = @ + 1]
  /\ UNCHANGED <<posted, outcome>>

\* The entry is closed, with the outcome that tells the truth as far as it is known.
Settle(i, result) ==
  /\ i \in posted
  /\ outcome[i] = "open"
  /\ result = "success" => got[i] > 0
  /\ result = "failed" => got[i] = 0 \/ Lossy
  /\ outcome' = [outcome EXCEPT ![i] = result]
  /\ UNCHANGED <<posted, got>>

Next ==
  \E i \in Item :
    \/ Submit(i) \/ Deliver(i)
    \/ \E result \in {"success", "failed"} : Settle(i, result)

Spec == Init /\ [][Next]_vars
=============================================================================
