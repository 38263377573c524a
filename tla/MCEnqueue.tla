----------------------------- MODULE MCEnqueue ------------------------------
(* Small instances of Enqueue for TLC. *)
EXTENDS Enqueue, TLC

CONSTANTS s1, s2, w1, w2, e1, e2

\* Everybody gets the article.
AllMatch == [o \in Op |-> Subscriber]

\* A correction that brings the article to a second subscriber.
WiderMatch == [publish |-> {s1}, correct |-> {s1, s2}, kill |-> {s1, s2}]

PlainRequests == {"publish", "correct", "kill"}
ScheduleRequests == {"schedule", "correct", "deschedule"}

NoFaults == {}
DyingFaults == {"error", "crash"}
SoftLimit == {"softlimit"}
LooseFaults == {"formatter", "softlimit", "operator"}
=============================================================================
