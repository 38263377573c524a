--------------------------- MODULE DeliveryProofs ---------------------------
(***************************************************************************)
(* Proofs about what the transmission of an entry leads to: nothing is     *)
(* stranded while tasks run to their end, and Transmit implements Delivery.*)
(* A subscriber that is not asynchronous is served in order: the sorted    *)
(* batch, the break on error and the subscriber's lock together keep the   *)
(* order of publication, and a retry waits until it is due.                *)
(***************************************************************************)
EXTENDS TransmitProofs, FiniteSetTheorems

\* The fault kinds under which a task may end without writing the entry's next state.
NothingLost == Faults \cap {"crash", "db", "timeout"} = {}

\* The points of transmit_item between marking the entry and its next state.
Busy == {"send", "record", "mark_error", "fail", "reschedule"}

\* An entry in-progress or in error has a worker that will write its next state.
BusyInv ==
  \A i \in Item :
    state[i] \in {"in-progress", "error"} => \E w \in Worker : pc[w] \in Busy /\ cur[w] = i

\* The steps of transmit_item keep the worker busy, or write a state the queries
\* know, or happen before the worker is busy.
LEMMA ItemTaskBusy ==
  ASSUME NothingLost, TInv, NEW w \in Worker, ItemTask(w)
  PROVE  \/ pc'[w] \in Busy /\ cur'[w] = cur[w]
         \/ state'[cur[w]] \notin {"in-progress", "error"}
         \/ pc[w] \notin Busy /\ state' = state
<1> USE DEF NothingLost, Busy, TInv, TypeOK, queueVars, localVars, Goto
<1>1. CASE Read(w) \/ ReadRejects(w)
  BY <1>1 DEF Read, ReadRejects
<1>2. CASE Mark(w) \/ SendInactive(w) \/ Send(w) \/ SendOtherError(w)
  BY <1>2 DEF Mark, SendInactive, Sending, Send, SendOtherError, Raise
<1>3. CASE \E class \in {"none", "client"} : SendPublishError(w, class)
  BY <1>3 DEF SendPublishError, Sending
<1>4. CASE Record(w)
  BY <1>4 DEF Record, CurOK, Working
<1>5. CASE HandlerWrite(w)
  BY <1>5 DEF HandlerWrite, Reschedule, Retry, GiveUp, CurOK, Working
<1>6. CASE MarkError(w) \/ HandlerRead(w)
  BY <1>6 DEF MarkError, HandlerRead
<1>7. CASE MarkFails(w) \/ RecordFails(w) \/ MarkErrorFails(w) \/ SoftTimeout(w) \/ HandlerFails(w)
  BY <1>7 DEF MarkFails, RecordFails, MarkErrorFails, SoftTimeout, HandlerFails
<1>8. QED
  BY <1>1, <1>2, <1>3, <1>4, <1>5, <1>6, <1>7 DEF ItemTask

\* Other tasks, and the environment unless a process dies, leave busy workers alone.
Undisturbed == \A w \in Worker : pc[w] \in Busy => pc'[w] = pc[w] /\ cur'[w] = cur[w]

LEMMA OthersUndisturbed ==
  ASSUME NothingLost, TInv,
         \/ \E w \in Worker : \/ Publish(w) \/ SubTask(w)
                              \/ \E m \in SubMsg : SubTake(w, m)
                              \/ \E i \in Item : ItemTake(w, i)
         \/ Environment
  PROVE  Undisturbed
<1> USE DEF Undisturbed, Busy, NothingLost, TInv, TypeOK, localVars, Goto
<1>1. ASSUME NEW w \in Worker, Publish(w) PROVE Undisturbed
  BY <1>1 DEF Publish, PublishStart, DispatchPhase, PublishEnd, Idle
<1>2. ASSUME NEW w \in Worker, SubTask(w) PROVE Undisturbed
  BY <1>2 DEF SubTask, Fetch, BatchAbort, SubRelease, NextAsync, NextSync, Idle
<1>3. ASSUME NEW w \in Worker, \E m \in SubMsg : SubTake(w, m) PROVE Undisturbed
  BY <1>3 DEF SubTake
<1>4. ASSUME NEW w \in Worker, \E i \in Item : ItemTake(w, i) PROVE Undisturbed
  BY <1>4 DEF ItemTake
<1>5. CASE Environment
  BY <1>5 DEF Environment, Post, PostedState, RetryDue, ItemDrop, ItemLockExpires, OperatorPatch, Crash,
              ArticlesLockExpires, SubLockExpires, OperatorSwitch, Reconfigure, SubDrop
<1>6. QED
  BY <1>1, <1>2, <1>3, <1>4, <1>5

LEMMA NextBusy == NothingLost /\ TInv /\ BusyInv /\ [Next]_vars => BusyInv'
<1> SUFFICES ASSUME NothingLost, TInv, BusyInv, [Next]_vars,
                    NEW i \in Item, state'[i] \in {"in-progress", "error"}
             PROVE  \E w \in Worker : pc'[w] \in Busy /\ cur'[w] = i
  BY DEF BusyInv
<1>1. CASE UNCHANGED vars
  BY <1>1 DEF vars, BusyInv
<1>2. ASSUME NEW w \in Worker, ItemTask(w)
      PROVE  \E v \in Worker : pc'[v] \in Busy /\ cur'[v] = i
  <2>1. CASE i = cur[w] /\ pc'[w] \in Busy /\ cur'[w] = cur[w]
    BY <2>1
  <2>2. CASE i = cur[w] /\ pc[w] \notin Busy /\ state' = state
    <3>1. PICK v \in Worker : pc[v] \in Busy /\ cur[v] = i
      BY <2>2 DEF BusyInv
    <3>2. v # w
      BY <2>2, <3>1
    <3>3. QED
      BY <1>2, <3>1, <3>2, ItemTaskLocal
  <2>3. CASE i # cur[w]
    <3>1. PICK v \in Worker : pc[v] \in Busy /\ cur[v] = i
      BY <1>2, <2>3, ItemTaskLocal DEF BusyInv
    <3>2. QED
      BY <1>2, <2>3, <3>1, ItemTaskLocal
  <2>4. QED
    BY <1>2, <2>1, <2>2, <2>3, ItemTaskBusy
<1>3. ASSUME Undisturbed, state'[i] = state[i]
      PROVE  \E v \in Worker : pc'[v] \in Busy /\ cur'[v] = i
  BY <1>3 DEF Undisturbed, BusyInv
<1>4. ASSUME Outside PROVE state'[i] = state[i]
  BY <1>4 DEF Outside, PostedState
<1>5. ASSUME NEW j \in Item, NEW s \in {"pending", "canceled"}, OperatorPatch(j, s)
      PROVE  state'[i] = state[i]
  BY <1>5 DEF OperatorPatch, TInv, TypeOK
<1>6. CASE Environment
  BY <1>3, <1>4, <1>5, <1>6, EnvironmentOutside, OthersUndisturbed
<1>7. QED
  BY <1>1, <1>2, <1>3, <1>4, <1>6, OtherTasksOutside, OthersUndisturbed DEF Next

\* While processes live, database calls succeed and no time limit strikes, every entry
\* in-progress or in error has a worker inside transmit_item: even when transmissions
\* overlap, locks expire early or operators patch entries, none is left behind.
THEOREM NothingStranded == NothingLost => (Spec => []NoStrandedEntry)
<1> SUFFICES ASSUME NothingLost PROVE Spec => []NoStrandedEntry
  OBVIOUS
<1>1. Init => BusyInv
  BY DEF Init, BusyInv
<1>2. TInv /\ BusyInv /\ [Next]_vars => BusyInv'
  BY NextBusy
<1>3. BusyInv => NoStrandedEntry
  BY DEF BusyInv, NoStrandedEntry, InTransit, Busy, Working
<1>4. QED
  BY <1>1, <1>2, <1>3, InitTInv, NextTInv, PTL DEF Spec

-----------------------------------------------------------------------------
(* Transmit implements Delivery.                                           *)

\* The conditions under which an attempt is seen through once the entry is in the
\* hands of a worker, and the bound on the count of deliveries does not bite.
\* Processes may die and acknowledgements get lost.
Careful == NoOverlap /\ Faults \cap {"db", "timeout"} = {} /\ SentCap > MaxRetry

Lossy == "ack" \in Faults

\* A worker past the check of the entry's state finds it as that check, or the
\* worker itself, left it.
WorkerOpen(w) ==
  /\ pc[w] = "mark" => state[cur[w]] \in {"pending", "retrying"}
  /\ pc[w] \in {"send", "record", "mark_error"} => state[cur[w]] = "in-progress"
  /\ pc[w] \in {"fail", "reschedule"} => state[cur[w]] \in {"in-progress", "error"}

\* Unless acknowledgements get lost, what is to be sent, or failed, was never delivered.
EntryFresh(i) == ~Lossy /\ state[i] \in Waiting \cup {"failed"} => sent[i] = 0
WorkerFresh(w) ==
  ~Lossy /\ pc[w] \in {"mark", "send", "mark_error", "fail", "reschedule"} => sent[cur[w]] = 0

OpenInv ==
  /\ \A i \in Item : EntryFresh(i)
  /\ \A w \in Worker : WorkerOpen(w) /\ WorkerFresh(w)

\* A step of transmit_item takes the worker and its entry from one open state to the next.
LEMMA ItemTaskOpen ==
  ASSUME Careful, TInv, OpenInv, NEW w \in Worker, ItemTask(w), NEW i \in Item, i = cur[w]
  PROVE  EntryFresh(i)' /\ WorkerOpen(w)' /\ WorkerFresh(w)'
<1> DEFINE Concl == EntryFresh(i)' /\ WorkerOpen(w)' /\ WorkerFresh(w)'
<1>1. EntryFresh(i) /\ WorkerOpen(w) /\ WorkerFresh(w)
  BY DEF OpenInv
<1> SUFFICES Concl
  OBVIOUS
<1> USE <1>1 DEF EntryFresh, WorkerOpen, WorkerFresh, Waiting, Lossy, TInv, TypeOK, queueVars,
                 localVars, Goto
<1>2. ASSUME NEW ok \in BOOLEAN, EndAttempt(w, ok)
      PROVE  pc'[w] \in {"idle", "next"}
  BY <1>2 DEF EndAttempt, Idle
<1>3. CASE Read(w)
  BY <1>3 DEF Read, Sendable
<1>4. CASE ReadRejects(w) \/ HandlerFails(w)
  BY <1>2, <1>4 DEF ReadRejects, HandlerFails
<1>5. CASE Mark(w)
  BY <1>5 DEF Mark
<1>6. CASE SendInactive(w)
  BY <1>6 DEF SendInactive, Sending, Raise
<1>7. CASE Send(w)
  <2>1. state'[i] = "in-progress" /\ pc'[w] = "record" /\ cur'[w] = i
    BY <1>7 DEF Send, Sending
  <2>2. QED
    BY <2>1
<1>8. CASE SendOtherError(w)
  <2>1. state'[i] = "in-progress" /\ pc'[w] = "fail" /\ cur'[w] = i
    BY <1>8 DEF SendOtherError, Sending, Raise
  <2>2. ~Lossy => sent' = sent
    BY <1>8 DEF SendOtherError, Sending, MaybeDelivered
  <2>3. QED
    BY <1>8, <2>1, <2>2 DEF SendOtherError, Sending
<1>9. ASSUME NEW class \in {"none", "client"}, SendPublishError(w, class) PROVE Concl
  <2>1. state'[i] = "in-progress" /\ pc'[w] = "mark_error" /\ cur'[w] = i
    BY <1>9 DEF SendPublishError, Sending
  <2>2. ~Lossy => sent' = sent
    BY <1>9 DEF SendPublishError, Sending, MaybeDelivered
  <2>3. QED
    BY <1>9, <2>1, <2>2 DEF SendPublishError, Sending
<1>10. CASE Record(w)
  BY <1>2, <1>10 DEF Record
<1>11. CASE MarkError(w)
  BY <1>11 DEF MarkError
<1>12. CASE HandlerRead(w)
  BY <1>12 DEF HandlerRead
<1>13. CASE HandlerWrite(w)
  BY <1>2, <1>13 DEF HandlerWrite, Reschedule, Retry, GiveUp
<1>14. CASE MarkFails(w) \/ RecordFails(w) \/ MarkErrorFails(w) \/ SoftTimeout(w)
  BY <1>14 DEF MarkFails, RecordFails, MarkErrorFails, SoftTimeout, Careful
<1>15. QED
  BY <1>3, <1>4, <1>5, <1>6, <1>7, <1>8, <1>9, <1>10, <1>11, <1>12, <1>13, <1>14 DEF ItemTask

LEMMA NextOpen == Careful /\ LockInv /\ OpenInv /\ [Next]_vars => OpenInv'
<1> SUFFICES ASSUME Careful, LockInv, OpenInv, [Next]_vars PROVE OpenInv'
  OBVIOUS
<1>1. CASE UNCHANGED vars
  BY <1>1 DEF vars, OpenInv, EntryFresh, WorkerOpen, WorkerFresh
<1>2. ASSUME NEW w \in Worker, ItemTask(w) PROVE OpenInv'
  <2>1. PICK i \in Item : i = cur[w]
    BY <1>2, ItemTaskLocal DEF LockInv, TInv, CurOK
  <2>2. EntryFresh(i)' /\ WorkerOpen(w)' /\ WorkerFresh(w)'
    BY <1>2, <2>1, ItemTaskOpen DEF LockInv
  <2>3. ASSUME NEW j \in Item, j # i PROVE EntryFresh(j)'
    BY <1>2, <2>1, <2>3, ItemTaskLocal DEF LockInv, OpenInv, EntryFresh
  <2>4. ASSUME NEW v \in Worker, v # w PROVE WorkerOpen(v)' /\ WorkerFresh(v)'
    <3>1. pc[v] \in Working => cur[v] # i /\ cur[v] \in Item
      BY <1>2, <2>1, <2>4, ItemTaskLocal, Exclusion
         DEF LockInv, TInv, CurOK, OneTransmitter, InTransit
    <3>2. pc'[v] = pc[v] /\ cur'[v] = cur[v]
      BY <1>2, <2>4, ItemTaskLocal DEF LockInv
    <3>3. pc[v] \in Working => state'[cur[v]] = state[cur[v]] /\ sent'[cur[v]] = sent[cur[v]]
      BY <1>2, <2>1, <3>1, ItemTaskLocal DEF LockInv
    <3>4. QED
      BY <3>2, <3>3 DEF OpenInv, WorkerOpen, WorkerFresh, Working
  <2>5. QED
    BY <2>2, <2>3, <2>4 DEF OpenInv
<1>3. ASSUME Outside PROVE OpenInv'
  <2>1. ASSUME NEW i \in Item PROVE EntryFresh(i)'
    BY <1>3 DEF Outside, OpenInv, EntryFresh, Waiting
  <2>2. ASSUME NEW w \in Worker PROVE WorkerOpen(w)' /\ WorkerFresh(w)'
    <3>1. CASE pc'[w] \notin Working \ {"read"}
      BY <3>1 DEF WorkerOpen, WorkerFresh, Working
    <3>2. CASE pc'[w] = pc[w] /\ cur'[w] = cur[w]
      <4>1. pc[w] \in Working \ {"read"} => cur[w] \in Item /\ state[cur[w]] # "absent"
        BY DEF OpenInv, WorkerOpen, LockInv, TInv, CurOK, Working
      <4>2. QED
        BY <1>3, <3>2, <4>1 DEF Outside, OpenInv, WorkerOpen, WorkerFresh, Working
    <3>3. QED
      BY <1>3, <3>1, <3>2 DEF Outside
  <2>3. QED
    BY <2>1, <2>2 DEF OpenInv
<1>4. ASSUME NEW i \in Item, NEW s, OperatorPatch(i, s) PROVE FALSE
  BY <1>4 DEF OperatorPatch, Careful, NoOverlap
<1>5. CASE Environment
  BY <1>3, <1>4, <1>5, EnvironmentOutside DEF LockInv
<1>6. QED
  BY <1>1, <1>2, <1>3, <1>5, OtherTasksOutside DEF Next, LockInv

LEMMA InitOpen == Init => OpenInv
  BY DEF Init, OpenInv, EntryFresh, WorkerOpen, WorkerFresh

\* The refinement mapping.
Posted == {i \in Item : state[i] # "absent"}
Outcomes == [i \in Item |-> Outcome(i)]

\* What a step has to do for Delivery to see nothing, ...
LEMMA Unseen ==
  ASSUME TInv, sent' = sent,
         \A i \in Item : /\ (state'[i] = "absent") = (state[i] = "absent")
                         /\ Outcome(i)' = Outcome(i)
  PROVE  UNCHANGED Promise!vars
<1>1. Posted' = Posted
  BY DEF Posted
<1>2. Outcomes' = Outcomes
  BY DEF Outcomes
<1>3. QED
  BY <1>1, <1>2 DEF Promise!vars, Posted, Outcomes

\* ... a delivery, ...
LEMMA Delivers ==
  ASSUME TInv, Careful, NEW i \in Item, state[i] = "in-progress", state' = state,
         sent[i] < IF Lossy THEN MaxRetry + 1 ELSE 1, sent' = Count(i)
  PROVE  Promise!Deliver(i)
<1>1. i \in Posted /\ Outcomes[i] = "open"
  BY DEF Posted, Outcomes, Outcome
<1>2. Posted' = Posted /\ Outcomes' = Outcomes
  BY DEF Posted, Outcomes, Outcome
<1>3. sent[i] < SentCap
  <2>1. sent[i] \in Nat
    BY BoundAssumption DEF TInv, TypeOK
  <2>2. sent[i] <= MaxRetry
    BY <2>1, BoundAssumption
  <2>3. QED
    BY <2>1, <2>2, BoundAssumption DEF Careful
<1>4. sent' = [sent EXCEPT ![i] = @ + 1]
  BY <1>3 DEF Count
<1>5. QED
  BY <1>1, <1>2, <1>4 DEF Promise!Deliver, Posted, Outcomes, Lossy

\* ... or the settlement of an entry.
LEMMA Settles ==
  ASSUME TInv, NEW i \in Item, state[i] \in {"in-progress", "error"}, sent' = sent,
         NEW result \in {"success", "failed"}, state' = [state EXCEPT ![i] = result],
         result = "success" => sent[i] > 0,
         result = "failed" => sent[i] = 0 \/ Lossy
  PROVE  Promise!Settle(i, result)
<1>1. i \in Posted /\ Outcomes[i] = "open"
  BY DEF Posted, Outcomes, Outcome
<1>2. Posted' = Posted
  BY DEF Posted, TInv, TypeOK
<1>3. Outcomes' = [Outcomes EXCEPT ![i] = result]
  BY DEF Outcomes, Outcome, TInv, TypeOK
<1>4. QED
  BY <1>1, <1>2, <1>3 DEF Promise!Settle, Posted, Outcomes, Lossy

\* The steps of transmit_item: only those that deliver, record success or give up are
\* seen from outside.
LEMMA ItemTaskPromise ==
  ASSUME Careful, LockInv, BudgetInv, TruthInv, OpenInv, NEW w \in Worker, ItemTask(w)
  PROVE  Promise!Next \/ UNCHANGED Promise!vars
<1> DEFINE Seen == Promise!Next \/ UNCHANGED Promise!vars
<1> SUFFICES Seen
  OBVIOUS
<1>1. PICK i \in Item : i = cur[w]
  BY ItemTaskLocal DEF LockInv, TInv, CurOK
<1>2. WorkerOpen(w) /\ WorkerFresh(w) /\ WorkerBudget(w) /\ TInv
  BY DEF OpenInv, BudgetInv, LockInv
<1>3. state \in [Item -> QueueState]
  BY <1>2 DEF TInv, TypeOK
<1>4. ASSUME state' = state, sent' = sent PROVE Seen
  BY <1>2, <1>4, Unseen DEF Outcome
<1>5. ASSUME sent' = sent, state[i] \notin {"absent", "success", "failed"},
             NEW s \in QueueState \ {"absent", "success", "failed"},
             state' = [state EXCEPT ![i] = s]
      PROVE  Seen
  BY <1>2, <1>3, <1>5, Unseen DEF Outcome
<1>6. ASSUME pc[w] = "send", state' = state, sent' = Count(i) PROVE Seen
  <2>1. sent[i] <= attempt[i] /\ state[i] = "in-progress" /\ (~Lossy => sent[i] = 0)
    BY <1>1, <1>2, <1>6 DEF WorkerOpen, WorkerFresh, WorkerBudget
  <2>2. sent[i] < IF Lossy THEN MaxRetry + 1 ELSE 1
    BY <2>1, <1>2, BoundAssumption DEF TInv, TypeOK
  <2>3. Promise!Deliver(i)
    BY <1>2, <1>6, <2>1, <2>2, Delivers
  <2>4. QED
    BY <2>3 DEF Promise!Next
<1>7. CASE Read(w) \/ ReadRejects(w) \/ SendInactive(w) \/ HandlerRead(w) \/ HandlerFails(w)
  BY <1>4, <1>7 DEF Read, ReadRejects, SendInactive, Sending, HandlerRead, HandlerFails, queueVars
<1>8. CASE Mark(w)
  BY <1>1, <1>2, <1>5, <1>8 DEF Mark, WorkerOpen, QueueState
<1>9. CASE Send(w)
  BY <1>1, <1>6, <1>9 DEF Send, Sending
<1>10. CASE SendOtherError(w)
  BY <1>1, <1>4, <1>6, <1>10 DEF SendOtherError, Sending, MaybeDelivered
<1>11. ASSUME NEW class \in {"none", "client"}, SendPublishError(w, class) PROVE Seen
  BY <1>1, <1>4, <1>6, <1>11 DEF SendPublishError, Sending, MaybeDelivered
<1>12. CASE Record(w)
  <2>1. state[i] = "in-progress" /\ sent[i] > 0 /\ sent' = sent
        /\ state' = [state EXCEPT ![i] = "success"]
    BY <1>1, <1>2, <1>12 DEF Record, WorkerOpen, TruthInv
  <2>2. Promise!Settle(i, "success")
    BY <1>2, <2>1, Settles
  <2>3. QED
    BY <2>2 DEF Promise!Next
<1>13. CASE MarkError(w)
  BY <1>1, <1>2, <1>5, <1>13 DEF MarkError, WorkerOpen, QueueState
<1>14. CASE HandlerWrite(w)
  <2>1. state[i] \in {"in-progress", "error"} /\ (~Lossy => sent[i] = 0) /\ sent' = sent
    BY <1>1, <1>2, <1>14 DEF HandlerWrite, WorkerOpen, WorkerFresh
  <2>2. CASE state' = [state EXCEPT ![i] = "retrying"]
    BY <1>5, <2>1, <2>2 DEF QueueState
  <2>3. CASE state' = [state EXCEPT ![i] = "failed"]
    <3>1. Promise!Settle(i, "failed")
      BY <1>2, <2>1, <2>3, Settles
    <3>2. QED
      BY <3>1 DEF Promise!Next
  <2>4. QED
    BY <1>1, <1>14, <2>2, <2>3 DEF HandlerWrite, Reschedule, Retry, GiveUp
<1>15. CASE MarkFails(w) \/ RecordFails(w) \/ MarkErrorFails(w) \/ SoftTimeout(w)
  BY <1>15 DEF MarkFails, RecordFails, MarkErrorFails, SoftTimeout, Careful
<1>16. QED
  BY <1>7, <1>8, <1>9, <1>10, <1>11, <1>12, <1>13, <1>14, <1>15 DEF ItemTask

\* The other steps: the enqueue service submits entries, and nothing else is seen.
LEMMA OutsidePromise ==
  ASSUME TInv, NoOverlap, Environment \/ (Outside /\ state' = state)
  PROVE  Promise!Next \/ UNCHANGED Promise!vars
<1>1. ASSUME state' = state, sent' = sent PROVE UNCHANGED Promise!vars
  BY <1>1, Unseen DEF Outcome
<1>2. ASSUME NEW i \in Item, Post(i) PROVE Promise!Next
  <2>1. i \notin Posted /\ sent' = sent
    BY <1>2 DEF Post, PostedState, Posted
  <2>2. Posted' = Posted \cup {i}
    BY <1>2 DEF Post, PostedState, Posted, TInv, TypeOK
  <2>3. Outcomes' = IF i \in Direct THEN [Outcomes EXCEPT ![i] = "success"] ELSE Outcomes
    BY <1>2 DEF Post, PostedState, Outcomes, Outcome, TInv, TypeOK
  <2>4. Promise!Submit(i)
    BY <2>1, <2>2, <2>3 DEF Promise!Submit, Posted, Outcomes
  <2>5. QED
    BY <2>4 DEF Promise!Next
<1>3. ASSUME NEW i \in Item, NEW s, OperatorPatch(i, s) PROVE FALSE
  BY <1>3 DEF OperatorPatch, NoOverlap
<1>4. CASE Outside /\ state' = state
  BY <1>1, <1>4 DEF Outside
<1>5. CASE Environment
  BY <1>1, <1>2, <1>3, <1>5
     DEF Environment, RetryDue, ItemDrop, ItemLockExpires, Crash, ArticlesLockExpires,
         SubLockExpires, OperatorSwitch, Reconfigure, SubDrop, queueVars
<1>6. QED
  BY <1>4, <1>5

LEMMA NextPromise ==
  Careful /\ LockInv /\ BudgetInv /\ TruthInv /\ OpenInv /\ [Next]_vars
    => [Promise!Next]_(Promise!vars)
<1> SUFFICES ASSUME Careful, LockInv, BudgetInv, TruthInv, OpenInv, [Next]_vars
             PROVE  Promise!Next \/ UNCHANGED Promise!vars
  OBVIOUS
<1>1. CASE UNCHANGED vars
  <2>1. sent' = sent /\ state' = state
    BY <1>1 DEF vars
  <2>2. QED
    BY <2>1, Unseen DEF Outcome, LockInv
<1>2. ASSUME NEW w \in Worker, ItemTask(w) PROVE Promise!Next \/ UNCHANGED Promise!vars
  BY <1>2, ItemTaskPromise
<1>3. CASE Environment
  BY <1>3, OutsidePromise DEF LockInv, Careful
<1>4. ASSUME NEW w \in Worker,
             \/ Publish(w) \/ SubTask(w)
             \/ \E m \in SubMsg : SubTake(w, m)
             \/ \E i \in Item : ItemTake(w, i)
      PROVE  Promise!Next \/ UNCHANGED Promise!vars
  <2>1. Outside
    BY <1>4, OtherTasksOutside DEF LockInv
  <2>2. state' = state
    BY <1>4 DEF Publish, PublishStart, DispatchPhase, PublishEnd, SubTask, Fetch, BatchAbort,
                SubRelease, NextAsync, NextSync, SubTake, ItemTake, queueVars
  <2>3. QED
    BY <2>1, <2>2, OutsidePromise DEF LockInv, Careful
<1>5. QED
  BY <1>1, <1>2, <1>3, <1>4 DEF Next

\* With its locks, messages, retries and dying workers the transmission implements
\* Delivery: an entry is handed over before its outcome is settled, at most once when
\* acknowledgements are reliable and at most MAX_TRANSMIT_RETRY_ATTEMPT + 1 times when
\* they get lost; what is called a success was delivered, and nothing the receiver
\* acknowledged is called a failure.
THEOREM Refinement == Careful => (Spec => ImplementsDelivery)
<1> SUFFICES ASSUME Careful PROVE Spec => Promise!Spec
  BY DEF ImplementsDelivery
<1>1. NoOverlap /\ SentCap > 0
  BY BoundAssumption DEF Careful
<1>2. Init => Promise!Init
  BY DEF Init, Promise!Init, Outcome
<1>3. Init => LockInv /\ BudgetInv /\ TruthInv /\ OpenInv
  BY InitLockInv, InitBudget, InitOpen DEF Init, TruthInv, SuccessWasSent
<1>4. LockInv /\ BudgetInv /\ TruthInv /\ OpenInv /\ [Next]_vars
      => (LockInv /\ BudgetInv /\ TruthInv /\ OpenInv)'
  <2>1. LockInv /\ TruthInv /\ [Next]_vars => TruthInv'
    BY <1>1, NextTruth DEF LockInv
  <2>2. QED
    BY <1>1, <2>1, NextLockInv, NextBudget, NextOpen
<1>5. LockInv /\ BudgetInv /\ TruthInv /\ OpenInv /\ [Next]_vars => [Promise!Next]_(Promise!vars)
  BY NextPromise
<1>6. QED
  BY <1>2, <1>3, <1>4, <1>5, PTL DEF Spec, Promise!Spec

-----------------------------------------------------------------------------
(* The order in which a subscriber is served.                              *)

\* The limit on a query cuts off the later entries, never an earlier one.
LEMMA FirstClosed ==
  ASSUME NEW S \in SUBSET Item, NEW i \in First(S), NEW j \in S, j < i
  PROVE  j \in First(S)
<1> DEFINE Before(k) == {m \in S : m < k}
<1>0. First(S) = {k \in S : Cardinality(Before(k)) < QueryLimit}
  BY DEF First
<1> HIDE DEF Before
<1>1. i \in S /\ Cardinality(Before(i)) < QueryLimit
  BY <1>0
<1>2. Before(j) \subseteq Before(i)
  <2>1. i \in Nat /\ \A m \in S : m \in Nat
    BY <1>1, ItemAssumption
  <2>2. \A m \in S : m < j => m < i
    BY <2>1
  <2>3. QED
    BY <2>2 DEF Before
<1>3. IsFiniteSet(Before(i)) /\ IsFiniteSet(Before(j))
  BY FS_Subset, ItemAssumption DEF Before
<1>4. Cardinality(Before(j)) <= Cardinality(Before(i))
  BY <1>2, <1>3, FS_Subset
<1>5. Cardinality(Before(j)) \in Nat /\ Cardinality(Before(i)) \in Nat
  BY <1>3, FS_CardinalityType
<1>6. Cardinality(Before(j)) < QueryLimit
  BY <1>1, <1>4, <1>5, BoundAssumption
<1>7. QED
  BY <1>0, <1>6

-----------------------------------------------------------------------------
\* The enqueue service posts entries in the order of their numbers.
PostOrder == \A i, j \in Item : j < i /\ state[i] # "absent" => state[j] # "absent"

\* Entries between which the code keeps the order.
Same(i, j) == SubscriberOf[j] = SubscriberOf[i] /\ (j \in HighPriority) = (i \in HighPriority)

\* The entry is still as the query of w found it.
Available(w, i) == IF job[w].retries THEN state[i] = "retrying" /\ due[i] ELSE state[i] = "pending"

\* What is pending, of the same kind and earlier is in the batch as well, or is the
\* entry w works on.
Ahead(w, i) ==
  \A j \in Item : j < i /\ Same(i, j) /\ state[j] = "pending" =>
    j \in batch[w] \/ (pc[w] \in Working /\ j = cur[w])

\* What the task of a synchronous subscriber has left to do is as it was fetched, and
\* complete up to the limit.
BatchOrder(w) ==
  ~isAsync[w] /\ pc[w] \in {"next"} \cup Working =>
    \A i \in batch[w] : Available(w, i) /\ (~job[w].retries => Ahead(w, i))

\* The entry it works on comes before the rest of the batch; until it is marked
\* nothing pending comes before it.
CurOrder(w) ==
  ~isAsync[w] /\ pc[w] \in Working =>
    /\ \A i \in batch[w] : cur[w] < i
    /\ pc[w] \in {"read", "mark"} =>
         /\ Available(w, cur[w])
         /\ ~job[w].retries =>
              \A j \in Item : j < cur[w] /\ Same(cur[w], j) => state[j] # "pending"

\* What is past the first check has been posted.
Known(w) == pc[w] \in Working \ {"read"} => state[cur[w]] # "absent"

OrderInv == PostOrder /\ \A w \in Worker : BatchOrder(w) /\ CurOrder(w) /\ Known(w)

-----------------------------------------------------------------------------
\* A step that does not change what worker w is at.
Kept(w) ==
  /\ pc'[w] = pc[w] /\ job'[w] = job[w] /\ isAsync'[w] = isAsync[w]
  /\ batch'[w] = batch[w] /\ cur'[w] = cur[w]

LEMMA TasksKeepOthers ==
  ASSUME TInv, NEW w \in Worker,
         \/ Publish(w) \/ SubTask(w) \/ ItemTask(w)
         \/ \E m \in SubMsg : SubTake(w, m)
         \/ \E i \in Item : ItemTake(w, i)
  PROVE  \A v \in Worker \ {w} : Kept(v)
<1> USE DEF TInv, TypeOK, Kept, localVars, Goto
<1>1. CASE Publish(w)
  BY <1>1 DEF Publish, PublishStart, DispatchPhase, PublishEnd, Idle
<1>2. CASE Fetch(w) \/ BatchAbort(w) \/ SubRelease(w)
  BY <1>2 DEF Fetch, BatchAbort, SubRelease, Idle
<1>3. CASE \E i \in Item : NextAsync(w, i) \/ NextSync(w, i)
  BY <1>3 DEF NextAsync, NextSync
<1>4. CASE \E m \in SubMsg : SubTake(w, m)
  BY <1>4 DEF SubTake
<1>5. CASE \E i \in Item : ItemTake(w, i)
  BY <1>5 DEF ItemTake
<1>6. CASE ItemTask(w)
  BY <1>6, ItemTaskShape DEF Internal, Ending, EndAttempt, Idle
<1>7. QED
  BY <1>1, <1>2, <1>3, <1>4, <1>5, <1>6 DEF SubTask

\* The queue entries as every step but those of transmit_item leaves them.
Gentle ==
  \A i \in Item :
    /\ \/ state'[i] = state[i]
       \/ state[i] = "absent" /\ state'[i] = PostedState(i)
          /\ \A j \in Item : j < i => state[j] # "absent"
    /\ due[i] => due'[i]

LEMMA OtherTasksGentle ==
  ASSUME TInv, NEW w \in Worker,
         \/ Publish(w) \/ SubTask(w)
         \/ \E m \in SubMsg : SubTake(w, m)
         \/ \E i \in Item : ItemTake(w, i)
  PROVE  Gentle
  BY DEF Gentle, queueVars, Publish, PublishStart, DispatchPhase, PublishEnd, SubTask, Fetch,
         BatchAbort, SubRelease, NextAsync, NextSync, SubTake, ItemTake

LEMMA EnvironmentGentle ==
  ASSUME TInv, NoOverlap, Environment
  PROVE  Gentle /\ \A w \in Worker : Kept(w) \/ pc'[w] = "idle"
<1> DEFINE Concl == Gentle /\ \A w \in Worker : Kept(w) \/ pc'[w] = "idle"
<1> SUFFICES Concl
  OBVIOUS
<1> USE DEF TInv, TypeOK, Gentle, Kept, queueVars, localVars
<1>1. ASSUME NEW i \in Item, Post(i) \/ RetryDue(i) \/ ItemDrop(i) \/ ItemLockExpires(i)
      PROVE  Concl
  BY <1>1 DEF Post, PostedState, RetryDue, ItemDrop, ItemLockExpires
<1>2. ASSUME NEW i \in Item, NEW s, OperatorPatch(i, s) PROVE FALSE
  BY <1>2 DEF OperatorPatch, NoOverlap
<1>3. ASSUME NEW w \in Worker, Crash(w) PROVE Concl
  BY <1>3 DEF Crash, Idle, Goto
<1>4. CASE ArticlesLockExpires
  BY <1>4 DEF ArticlesLockExpires
<1>5. ASSUME NEW s \in Subscriber, SubLockExpires(s) \/ OperatorSwitch(s) \/ Reconfigure(s)
      PROVE  Concl
  BY <1>5 DEF SubLockExpires, OperatorSwitch, Reconfigure
<1>6. CASE \E m \in SubMsg : SubDrop(m)
  BY <1>6 DEF SubDrop
<1>7. QED
  BY <1>1, <1>2, <1>3, <1>4, <1>5, <1>6 DEF Environment

\* The environment leaves a worker as it is, or kills it.
LEMMA EnvironmentKeeps ==
  ASSUME TInv, Environment
  PROVE  \A w \in Worker : Kept(w) \/ pc'[w] = "idle"
<1> USE DEF TInv, TypeOK, Kept, localVars
<1>1. ASSUME NEW w \in Worker, Crash(w) PROVE \A v \in Worker : Kept(v) \/ pc'[v] = "idle"
  BY <1>1 DEF Crash, Idle, Goto
<1>2. QED
  BY <1>1 DEF Environment, Post, PostedState, RetryDue, ItemDrop, ItemLockExpires, OperatorPatch,
              ArticlesLockExpires, SubLockExpires, OperatorSwitch, Reconfigure, SubDrop

\* A worker that is left as it was keeps the order through such a step.
LEMMA KeptOrder ==
  ASSUME TInv, PostOrder, Gentle, NEW w \in Worker, Kept(w), BatchOrder(w), CurOrder(w)
  PROVE  BatchOrder(w)' /\ CurOrder(w)'
<1>1. ASSUME NEW i \in Item, Available(w, i)
      PROVE  Available(w, i)' /\ \A j \in Item : j < i /\ state'[j] = "pending" => state[j] = "pending"
  BY <1>1 DEF Available, Gentle, Kept, PostOrder
<1>2. batch[w] \subseteq Item /\ (pc[w] \in Working => cur[w] \in Item)
  BY DEF TInv, TypeOK, CurOK
<1>3. BatchOrder(w)'
  BY <1>1, <1>2 DEF BatchOrder, Ahead, Kept
<1>4. CurOrder(w)'
  <2>1. SUFFICES ASSUME ~isAsync[w], pc[w] \in {"read", "mark"}
                 PROVE  /\ Available(w, cur[w])'
                        /\ ~job[w].retries =>
                             \A j \in Item : j < cur[w] /\ Same(cur[w], j) => state'[j] # "pending"
    BY DEF CurOrder, Kept, Same
  <2>2. PICK i \in Item : i = cur[w] /\ i = cur'[w]
    BY <2>1, <1>2 DEF Kept, Working
  <2>3. Available(w, i)
    BY <2>1, <2>2 DEF CurOrder, Working
  <2>4. QED
    BY <1>1, <2>1, <2>2, <2>3 DEF CurOrder, Working
<1>5. QED
  BY <1>3, <1>4

LEMMA GentlePostOrder ==
  ASSUME PostOrder, Gentle PROVE PostOrder'
  BY DEF PostOrder, Gentle

\* A step of transmit_item changes the next retry of no other entry.
LEMMA ItemTaskDue ==
  ASSUME TInv, NEW w \in Worker, ItemTask(w)
  PROVE  \A i \in Item \ {cur[w]} : due'[i] = due[i]
<1> USE DEF TInv, TypeOK, queueVars
<1>1. CASE HandlerWrite(w)
  BY <1>1 DEF HandlerWrite, Reschedule, Retry, GiveUp
<1>2. CASE Read(w) \/ ReadRejects(w) \/ Mark(w) \/ MarkFails(w) \/ SendInactive(w) \/ Send(w)
  BY <1>2 DEF Read, ReadRejects, Mark, MarkFails, SendInactive, Sending, Send
<1>3. CASE SendOtherError(w) \/ \E class \in {"none", "client"} : SendPublishError(w, class)
  BY <1>3 DEF SendOtherError, Sending, SendPublishError
<1>4. CASE Record(w) \/ RecordFails(w) \/ MarkError(w) \/ MarkErrorFails(w)
  BY <1>4 DEF Record, RecordFails, MarkError, MarkErrorFails
<1>5. CASE SoftTimeout(w) \/ HandlerRead(w) \/ HandlerFails(w)
  BY <1>5 DEF SoftTimeout, HandlerRead, HandlerFails
<1>6. QED
  BY <1>1, <1>2, <1>3, <1>4, <1>5 DEF ItemTask

\* Inside transmit_item nothing is written before the entry is marked, and the loop goes
\* on with the rest of its batch only after a success.
LEMMA ItemTaskProgress ==
  ASSUME TInv, NEW w \in Worker, ItemTask(w), ~isAsync[w]
  PROVE  /\ pc[w] \in Working
         /\ job'[w] = job[w] /\ isAsync'[w] = isAsync[w]
         /\ \/ /\ pc'[w] \in Working /\ batch'[w] = batch[w] /\ cur'[w] = cur[w]
               /\ pc'[w] \in {"read", "mark"} => pc[w] = "read" /\ state' = state /\ due' = due
            \/ pc'[w] = "next" /\ batch'[w] = {}
            \/ pc'[w] = "next" /\ batch'[w] = batch[w] /\ state'[cur[w]] = "success"
<1> USE DEF TInv, TypeOK, CurOK, queueVars, localVars, Goto, Working
<1>1. CASE ReadRejects(w) \/ HandlerWrite(w) \/ HandlerFails(w)
  BY <1>1 DEF ReadRejects, HandlerWrite, HandlerFails, EndAttempt
<1>2. CASE Record(w)
  BY <1>2 DEF Record, EndAttempt
<1>3. CASE Read(w)
  BY <1>3 DEF Read
<1>4. CASE Mark(w) \/ MarkFails(w) \/ SendInactive(w) \/ Send(w) \/ SendOtherError(w)
  BY <1>4 DEF Mark, MarkFails, SendInactive, Sending, Send, SendOtherError, Raise
<1>5. CASE \E class \in {"none", "client"} : SendPublishError(w, class)
  BY <1>5 DEF SendPublishError, Sending
<1>6. CASE RecordFails(w) \/ MarkError(w) \/ MarkErrorFails(w) \/ SoftTimeout(w) \/ HandlerRead(w)
  BY <1>6 DEF RecordFails, MarkError, MarkErrorFails, SoftTimeout, HandlerRead, Raise
<1>7. QED
  BY <1>1, <1>2, <1>3, <1>4, <1>5, <1>6 DEF ItemTask

LEMMA ItemTaskOrder ==
  ASSUME LockInv, NEW w \in Worker, ItemTask(w), BatchOrder(w), CurOrder(w)
  PROVE  BatchOrder(w)' /\ CurOrder(w)'
<1>1. PICK k \in Item : k = cur[w]
  BY ItemTaskLocal DEF LockInv, TInv, CurOK
<1>2. TInv /\ batch[w] \subseteq Item
  BY DEF LockInv, TInv, TypeOK
<1>3. \A i \in Item \ {k} : state'[i] = state[i] /\ due'[i] = due[i]
  BY <1>1, <1>2, ItemTaskLocal, ItemTaskDue
<1>4. CASE isAsync[w]
  <2>1. isAsync'[w] \/ pc'[w] = "idle"
    BY <1>2, <1>4, ItemTaskShape DEF Internal, Ending, EndAttempt, Idle, Goto, TInv, TypeOK
  <2>2. QED
    BY <2>1 DEF BatchOrder, CurOrder, Working
<1>5. CASE ~isAsync[w]
  <2> DEFINE Rest(i) == Available(w, i) /\ (~job[w].retries => Ahead(w, i))
  <2>1. \A i \in batch[w] : Rest(i) /\ i # k /\ k < i
    BY <1>1, <1>2, <1>5, ItemTaskProgress, ItemAssumption DEF BatchOrder, CurOrder
  <2>2. job'[w] = job[w] /\ isAsync'[w] = isAsync[w] /\ pc[w] \in Working
    BY <1>2, <1>5, ItemTaskProgress
  <2>3. \A i \in batch[w] : Available(w, i)'
    BY <1>2, <1>3, <2>1, <2>2 DEF Available
  <2>4. CASE /\ pc'[w] \in Working /\ batch'[w] = batch[w] /\ cur'[w] = cur[w]
             /\ pc'[w] \in {"read", "mark"} => pc[w] = "read" /\ state' = state /\ due' = due
    <3>1. ASSUME NEW i \in batch[w], ~job[w].retries PROVE Ahead(w, i)'
      BY <1>1, <1>3, <2>1, <2>2, <2>4, <3>1 DEF Ahead, Same
    <3>2. BatchOrder(w)'
      BY <2>2, <2>3, <2>4, <3>1 DEF BatchOrder
    <3>3. ASSUME pc'[w] \in {"read", "mark"}
          PROVE  Available(w, k)' /\ (~job[w].retries =>
                   \A j \in Item : j < k /\ Same(k, j) => state'[j] # "pending")
      BY <1>1, <1>5, <2>2, <2>4, <3>3 DEF CurOrder, Available
    <3>4. CurOrder(w)'
      BY <1>1, <2>1, <2>2, <2>4, <3>3 DEF CurOrder, Same
    <3>5. QED
      BY <3>2, <3>4
  <2>5. CASE pc'[w] = "next" /\ batch'[w] = {}
    BY <2>5 DEF BatchOrder, CurOrder, Working
  <2>6. CASE pc'[w] = "next" /\ batch'[w] = batch[w] /\ state'[k] = "success"
    <3>1. ASSUME NEW i \in batch[w], ~job[w].retries PROVE Ahead(w, i)'
      BY <1>1, <1>3, <2>1, <2>6, <3>1 DEF Ahead, Same
    <3>2. QED
      BY <2>2, <2>3, <2>6, <3>1 DEF BatchOrder, CurOrder, Working
  <2>7. QED
    BY <1>1, <1>2, <1>5, <2>4, <2>5, <2>6, ItemTaskProgress
<1>6. QED
  BY <1>4, <1>5

\* Nobody else works on the entries of a synchronous subscriber.
LEMMA SyncAlone ==
  ASSUME LockInv, NEW w \in Worker, ~isAsync[w], pc[w] \in {"next"} \cup Working,
         NEW v \in Worker, v # w, pc[v] \in Working
  PROVE  SubscriberOf[cur[v]] # job[w].sub
<1>1. /\ subLock[job[w].sub] = w
      /\ isAsync[w] = asyncSub[job[w].sub]
  BY DEF LockInv, BatchOK, Batching
<1>2. SUFFICES ASSUME SubscriberOf[cur[v]] = job[w].sub PROVE FALSE
  OBVIOUS
<1>3. ~isAsync[v] /\ job[v].sub = job[w].sub
  BY <1>1, <1>2 DEF LockInv, WorkOK
<1>4. subLock[job[v].sub] = v
  BY <1>3 DEF LockInv, BatchOK
<1>5. QED
  BY <1>1, <1>3, <1>4

LEMMA OtherItemTaskOrder ==
  ASSUME LockInv, NEW v \in Worker, ItemTask(v), NEW w \in Worker, w # v,
         BatchOrder(w), CurOrder(w)
  PROVE  BatchOrder(w)' /\ CurOrder(w)'
<1>1. Kept(w)
  BY TasksKeepOthers DEF LockInv
<1>2. SUFFICES ASSUME ~isAsync[w], pc[w] \in {"next"} \cup Working
               PROVE  BatchOrder(w)' /\ CurOrder(w)'
  BY <1>1 DEF BatchOrder, CurOrder, Kept
<1>3. \A i \in Item : SubscriberOf[i] = job[w].sub => state'[i] = state[i] /\ due'[i] = due[i]
  <2>1. pc[v] \in Working /\ TInv
    BY ItemTaskLocal DEF LockInv
  <2>2. SubscriberOf[cur[v]] # job[w].sub
    BY <1>2, <2>1, SyncAlone
  <2>3. QED
    BY <2>1, <2>2, ItemTaskLocal, ItemTaskDue
<1>4. /\ \A i \in batch[w] : i \in Item /\ SubscriberOf[i] = job[w].sub
      /\ pc[w] \in Working => cur[w] \in Item /\ SubscriberOf[cur[w]] = job[w].sub
  BY <1>2 DEF LockInv, BatchOK, WorkOK, Batching, TInv, TypeOK, CurOK, Working
<1>5. BatchOrder(w)'
  BY <1>1, <1>2, <1>3, <1>4 DEF BatchOrder, Available, Ahead, Same, Kept
<1>6. CurOrder(w)'
  BY <1>1, <1>2, <1>3, <1>4 DEF CurOrder, Available, Same, Kept, Working
<1>7. QED
  BY <1>5, <1>6

\* The worker's own steps outside transmit_item: a batch is complete when it is
\* fetched, and its first entry is taken.
LEMMA OwnOrder ==
  ASSUME LockInv, NEW w \in Worker, BatchOrder(w), CurOrder(w),
         \/ Publish(w) \/ SubTask(w)
         \/ \E m \in SubMsg : SubTake(w, m)
         \/ \E i \in Item : ItemTake(w, i)
  PROVE  BatchOrder(w)' /\ CurOrder(w)'
<1> DEFINE Concl == BatchOrder(w)' /\ CurOrder(w)'
<1> SUFFICES Concl
  OBVIOUS
<1> USE DEF LockInv, TInv, TypeOK, queueVars, localVars, Goto, Working
<1>1. ASSUME pc'[w] \notin {"next"} \cup Working PROVE Concl
  BY <1>1 DEF BatchOrder, CurOrder
<1>2. CASE Publish(w)
  <2>1. pc'[w] \in {"dispatch", "idle"}
    BY <1>2 DEF Publish, PublishStart, DispatchPhase, PublishEnd, Idle
  <2>2. QED
    BY <1>1, <2>1
<1>3. CASE \E m \in SubMsg : SubTake(w, m)
  BY <1>1, <1>3 DEF SubTake
<1>4. ASSUME NEW i \in Item, ItemTake(w, i) PROVE Concl
  <2>1. isAsync'[w]
    BY <1>4 DEF ItemTake
  <2>2. QED
    BY <2>1 DEF BatchOrder, CurOrder
<1>5. CASE SubRelease(w)
  BY <1>1, <1>5 DEF SubRelease, Idle
<1>6. CASE BatchAbort(w)
  BY <1>6 DEF BatchAbort, BatchOrder, CurOrder
<1>7. CASE Fetch(w)
  <2> DEFINE S == Eligible(job[w].sub, job[w].retries, job[w].priority)
  <2>1. /\ pc'[w] = "next" /\ job' = job /\ state' = state /\ due' = due
        /\ batch'[w] = First(S)
    BY <1>7 DEF Fetch
  <2>2. S \subseteq Item /\ First(S) \subseteq S
    BY DEF Eligible, First
  <2>3. \A i \in S : Available(w, i)
    BY DEF Eligible, Available
  <2>4. ASSUME NEW i \in First(S), ~job[w].retries, NEW j \in Item, j < i, Same(i, j),
               state[j] = "pending"
        PROVE  j \in First(S)
    <3>1. i \in S
      BY <2>2
    <3>2. j \in S
      BY <3>1, <2>4 DEF Eligible, Same
    <3>3. QED
      BY <2>2, <2>4, <3>2, FirstClosed
  <2>5. ASSUME NEW i \in First(S) PROVE Available(w, i)' /\ (~job'[w].retries => Ahead(w, i)')
    <3>1. Available(w, i)'
      BY <2>1, <2>2, <2>3 DEF Available
    <3>2. ~job'[w].retries => Ahead(w, i)'
      BY <2>1, <2>4 DEF Ahead, Same
    <3>3. QED
      BY <3>1, <3>2
  <2>6. QED
    BY <2>1, <2>5 DEF BatchOrder, CurOrder
<1>8. ASSUME NEW i \in Item, NextAsync(w, i) PROVE Concl
  <2>1. isAsync'[w]
    BY <1>8 DEF NextAsync
  <2>2. QED
    BY <2>1 DEF BatchOrder, CurOrder
<1>9. ASSUME NEW i \in Item, NextSync(w, i) PROVE Concl
  <2>1. /\ pc[w] = "next" /\ ~isAsync[w] /\ i \in batch[w] /\ \A j \in batch[w] : i <= j
        /\ pc'[w] = "read" /\ cur'[w] = i /\ batch'[w] = batch[w] \ {i}
        /\ job' = job /\ state' = state /\ due' = due
    BY <1>9 DEF NextSync, IsNext
  <2>2. \A j \in batch[w] : Available(w, j) /\ (~job[w].retries => Ahead(w, j))
    BY <2>1 DEF BatchOrder
  <2>3. \A j \in batch'[w] : i < j
    <3>1. SUFFICES ASSUME NEW j \in batch'[w] PROVE i < j
      OBVIOUS
    <3>2. j \in batch[w] /\ j # i /\ i <= j
      BY <2>1
    <3>3. i \in Nat /\ j \in Nat
      BY <3>2, ItemAssumption
    <3>4. QED
      BY <3>2, <3>3
  <2>4. ASSUME ~job[w].retries, NEW j \in Item, j < i, Same(i, j), state[j] = "pending"
        PROVE  FALSE
    <3>1. j \in batch[w]
      BY <2>1, <2>2, <2>4 DEF Ahead
    <3>2. i \in Nat /\ j \in Nat
      BY ItemAssumption
    <3>3. QED
      BY <2>1, <2>4, <3>1, <3>2
  <2>5. ASSUME NEW j \in batch'[w] PROVE Available(w, j)' /\ (~job'[w].retries => Ahead(w, j)')
    BY <2>1, <2>2 DEF Available, Ahead, Same
  <2>6. Available(w, i)'
    BY <2>1, <2>2 DEF Available
  <2>7. BatchOrder(w)'
    BY <2>5 DEF BatchOrder
  <2>8. CurOrder(w)'
    BY <2>1, <2>3, <2>4, <2>6 DEF CurOrder, Same
  <2>9. QED
    BY <2>7, <2>8
<1>10. QED
  BY <1>2, <1>3, <1>4, <1>5, <1>6, <1>7, <1>8, <1>9 DEF SubTask

\* The steps of transmit_item post nothing and unpost nothing.
LEMMA ItemTaskPosted ==
  ASSUME TInv, NEW w \in Worker, Known(w), ItemTask(w)
  PROVE  Known(w)' /\ \A i \in Item : (state'[i] = "absent") = (state[i] = "absent")
<1> DEFINE Concl == Known(w)' /\ \A i \in Item : (state'[i] = "absent") = (state[i] = "absent")
<1> SUFFICES Concl
  OBVIOUS
<1> USE DEF Known, TInv, TypeOK, CurOK, QueueState, queueVars, localVars, Goto, Working
<1>0. ASSUME NEW ok \in BOOLEAN, EndAttempt(w, ok) PROVE pc'[w] \in {"idle", "next"}
  BY <1>0 DEF EndAttempt, Idle
<1>1. CASE ReadRejects(w) \/ HandlerFails(w)
  BY <1>0, <1>1 DEF ReadRejects, HandlerFails
<1>2. CASE HandlerWrite(w)
  BY <1>0, <1>2 DEF HandlerWrite, Reschedule, Retry, GiveUp
<1>3. CASE Record(w)
  BY <1>0, <1>3 DEF Record
<1>4. CASE Read(w)
  BY <1>4 DEF Read, Sendable
<1>5. CASE Mark(w) \/ MarkFails(w) \/ SendInactive(w) \/ Send(w) \/ SendOtherError(w)
  BY <1>5 DEF Mark, MarkFails, SendInactive, Sending, Send, SendOtherError, Raise
<1>6. CASE \E class \in {"none", "client"} : SendPublishError(w, class)
  BY <1>6 DEF SendPublishError, Sending
<1>7. CASE RecordFails(w) \/ MarkError(w) \/ MarkErrorFails(w) \/ SoftTimeout(w) \/ HandlerRead(w)
  BY <1>7 DEF RecordFails, MarkError, MarkErrorFails, SoftTimeout, HandlerRead, Raise
<1>8. QED
  BY <1>1, <1>2, <1>3, <1>4, <1>5, <1>6, <1>7 DEF ItemTask

LEMMA KeptKnown ==
  ASSUME TInv, NEW w \in Worker, Known(w), Kept(w) \/ pc'[w] \notin Working \ {"read"},
         \A i \in Item : state[i] # "absent" => state'[i] # "absent"
  PROVE  Known(w)'
  BY DEF Known, Kept, TInv, CurOK, Working

LEMMA OwnStepsOutside ==
  ASSUME TInv, NEW w \in Worker,
         \/ Publish(w) \/ SubTask(w)
         \/ \E m \in SubMsg : SubTake(w, m)
         \/ \E i \in Item : ItemTake(w, i)
  PROVE  pc'[w] \notin Working \ {"read"}
  BY DEF Publish, PublishStart, DispatchPhase, PublishEnd, SubTask, Fetch, BatchAbort, SubRelease,
         NextAsync, NextSync, SubTake, ItemTake, Idle, Goto, TInv, TypeOK, Working

LEMMA NextOrder == NoOverlap /\ LockInv /\ OrderInv /\ [Next]_vars => OrderInv'
<1> SUFFICES ASSUME NoOverlap, LockInv, OrderInv, [Next]_vars PROVE OrderInv'
  OBVIOUS
<1>0. TInv /\ PostOrder /\ \A w \in Worker : BatchOrder(w) /\ CurOrder(w) /\ Known(w)
  BY DEF LockInv, OrderInv
<1>1. CASE UNCHANGED vars
  BY <1>1 DEF vars, OrderInv, PostOrder, BatchOrder, CurOrder, Available, Ahead, Same, Known
<1>2. ASSUME NEW w \in Worker, ItemTask(w) PROVE OrderInv'
  <2>1. BatchOrder(w)' /\ CurOrder(w)'
    BY <1>0, <1>2, ItemTaskOrder
  <2>2. \A v \in Worker \ {w} : BatchOrder(v)' /\ CurOrder(v)'
    BY <1>0, <1>2, OtherItemTaskOrder
  <2>3. Known(w)' /\ \A i \in Item : (state'[i] = "absent") = (state[i] = "absent")
    BY <1>0, <1>2, ItemTaskPosted
  <2>4. PostOrder'
    BY <1>0, <2>3 DEF PostOrder
  <2>5. \A v \in Worker \ {w} : Known(v)'
    BY <1>0, <1>2, <2>3, TasksKeepOthers, KeptKnown
  <2>6. QED
    BY <2>1, <2>2, <2>3, <2>4, <2>5 DEF OrderInv
<1>3. ASSUME NEW w \in Worker,
             \/ Publish(w) \/ SubTask(w)
             \/ \E m \in SubMsg : SubTake(w, m)
             \/ \E i \in Item : ItemTake(w, i)
      PROVE  OrderInv'
  <2>1. Gentle /\ \A v \in Worker \ {w} : Kept(v)
    BY <1>0, <1>3, OtherTasksGentle, TasksKeepOthers
  <2>2. \A v \in Worker \ {w} : BatchOrder(v)' /\ CurOrder(v)'
    BY <1>0, <2>1, KeptOrder
  <2>3. BatchOrder(w)' /\ CurOrder(w)'
    BY <1>0, <1>3, OwnOrder
  <2>4. \A v \in Worker : Kept(v) \/ pc'[v] \notin Working \ {"read"}
    <3>1. pc'[w] \notin Working \ {"read"}
      BY <1>0, <1>3, OwnStepsOutside
    <3>2. QED
      BY <2>1, <3>1
  <2>5. \A v \in Worker : Known(v)'
    BY <1>0, <2>1, <2>4, KeptKnown DEF Gentle
  <2>6. QED
    BY <1>0, <2>1, <2>2, <2>3, <2>5, GentlePostOrder DEF OrderInv
<1>4. CASE Environment
  <2>1. Gentle /\ \A v \in Worker : Kept(v) \/ pc'[v] = "idle"
    BY <1>0, <1>4, EnvironmentGentle
  <2>2. ASSUME NEW v \in Worker PROVE BatchOrder(v)' /\ CurOrder(v)' /\ Known(v)'
    <3>1. CASE Kept(v)
      BY <1>0, <2>1, <3>1, KeptOrder, KeptKnown DEF Gentle
    <3>2. CASE pc'[v] = "idle"
      BY <3>2 DEF BatchOrder, CurOrder, Known, Working
    <3>3. QED
      BY <2>1, <3>1, <3>2
  <2>3. QED
    BY <1>0, <2>1, <2>2, GentlePostOrder DEF OrderInv
<1>5. QED
  BY <1>1, <1>2, <1>3, <1>4 DEF Next

LEMMA InitOrder == Init => OrderInv
  BY DEF Init, OrderInv, PostOrder, BatchOrder, CurOrder, Known, Working

\* At the moment of marking an entry the order holds.
LEMMA OrderAtMark ==
  ASSUME LockInv, OrderInv, NEW i \in Item, Begins(i), ~asyncSub[SubscriberOf[i]]
  PROVE  /\ state[i] = "retrying" => due[i]
         /\ state[i] = "pending" =>
              \A j \in Item : j < i /\ Same(i, j) => state[j] # "pending"
<1>1. PICK w \in Worker : pc[w] = "mark" /\ cur[w] = i
  BY DEF Begins
<1>2. ~isAsync[w]
  BY <1>1 DEF LockInv, WorkOK, Working
<1>3. /\ Available(w, i)
      /\ ~job[w].retries => \A j \in Item : j < i /\ Same(i, j) => state[j] # "pending"
  BY <1>1, <1>2 DEF OrderInv, CurOrder, Working
<1>4. QED
  BY <1>3 DEF Available

\* For a subscriber served synchronously the first attempt at an entry comes after the
\* first attempts at all earlier entries of its priority, whatever errors, crashes and
\* limits cut batches short, as long as transmissions do not overlap.
THEOREM FirstAttemptsInOrder == NoOverlap => (Spec => SyncInOrder)
<1> SUFFICES ASSUME NoOverlap PROVE Spec => SyncInOrder
  OBVIOUS
<1> DEFINE Step(i) == Begins(i) /\ state[i] = "pending" /\ ~asyncSub[SubscriberOf[i]] =>
                        \A j \in Item : /\ j < i
                                        /\ SubscriberOf[j] = SubscriberOf[i]
                                        /\ (j \in HighPriority) = (i \in HighPriority)
                                        => state[j] # "pending"
<1>1. LockInv /\ OrderInv /\ [Next]_vars => (LockInv /\ OrderInv)'
  BY NextLockInv, NextOrder
<1>2. LockInv /\ OrderInv => \A i \in Item : Step(i)
  BY OrderAtMark DEF Same
<1>3. LockInv /\ OrderInv /\ [Next]_vars => [\A i \in Item : Step(i)]_vars
  BY <1>2
<1>4. QED
  BY <1>1, <1>3, InitLockInv, InitOrder, PTL DEF Spec, SyncInOrder

\* A synchronous subscriber's entry that waits for a retry is not attempted before it
\* is due.
THEOREM RetriesWait == NoOverlap => (Spec => SyncRetryWaits)
<1> SUFFICES ASSUME NoOverlap PROVE Spec => SyncRetryWaits
  OBVIOUS
<1> DEFINE Step(i) == Begins(i) /\ state[i] = "retrying" /\ ~asyncSub[SubscriberOf[i]] => due[i]
<1>1. LockInv /\ OrderInv /\ [Next]_vars => (LockInv /\ OrderInv)'
  BY NextLockInv, NextOrder
<1>2. LockInv /\ OrderInv => \A i \in Item : Step(i)
  BY OrderAtMark
<1>3. LockInv /\ OrderInv /\ [Next]_vars => [\A i \in Item : Step(i)]_vars
  BY <1>2
<1>4. QED
  BY <1>1, <1>3, InitLockInv, InitOrder, PTL DEF Spec, SyncRetryWaits
-----------------------------------------------------------------------------
(* What has been posted, under every kind of fault.                        *)

\* Only what has been posted is delivered, and none of it is taken back.
SentKnown == (\A i \in Item : sent[i] > 0 => state[i] # "absent") /\ \A w \in Worker : Known(w)

StaysPosted == \A i \in Item : state[i] # "absent" => state'[i] # "absent"

LEMMA InitSentKnown == Init => SentKnown
  BY DEF Init, SentKnown, Known, Working

LEMMA NextSentKnown == TInv /\ SentKnown /\ [Next]_vars => SentKnown' /\ StaysPosted
<1> SUFFICES ASSUME TInv, SentKnown, [Next]_vars PROVE SentKnown' /\ StaysPosted
  OBVIOUS
<1>1. CASE UNCHANGED vars
  BY <1>1 DEF vars, SentKnown, Known, StaysPosted
<1>2. ASSUME NEW w \in Worker, ItemTask(w) PROVE SentKnown' /\ StaysPosted
  <2>1. Known(w)' /\ \A i \in Item : (state'[i] = "absent") = (state[i] = "absent")
    BY <1>2, ItemTaskPosted DEF SentKnown
  <2>2. \A v \in Worker \ {w} : Known(v)'
    BY <1>2, <2>1, TasksKeepOthers, KeptKnown DEF SentKnown
  <2>3. cur[w] \in Item /\ pc[w] \in Working
    BY <1>2, ItemTaskLocal DEF TInv, CurOK
  <2>4. \A i \in Item \ {cur[w]} : sent'[i] = sent[i]
    BY <1>2, ItemTaskLocal
  <2>5. pc[w] = "send" => state[cur[w]] # "absent"
    BY DEF SentKnown, Known, Working
  <2>6. pc[w] # "send" => sent' = sent
    BY <1>2 DEF ItemTask, queueVars, Read, ReadRejects, Mark, MarkFails, SendInactive, Sending, Send,
                SendOtherError, Sending, SendPublishError, Record, RecordFails, MarkError, MarkErrorFails,
                SoftTimeout, HandlerRead, HandlerWrite, HandlerFails
  <2>7. \A i \in Item : sent'[i] > 0 => state'[i] # "absent"
    BY <2>1, <2>4, <2>5, <2>6 DEF SentKnown
  <2>8. QED
    BY <2>1, <2>2, <2>7 DEF SentKnown, StaysPosted
<1>3. ASSUME StaysPosted, sent' = sent,
             \A v \in Worker : Kept(v) \/ pc'[v] \notin Working \ {"read"}
      PROVE  SentKnown'
  BY <1>3, KeptKnown DEF SentKnown, StaysPosted
<1>4. ASSUME NEW w \in Worker,
             \/ Publish(w) \/ SubTask(w)
             \/ \E m \in SubMsg : SubTake(w, m)
             \/ \E i \in Item : ItemTake(w, i)
      PROVE  SentKnown' /\ StaysPosted
  <2>1. Outside /\ StaysPosted
    BY <1>4, OtherTasksOutside DEF Outside, StaysPosted
  <2>2. \A v \in Worker : Kept(v) \/ pc'[v] \notin Working \ {"read"}
    BY <1>4, TasksKeepOthers, OwnStepsOutside
  <2>3. QED
    BY <1>3, <2>1, <2>2 DEF Outside
<1>5. CASE Environment
  <2>1. StaysPosted /\ sent' = sent
    BY <1>5, EnvironmentOutside DEF Outside, OperatorPatch, StaysPosted, TInv, TypeOK
  <2>2. \A v \in Worker : Kept(v) \/ pc'[v] = "idle"
    BY <1>5, EnvironmentKeeps
  <2>3. QED
    BY <1>3, <2>1, <2>2 DEF Working
<1>6. QED
  BY <1>1, <1>2, <1>4, <1>5 DEF Next
-----------------------------------------------------------------------------
(* A synchronous subscriber that has an entry gets an earlier one by retry. *)

\* Entry j has its turn: it is past its first state, or a worker is about to mark it.
\* One for the content API has none.
Reached(j) ==
  /\ j \notin Direct
  /\ \/ state[j] \notin {"absent", "pending"}
     \/ \E w \in Worker : pc[w] \in Working \ {"read"} /\ cur[w] = j

EntryTurn(i) ==
  /\ state[i] = "retrying" => attempt[i] > 0
  /\ sent[i] > 0 => state[i] \notin {"absent", "pending"} /\ i \notin Direct

\* Once j has its turn the entry i before it has had its first attempt; if i is on its
\* way again, that is a retry.
Passed(i) == /\ state[i] # "pending"
             /\ \A w \in Worker : pc[w] = "send" /\ cur[w] = i => attempt[i] > 0

TurnsInv ==
  /\ \A i \in Item : EntryTurn(i)
  /\ \A i, j \in Item :
       i < j /\ Same(i, j) /\ ~asyncSub[SubscriberOf[i]] /\ Reached(j) => Passed(i)

LEMMA InitTurns == Init => TurnsInv
  BY DEF Init, TurnsInv, EntryTurn, Reached, Working

\* The fields of an entry under the steps of transmit_item: what is pending was so
\* before, a retry is counted, and only "send" delivers.
LEMMA ItemTaskFields ==
  ASSUME TInv, NEW w \in Worker, ItemTask(w), NEW k \in Item, k = cur[w]
  PROVE  /\ state'[k] \in {"absent", "pending"} => state'[k] = state[k]
         /\ state'[k] = "retrying" =>
              attempt'[k] > 0 \/ (state[k] = "retrying" /\ attempt'[k] = attempt[k])
         /\ pc[w] # "send" \/ k \in Direct => sent' = sent
         /\ pc[w] = "send" => state'[k] = state[k]
         /\ pc'[w] = "send" => pc[w] = "mark" /\ attempt' = attempt
         /\ pc[w] = "read" => state' = state
<1> DEFINE Concl ==
         /\ state'[k] \in {"absent", "pending"} => state'[k] = state[k]
         /\ state'[k] = "retrying" =>
              attempt'[k] > 0 \/ (state[k] = "retrying" /\ attempt'[k] = attempt[k])
         /\ pc[w] # "send" \/ k \in Direct => sent' = sent
         /\ pc[w] = "send" => state'[k] = state[k]
         /\ pc'[w] = "send" => pc[w] = "mark" /\ attempt' = attempt
         /\ pc[w] = "read" => state' = state
<1> SUFFICES Concl
  OBVIOUS
<1> USE DEF TInv, TypeOK, queueVars, localVars, Goto
<1>0. ASSUME NEW ok \in BOOLEAN, EndAttempt(w, ok) PROVE pc'[w] \in {"idle", "next"}
  BY <1>0 DEF EndAttempt, Idle
<1>1. CASE ReadRejects(w) \/ HandlerFails(w)
  BY <1>0, <1>1 DEF ReadRejects, HandlerFails
<1>2. CASE HandlerWrite(w)
  <2>1. pc'[w] \in {"idle", "next"} /\ sent' = sent /\ pc[w] = "reschedule"
    BY <1>0, <1>2 DEF HandlerWrite
  <2>2. CASE GiveUp(k)
    BY <2>1, <2>2 DEF GiveUp
  <2>3. CASE Retry(k, seen[w] + 1)
    <3>1. seen[w] \in 0..MaxRetry
      OBVIOUS
    <3>2. attempt'[k] = seen[w] + 1 /\ state'[k] = "retrying"
      BY <2>3 DEF Retry
    <3>3. seen[w] + 1 > 0
      BY <3>1, BoundAssumption
    <3>4. QED
      BY <2>1, <3>2, <3>3
  <2>4. QED
    BY <1>2, <2>2, <2>3 DEF HandlerWrite, Reschedule
<1>3. CASE Record(w)
  BY <1>0, <1>3 DEF Record
<1>4. CASE Read(w) \/ Mark(w)
  BY <1>4 DEF Read, Mark
<1>5. CASE MarkFails(w) \/ SendInactive(w) \/ Send(w) \/ SendOtherError(w)
  BY <1>5 DEF MarkFails, SendInactive, Sending, Send, SendOtherError, Raise
<1>6. CASE \E class \in {"none", "client"} : SendPublishError(w, class)
  BY <1>6 DEF SendPublishError, Sending
<1>7. CASE RecordFails(w) \/ MarkError(w) \/ MarkErrorFails(w) \/ SoftTimeout(w) \/ HandlerRead(w)
  BY <1>7 DEF RecordFails, MarkError, MarkErrorFails, SoftTimeout, HandlerRead, Raise
<1>8. QED
  BY <1>1, <1>2, <1>3, <1>4, <1>5, <1>6, <1>7 DEF ItemTask

\* The workers on the entries of one synchronous subscriber are one.
LEMMA SyncOne ==
  ASSUME LockInv, NEW v \in Worker, NEW w \in Worker, pc[v] \in Working, pc[w] \in Working,
         SubscriberOf[cur[v]] = SubscriberOf[cur[w]], ~asyncSub[SubscriberOf[cur[w]]]
  PROVE  v = w
<1>1. ~isAsync[w] /\ job[w].sub = SubscriberOf[cur[w]]
  BY DEF LockInv, WorkOK
<1>2. QED
  BY <1>1, SyncAlone

\* Before the step by which an entry of a synchronous subscriber gets its turn, nothing
\* earlier of its kind is pending.
LEMMA FirstTurn ==
  ASSUME LockInv, OrderInv, NEW w \in Worker, pc[w] = "read", NEW j \in Item, j = cur[w],
         ~asyncSub[SubscriberOf[j]], state[j] \in {"absent", "pending"}
  PROVE  \A i \in Item : i < j /\ Same(i, j) => state[i] # "pending"
<1>1. ~isAsync[w]
  BY DEF LockInv, WorkOK, Working
<1>2. /\ Available(w, j)
      /\ ~job[w].retries => \A i \in Item : i < j /\ Same(j, i) => state[i] # "pending"
  BY <1>1 DEF OrderInv, CurOrder, Working
<1>3. ~job[w].retries
  BY <1>2 DEF Available
<1>4. QED
  BY <1>2, <1>3 DEF Same

LEMMA ItemTaskTurns ==
  ASSUME LockInv, OrderInv, BudgetInv, TurnsInv, NEW w \in Worker, ItemTask(w)
  PROVE  TurnsInv'
<1>1. PICK k \in Item : k = cur[w]
  BY ItemTaskLocal DEF LockInv, TInv, CurOK
<1>2. TInv /\ pc[w] \in Working
  BY ItemTaskLocal DEF LockInv
<1>3. /\ \A i \in Item \ {k} :
           state'[i] = state[i] /\ attempt'[i] = attempt[i] /\ sent'[i] = sent[i]
      /\ \A v \in Worker \ {w} : pc'[v] = pc[v] /\ cur'[v] = cur[v]
  BY <1>1, <1>2, ItemTaskLocal
<1>4. /\ state'[k] \in {"absent", "pending"} => state'[k] = state[k]
      /\ state'[k] = "retrying" =>
           attempt'[k] > 0 \/ (state[k] = "retrying" /\ attempt'[k] = attempt[k])
      /\ pc[w] # "send" \/ k \in Direct => sent' = sent
      /\ pc[w] = "send" => state'[k] = state[k]
      /\ pc'[w] = "send" => pc[w] = "mark" /\ attempt' = attempt
      /\ pc[w] = "read" => state' = state
  BY <1>1, <1>2, ItemTaskFields
<1>5. asyncSub' = asyncSub /\ (pc'[w] \in Working => cur'[w] = k)
  BY <1>1, <1>2, ItemTaskShape DEF Internal, Ending, EndAttempt, Idle, Goto, TInv, TypeOK, Working
<1>6. EntryTurn(k)'
  <2>1. pc[w] = "send" => state[k] = "in-progress"
    BY <1>1 DEF BudgetInv, WorkerBudget
  <2>2. EntryTurn(k)
    BY DEF TurnsInv
  <2>3. QED
    BY <1>4, <2>1, <2>2 DEF EntryTurn
<1>7. \A i \in Item \ {k} : EntryTurn(i)'
  BY <1>3 DEF TurnsInv, EntryTurn
<1>8. ASSUME NEW i \in Item, NEW j \in Item, i < j, Same(i, j), ~asyncSub[SubscriberOf[i]],
             Reached(j)'
      PROVE  Passed(i)'
  <2>0. i # j
    BY <1>8, ItemAssumption
  <2>1. CASE Reached(j)
    <3>1. Passed(i)
      BY <1>8, <2>1 DEF TurnsInv
    <3>2. state'[i] # "pending"
      BY <1>3, <1>4, <3>1 DEF Passed
    <3>3. ASSUME NEW v \in Worker, pc'[v] = "send", cur'[v] = i PROVE attempt'[i] > 0
      <4>1. CASE v = w
        <5>1. i = k /\ pc[w] = "mark" /\ attempt' = attempt
          BY <1>4, <1>5, <3>3, <4>1 DEF Working
        <5>2. ~isAsync[w]
          BY <1>1, <1>8, <5>1 DEF LockInv, WorkOK, Working
        <5>3. Available(w, i)
          BY <1>1, <5>1, <5>2 DEF OrderInv, CurOrder, Working
        <5>4. state[i] = "retrying"
          BY <3>1, <5>3 DEF Available, Passed
        <5>5. QED
          BY <5>1, <5>4 DEF TurnsInv, EntryTurn
      <4>2. CASE v # w
        <5>1. pc[v] = "send" /\ cur[v] = i
          BY <1>3, <3>3, <4>2
        <5>2. i # k
          BY <1>1, <1>2, <1>8, <4>2, <5>1, SyncOne DEF Working
        <5>3. QED
          BY <1>3, <3>1, <5>1, <5>2 DEF Passed
      <4>3. QED
        BY <4>1, <4>2
    <3>4. QED
      BY <3>2, <3>3 DEF Passed
  <2>2. CASE ~Reached(j)
    <3>1. j = k /\ pc[w] = "read" /\ state[j] \in {"absent", "pending"}
      BY <1>1, <1>2, <1>3, <1>5, <1>8, <2>2 DEF Reached
    <3>2. ~asyncSub[SubscriberOf[j]] /\ SubscriberOf[i] = SubscriberOf[j]
      BY <1>8 DEF Same
    <3>3. state'[i] # "pending"
      BY <1>1, <1>4, <1>8, <3>1, <3>2, FirstTurn
    <3>4. ASSUME NEW v \in Worker, pc'[v] = "send", cur'[v] = i PROVE FALSE
      <4>1. v # w
        BY <1>4, <3>1, <3>4
      <4>2. pc[v] = "send" /\ cur[v] = i
        BY <1>3, <3>4, <4>1
      <4>3. QED
        BY <1>1, <1>2, <3>1, <3>2, <4>1, <4>2, SyncOne DEF Working
    <3>5. QED
      BY <3>3, <3>4 DEF Passed
  <2>3. QED
    BY <2>1, <2>2
<1>9. QED
  BY <1>5, <1>6, <1>7, <1>8 DEF TurnsInv, Same

\* Every other step posts entries at most, behind those that have been posted.
LEMMA OutsideTurns ==
  ASSUME LockInv, OrderInv, TurnsInv, Outside, asyncSub' = asyncSub
  PROVE  TurnsInv'
<1>1. ASSUME NEW j \in Item, Reached(j)' PROVE Reached(j) /\ state[j] # "absent"
  BY <1>1 DEF Outside, PostedState, Reached, OrderInv, Known
<1>2. ASSUME NEW i \in Item, Passed(i), state[i] # "absent" PROVE Passed(i)'
  BY <1>2 DEF Outside, PostedState, Passed, Working
<1>3. \A i \in Item : EntryTurn(i)'
  BY DEF Outside, PostedState, TurnsInv, EntryTurn
<1>4. ASSUME NEW i \in Item, NEW j \in Item, i < j, Same(i, j), ~asyncSub[SubscriberOf[i]],
             Reached(j)'
      PROVE  Passed(i)'
  BY <1>1, <1>2, <1>4 DEF TurnsInv, OrderInv, PostOrder
<1>5. QED
  BY <1>3, <1>4 DEF TurnsInv, Same

LEMMA NextTurns ==
  NoOverlap /\ LockInv /\ OrderInv /\ BudgetInv /\ TurnsInv /\ [Next]_vars => TurnsInv'
<1> SUFFICES ASSUME NoOverlap, LockInv, OrderInv, BudgetInv, TurnsInv, [Next]_vars
             PROVE  TurnsInv'
  OBVIOUS
<1>1. CASE UNCHANGED vars
  BY <1>1 DEF vars, TurnsInv, EntryTurn, Reached, Passed, Same
<1>2. ASSUME NEW w \in Worker,
             \/ Publish(w) \/ SubTask(w)
             \/ \E m \in SubMsg : SubTake(w, m)
             \/ \E i \in Item : ItemTake(w, i)
      PROVE  TurnsInv'
  <2>1. asyncSub' = asyncSub
    BY <1>2 DEF subVars, Publish, PublishStart, DispatchPhase, PublishEnd, SubTask, Fetch,
                BatchAbort, SubRelease, NextAsync, NextSync, SubTake, ItemTake
  <2>2. QED
    BY <1>2, <2>1, OtherTasksOutside, OutsideTurns DEF LockInv
<1>3. CASE Environment
  <2>1. asyncSub' = asyncSub
    BY <1>3 DEF NoOverlap, subVars, Environment, Post, PostedState, RetryDue, ItemDrop, ItemLockExpires,
                OperatorPatch, Crash, ArticlesLockExpires, SubLockExpires, OperatorSwitch,
                Reconfigure, SubDrop
  <2>2. Outside
    BY <1>3, EnvironmentOutside DEF NoOverlap, OperatorPatch, LockInv
  <2>3. QED
    BY <2>1, <2>2, OutsideTurns
<1>4. QED
  BY <1>1, <1>2, <1>3, ItemTaskTurns DEF Next

\* A delivery is made by a worker at "send".
LEMMA DeliveryStep ==
  ASSUME TInv, [Next]_vars, NEW i \in Item, sent'[i] # sent[i]
  PROVE  \E w \in Worker : pc[w] = "send" /\ cur[w] = i
<1>1. ASSUME Outside PROVE FALSE
  BY <1>1 DEF Outside
<1>2. ASSUME NEW j \in Item, NEW s, OperatorPatch(j, s) PROVE FALSE
  BY <1>2 DEF OperatorPatch
<1>3. PICK w \in Worker : ItemTask(w)
  BY <1>1, <1>2, OtherTasksOutside, EnvironmentOutside DEF Next, vars
<1>4. i = cur[w]
  BY <1>3, ItemTaskLocal
<1>5. pc[w] = "send"
  BY <1>3, <1>4, ItemTaskFields
<1>6. QED
  BY <1>4, <1>5
=============================================================================
