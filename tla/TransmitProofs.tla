--------------------------- MODULE TransmitProofs ---------------------------
(***************************************************************************)
(* Proofs about Transmit, for any set of entries, subscribers and workers, *)
(* any number of retries and any fault kinds the theorem does not exclude. *)
(***************************************************************************)
EXTENDS Transmit, TLAPS

\* A worker inside transmit_item has an entry to work on.
CurOK == \A w \in Worker : pc[w] \in Working => cur[w] \in Item

TInv == TypeOK /\ CurOK

LEMMA InitTInv == Init => TInv
<1> SUFFICES ASSUME Init PROVE TInv
  OBVIOUS
<1> USE ItemAssumption, SubscriberAssumption, OwnerAssumption, BoundAssumption
<1>1. asyncSub \in [Subscriber -> BOOLEAN]
  <2>1. PICK A \in AsyncAtStart : asyncSub = [s \in Subscriber |-> s \in A]
    BY DEF Init
  <2>2. \A s \in Subscriber : (s \in A) \in BOOLEAN
    OBVIOUS
  <2>3. QED
    BY <2>1, <2>2, Zenon
<1>2. TypeOK
  BY <1>1 DEF Init, TypeOK, QueueState, Point, Working, Batching, Owner, NoJob, NoItem
<1>3. CurOK
  BY DEF Init, CurOK, Working
<1>4. QED
  BY <1>2, <1>3 DEF TInv

\* Whatever else a step does, resetting the worker's locals keeps their types.
LEMMA IdleType ==
  ASSUME TInv, NEW w \in Worker, Idle(w)
  PROVE  /\ pc' \in [Worker -> Point]
         /\ phase' \in [Worker -> 0..5]
         /\ job' \in [Worker -> SubMsg \cup {NoJob}]
         /\ isAsync' \in [Worker -> BOOLEAN]
         /\ batch' \in [Worker -> SUBSET Item]
         /\ cur' \in [Worker -> Item \cup {NoItem}]
         /\ err' \in [Worker -> {"none", "client", "timeout"}]
         /\ seen' \in [Worker -> 0..MaxRetry]
         /\ CurOK'
  BY BoundAssumption DEF Idle, Goto, TInv, TypeOK, CurOK, Point, Working

\* A lock's owner stays an owner when w releases it.
LEMMA ReleasedType ==
  ASSUME NEW owner \in Owner, NEW w
  PROVE  Released(owner, w) \in Owner
  BY DEF Released, Owner

LEMMA PublishTInv ==
  ASSUME TInv, NEW w \in Worker, Publish(w)
  PROVE  TInv'
<1> USE ItemAssumption, SubscriberAssumption, OwnerAssumption, BoundAssumption
<1> USE DEF TInv, TypeOK, CurOK, queueVars, subVars, lockVars, celeryVars, localVars,
            Goto, Owner, Point, Working, Batching
<1>1. CASE PublishStart(w)
  BY <1>1 DEF PublishStart
<1>2. CASE DispatchPhase(w)
  BY <1>2 DEF DispatchPhase, OneMore
<1>3. CASE PublishEnd(w)
  BY <1>3 DEF PublishEnd, Idle, Released, NoItem, NoJob
<1>4. QED
  BY <1>1, <1>2, <1>3 DEF Publish

LEMMA SubTaskTInv ==
  ASSUME TInv, NEW w \in Worker,
         SubTask(w) \/ \E m \in SubMsg : SubTake(w, m)
  PROVE  TInv'
<1> USE ItemAssumption, SubscriberAssumption, OwnerAssumption, BoundAssumption
<1> USE DEF TInv, TypeOK, CurOK, queueVars, subVars, lockVars, celeryVars, localVars,
            Goto, Owner, Point, Working, Batching
<1>1. ASSUME NEW m \in SubMsg, SubTake(w, m) PROVE TInv'
  <2>1. m.sub \in Subscriber
    BY DEF SubMsg
  <2>2. QED
    BY <1>1, <2>1 DEF SubTake
<1>2. CASE Fetch(w)
  BY <1>2 DEF Fetch, First, Eligible
<1>3. CASE BatchAbort(w)
  BY <1>3 DEF BatchAbort
<1>4. CASE SubRelease(w)
  <2>1. Idle(w) /\ subLock' = [subLock EXCEPT ![job[w].sub] = Released(@, w)]
    BY <1>4 DEF SubRelease
  <2>2. subLock' \in [Subscriber -> Owner]
    BY <2>1, ReleasedType
  <2>3. QED
    BY <1>4, <2>1, <2>2, IdleType DEF SubRelease
<1>5. ASSUME NEW i \in Item, NextAsync(w, i) PROVE TInv'
  BY <1>5 DEF NextAsync, OneMore
<1>6. ASSUME NEW i \in Item, NextSync(w, i) PROVE TInv'
  BY <1>6 DEF NextSync
<1>7. QED
  BY <1>1, <1>2, <1>3, <1>4, <1>5, <1>6 DEF SubTask

\* The end of a transmission changes only the worker's locals and the entry's lock.
LEMMA EndAttemptType ==
  ASSUME TInv, NEW w \in Worker, pc[w] \in Working, NEW ok \in BOOLEAN, EndAttempt(w, ok)
  PROVE  /\ itemLock' \in [Item -> Owner]
         /\ pc' \in [Worker -> Point]
         /\ phase' \in [Worker -> 0..5]
         /\ job' \in [Worker -> SubMsg \cup {NoJob}]
         /\ isAsync' \in [Worker -> BOOLEAN]
         /\ batch' \in [Worker -> SUBSET Item]
         /\ cur' \in [Worker -> Item \cup {NoItem}]
         /\ err' \in [Worker -> {"none", "client", "timeout"}]
         /\ seen' \in [Worker -> 0..MaxRetry]
         /\ CurOK'
<1>1. CASE isAsync[w]
  <2>1. itemLock' \in [Item -> Owner]
    BY <1>1, ReleasedType DEF EndAttempt, TInv, TypeOK
  <2>2. Idle(w)
    BY <1>1 DEF EndAttempt
  <2>3. QED
    BY <2>1, <2>2, IdleType
<1>2. CASE ~isAsync[w]
  <2>1. batch' \in [Worker -> SUBSET Item]
    BY <1>2 DEF EndAttempt, TInv, TypeOK
  <2>2. CurOK'
    BY <1>2 DEF EndAttempt, Goto, TInv, TypeOK, CurOK, Working
  <2>3. pc' \in [Worker -> Point]
    BY <1>2 DEF EndAttempt, Goto, TInv, TypeOK, Point, Batching
  <2>4. cur' \in [Worker -> Item \cup {NoItem}]
    BY <1>2 DEF EndAttempt, TInv, TypeOK
  <2>5. err' \in [Worker -> {"none", "client", "timeout"}] /\ seen' \in [Worker -> 0..MaxRetry]
    BY <1>2, BoundAssumption DEF EndAttempt, TInv, TypeOK
  <2>6. itemLock' = itemLock /\ UNCHANGED <<phase, job, isAsync>>
    BY <1>2 DEF EndAttempt
  <2>7. QED
    BY <2>1, <2>2, <2>3, <2>4, <2>5, <2>6 DEF TInv, TypeOK
<1>3. QED
  BY <1>1, <1>2

\* Counting a delivery keeps the count in its range.
LEMMA CountType ==
  ASSUME TInv, NEW i
  PROVE  Count(i) \in [Item -> 0..SentCap]
<1>1. ASSUME NEW n \in 0..SentCap PROVE (IF n < SentCap THEN n + 1 ELSE n) \in 0..SentCap
  BY BoundAssumption
<1>2. QED
  BY <1>1 DEF Count, TInv, TypeOK

LEMMA ItemTaskTInv ==
  ASSUME TInv, NEW w \in Worker,
         ItemTask(w) \/ \E i \in Item : ItemTake(w, i)
  PROVE  TInv'
<1> USE ItemAssumption, SubscriberAssumption, OwnerAssumption, BoundAssumption
<1> USE DEF queueVars, subVars, lockVars, celeryVars, localVars
<1> USE DEF Working
<1>1. ASSUME NEW i \in Item, ItemTake(w, i) PROVE TInv'
  BY <1>1 DEF ItemTake, TInv, TypeOK, CurOK, Goto, Owner, Point, Batching
<1>2. CASE Read(w)
  BY <1>2 DEF Read, TInv, TypeOK, CurOK, Goto, Point, Batching
<1>3. CASE ReadRejects(w)
  BY <1>3, EndAttemptType DEF ReadRejects, TInv, TypeOK
<1>4. CASE Mark(w)
  BY <1>4 DEF Mark, TInv, TypeOK, CurOK, Goto, Point, Batching, QueueState
<1>5. CASE MarkFails(w)
  BY <1>5 DEF MarkFails, Raise, TInv, TypeOK, CurOK, Goto, Point, Batching
<1>6. CASE SendInactive(w)
  BY <1>6 DEF SendInactive, Sending, Raise, TInv, TypeOK, CurOK, Goto, Point, Batching
<1>7. CASE Send(w)
  <2>1. sent' \in [Item -> 0..SentCap]
    BY <1>7, CountType DEF Send, Sending
  <2>2. QED
    BY <1>7, <2>1 DEF Send, Sending, TInv, TypeOK, CurOK, Goto, Point, Batching
<1>8. CASE SendOtherError(w)
  BY <1>8 DEF SendOtherError, Sending, MaybeDelivered, Count, Raise, TInv, TypeOK, CurOK, Goto,
              Point, Batching
<1>9. ASSUME NEW class \in {"none", "client"}, SendPublishError(w, class) PROVE TInv'
  BY <1>9 DEF SendPublishError, Sending, MaybeDelivered, Count, TInv, TypeOK, CurOK, Goto,
              Point, Batching
<1>10. CASE Record(w)
  BY <1>10, EndAttemptType DEF Record, TInv, TypeOK, QueueState
<1>11. CASE RecordFails(w)
  BY <1>11 DEF RecordFails, TInv, TypeOK, CurOK, Goto, Point, Batching
<1>12. CASE MarkError(w)
  BY <1>12 DEF MarkError, TInv, TypeOK, CurOK, Goto, Point, Batching, QueueState
<1>13. CASE MarkErrorFails(w)
  BY <1>13 DEF MarkErrorFails, Raise, TInv, TypeOK, CurOK, Goto, Point, Batching, QueueState
<1>14. CASE SoftTimeout(w)
  BY <1>14 DEF SoftTimeout, Raise, TInv, TypeOK, CurOK, Goto, Point, Batching, QueueState
<1>15. CASE HandlerRead(w)
  BY <1>15 DEF HandlerRead, TInv, TypeOK, CurOK, Goto, Point, Batching
<1>16. CASE HandlerWrite(w)
  <2>1. /\ state' \in [Item -> QueueState]
        /\ attempt' \in [Item -> 0..MaxRetry]
        /\ due' \in [Item -> BOOLEAN]
    <3>1. seen[w] \in 0..MaxRetry /\ Reschedule(cur[w], seen[w], err[w])
      BY <1>16 DEF HandlerWrite, TInv, TypeOK
    <3>2. CASE MayRetry(seen[w], err[w])
      <4>1. seen[w] + 1 \in 0..MaxRetry
        BY <3>1, <3>2, BoundAssumption DEF MayRetry
      <4>2. Retry(cur[w], seen[w] + 1)
        BY <3>1, <3>2 DEF Reschedule
      <4>3. QED
        BY <4>1, <4>2 DEF Retry, TInv, TypeOK, QueueState
    <3>3. CASE ~MayRetry(seen[w], err[w])
      BY <3>1, <3>3 DEF Reschedule, GiveUp, TInv, TypeOK, QueueState
    <3>4. QED
      BY <3>2, <3>3
  <2>2. QED
    BY <1>16, <2>1, EndAttemptType DEF HandlerWrite, TInv, TypeOK
<1>17. CASE HandlerFails(w)
  BY <1>17, EndAttemptType DEF HandlerFails, TInv, TypeOK
<1>18. QED
  BY <1>1, <1>2, <1>3, <1>4, <1>5, <1>6, <1>7, <1>8, <1>9, <1>10, <1>11, <1>12, <1>13,
     <1>14, <1>15, <1>16, <1>17 DEF ItemTask

LEMMA EnvironmentTInv ==
  ASSUME TInv, Environment
  PROVE  TInv'
<1> USE ItemAssumption, SubscriberAssumption, OwnerAssumption, BoundAssumption
<1> USE DEF TInv, TypeOK, CurOK, queueVars, subVars, lockVars, celeryVars, localVars
<1>1. ASSUME NEW i \in Item, Post(i) PROVE TInv'
  BY <1>1 DEF Post, PostedState, QueueState
<1>2. ASSUME NEW i \in Item, RetryDue(i) PROVE TInv'
  BY <1>2 DEF RetryDue
<1>3. ASSUME NEW i \in Item, ItemDrop(i) PROVE TInv'
  BY <1>3 DEF ItemDrop
<1>4. ASSUME NEW i \in Item, ItemLockExpires(i) PROVE TInv'
  BY <1>4 DEF ItemLockExpires, Owner
<1>5. ASSUME NEW i \in Item, NEW s \in {"pending", "canceled"}, OperatorPatch(i, s)
      PROVE TInv'
  BY <1>5 DEF OperatorPatch, QueueState
<1>6. ASSUME NEW w \in Worker, Crash(w) PROVE TInv'
  BY <1>6 DEF Crash, Idle, Goto, Owner, Point, Working
<1>7. CASE ArticlesLockExpires
  BY <1>7 DEF ArticlesLockExpires, Owner
<1>8. ASSUME NEW s \in Subscriber,
             SubLockExpires(s) \/ OperatorSwitch(s) \/ Reconfigure(s)
      PROVE TInv'
  BY <1>8 DEF SubLockExpires, OperatorSwitch, Reconfigure, Owner
<1>9. ASSUME NEW m \in SubMsg, SubDrop(m) PROVE TInv'
  BY <1>9 DEF SubDrop
<1>10. QED
  BY <1>1, <1>2, <1>3, <1>4, <1>5, <1>6, <1>7, <1>8, <1>9 DEF Environment

LEMMA NextTInv == TInv /\ [Next]_vars => TInv'
<1> SUFFICES ASSUME TInv, [Next]_vars PROVE TInv'
  OBVIOUS
<1>1. CASE UNCHANGED vars
  BY <1>1 DEF vars, TInv, TypeOK, CurOK
<1>2. CASE Next
  BY <1>2, PublishTInv, SubTaskTInv, ItemTaskTInv, EnvironmentTInv DEF Next
<1>3. QED
  BY <1>1, <1>2

\* Every variable keeps its type, under every kind of fault: an entry never leaves
\* the states of the schema and its retry_attempt never exceeds the maximum.
THEOREM TypeCorrect == Spec => []TypeOK
<1>1. Spec => []TInv
  BY InitTInv, NextTInv, PTL DEF Spec
<1>2. TInv => TypeOK
  BY DEF TInv
<1>3. QED
  BY <1>1, <1>2, PTL

-----------------------------------------------------------------------------
(* Mutual exclusion.  Two locks protect an entry: the subscriber's when its *)
(* subscriber is synchronous, the entry's own when it is asynchronous.  The *)
(* argument is that all the workers on an entry take the same one of them.  *)

\* The fault kinds under which two transmissions of an entry may overlap.
NoOverlap == Faults \cap {"overrun", "reconfigure", "operator"} = {}

\* Messages for entries are only sent for asynchronous subscribers.
MessageOK == \A i \in Item : itemMsgs[i] > 0 => asyncSub[SubscriberOf[i]] = TRUE

\* A worker in the loop over a batch, or in an inline transmission, holds the lock
\* of the subscriber of its batch.
BatchOK(w) ==
  pc[w] \in Batching \/ (pc[w] \in Working /\ ~isAsync[w]) =>
    /\ job[w].sub \in Subscriber
    /\ isAsync[w] = asyncSub[job[w].sub]
    /\ subLock[job[w].sub] = w
    /\ pc[w] # "fetch" => \A i \in batch[w] : SubscriberOf[i] = job[w].sub

\* A worker inside transmit_item is there in the mode of the entry's subscriber.
WorkOK(w) ==
  pc[w] \in Working =>
    /\ isAsync[w] = asyncSub[SubscriberOf[cur[w]]]
    /\ isAsync[w] => itemLock[cur[w]] = w
    /\ ~isAsync[w] => job[w].sub = SubscriberOf[cur[w]]

LockInv == TInv /\ MessageOK /\ \A w \in Worker : BatchOK(w) /\ WorkOK(w)

\* A step inside transmit_item that touches neither locks nor messages.
Internal(w) ==
  /\ pc[w] \in Working
  /\ \E x \in Working : pc' = [pc EXCEPT ![w] = x]
  /\ UNCHANGED <<asyncSub, subLock, itemLock, itemMsgs, job, isAsync, batch, cur>>

\* A step that ends transmit_item.
Ending(w, ok) ==
  /\ pc[w] \in Working
  /\ EndAttempt(w, ok)
  /\ UNCHANGED <<asyncSub, subLock, itemMsgs>>

LEMMA ItemTaskShape ==
  ASSUME NEW w \in Worker, ItemTask(w)
  PROVE  Internal(w) \/ \E ok \in BOOLEAN : Ending(w, ok)
<1> USE DEF queueVars, subVars, lockVars, celeryVars, localVars, Working, Goto
<1>1. CASE ReadRejects(w) \/ HandlerWrite(w) \/ HandlerFails(w)
  BY <1>1 DEF ReadRejects, HandlerWrite, HandlerFails, Ending
<1>2. CASE Record(w)
  BY <1>2 DEF Record, Ending
<1>3. CASE Read(w) \/ Mark(w) \/ MarkFails(w) \/ SendInactive(w) \/ Send(w)
  BY <1>3 DEF Read, Mark, MarkFails, SendInactive, Sending, Send, Raise, Internal
<1>4. CASE SendOtherError(w) \/ RecordFails(w) \/ MarkError(w) \/ MarkErrorFails(w)
  BY <1>4 DEF SendOtherError, Sending, RecordFails, MarkError, MarkErrorFails, Raise, Internal
<1>5. CASE SoftTimeout(w) \/ HandlerRead(w)
  BY <1>5 DEF SoftTimeout, HandlerRead, Raise, Internal
<1>6. CASE \E class \in {"none", "client"} : SendPublishError(w, class)
  BY <1>6 DEF SendPublishError, Sending, Internal
<1>7. QED
  BY <1>1, <1>2, <1>3, <1>4, <1>5, <1>6 DEF ItemTask

LEMMA Exclusion == LockInv => OneTransmitter
<1> SUFFICES ASSUME LockInv, NEW i \in Item, NEW v \in Worker, NEW w \in Worker,
                    InTransit(v, i), InTransit(w, i)
             PROVE  v = w
  BY DEF OneTransmitter
<1>1. isAsync[v] = isAsync[w]
  BY DEF LockInv, WorkOK, InTransit
<1>2. CASE isAsync[w]
  BY <1>1, <1>2 DEF LockInv, WorkOK, InTransit
<1>3. CASE ~isAsync[w]
  BY <1>1, <1>3 DEF LockInv, WorkOK, BatchOK, InTransit
<1>4. QED
  BY <1>2, <1>3

LEMMA InitLockInv == Init => LockInv
<1> SUFFICES ASSUME Init PROVE LockInv
  OBVIOUS
<1>1. TInv
  BY InitTInv
<1>2. MessageOK /\ \A w \in Worker : BatchOK(w) /\ WorkOK(w)
  BY DEF Init, MessageOK, BatchOK, WorkOK, Batching, Working
<1>3. QED
  BY <1>1, <1>2 DEF LockInv

LEMMA InternalLockInv ==
  ASSUME LockInv, NEW w \in Worker, Internal(w), TInv'
  PROVE  LockInv'
<1>1. MessageOK'
  BY DEF LockInv, MessageOK, Internal
<1>2. ASSUME NEW v \in Worker PROVE (BatchOK(v) /\ WorkOK(v))'
  <2>1. CASE v = w
    BY <2>1 DEF LockInv, TInv, TypeOK, BatchOK, WorkOK, Internal, Working, Batching
  <2>2. CASE v # w
    BY <2>2 DEF LockInv, TInv, TypeOK, BatchOK, WorkOK, Internal
  <2>3. QED
    BY <2>1, <2>2
<1>3. QED
  BY <1>1, <1>2 DEF LockInv

LEMMA EndingLockInv ==
  ASSUME LockInv, NEW w \in Worker, NEW ok \in BOOLEAN, Ending(w, ok), TInv'
  PROVE  LockInv'
<1>1. MessageOK'
  BY DEF LockInv, MessageOK, Ending
<1>2. ASSUME NEW v \in Worker, v # w PROVE (BatchOK(v) /\ WorkOK(v))'
  <2>1. pc'[v] = pc[v] /\ job'[v] = job[v] /\ isAsync'[v] = isAsync[v]
        /\ batch'[v] = batch[v] /\ cur'[v] = cur[v]
    BY <1>2 DEF LockInv, TInv, TypeOK, Ending, EndAttempt, Idle, Goto
  <2>2. ASSUME pc[v] \in Working, isAsync[v] PROVE itemLock'[cur[v]] = v
    BY <1>2, <2>2 DEF LockInv, TInv, TypeOK, CurOK, WorkOK, Ending, EndAttempt, Released
  <2>3. QED
    BY <2>1, <2>2 DEF LockInv, BatchOK, WorkOK, Ending
<1>3. (BatchOK(w) /\ WorkOK(w))'
  <2>1. CASE isAsync[w]
    BY <2>1 DEF LockInv, TInv, TypeOK, BatchOK, WorkOK, Ending, EndAttempt, Idle, Goto,
                Batching, Working
  <2>2. CASE ~isAsync[w]
    <3>1. /\ pc'[w] = "next" /\ batch'[w] \subseteq batch[w]
          /\ job'[w] = job[w] /\ isAsync'[w] = isAsync[w]
          /\ asyncSub' = asyncSub /\ subLock' = subLock
      BY <2>2 DEF LockInv, TInv, TypeOK, Ending, EndAttempt, Goto
    <3>2. BatchOK(w) /\ pc[w] \in Working /\ pc[w] # "fetch"
      BY DEF LockInv, Ending, Working
    <3>3. BatchOK(w)'
      BY <2>2, <3>1, <3>2 DEF BatchOK
    <3>4. WorkOK(w)'
      BY <3>1 DEF WorkOK, Working
    <3>5. QED
      BY <3>3, <3>4
  <2>3. QED
    BY <2>1, <2>2
<1>4. QED
  BY <1>1, <1>2, <1>3 DEF LockInv

\* A step that changes no field of the locking state of any worker but w, and takes
\* no lock away from another worker.
Local(w) ==
  /\ asyncSub' = asyncSub
  /\ \A v \in Worker \ {w} :
       /\ pc'[v] = pc[v] /\ job'[v] = job[v] /\ isAsync'[v] = isAsync[v]
       /\ batch'[v] = batch[v] /\ cur'[v] = cur[v]
       /\ \A s \in Subscriber : subLock[s] = v => subLock'[s] = v
       /\ \A i \in Item : itemLock[i] = v => itemLock'[i] = v

LEMMA LocalOthers ==
  ASSUME LockInv, NEW w \in Worker, Local(w), NEW v \in Worker, v # w
  PROVE  (BatchOK(v) /\ WorkOK(v))'
  BY DEF LockInv, TInv, CurOK, BatchOK, WorkOK, Local

LEMMA TasksLockInv ==
  ASSUME LockInv, NEW w \in Worker, TInv',
         \/ Publish(w) \/ SubTask(w) \/ ItemTask(w)
         \/ \E m \in SubMsg : SubTake(w, m)
         \/ \E i \in Item : ItemTake(w, i)
  PROVE  LockInv'
<1> USE DEF LockInv, TInv, TypeOK, queueVars, subVars, lockVars, celeryVars, localVars, Goto
<1> SUFFICES MessageOK' /\ \A v \in Worker : (BatchOK(v) /\ WorkOK(v))'
  OBVIOUS
<1>1. CASE PublishStart(w)
  BY <1>1 DEF PublishStart, MessageOK, BatchOK, WorkOK, Batching, Working
<1>2. CASE DispatchPhase(w)
  BY <1>2 DEF DispatchPhase, MessageOK, BatchOK, WorkOK
<1>3. CASE PublishEnd(w)
  <2>1. Local(w) /\ MessageOK'
    BY <1>3 DEF PublishEnd, Idle, Local, MessageOK
  <2>2. (BatchOK(w) /\ WorkOK(w))'
    BY <1>3 DEF PublishEnd, Idle, BatchOK, WorkOK, Batching, Working
  <2>3. QED
    BY <2>1, <2>2, LocalOthers
<1>4. ASSUME NEW m \in SubMsg, SubTake(w, m)
      PROVE  MessageOK' /\ \A v \in Worker : (BatchOK(v) /\ WorkOK(v))'
  <2>1. m.sub \in Subscriber
    BY DEF SubMsg
  <2>2. Local(w) /\ MessageOK'
    BY <1>4, <2>1, OwnerAssumption DEF SubTake, Free, Local, MessageOK
  <2>3. WorkOK(w)'
    BY <1>4 DEF SubTake, WorkOK, Working
  <2>4. BatchOK(w)'
    BY <1>4, <2>1 DEF SubTake, BatchOK, Batching, Working
  <2>5. QED
    BY <2>2, <2>3, <2>4, LocalOthers
<1>5. CASE Fetch(w)
  <2>1. Local(w) /\ MessageOK'
    BY <1>5 DEF Fetch, Local, MessageOK
  <2>2. batch'[w] = First(Eligible(job[w].sub, job[w].retries, job[w].priority))
    BY <1>5 DEF Fetch
  <2>3. \A i \in batch'[w] : SubscriberOf[i] = job[w].sub
    BY <2>2 DEF First, Eligible
  <2>4. (BatchOK(w) /\ WorkOK(w))'
    BY <1>5, <2>3 DEF Fetch, BatchOK, WorkOK, Batching, Working
  <2>5. QED
    BY <2>1, <2>4, LocalOthers
<1>6. CASE BatchAbort(w)
  <2>1. Local(w) /\ MessageOK'
    BY <1>6 DEF BatchAbort, Local, MessageOK
  <2>2. (BatchOK(w) /\ WorkOK(w))'
    BY <1>6 DEF BatchAbort, BatchOK, WorkOK, Batching, Working
  <2>3. QED
    BY <2>1, <2>2, LocalOthers
<1>7. CASE SubRelease(w)
  <2>1. Local(w) /\ MessageOK'
    BY <1>7 DEF SubRelease, Idle, Released, Local, MessageOK
  <2>2. (BatchOK(w) /\ WorkOK(w))'
    BY <1>7 DEF SubRelease, Idle, BatchOK, WorkOK, Batching, Working
  <2>3. QED
    BY <2>1, <2>2, LocalOthers
<1>8. ASSUME NEW i \in Item, NextAsync(w, i)
      PROVE  MessageOK' /\ \A v \in Worker : (BatchOK(v) /\ WorkOK(v))'
  <2>1. asyncSub[SubscriberOf[i]] = TRUE
    BY <1>8 DEF NextAsync, IsNext, BatchOK, Batching
  <2>2. MessageOK'
    BY <1>8, <2>1 DEF NextAsync, MessageOK
  <2>3. Local(w)
    BY <1>8 DEF NextAsync, Local
  <2>4. (BatchOK(w) /\ WorkOK(w))'
    <3>1. /\ pc'[w] = "next" /\ batch'[w] \subseteq batch[w] /\ pc[w] = "next"
          /\ UNCHANGED <<job, isAsync, asyncSub, subLock>>
      BY <1>8 DEF NextAsync
    <3>2. BatchOK(w)'
      BY <3>1 DEF BatchOK, Batching
    <3>3. WorkOK(w)'
      BY <3>1 DEF WorkOK, Working
    <3>4. QED
      BY <3>2, <3>3
  <2>5. QED
    BY <2>2, <2>3, <2>4, LocalOthers
<1>9. ASSUME NEW i \in Item, NextSync(w, i)
      PROVE  MessageOK' /\ \A v \in Worker : (BatchOK(v) /\ WorkOK(v))'
  <2>1. Local(w) /\ MessageOK'
    BY <1>9 DEF NextSync, Local, MessageOK
  <2>2. (BatchOK(w) /\ WorkOK(w))'
    BY <1>9 DEF NextSync, IsNext, BatchOK, WorkOK, Batching, Working
  <2>3. QED
    BY <2>1, <2>2, LocalOthers
<1>10. ASSUME NEW i \in Item, ItemTake(w, i)
       PROVE  MessageOK' /\ \A v \in Worker : (BatchOK(v) /\ WorkOK(v))'
  <2>1. Local(w) /\ MessageOK'
    BY <1>10, OwnerAssumption DEF ItemTake, Free, Local, MessageOK
  <2>2. pc'[w] = "read" /\ isAsync'[w] = TRUE /\ cur'[w] = i /\ itemLock'[i] = w
    BY <1>10 DEF ItemTake
  <2>3. asyncSub'[SubscriberOf[i]] = TRUE
    BY <1>10 DEF ItemTake, MessageOK
  <2>4. (BatchOK(w) /\ WorkOK(w))'
    BY <2>2, <2>3 DEF BatchOK, WorkOK, Batching, Working
  <2>5. QED
    BY <2>1, <2>4, LocalOthers
<1>11. CASE ItemTask(w)
  BY <1>11, ItemTaskShape, InternalLockInv, EndingLockInv
<1>12. QED
  BY <1>1, <1>2, <1>3, <1>4, <1>5, <1>6, <1>7, <1>8, <1>9, <1>10, <1>11 DEF Publish, SubTask

LEMMA EnvironmentLockInv ==
  ASSUME LockInv, NoOverlap, Environment, TInv'
  PROVE  LockInv'
<1> USE DEF LockInv, TInv, TypeOK, queueVars, subVars, lockVars, celeryVars, localVars
<1> SUFFICES MessageOK' /\ \A v \in Worker : (BatchOK(v) /\ WorkOK(v))'
  OBVIOUS
<1>1. ASSUME NEW i \in Item, Post(i) \/ RetryDue(i) \/ ItemDrop(i)
      PROVE  MessageOK' /\ \A v \in Worker : (BatchOK(v) /\ WorkOK(v))'
  BY <1>1 DEF Post, PostedState, RetryDue, ItemDrop, MessageOK, BatchOK, WorkOK
<1>2. ASSUME NEW i \in Item, NEW s, OperatorPatch(i, s) PROVE FALSE
  BY <1>2 DEF OperatorPatch, NoOverlap
<1>3. ASSUME NEW s \in Subscriber, OperatorSwitch(s) \/ Reconfigure(s) PROVE FALSE
  BY <1>3 DEF OperatorSwitch, Reconfigure, NoOverlap
<1>4. ASSUME NEW owner \in Worker PROVE ~Expirable(owner)
  BY OwnerAssumption DEF Expirable, NoOverlap
<1>5. ASSUME NEW i \in Item, ItemLockExpires(i)
      PROVE  MessageOK' /\ \A v \in Worker : (BatchOK(v) /\ WorkOK(v))'
  BY <1>4, <1>5 DEF ItemLockExpires, MessageOK, BatchOK, WorkOK
<1>6. ASSUME NEW s \in Subscriber, SubLockExpires(s)
      PROVE  MessageOK' /\ \A v \in Worker : (BatchOK(v) /\ WorkOK(v))'
  BY <1>4, <1>6 DEF SubLockExpires, MessageOK, BatchOK, WorkOK
<1>7. CASE ArticlesLockExpires
  BY <1>7 DEF ArticlesLockExpires, MessageOK, BatchOK, WorkOK
<1>8. ASSUME NEW m \in SubMsg, SubDrop(m)
      PROVE  MessageOK' /\ \A v \in Worker : (BatchOK(v) /\ WorkOK(v))'
  BY <1>8 DEF SubDrop, MessageOK, BatchOK, WorkOK
<1>9. ASSUME NEW w \in Worker, Crash(w)
      PROVE  MessageOK' /\ \A v \in Worker : (BatchOK(v) /\ WorkOK(v))'
  <2>1. Local(w) /\ MessageOK'
    BY <1>9 DEF Crash, Idle, Goto, Local, MessageOK
  <2>2. (BatchOK(w) /\ WorkOK(w))'
    BY <1>9 DEF Crash, Idle, Goto, BatchOK, WorkOK, Batching, Working
  <2>3. QED
    BY <2>1, <2>2, LocalOthers
<1>10. QED
  BY <1>1, <1>2, <1>3, <1>5, <1>6, <1>7, <1>8, <1>9 DEF Environment

LEMMA NextLockInv == NoOverlap /\ LockInv /\ [Next]_vars => LockInv'
<1> SUFFICES ASSUME NoOverlap, LockInv, [Next]_vars PROVE LockInv'
  OBVIOUS
<1>1. TInv'
  BY NextTInv DEF LockInv
<1>2. CASE UNCHANGED vars
  BY <1>1, <1>2 DEF vars, LockInv, MessageOK, BatchOK, WorkOK
<1>3. CASE Next
  BY <1>1, <1>3, TasksLockInv, EnvironmentLockInv DEF Next
<1>4. QED
  BY <1>2, <1>3

\* As long as locks outlive their owners' tasks and nobody reconfigures a subscriber
\* or resets an entry, no two workers transmit one entry at the same time.
THEOREM MutualExclusion == NoOverlap => (Spec => []OneTransmitter)
<1> SUFFICES ASSUME NoOverlap PROVE Spec => []OneTransmitter
  OBVIOUS
<1>1. LockInv /\ [Next]_vars => LockInv'
  BY NextLockInv
<1>2. Spec => []LockInv
  BY <1>1, InitLockInv, PTL DEF Spec
<1>3. QED
  BY <1>2, Exclusion, PTL

-----------------------------------------------------------------------------
(* The retry budget.                                                       *)

\* The states in which an entry may still be picked up.
Waiting == {"absent", "pending", "retrying"}

\* Every delivery of a waiting entry has been paid for with a retry; the transmission
\* under way, or the last one, is the only one that has not.
EntryBudget(i) ==
  /\ sent[i] <= attempt[i] + 1
  /\ state[i] \in Waiting => sent[i] <= attempt[i]

\* What a worker knows about its entry at the points where it matters.
WorkerBudget(w) ==
  /\ pc[w] = "mark" => sent[cur[w]] <= attempt[cur[w]]
  /\ pc[w] = "send" => sent[cur[w]] <= attempt[cur[w]] /\ state[cur[w]] = "in-progress"
  /\ pc[w] = "reschedule" => seen[w] = attempt[cur[w]]

BudgetInv == (\A i \in Item : EntryBudget(i)) /\ (\A w \in Worker : WorkerBudget(w))

\* A step of transmit_item changes no other entry and no other worker.
LEMMA ItemTaskLocal ==
  ASSUME TInv, NEW w \in Worker, ItemTask(w)
  PROVE  /\ pc[w] \in Working
         /\ \A i \in Item \ {cur[w]} :
              state'[i] = state[i] /\ attempt'[i] = attempt[i] /\ sent'[i] = sent[i]
         /\ \A v \in Worker \ {w} : pc'[v] = pc[v] /\ cur'[v] = cur[v] /\ seen'[v] = seen[v]
<1> DEFINE Concl == /\ pc[w] \in Working
                    /\ \A i \in Item \ {cur[w]} :
                         state'[i] = state[i] /\ attempt'[i] = attempt[i] /\ sent'[i] = sent[i]
                    /\ \A v \in Worker \ {w} :
                         pc'[v] = pc[v] /\ cur'[v] = cur[v] /\ seen'[v] = seen[v]
<1> SUFFICES Concl
  OBVIOUS
<1> USE DEF TInv, TypeOK, queueVars, localVars, Goto, Working
<1>0. ASSUME NEW ok \in BOOLEAN, EndAttempt(w, ok)
      PROVE  \A v \in Worker \ {w} : pc'[v] = pc[v] /\ cur'[v] = cur[v] /\ seen'[v] = seen[v]
  BY <1>0 DEF EndAttempt, Idle
<1>1. CASE ReadRejects(w) \/ HandlerFails(w)
  BY <1>0, <1>1 DEF ReadRejects, HandlerFails
<1>2. CASE HandlerWrite(w)
  BY <1>0, <1>2 DEF HandlerWrite, Reschedule, Retry, GiveUp
<1>3. CASE Record(w)
  BY <1>0, <1>3 DEF Record
<1>4. CASE Read(w) \/ Mark(w) \/ MarkFails(w) \/ SendInactive(w) \/ RecordFails(w)
  BY <1>4 DEF Read, Mark, MarkFails, SendInactive, Sending, RecordFails, Raise
<1>5. CASE Send(w) \/ SendOtherError(w)
  BY <1>5 DEF Send, Sending, SendOtherError, MaybeDelivered, Count, Raise
<1>6. CASE \E class \in {"none", "client"} : SendPublishError(w, class)
  BY <1>6 DEF SendPublishError, Sending, MaybeDelivered, Count
<1>7. CASE MarkError(w) \/ MarkErrorFails(w) \/ SoftTimeout(w)
  BY <1>7 DEF MarkError, MarkErrorFails, SoftTimeout, Raise
<1>8. CASE HandlerRead(w)
  BY <1>8 DEF HandlerRead
<1>9. QED
  BY <1>1, <1>2, <1>3, <1>4, <1>5, <1>6, <1>7, <1>8 DEF ItemTask

\* A count of deliveries grows by at most one.
LEMMA CountGrows ==
  ASSUME TInv, NEW i \in Item, sent' = Count(i)
  PROVE  sent'[i] <= sent[i] + 1 /\ sent'[i] \in Nat
  BY BoundAssumption DEF Count, TInv, TypeOK

LEMMA ItemTaskBudget ==
  ASSUME LockInv, BudgetInv, NEW w \in Worker, ItemTask(w)
  PROVE  BudgetInv'
<1>0. PICK i \in Item : i = cur[w]
  BY ItemTaskLocal DEF LockInv, TInv, CurOK
<1>1. /\ pc[w] \in Working /\ cur[w] = i
      /\ attempt[i] \in Nat /\ sent[i] \in Nat
      /\ EntryBudget(i) /\ WorkerBudget(w)
  BY <1>0, ItemTaskLocal, BoundAssumption DEF LockInv, TInv, TypeOK, BudgetInv
<1>2. ASSUME NEW v \in Worker, v # w PROVE WorkerBudget(v)'
  <2>1. pc[v] \in Working => cur[v] # cur[w] /\ cur[v] \in Item
    BY <1>1, <1>2, Exclusion DEF OneTransmitter, InTransit, LockInv, TInv, CurOK
  <2>2. QED
    BY <1>2, <2>1, ItemTaskLocal DEF LockInv, BudgetInv, WorkerBudget, Working
<1>3. ASSUME NEW j \in Item, j # i PROVE EntryBudget(j)'
  BY <1>1, <1>3, ItemTaskLocal DEF LockInv, BudgetInv, EntryBudget
<1> DEFINE Concl == EntryBudget(i)' /\ WorkerBudget(w)'
<1>4. Concl
  <2> USE <1>1 DEF EntryBudget, WorkerBudget, Waiting, queueVars, localVars, Goto,
                   LockInv, TInv, TypeOK
  <2>0. ASSUME NEW ok \in BOOLEAN, EndAttempt(w, ok) PROVE WorkerBudget(w)'
    BY <2>0 DEF EndAttempt, Idle
  <2>1. CASE ReadRejects(w) \/ HandlerFails(w)
    BY <2>0, <2>1 DEF ReadRejects, HandlerFails
  <2>2. CASE Record(w)
    BY <2>0, <2>2 DEF Record
  <2>3. CASE HandlerWrite(w)
    <3>1. seen[w] = attempt[i] /\ WorkerBudget(w)'
      BY <2>0, <2>3 DEF HandlerWrite
    <3>2. EntryBudget(i)'
      BY <2>3, <3>1 DEF HandlerWrite, Reschedule, Retry, GiveUp
    <3>3. QED
      BY <3>1, <3>2
  <2>4. CASE Read(w)
    BY <2>4 DEF Read, Sendable
  <2>5. CASE Mark(w)
    BY <2>5 DEF Mark
  <2>6. CASE MarkFails(w) \/ SendInactive(w) \/ RecordFails(w)
    BY <2>6 DEF MarkFails, SendInactive, Sending, RecordFails, Raise
  <2>7. CASE Send(w)
    <3>1. sent'[i] <= sent[i] + 1 /\ sent'[i] \in Nat
      BY <2>7, CountGrows DEF Send, Sending
    <3>2. QED
      BY <2>7, <3>1 DEF Send, Sending
  <2>8. CASE SendOtherError(w)
    <3>1. sent'[i] <= sent[i] + 1 /\ sent'[i] \in Nat
      BY <2>8, CountGrows DEF SendOtherError, Sending, MaybeDelivered
    <3>2. QED
      BY <2>8, <3>1 DEF SendOtherError, Sending, Raise
  <2>9. ASSUME NEW class \in {"none", "client"}, SendPublishError(w, class) PROVE Concl
    <3>1. sent'[i] <= sent[i] + 1 /\ sent'[i] \in Nat
      BY <2>9, CountGrows DEF SendPublishError, Sending, MaybeDelivered
    <3>2. QED
      BY <2>9, <3>1 DEF SendPublishError, Sending
  <2>10. CASE MarkError(w)
    BY <2>10 DEF MarkError
  <2>11. CASE MarkErrorFails(w)
    BY <2>11 DEF MarkErrorFails, Raise
  <2>12. CASE SoftTimeout(w)
    BY <2>12 DEF SoftTimeout, Raise
  <2>13. CASE HandlerRead(w)
    BY <2>13 DEF HandlerRead
  <2>14. QED
    BY <2>1, <2>2, <2>3, <2>4, <2>5, <2>6, <2>7, <2>8, <2>9, <2>10, <2>11, <2>12, <2>13
       DEF ItemTask
<1>5. QED
  BY <1>2, <1>3, <1>4 DEF BudgetInv

\* A step of another task leaves the entries alone and brings no worker to a point
\* inside transmit_item other than its first.
Outside ==
  /\ UNCHANGED <<attempt, sent>>
  /\ \A i \in Item :
       state'[i] # state[i] => state[i] = "absent" /\ state'[i] = PostedState(i)
  /\ \A w \in Worker : \/ pc'[w] = pc[w] /\ cur'[w] = cur[w] /\ seen'[w] = seen[w]
                       \/ pc'[w] \notin Working \ {"read"}

LEMMA OtherTasksOutside ==
  ASSUME TInv, NEW w \in Worker,
         \/ Publish(w) \/ SubTask(w)
         \/ \E m \in SubMsg : SubTake(w, m)
         \/ \E i \in Item : ItemTake(w, i)
  PROVE  Outside
<1> USE DEF TInv, TypeOK, Outside, queueVars, localVars, Goto, Working
<1>1. CASE Publish(w)
  BY <1>1 DEF Publish, PublishStart, DispatchPhase, PublishEnd, Idle
<1>2. CASE Fetch(w) \/ BatchAbort(w)
  BY <1>2 DEF Fetch, BatchAbort
<1>3. CASE SubRelease(w)
  BY <1>3 DEF SubRelease, Idle
<1>4. CASE \E i \in Item : NextAsync(w, i) \/ NextSync(w, i)
  BY <1>4 DEF NextAsync, NextSync
<1>5. CASE \E m \in SubMsg : SubTake(w, m)
  BY <1>5 DEF SubTake
<1>6. CASE \E i \in Item : ItemTake(w, i)
  BY <1>6 DEF ItemTake
<1>7. QED
  BY <1>1, <1>2, <1>3, <1>4, <1>5, <1>6 DEF SubTask

\* So does the environment, unless an operator patches an entry.
LEMMA EnvironmentOutside ==
  ASSUME TInv, Environment
  PROVE  \/ Outside
         \/ \E i \in Item : \E s \in {"pending", "canceled"} : OperatorPatch(i, s)
<1> USE DEF TInv, TypeOK, Outside, queueVars, localVars, Goto, Working
<1>1. ASSUME NEW i \in Item, Post(i) \/ RetryDue(i) \/ ItemDrop(i) \/ ItemLockExpires(i)
      PROVE  Outside
  BY <1>1 DEF Post, PostedState, RetryDue, ItemDrop, ItemLockExpires
<1>2. CASE \E w \in Worker : Crash(w)
  BY <1>2 DEF Crash, Idle
<1>3. CASE ArticlesLockExpires
  BY <1>3 DEF ArticlesLockExpires
<1>4. ASSUME NEW s \in Subscriber, SubLockExpires(s) \/ OperatorSwitch(s) \/ Reconfigure(s)
      PROVE  Outside
  BY <1>4 DEF SubLockExpires, OperatorSwitch, Reconfigure
<1>5. CASE \E m \in SubMsg : SubDrop(m)
  BY <1>5 DEF SubDrop
<1>6. QED
  BY <1>1, <1>2, <1>3, <1>4, <1>5 DEF Environment

LEMMA OutsideBudget ==
  ASSUME LockInv, BudgetInv, Outside
  PROVE  BudgetInv'
<1>1. ASSUME NEW i \in Item PROVE EntryBudget(i)'
  BY DEF BudgetInv, EntryBudget, Outside, PostedState, Waiting
<1>2. ASSUME NEW w \in Worker PROVE WorkerBudget(w)'
  <2>1. CASE pc'[w] \notin Working \ {"read"}
    BY <2>1 DEF WorkerBudget, Working
  <2>2. CASE pc'[w] = pc[w] /\ cur'[w] = cur[w] /\ seen'[w] = seen[w]
    <3>1. pc[w] = "send" => cur[w] \in Item
      BY DEF LockInv, TInv, CurOK, Working
    <3>2. QED
      BY <2>2, <3>1 DEF BudgetInv, WorkerBudget, Outside
  <2>3. QED
    BY <2>1, <2>2 DEF Outside
<1>3. QED
  BY <1>1, <1>2 DEF BudgetInv

LEMMA InitBudget == Init => BudgetInv
  BY DEF Init, BudgetInv, EntryBudget, WorkerBudget, Waiting

LEMMA NextBudget == NoOverlap /\ LockInv /\ BudgetInv /\ [Next]_vars => BudgetInv'
<1> SUFFICES ASSUME NoOverlap, LockInv, BudgetInv, [Next]_vars PROVE BudgetInv'
  OBVIOUS
<1>1. CASE UNCHANGED vars
  BY <1>1 DEF vars, BudgetInv, EntryBudget, WorkerBudget
<1>2. ASSUME NEW w \in Worker, ItemTask(w) PROVE BudgetInv'
  BY <1>2, ItemTaskBudget
<1>3. ASSUME Outside PROVE BudgetInv'
  BY <1>3, OutsideBudget
<1>4. ASSUME NEW i \in Item, NEW s, OperatorPatch(i, s) PROVE FALSE
  BY <1>4 DEF OperatorPatch, NoOverlap
<1>5. CASE Environment
  BY <1>3, <1>4, <1>5, EnvironmentOutside DEF LockInv
<1>6. QED
  BY <1>1, <1>2, <1>3, <1>5, OtherTasksOutside DEF Next, LockInv

\* Whatever fails, short of overlapping transmissions, an entry is delivered at most
\* once more than the number of retries MAX_TRANSMIT_RETRY_ATTEMPT allows.
THEOREM RetryBudget == NoOverlap => (Spec => []SendsBounded)
<1> SUFFICES ASSUME NoOverlap PROVE Spec => []SendsBounded
  OBVIOUS
<1>1. LockInv /\ [Next]_vars => LockInv'
  BY NextLockInv
<1>2. LockInv /\ BudgetInv /\ [Next]_vars => BudgetInv'
  BY NextBudget
<1>3. LockInv /\ BudgetInv => SendsBounded
  BY BoundAssumption DEF LockInv, TInv, TypeOK, BudgetInv, EntryBudget, SendsBounded
<1>4. QED
  BY <1>1, <1>2, <1>3, InitLockInv, InitBudget, PTL DEF Spec

-----------------------------------------------------------------------------
(* Success is truthful.                                                    *)

\* Content that is recorded, or about to be recorded, as delivered was delivered, the
\* content API apart.
TruthInv ==
  /\ SuccessWasSent
  /\ \A w \in Worker : pc[w] = "record" => sent[cur[w]] > 0

LEMMA CountPositive ==
  ASSUME SentCap > 0, TInv, NEW i \in Item, sent' = Count(i)
  PROVE  sent'[i] > 0 /\ \A j \in Item : sent[j] > 0 => sent'[j] > 0
  BY BoundAssumption DEF Count, TInv, TypeOK

\* The steps of transmit_item never undo a delivery, come to the point of recording
\* one only by delivering, and write success only from there.
LEMMA ItemTaskTruth ==
  ASSUME SentCap > 0, TInv, NEW w \in Worker, ItemTask(w)
  PROVE  /\ \A j \in Item : sent[j] > 0 => sent'[j] > 0
         /\ pc'[w] = "record" => sent'[cur'[w]] > 0
         /\ state'[cur[w]] = "success" => state[cur[w]] = "success" \/ pc[w] = "record"
<1>0. PICK i \in Item : i = cur[w]
  BY ItemTaskLocal DEF TInv, CurOK
<1> DEFINE Concl == /\ \A j \in Item : sent[j] > 0 => sent'[j] > 0
                    /\ pc'[w] = "record" => sent'[cur'[w]] > 0
                    /\ state'[i] = "success" => state[i] = "success" \/ pc[w] = "record"
<1>1. Concl
  <2> USE <1>0 DEF TInv, TypeOK, queueVars, localVars, Goto
  <2>0. ASSUME NEW ok \in BOOLEAN, EndAttempt(w, ok) PROVE pc'[w] # "record"
    BY <2>0 DEF EndAttempt, Idle
  <2>1. CASE ReadRejects(w) \/ HandlerFails(w)
    BY <2>0, <2>1 DEF ReadRejects, HandlerFails
  <2>2. CASE Record(w)
    BY <2>0, <2>2 DEF Record
  <2>3. CASE HandlerWrite(w)
    BY <2>0, <2>3 DEF HandlerWrite, Reschedule, Retry, GiveUp
  <2>4. CASE Read(w) \/ Mark(w) \/ MarkFails(w) \/ SendInactive(w) \/ RecordFails(w)
    BY <2>4 DEF Read, Mark, MarkFails, SendInactive, Sending, RecordFails, Raise
  <2>5. CASE Send(w)
    <3>1. sent'[i] > 0 /\ \A j \in Item : sent[j] > 0 => sent'[j] > 0
      BY <2>5, CountPositive DEF Send, Sending
    <3>2. QED
      BY <2>5, <3>1 DEF Send, Sending
  <2>6. CASE SendOtherError(w)
    <3>1. \A j \in Item : sent[j] > 0 => sent'[j] > 0
      BY <2>6, CountPositive DEF SendOtherError, Sending, MaybeDelivered
    <3>2. QED
      BY <2>6, <3>1 DEF SendOtherError, Sending, Raise
  <2>7. ASSUME NEW class \in {"none", "client"}, SendPublishError(w, class) PROVE Concl
    <3>1. \A j \in Item : sent[j] > 0 => sent'[j] > 0
      BY <2>7, CountPositive DEF SendPublishError, Sending, MaybeDelivered
    <3>2. QED
      BY <2>7, <3>1 DEF SendPublishError, Sending
  <2>8. CASE MarkError(w) \/ MarkErrorFails(w) \/ HandlerRead(w)
    BY <2>8 DEF MarkError, MarkErrorFails, HandlerRead, Raise
  <2>9. CASE SoftTimeout(w)
    BY <2>9 DEF SoftTimeout, Raise
  <2>10. QED
    BY <2>1, <2>2, <2>3, <2>4, <2>5, <2>6, <2>7, <2>8, <2>9 DEF ItemTask
<1>2. QED
  BY <1>0, <1>1

LEMMA NextTruth == SentCap > 0 /\ TInv /\ TruthInv /\ [Next]_vars => TruthInv'
<1> SUFFICES ASSUME SentCap > 0, TInv, TruthInv, [Next]_vars PROVE TruthInv'
  OBVIOUS
<1> USE DEF TruthInv, SuccessWasSent
<1>1. CASE UNCHANGED vars
  BY <1>1 DEF vars
<1>2. ASSUME NEW w \in Worker, ItemTask(w) PROVE TruthInv'
  <2>1. pc[w] = "record" => sent'[cur[w]] > 0
    BY <1>2, ItemTaskTruth, ItemTaskLocal DEF TInv, CurOK
  <2>2. ASSUME NEW i \in Item \ Direct, state'[i] = "success" PROVE sent'[i] > 0
    <3>0. state[i] = "success" => sent[i] > 0
      BY <2>2
    <3>1. state[i] = "success" => sent'[i] > 0
      BY <1>2, <2>2, <3>0, ItemTaskTruth
    <3>2. CASE i = cur[w]
      BY <1>2, <2>1, <2>2, <3>1, <3>2, ItemTaskTruth
    <3>3. CASE i # cur[w]
      BY <1>2, <2>2, <3>1, <3>3, ItemTaskLocal
    <3>4. QED
      BY <3>2, <3>3
  <2>3. ASSUME NEW v \in Worker, pc'[v] = "record" PROVE sent'[cur'[v]] > 0
    <3>1. CASE v = w
      BY <1>2, <2>3, <3>1, ItemTaskTruth
    <3>2. CASE v # w
      <4>1. pc[v] = "record" /\ cur'[v] = cur[v] /\ cur[v] \in Item
        BY <1>2, <2>3, <3>2, ItemTaskLocal DEF TInv, CurOK, Working
      <4>2. QED
        BY <1>2, <4>1, ItemTaskTruth
    <3>3. QED
      BY <3>1, <3>2
  <2>4. QED
    BY <2>2, <2>3
<1>3. ASSUME Outside PROVE TruthInv'
  BY <1>3 DEF Outside, PostedState, Working
<1>4. ASSUME NEW i \in Item, NEW s \in {"pending", "canceled"}, OperatorPatch(i, s)
      PROVE  TruthInv'
  BY <1>4 DEF OperatorPatch, TInv, TypeOK, localVars
<1>5. CASE Environment
  BY <1>3, <1>4, <1>5, EnvironmentOutside
<1>6. QED
  BY <1>1, <1>2, <1>3, <1>5, OtherTasksOutside DEF Next

\* Under every kind of fault, overlapping transmissions and operators included, an
\* entry in state success has reached its receiver, unless it was made for the content
\* API, whose entries are created as a success.
THEOREM SuccessTruthful == SentCap > 0 => (Spec => []SuccessWasSent)
<1> SUFFICES ASSUME SentCap > 0 PROVE Spec => []SuccessWasSent
  OBVIOUS
<1>1. Init => TruthInv
  BY DEF Init, TruthInv, SuccessWasSent
<1>2. TInv /\ TruthInv /\ [Next]_vars => TruthInv'
  BY NextTruth
<1>3. TruthInv => SuccessWasSent
  BY DEF TruthInv
<1>4. QED
  BY <1>1, <1>2, <1>3, InitTInv, NextTInv, PTL DEF Spec
=============================================================================
