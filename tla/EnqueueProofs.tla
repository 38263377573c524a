---------------------------- MODULE EnqueueProofs ---------------------------
(***************************************************************************)
(* Proofs about Enqueue, for any number of entries, subscribers, workers   *)
(* and concurrent requests.                                                *)
(***************************************************************************)
EXTENDS Enqueue, TLAPS

\* A worker inside enqueue_item has an entry to work on, and only requests that
\* publish something reach the published collection.
CurOK == \A w \in Worker : pc[w] \in Handling => cur[w] \in Entry
EditorOK == \A e \in Editor : edPc[e] \in {"update", "number", "insert"} => request[e] # "deschedule"

BaseInv == TypeOK /\ CurOK /\ EditorOK

LEMMA InitBase == Init => BaseInv
<1> SUFFICES ASSUME Init PROVE BaseInv
  OBVIOUS
<1> USE EntryAssumption, MatchAssumption, OwnerAssumption, BoundAssumption
<1>1. TypeOK
  BY DEF Init, TypeOK, ArchState, QState, Op, Owner, Point, Handling, EdPoint, Request, NoEntry
<1>2. CurOK /\ EditorOK
  BY DEF Init, CurOK, EditorOK, Handling
<1>3. QED
  BY <1>1, <1>2 DEF BaseInv

LEMMA ResultType ==
  ASSUME NEW r \in Request, NEW state \in ArchState
  PROVE  ResultState(r, state) \in ArchState
  BY DEF ResultState, Request, ArchState

LEMMA SubscribersType ==
  ASSUME BaseInv, NEW o \in Op
  PROVE  SubscribersFor(o) \subseteq Subscriber
  BY MatchAssumption DEF BaseInv, TypeOK, SubscribersFor, Received, Op

LEMMA WriteType ==
  ASSUME BaseInv, NEW e \in Editor, WriteArchive(e)
  PROVE  archState' \in ArchState /\ etag' \in Nat
<1>1. ResultState(request[e], original[e].state) \in ArchState
  BY ResultType DEF BaseInv, TypeOK
<1>2. QED
  BY <1>1 DEF WriteArchive, archVars, BaseInv, TypeOK

LEMMA EditorBase ==
  ASSUME BaseInv, NEW e \in Editor,
         EditorStep(e) \/ \E r \in Request : Submit(e, r)
  PROVE  BaseInv'
<1> USE EntryAssumption, BoundAssumption
<1> USE DEF BaseInv, TypeOK, CurOK, EditorOK, archVars, pubVars, queueVars, workVars, edVars,
            EdGoto, EdPoint
<1>1. ASSUME NEW r \in Request, Submit(e, r) PROVE BaseInv'
  BY <1>1 DEF Submit
<1>2. CASE UpdateArchive(e)
  BY <1>2, WriteType DEF UpdateArchive
<1>3. ASSUME NEW n \in Entry, TakeNumber(e, n) PROVE BaseInv'
  BY <1>3 DEF TakeNumber
<1>4. ASSUME NEW n \in Entry, PostPublished(e, n) PROVE BaseInv'
  <2>1. OpOf(request[e]) \in Op
    BY <1>4 DEF PostPublished, OpOf, Op, Request
  <2>2. qstate' \in [Entry -> QState] /\ op' \in [Entry -> Op]
    BY <1>4, <2>1 DEF PostPublished, QState
  <2>3. scheduled' \subseteq Entry /\ waiting' \subseteq Entry
    BY <1>4 DEF PostPublished
  <2>4. edPc' \in [Editor -> EdPoint] /\ EditorOK'
    BY <1>4 DEF PostPublished
  <2>5. QED
    BY <1>4, <2>2, <2>3, <2>4 DEF PostPublished
<1>5. CASE DeletePublished(e)
  BY <1>5 DEF DeletePublished, QState
<1>6. CASE DeleteQueue(e)
  BY <1>6 DEF DeleteQueue
<1>7. CASE RestoreArchive(e)
  BY <1>7, WriteType DEF RestoreArchive
<1>8. QED
  BY <1>1, <1>2, <1>3, <1>4, <1>5, <1>6, <1>7 DEF EditorStep

\* The end of a task or of an entry's handling changes only the worker's locals.
LEMMA LocalsType ==
  ASSUME BaseInv, NEW w \in Worker, Forget(w) \/ EndItem(w)
  PROVE  /\ pc' \in [Worker -> Point]
         /\ cur' \in [Worker -> Entry \cup {NoEntry}]
         /\ targets' \in [Worker -> SUBSET Subscriber]
         /\ anyQueued' \in [Worker -> BOOLEAN]
         /\ CurOK'
<1> USE DEF BaseInv, TypeOK, CurOK, Goto, Point, Handling
<1>1. CASE Forget(w)
  BY <1>1 DEF Forget
<1>2. CASE EndItem(w)
  BY <1>2 DEF EndItem
<1>3. QED
  BY <1>1, <1>2

LEMMA PatchType ==
  ASSUME BaseInv, NEW n, NEW state \in QState, Patch(n, state)
  PROVE  qstate' \in [Entry -> QState]
  BY DEF Patch, BaseInv, TypeOK

\* The steps of run() and enqueue_items.
LEMMA RunBase ==
  ASSUME BaseInv, NEW w \in Worker,
         \/ RunStart(w) \/ ListItems(w) \/ RunAborts(w) \/ RunEnd(w)
         \/ \E n \in Entry : TakeItem(w, n)
  PROVE  BaseInv'
<1> USE DEF BaseInv, TypeOK, CurOK, EditorOK, archVars, pubVars, queueVars, workVars, edVars,
            Goto, Owner, Point, Handling
<1>1. CASE RunStart(w)
  BY <1>1 DEF RunStart
<1>2. CASE ListItems(w)
  BY <1>2 DEF ListItems, Listed
<1>3. CASE RunAborts(w)
  BY <1>3 DEF RunAborts
<1>4. CASE RunEnd(w)
  <2>1. lockOwner' \in Owner
    BY <1>4 DEF RunEnd, Released
  <2>2. batch' \in [Worker -> SUBSET Entry] /\ struck' \in [Worker -> BOOLEAN]
    BY <1>4 DEF RunEnd, Forget
  <2>3. Forget(w)
    BY <1>4 DEF RunEnd
  <2>4. QED
    BY <1>4, <2>1, <2>2, <2>3, LocalsType DEF RunEnd
<1>5. ASSUME NEW n \in Entry, TakeItem(w, n) PROVE BaseInv'
  BY <1>5 DEF TakeItem
<1>6. QED
  BY <1>1, <1>2, <1>3, <1>4, <1>5

\* The steps of enqueue_item.
HandlingStep(w) ==
  \/ Check(w) \/ FlipArchive(w) \/ Mark(w) \/ GetSubscribers(w) \/ FanDone(w) \/ Finish(w)
  \/ \E s \in Subscriber : QueueFor(w, s) \/ SkipSubscriber(w, s)
  \/ HandleTimeout(w) \/ HandleError(w)

LEMMA HandlingBase ==
  ASSUME BaseInv, NEW w \in Worker, HandlingStep(w)
  PROVE  BaseInv'
<1> USE DEF archVars, pubVars, queueVars, workVars, edVars
<1>1. CASE Check(w)
  <2>1. CASE Proceed(cur[w])
    BY <1>1, <2>1 DEF Check, BaseInv, TypeOK, CurOK, EditorOK, Goto, Point, Handling
  <2>2. CASE ~Proceed(cur[w])
    BY <1>1, <2>2, LocalsType DEF Check, BaseInv, TypeOK, EditorOK
  <2>3. QED
    BY <2>1, <2>2
<1>2. CASE FlipArchive(w)
  BY <1>2 DEF FlipArchive, BaseInv, TypeOK, CurOK, EditorOK, Goto, Point, Handling, ArchState
<1>3. CASE Mark(w)
  <2>1. CASE qstate[cur[w]] = "deleted"
    BY <1>3, <2>1, LocalsType DEF Mark, BaseInv, TypeOK, EditorOK
  <2>2. CASE qstate[cur[w]] # "deleted"
    BY <1>3, <2>2
    DEF Mark, InProgress, BaseInv, TypeOK, CurOK, EditorOK, Goto, Point, Handling, QState
  <2>3. QED
    BY <2>1, <2>2
<1>4. CASE GetSubscribers(w)
  <2>1. cur[w] \in Entry
    BY <1>4 DEF GetSubscribers, BaseInv, CurOK, Handling
  <2>2. SubscribersFor(op[cur[w]]) \subseteq Subscriber
    BY <2>1, SubscribersType DEF BaseInv, TypeOK
  <2>3. QED
    BY <1>4, <2>2 DEF GetSubscribers, BaseInv, TypeOK, CurOK, EditorOK, Goto, Point, Handling
<1>5. CASE FanDone(w)
  BY <1>5 DEF FanDone, BaseInv, TypeOK, CurOK, EditorOK, Goto, Point, Handling
<1>6. CASE Finish(w)
  <2>1. qstate' \in [Entry -> QState]
    BY <1>6, PatchType DEF Finish, QState
  <2>2. QED
    BY <1>6, <2>1, LocalsType DEF Finish, BaseInv, TypeOK, EditorOK
<1>7. ASSUME NEW s \in Subscriber, QueueFor(w, s) PROVE BaseInv'
  <2>1. ASSUME NEW k \in 0..PostCap
        PROVE  (IF k < PostCap THEN k + 1 ELSE k) \in 0..PostCap
    BY BoundAssumption
  <2>2. posted' \in [Entry -> [Subscriber -> 0..PostCap]]
    BY <1>7, <2>1 DEF QueueFor, BaseInv, TypeOK
  <2>3. QED
    BY <1>7, <2>2 DEF QueueFor, Remaining, BaseInv, TypeOK, CurOK, EditorOK
<1>8. ASSUME NEW s \in Subscriber, SkipSubscriber(w, s) PROVE BaseInv'
  BY <1>8 DEF SkipSubscriber, Remaining, BaseInv, TypeOK, CurOK, EditorOK
<1>9. CASE HandleTimeout(w)
  <2>1. qstate' \in [Entry -> QState]
    BY <1>9, PatchType DEF HandleTimeout, QState
  <2>2. struck' \in [Worker -> BOOLEAN]
    BY <1>9 DEF HandleTimeout, BaseInv, TypeOK
  <2>3. QED
    BY <1>9, <2>1, <2>2, LocalsType DEF HandleTimeout, BaseInv, TypeOK, EditorOK
<1>10. CASE HandleError(w)
  <2>1. qstate' \in [Entry -> QState]
    BY <1>10, PatchType DEF HandleError, QState
  <2>2. struck' \in [Worker -> BOOLEAN]
    BY <1>10 DEF HandleError, BaseInv, TypeOK
  <2>3. QED
    BY <1>10, <2>1, <2>2, LocalsType DEF HandleError, BaseInv, TypeOK, EditorOK
<1>11. QED
  BY <1>1, <1>2, <1>3, <1>4, <1>5, <1>6, <1>7, <1>8, <1>9, <1>10 DEF HandlingStep

\* The steps nobody in the program takes.
Surroundings ==
  \/ \E n \in Entry : ScheduleElapses(n)
  \/ \E w \in Worker : Crash(w)
  \/ LockExpires
  \/ \E s \in Subscriber : SwitchSubscriber(s)

LEMMA SurroundingsBase ==
  ASSUME BaseInv, Surroundings
  PROVE  BaseInv'
<1> USE DEF archVars, pubVars, queueVars, workVars, edVars
<1>1. ASSUME NEW n \in Entry, ScheduleElapses(n) PROVE BaseInv'
  BY <1>1 DEF ScheduleElapses, BaseInv, TypeOK, CurOK, EditorOK
<1>2. ASSUME NEW w \in Worker, Crash(w) PROVE BaseInv'
  <2>1. lockOwner' \in Owner
    BY <1>2 DEF Crash, BaseInv, TypeOK, Owner
  <2>2. batch' \in [Worker -> SUBSET Entry] /\ struck' \in [Worker -> BOOLEAN]
    BY <1>2 DEF Crash, Forget, BaseInv, TypeOK
  <2>3. QED
    BY <1>2, <2>1, <2>2, LocalsType DEF Crash, BaseInv, TypeOK, EditorOK
<1>3. CASE LockExpires
  BY <1>3 DEF LockExpires, BaseInv, TypeOK, CurOK, EditorOK, Owner
<1>4. ASSUME NEW s \in Subscriber, SwitchSubscriber(s) PROVE BaseInv'
  BY <1>4 DEF SwitchSubscriber, BaseInv, TypeOK, CurOK, EditorOK
<1>5. QED
  BY <1>1, <1>2, <1>3, <1>4 DEF Surroundings

\* The disjuncts of Next, grouped as the lemmas are.
LEMMA NextCases ==
  ASSUME Next
  PROVE  \/ \E e \in Editor : EditorStep(e) \/ \E r \in Request : Submit(e, r)
         \/ \E w \in Worker : \/ RunStart(w) \/ ListItems(w) \/ RunAborts(w) \/ RunEnd(w)
                              \/ \E n \in Entry : TakeItem(w, n)
         \/ \E w \in Worker : HandlingStep(w)
         \/ Surroundings
  BY DEF Next, WorkerStep, HandlingStep, Environment, Surroundings

LEMMA StepBase == BaseInv /\ [Next]_vars => BaseInv'
<1> SUFFICES ASSUME BaseInv, [Next]_vars PROVE BaseInv'
  OBVIOUS
<1>1. CASE Next
  BY <1>1, NextCases, EditorBase, RunBase, HandlingBase, SurroundingsBase
<1>2. CASE UNCHANGED vars
  BY <1>2 DEF vars, BaseInv, TypeOK, CurOK, EditorOK
<1>3. QED
  BY <1>1, <1>2

\* The number a request has taken is its own, and what the tasks are at has been inserted.
NumberOwn ==
  \A d, e \in Editor :
    edPc[d] = "insert" /\ edPc[e] = "insert" /\ number[d] = number[e] => d = e
NumberNew ==
  \A e \in Editor : edPc[e] = "insert" => number[e] \in Entry /\ qstate[number[e]] = "absent"
WorkInserted ==
  \A w \in Worker : /\ pc[w] \in Handling => qstate[cur[w]] # "absent"
                    /\ \A n \in batch[w] : qstate[n] # "absent"

TInv == BaseInv /\ NumberOwn /\ NumberNew /\ WorkInserted

LEMMA InitTInv == Init => TInv
  BY InitBase DEF Init, TInv, NumberOwn, NumberNew, WorkInserted, Handling

\* The steps of enqueue_item post for the entry at hand only, forget no entry, and leave
\* the rest of the batch alone.
LEMMA HandlingLocal ==
  ASSUME BaseInv, NEW w \in Worker, HandlingStep(w)
  PROVE  /\ pc[w] \in Handling /\ cur[w] \in Entry
         /\ \A n \in Entry \ {cur[w]} : qstate'[n] = qstate[n] /\ posted'[n] = posted[n]
                                        /\ meant'[n] = meant[n]
         /\ qstate[cur[w]] # "absent" => qstate'[cur[w]] # "absent"
         /\ waiting' = waiting /\ scheduled \ {cur[w]} \subseteq scheduled' /\ batch' = batch
         /\ op' = op /\ active' = active /\ edPc' = edPc /\ number' = number /\ overtaken' = overtaken
         /\ \A v \in Worker \ {w} : pc'[v] = pc[v] /\ cur'[v] = cur[v]
         /\ pc'[w] \in Handling => cur'[w] = cur[w]
<1> DEFINE Concl ==
             /\ \A n \in Entry \ {cur[w]} : qstate'[n] = qstate[n] /\ posted'[n] = posted[n]
                                            /\ meant'[n] = meant[n]
             /\ qstate[cur[w]] # "absent" => qstate'[cur[w]] # "absent"
             /\ waiting' = waiting /\ scheduled \ {cur[w]} \subseteq scheduled' /\ batch' = batch
             /\ op' = op /\ active' = active /\ edPc' = edPc /\ number' = number /\ overtaken' = overtaken
             /\ \A v \in Worker \ {w} : pc'[v] = pc[v] /\ cur'[v] = cur[v]
             /\ pc'[w] \in Handling => cur'[w] = cur[w]
<1>1. pc[w] \in Handling
  BY DEF HandlingStep, Check, FlipArchive, Mark, GetSubscribers, FanDone, Finish, QueueFor,
         SkipSubscriber, HandleTimeout, HandleError, Handling
<1>2. cur[w] \in Entry
  BY <1>1 DEF BaseInv, CurOK
<1>3. Concl
  <2> USE <1>1, <1>2 DEF BaseInv, TypeOK, pubVars, queueVars, workVars, edVars, Goto, Handling,
             EndItem
  <2>1. CASE Check(w) \/ FlipArchive(w) \/ FanDone(w)
    BY <2>1 DEF Check, FlipArchive, FanDone
  <2>2. CASE Mark(w)
    BY <2>2 DEF Mark, InProgress
  <2>3. CASE GetSubscribers(w)
    BY <2>3 DEF GetSubscribers
  <2>4. CASE Finish(w) \/ HandleTimeout(w) \/ HandleError(w)
    BY <2>4 DEF Finish, HandleTimeout, HandleError, Patch
  <2>5. CASE \E s \in Subscriber : QueueFor(w, s) \/ SkipSubscriber(w, s)
    BY <2>5 DEF QueueFor, SkipSubscriber
  <2>6. QED
    BY <2>1, <2>2, <2>3, <2>4, <2>5 DEF HandlingStep
<1>4. QED
  BY <1>1, <1>2, <1>3

LEMMA EditorNumbers ==
  ASSUME TInv, NEW e \in Editor,
         EditorStep(e) \/ \E r \in Request : Submit(e, r)
  PROVE  NumberOwn' /\ NumberNew' /\ WorkInserted'
<1> USE DEF TInv, BaseInv, TypeOK, archVars, pubVars, queueVars, workVars, edVars, EdGoto
<1>1. UNCHANGED <<pc, batch, cur>>
  BY DEF EditorStep, Submit, UpdateArchive, TakeNumber, PostPublished, DeletePublished,
         DeleteQueue, RestoreArchive
<1>2. \A w \in Worker : batch[w] \subseteq Entry /\ (pc[w] \in Handling => cur[w] \in Entry)
  BY DEF CurOK
<1>3. CASE \/ UpdateArchive(e) \/ DeleteQueue(e) \/ RestoreArchive(e)
           \/ \E r \in Request : Submit(e, r)
  <2>1. /\ number' = number /\ qstate' = qstate /\ edPc'[e] # "insert"
        /\ \A d \in Editor \ {e} : edPc'[d] = edPc[d]
    BY <1>3 DEF UpdateArchive, DeleteQueue, RestoreArchive, Submit
  <2>2. QED
    BY <1>1, <2>1 DEF NumberOwn, NumberNew, WorkInserted
<1>4. ASSUME NEW n \in Entry, TakeNumber(e, n) PROVE NumberOwn' /\ NumberNew' /\ WorkInserted'
  <2>1. /\ qstate[n] = "absent" /\ \A d \in Editor : number[d] # n
        /\ number'[e] = n /\ edPc'[e] = "insert" /\ qstate' = qstate
        /\ \A d \in Editor \ {e} : number'[d] = number[d] /\ edPc'[d] = edPc[d]
    BY <1>4 DEF TakeNumber, IsLowest, Unused
  <2>2. NumberOwn'
    <3>1. \A d \in Editor : edPc'[d] = "insert" =>
            \/ d = e /\ number'[d] = n
            \/ d # e /\ edPc[d] = "insert" /\ number'[d] = number[d] /\ number[d] # n
      BY <2>1
    <3>2. QED
      BY <3>1 DEF NumberOwn
  <2>3. NumberNew' /\ WorkInserted'
    BY <1>1, <2>1 DEF NumberNew, WorkInserted
  <2>4. QED
    BY <2>2, <2>3
<1>5. ASSUME NEW n \in Entry, PostPublished(e, n) PROVE NumberOwn' /\ NumberNew' /\ WorkInserted'
  <2>1. /\ edPc[e] = "insert" /\ n = number[e] /\ edPc'[e] = "idle"
        /\ qstate'[n] = "pending" /\ \A m \in Entry \ {n} : qstate'[m] = qstate[m]
        /\ \A d \in Editor \ {e} : number'[d] = number[d] /\ edPc'[d] = edPc[d]
    BY <1>5 DEF PostPublished
  <2>2. \A d \in Editor \ {e} : edPc[d] = "insert" => number[d] # n
    BY <2>1 DEF NumberOwn
  <2>3. NumberOwn' /\ NumberNew'
    <3>1. \A d \in Editor : edPc'[d] = "insert" =>
            d # e /\ edPc[d] = "insert" /\ number'[d] = number[d] /\ number[d] # n
      BY <2>1, <2>2
    <3>2. QED
      BY <2>1, <3>1 DEF NumberOwn, NumberNew
  <2>4. \A m \in Entry : qstate[m] # "absent" => qstate'[m] # "absent"
    BY <2>1
  <2>5. QED
    BY <1>1, <1>2, <2>3, <2>4 DEF WorkInserted
<1>6. CASE DeletePublished(e)
  <2>1. \A n \in Entry : qstate'[n] = "absent" <=> qstate[n] = "absent"
    BY <1>6 DEF DeletePublished
  <2>2. /\ number' = number /\ edPc'[e] # "insert"
        /\ \A d \in Editor \ {e} : edPc'[d] = edPc[d]
    BY <1>6 DEF DeletePublished
  <2>3. QED
    BY <1>1, <1>2, <2>1, <2>2 DEF NumberOwn, NumberNew, WorkInserted
<1>7. QED
  BY <1>3, <1>4, <1>5, <1>6 DEF EditorStep

LEMMA RunNumbers ==
  ASSUME TInv, NEW w \in Worker,
         \/ RunStart(w) \/ ListItems(w) \/ RunAborts(w) \/ RunEnd(w)
         \/ \E n \in Entry : TakeItem(w, n)
  PROVE  NumberOwn' /\ NumberNew' /\ WorkInserted'
<1> USE DEF TInv, BaseInv, TypeOK, pubVars, workVars, edVars, Goto, Handling
<1>1. UNCHANGED <<qstate, edPc, number>>
  BY DEF RunStart, ListItems, RunAborts, RunEnd, TakeItem
<1>2. \A v \in Worker \ {w} : pc'[v] = pc[v] /\ batch'[v] = batch[v] /\ cur'[v] = cur[v]
  BY DEF RunStart, ListItems, RunAborts, RunEnd, TakeItem, Forget
<1>3. /\ pc'[w] \in Handling => qstate[cur'[w]] # "absent"
      /\ \A n \in batch'[w] : qstate[n] # "absent"
  <2>1. CASE RunStart(w) \/ RunAborts(w) \/ RunEnd(w)
    BY <2>1 DEF RunStart, RunAborts, RunEnd, Forget, WorkInserted
  <2>2. CASE ListItems(w)
    BY <2>2 DEF ListItems, Listed
  <2>3. CASE \E n \in Entry : TakeItem(w, n)
    BY <2>3 DEF TakeItem, IsNext, WorkInserted
  <2>4. QED
    BY <2>1, <2>2, <2>3
<1>4. QED
  BY <1>1, <1>2, <1>3 DEF NumberOwn, NumberNew, WorkInserted

LEMMA HandlingNumbers ==
  ASSUME TInv, NEW w \in Worker, HandlingStep(w)
  PROVE  NumberOwn' /\ NumberNew' /\ WorkInserted'
<1>1. BaseInv /\ WorkInserted
  BY DEF TInv
<1>2. PICK k \in Entry : k = cur[w] /\ qstate[k] # "absent"
  BY <1>1, HandlingLocal DEF WorkInserted
<1>3. \A n \in Entry : qstate'[n] = "absent" <=> qstate[n] = "absent"
  BY <1>1, <1>2, HandlingLocal
<1>4. edPc' = edPc /\ number' = number /\ batch' = batch
  BY <1>1, HandlingLocal
<1>5. \A v \in Worker : batch[v] \subseteq Entry
  BY <1>1 DEF BaseInv, TypeOK
<1>6. ASSUME NEW v \in Worker, pc'[v] \in Handling
      PROVE  pc[v] \in Handling /\ cur'[v] = cur[v] /\ cur[v] \in Entry
  BY <1>1, <1>6, HandlingLocal DEF BaseInv, CurOK
<1>7. WorkInserted'
  BY <1>1, <1>3, <1>4, <1>5, <1>6 DEF WorkInserted
<1>8. QED
  BY <1>3, <1>4, <1>7 DEF TInv, NumberOwn, NumberNew

LEMMA SurroundingsNumbers ==
  ASSUME TInv, Surroundings
  PROVE  NumberOwn' /\ NumberNew' /\ WorkInserted'
<1> USE DEF TInv, BaseInv, TypeOK, pubVars, workVars, edVars, Goto, Handling
<1>1. UNCHANGED <<qstate, edPc, number>>
  BY DEF Surroundings, ScheduleElapses, Crash, LockExpires, SwitchSubscriber
<1>2. \A v \in Worker :
        \/ pc'[v] = "idle" /\ batch'[v] = {}
        \/ pc'[v] = pc[v] /\ batch'[v] = batch[v] /\ cur'[v] = cur[v]
  BY DEF Surroundings, ScheduleElapses, Crash, LockExpires, SwitchSubscriber, Forget
<1>3. QED
  BY <1>1, <1>2 DEF NumberOwn, NumberNew, WorkInserted

LEMMA StepTInv == TInv /\ [Next]_vars => TInv'
<1> SUFFICES ASSUME TInv, [Next]_vars PROVE TInv'
  OBVIOUS
<1>1. BaseInv'
  BY StepBase DEF TInv
<1>2. CASE Next
  BY <1>1, <1>2, NextCases, EditorNumbers, RunNumbers, HandlingNumbers, SurroundingsNumbers
     DEF TInv
<1>3. CASE UNCHANGED vars
  BY <1>1, <1>3 DEF vars, TInv, NumberOwn, NumberNew, WorkInserted
<1>4. QED
  BY <1>2, <1>3

\* The fields of the published and publish_queue collections and the locals of
\* every task keep their types.
THEOREM TypeCorrect == Spec => []TypeOK
<1>1. TInv => TypeOK
  BY DEF TInv, BaseInv
<1>2. QED
  BY <1>1, InitTInv, StepTInv, PTL DEF Spec

-----------------------------------------------------------------------------
(* Each entry is queued once.  The lock leaves one worker in the command, and *)
(* an entry that worker may still mark, or post for a subscriber, has nothing *)
(* in the publish queue yet.                                                  *)

\* No handled exception sends an entry back, and the lock outlives its task.
NoTimeouts == Faults \cap {"search", "softlimit", "overrun"} = {}

LockInv == \A w \in Worker : pc[w] # "idle" => lockOwner = w

Fresh(n) == \A s \in Subscriber : posted[n][s] = 0

PendingFresh == \A n \in Entry : qstate[n] \in {"absent", "pending"} => Fresh(n)
MarkPending ==
  \A w \in Worker : pc[w] \in {"flip", "mark"} => qstate[cur[w]] \in {"pending", "deleted"}
FanMarked ==
  \A w \in Worker :
    pc[w] \in {"targets", "fan"} => qstate[cur[w]] \notin {"absent", "pending"}
FanFresh ==
  \A w \in Worker : /\ pc[w] = "targets" => Fresh(cur[w])
                    /\ pc[w] = "fan" => \A s \in targets[w] : posted[cur[w]][s] = 0

OInv == TInv /\ LockInv /\ PendingFresh /\ MarkPending /\ FanMarked /\ FanFresh /\ QueuedOnce

LEMMA InitOInv == Init => OInv
<1> SUFFICES ASSUME Init PROVE OInv
  OBVIOUS
<1>1. LockInv /\ PendingFresh /\ MarkPending /\ FanMarked /\ FanFresh /\ QueuedOnce
  BY DEF Init, LockInv, PendingFresh, MarkPending, FanMarked, FanFresh, Fresh, QueuedOnce
<1>2. QED
  BY <1>1, InitTInv DEF OInv

\* Only one worker is out of idle.
LEMMA OneRunning ==
  ASSUME LockInv, NEW v \in Worker, NEW w \in Worker, pc[v] # "idle", pc[w] # "idle"
  PROVE  v = w
  BY DEF LockInv

LEMMA EditorOInv ==
  ASSUME OInv, TInv', NEW e \in Editor,
         EditorStep(e) \/ \E r \in Request : Submit(e, r)
  PROVE  OInv'
<1> USE DEF OInv, LockInv, PendingFresh, MarkPending, FanMarked, FanFresh, Fresh, QueuedOnce,
            archVars, pubVars, queueVars, workVars
<1>1. ASSUME NEW r \in Request, Submit(e, r) PROVE OInv'
  BY <1>1 DEF Submit
<1>2. CASE UpdateArchive(e) \/ RestoreArchive(e) \/ \E n \in Entry : TakeNumber(e, n)
  BY <1>2 DEF UpdateArchive, RestoreArchive, TakeNumber
<1>3. ASSUME NEW n \in Entry, PostPublished(e, n) PROVE OInv'
  <2>1. qstate[n] = "absent" /\ qstate' = [qstate EXCEPT ![n] = "pending"]
    BY <1>3 DEF PostPublished, TInv, NumberNew
  <2>2. UNCHANGED <<posted, lockOwner, pc, cur, targets>>
    BY <1>3 DEF PostPublished
  <2>3. PendingFresh'
    BY <2>1, <2>2 DEF TInv, BaseInv, TypeOK
  <2>4. \A w \in Worker : pc[w] \in {"flip", "mark", "targets", "fan"} =>
                            cur[w] # n /\ qstate'[cur[w]] = qstate[cur[w]]
    BY <2>1 DEF TInv, BaseInv, TypeOK, CurOK, Handling
  <2>5. QED
    BY <2>2, <2>3, <2>4
<1>4. CASE DeletePublished(e)
  <2>1. \A n \in Entry : qstate'[n] \in {"absent", "deleted"} /\ (qstate'[n] = "absent" => qstate[n] = "absent")
    BY <1>4 DEF DeletePublished
  <2>2. \A n \in Entry : qstate[n] # "absent" => qstate'[n] = "deleted"
    BY <1>4 DEF DeletePublished
  <2>3. UNCHANGED <<posted, lockOwner, pc, cur, targets>>
    BY <1>4 DEF DeletePublished
  <2>4. \A w \in Worker : pc[w] \in {"flip", "mark", "targets", "fan"} => qstate'[cur[w]] = "deleted"
    BY <2>2 DEF TInv, BaseInv, TypeOK, CurOK, Handling
  <2>5. QED
    BY <2>1, <2>3, <2>4
<1>5. CASE DeleteQueue(e)
  <2>1. \A n \in Entry : \A s \in Subscriber : posted'[n][s] = 0
    BY <1>5 DEF DeleteQueue
  <2>2. UNCHANGED <<qstate, lockOwner, pc, cur, targets>>
    BY <1>5 DEF DeleteQueue
  <2>3. \A w \in Worker : pc[w] \in {"targets", "fan"} => cur[w] \in Entry
    BY DEF TInv, BaseInv, CurOK, Handling
  <2>4. \A w \in Worker : targets[w] \subseteq Subscriber
    BY DEF TInv, BaseInv, TypeOK
  <2>5. QED
    BY <2>1, <2>2, <2>3, <2>4
<1>6. QED
  BY <1>1, <1>2, <1>3, <1>4, <1>5 DEF EditorStep

\* Leaving an entry or the command takes a worker out of every condition.
LEMMA LeavesOInv ==
  ASSUME OInv, NEW w \in Worker, pc[w] # "idle",
         pc' = [pc EXCEPT ![w] = "next"] \/ pc' = [pc EXCEPT ![w] = "idle"],
         cur' = [cur EXCEPT ![w] = NoEntry],
         targets' = [targets EXCEPT ![w] = {}],
         \A n \in Entry : qstate'[n] \in {"absent", "pending"} => qstate'[n] = qstate[n],
         posted' = posted
  PROVE  PendingFresh' /\ MarkPending' /\ FanMarked' /\ FanFresh' /\ QueuedOnce'
<1>1. \A v \in Worker : v # w => pc[v] = "idle"
  BY OneRunning DEF OInv
<1>2. \A v \in Worker : pc'[v] \in {"idle", "next"}
  BY <1>1 DEF OInv, TInv, BaseInv, TypeOK
<1>3. QED
  BY <1>2
  DEF OInv, PendingFresh, MarkPending, FanMarked, FanFresh, Fresh, QueuedOnce

LEMMA RunOInv ==
  ASSUME OInv, TInv', NEW w \in Worker,
         \/ RunStart(w) \/ ListItems(w) \/ RunAborts(w) \/ RunEnd(w)
         \/ \E n \in Entry : TakeItem(w, n)
  PROVE  OInv'
<1> USE OwnerAssumption
<1> USE DEF OInv, pubVars, queueVars, workVars, Goto
<1>1. CASE RunStart(w)
  <2>1. \A v \in Worker : pc[v] = "idle"
    BY <1>1 DEF RunStart, Free, LockInv
  <2>2. LockInv'
    BY <1>1, <2>1 DEF RunStart, LockInv, TInv, BaseInv, TypeOK
  <2>3. PendingFresh' /\ MarkPending' /\ FanMarked' /\ FanFresh' /\ QueuedOnce'
    BY <1>1, <2>1
    DEF RunStart, PendingFresh, MarkPending, FanMarked, FanFresh, Fresh, QueuedOnce, TInv, BaseInv, TypeOK
  <2>4. QED
    BY <2>2, <2>3
<1>2. CASE ListItems(w) \/ RunAborts(w) \/ \E n \in Entry : TakeItem(w, n)
  <2>1. pc[w] # "idle" /\ UNCHANGED <<qstate, posted, lockOwner>>
    BY <1>2 DEF ListItems, RunAborts, TakeItem
  <2>2. LockInv'
    BY <1>2, <2>1 DEF LockInv, TInv, BaseInv, TypeOK, ListItems, RunAborts, TakeItem
  <2>3. \A v \in Worker : v # w => pc[v] = "idle"
    BY <2>1, OneRunning
  <2>4. \A v \in Worker : pc'[v] \in {"idle", "next", "check"}
    <3>1. \/ pc' = [pc EXCEPT ![w] = "next"]
          \/ pc' = [pc EXCEPT ![w] = "check"]
      BY <1>2 DEF ListItems, RunAborts, TakeItem
    <3>2. QED
      BY <2>3, <3>1 DEF TInv, BaseInv, TypeOK
  <2>5. QED
    BY <2>1, <2>2, <2>4 DEF PendingFresh, MarkPending, FanMarked, FanFresh, Fresh, QueuedOnce
<1>3. CASE RunEnd(w)
  <2>1. pc[w] # "idle" /\ pc' = [pc EXCEPT ![w] = "idle"] /\ UNCHANGED <<qstate, posted>>
    BY <1>3 DEF RunEnd, Forget
  <2>2. \A v \in Worker : v # w => pc[v] = "idle"
    BY <2>1, OneRunning
  <2>3. LockInv'
    BY <2>1, <2>2 DEF LockInv, TInv, BaseInv, TypeOK
  <2>4. cur' = [cur EXCEPT ![w] = NoEntry] /\ targets' = [targets EXCEPT ![w] = {}]
    BY <1>3 DEF RunEnd, Forget
  <2>5. QED
    BY <2>1, <2>3, <2>4, LeavesOInv
<1>4. QED
  BY <1>1, <1>2, <1>3

LEMMA HandlingOInv ==
  ASSUME OInv, TInv', NoTimeouts, NEW w \in Worker, HandlingStep(w)
  PROVE  OInv'
<1> USE DEF OInv, pubVars, queueVars, workVars
<1>1. /\ pc[w] \in Handling /\ pc[w] # "idle" /\ cur[w] \in Entry
      /\ \A v \in Worker : v # w => pc[v] = "idle"
  <2>1. pc[w] \in Handling
    BY DEF HandlingStep, Check, FlipArchive, Mark, GetSubscribers, FanDone, Finish, QueueFor,
           SkipSubscriber, HandleTimeout, HandleError, Handling
  <2>2. pc[w] # "idle"
    BY <2>1 DEF Handling
  <2>3. QED
    BY <2>1, <2>2, OneRunning DEF TInv, BaseInv, CurOK
<1>2. ~HandleTimeout(w)
  BY DEF NoTimeouts, HandleTimeout
<1>3. lockOwner' = lockOwner
  BY DEF HandlingStep, Check, FlipArchive, Mark, GetSubscribers, FanDone, Finish, QueueFor,
         SkipSubscriber, HandleTimeout, HandleError
<1>4. \A v \in Worker : v # w => pc'[v] = "idle"
  BY <1>1 DEF HandlingStep, Check, FlipArchive, Mark, GetSubscribers, FanDone, Finish, QueueFor,
              SkipSubscriber, HandleTimeout, HandleError, EndItem, Goto, TInv, BaseInv, TypeOK
<1>5. LockInv'
  BY <1>1, <1>3, <1>4 DEF LockInv
<1>6. CASE Check(w)
  <2>1. CASE Proceed(cur[w])
    <3>1. qstate[cur[w]] = "pending" /\ UNCHANGED <<qstate, posted, cur, targets>>
      BY <1>6, <2>1 DEF Check, Proceed
    <3>2. pc'[w] \in {"flip", "mark"}
      BY <1>6, <2>1 DEF Check, Goto, TInv, BaseInv, TypeOK
    <3>3. QED
      BY <1>4, <1>5, <3>1, <3>2 DEF PendingFresh, MarkPending, FanMarked, FanFresh, Fresh, QueuedOnce
  <2>2. CASE ~Proceed(cur[w])
    BY <1>1, <1>5, <1>6, <2>2, LeavesOInv DEF Check, EndItem, Goto
  <2>3. QED
    BY <2>1, <2>2
<1>7. CASE FlipArchive(w)
  <2>1. UNCHANGED <<qstate, posted, cur, targets>> /\ pc[w] = "flip" /\ pc'[w] = "mark"
    BY <1>7 DEF FlipArchive, Goto, TInv, BaseInv, TypeOK
  <2>2. QED
    BY <1>4, <1>5, <2>1 DEF PendingFresh, MarkPending, FanMarked, FanFresh, Fresh, QueuedOnce
<1>8. CASE Mark(w)
  <2>1. CASE qstate[cur[w]] = "deleted"
    BY <1>1, <1>5, <1>8, <2>1, LeavesOInv DEF Mark, EndItem, Goto
  <2>2. CASE qstate[cur[w]] # "deleted"
    <3>1. qstate[cur[w]] = "pending"
      BY <1>8, <2>2 DEF Mark, MarkPending
    <3>2. Fresh(cur[w])
      BY <1>1, <3>1 DEF PendingFresh
    <3>3. /\ qstate' = [qstate EXCEPT ![cur[w]] = "in_progress"] /\ pc'[w] = "targets"
          /\ UNCHANGED <<posted, cur, targets>>
      BY <1>8, <2>2 DEF Mark, InProgress, Goto, TInv, BaseInv, TypeOK
    <3>4. qstate'[cur[w]] = "in_progress" /\ \A n \in Entry : n # cur[w] => qstate'[n] = qstate[n]
      BY <1>1, <3>3 DEF TInv, BaseInv, TypeOK
    <3>5. QED
      BY <1>1, <1>4, <1>5, <3>2, <3>3, <3>4
      DEF PendingFresh, MarkPending, FanMarked, FanFresh, Fresh, QueuedOnce
  <2>3. QED
    BY <2>1, <2>2
<1>9. CASE GetSubscribers(w)
  <2>1. /\ UNCHANGED <<qstate, posted, cur>> /\ pc[w] = "targets" /\ pc'[w] = "fan"
        /\ targets'[w] = SubscribersFor(op[cur[w]])
    BY <1>9 DEF GetSubscribers, Goto, TInv, BaseInv, TypeOK
  <2>2. SubscribersFor(op[cur[w]]) \subseteq Subscriber
    BY <1>1, SubscribersType DEF TInv, BaseInv, TypeOK
  <2>3. QED
    BY <1>4, <1>5, <2>1, <2>2 DEF PendingFresh, MarkPending, FanMarked, FanFresh, Fresh, QueuedOnce
<1>10. CASE FanDone(w)
  <2>1. UNCHANGED <<qstate, posted, cur, targets>> /\ pc'[w] = "finish"
    BY <1>10 DEF FanDone, Goto, TInv, BaseInv, TypeOK
  <2>2. QED
    BY <1>4, <1>5, <2>1 DEF PendingFresh, MarkPending, FanMarked, FanFresh, Fresh, QueuedOnce
<1>11. CASE Finish(w)
  <2>1. \A n \in Entry : qstate'[n] \in {"absent", "pending"} => qstate'[n] = qstate[n]
    BY <1>1, <1>11 DEF Finish, Patch, TInv, BaseInv, TypeOK
  <2>2. QED
    BY <1>1, <1>5, <1>11, <2>1, LeavesOInv DEF Finish, EndItem, Goto
<1>12. ASSUME NEW s \in Subscriber, QueueFor(w, s) PROVE OInv'
  <2>1. posted[cur[w]][s] = 0 /\ pc[w] = "fan" /\ s \in targets[w]
    BY <1>12 DEF QueueFor, FanFresh
  <2>2. /\ posted' = [posted EXCEPT ![cur[w]][s] = IF @ < PostCap THEN @ + 1 ELSE @]
        /\ targets'[w] = targets[w] \ {s} /\ UNCHANGED <<qstate, pc, cur>>
    BY <1>12 DEF QueueFor, Remaining, TInv, BaseInv, TypeOK
  <2>3. posted'[cur[w]][s] = 1
    BY <1>1, <2>1, <2>2, BoundAssumption DEF TInv, BaseInv, TypeOK
  <2>4. \A n \in Entry : \A t \in Subscriber :
          n # cur[w] \/ t # s => posted'[n][t] = posted[n][t]
    BY <1>1, <2>2 DEF TInv, BaseInv, TypeOK
  <2>5. QueuedOnce'
    BY <2>3, <2>4 DEF QueuedOnce
  <2>6. qstate[cur[w]] \notin {"absent", "pending"}
    BY <2>1 DEF FanMarked
  <2>7. PendingFresh'
    BY <2>2, <2>4, <2>6 DEF PendingFresh, Fresh
  <2>8. MarkPending' /\ FanMarked'
    BY <2>2 DEF MarkPending, FanMarked
  <2>9. targets[w] \subseteq Subscriber
    BY DEF TInv, BaseInv, TypeOK
  <2>10. \A t \in targets'[w] : posted'[cur'[w]][t] = 0
    BY <1>1, <2>1, <2>2, <2>4, <2>9 DEF FanFresh
  <2>11. FanFresh'
    BY <1>4, <2>1, <2>2, <2>10 DEF FanFresh
  <2>12. QED
    BY <1>5, <2>5, <2>7, <2>8, <2>11
<1>13. ASSUME NEW s \in Subscriber, SkipSubscriber(w, s) PROVE OInv'
  <2>1. /\ UNCHANGED <<qstate, posted, cur, pc>> /\ targets'[w] \subseteq targets[w]
    BY <1>13 DEF SkipSubscriber, Remaining, TInv, BaseInv, TypeOK
  <2>2. QED
    BY <1>4, <1>5, <2>1 DEF PendingFresh, MarkPending, FanMarked, FanFresh, Fresh, QueuedOnce
<1>14. CASE HandleError(w)
  <2>1. \A n \in Entry : qstate'[n] \in {"absent", "pending"} => qstate'[n] = qstate[n]
    BY <1>1, <1>14 DEF HandleError, Patch, TInv, BaseInv, TypeOK
  <2>2. QED
    BY <1>1, <1>5, <1>14, <2>1, LeavesOInv DEF HandleError, EndItem, Goto
<1>15. QED
  BY <1>2, <1>6, <1>7, <1>8, <1>9, <1>10, <1>11, <1>12, <1>13, <1>14 DEF HandlingStep

LEMMA SurroundingsOInv ==
  ASSUME OInv, TInv', NoTimeouts, Surroundings
  PROVE  OInv'
<1> USE OwnerAssumption
<1> USE DEF OInv, pubVars, queueVars, workVars
<1>1. CASE \/ \E n \in Entry : ScheduleElapses(n)
           \/ \E s \in Subscriber : SwitchSubscriber(s)
  BY <1>1 DEF ScheduleElapses, SwitchSubscriber, LockInv, PendingFresh, MarkPending, FanMarked,
              FanFresh, Fresh, QueuedOnce
<1>2. ASSUME NEW w \in Worker, Crash(w) PROVE OInv'
  <2>1. pc[w] # "idle" /\ pc' = [pc EXCEPT ![w] = "idle"] /\ UNCHANGED <<qstate, posted>>
    BY <1>2 DEF Crash, Forget, Goto
  <2>2. \A v \in Worker : v # w => pc[v] = "idle"
    BY <2>1, OneRunning
  <2>3. LockInv'
    BY <2>1, <2>2 DEF LockInv, TInv, BaseInv, TypeOK
  <2>4. cur' = [cur EXCEPT ![w] = NoEntry] /\ targets' = [targets EXCEPT ![w] = {}]
    BY <1>2 DEF Crash, Forget
  <2>5. QED
    BY <2>1, <2>3, <2>4, LeavesOInv
<1>3. CASE LockExpires
  <2>1. lockOwner = Crashed /\ UNCHANGED <<qstate, posted, pc, cur, targets>>
    BY <1>3 DEF LockExpires, NoTimeouts
  <2>2. \A w \in Worker : pc[w] = "idle"
    BY <2>1 DEF LockInv
  <2>3. QED
    BY <2>1, <2>2 DEF LockInv, PendingFresh, MarkPending, FanMarked, FanFresh, Fresh, QueuedOnce
<1>4. QED
  BY <1>1, <1>2, <1>3 DEF Surroundings

LEMMA StepOInv == NoTimeouts /\ OInv /\ [Next]_vars => OInv'
<1> SUFFICES ASSUME NoTimeouts, OInv, [Next]_vars PROVE OInv'
  OBVIOUS
<1>1. TInv'
  BY StepTInv DEF OInv
<1>2. CASE Next
  BY <1>1, <1>2, NextCases, EditorOInv, RunOInv, HandlingOInv, SurroundingsOInv
<1>3. CASE UNCHANGED vars
  BY <1>1, <1>3
  DEF vars, OInv, LockInv, PendingFresh, MarkPending, FanMarked, FanFresh, Fresh, QueuedOnce
<1>4. QED
  BY <1>2, <1>3

\* Without timeouts each entry is queued once for each subscriber: the lock and the
\* second look at queue_state are enough, whatever crashes, fails or is descheduled.
THEOREM OncePerSubscriber == NoTimeouts => (Spec => []QueuedOnce)
<1> SUFFICES ASSUME NoTimeouts PROVE Spec => []QueuedOnce
  OBVIOUS
<1>1. OInv => QueuedOnce
  BY DEF OInv
<1>2. QED
  BY <1>1, InitOInv, StepOInv, PTL DEF Spec

-----------------------------------------------------------------------------
(* Nothing is queued before its time, under every kind of fault.           *)

\* The entry has been posted and is not waiting for its time.
Ready(n) == qstate[n] # "absent" /\ n \notin waiting

\* What the tasks are at is ready; waiting entries are marked as scheduled, which is
\* what the query goes by.
EarlyInv ==
  /\ waiting \subseteq scheduled
  /\ NothingEarly
  /\ \A n \in Entry : qstate[n] = "absent" => Fresh(n)
  /\ \A w \in Worker : /\ \A n \in batch[w] : Ready(n)
                       /\ pc[w] \in Handling => Ready(cur[w])

LEMMA InitEarly == Init => EarlyInv
  BY DEF Init, EarlyInv, NothingEarly, Fresh, Handling

\* Readiness is kept by every step but the one that posts the entry.
LEMMA ReadyKept ==
  ASSUME EarlyInv, TInv,
         \A n \in Entry : /\ qstate[n] # "absent" => qstate'[n] # "absent"
                          /\ n \in waiting' => n \in waiting \/ qstate[n] = "absent"
  PROVE  \A n \in Entry : Ready(n) => Ready(n)'
  BY DEF Ready

LEMMA EditorEarly ==
  ASSUME TInv, EarlyInv, NEW e \in Editor,
         EditorStep(e) \/ \E r \in Request : Submit(e, r)
  PROVE  EarlyInv'
<1> USE DEF archVars, pubVars, queueVars, workVars, edVars
<1>1. CASE \/ UpdateArchive(e) \/ RestoreArchive(e)
           \/ \E n \in Entry : TakeNumber(e, n)
           \/ \E r \in Request : Submit(e, r)
  <2>1. UNCHANGED <<qstate, scheduled, waiting, posted, pc, batch, cur>>
    BY <1>1 DEF UpdateArchive, RestoreArchive, TakeNumber, Submit
  <2>2. QED
    BY <2>1 DEF EarlyInv, NothingEarly, Fresh, Ready
<1>2. ASSUME NEW n \in Entry, PostPublished(e, n) PROVE EarlyInv'
  <2>1. /\ qstate[n] = "absent" /\ qstate' = [qstate EXCEPT ![n] = "pending"]
        /\ \/ scheduled' = scheduled \cup {n} /\ waiting' = waiting \cup {n}
           \/ scheduled' = scheduled /\ waiting' = waiting
        /\ UNCHANGED <<posted, pc, batch, cur>>
    BY <1>2 DEF PostPublished, TInv, NumberNew
  <2>2. \A m \in Entry : /\ qstate[m] # "absent" => qstate'[m] # "absent"
                         /\ m \in waiting' => m \in waiting \/ qstate[m] = "absent"
    BY <2>1 DEF TInv, BaseInv, TypeOK
  <2>3. \A m \in Entry : Ready(m) => Ready(m)'
    BY <2>2, ReadyKept
  <2>4. \A w \in Worker : batch[w] \subseteq Entry /\ (pc[w] \in Handling => cur[w] \in Entry)
    BY DEF TInv, BaseInv, TypeOK, CurOK
  <2>5. \A w \in Worker : /\ \A m \in batch'[w] : Ready(m)'
                          /\ pc'[w] \in Handling => Ready(cur[w])'
    BY <2>1, <2>3, <2>4 DEF EarlyInv, Ready
  <2>6. \A m \in Entry : qstate'[m] = "absent" => Fresh(m)'
    BY <2>1 DEF EarlyInv, Fresh, TInv, BaseInv, TypeOK
  <2>7. waiting' \subseteq scheduled' /\ NothingEarly'
    BY <2>1 DEF EarlyInv, Fresh, NothingEarly
  <2>8. QED
    BY <2>1, <2>5, <2>6, <2>7 DEF EarlyInv, Ready
<1>3. CASE DeletePublished(e)
  <2>1. /\ \A n \in Entry : (qstate'[n] = "absent") = (qstate[n] = "absent")
        /\ scheduled' = {} /\ waiting' = {}
        /\ UNCHANGED <<posted, pc, batch, cur>>
    BY <1>3 DEF DeletePublished
  <2>2. \A w \in Worker : batch[w] \subseteq Entry /\ (pc[w] \in Handling => cur[w] \in Entry)
    BY DEF TInv, BaseInv, TypeOK, CurOK
  <2>3. QED
    BY <2>1, <2>2 DEF EarlyInv, NothingEarly, Fresh, Ready
<1>4. CASE DeleteQueue(e)
  <2>1. /\ \A n \in Entry : \A s \in Subscriber : posted'[n][s] = 0
        /\ UNCHANGED <<qstate, scheduled, waiting, pc, batch, cur>>
    BY <1>4 DEF DeleteQueue
  <2>2. QED
    BY <2>1 DEF EarlyInv, NothingEarly, Fresh, Ready
<1>5. QED
  BY <1>1, <1>2, <1>3, <1>4 DEF EditorStep

LEMMA RunEarly ==
  ASSUME TInv, EarlyInv, NEW w \in Worker,
         \/ RunStart(w) \/ ListItems(w) \/ RunAborts(w) \/ RunEnd(w)
         \/ \E n \in Entry : TakeItem(w, n)
  PROVE  EarlyInv'
<1> USE DEF TInv, BaseInv, TypeOK, pubVars, queueVars, workVars, Goto, Handling
<1>1. UNCHANGED <<qstate, scheduled, waiting, posted>>
  BY DEF RunStart, ListItems, RunAborts, RunEnd, TakeItem
<1>2. \A v \in Worker \ {w} : pc'[v] = pc[v] /\ batch'[v] = batch[v] /\ cur'[v] = cur[v]
  BY DEF RunStart, ListItems, RunAborts, RunEnd, TakeItem, Forget
<1>3. (\A n \in batch'[w] : Ready(n)) /\ (pc'[w] \in Handling => Ready(cur'[w]))
  <2>1. CASE RunStart(w) \/ RunAborts(w) \/ RunEnd(w)
    BY <2>1 DEF RunStart, RunAborts, RunEnd, Forget, EarlyInv
  <2>2. CASE ListItems(w)
    <3>1. batch'[w] = Listed /\ pc'[w] = "next"
      BY <2>2 DEF ListItems
    <3>2. \A n \in Listed : Ready(n)
      BY DEF Listed, Ready, EarlyInv
    <3>3. QED
      BY <3>1, <3>2
  <2>3. CASE \E n \in Entry : TakeItem(w, n)
    BY <2>3 DEF TakeItem, IsNext, EarlyInv
  <2>4. QED
    BY <2>1, <2>2, <2>3
<1>4. QED
  BY <1>1, <1>2, <1>3 DEF EarlyInv, NothingEarly, Fresh, Ready

LEMMA HandlingEarly ==
  ASSUME TInv, EarlyInv, NEW w \in Worker, HandlingStep(w)
  PROVE  EarlyInv'
<1>1. PICK k \in Entry : k = cur[w]
  BY HandlingLocal DEF TInv
<1>2. Ready(k)
  BY <1>1, HandlingLocal DEF TInv, EarlyInv
<1>3. \A n \in Entry : Ready(n) => Ready(n)'
  BY <1>1, HandlingLocal DEF TInv, Ready
<1>4. \A v \in Worker : batch[v] \subseteq Entry /\ (pc[v] \in Handling => cur[v] \in Entry)
  BY DEF TInv, BaseInv, TypeOK, CurOK
<1>5. ASSUME NEW v \in Worker
      PROVE  (\A n \in batch'[v] : Ready(n)') /\ (pc'[v] \in Handling => cur'[v] = cur[v] /\ pc[v] \in Handling)
  BY <1>3, <1>4, HandlingLocal DEF TInv, EarlyInv
<1>6. ASSUME NEW v \in Worker, pc'[v] \in Handling PROVE Ready(cur[v]) /\ cur[v] \in Entry
  BY <1>4, <1>5, <1>6 DEF EarlyInv
<1>7. waiting' \subseteq scheduled'
  BY <1>1, <1>2, HandlingLocal DEF TInv, EarlyInv, Ready
<1>8. NothingEarly' /\ \A n \in Entry : qstate'[n] = "absent" => Fresh(n)'
  BY <1>1, <1>2, HandlingLocal DEF TInv, EarlyInv, NothingEarly, Fresh, Ready
<1>9. QED
  BY <1>3, <1>5, <1>6, <1>7, <1>8 DEF EarlyInv, Ready

LEMMA SurroundingsEarly ==
  ASSUME TInv, EarlyInv, Surroundings
  PROVE  EarlyInv'
<1> USE DEF TInv, BaseInv, TypeOK, archVars, pubVars, queueVars, workVars, Goto, Handling
<1>1. ASSUME NEW n \in Entry, ScheduleElapses(n) PROVE EarlyInv'
  BY <1>1 DEF ScheduleElapses, EarlyInv, NothingEarly, Fresh, Ready
<1>2. ASSUME NEW w \in Worker, Crash(w) PROVE EarlyInv'
  BY <1>2 DEF Crash, Forget, EarlyInv, NothingEarly, Fresh, Ready
<1>3. CASE LockExpires \/ \E s \in Subscriber : SwitchSubscriber(s)
  BY <1>3 DEF LockExpires, SwitchSubscriber, EarlyInv, NothingEarly, Fresh, Ready
<1>4. QED
  BY <1>1, <1>2, <1>3 DEF Surroundings

\* A scheduled entry is queued for nobody before its time, whatever fails: timeouts,
\* overlapping runs, crashes and descheduling included.
THEOREM NothingBeforeTime == Spec => []NothingEarly
<1>1. TInv /\ EarlyInv /\ [Next]_vars => EarlyInv'
  <2> SUFFICES ASSUME TInv, EarlyInv, [Next]_vars PROVE EarlyInv'
    OBVIOUS
  <2>1. CASE Next
    BY <2>1, NextCases, EditorEarly, RunEarly, HandlingEarly, SurroundingsEarly
  <2>2. CASE UNCHANGED vars
    BY <2>2 DEF vars, EarlyInv, NothingEarly, Fresh, Ready
  <2>3. QED
    BY <2>1, <2>2
<1>2. EarlyInv => NothingEarly
  BY DEF EarlyInv
<1>3. QED
  BY <1>1, <1>2, InitTInv, StepTInv, InitEarly, PTL DEF Spec

-----------------------------------------------------------------------------
(* Whoever an entry was meant for gets it.                                  *)

\* Nothing makes the fan-out skip a subscriber, runs do not overlap, and no request
\* deletes queue entries.
Thorough ==
  Faults \cap {"overrun", "softlimit", "formatter"} = {} /\ "deschedule" \notin Requests

\* Only requests that were allowed are on their way.
NoDeschedule == \A e \in Editor : edPc[e] \in {"idle", "update", "number", "insert"}

\* The entry at hand was handed to whom it is meant for, up to those left to do.
MeantInv(w) ==
  /\ pc[w] \in {"targets", "fan", "finish"} => qstate[cur[w]] # "queued"
  /\ pc[w] = "fan" => \A s \in meant[cur[w]] : posted[cur[w]][s] > 0 \/ s \in targets[w]
  /\ pc[w] = "finish" => \A s \in meant[cur[w]] : posted[cur[w]][s] > 0

AllInv == LockInv /\ NoDeschedule /\ QueuedForAll /\ \A w \in Worker : MeantInv(w)

LEMMA InitAll == Init => AllInv
  BY DEF Init, AllInv, LockInv, NoDeschedule, QueuedForAll, MeantInv

LEMMA EditorAll ==
  ASSUME Thorough, TInv, AllInv, NEW e \in Editor,
         EditorStep(e) \/ \E r \in Request : Submit(e, r)
  PROVE  AllInv'
<1> USE DEF AllInv, archVars, pubVars, queueVars, workVars, EdGoto
<1>1. edPc[e] \in {"idle", "update", "number", "insert"}
  BY DEF NoDeschedule
<1>2. /\ UNCHANGED <<posted, meant, lockOwner, pc, cur, targets>>
      /\ \E point \in {"idle", "update", "number", "insert"} : EdGoto(e, point)
  <2>1. ASSUME NEW r \in Request, Submit(e, r)
        PROVE  UNCHANGED <<posted, meant, lockOwner, pc, cur, targets>> /\ EdGoto(e, "update")
    BY <2>1 DEF Submit, Thorough
  <2>2. QED
    BY <1>1, <2>1 DEF EditorStep, UpdateArchive, TakeNumber, PostPublished, DeletePublished,
                      DeleteQueue, RestoreArchive
<1>3. NoDeschedule'
  BY <1>2 DEF NoDeschedule, TInv, BaseInv, TypeOK
<1>4. \A n \in Entry : qstate'[n] = "queued" <=> qstate[n] = "queued"
  BY <1>1 DEF EditorStep, Submit, UpdateArchive, TakeNumber, PostPublished,
              DeletePublished, DeleteQueue, RestoreArchive, NumberNew, TInv, BaseInv, TypeOK
<1>5. \A w \in Worker : pc[w] \in Handling => cur[w] \in Entry
  BY DEF TInv, BaseInv, CurOK
<1>6. QED
  BY <1>2, <1>3, <1>4, <1>5 DEF LockInv, QueuedForAll, MeantInv, Handling

LEMMA RunAll ==
  ASSUME TInv, AllInv, NEW w \in Worker,
         \/ RunStart(w) \/ ListItems(w) \/ RunAborts(w) \/ RunEnd(w)
         \/ \E n \in Entry : TakeItem(w, n)
  PROVE  AllInv'
<1> USE DEF AllInv, TInv, BaseInv, TypeOK, pubVars, queueVars, workVars, edVars, Goto
<1>1. UNCHANGED <<qstate, posted, meant, edPc>>
  BY DEF RunStart, ListItems, RunAborts, RunEnd, TakeItem
<1>2. \A v \in Worker \ {w} : pc'[v] = pc[v] /\ cur'[v] = cur[v] /\ targets'[v] = targets[v]
  BY DEF RunStart, ListItems, RunAborts, RunEnd, TakeItem, Forget
<1>3. pc'[w] \in {"list", "next", "check", "idle"}
  BY DEF RunStart, ListItems, RunAborts, RunEnd, TakeItem, Forget
<1>4. LockInv'
  BY OwnerAssumption, OneRunning
     DEF RunStart, ListItems, RunAborts, RunEnd, TakeItem, Forget, Free, LockInv
<1>5. QED
  BY <1>1, <1>2, <1>3, <1>4 DEF NoDeschedule, QueuedForAll, MeantInv

LEMMA HandlingAll ==
  ASSUME Thorough, TInv, AllInv, NEW w \in Worker, HandlingStep(w)
  PROVE  AllInv'
<1> DEFINE Concl(k) == MeantInv(w)' /\ (qstate'[k] = "queued" => \A s \in meant'[k] : posted'[k][s] > 0)
<1>1. PICK k \in Entry : k = cur[w]
  BY HandlingLocal DEF TInv
<1>2. pc[w] \in Handling /\ pc[w] # "idle"
  BY HandlingLocal DEF TInv, Handling
<1>3. \A v \in Worker \ {w} : pc[v] = "idle" /\ pc'[v] = "idle"
  BY <1>2, HandlingLocal, OneRunning DEF TInv, AllInv
<1>4. lockOwner' = lockOwner /\ edPc' = edPc
  BY DEF HandlingStep, Check, FlipArchive, Mark, GetSubscribers, FanDone, Finish, QueueFor,
         SkipSubscriber, HandleTimeout, HandleError, edVars
<1>5. MeantInv(w) /\ (qstate[k] = "queued" => \A s \in meant[k] : posted[k][s] > 0)
  BY DEF AllInv, QueuedForAll
<1>6. Concl(k)
  <2> USE <1>1, <1>5 DEF TInv, BaseInv, TypeOK, MeantInv, pubVars, queueVars, workVars, Goto
  <2>0. ASSUME EndItem(w) PROVE MeantInv(w)'
    BY <2>0 DEF EndItem
  <2>1. CASE Check(w)
    BY <2>0, <2>1 DEF Check
  <2>2. CASE FlipArchive(w)
    BY <2>2 DEF FlipArchive
  <2>3. CASE Mark(w)
    BY <2>0, <2>3 DEF Mark, InProgress
  <2>4. CASE GetSubscribers(w)
    BY <2>4 DEF GetSubscribers
  <2>5. CASE FanDone(w)
    BY <2>5 DEF FanDone
  <2>6. CASE Finish(w)
    BY <2>0, <2>6 DEF Finish, Patch
  <2>7. CASE HandleTimeout(w) \/ HandleError(w)
    BY <2>0, <2>7 DEF HandleTimeout, HandleError, Patch
  <2>8. ASSUME NEW s \in Subscriber, QueueFor(w, s) PROVE Concl(k)
    <3>1. /\ pc[w] = "fan" /\ pc' = pc /\ cur' = cur /\ qstate' = qstate /\ meant' = meant
          /\ targets'[w] = targets[w] \ {s}
      BY <2>8 DEF QueueFor, Remaining
    <3>2. posted'[k][s] > 0 /\ \A t \in Subscriber \ {s} : posted'[k][t] = posted[k][t]
      BY <2>8, BoundAssumption DEF QueueFor
    <3>3. meant[k] \subseteq Subscriber
      OBVIOUS
    <3>4. QED
      BY <3>1, <3>2, <3>3
  <2>9. ASSUME NEW s \in Subscriber, SkipSubscriber(w, s) PROVE FALSE
    BY <2>9 DEF SkipSubscriber, Thorough
  <2>10. QED
    BY <2>1, <2>2, <2>3, <2>4, <2>5, <2>6, <2>7, <2>8, <2>9 DEF HandlingStep
<1>7. QueuedForAll'
  BY <1>1, <1>6, HandlingLocal DEF TInv, AllInv, QueuedForAll
<1>8. QED
  BY <1>2, <1>3, <1>4, <1>6, <1>7 DEF AllInv, LockInv, NoDeschedule, MeantInv

LEMMA SurroundingsAll ==
  ASSUME Thorough, TInv, AllInv, Surroundings
  PROVE  AllInv'
<1> USE DEF AllInv, TInv, BaseInv, TypeOK, archVars, pubVars, queueVars, workVars, edVars, Goto
<1>1. CASE (\E n \in Entry : ScheduleElapses(n)) \/ (\E s \in Subscriber : SwitchSubscriber(s))
  BY <1>1 DEF ScheduleElapses, SwitchSubscriber, LockInv, NoDeschedule, QueuedForAll, MeantInv
<1>2. ASSUME NEW w \in Worker, Crash(w) PROVE AllInv'
  <2>1. \A v \in Worker : v # w => pc[v] = "idle"
    BY <1>2, OneRunning DEF Crash
  <2>2. \A v \in Worker : pc'[v] = "idle"
    BY <1>2, <2>1 DEF Crash, Forget
  <2>3. UNCHANGED <<qstate, posted, meant, edPc>>
    BY <1>2 DEF Crash
  <2>4. QED
    BY <2>2, <2>3 DEF LockInv, NoDeschedule, QueuedForAll, MeantInv
<1>3. CASE LockExpires
  <2>1. lockOwner = Crashed
    BY <1>3 DEF LockExpires, Thorough
  <2>2. \A w \in Worker : pc[w] = "idle"
    BY <2>1, OwnerAssumption DEF LockInv
  <2>3. QED
    BY <1>3, <2>2 DEF LockExpires, LockInv, NoDeschedule, QueuedForAll, MeantInv
<1>4. QED
  BY <1>1, <1>2, <1>3 DEF Surroundings

\* An entry called queued was queued for everybody chosen for it, also when timeouts of
\* the published collection, errors or crashes made the command handle it again.
THEOREM EverybodyQueued == Thorough => (Spec => []QueuedForAll)
<1> SUFFICES ASSUME Thorough PROVE Spec => []QueuedForAll
  OBVIOUS
<1>1. TInv /\ AllInv /\ [Next]_vars => AllInv'
  <2> SUFFICES ASSUME TInv, AllInv, [Next]_vars PROVE AllInv'
    OBVIOUS
  <2>1. CASE Next
    BY <2>1, NextCases, EditorAll, RunAll, HandlingAll, SurroundingsAll
  <2>2. CASE UNCHANGED vars
    BY <2>2 DEF vars, AllInv, LockInv, NoDeschedule, QueuedForAll, MeantInv
  <2>3. QED
    BY <2>1, <2>2
<1>2. AllInv => QueuedForAll
  BY DEF AllInv
<1>3. QED
  BY <1>1, <1>2, InitTInv, StepTInv, InitAll, PTL DEF Spec

-----------------------------------------------------------------------------
(* The versions go out in their order.                                     *)

\* No exception sends an entry back, runs do not overlap, and nothing is scheduled.
Plain == NoTimeouts /\ "schedule" \notin Requests

NoSchedule ==
  /\ archState # "scheduled" /\ scheduled = {}
  /\ \A e \in Editor : /\ original[e].state # "scheduled" /\ request[e] # "schedule"
                       /\ edPc[e] \in {"idle", "update", "number", "insert"}

\* A posted entry no run has marked yet.
Untouched(n) == qstate[n] \in {"absent", "pending"}

\* Entries are marked from the first to the last, but for those inserted too late.
PrefixInv ==
  \A m \in Entry \ overtaken, n \in Entry :
    m < n /\ qstate[m] = "pending" => Untouched(n)

\* What the run has in its batch is still to be marked, and with an entry it has all
\* that are pending before it and were not inserted after it.
BatchInv(w) ==
  /\ pc[w] \in {"next"} \cup Handling =>
       \A k \in batch[w] :
         /\ qstate[k] = "pending"
         /\ \A n \in Entry \ overtaken : n < k /\ qstate[n] = "pending" =>
                                           n \in batch[w] \/ (pc[w] \in Handling /\ n = cur[w])
  /\ pc[w] \in Handling => cur[w] \notin batch[w]

\* Nothing before the entry at hand is pending, and nothing after it has been marked.
TurnInv(w) ==
  /\ pc[w] \in {"check", "flip", "mark"} =>
       \A n \in Entry \ overtaken : n < cur[w] => qstate[n] # "pending"
  /\ pc[w] \in {"targets", "fan", "finish"} => ~Untouched(cur[w])
  /\ pc[w] \in {"targets", "fan"} /\ cur[w] \notin overtaken =>
       \A n \in Entry : cur[w] < n => Untouched(n)

SeqInv == NoSchedule /\ PrefixInv /\ \A w \in Worker : BatchInv(w) /\ TurnInv(w)

LEMMA InitSeq == Init => SeqInv
  BY EntryAssumption
  DEF Init, SeqInv, NoSchedule, PrefixInv, Untouched, BatchInv, TurnInv, Handling

LEMMA EditorSeq ==
  ASSUME Plain, OInv, SeqInv, NEW e \in Editor,
         EditorStep(e) \/ \E r \in Request : Submit(e, r)
  PROVE  SeqInv'
<1> USE DEF OInv, TInv, BaseInv, TypeOK, archVars, pubVars, queueVars, workVars, EdGoto
<1>1. /\ edPc[e] \in {"idle", "update", "number", "insert"}
      /\ ResultState(request[e], original[e].state) # "scheduled"
  BY DEF SeqInv, NoSchedule, ResultState, Request
<1>2. UNCHANGED <<pc, batch, cur>>
  BY DEF EditorStep, Submit, UpdateArchive, TakeNumber, PostPublished,
         DeletePublished, DeleteQueue, RestoreArchive
<1>3. NoSchedule'
  <2>1. ASSUME NEW r \in Request, Submit(e, r) PROVE NoSchedule'
    BY <2>1 DEF Submit, Plain, Allowed, Request, SeqInv, NoSchedule
  <2>2. CASE UpdateArchive(e)
    BY <1>1, <2>2 DEF UpdateArchive, WriteArchive, SeqInv, NoSchedule
  <2>3. ASSUME NEW n \in Entry, PostPublished(e, n) PROVE NoSchedule'
    BY <1>1, <2>3 DEF PostPublished, SeqInv, NoSchedule
  <2>4. ASSUME NEW n \in Entry, TakeNumber(e, n) PROVE NoSchedule'
    BY <1>1, <2>4 DEF TakeNumber, SeqInv, NoSchedule
  <2>5. QED
    BY <1>1, <2>1, <2>2, <2>3, <2>4 DEF EditorStep, DeletePublished, DeleteQueue, RestoreArchive
<1>4. CASE UNCHANGED <<qstate, overtaken>>
  BY <1>2, <1>3, <1>4 DEF SeqInv, PrefixInv, Untouched, BatchInv, TurnInv
<1>5. ASSUME NEW n \in Entry, PostPublished(e, n) PROVE SeqInv'
  <2>1. /\ qstate[n] = "absent" /\ qstate'[n] = "pending"
        /\ \A m \in Entry \ {n} : qstate'[m] = qstate[m]
    BY <1>5 DEF PostPublished, NumberNew
  <2>2. /\ \A m \in Entry \ {n} : m \in overtaken' <=> m \in overtaken
        /\ overtaken \subseteq overtaken'
    BY <1>5 DEF PostPublished
  <2>3. \A m \in Entry : n < m /\ qstate[m] # "absent" => n \in overtaken'
    BY <1>5, EntryAssumption DEF PostPublished
  <2>4. \A m \in Entry : Untouched(m)' <=> Untouched(m)
    BY <2>1 DEF Untouched
  <2>5. PrefixInv'
    <3>1. ASSUME NEW m \in Entry \ overtaken', NEW k \in Entry, m < k, qstate'[m] = "pending"
          PROVE  Untouched(k)
      <4>1. CASE m = n
        BY <2>3, <3>1, <4>1 DEF Untouched
      <4>2. CASE m # n
        BY <2>1, <2>2, <3>1, <4>2 DEF SeqInv, PrefixInv
      <4>3. QED
        BY <4>1, <4>2
    <3>2. QED
      BY <2>4, <3>1 DEF PrefixInv, Untouched
  <2>6. ASSUME NEW w \in Worker PROVE BatchInv(w)' /\ TurnInv(w)'
    <3>1. \A k \in batch[w] : k \in Entry /\ k # n /\ (n < k => n \in overtaken')
      BY <2>1, <2>3 DEF WorkInserted
    <3>2. pc[w] \in Handling =>
            /\ cur[w] \in Entry /\ cur[w] # n /\ (n < cur[w] => n \in overtaken')
            /\ qstate'[cur[w]] = qstate[cur[w]] /\ (cur[w] \in overtaken' <=> cur[w] \in overtaken)
      BY <2>1, <2>2, <2>3 DEF CurOK, WorkInserted
    <3>3. BatchInv(w)'
      BY <1>2, <2>1, <2>2, <3>1, <3>2 DEF SeqInv, BatchInv
    <3>4. TurnInv(w)'
      BY <1>2, <2>1, <2>2, <2>4, <3>2 DEF SeqInv, TurnInv, Handling
    <3>5. QED
      BY <3>3, <3>4
  <2>7. QED
    BY <1>3, <2>5, <2>6 DEF SeqInv
<1>6. QED
  BY <1>1, <1>4, <1>5 DEF EditorStep, Submit, UpdateArchive, TakeNumber, DeletePublished,
                          DeleteQueue, RestoreArchive

LEMMA RunSeq ==
  ASSUME Plain, OInv, SeqInv, NEW w \in Worker,
         \/ RunStart(w) \/ ListItems(w) \/ RunAborts(w) \/ RunEnd(w)
         \/ \E n \in Entry : TakeItem(w, n)
  PROVE  SeqInv'
<1> USE DEF OInv, TInv, BaseInv, TypeOK, archVars, pubVars, queueVars, workVars, edVars, Goto
<1>1. UNCHANGED <<archState, scheduled, qstate, edPc, request, original, overtaken>>
  BY DEF RunStart, ListItems, RunAborts, RunEnd, TakeItem
<1>2. NoSchedule' /\ PrefixInv'
  BY <1>1 DEF SeqInv, NoSchedule, PrefixInv, Untouched
<1>3. \A v \in Worker \ {w} : pc'[v] = pc[v] /\ batch'[v] = batch[v] /\ cur'[v] = cur[v]
  BY DEF RunStart, ListItems, RunAborts, RunEnd, TakeItem, Forget
<1>4. \A v \in Worker \ {w} : BatchInv(v)' /\ TurnInv(v)'
  BY <1>1, <1>3 DEF SeqInv, BatchInv, TurnInv, Untouched
<1>5. BatchInv(w)' /\ TurnInv(w)'
  <2>1. CASE RunStart(w) \/ RunEnd(w)
    <3>1. pc'[w] \in {"list", "idle"}
      BY <2>1 DEF RunStart, RunEnd, Forget
    <3>2. QED
      BY <3>1 DEF BatchInv, TurnInv, Handling
  <2>2. CASE ListItems(w)
    <3>1. batch'[w] = Listed /\ pc'[w] = "next"
      BY <2>2 DEF ListItems
    <3>2. Listed = {n \in Entry : qstate[n] = "pending"}
      BY DEF Listed, SeqInv, NoSchedule
    <3>3. QED
      BY <1>1, <3>1, <3>2 DEF BatchInv, TurnInv, Handling
  <2>3. ~RunAborts(w)
    BY DEF RunAborts, Plain, NoTimeouts
  <2>4. ASSUME NEW n \in Entry, TakeItem(w, n) PROVE BatchInv(w)' /\ TurnInv(w)'
    <3>1. /\ pc[w] = "next" /\ n \in batch[w] /\ \A m \in batch[w] : n <= m
          /\ batch'[w] = batch[w] \ {n} /\ cur'[w] = n /\ pc'[w] = "check"
      BY <2>4 DEF TakeItem, IsNext
    <3>2. qstate[n] = "pending" /\ \A m \in Entry \ overtaken : m < n /\ qstate[m] = "pending" => m \in batch[w]
      BY <3>1 DEF SeqInv, BatchInv, Handling
    <3>3. \A m \in Entry : m < n => m \notin batch[w]
      BY <3>1, EntryAssumption
    <3>4. \A m \in Entry \ overtaken : m < n => qstate[m] # "pending"
      BY <3>2, <3>3
    <3>5. QED
      BY <1>1, <3>1, <3>2, <3>4 DEF SeqInv, BatchInv, TurnInv, Handling
  <2>5. QED
    BY <2>1, <2>2, <2>3, <2>4
<1>6. QED
  BY <1>2, <1>4, <1>5 DEF SeqInv

\* What a step of enqueue_item does to the entry at hand: it leaves it pending or marks
\* it, and lets go of it only when it is no longer pending.
LEMMA HandlingTurn ==
  ASSUME Plain, OInv, SeqInv, NEW w \in Worker, HandlingStep(w), NEW k \in Entry, k = cur[w]
  PROVE  /\ NoSchedule'
         /\ Untouched(k)' => qstate'[k] = qstate[k] /\ pc'[w] \in Handling
         /\ pc'[w] \in {"check", "flip", "mark"} =>
              pc[w] \in {"check", "flip", "mark"} /\ qstate'[k] = qstate[k]
         /\ pc'[w] \in {"targets", "fan", "finish"} => ~Untouched(k)'
         /\ pc'[w] \in {"targets", "fan"} =>
              pc[w] \in {"targets", "fan"} \/ (pc[w] = "mark" /\ qstate[k] = "pending")
<1> USE DEF OInv, TInv, BaseInv, TypeOK, SeqInv, NoSchedule, TurnInv, WorkInserted,
            Untouched, archVars, pubVars, queueVars, workVars, edVars, Goto, EndItem, Handling
<1>1. CASE Check(w)
  BY <1>1 DEF Check, Proceed
<1>2. CASE FlipArchive(w) \/ FanDone(w)
  BY <1>2 DEF FlipArchive, FanDone
<1>3. CASE Mark(w)
  BY <1>3 DEF Mark, InProgress, MarkPending
<1>4. CASE GetSubscribers(w)
  BY <1>4 DEF GetSubscribers
<1>5. CASE Finish(w) \/ HandleError(w)
  BY <1>5 DEF Finish, HandleError, Patch
<1>6. ~HandleTimeout(w)
  BY DEF HandleTimeout, Plain, NoTimeouts
<1>7. CASE \E s \in Subscriber : QueueFor(w, s) \/ SkipSubscriber(w, s)
  BY <1>7 DEF QueueFor, SkipSubscriber
<1>8. QED
  BY <1>1, <1>2, <1>3, <1>4, <1>5, <1>6, <1>7 DEF HandlingStep

LEMMA HandlingSeq ==
  ASSUME Plain, OInv, SeqInv, NEW w \in Worker, HandlingStep(w)
  PROVE  SeqInv'
<1>1. TInv /\ LockInv
  BY DEF OInv
<1>2. PICK k \in Entry : k = cur[w]
  BY <1>1, HandlingLocal DEF TInv
<1>3. /\ pc[w] \in Handling /\ pc[w] # "idle" /\ qstate[k] # "absent"
      /\ \A n \in Entry \ {k} : qstate'[n] = qstate[n]
      /\ qstate'[k] # "absent" /\ batch' = batch /\ overtaken' = overtaken
      /\ pc'[w] \in Handling => cur'[w] = k
  BY <1>1, <1>2, HandlingLocal DEF TInv, WorkInserted, Handling
<1>4. /\ NoSchedule'
      /\ Untouched(k)' => qstate'[k] = qstate[k] /\ pc'[w] \in Handling
      /\ pc'[w] \in {"check", "flip", "mark"} =>
           pc[w] \in {"check", "flip", "mark"} /\ qstate'[k] = qstate[k]
      /\ pc'[w] \in {"targets", "fan", "finish"} => ~Untouched(k)'
      /\ pc'[w] \in {"targets", "fan"} =>
           pc[w] \in {"targets", "fan"} \/ (pc[w] = "mark" /\ qstate[k] = "pending")
  BY <1>2, HandlingTurn
<1>5. \A v \in Worker \ {w} : pc[v] = "idle" /\ pc'[v] = "idle"
  BY <1>1, <1>3, HandlingLocal, OneRunning DEF TInv
<1>6. BatchInv(w) /\ TurnInv(w) /\ PrefixInv
  BY DEF SeqInv
<1>7. batch[w] \subseteq Entry
  BY <1>1 DEF TInv, BaseInv, TypeOK
<1>8. pc[w] \in {"check", "flip", "mark"} =>
        \A m \in Entry \ overtaken : m < k => qstate[m] # "pending"
  BY <1>2, <1>6 DEF TurnInv
<1>9. \A n \in Entry \ {k} : Untouched(n)' <=> Untouched(n)
  BY <1>3 DEF Untouched
<1>10. PrefixInv'
  <2>1. ASSUME NEW m \in Entry \ overtaken, NEW n \in Entry, m < n, qstate'[m] = "pending"
        PROVE  Untouched(n)'
    <3>1. qstate[m] = "pending"
      BY <1>3, <1>4, <2>1 DEF Untouched
    <3>2. Untouched(n)
      BY <1>6, <2>1, <3>1 DEF PrefixInv
    <3>3. CASE n # k
      BY <1>9, <3>2, <3>3
    <3>4. CASE n = k
      <4>1. pc[w] \notin {"check", "flip", "mark"}
        BY <1>8, <2>1, <3>1, <3>4
      <4>2. QED
        BY <1>2, <1>3, <1>6, <3>2, <3>4, <4>1 DEF TurnInv, Handling
    <3>5. QED
      BY <3>3, <3>4
  <2>2. QED
    BY <1>3, <2>1 DEF PrefixInv, Untouched
<1>11. BatchInv(w)'
  <2>1. k \notin batch[w] /\ \A b \in batch[w] : qstate'[b] = "pending"
    BY <1>2, <1>3, <1>6, <1>7 DEF BatchInv
  <2>2. ASSUME NEW b \in batch[w], NEW n \in Entry \ overtaken, n < b, qstate'[n] = "pending"
        PROVE  n \in batch[w] \/ (pc'[w] \in Handling /\ n = cur'[w])
    <3>1. qstate[n] = "pending" => n \in batch[w] \/ n = k
      BY <1>2, <1>3, <1>6, <2>2 DEF BatchInv
    <3>2. CASE n = k
      BY <1>3, <1>4, <2>2, <3>2 DEF Untouched
    <3>3. QED
      BY <1>3, <2>2, <3>1, <3>2
  <2>3. QED
    BY <1>3, <2>1, <2>2 DEF BatchInv
<1>12. TurnInv(w)'
  <2>1. pc'[w] \in {"check", "flip", "mark"} =>
          \A n \in Entry \ overtaken : n < cur'[w] => qstate'[n] # "pending"
    <3>1. \A n \in Entry : n < k => n # k
      BY EntryAssumption
    <3>2. QED
      BY <1>3, <1>4, <1>8, <3>1 DEF Handling
  <2>2. pc'[w] \in {"targets", "fan"} /\ k \notin overtaken => \A n \in Entry : k < n => Untouched(n)'
    <3>1. \A n \in Entry : k < n => n # k
      BY EntryAssumption
    <3>2. QED
      BY <1>2, <1>4, <1>6, <1>9, <3>1 DEF TurnInv, PrefixInv
  <2>3. QED
    BY <1>3, <1>4, <2>1, <2>2 DEF TurnInv, Handling, Untouched
<1>13. QED
  BY <1>4, <1>5, <1>10, <1>11, <1>12 DEF SeqInv, BatchInv, TurnInv, Handling

LEMMA SurroundingsSeq ==
  ASSUME Plain, OInv, SeqInv, Surroundings
  PROVE  SeqInv'
<1> USE DEF OInv, TInv, BaseInv, TypeOK, archVars, pubVars, queueVars, workVars, edVars, Goto
<1>1. UNCHANGED <<archState, scheduled, qstate, edPc, request, original, overtaken>>
  BY DEF Surroundings, ScheduleElapses, Crash, LockExpires, SwitchSubscriber
<1>2. NoSchedule' /\ PrefixInv'
  BY <1>1 DEF SeqInv, NoSchedule, PrefixInv, Untouched
<1>3. \A v \in Worker : pc'[v] = "idle" \/ (pc'[v] = pc[v] /\ batch'[v] = batch[v] /\ cur'[v] = cur[v])
  BY DEF Surroundings, ScheduleElapses, Crash, LockExpires, SwitchSubscriber, Forget
<1>4. \A v \in Worker : BatchInv(v)' /\ TurnInv(v)'
  BY <1>1, <1>3 DEF SeqInv, BatchInv, TurnInv, Untouched, Handling
<1>5. QED
  BY <1>2, <1>4 DEF SeqInv

LEMMA StepSeq == Plain /\ OInv /\ SeqInv /\ [Next]_vars => OInv' /\ SeqInv'
<1> SUFFICES ASSUME Plain, OInv, SeqInv, [Next]_vars PROVE OInv' /\ SeqInv'
  OBVIOUS
<1>1. OInv'
  BY StepOInv DEF Plain
<1>2. CASE Next
  BY <1>1, <1>2, NextCases, EditorSeq, RunSeq, HandlingSeq, SurroundingsSeq
<1>3. CASE UNCHANGED vars
  BY <1>1, <1>3 DEF vars, SeqInv, NoSchedule, PrefixInv, Untouched, BatchInv, TurnInv
<1>4. QED
  BY <1>2, <1>3

\* Only queueing for a subscriber adds queue entries.
LEMMA PostingStep ==
  ASSUME TInv, [Next]_vars, NEW n \in Entry, NEW s \in Subscriber, posted'[n][s] > posted[n][s]
  PROVE  \E w \in Worker : QueueFor(w, s) /\ n = cur[w]
<1> USE DEF TInv, BaseInv, TypeOK, archVars, pubVars, queueVars, workVars, edVars
<1>1. posted' # posted /\ posted'[n][s] # 0
  OBVIOUS
<1>2. \E w \in Worker : \E t \in Subscriber : QueueFor(w, t)
  <2>1. Next
    BY <1>1 DEF vars
  <2>2. ASSUME NEW e \in Editor, EditorStep(e) \/ \E r \in Request : Submit(e, r) PROVE FALSE
    <3>1. ~DeleteQueue(e)
      BY <1>1 DEF DeleteQueue
    <3>2. QED
      BY <1>1, <2>2, <3>1 DEF EditorStep, Submit, UpdateArchive, TakeNumber,
                              PostPublished, DeletePublished, RestoreArchive
  <2>3. ASSUME NEW w \in Worker,
               \/ RunStart(w) \/ ListItems(w) \/ RunAborts(w) \/ RunEnd(w)
               \/ \E m \in Entry : TakeItem(w, m)
        PROVE  FALSE
    BY <1>1, <2>3 DEF RunStart, ListItems, RunAborts, RunEnd, TakeItem
  <2>4. ASSUME Surroundings PROVE FALSE
    BY <1>1, <2>4 DEF Surroundings, ScheduleElapses, Crash, LockExpires, SwitchSubscriber
  <2>5. ASSUME NEW w \in Worker, HandlingStep(w) PROVE \E t \in Subscriber : QueueFor(w, t)
    BY <1>1, <2>5 DEF HandlingStep, Check, FlipArchive, Mark, GetSubscribers, FanDone, Finish,
                      SkipSubscriber, HandleTimeout, HandleError
  <2>6. QED
    BY <2>1, <2>2, <2>3, <2>4, <2>5, NextCases
<1>3. PICK w \in Worker, t \in Subscriber : QueueFor(w, t)
  BY <1>2
<1>4. n = cur[w] /\ t = s
  BY <1>1, <1>3 DEF QueueFor
<1>5. QED
  BY <1>3, <1>4

\* An entry that was inserted after later ones stays one.
LEMMA OvertakenGrows == [Next]_vars => overtaken \subseteq overtaken'
<1> SUFFICES ASSUME [Next]_vars PROVE overtaken \subseteq overtaken'
  OBVIOUS
<1> USE DEF edVars
<1>1. ASSUME NEW e \in Editor, EditorStep(e) \/ \E r \in Request : Submit(e, r)
      PROVE  overtaken \subseteq overtaken'
  BY <1>1 DEF EditorStep, Submit, UpdateArchive, TakeNumber, PostPublished, DeletePublished,
              DeleteQueue, RestoreArchive
<1>2. ASSUME NEW w \in Worker,
             \/ RunStart(w) \/ ListItems(w) \/ RunAborts(w) \/ RunEnd(w)
             \/ \E n \in Entry : TakeItem(w, n)
      PROVE  overtaken' = overtaken
  BY <1>2 DEF RunStart, ListItems, RunAborts, RunEnd, TakeItem
<1>3. ASSUME NEW w \in Worker, HandlingStep(w) PROVE overtaken' = overtaken
  BY <1>3 DEF HandlingStep, Check, FlipArchive, Mark, GetSubscribers, FanDone, Finish, QueueFor,
              SkipSubscriber, HandleTimeout, HandleError
<1>4. CASE Surroundings
  BY <1>4 DEF Surroundings, ScheduleElapses, Crash, LockExpires, SwitchSubscriber
<1>5. QED
  BY <1>1, <1>2, <1>3, <1>4, NextCases DEF vars

\* A version is queued for a subscriber only while no later one has been.
LEMMA StepSequential == Plain /\ OInv /\ SeqInv /\ [Next]_vars => [Sequential]_vars
<1> SUFFICES ASSUME OInv, SeqInv, [Next]_vars,
                    NEW n \in Entry \ overtaken, NEW s \in Subscriber,
                    posted'[n][s] > posted[n][s], NEW m \in Entry, m > n
             PROVE  posted[m][s] = 0
  BY DEF Sequential
<1>1. PICK w \in Worker : QueueFor(w, s) /\ n = cur[w]
  BY PostingStep DEF OInv
<1>2. pc[w] = "fan"
  BY <1>1 DEF QueueFor
<1>3. n < m
  BY EntryAssumption
<1>4. Untouched(m)
  BY <1>1, <1>2, <1>3 DEF SeqInv, TurnInv
<1>5. QED
  BY <1>4 DEF OInv, PendingFresh, Untouched, Fresh

\* While nothing sends an entry back or schedules it, a subscriber is queued the versions
\* of the article in their order, wherever tasks die or fail.
THEOREM VersionsInSequence == Plain => (Spec => InSequence)
<1> SUFFICES ASSUME Plain PROVE Spec => InSequence
  OBVIOUS
<1>1. QED
  BY InitOInv, InitSeq, StepSeq, StepSequential, PTL DEF Spec, InSequence

-----------------------------------------------------------------------------
(* Follow-ups go to whoever has received the article.                      *)

\* The fan-out of a follow-up leaves nobody out, and no subscriber is switched on or off.
Unfiltered == Plain /\ Faults \cap {"formatter", "operator"} = {}

\* Active subscribers to whom a version before n was queued.
Owed(n) ==
  {s \in active : \E m \in Entry \ overtaken : m < n /\ op[m] # "kill" /\ posted[m][s] > 0}

\* While a follow-up is fanned out, those it is owed to have it or are still targets.
OwedInv(w) ==
  /\ pc[w] = "fan" /\ op[cur[w]] # "publish" =>
       \A s \in Owed(cur[w]) : posted[cur[w]][s] > 0 \/ s \in targets[w]
  /\ pc[w] = "finish" /\ op[cur[w]] # "publish" =>
       \A s \in Owed(cur[w]) : posted[cur[w]][s] > 0

OwedAll == FollowUpsReachReceivers /\ \A w \in Worker : OwedInv(w)

LEMMA InitOwed == Init => OwedAll
  BY DEF Init, OwedAll, FollowUpsReachReceivers, OwedInv

\* The property in terms of Owed.
LEMMA ReachOwed ==
  FollowUpsReachReceivers <=>
    \A n \in Entry :
      op[n] # "publish" /\ qstate[n] \in {"queued", "queued_not_transmitted"} =>
        \A s \in Owed(n) : posted[n][s] > 0
  BY DEF FollowUpsReachReceivers, Owed

LEMMA EditorOwed ==
  ASSUME OInv, SeqInv, OwedAll, NEW e \in Editor,
         EditorStep(e) \/ \E r \in Request : Submit(e, r)
  PROVE  OwedAll'
<1> USE DEF OInv, TInv, BaseInv, TypeOK, archVars, pubVars, queueVars, workVars, edVars, EdGoto
<1>1. edPc[e] \in {"idle", "update", "number", "insert"}
  BY DEF SeqInv, NoSchedule
<1>2. UNCHANGED <<posted, active, pc, cur, targets>>
  BY <1>1 DEF EditorStep, Submit, UpdateArchive, TakeNumber, PostPublished,
              DeletePublished, DeleteQueue, RestoreArchive
<1>3. CASE UNCHANGED <<qstate, op, overtaken>>
  BY <1>2, <1>3 DEF OwedAll, FollowUpsReachReceivers, OwedInv, Owed
<1>4. ASSUME NEW n \in Entry, PostPublished(e, n) PROVE OwedAll'
  <2>1. /\ qstate[n] = "absent" /\ qstate'[n] = "pending"
        /\ \A m \in Entry \ {n} : qstate'[m] = qstate[m] /\ op'[m] = op[m]
    BY <1>4 DEF PostPublished, TInv, NumberNew
  <2>2. \A s \in Subscriber : posted[n][s] = 0
    BY <2>1 DEF PendingFresh, Fresh
  <2>3. \A m \in Entry : Owed(m)' = Owed(m)
    <3>1. \A i \in Entry : \A s \in active :
            i \notin overtaken' /\ op'[i] # "kill" /\ posted'[i][s] > 0
              <=> i \notin overtaken /\ op[i] # "kill" /\ posted[i][s] > 0
      BY <1>2, <1>4, <2>1, <2>2 DEF PostPublished
    <3>2. QED
      BY <1>2, <3>1, Zenon DEF Owed
  <2>4. \A w \in Worker : pc[w] \in Handling => cur[w] \in Entry /\ cur[w] # n
    BY <2>1 DEF CurOK, WorkInserted
  <2>5. \A w \in Worker : OwedInv(w)'
    BY <1>2, <2>1, <2>3, <2>4 DEF OwedAll, OwedInv, Handling
  <2>6. FollowUpsReachReceivers'
    <3>1. \A m \in Entry :
            op'[m] # "publish" /\ qstate'[m] \in {"queued", "queued_not_transmitted"} =>
              \A s \in Owed(m)' : posted'[m][s] > 0
      BY <1>2, <2>1, <2>3, ReachOwed DEF OwedAll
    <3>2. QED
      BY <3>1, Zenon DEF FollowUpsReachReceivers, Owed
  <2>7. QED
    BY <2>5, <2>6 DEF OwedAll
<1>5. QED
  BY <1>1, <1>3, <1>4 DEF EditorStep, Submit, UpdateArchive, TakeNumber, DeletePublished,
                          DeleteQueue, RestoreArchive

LEMMA RunOwed ==
  ASSUME OInv, OwedAll, NEW w \in Worker,
         \/ RunStart(w) \/ ListItems(w) \/ RunAborts(w) \/ RunEnd(w)
         \/ \E n \in Entry : TakeItem(w, n)
  PROVE  OwedAll'
<1> USE DEF OInv, TInv, BaseInv, TypeOK, pubVars, queueVars, workVars, edVars, Goto
<1>1. UNCHANGED <<qstate, op, posted, active, overtaken>>
  BY DEF RunStart, ListItems, RunAborts, RunEnd, TakeItem
<1>2. \A v \in Worker : \/ pc'[v] \notin {"fan", "finish"}
                        \/ pc'[v] = pc[v] /\ cur'[v] = cur[v] /\ targets'[v] = targets[v]
  BY DEF RunStart, ListItems, RunAborts, RunEnd, TakeItem, Forget
<1>3. QED
  BY <1>1, <1>2 DEF OwedAll, FollowUpsReachReceivers, OwedInv, Owed

LEMMA SurroundingsOwed ==
  ASSUME Unfiltered, OInv, OwedAll, Surroundings
  PROVE  OwedAll'
<1> USE DEF OInv, TInv, BaseInv, TypeOK, archVars, pubVars, queueVars, workVars, edVars, Goto
<1>1. UNCHANGED <<qstate, op, posted, active, overtaken>>
  BY DEF Surroundings, ScheduleElapses, Crash, LockExpires, SwitchSubscriber, Unfiltered
<1>2. \A v \in Worker : \/ pc'[v] \notin {"fan", "finish"}
                        \/ pc'[v] = pc[v] /\ cur'[v] = cur[v] /\ targets'[v] = targets[v]
  BY DEF Surroundings, ScheduleElapses, Crash, LockExpires, SwitchSubscriber, Forget
<1>3. QED
  BY <1>1, <1>2 DEF OwedAll, FollowUpsReachReceivers, OwedInv, Owed

LEMMA HandlingOwed ==
  ASSUME Unfiltered, OInv, SeqInv, OwedAll, NEW w \in Worker, HandlingStep(w)
  PROVE  OwedAll'
<1> DEFINE Local(k) ==
      OwedInv(w)' /\ (op'[k] # "publish" /\ qstate'[k] \in {"queued", "queued_not_transmitted"} =>
                        \A s \in Owed(k)' : posted'[k][s] > 0)
<1>1. TInv /\ LockInv /\ PrefixInv /\ TurnInv(w)
  BY DEF OInv, SeqInv
<1>2. PICK k \in Entry : k = cur[w]
  BY <1>1, HandlingLocal DEF TInv
<1>3. /\ pc[w] \in Handling /\ pc[w] # "idle"
      /\ \A n \in Entry \ {k} : qstate'[n] = qstate[n] /\ posted'[n] = posted[n]
      /\ op' = op /\ active' = active /\ overtaken' = overtaken
      /\ pc'[w] \in Handling => cur'[w] = k
  BY <1>1, <1>2, HandlingLocal DEF TInv, Handling
<1>4. \A v \in Worker \ {w} : pc[v] = "idle" /\ pc'[v] = "idle"
  BY <1>1, <1>3, HandlingLocal, OneRunning DEF TInv
<1>5. Owed(k)' = Owed(k)
  <2>1. \A m \in Entry : m < k => m # k
    BY EntryAssumption
  <2>2. QED
    BY <1>3, <2>1 DEF Owed
<1>6. /\ OwedInv(w)
      /\ op[k] # "publish" /\ qstate[k] \in {"queued", "queued_not_transmitted"} =>
           \A s \in Owed(k) : posted[k][s] > 0
  BY ReachOwed DEF OwedAll
<1>7. Local(k) /\ (posted' # posted => pc[w] = "fan")
  <2> USE <1>2, <1>3, <1>5, <1>6
      DEF TInv, BaseInv, TypeOK, OwedInv, pubVars, queueVars, workVars, Goto
  <2> USE <1>1
  <2>0. ASSUME EndItem(w) PROVE OwedInv(w)'
    BY <2>0 DEF EndItem
  <2>1. CASE Check(w)
    BY <2>0, <2>1 DEF Check
  <2>2. CASE FlipArchive(w)
    BY <2>2 DEF FlipArchive
  <2>3. CASE Mark(w)
    BY <2>0, <2>3 DEF Mark, InProgress
  <2>4. CASE GetSubscribers(w)
    <3>1. op[k] # "publish" => Owed(k) \subseteq SubscribersFor(op[k])
      BY DEF Owed, SubscribersFor, Received, Op
    <3>2. /\ pc[w] = "targets" /\ pc'[w] = "fan" /\ cur' = cur /\ qstate' = qstate
          /\ posted' = posted /\ targets'[w] = SubscribersFor(op[k])
      BY <2>4 DEF GetSubscribers
    <3>3. QED
      BY <3>1, <3>2
  <2>5. CASE FanDone(w)
    BY <2>5 DEF FanDone
  <2>6. CASE Finish(w)
    BY <2>0, <2>6 DEF Finish, Patch
  <2>7. CASE HandleError(w)
    BY <2>0, <2>7 DEF HandleError, Patch
  <2>8. ASSUME NEW s \in Subscriber, QueueFor(w, s) PROVE Local(k) /\ pc[w] = "fan"
    <3>1. /\ pc[w] = "fan" /\ pc' = pc /\ cur' = cur /\ qstate' = qstate
          /\ targets'[w] = targets[w] \ {s}
      BY <2>8 DEF QueueFor, Remaining
    <3>2. posted'[k][s] > 0 /\ \A t \in Subscriber \ {s} : posted'[k][t] = posted[k][t]
      BY <2>8, BoundAssumption DEF QueueFor
    <3>3. Owed(k) \subseteq Subscriber
      BY DEF Owed
    <3>4. \A t \in Owed(k) : posted[k][t] > 0 => posted'[k][t] > 0
      BY <3>2, <3>3
    <3>5. OwedInv(w)'
      BY <3>1, <3>2, <3>3, <3>4
    <3>6. QED
      BY <3>1, <3>4, <3>5
  <2>9. ASSUME NEW s \in Subscriber PROVE ~SkipSubscriber(w, s)
    BY DEF SkipSubscriber, Unfiltered, Plain, NoTimeouts
  <2>10. ~HandleTimeout(w)
    BY DEF HandleTimeout, Unfiltered, Plain, NoTimeouts
  <2>11. QED
    BY <2>1, <2>2, <2>3, <2>4, <2>5, <2>6, <2>7, <2>8, <2>9, <2>10 DEF HandlingStep
<1>8. ASSUME NEW n \in Entry, n # k,
             op[n] # "publish", qstate[n] \in {"queued", "queued_not_transmitted"},
             NEW s \in Owed(n)'
      PROVE  posted'[n][s] > 0
  <2>1. CASE k < n /\ k \notin overtaken
    <3>1. ~Untouched(n)
      BY <1>8 DEF Untouched
    <3>2. pc[w] # "fan"
      BY <1>1, <1>2, <2>1, <3>1 DEF TurnInv
    <3>3. posted' = posted
      BY <1>7, <3>2
    <3>4. Owed(n)' = Owed(n)
      BY <1>3, <3>3 DEF Owed
    <3>5. QED
      BY <1>8, <3>3, <3>4, ReachOwed DEF OwedAll
  <2>2. CASE ~(k < n /\ k \notin overtaken)
    <3>1. \A m \in Entry \ overtaken : m < n => m # k
      BY <2>2
    <3>2. Owed(n)' = Owed(n)
      BY <1>3, <3>1 DEF Owed
    <3>3. QED
      BY <1>3, <1>8, <3>2, ReachOwed DEF OwedAll
  <2>3. QED
    BY <2>1, <2>2
<1>9. FollowUpsReachReceivers'
  BY <1>3, <1>7, <1>8 DEF FollowUpsReachReceivers, Owed
<1>10. QED
  BY <1>4, <1>7, <1>9 DEF OwedAll, OwedInv

LEMMA StepOwed == Unfiltered /\ OInv /\ SeqInv /\ OwedAll /\ [Next]_vars => OwedAll'
<1> SUFFICES ASSUME Unfiltered, OInv, SeqInv, OwedAll, [Next]_vars PROVE OwedAll'
  OBVIOUS
<1>1. OInv'
  BY StepOInv DEF Unfiltered, Plain
<1>2. CASE Next
  BY <1>1, <1>2, NextCases, EditorOwed, RunOwed, HandlingOwed, SurroundingsOwed
<1>3. CASE UNCHANGED vars
  BY <1>3 DEF vars, OwedAll, FollowUpsReachReceivers, OwedInv, Owed
<1>4. QED
  BY <1>2, <1>3

\* A correction or kill that has been enqueued was queued for every active subscriber who
\* was queued an earlier version, whatever fails or dies, so long as versions keep their
\* order and no subscriber is skipped or switched.
THEOREM FollowUpsComplete == Unfiltered => (Spec => []FollowUpsReachReceivers)
<1> SUFFICES ASSUME Unfiltered PROVE Spec => []FollowUpsReachReceivers
  OBVIOUS
<1>1. OInv /\ SeqInv /\ OwedAll /\ [Next]_vars => OInv' /\ SeqInv' /\ OwedAll'
  BY StepSeq, StepOwed DEF Unfiltered
<1>2. OwedAll => FollowUpsReachReceivers
  BY DEF OwedAll
<1>3. QED
  BY <1>1, <1>2, InitOInv, InitSeq, InitOwed, PTL DEF Spec

-----------------------------------------------------------------------------
(* The surroundings of a composition: another component closes subscribers.*)

\* A step in which only the set of active subscribers may change.
OnlyActive ==
  /\ UNCHANGED <<archVars, pubVars, queueVars, lockOwner, pc, workVars, edVars>>
  /\ active' \subseteq Subscriber

LEMMA ActiveTInv == TInv /\ OnlyActive => TInv'
  BY DEF OnlyActive, archVars, pubVars, queueVars, workVars, edVars, TInv, BaseInv, TypeOK,
         CurOK, EditorOK, NumberOwn, NumberNew, WorkInserted

LEMMA ActiveOInv == OInv /\ OnlyActive => OInv'
  BY ActiveTInv DEF OnlyActive, archVars, pubVars, queueVars, workVars, edVars, OInv, LockInv,
                    PendingFresh, MarkPending, FanMarked, FanFresh, Fresh, QueuedOnce

LEMMA ActiveSeq == SeqInv /\ OnlyActive => SeqInv'
  BY DEF OnlyActive, archVars, pubVars, queueVars, workVars, edVars, SeqInv, NoSchedule, PrefixInv,
         Untouched, BatchInv, TurnInv

LEMMA ActiveOwed == OwedAll /\ OnlyActive /\ active' \subseteq active => OwedAll'
  BY DEF OnlyActive, archVars, pubVars, queueVars, workVars, edVars, OwedAll,
         FollowUpsReachReceivers, OwedInv, Owed
=============================================================================
