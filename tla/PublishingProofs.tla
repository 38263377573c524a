-------------------------- MODULE PublishingProofs --------------------------
(***************************************************************************)
(* Proofs about Publishing, the composition of Enqueue and Transmit: the   *)
(* theorems about each carry over, and together they bring follow-ups to   *)
(* the readers of an article.                                              *)
(***************************************************************************)
EXTENDS Publishing, DeliveryProofs

\* What EnqueueProofs proves, about the Enqueue of the composition.
EP == INSTANCE EnqueueProofs WITH
  Worker <- EnqueueWorker, Faults <- EnqueueFaults,
  posted <- [n \in Entry |-> [s \in Subscriber |-> Cardinality(Queue(n, s))]],
  active <- {s \in Subscriber : active[s]},
  pc <- enqueuePc, batch <- enqueueBatch, cur <- enqueueCur

-----------------------------------------------------------------------------
(* The steps of Enq are those of EP.                                       *)

LEMMA SameFinite == IsFiniteSet(Entry) => EP!IsFiniteSet(Entry)
  BY DEF EP!IsFiniteSet, IsFiniteSet

LEMMA Assumed ==
  /\ EP!EntryAssumption /\ EP!MatchAssumption /\ EP!OwnerAssumption /\ EP!BoundAssumption
  /\ EP!InputAssumption
  BY EnqueueAssumption, OwnerAssumption, SameFinite
  DEF EP!EntryAssumption, EP!MatchAssumption, EP!OwnerAssumption, EP!BoundAssumption,
      EP!InputAssumption, EP!Op, EP!Request, EP!FaultKinds, Enq!Op, Enq!Request, Enq!FaultKinds

LEMMA CardS == ASSUME NEW S PROVE Enq!Cardinality(S) = EP!Cardinality(S)
  BY DEF Enq!Cardinality, EP!Cardinality
LEMMA SameEditorStep ==
  ASSUME NEW e \in Editor, Enq!EditorStep(e)
  PROVE  EP!EditorStep(e)
  BY DEF
    Enq!DeletePublished, EP!DeletePublished, Enq!DeleteQueue, EP!DeleteQueue, Enq!EdGoto,
    EP!EdGoto, Enq!EditorStep, EP!EditorStep, Enq!OpOf, EP!OpOf, Enq!TakeNumber, EP!TakeNumber,
    Enq!IsLowest, EP!IsLowest, Enq!NoEntry, EP!NoEntry, Enq!PostPublished,
    EP!PostPublished, Enq!RestoreArchive, EP!RestoreArchive, Enq!ResultState,
    EP!ResultState, Enq!Unused, EP!Unused, Enq!UpdateArchive, EP!UpdateArchive,
    Enq!WriteArchive, EP!WriteArchive, Enq!archVars, EP!archVars, Enq!pubVars, EP!pubVars,
    Enq!queueVars, EP!queueVars, Enq!workVars, EP!workVars
LEMMA SameWorkerStep ==
  ASSUME NEW w \in EnqueueWorker, Enq!WorkerStep(w)
  PROVE  EP!WorkerStep(w)
  BY DEF
    Enq!Check, EP!Check, Enq!EndItem, EP!EndItem, Enq!FanDone, EP!FanDone, Enq!Finish,
    EP!Finish, Enq!FlipArchive, EP!FlipArchive, Enq!Forget, EP!Forget, Enq!GetSubscribers,
    EP!GetSubscribers, Enq!Goto, EP!Goto, Enq!HandleError, EP!HandleError,
    Enq!HandleTimeout, EP!HandleTimeout, Enq!InProgress, EP!InProgress, Enq!IsNext,
    EP!IsNext, Enq!ListItems, EP!ListItems, Enq!Listed, EP!Listed, Enq!Mark, EP!Mark,
    Enq!NoEntry, EP!NoEntry, Enq!Patch, EP!Patch, Enq!Proceed, EP!Proceed, Enq!QueueFor,
    EP!QueueFor, Enq!Received, EP!Received, Enq!Released, EP!Released, Enq!Remaining,
    EP!Remaining, Enq!RunAborts, EP!RunAborts, Enq!RunEnd, EP!RunEnd, Enq!SkipSubscriber,
    EP!SkipSubscriber, Enq!SubscribersFor, EP!SubscribersFor, Enq!TakeItem, EP!TakeItem,
    Enq!WorkerStep, EP!WorkerStep, Enq!archVars, EP!archVars, Enq!edVars, EP!edVars,
    Enq!pubVars, EP!pubVars, Enq!queueVars, EP!queueVars, Enq!workVars, EP!workVars
LEMMA SameRunStart ==
  ASSUME NEW w \in EnqueueWorker, Enq!RunStart(w)
  PROVE  EP!RunStart(w)
  BY DEF
    Enq!Free, EP!Free, Enq!Goto, EP!Goto, Enq!RunStart, EP!RunStart, Enq!archVars,
    EP!archVars, Enq!edVars, EP!edVars, Enq!pubVars, EP!pubVars, Enq!queueVars,
    EP!queueVars, Enq!workVars, EP!workVars
LEMMA SameSubmit ==
  ASSUME NEW e \in Editor, NEW r \in Enq!Request, Enq!Submit(e, r)
  PROVE  EP!Submit(e, r)
  BY CardS DEF
    Enq!Allowed, EP!Allowed, Enq!EdGoto, EP!EdGoto, Enq!Submit, EP!Submit, Enq!Unused,
    EP!Unused, Enq!archVars, EP!archVars, Enq!pubVars, EP!pubVars, Enq!queueVars,
    EP!queueVars, Enq!workVars, EP!workVars
LEMMA SameEnvironment ==
  ASSUME Enq!Environment
  PROVE  EP!Environment
  BY CardS DEF
    Enq!Allowed, EP!Allowed, Enq!Crash, EP!Crash, Enq!EdGoto, EP!EdGoto, Enq!Environment,
    EP!Environment, Enq!Forget, EP!Forget, Enq!Goto, EP!Goto, Enq!LockExpires,
    EP!LockExpires, Enq!NoEntry, EP!NoEntry, Enq!Request, EP!Request, Enq!ScheduleElapses,
    EP!ScheduleElapses, Enq!Submit, EP!Submit, Enq!SwitchSubscriber, EP!SwitchSubscriber,
    Enq!Unused, EP!Unused, Enq!archVars, EP!archVars, Enq!edVars, EP!edVars, Enq!pubVars,
    EP!pubVars, Enq!queueVars, EP!queueVars, Enq!workVars, EP!workVars

LEMMA SameNext == Enq!Next => EP!Next
  BY SameEditorStep, SameWorkerStep, SameRunStart, SameEnvironment DEF Enq!Next, EP!Next

LEMMA SameQueueFor ==
  ASSUME NEW w \in EnqueueWorker, NEW s \in Subscriber, Enq!QueueFor(w, s)
  PROVE  EP!QueueFor(w, s)
  BY DEF Enq!QueueFor, EP!QueueFor, Enq!Remaining, EP!Remaining, Enq!archVars, EP!archVars,
         Enq!pubVars, EP!pubVars, Enq!edVars, EP!edVars

\* A step of the composition is one of Enqueue, or only switches subscribers.
LEMMA EnqueueStep ==
  ASSUME [PublishingNext]_allVars
  PROVE  [EP!Next]_(EP!vars) \/ (Transmitting /\ EP!OnlyActive)
<1>1. ASSUME NEW w \in EnqueueWorker, Queueing(w) PROVE EP!Next
  <2>1. PICK s \in Subscriber : Enq!QueueFor(w, s)
    BY <1>1, SubscriberAssumption DEF Queueing
  <2>2. EP!QueueFor(w, s)
    BY <2>1, SameQueueFor
  <2>3. QED
    BY <2>2 DEF EP!Next, EP!WorkerStep
<1>2. CASE Enqueueing
  BY <1>2, SameNext DEF Enqueueing
<1>3. CASE Transmitting
  <2>1. EP!OnlyActive
    BY <1>3 DEF Transmitting, enqueueVars, Queue, EP!OnlyActive, EP!archVars, EP!pubVars,
                EP!queueVars, EP!workVars, EP!edVars
  <2>2. QED
    BY <1>3, <2>1
<1>4. CASE UNCHANGED allVars
  BY <1>4 DEF allVars, vars, enqueueVars, Queue, EP!vars
<1>5. QED
  BY <1>1, <1>2, <1>3, <1>4 DEF PublishingNext

\* ... and one of Transmit, or leaves it alone.
LEMMA TransmitStep ==
  ASSUME [PublishingNext]_allVars
  PROVE  [Next]_vars
  BY DEF PublishingNext, allVars, Queueing, Next, Environment, Enqueueing, QueueUnchanged,
         Transmitting

LEMMA EnqueueInit == PublishingInit => EP!Init
<1> SUFFICES ASSUME PublishingInit PROVE EP!Init
  OBVIOUS
<1>1. \A n \in Entry : \A s \in Subscriber : Cardinality(Queue(n, s)) = 0
  <2>1. \A n \in Entry : \A s \in Subscriber : Queue(n, s) = {}
    BY EnqueueAssumption DEF PublishingInit, Queue, NoItem
  <2>2. QED
    BY <2>1, FS_EmptySet
<1>2. {s \in Subscriber : active[s]} = Subscriber
  BY DEF PublishingInit, Init
<1>3. QED
  BY <1>1, <1>2 DEF PublishingInit, Enq!Init, EP!Init, Enq!NoEntry, EP!NoEntry

-----------------------------------------------------------------------------
(* Transmit within the composition keeps its promise.                      *)

\* Fed by Enqueue the transmission still implements Delivery: what enters and leaves
\* publish_queue is delivered, settled and counted as Delivery says.
THEOREM CompositionDelivers == Careful => (PublishingSpec => ImplementsDelivery)
<1> SUFFICES ASSUME Careful PROVE PublishingSpec => ImplementsDelivery
  OBVIOUS
<1>1. PublishingInit => Init
  BY DEF PublishingInit
<1>2. [PublishingNext]_allVars => [Next]_vars
  BY TransmitStep
<1>3. PublishingSpec => Spec
  BY <1>1, <1>2, PTL DEF PublishingSpec, Spec
<1>4. Spec => ImplementsDelivery
  BY Refinement
<1>5. QED
  BY <1>3, <1>4

-----------------------------------------------------------------------------
(* What is in publish_queue comes from the published collection.           *)

\* Exactly the entries of publish_queue that have been posted come from a published entry.
Linked ==
  /\ source \in [Item -> Entry \cup {NoItem}]
  /\ \A i \in Item : (state[i] = "absent") = (source[i] = NoItem)

PairInv == TInv /\ SentKnown /\ EP!TInv /\ Linked

LEMMA InitPair == PublishingInit => PairInv
<1> SUFFICES ASSUME PublishingInit PROVE PairInv
  OBVIOUS
<1>1. TInv /\ SentKnown
  BY InitTInv, InitSentKnown DEF PublishingInit
<1>2. EP!TInv
  BY Assumed, EnqueueInit, EP!InitTInv
<1>3. Linked
  BY DEF PublishingInit, Init, Linked
<1>4. QED
  BY <1>1, <1>2, <1>3 DEF PairInv

\* The worker at the fan-out works on an entry of the published collection.
LEMMA QueueingSource ==
  ASSUME EP!TInv, NEW w \in EnqueueWorker, Queueing(w)
  PROVE  enqueuePc[w] = "fan" /\ enqueueCur[w] \in Entry
<1>1. enqueuePc[w] = "fan"
  BY DEF Queueing, Enq!QueueFor
<1>2. QED
  BY <1>1 DEF EP!TInv, EP!BaseInv, EP!CurOK, EP!Handling

LEMMA StepLinked ==
  ASSUME PairInv, [PublishingNext]_allVars
  PROVE  Linked'
<1> USE DEF PairInv, Linked
<1>1. ASSUME NEW w \in EnqueueWorker, Queueing(w) PROVE Linked'
  <2>1. enqueueCur[w] \in Entry /\ enqueueCur[w] # NoItem
    BY <1>1, QueueingSource, EnqueueAssumption DEF NoItem
  <2>2. PICK i \in Item : Post(i) /\ source' = [source EXCEPT ![i] = enqueueCur[w]]
    BY <1>1 DEF Queueing
  <2>3. /\ state' = [state EXCEPT ![i] = PostedState(i)] /\ PostedState(i) # "absent"
        /\ state \in [Item -> QueueState]
    BY <2>2 DEF Post, PostedState, TInv, TypeOK
  <2>4. QED
    BY <2>1, <2>2, <2>3
<1>2. CASE Enqueueing
  BY <1>2 DEF Enqueueing, QueueUnchanged, vars
<1>3. CASE Transmitting
  <2>1. StaysPosted
    BY <1>3, NextSentKnown DEF Transmitting
  <2>2. QED
    BY <1>3, <2>1 DEF Transmitting, StaysPosted
<1>4. CASE UNCHANGED allVars
  BY <1>4 DEF allVars, vars
<1>5. QED
  BY <1>1, <1>2, <1>3, <1>4 DEF PublishingNext

LEMMA ActiveTInv == EP!TInv /\ EP!OnlyActive => EP!TInv'
  BY Assumed, EP!ActiveTInv

LEMMA StepPair == PairInv /\ [PublishingNext]_allVars => PairInv'
<1> SUFFICES ASSUME PairInv, [PublishingNext]_allVars PROVE PairInv'
  OBVIOUS
<1>1. TInv' /\ SentKnown'
  BY TransmitStep, NextTInv, NextSentKnown DEF PairInv
<1>2. EP!TInv'
  <2>1. CASE [EP!Next]_(EP!vars)
    BY <2>1, Assumed, EP!StepTInv DEF PairInv
  <2>2. CASE EP!OnlyActive
    BY <2>2, ActiveTInv DEF PairInv
  <2>3. QED
    BY <2>1, <2>2, EnqueueStep
<1>3. QED
  BY <1>1, <1>2, StepLinked DEF PairInv

\* What a subscriber has been queued, counted.
LEMMA CountQueue ==
  ASSUME NEW n \in Entry, NEW s \in Subscriber
  PROVE  /\ Cardinality(Queue(n, s)) \in Nat
         /\ Cardinality(Queue(n, s)) > 0 <=> Queue(n, s) # {}
<1>1. IsFiniteSet(Queue(n, s))
  BY ItemAssumption, FS_Subset DEF Queue
<1>2. QED
  BY <1>1, FS_CardinalityType, FS_EmptySet

-----------------------------------------------------------------------------
(* Follow-ups reach the readers.                                           *)

\* Without an operator a transmission closes subscribers but opens none.
LEMMA OnlyCloses ==
  ASSUME "operator" \notin Faults, TInv, [Next]_vars
  PROVE  \A s \in Subscriber : active'[s] => active[s]
<1> USE DEF TInv, TypeOK, subVars
<1>1. CASE UNCHANGED vars
  BY <1>1 DEF vars
<1>2. ASSUME NEW w \in Worker, MarkError(w) PROVE \A s \in Subscriber : active'[s] => active[s]
  BY <1>2 DEF MarkError
<1>3. ASSUME NEW w \in Worker, ItemTask(w) PROVE \A s \in Subscriber : active'[s] => active[s]
  <2>1. MarkError(w) \/ active' = active
    BY <1>3 DEF ItemTask, Read, ReadRejects, Mark, MarkFails, SendInactive, Sending, Send, SendOtherError,
                SendPublishError, Sending, Record, RecordFails, MarkErrorFails, SoftTimeout, HandlerRead,
                HandlerWrite, HandlerFails
  <2>2. QED
    BY <1>2, <2>1
<1>4. ASSUME NEW w \in Worker,
             \/ Publish(w) \/ SubTask(w)
             \/ \E m \in SubMsg : SubTake(w, m)
             \/ \E i \in Item : ItemTake(w, i)
      PROVE  active' = active
  BY <1>4 DEF Publish, PublishStart, DispatchPhase, PublishEnd, SubTask, Fetch, BatchAbort,
              SubRelease, NextAsync, NextSync, SubTake, ItemTake
<1>5. CASE Environment
  BY <1>5 DEF Environment, Post, PostedState, RetryDue, ItemDrop, ItemLockExpires, OperatorPatch, Crash,
              ArticlesLockExpires, SubLockExpires, OperatorSwitch, Reconfigure, SubDrop
<1>6. QED
  BY <1>1, <1>3, <1>4, <1>5 DEF Next

\* Nobody is skipped in the fan-out or switched on again, and versions keep their order.
Steady == EP!Unfiltered /\ "operator" \notin Faults

ReachInv == PairInv /\ EP!OInv /\ EP!SeqInv /\ EP!OwedAll

LEMMA StepReach == Steady /\ ReachInv /\ [PublishingNext]_allVars => ReachInv'
<1> SUFFICES ASSUME Steady, ReachInv, [PublishingNext]_allVars PROVE ReachInv'
  OBVIOUS
<1>1. PairInv'
  BY StepPair DEF ReachInv
<1>2. EP!Plain /\ EP!Unfiltered
  BY DEF Steady, EP!Unfiltered
<1>3. CASE [EP!Next]_(EP!vars)
  <2>1. EP!OInv' /\ EP!SeqInv'
    BY <1>2, <1>3, Assumed, EP!StepSeq DEF ReachInv
  <2>2. EP!OwedAll'
    BY <1>2, <1>3, Assumed, EP!StepOwed DEF ReachInv
  <2>3. QED
    BY <1>1, <2>1, <2>2 DEF ReachInv
<1>4. CASE Transmitting /\ EP!OnlyActive
  <2>1. EP!OInv' /\ EP!SeqInv'
    BY <1>4, Assumed, EP!ActiveOInv, EP!ActiveSeq DEF ReachInv
  <2>2. {s \in Subscriber : active'[s]} \subseteq {s \in Subscriber : active[s]}
    BY TransmitStep, OnlyCloses DEF Steady, ReachInv, PairInv
  <2>3. EP!OwedAll'
    BY <1>4, <2>2, Assumed, EP!ActiveOwed DEF ReachInv
  <2>4. QED
    BY <1>1, <2>1, <2>3 DEF ReachInv
<1>5. QED
  BY <1>3, <1>4, EnqueueStep

LEMMA InitReach == PublishingInit => ReachInv
<1> SUFFICES ASSUME PublishingInit PROVE ReachInv
  OBVIOUS
<1>1. EP!OInv /\ EP!SeqInv /\ EP!OwedAll
  BY EnqueueInit, Assumed, EP!InitOInv, EP!InitSeq, EP!InitOwed
<1>2. QED
  BY <1>1, InitPair DEF ReachInv

\* What was queued is what was owed: the property of Enqueue says it of the entries of
\* publish_queue.
LEMMA ReachReaders == ReachInv => FollowUpsReachReaders
<1> SUFFICES ASSUME ReachInv,
                    NEW n \in Entry, op[n] # "publish",
                    qstate[n] \in {"queued", "queued_not_transmitted"},
                    NEW i \in Item, sent[i] > 0, source[i] < n, op[source[i]] # "kill",
                    source[i] \notin overtaken, active[SubscriberOf[i]]
             PROVE  Queue(n, SubscriberOf[i]) # {}
  BY DEF FollowUpsReachReaders
<1>1. source[i] \in Entry
  BY DEF ReachInv, PairInv, SentKnown, Linked
<1>2. PICK s \in Subscriber : s = SubscriberOf[i] /\ active[s]
  BY SubscriberAssumption
<1>3. PICK m \in Entry : m = source[i] /\ m < n /\ op[m] # "kill" /\ m \notin overtaken
  BY <1>1
<1>4. Cardinality(Queue(m, s)) > 0
  BY <1>2, <1>3, CountQueue DEF Queue
<1>5. Cardinality(Queue(n, s)) > 0
  BY <1>2, <1>3, <1>4 DEF ReachInv, EP!OwedAll, EP!FollowUpsReachReceivers
<1>6. QED
  BY <1>2, <1>5, CountQueue

\* A correction or kill that has been enqueued is in publish_queue for every active
\* subscriber to whom an earlier version of the article has been delivered, whatever
\* crashes or fails in the two components and however transmissions overlap, unless that
\* version was inserted after later ones.
THEOREM ReadersGetFollowUps == Steady => (PublishingSpec => []FollowUpsReachReaders)
<1> SUFFICES ASSUME Steady PROVE PublishingSpec => []FollowUpsReachReaders
  OBVIOUS
<1>1. ReachInv /\ [PublishingNext]_allVars => ReachInv'
  BY StepReach
<1>2. QED
  BY <1>1, InitReach, ReachReaders, PTL DEF PublishingSpec
-----------------------------------------------------------------------------
(* An older version after a newer one is a retry.                          *)

\* The entries of publish_queue for one subscriber come in the order of their versions,
\* but for those of a version inserted after later ones.
Ascending ==
  \A i, j \in Item :
    i < j /\ SubscriberOf[i] = SubscriberOf[j] /\ source[j] \notin {NoItem} \cup overtaken
      => source[i] <= source[j]

\* The versions for one subscriber have the same priority.
OnePriority ==
  \A i, j \in Item :
    SubscriberOf[i] = SubscriberOf[j] => (i \in HighPriority) = (j \in HighPriority)

Ordered == NoOverlap /\ OnePriority /\ EP!Plain

LastInv == /\ PairInv /\ EP!OInv /\ EP!SeqInv /\ Ascending
           /\ LockInv /\ OrderInv /\ BudgetInv /\ TurnsInv

\* A worker queues a version only behind earlier ones.
LEMMA QueueingAscends ==
  ASSUME Ordered, LastInv, NEW w \in EnqueueWorker, Queueing(w)
  PROVE  Ascending'
<1>1. PICK n \in Entry : n = enqueueCur[w]
  BY QueueingSource DEF LastInv, PairInv
<1>2. PICK k \in Item : /\ Post(k) /\ source' = [source EXCEPT ![k] = n]
                        /\ Enq!QueueFor(w, SubscriberOf[k])
  BY <1>1 DEF Queueing
<1>3. PICK s \in Subscriber : s = SubscriberOf[k]
  BY SubscriberAssumption
<1>4. source \in [Item -> Entry \cup {NoItem}] /\ source[k] = NoItem
      /\ \A j \in Item : (state[j] = "absent") = (source[j] = NoItem)
  BY <1>2 DEF LastInv, PairInv, Linked, Post, PostedState
<1>5. \A j \in Item : k < j => source[j] = NoItem
  BY <1>2, <1>4 DEF LastInv, OrderInv, PostOrder, Post, PostedState
<1>6. ASSUME NEW i \in Item, i < k, SubscriberOf[i] = s, n \notin overtaken
      PROVE  source[i] <= n
  <2>1. PICK m \in Entry : m = source[i]
    BY <1>2, <1>4, <1>6 DEF Post, PostedState
  <2>2. Cardinality(Queue(m, s)) > 0
    BY <1>6, <2>1, CountQueue DEF Queue
  <2>3. Cardinality(Queue(n, s))' > Cardinality(Queue(n, s))
    <3>1. k \notin Queue(n, s)
      BY <1>1, <1>4, EnqueueAssumption DEF Queue, NoItem
    <3>2. Queue(n, s)' = Queue(n, s) \cup {k}
      BY <1>2, <1>3, <1>4 DEF Queue
    <3>3. IsFiniteSet(Queue(n, s))
      BY ItemAssumption, FS_Subset DEF Queue
    <3>4. Cardinality(Queue(n, s) \cup {k}) = Cardinality(Queue(n, s)) + 1
      BY <3>1, <3>3, FS_AddElement
    <3>5. Cardinality(Queue(n, s)) \in Nat
      BY <1>1, CountQueue
    <3>6. QED
      BY <3>2, <3>4, <3>5
  <2>4. EP!QueueFor(w, s)
    BY <1>2, <1>3, SameQueueFor
  <2>5. EP!Sequential
    <3>1. EP!Next
      BY <2>4 DEF EP!Next, EP!WorkerStep
    <3>2. [EP!Sequential]_(EP!vars)
      BY <3>1, Assumed, EP!StepSequential DEF Ordered, LastInv
    <3>3. ~UNCHANGED EP!vars
      <4>1. UNCHANGED EP!vars => Cardinality(Queue(n, s))' = Cardinality(Queue(n, s))
        BY <1>1 DEF EP!vars
      <4>2. Cardinality(Queue(n, s)) \in Nat
        BY <1>1, CountQueue
      <4>3. QED
        BY <2>3, <4>1, <4>2
    <3>4. QED
      BY <3>2, <3>3
  <2>6. ~(m > n)
    BY <1>1, <1>6, <2>2, <2>3, <2>5 DEF EP!Sequential
  <2>7. m \in Nat /\ n \in Nat
    BY <1>1, EnqueueAssumption
  <2>8. QED
    BY <2>1, <2>6, <2>7
<1>7. ASSUME NEW i \in Item, NEW j \in Item, i < j, SubscriberOf[i] = SubscriberOf[j],
             source'[j] \notin {NoItem} \cup overtaken'
      PROVE  source'[i] <= source'[j]
  <2>0. overtaken' = overtaken
    <3>1. EP!QueueFor(w, s)
      BY <1>2, <1>3, SameQueueFor
    <3>2. QED
      BY <3>1 DEF EP!QueueFor, EP!edVars
  <2>1. i # j
    BY <1>7, ItemAssumption
  <2>2. CASE j = k
    BY <1>2, <1>3, <1>4, <1>6, <1>7, <2>0, <2>1, <2>2
  <2>3. CASE j # k
    <3>1. source'[j] = source[j]
      BY <1>2, <1>4, <2>3
    <3>2. i # k
      BY <1>5, <1>7, <2>0, <3>1
    <3>3. source'[i] = source[i]
      BY <1>2, <1>4, <3>2
    <3>4. QED
      BY <1>7, <2>0, <3>1, <3>3 DEF LastInv, Ascending
  <2>4. QED
    BY <2>2, <2>3
<1>8. QED
  BY <1>7 DEF Ascending

LEMMA InitLast == PublishingInit => LastInv
<1> SUFFICES ASSUME PublishingInit PROVE LastInv
  OBVIOUS
<1>1. EP!OInv /\ EP!SeqInv
  BY EnqueueInit, Assumed, EP!InitOInv, EP!InitSeq
<1>2. LockInv /\ OrderInv /\ BudgetInv /\ TurnsInv
  BY InitLockInv, InitOrder, InitBudget, InitTurns DEF PublishingInit
<1>3. Ascending
  BY DEF PublishingInit, Ascending
<1>4. QED
  BY <1>1, <1>2, <1>3, InitPair DEF LastInv

LEMMA StepLast == Ordered /\ LastInv /\ [PublishingNext]_allVars => LastInv'
<1> SUFFICES ASSUME Ordered, LastInv, [PublishingNext]_allVars PROVE LastInv'
  OBVIOUS
<1>1. PairInv'
  BY StepPair DEF LastInv
<1>2. EP!OInv' /\ EP!SeqInv'
  <2>1. CASE [EP!Next]_(EP!vars)
    BY <2>1, Assumed, EP!StepSeq DEF Ordered, LastInv
  <2>2. CASE EP!OnlyActive
    BY <2>2, Assumed, EP!ActiveOInv, EP!ActiveSeq DEF LastInv
  <2>3. QED
    BY <2>1, <2>2, EnqueueStep
<1>3. LockInv' /\ OrderInv' /\ BudgetInv' /\ TurnsInv'
  BY TransmitStep, NextLockInv, NextOrder, NextBudget, NextTurns DEF Ordered, LastInv
<1>4. Ascending'
  <2>0. overtaken \subseteq overtaken'
    <3>1. CASE [EP!Next]_(EP!vars)
      BY <3>1, Assumed, EP!OvertakenGrows
    <3>2. CASE EP!OnlyActive
      BY <3>2 DEF EP!OnlyActive, EP!edVars
    <3>3. QED
      BY <3>1, <3>2, EnqueueStep
  <2>1. CASE source' = source
    BY <2>0, <2>1 DEF LastInv, Ascending
  <2>2. CASE \E w \in EnqueueWorker : Queueing(w)
    BY <2>2, QueueingAscends
  <2>3. QED
    BY <2>1, <2>2 DEF PublishingNext, allVars, Enqueueing, QueueUnchanged, Transmitting
<1>5. QED
  BY <1>1, <1>2, <1>3, <1>4 DEF LastInv

\* A delivery of a version to a synchronous subscriber who has got a later one.
LEMMA OlderIsRetry ==
  ASSUME Ordered, LastInv, [PublishingNext]_allVars, NEW i \in Item, NEW j \in Item,
         Later(j, i), ~asyncSub[SubscriberOf[i]], sent[j] > 0, sent'[i] > sent[i],
         source[i] \notin overtaken
  PROVE  attempt[i] > 0
<1>1. source \in [Item -> Entry \cup {NoItem}]
  BY DEF LastInv, PairInv, Linked
<1>2. /\ source[i] \in Nat /\ source[j] \in Nat /\ source[i] < source[j] /\ source[j] # NoItem
      /\ SubscriberOf[i] = SubscriberOf[j]
  BY <1>1, EnqueueAssumption DEF Later, NoItem
<1>3. i < j
  <2>1. i \in Nat /\ j \in Nat /\ i # j
    BY <1>2, ItemAssumption
  <2>2. source[i] # NoItem
    BY DEF Later
  <2>3. ~(j < i)
    BY <1>2, <2>2 DEF LastInv, Ascending
  <2>4. QED
    BY <2>1, <2>3
<1>4. Same(i, j)
  BY <1>2 DEF Same, Ordered, OnePriority
<1>5. Reached(j)
  BY DEF LastInv, TurnsInv, EntryTurn, Reached
<1>6. Passed(i)
  BY <1>3, <1>4, <1>5 DEF LastInv, TurnsInv
<1>7. sent'[i] # sent[i]
  <2>1. TInv
    BY DEF LastInv, PairInv
  <2>2. sent[i] \in Nat
    BY <2>1 DEF TInv, TypeOK
  <2>3. QED
    BY <2>2
<1>8. PICK w \in Worker : pc[w] = "send" /\ cur[w] = i
  BY <1>7, TransmitStep, DeliveryStep DEF LastInv, PairInv
<1>9. QED
  BY <1>6, <1>8 DEF Passed

\* A synchronous subscriber that has got a correction or a kill gets an older version
\* after it only as a retry: the order in which versions are enqueued and the order in
\* which entries are delivered add up, so long as neither component runs twice over the
\* same entries, nothing is scheduled, the versions have one priority and the older one
\* was not inserted after the newer.
THEOREM NewestLast == Ordered => (PublishingSpec => OlderOnlyByRetry)
<1> SUFFICES ASSUME Ordered PROVE PublishingSpec => OlderOnlyByRetry
  OBVIOUS
<1> DEFINE Step ==
      \A i, j \in Item :
        Later(j, i) /\ ~asyncSub[SubscriberOf[i]] /\ sent[j] > 0 /\ sent'[i] > sent[i]
          => attempt[i] > 0 \/ source[i] \in overtaken
<1>1. LastInv /\ [PublishingNext]_allVars => LastInv'
  BY StepLast
<1>2. LastInv /\ [PublishingNext]_allVars => [Step]_allVars
  BY OlderIsRetry
<1>3. QED
  BY <1>1, <1>2, InitLast, PTL DEF PublishingSpec, OlderOnlyByRetry
=============================================================================
