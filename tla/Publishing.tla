----------------------------- MODULE Publishing -----------------------------
(***************************************************************************)
(* An article on its way to its subscribers: Enqueue makes the entries of  *)
(* publish_queue that Transmit delivers.  The two share that collection    *)
(* and the subscribers: the posted of Enqueue are the entries of Transmit  *)
(* that were made from the published entry, and a subscriber closed by a   *)
(* transmission error is queued nothing more.                              *)
(***************************************************************************)
EXTENDS Transmit

CONSTANTS
  Entry, Editor, Requests, Matches, KillToMatching,  \* see Enqueue
  EnqueueWorker,  \* its workers
  PostCap,        \* bound, see Enqueue
  EnqueueFaults   \* what may go wrong there

VARIABLES
  source,  \* [Item -> Entry or NoItem]: item_id and item_version of a queue entry
  archState, etag, qstate, op, scheduled, waiting, meant, lockOwner, enqueuePc, enqueueBatch,
  enqueueCur, targets, anyQueued, struck, edPc, request, original, number,
  overtaken  \* see Enqueue

enqueueVars == <<archState, etag, qstate, op, scheduled, waiting, meant, lockOwner, enqueuePc,
                 enqueueBatch, enqueueCur, targets, anyQueued, struck, edPc, request, original,
                 number, overtaken>>

\* The queue entries made from the published entry n for subscriber s.
Queue(n, s) == {i \in Item : source[i] = n /\ SubscriberOf[i] = s}

Enq == INSTANCE Enqueue WITH
  Worker <- EnqueueWorker, Faults <- EnqueueFaults,
  posted <- [n \in Entry |-> [s \in Subscriber |-> Cardinality(Queue(n, s))]],
  active <- {s \in Subscriber : active[s]},
  pc <- enqueuePc, batch <- enqueueBatch, cur <- enqueueCur

PublishingInit ==
  /\ Init /\ source = [i \in Item |-> NoItem]
  /\ Enq!Init

ASSUME EnqueueAssumption ==
  /\ Entry \subseteq Nat \ {0} /\ IsFiniteSet(Entry)
  /\ Matches \in [Enq!Op -> SUBSET Subscriber] /\ KillToMatching \in BOOLEAN
  /\ NoOne \notin EnqueueWorker /\ Crashed \notin EnqueueWorker
  /\ PostCap \in Nat \ {0}
  /\ Requests \subseteq Enq!Request /\ EnqueueFaults \subseteq Enq!FaultKinds

\* queue_transmission posts to publish_queue.
Queueing(w) ==
  \E i \in Item :
    /\ Post(i)
    /\ source' = [source EXCEPT ![i] = enqueueCur[w]]
    /\ Enq!QueueFor(w, SubscriberOf[i])

\* Every other step of one leaves the queue entries of the other as they are.
QueueUnchanged == UNCHANGED <<vars, source>>
Enqueueing == QueueUnchanged /\ Enq!Next
Transmitting ==
  /\ Next /\ \A i \in Item : state[i] = "absent" => state'[i] = "absent"
  /\ UNCHANGED <<source, enqueueVars>>

allVars == <<vars, source, enqueueVars>>

PublishingNext == (\E w \in EnqueueWorker : Queueing(w)) \/ Enqueueing \/ Transmitting

PublishingSpec == PublishingInit /\ [][PublishingNext]_allVars

\* The fairness of the two, an entry of publish_queue being posted by a fair worker.
PublishingFairness ==
  /\ Fairness
  /\ \A e \in Editor : WF_allVars(QueueUnchanged /\ Enq!EditorStep(e))
  /\ \A w \in EnqueueWorker : WF_allVars(Queueing(w) \/ (QueueUnchanged /\ Enq!WorkerStep(w)))
  /\ SF_allVars(QueueUnchanged /\ \E w \in EnqueueWorker : Enq!RunStart(w))
  /\ \A n \in Entry : WF_allVars(QueueUnchanged /\ Enq!ScheduleElapses(n))

FairPublishingSpec == PublishingSpec /\ PublishingFairness

-----------------------------------------------------------------------------
\* For one subscriber, the queue entry j is of a later version than i.
Later(j, i) == source[i] # NoItem /\ source[i] < source[j] /\ SubscriberOf[i] = SubscriberOf[j]

\* A synchronous subscriber that has got a correction or a kill gets an older version
\* after it only when its delivery failed before and is tried again, or when its entry
\* was inserted after the later one's.
OlderOnlyByRetry ==
  [][\A i, j \in Item :
       Later(j, i) /\ ~asyncSub[SubscriberOf[i]] /\ sent[j] > 0 /\ sent'[i] > sent[i]
         => attempt[i] > 0 \/ source[i] \in overtaken]_allVars

\* Once a correction or kill is queued, every active subscriber the article was delivered
\* to has a queue entry for it, unless all it got are versions inserted after later ones.
FollowUpsReachReaders ==
  \A n \in Entry : op[n] # "publish" /\ qstate[n] \in {"queued", "queued_not_transmitted"} =>
    \A i \in Item : /\ sent[i] > 0 /\ active[SubscriberOf[i]]
                    /\ source[i] < n /\ op[source[i]] # "kill" /\ source[i] \notin overtaken
                    => Queue(n, SubscriberOf[i]) # {}

\* Every version of the article that is published ends with every subscriber chosen for
\* it having got it or its delivery given up, or with an error on the published entry:
\* once requests stop (Entry is a bound on them) nothing is left over.
Done(n) ==
  \/ qstate[n] = "error"
  \/ /\ qstate[n] \in {"queued", "queued_not_transmitted"}
     /\ \A i \in Item : source[i] = n => state[i] \in {"success", "failed"}
EventuallyDone == []<>(\A n \in Entry : qstate[n] = "absent" \/ Done(n))
=============================================================================
