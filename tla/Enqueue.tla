------------------------------ MODULE Enqueue -------------------------------
(***************************************************************************)
(* From a publishing request to the publish_queue collection:              *)
(* the publish services of apps/publish/content write the article to the   *)
(* archive and post an entry to the published collection; EnqueueContent of*)
(* apps/publish/enqueue fans each pending entry out to subscribers, with   *)
(* the enqueue services choosing the subscribers.                          *)
(*                                                                         *)
(* The module follows one article.  Its entries in the published collection*)
(* are numbered by publish_sequence_no, which a request takes before it    *)
(* inserts the entry.  Editors are API requests, workers are celery        *)
(* processes; every database read or write is a step.                      *)
(***************************************************************************)
EXTENDS Naturals, FiniteSets

CONSTANTS
  Entry,          \* publish_sequence_no values the article may use (a bound)
  Subscriber,
  Worker,         \* celery worker processes
  Editor,         \* API requests in flight
  NoOne,          \* a lock nobody holds
  Crashed,        \* the owner of a lock whose process has died
  Requests,       \* the requests editors make, a subset of Request
  Matches,        \* [Op -> SUBSET Subscriber]: filter_subscribers for the article
  KillToMatching, \* UNPUBLISH_TO_MATCHING_SUBSCRIBERS
  PostCap,        \* bound: copies of one queue entry are counted up to here
  Faults          \* what may go wrong, see FaultKinds

\* search     elastic times out in a write to the published collection, after mongo
\* softlimit  celery raises SoftTimeLimitExceeded, once in a task
\* error      any other exception while an entry is handled
\* formatter  formatting for one subscriber fails, or its formatter is missing
\* crash      a worker process dies (the task is acknowledged early and is lost)
\* overrun    the lock (310 s) expires under a running task (600 s)
\* operator   a user switches a subscriber on or off
FaultKinds == {"search", "softlimit", "error", "formatter", "crash", "overrun", "operator"}

Request == {"publish", "schedule", "correct", "kill", "deschedule"}
Op == {"publish", "correct", "kill"}

ASSUME EntryAssumption == Entry \subseteq Nat \ {0} /\ IsFiniteSet(Entry)
ASSUME MatchAssumption == Matches \in [Op -> SUBSET Subscriber] /\ KillToMatching \in BOOLEAN
ASSUME OwnerAssumption == NoOne # Crashed /\ NoOne \notin Worker /\ Crashed \notin Worker
ASSUME BoundAssumption == PostCap \in Nat \ {0}
ASSUME InputAssumption == Requests \subseteq Request /\ Faults \subseteq FaultKinds

VARIABLES
  archState,  \* the state of the article in the archive collection
  etag,       \* its _etag, numbered
  qstate,     \* [Entry -> QState]: queue_state of the published entry
  op,         \* [Entry -> Op]: its operation
  scheduled,  \* SUBSET Entry: entries in state scheduled
  waiting,    \* SUBSET Entry: entries whose publish_schedule is still to come
  posted,     \* [Entry -> [Subscriber -> Nat]]: publish_queue entries made from it
  meant,      \* [Entry -> SUBSET Subscriber]: history, the last result of get_subscribers
  active,     \* SUBSET Subscriber: is_active
  lockOwner,  \* owner of the lock "enqueue_published"
  pc,         \* [Worker -> Point]
  batch,      \* [Worker -> SUBSET Entry]: items the loop has not reached
  cur,        \* [Worker -> Entry or NoEntry]: the entry enqueue_item works on
  targets,    \* [Worker -> SUBSET Subscriber]: subscribers the fan-out has not reached
  anyQueued,  \* [Worker -> BOOLEAN]: the local queued
  struck,     \* [Worker -> BOOLEAN]: the soft time limit was raised in the task
  edPc,       \* [Editor -> EdPoint]
  request,    \* [Editor -> Request]: what the editor asked for
  original,   \* [Editor -> [state, etag]]: the article as the request read it
  number,     \* [Editor -> Entry or NoEntry]: the publish_sequence_no it has taken
  overtaken   \* SUBSET Entry: history, entries inserted after one with a later number

archVars  == <<archState, etag>>
pubVars   == <<qstate, op, scheduled, waiting>>
queueVars == <<posted, meant>>
workVars  == <<batch, cur, targets, anyQueued, struck>>
edVars    == <<edPc, request, original, number, overtaken>>
vars == <<archState, etag, qstate, op, scheduled, waiting, posted, meant, active, lockOwner,
          pc, batch, cur, targets, anyQueued, struck, edPc, request, original,
          number, overtaken>>

-----------------------------------------------------------------------------
NoEntry == 0
ArchState == {"in_progress", "scheduled", "published", "corrected", "killed"}
QState == {"absent", "pending", "in_progress", "queued", "queued_not_transmitted", "error",
           "deleted"}

\* Points of enqueue_item, and of the command around it.
Handling == {"check", "flip", "mark", "targets", "fan", "finish"}
Point == {"idle", "list", "next"} \cup Handling
EdPoint == {"idle", "update", "number", "insert", "unpublish", "purge", "restore"}

Owner == Worker \cup {NoOne, Crashed}

Init ==
  /\ archState = "in_progress"
  /\ etag = 0
  /\ qstate = [n \in Entry |-> "absent"]
  /\ op = [n \in Entry |-> "publish"]
  /\ scheduled = {}
  /\ waiting = {}
  /\ posted = [n \in Entry |-> [s \in Subscriber |-> 0]]
  /\ meant = [n \in Entry |-> {}]
  /\ active = Subscriber
  /\ lockOwner = NoOne
  /\ pc = [w \in Worker |-> "idle"]
  /\ batch = [w \in Worker |-> {}]
  /\ cur = [w \in Worker |-> NoEntry]
  /\ targets = [w \in Worker |-> {}]
  /\ anyQueued = [w \in Worker |-> FALSE]
  /\ struck = [w \in Worker |-> FALSE]
  /\ edPc = [e \in Editor |-> "idle"]
  /\ request = [e \in Editor |-> "publish"]
  /\ original = [e \in Editor |-> [state |-> "in_progress", etag |-> 0]]
  /\ number = [e \in Editor |-> NoEntry]
  /\ overtaken = {}

-----------------------------------------------------------------------------
(* Editors: the publish services and the deschedule part of archive.update.*)

\* is_workflow_state_transition_valid; a scheduled article is published like a new one.
Allowed(r, state) ==
  CASE r \in {"publish", "schedule"} -> state \in {"in_progress", "scheduled"}
    [] r = "correct"                 -> state \in {"published", "corrected"}
    [] r = "kill"                    -> state \in {"published", "scheduled", "corrected"}
    [] r = "deschedule"              -> state = "scheduled"

\* The state the request writes: set_state, or the old one kept by preserve_state.
ResultState(r, state) ==
  CASE r = "publish"    -> IF state = "scheduled" THEN "scheduled" ELSE "published"
    [] r = "schedule"   -> "scheduled"
    [] r = "correct"    -> "corrected"
    [] r = "kill"       -> "killed"
    [] r = "deschedule" -> "in_progress"

OpOf(r) == IF r = "schedule" THEN "publish" ELSE r

\* The sequence numbers nobody has taken yet.
Unused == {n \in Entry : qstate[n] = "absent" /\ \A e \in Editor : number[e] # n}

EdGoto(e, point) == edPc' = [edPc EXCEPT ![e] = point]

\* The request reads the article, passes validation and starts writing.
Submit(e, r) ==
  /\ edPc[e] = "idle"
  /\ r \in Requests
  /\ Allowed(r, archState)
  /\ Cardinality(Unused) > Cardinality({d \in Editor : edPc[d] \notin {"idle", "insert"}})
  /\ EdGoto(e, IF r = "deschedule" THEN "unpublish" ELSE "update")
  /\ request' = [request EXCEPT ![e] = r]
  /\ original' = [original EXCEPT ![e] = [state |-> archState, etag |-> etag]]
  /\ UNCHANGED <<archVars, pubVars, queueVars, active, lockOwner, pc, workVars, number, overtaken>>

\* backend.update: matches the etag that was read; when the article has changed
\* since, nothing is written, the error is only logged and the request goes on.
WriteArchive(e) ==
  IF original[e].etag = etag
  THEN /\ archState' = ResultState(request[e], original[e].state)
       /\ etag' = etag + 1
  ELSE UNCHANGED archVars

UpdateArchive(e) ==
  /\ edPc[e] = "update"
  /\ WriteArchive(e)
  /\ EdGoto(e, "number")
  /\ UNCHANGED <<pubVars, queueVars, active, lockOwner, pc, workVars, request, original, number,
                 overtaken>>

\* on_create of the published entry: get_next_sequence_number.
IsLowest(n) == n \in Unused /\ \A m \in Unused : n <= m

TakeNumber(e, n) ==
  /\ edPc[e] = "number"
  /\ IsLowest(n)
  /\ number' = [number EXCEPT ![e] = n]
  /\ EdGoto(e, "insert")
  /\ UNCHANGED <<archVars, pubVars, queueVars, active, lockOwner, pc, workVars, request, original,
                 overtaken>>

\* update_published_collection inserts the entry, pending; other requests may have
\* inserted theirs, with later numbers, since the number was taken.
PostPublished(e, n) ==
  /\ edPc[e] = "insert"
  /\ n = number[e]
  /\ qstate' = [qstate EXCEPT ![n] = "pending"]
  /\ number' = [number EXCEPT ![e] = NoEntry]
  /\ overtaken' = IF \E m \in Entry : m > n /\ qstate[m] # "absent"
                  THEN overtaken \cup {n} ELSE overtaken
  /\ op' = [op EXCEPT ![n] = OpOf(request[e])]
  /\ IF ResultState(request[e], original[e].state) = "scheduled"
     THEN scheduled' = scheduled \cup {n} /\ waiting' = waiting \cup {n}
     ELSE UNCHANGED <<scheduled, waiting>>
  /\ EdGoto(e, "idle")
  /\ UNCHANGED <<archVars, queueVars, active, lockOwner, pc, workVars, request,
                 original>>

\* deschedule_item: delete_by_article_id removes the published entries ...
DeletePublished(e) ==
  /\ edPc[e] = "unpublish"
  /\ qstate' = [n \in Entry |-> IF qstate[n] = "absent" THEN "absent" ELSE "deleted"]
  /\ scheduled' = {}
  /\ waiting' = {}
  /\ EdGoto(e, "purge")
  /\ UNCHANGED <<archVars, op, queueVars, active, lockOwner, pc, workVars, request,
                 original, number, overtaken>>

\* ... and then the queue entries of the article.
DeleteQueue(e) ==
  /\ edPc[e] = "purge"
  /\ posted' = [n \in Entry |-> [s \in Subscriber |-> 0]]
  /\ EdGoto(e, "restore")
  /\ UNCHANGED <<archVars, pubVars, meant, active, lockOwner, pc, workVars, request, original,
                 number, overtaken>>

RestoreArchive(e) ==
  /\ edPc[e] = "restore"
  /\ WriteArchive(e)
  /\ EdGoto(e, "idle")
  /\ UNCHANGED <<pubVars, queueVars, active, lockOwner, pc, workVars, request, original, number,
                 overtaken>>

-----------------------------------------------------------------------------
(* EnqueueContent.run() and enqueue_items.                                 *)

Goto(w, point) == pc' = [pc EXCEPT ![w] = point]

FreeAlways(owner) == TRUE
Free(owner) == owner = NoOne

\* unlock(): deletes the lock document only if w owns it.
ReleasedNever(owner, w) == owner
Released(owner, w) == IF owner = w THEN NoOne ELSE owner

\* get_published_items: pending, and not scheduled or its time has come.
ListedUnscheduled == {n \in Entry : qstate[n] = "pending" /\ n \notin scheduled}
ListedEarly == {n \in Entry : qstate[n] = "pending"}
Listed == {n \in Entry : qstate[n] = "pending" /\ (n \in scheduled => n \notin waiting)}

RunStart(w) ==
  /\ pc[w] = "idle"
  /\ Free(lockOwner)
  /\ lockOwner' = w
  /\ Goto(w, "list")
  /\ UNCHANGED <<archVars, pubVars, queueVars, active, workVars, edVars>>

ListItems(w) ==
  /\ pc[w] = "list"
  /\ batch' = [batch EXCEPT ![w] = Listed]
  /\ Goto(w, "next")
  /\ UNCHANGED <<archVars, pubVars, queueVars, active, lockOwner, cur, targets, anyQueued,
                 struck, edVars>>

\* The items are sorted by publish_sequence_no.
IsNextReversed(w, n) == n \in batch[w] /\ \A m \in batch[w] : m <= n
IsNext(w, n) == n \in batch[w] /\ \A m \in batch[w] : n <= m

TakeItem(w, n) ==
  /\ pc[w] = "next"
  /\ IsNext(w, n)
  /\ batch' = [batch EXCEPT ![w] = @ \ {n}]
  /\ cur' = [cur EXCEPT ![w] = n]
  /\ Goto(w, "check")
  /\ UNCHANGED <<archVars, pubVars, queueVars, active, lockOwner, targets, anyQueued, struck,
                 edVars>>

\* The soft time limit is raised outside enqueue_item and ends the run.
RunAborts(w) ==
  /\ pc[w] = "list" \/ (pc[w] = "next" /\ batch[w] # {})
  /\ "softlimit" \in Faults /\ ~struck[w]
  /\ batch' = [batch EXCEPT ![w] = {}]
  /\ struck' = [struck EXCEPT ![w] = TRUE]
  /\ Goto(w, "next")
  /\ UNCHANGED <<archVars, pubVars, queueVars, active, lockOwner, cur, targets, anyQueued,
                 edVars>>

\* The task of w is over.
Forget(w) ==
  /\ Goto(w, "idle")
  /\ batch' = [batch EXCEPT ![w] = {}]
  /\ cur' = [cur EXCEPT ![w] = NoEntry]
  /\ targets' = [targets EXCEPT ![w] = {}]
  /\ anyQueued' = [anyQueued EXCEPT ![w] = FALSE]
  /\ struck' = [struck EXCEPT ![w] = FALSE]

RunEnd(w) ==
  /\ pc[w] = "next"
  /\ batch[w] = {}
  /\ lockOwner' = Released(lockOwner, w)
  /\ Forget(w)
  /\ UNCHANGED <<archVars, pubVars, queueVars, active, edVars>>

-----------------------------------------------------------------------------
(* enqueue_item.                                                           *)

\* enqueue_item returns or raises; enqueue_items catches and goes on.
EndItem(w) ==
  /\ Goto(w, "next")
  /\ cur' = [cur EXCEPT ![w] = NoEntry]
  /\ targets' = [targets EXCEPT ![w] = {}]
  /\ anyQueued' = [anyQueued EXCEPT ![w] = FALSE]

\* published_service.patch of the queue_state; an entry that is gone stays gone.
Patch(n, state) ==
  qstate' = IF qstate[n] = "deleted" THEN qstate ELSE [qstate EXCEPT ![n] = state]

\* The entry is read again; only a pending one goes on.
ProceedAlways(n) == qstate[n] # "deleted"
Proceed(n) == qstate[n] = "pending"

Check(w) ==
  /\ pc[w] = "check"
  /\ IF Proceed(cur[w])
     THEN /\ Goto(w, IF cur[w] \in scheduled THEN "flip" ELSE "mark")
          /\ UNCHANGED <<cur, targets, anyQueued>>
     ELSE EndItem(w)
  /\ UNCHANGED <<archVars, pubVars, queueVars, active, lockOwner, batch, struck, edVars>>

\* A scheduled item becomes published in the archive: system_update checks no etag
\* and leaves it as it is.
FlipArchive(w) ==
  /\ pc[w] = "flip"
  /\ archState' = "published"
  /\ Goto(w, "mark")
  /\ UNCHANGED <<etag, pubVars, queueVars, active, lockOwner, workVars, edVars>>

\* PUBLISH_STATE.IN_PROGRESS; publish_queue spells its own state with a hyphen.
InProgressHyphen == "in-progress"
InProgress == "in_progress"

\* The entry is marked in_progress, and published when it was scheduled.  The
\* patch of a deleted entry raises, and so does the one that would record that.
Mark(w) ==
  /\ pc[w] = "mark"
  /\ IF qstate[cur[w]] = "deleted"
     THEN /\ EndItem(w)
          /\ UNCHANGED <<qstate, scheduled>>
     ELSE /\ qstate' = [qstate EXCEPT ![cur[w]] = InProgress]
          /\ scheduled' = scheduled \ {cur[w]}
          /\ Goto(w, "targets")
          /\ UNCHANGED <<cur, targets, anyQueued>>
  /\ UNCHANGED <<archVars, op, waiting, queueVars, active, lockOwner, batch, struck, edVars>>

\* _get_subscribers_for_previously_sent_items: published or corrected queue entries.
ReceivedPublishOnly == {s \in active : \E n \in Entry : op[n] = "publish" /\ posted[n][s] > 0}
Received ==
  {s \in active : \E n \in Entry : op[n] \in {"publish", "correct"} /\ posted[n][s] > 0}

\* get_subscribers of the three enqueue services.
SubscribersFor(o) ==
  CASE o = "publish" -> active \cap Matches[o]
    [] o = "correct" -> IF Received = {} THEN {} ELSE Received \cup (active \cap Matches[o])
    [] o = "kill"    -> IF Received = {} /\ KillToMatching THEN active \cap Matches[o]
                        ELSE Received

GetSubscribers(w) ==
  LET found == SubscribersFor(op[cur[w]])
  IN /\ pc[w] = "targets"
     /\ targets' = [targets EXCEPT ![w] = found]
     /\ meant' = [meant EXCEPT ![cur[w]] = found]
     /\ Goto(w, "fan")
     /\ UNCHANGED <<archVars, pubVars, posted, active, lockOwner, batch, cur, anyQueued, struck,
                    edVars>>

\* queue_transmission: one publish_queue post for the next subscriber.
RemainingNone(w, s) == {}
Remaining(w, s) == targets[w] \ {s}

QueueFor(w, s) ==
  /\ pc[w] = "fan"
  /\ s \in targets[w]
  /\ posted' = [posted EXCEPT ![cur[w]][s] = IF @ < PostCap THEN @ + 1 ELSE @]
  /\ targets' = [targets EXCEPT ![w] = Remaining(w, s)]
  /\ anyQueued' = [anyQueued EXCEPT ![w] = TRUE]
  /\ UNCHANGED <<archVars, pubVars, meant, active, lockOwner, pc, batch, cur, struck, edVars>>

\* The exception handler around each subscriber swallows what is raised for it, the
\* soft time limit included.
SkipSubscriber(w, s) ==
  /\ pc[w] = "fan"
  /\ s \in targets[w]
  /\ \/ "formatter" \in Faults /\ struck' = struck
     \/ "softlimit" \in Faults /\ ~struck[w] /\ struck' = [struck EXCEPT ![w] = TRUE]
  /\ targets' = [targets EXCEPT ![w] = Remaining(w, s)]
  /\ UNCHANGED <<archVars, pubVars, queueVars, active, lockOwner, pc, batch, cur, anyQueued,
                 edVars>>

FanDone(w) ==
  /\ pc[w] = "fan"
  /\ targets[w] = {}
  /\ Goto(w, "finish")
  /\ UNCHANGED <<archVars, pubVars, queueVars, active, lockOwner, workVars, edVars>>

Finish(w) ==
  /\ pc[w] = "finish"
  /\ Patch(cur[w], IF anyQueued[w] THEN "queued" ELSE "queued_not_transmitted")
  /\ EndItem(w)
  /\ UNCHANGED <<archVars, op, scheduled, waiting, queueVars, active, lockOwner, batch, struck,
                 edVars>>

\* ConnectionTimeout or SoftTimeLimitExceeded: back to pending, for the next run.  At
\* "targets" it is the patch to in_progress that raises, after its mongo write.
HandleTimeout(w) ==
  /\ pc[w] \in {"check", "flip", "mark", "targets", "finish"}
  /\ \/ "search" \in Faults /\ struck' = struck
     \/ "softlimit" \in Faults /\ ~struck[w] /\ struck' = [struck EXCEPT ![w] = TRUE]
  /\ Patch(cur[w], "pending")
  /\ EndItem(w)
  /\ UNCHANGED <<archVars, op, scheduled, waiting, queueVars, active, lockOwner, batch, edVars>>

\* Any other exception; at "targets" the enqueue service turns timeouts into one too.
HandleError(w) ==
  /\ pc[w] \in {"check", "flip", "mark", "targets", "finish"}
  /\ \/ "error" \in Faults /\ struck' = struck
     \/ /\ pc[w] = "targets"
        /\ "softlimit" \in Faults /\ ~struck[w] /\ struck' = [struck EXCEPT ![w] = TRUE]
  /\ Patch(cur[w], "error")
  /\ EndItem(w)
  /\ UNCHANGED <<archVars, op, scheduled, waiting, queueVars, active, lockOwner, batch, edVars>>

-----------------------------------------------------------------------------
(* The surroundings.                                                       *)

ScheduleElapses(n) ==
  /\ n \in waiting
  /\ waiting' = waiting \ {n}
  /\ UNCHANGED <<archVars, qstate, op, scheduled, queueVars, active, lockOwner, pc, workVars,
                 edVars>>

Crash(w) ==
  /\ "crash" \in Faults
  /\ pc[w] # "idle"
  /\ lockOwner' = IF lockOwner = w THEN Crashed ELSE lockOwner
  /\ Forget(w)
  /\ UNCHANGED <<archVars, pubVars, queueVars, active, edVars>>

\* The lock expires: its owner is dead or, under "overrun", has run past 310 seconds.
LockExpires ==
  /\ lockOwner = Crashed \/ (lockOwner # NoOne /\ "overrun" \in Faults)
  /\ lockOwner' = NoOne
  /\ UNCHANGED <<archVars, pubVars, queueVars, active, pc, workVars, edVars>>

SwitchSubscriber(s) ==
  /\ "operator" \in Faults
  /\ active' = IF s \in active THEN active \ {s} ELSE active \cup {s}
  /\ UNCHANGED <<archVars, pubVars, queueVars, lockOwner, pc, workVars, edVars>>

-----------------------------------------------------------------------------
EditorStep(e) ==
  \/ UpdateArchive(e) \/ DeletePublished(e) \/ DeleteQueue(e) \/ RestoreArchive(e)
  \/ \E n \in Entry : TakeNumber(e, n) \/ PostPublished(e, n)

WorkerStep(w) ==
  \/ ListItems(w) \/ RunAborts(w) \/ RunEnd(w)
  \/ \E n \in Entry : TakeItem(w, n)
  \/ Check(w) \/ FlipArchive(w) \/ Mark(w) \/ GetSubscribers(w) \/ FanDone(w) \/ Finish(w)
  \/ \E s \in Subscriber : QueueFor(w, s) \/ SkipSubscriber(w, s)
  \/ HandleTimeout(w) \/ HandleError(w)

Environment ==
  \/ \E e \in Editor : \E r \in Request : Submit(e, r)
  \/ \E n \in Entry : ScheduleElapses(n)
  \/ \E w \in Worker : Crash(w)
  \/ LockExpires
  \/ \E s \in Subscriber : SwitchSubscriber(s)

Next ==
  \/ \E e \in Editor : EditorStep(e)
  \/ \E w \in Worker : RunStart(w) \/ WorkerStep(w)
  \/ Environment

Spec == Init /\ [][Next]_vars

\* Running tasks and requests make progress, the beat keeps starting the command,
\* and schedules elapse.
Fairness ==
  /\ \A e \in Editor : WF_vars(EditorStep(e))
  /\ \A w \in Worker : WF_vars(WorkerStep(w))
  /\ SF_vars(\E w \in Worker : RunStart(w))
  /\ \A n \in Entry : WF_vars(ScheduleElapses(n))

FairSpec == Spec /\ Fairness

-----------------------------------------------------------------------------
(* Correctness properties.                                                 *)

\* Every variable keeps its type.
TypeOK ==
  /\ archState \in ArchState
  /\ etag \in Nat
  /\ qstate \in [Entry -> QState]
  /\ op \in [Entry -> Op]
  /\ scheduled \subseteq Entry
  /\ waiting \subseteq Entry
  /\ posted \in [Entry -> [Subscriber -> 0..PostCap]]
  /\ meant \in [Entry -> SUBSET Subscriber]
  /\ active \subseteq Subscriber
  /\ lockOwner \in Owner
  /\ pc \in [Worker -> Point]
  /\ batch \in [Worker -> SUBSET Entry]
  /\ cur \in [Worker -> Entry \cup {NoEntry}]
  /\ targets \in [Worker -> SUBSET Subscriber]
  /\ anyQueued \in [Worker -> BOOLEAN]
  /\ struck \in [Worker -> BOOLEAN]
  /\ edPc \in [Editor -> EdPoint]
  /\ request \in [Editor -> Request]
  /\ original \in [Editor -> [state : ArchState, etag : Nat]]
  /\ number \in [Editor -> Entry \cup {NoEntry}]
  /\ overtaken \subseteq Entry

\* While no write times out and the lock outlives its task, an entry is queued at
\* most once for a subscriber, whatever the number of workers, however often the
\* command is started and wherever a worker dies.
QueuedOnce == \A n \in Entry : \A s \in Subscriber : posted[n][s] <= 1

\* An entry called queued has been queued for every subscriber chosen for it, even
\* when its handling was interrupted and repeated.
QueuedForAll ==
  \A n \in Entry : qstate[n] = "queued" => \A s \in meant[n] : posted[n][s] > 0

\* A correction or kill that has been enqueued was queued for every active
\* subscriber to whom an earlier version of the article was, unless that version is one
\* whose entry was inserted after later ones: two requests may insert their entries in
\* the other order than they took their numbers.
FollowUpsReachReceivers ==
  \A n \in Entry :
    op[n] # "publish" /\ qstate[n] \in {"queued", "queued_not_transmitted"} =>
      \A s \in active :
        (\E m \in Entry \ overtaken : m < n /\ op[m] # "kill" /\ posted[m][s] > 0)
          => posted[n][s] > 0

\* Nothing of a scheduled entry is queued before its time has come.
NothingEarly ==
  \A n \in Entry : n \in waiting => \A s \in Subscriber : posted[n][s] = 0

\* A subscriber is queued the versions of an article in the order of publication, but
\* for a version whose entry was inserted after later ones.
Sequential ==
  \A n \in Entry \ overtaken : \A s \in Subscriber :
    posted'[n][s] > posted[n][s] => \A m \in Entry : m > n => posted[m][s] = 0
InSequence == [][Sequential]_vars

\* The workflow knows no action that publishes a killed article; broken when the
\* schedule of an article killed while it was scheduled elapses.
KillIsFinal == [][archState = "killed" => archState' = "killed"]_vars

\* From some time on no task runs into its soft time limit.
LimitsCease == <>[][\A w \in Worker : struck'[w] => struck[w]]_vars

\* Every entry whose time has come is eventually enqueued or reported as an error,
\* also when tasks run into their time limit, unless they do so again and again.
EventuallyEnqueued ==
  LimitsCease => \A n \in Entry :
    qstate[n] = "pending" ~>
      qstate[n] \in {"queued", "queued_not_transmitted", "error", "deleted"}
=============================================================================
