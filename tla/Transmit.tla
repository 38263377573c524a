------------------------------ MODULE Transmit ------------------------------
(***************************************************************************)
(* Delivery of the publish_queue collection to subscribers:                *)
(* superdesk/publish/publish_content.py (publish, transmit_subscriber_items*)
(* and transmit_item) with the transmitter base class of                   *)
(* superdesk/publish/publish_service.py.                                   *)
(*                                                                         *)
(* Workers are celery processes; each runs one task at a time.  A worker   *)
(* is idle or stands at one of the program points named by pc, and every   *)
(* database read or write of the code is a step of its own, so that other  *)
(* workers, the beat and operators interleave with it.                     *)
(*                                                                         *)
(* Items are numbered in the order in which their queue entries are        *)
(* created, which is the order of the code's sort on _created and          *)
(* published_seq_num.                                                      *)
(***************************************************************************)
EXTENDS Naturals, FiniteSets

CONSTANTS
  Item,          \* entries of publish_queue, numbered by creation time
  Subscriber,
  SubscriberOf,  \* the subscriber_id of an entry
  AsyncAtStart,  \* the sets of subscribers whose async flag may be set initially
  HighPriority,  \* the entries created with priority True
  Direct,        \* the entries whose destination is the content API
  Worker,        \* celery worker processes
  NoOne,         \* a lock nobody holds
  Crashed,       \* the owner of a lock whose process has died
  MaxRetry,      \* MAX_TRANSMIT_RETRY_ATTEMPT
  QueryLimit,    \* MAX_TRANSMIT_QUERY_LIMIT
  MaxCopies,     \* bound: copies of one message waiting in the broker
  SentCap,       \* bound: the count of deliveries saturates here
  Faults         \* what may go wrong, see FaultKinds

\* publish     a transmitter raises a SuperdeskPublishError
\* client      a transmitter raises PublishHTTPPushClientError (not retried)
\* critical    a publish error whose code closes the subscriber
\* other       a transmitter raises something else (socket error, KeyError)
\* ack         the error is raised although the content has reached the receiver
\* db          a database call raises
\* timeout     celery raises SoftTimeLimitExceeded inside a task
\* crash       a worker process dies (tasks are acknowledged early: its task is lost)
\* overrun     a lock expires while its owner still runs
\* operator    PATCH /publish_queue and PATCH /subscribers (is_active) by a user
\* reconfigure a user flips the async flag of a subscriber
FaultKinds == {"publish", "client", "critical", "other", "ack", "db", "timeout",
               "crash", "overrun", "operator", "reconfigure"}

ASSUME ItemAssumption == Item \subseteq Nat \ {0} /\ IsFiniteSet(Item)
ASSUME SubscriberAssumption ==
  SubscriberOf \in [Item -> Subscriber] /\ AsyncAtStart \subseteq SUBSET Subscriber
ASSUME PriorityAssumption == HighPriority \subseteq Item /\ Direct \subseteq Item
ASSUME OwnerAssumption == NoOne # Crashed /\ NoOne \notin Worker /\ Crashed \notin Worker
ASSUME BoundAssumption ==
  MaxRetry \in Nat /\ QueryLimit \in Nat /\ MaxCopies \in Nat \ {0} /\ SentCap \in Nat
ASSUME FaultAssumption == Faults \subseteq FaultKinds

VARIABLES
  state,         \* [Item -> QueueState]: the state field of the entry
  attempt,       \* [Item -> Nat]: retry_attempt
  due,           \* [Item -> BOOLEAN]: next_retry_attempt_at has passed
  sent,          \* [Item -> Nat]: history, how often the receiver got the content
  active,        \* [Subscriber -> BOOLEAN]: is_active
  asyncSub,      \* [Subscriber -> BOOLEAN]: the async flag
  articlesLock,  \* owner of the lock "Transmit-Articles"
  subLock,       \* [Subscriber -> owner]: "Subscriber-Transmit-<id>"
  itemLock,      \* [Item -> owner]: "Transmit-<id>"
  subMsgs,       \* [SubMsg -> Nat]: waiting transmit_subscriber_items messages
  itemMsgs,      \* [Item -> Nat]: waiting transmit_item messages
  pc,            \* [Worker -> Point]: where the worker's task stands
  phase,         \* [Worker -> 0..5]: publish(): the (priority, retries) pair it is at
  job,           \* [Worker -> SubMsg or NoJob]: arguments of transmit_subscriber_items
  isAsync,       \* [Worker -> BOOLEAN]: the local is_async of its task
  batch,         \* [Worker -> SUBSET Item]: queue_items not yet iterated over
  cur,           \* [Worker -> Item or NoItem]: the entry transmit_item works on
  err,           \* [Worker -> {"none", "client", "timeout"}]: class of the caught exception
  seen           \* [Worker -> Nat]: retry_attempt as the exception handler read it

queueVars  == <<state, attempt, due, sent>>
subVars    == <<active, asyncSub>>
lockVars   == <<articlesLock, subLock, itemLock>>
celeryVars == <<subMsgs, itemMsgs>>
localVars  == <<phase, job, isAsync, batch, cur, err, seen>>
vars == <<state, attempt, due, sent, active, asyncSub, articlesLock, subLock, itemLock,
          subMsgs, itemMsgs, pc, phase, job, isAsync, batch, cur, err, seen>>

-----------------------------------------------------------------------------
NoItem == 0
SubMsg == [sub : Subscriber, retries : BOOLEAN, priority : BOOLEAN]
NoJob  == [sub |-> NoOne, retries |-> FALSE, priority |-> FALSE]

\* "absent" stands for an entry the enqueue service has not posted yet.
QueueState == {"absent", "pending", "in-progress", "retrying", "success", "canceled",
               "error", "failed"}

\* Points of transmit_item between its lock and its return.
Working == {"read", "mark", "send", "record", "mark_error", "fail", "reschedule"}
\* Points of transmit_subscriber_items while it holds the subscriber's lock.
Batching == {"fetch", "next"}
Point == {"idle", "dispatch"} \cup Working \cup Batching

Owner == Worker \cup {NoOne, Crashed}

Init ==
  /\ state = [i \in Item |-> "absent"]
  /\ attempt = [i \in Item |-> 0]
  /\ due = [i \in Item |-> FALSE]
  /\ sent = [i \in Item |-> 0]
  /\ active = [s \in Subscriber |-> TRUE]
  /\ asyncSub \in {[s \in Subscriber |-> s \in A] : A \in AsyncAtStart}
  /\ articlesLock = NoOne
  /\ subLock = [s \in Subscriber |-> NoOne]
  /\ itemLock = [i \in Item |-> NoOne]
  /\ subMsgs = [m \in SubMsg |-> 0]
  /\ itemMsgs = [i \in Item |-> 0]
  /\ pc = [w \in Worker |-> "idle"]
  /\ phase = [w \in Worker |-> 0]
  /\ job = [w \in Worker |-> NoJob]
  /\ isAsync = [w \in Worker |-> FALSE]
  /\ batch = [w \in Worker |-> {}]
  /\ cur = [w \in Worker |-> NoItem]
  /\ err = [w \in Worker |-> "none"]
  /\ seen = [w \in Worker |-> 0]

-----------------------------------------------------------------------------
(* Helpers.                                                                *)

Goto(w, point) == pc' = [pc EXCEPT ![w] = point]

\* The task of w ends and its locals are gone.
Idle(w) ==
  /\ Goto(w, "idle")
  /\ phase' = [phase EXCEPT ![w] = 0]
  /\ job' = [job EXCEPT ![w] = NoJob]
  /\ isAsync' = [isAsync EXCEPT ![w] = FALSE]
  /\ batch' = [batch EXCEPT ![w] = {}]
  /\ cur' = [cur EXCEPT ![w] = NoItem]
  /\ err' = [err EXCEPT ![w] = "none"]
  /\ seen' = [seen EXCEPT ![w] = 0]

\* lock(): succeeds when the lock document is missing or expired.
FreeAlways(owner) == TRUE
Free(owner) == owner = NoOne

\* unlock(): deletes the lock document only if w owns it.
ReleasedNever(owner, w) == owner
Released(owner, w) == IF owner = w THEN NoOne ELSE owner

\* One more message, up to the bound on copies.
OneMore(n) == IF n < MaxCopies THEN n + 1 ELSE n

\* _get_queue_lookup: entries of subscriber s a task with these arguments looks for.
EligibleUndue(s, retries, priority) ==
  {i \in Item : /\ SubscriberOf[i] = s
                /\ (i \in HighPriority) = priority
                /\ state[i] = IF retries THEN "retrying" ELSE "pending"}
Eligible(s, retries, priority) ==
  {i \in Item : /\ SubscriberOf[i] = s
                /\ (i \in HighPriority) = priority
                /\ IF retries THEN state[i] = "retrying" /\ due[i] ELSE state[i] = "pending"}

\* The first QueryLimit entries of S in creation order.
First(S) == {i \in S : Cardinality({j \in S : j < i}) < QueryLimit}

\* The next entry of the worker's batch in creation order.
IsNextReversed(w, i) == i \in batch[w] /\ \A j \in batch[w] : j <= i
IsNext(w, i) == i \in batch[w] /\ \A j \in batch[w] : i <= j

\* transmit_item goes on only with an entry in one of these states.
SendableAny(i) == state[i] # "canceled"
Sendable(i) == state[i] \in {"pending", "retrying"}

\* What the exception handler writes to entry i, whose retry_attempt it read as n.
MayRetry(n, class) == n < MaxRetry /\ class # "client"
GiveUp(i) ==
  /\ state' = [state EXCEPT ![i] = "failed"]
  /\ UNCHANGED <<attempt, due>>
Retry(i, n) ==
  /\ state' = [state EXCEPT ![i] = "retrying"]
  /\ attempt' = [attempt EXCEPT ![i] = n]
  /\ due' = [due EXCEPT ![i] = FALSE]
RescheduleOnceMore(i, n, class) ==
  IF n <= MaxRetry /\ class # "client" THEN Retry(i, n + 1) ELSE GiveUp(i)
RescheduleForgets(i, n, class) == IF MayRetry(n, class) THEN Retry(i, n) ELSE GiveUp(i)
RescheduleNoElse(i, n, class) ==
  IF MayRetry(n, class) THEN Retry(i, n + 1) ELSE UNCHANGED <<state, attempt, due>>
Reschedule(i, n, class) == IF MayRetry(n, class) THEN Retry(i, n + 1) ELSE GiveUp(i)

\* The loops of publish(): top priority first, pending entries before retries.
PhasePriority(p) == p \in {1, 2}
PhaseRetries(p) == p \in {2, 4}

-----------------------------------------------------------------------------
(* publish(): the task the beat starts every ten seconds.                  *)

\* Take the lock; a second publish() that finds it taken returns at once.
PublishStart(w) ==
  /\ pc[w] = "idle"
  /\ Free(articlesLock)
  /\ articlesLock' = w
  /\ Goto(w, "dispatch")
  /\ phase' = [phase EXCEPT ![w] = 1]
  /\ UNCHANGED <<queueVars, subVars, subLock, itemLock, celeryVars,
                 job, isAsync, batch, cur, err, seen>>

\* One (priority, retries) pair: a message for every subscriber with matching
\* entries whose lock is not taken.
DispatchPhase(w) ==
  LET priority == PhasePriority(phase[w])
      retries  == PhaseRetries(phase[w])
      Called(m) == /\ m.priority = priority /\ m.retries = retries
                   /\ Eligible(m.sub, retries, priority) # {}
                   /\ subLock[m.sub] = NoOne
  IN /\ pc[w] = "dispatch"
     /\ phase[w] \in 1..4
     /\ subMsgs' = [m \in SubMsg |-> IF Called(m) THEN OneMore(subMsgs[m]) ELSE subMsgs[m]]
     /\ phase' = [phase EXCEPT ![w] = @ + 1]
     /\ UNCHANGED <<queueVars, subVars, lockVars, itemMsgs,
                    pc, job, isAsync, batch, cur, err, seen>>

\* finally: unlock, after the last pair or after an exception in any of them.
PublishEnd(w) ==
  /\ pc[w] = "dispatch"
  /\ phase[w] = 5 \/ Faults \cap {"db", "timeout"} # {}
  /\ articlesLock' = Released(articlesLock, w)
  /\ Idle(w)
  /\ UNCHANGED <<queueVars, subVars, subLock, itemLock, celeryVars>>

-----------------------------------------------------------------------------
(* transmit_subscriber_items(subscriber, retries, priority).               *)

\* The worker picks the message up, reads the subscriber's async flag and takes
\* the subscriber's lock.
SubTake(w, m) ==
  /\ pc[w] = "idle"
  /\ subMsgs[m] > 0
  /\ Free(subLock[m.sub])
  /\ subMsgs' = [subMsgs EXCEPT ![m] = @ - 1]
  /\ subLock' = [subLock EXCEPT ![m.sub] = w]
  /\ job' = [job EXCEPT ![w] = m]
  /\ isAsync' = [isAsync EXCEPT ![w] = asyncSub[m.sub]]
  /\ Goto(w, "fetch")
  /\ UNCHANGED <<queueVars, subVars, articlesLock, itemLock, itemMsgs,
                 phase, batch, cur, err, seen>>

\* The message has no effect: it is older than its expires=10, or the worker that
\* picks it up finds the subscriber's lock taken and returns.
SubDrop(m) ==
  /\ subMsgs[m] > 0
  /\ subMsgs' = [subMsgs EXCEPT ![m] = @ - 1]
  /\ UNCHANGED <<queueVars, subVars, lockVars, itemMsgs, pc, localVars>>

\* get_queue_items: read once, iterated over below.
Fetch(w) ==
  /\ pc[w] = "fetch"
  /\ batch' = [batch EXCEPT
                 ![w] = First(Eligible(job[w].sub, job[w].retries, job[w].priority))]
  /\ Goto(w, "next")
  /\ UNCHANGED <<queueVars, subVars, lockVars, celeryVars, phase, job, isAsync, cur, err, seen>>

\* An async subscriber: each entry becomes a task of its own.
NextAsync(w, i) ==
  /\ pc[w] = "next"
  /\ isAsync[w]
  /\ IsNext(w, i)
  /\ itemMsgs' = [itemMsgs EXCEPT ![i] = OneMore(@)]
  /\ batch' = [batch EXCEPT ![w] = @ \ {i}]
  /\ UNCHANGED <<queueVars, subVars, lockVars, subMsgs, pc, phase, job, isAsync, cur, err, seen>>

\* A sync subscriber: transmit_item runs inline, without the item's lock.
NextSync(w, i) ==
  /\ pc[w] = "next"
  /\ ~isAsync[w]
  /\ IsNext(w, i)
  /\ cur' = [cur EXCEPT ![w] = i]
  /\ batch' = [batch EXCEPT ![w] = @ \ {i}]
  /\ Goto(w, "read")
  /\ UNCHANGED <<queueVars, subVars, lockVars, celeryVars, phase, job, isAsync, err, seen>>

\* An exception outside transmit_item ends the loop.
BatchAbort(w) ==
  /\ pc[w] = "fetch" \/ (pc[w] = "next" /\ batch[w] # {})
  /\ Faults \cap {"db", "timeout"} # {}
  /\ batch' = [batch EXCEPT ![w] = {}]
  /\ Goto(w, "next")
  /\ UNCHANGED <<queueVars, subVars, lockVars, celeryVars, phase, job, isAsync, cur, err, seen>>

\* finally: unlock, when the loop is through, broken or aborted.
SubRelease(w) ==
  /\ pc[w] = "next"
  /\ batch[w] = {}
  /\ subLock' = [subLock EXCEPT ![job[w].sub] = Released(@, w)]
  /\ Idle(w)
  /\ UNCHANGED <<queueVars, subVars, articlesLock, itemLock, celeryVars>>

-----------------------------------------------------------------------------
(* transmit_item(queue_item_id, is_async).                                 *)

\* The worker picks the message up and takes the entry's lock.
ItemTake(w, i) ==
  /\ pc[w] = "idle"
  /\ itemMsgs[i] > 0
  /\ Free(itemLock[i])
  /\ itemMsgs' = [itemMsgs EXCEPT ![i] = @ - 1]
  /\ itemLock' = [itemLock EXCEPT ![i] = w]
  /\ cur' = [cur EXCEPT ![w] = i]
  /\ isAsync' = [isAsync EXCEPT ![w] = TRUE]
  /\ Goto(w, "read")
  /\ UNCHANGED <<queueVars, subVars, articlesLock, subLock, subMsgs,
                 phase, job, batch, err, seen>>

\* The lock is taken: transmit_item returns and the message is gone.
ItemDrop(i) ==
  /\ itemMsgs[i] > 0
  /\ itemLock[i] # NoOne
  /\ itemMsgs' = [itemMsgs EXCEPT ![i] = @ - 1]
  /\ UNCHANGED <<queueVars, subVars, lockVars, subMsgs, pc, localVars>>

\* transmit_item is over.  An async task releases the item's lock and ends; an
\* inline call returns to the loop, which breaks unless the call returned True.
EndAttempt(w, ok) ==
  IF isAsync[w]
  THEN /\ itemLock' = [itemLock EXCEPT ![cur[w]] = Released(@, w)]
       /\ Idle(w)
  ELSE /\ itemLock' = itemLock
       /\ Goto(w, "next")
       /\ batch' = IF ok THEN batch ELSE [batch EXCEPT ![w] = {}]
       /\ cur' = [cur EXCEPT ![w] = NoItem]
       /\ err' = [err EXCEPT ![w] = "none"]
       /\ seen' = [seen EXCEPT ![w] = 0]
       /\ UNCHANGED <<phase, job, isAsync>>

\* The exception reaches the handler of transmit_item.
Raise(w, class) ==
  /\ err' = [err EXCEPT ![w] = class]
  /\ Goto(w, "fail")
  /\ UNCHANGED <<phase, job, isAsync, batch, cur, seen>>

Read(w) ==
  /\ pc[w] = "read"
  /\ Sendable(cur[w])
  /\ Goto(w, "mark")
  /\ UNCHANGED <<queueVars, subVars, lockVars, celeryVars, localVars>>

\* Not pending or retrying any more, or the read raises: in the handler log_msg
\* is then unbound, so the entry's state is left alone.
ReadRejects(w) ==
  /\ pc[w] = "read"
  /\ \/ ~Sendable(cur[w])
     \/ Faults \cap {"db", "timeout"} # {}
  /\ EndAttempt(w, FALSE)
  /\ UNCHANGED <<queueVars, subVars, articlesLock, subLock, celeryVars>>

Mark(w) ==
  /\ pc[w] = "mark"
  /\ state' = [state EXCEPT ![cur[w]] = "in-progress"]
  /\ Goto(w, "send")
  /\ UNCHANGED <<attempt, due, sent, subVars, lockVars, celeryVars, localVars>>

MarkFails(w) ==
  /\ pc[w] = "mark"
  /\ "db" \in Faults
  /\ Raise(w, "none")
  /\ UNCHANGED <<queueVars, subVars, lockVars, celeryVars>>

\* The worker is about to hand its entry to the transmitter of its destination.
Sending(w) == pc[w] = "send" /\ cur[w] \notin Direct

\* PublishServiceBase.transmit: an inactive subscriber is refused before the try.
SendInactive(w) ==
  /\ Sending(w)
  /\ ~active[SubscriberOf[cur[w]]]
  /\ Raise(w, "none")
  /\ UNCHANGED <<queueVars, subVars, lockVars, celeryVars>>

Count(i) == [sent EXCEPT ![i] = IF @ < SentCap THEN @ + 1 ELSE @]

Send(w) ==
  /\ Sending(w)
  /\ active[SubscriberOf[cur[w]]]
  /\ sent' = Count(cur[w])
  /\ Goto(w, "record")
  /\ UNCHANGED <<state, attempt, due, subVars, lockVars, celeryVars, localVars>>

\* The receiver may have got the content although the transmitter reports a failure.
MaybeDelivered(w) ==
  \/ sent' = sent
  \/ "ack" \in Faults /\ sent' = Count(cur[w])

\* _transmit raises a SuperdeskPublishError.
SendErrorSwallowed(w, class) ==
  /\ Sending(w)
  /\ active[SubscriberOf[cur[w]]]
  /\ "publish" \in Faults
  /\ Goto(w, "record")
  /\ UNCHANGED <<queueVars, subVars, lockVars, celeryVars, localVars>>
SendPublishError(w, class) ==
  /\ Sending(w)
  /\ active[SubscriberOf[cur[w]]]
  /\ \/ class = "none" /\ "publish" \in Faults
     \/ class = "client" /\ "client" \in Faults
  /\ MaybeDelivered(w)
  /\ err' = [err EXCEPT ![w] = class]
  /\ Goto(w, "mark_error")
  /\ UNCHANGED <<state, attempt, due, subVars, lockVars, celeryVars,
                 phase, job, isAsync, batch, cur, seen>>

\* _transmit raises anything else, or no transmitter is registered, as for the content
\* API: the entry stays in-progress until the handler.
SendOtherError(w) ==
  /\ pc[w] = "send"
  /\ cur[w] \in Direct \/ "other" \in Faults
  /\ IF Sending(w) THEN MaybeDelivered(w) ELSE sent' = sent
  /\ Raise(w, "none")
  /\ UNCHANGED <<state, attempt, due, subVars, lockVars, celeryVars>>

\* update_item_status(queue_item, "success"), and transmit_item returns True.
Record(w) ==
  /\ pc[w] = "record"
  /\ state' = [state EXCEPT ![cur[w]] = "success"]
  /\ EndAttempt(w, TRUE)
  /\ UNCHANGED <<attempt, due, sent, subVars, articlesLock, subLock, celeryVars>>

\* It raises PublishQueueError, itself a SuperdeskPublishError.
RecordFails(w) ==
  /\ pc[w] = "record"
  /\ "db" \in Faults
  /\ Goto(w, "mark_error")
  /\ UNCHANGED <<queueVars, subVars, lockVars, celeryVars, localVars>>

\* update_item_status(queue_item, "error"), then close_transmitter.
MarkError(w) ==
  /\ pc[w] = "mark_error"
  /\ state' = [state EXCEPT ![cur[w]] = "error"]
  /\ \/ active' = active
     \/ "critical" \in Faults /\ active' = [active EXCEPT ![SubscriberOf[cur[w]]] = FALSE]
  /\ Goto(w, "fail")
  /\ UNCHANGED <<attempt, due, sent, asyncSub, lockVars, celeryVars, localVars>>

\* Either of the two raises: the new exception hides the class of the first one.
MarkErrorFails(w) ==
  /\ pc[w] = "mark_error"
  /\ "db" \in Faults
  /\ state' \in {state, [state EXCEPT ![cur[w]] = "error"]}
  /\ Raise(w, "none")
  /\ UNCHANGED <<attempt, due, sent, subVars, lockVars, celeryVars>>

\* celery raises SoftTimeLimitExceeded somewhere in the try block, in particular
\* between the success update and the return.
SoftTimeout(w) ==
  /\ pc[w] \in {"mark", "send", "record", "mark_error"}
  /\ "timeout" \in Faults
  /\ \/ state' = state
     \/ pc[w] = "record" /\ state' = [state EXCEPT ![cur[w]] = "success"]
  /\ Raise(w, "timeout")
  /\ UNCHANGED <<attempt, due, sent, subVars, lockVars, celeryVars>>

\* The exception handler reads the entry again ...
HandlerRead(w) ==
  /\ pc[w] = "fail"
  /\ seen' = [seen EXCEPT ![w] = attempt[cur[w]]]
  /\ Goto(w, "reschedule")
  /\ UNCHANGED <<queueVars, subVars, lockVars, celeryVars,
                 phase, job, isAsync, batch, cur, err>>

\* ... and schedules a retry or gives up; then it raises.
HandlerWrite(w) ==
  /\ pc[w] = "reschedule"
  /\ Reschedule(cur[w], seen[w], err[w])
  /\ EndAttempt(w, FALSE)
  /\ UNCHANGED <<sent, subVars, articlesLock, subLock, celeryVars>>

\* An exception in the handler is only logged.  The soft limit fires once per task.
HandlerFails(w) ==
  /\ pc[w] \in {"fail", "reschedule"}
  /\ "db" \in Faults \/ ("timeout" \in Faults /\ err[w] # "timeout")
  /\ EndAttempt(w, FALSE)
  /\ UNCHANGED <<queueVars, subVars, articlesLock, subLock, celeryVars>>

-----------------------------------------------------------------------------
(* The surroundings: other components, time, failures and users.           *)

\* _set_queue_state: an entry for the content API is created as a success.  Nothing
\* transmits it; publish_content_api runs later, and what it raises is only logged.
PostedStateAlways(i) == "success"
PostedState(i) == IF i \in Direct THEN "success" ELSE "pending"

\* The enqueue service posts the next entry.
Post(i) ==
  /\ state[i] = "absent"
  /\ \A j \in Item : j < i => state[j] # "absent"
  /\ state' = [state EXCEPT ![i] = PostedState(i)]
  /\ UNCHANGED <<attempt, due, sent, subVars, lockVars, celeryVars, pc, localVars>>

\* next_retry_attempt_at passes.
RetryDue(i) ==
  /\ state[i] = "retrying"
  /\ ~due[i]
  /\ due' = [due EXCEPT ![i] = TRUE]
  /\ UNCHANGED <<state, attempt, sent, subVars, lockVars, celeryVars, pc, localVars>>

\* A worker process dies; the locks it owns stay until they expire.
Crash(w) ==
  LET Orphan(owner) == IF owner = w THEN Crashed ELSE owner
  IN /\ pc[w] # "idle"
     /\ "crash" \in Faults
     /\ articlesLock' = Orphan(articlesLock)
     /\ subLock' = [s \in Subscriber |-> Orphan(subLock[s])]
     /\ itemLock' = [i \in Item |-> Orphan(itemLock[i])]
     /\ Idle(w)
     /\ UNCHANGED <<queueVars, subVars, celeryVars>>

\* A lock can expire when its owner is dead; under "overrun" also when it runs.
Expirable(owner) == owner = Crashed \/ (owner # NoOne /\ "overrun" \in Faults)

ArticlesLockExpires ==
  /\ Expirable(articlesLock)
  /\ articlesLock' = NoOne
  /\ UNCHANGED <<queueVars, subVars, subLock, itemLock, celeryVars, pc, localVars>>

SubLockExpires(s) ==
  /\ Expirable(subLock[s])
  /\ subLock' = [subLock EXCEPT ![s] = NoOne]
  /\ UNCHANGED <<queueVars, subVars, articlesLock, itemLock, celeryVars, pc, localVars>>

ItemLockExpires(i) ==
  /\ Expirable(itemLock[i])
  /\ itemLock' = [itemLock EXCEPT ![i] = NoOne]
  /\ UNCHANGED <<queueVars, subVars, articlesLock, subLock, celeryVars, pc, localVars>>

\* A user with the publish_queue privilege resets or cancels an entry; on_updated turns
\* the state of one for the content API into success again in the response only.
OperatorPatch(i, s) ==
  /\ "operator" \in Faults
  /\ state[i] # "absent"
  /\ state' = [state EXCEPT ![i] = s]
  /\ UNCHANGED <<attempt, due, sent, subVars, lockVars, celeryVars, pc, localVars>>

OperatorSwitch(s) ==
  /\ "operator" \in Faults
  /\ active' = [active EXCEPT ![s] = ~@]
  /\ UNCHANGED <<queueVars, asyncSub, lockVars, celeryVars, pc, localVars>>

Reconfigure(s) ==
  /\ "reconfigure" \in Faults
  /\ asyncSub' = [asyncSub EXCEPT ![s] = ~@]
  /\ UNCHANGED <<queueVars, active, lockVars, celeryVars, pc, localVars>>

-----------------------------------------------------------------------------
Publish(w) == PublishStart(w) \/ DispatchPhase(w) \/ PublishEnd(w)

SubTask(w) ==
  \/ Fetch(w) \/ BatchAbort(w) \/ SubRelease(w)
  \/ \E i \in Item : NextAsync(w, i) \/ NextSync(w, i)

ItemTask(w) ==
  \/ Read(w) \/ ReadRejects(w) \/ Mark(w) \/ MarkFails(w)
  \/ SendInactive(w) \/ Send(w) \/ SendOtherError(w)
  \/ \E class \in {"none", "client"} : SendPublishError(w, class)
  \/ Record(w) \/ RecordFails(w) \/ MarkError(w) \/ MarkErrorFails(w)
  \/ SoftTimeout(w) \/ HandlerRead(w) \/ HandlerWrite(w) \/ HandlerFails(w)

Environment ==
  \/ \E i \in Item : \/ Post(i) \/ RetryDue(i) \/ ItemDrop(i) \/ ItemLockExpires(i)
                     \/ \E s \in {"pending", "canceled"} : OperatorPatch(i, s)
  \/ \E w \in Worker : Crash(w)
  \/ ArticlesLockExpires
  \/ \E s \in Subscriber : SubLockExpires(s) \/ OperatorSwitch(s) \/ Reconfigure(s)
  \/ \E m \in SubMsg : SubDrop(m)

Next ==
  \/ \E w \in Worker : \/ Publish(w) \/ SubTask(w) \/ ItemTask(w)
                       \/ \E m \in SubMsg : SubTake(w, m)
                       \/ \E i \in Item : ItemTake(w, i)
  \/ Environment

Spec == Init /\ [][Next]_vars

\* Running tasks make progress, the beat keeps starting publish(), retries come due,
\* and what keeps being sent to the broker is picked up by some worker again and
\* again, although each copy of a message may expire first.
Fairness ==
  /\ \A w \in Worker : WF_vars(DispatchPhase(w) \/ PublishEnd(w) \/ SubTask(w) \/ ItemTask(w))
  /\ SF_vars(\E w \in Worker : PublishStart(w))
  /\ \A s \in Subscriber :
       SF_vars(\E w \in Worker : \E m \in SubMsg : m.sub = s /\ SubTake(w, m))
  /\ \A i \in Item : SF_vars(\E w \in Worker : ItemTake(w, i))
  /\ \A i \in Item : WF_vars(RetryDue(i))

-----------------------------------------------------------------------------
(* Correctness properties.                                                 *)

\* Every variable keeps its type: the fields of an entry stay in the ranges of
\* the publish_queue schema and retry_attempt never exceeds its maximum.
TypeOK ==
  /\ state \in [Item -> QueueState]
  /\ attempt \in [Item -> 0..MaxRetry]
  /\ due \in [Item -> BOOLEAN]
  /\ sent \in [Item -> 0..SentCap]
  /\ active \in [Subscriber -> BOOLEAN]
  /\ asyncSub \in [Subscriber -> BOOLEAN]
  /\ articlesLock \in Owner
  /\ subLock \in [Subscriber -> Owner]
  /\ itemLock \in [Item -> Owner]
  /\ subMsgs \in [SubMsg -> 0..MaxCopies]
  /\ itemMsgs \in [Item -> 0..MaxCopies]
  /\ pc \in [Worker -> Point]
  /\ phase \in [Worker -> 0..5]
  /\ job \in [Worker -> SubMsg \cup {NoJob}]
  /\ isAsync \in [Worker -> BOOLEAN]
  /\ batch \in [Worker -> SUBSET Item]
  /\ cur \in [Worker -> Item \cup {NoItem}]
  /\ err \in [Worker -> {"none", "client", "timeout"}]
  /\ seen \in [Worker -> 0..MaxRetry]

\* The worker is inside transmit_item, past the lock.
InTransit(w, i) == pc[w] \in Working /\ cur[w] = i

\* No two workers ever transmit the same queue entry at the same time, although a
\* synchronous transmission takes only the subscriber's lock and an asynchronous
\* one only the entry's, and copies of a message may be in the broker.
OneTransmitter ==
  \A i \in Item : \A v, w \in Worker : InTransit(v, i) /\ InTransit(w, i) => v = w

\* MAX_TRANSMIT_RETRY_ATTEMPT bounds what the receiver sees: an entry is delivered
\* at most once more than it may be retried, whatever failed along the way.
SendsBounded == \A i \in Item : sent[i] <= MaxRetry + 1

\* An entry that is transmitted is a success only when the receiver has got it: success
\* without a delivery is for the content API alone.
SuccessWasSent == \A i \in Item \ Direct : state[i] = "success" => sent[i] > 0

\* An entry is in-progress or in error only while a worker is busy with it: no
\* interleaving of tasks strands it in a state that no query picks up again.
NoStrandedEntry ==
  \A i \in Item :
    state[i] \in {"in-progress", "error"} => \E w \in Worker : InTransit(w, i)

\* Step in which the transmission of entry i begins.
Begins(i) == \E w \in Worker : pc[w] = "mark" /\ cur[w] = i /\ pc'[w] = "send"

\* For a subscriber served synchronously, an entry is attempted for the first time
\* only after every earlier entry of the same priority has been attempted: the
\* sorted batch and the break on error keep the order of publication.
SyncInOrder ==
  [][\A i \in Item :
       Begins(i) /\ state[i] = "pending" /\ ~asyncSub[SubscriberOf[i]] =>
         \A j \in Item : /\ j < i
                         /\ SubscriberOf[j] = SubscriberOf[i]
                         /\ (j \in HighPriority) = (i \in HighPriority)
                         => state[j] # "pending"]_vars

\* A synchronous subscriber's entry is retried only after next_retry_attempt_at.
SyncRetryWaits ==
  [][\A i \in Item :
       Begins(i) /\ state[i] = "retrying" /\ ~asyncSub[SubscriberOf[i]] => due[i]]_vars

\* The delay the settings document as "Delay between retry attempts", for every entry:
\* broken for asynchronous subscribers, whose waiting messages ignore it.
EveryRetryWaits ==
  [][\A i \in Item : Begins(i) /\ state[i] = "retrying" => due[i]]_vars

\* What a subscriber sees of an entry, in the terms of Delivery.
Outcome(i) == IF state[i] \in {"success", "failed"} THEN state[i] ELSE "open"

Promise == INSTANCE Delivery WITH
  Limit   <- MaxRetry + 1,
  Lossy   <- "ack" \in Faults,
  posted  <- {i \in Item : state[i] # "absent"},
  got     <- sent,
  outcome <- [i \in Item |-> Outcome(i)]

\* While database calls succeed and nobody dies or meddles, the machinery of locks,
\* messages and retries is an implementation of Delivery: an entry is delivered before
\* its outcome is settled, once unless acknowledgements get lost and never more than
\* once more than it may be retried, and the outcome is true; an entry for the content
\* API is settled when it is made and never delivered.
ImplementsDelivery == Promise!Spec
=============================================================================
