------------------------------- MODULE Ingest -------------------------------
(***************************************************************************)
(* Ingest from one provider: update_provider and ingest_item               *)
(* (superdesk/io/commands/update_ingest.py) under the lock of the          *)
(* provider, and the command that removes what has expired                 *)
(* (superdesk/io/commands/remove_expired_content.py), which takes another  *)
(* lock.  Items are written to mongo one by one and copied to elastic when *)
(* their batch is done; removal goes the other way round.                  *)
(***************************************************************************)
EXTENDS Naturals, FiniteSets, FiniteSetsExt

CONSTANTS
  Guid,          \* the items of the provider
  LastVersion,   \* [Guid -> Nat]: bound, the versions of an item
  Doc,           \* ids of documents; bound on those in use at a time
  Worker,        \* celery workers taking update_provider
  Nobody,
  MaxFaults      \* bound on crashes, exceptions and leases that run out

ASSUME VersionAssumption == LastVersion \in [Guid -> Nat]
ASSUME DocAssumption == Doc \subseteq Nat \ {0}
ASSUME NobodyAssumption == Nobody \notin Worker \cup Guid
ASSUME BoundAssumption == MaxFaults \in Nat

VARIABLES
  feed,      \* [Guid -> Nat]: the version the provider offers, 0: none yet
  canceled,  \* SUBSET Guid: those whose last version is a cancellation
  old,       \* [Guid -> Nat]: the versions up to this one have expired
  mongo,     \* [Doc -> Item]: the ingest collection
  elastic,   \* [Doc -> Item]: its copy in the index
  routed,    \* [Guid -> Nat]: newest version the routing scheme was applied to
  owner,     \* the lock of the provider, see Lock
  late,
  task,      \* [Worker -> Task]: the update_provider running
  gc,        \* the removal: where it is and the ids it has found
  faults,    \* crashes, exceptions and late leases so far
  odd        \* ghost: see Oddity

feedVars == <<feed, canceled, old>>
dataVars == <<mongo, elastic, routed>>
lockVars == <<owner, late>>
vars == <<feedVars, dataVars, lockVars, task, gc, faults, odd>>

L == INSTANCE Lock WITH Process <- Worker

-----------------------------------------------------------------------------
Version == 0..Max({LastVersion[g] : g \in Guid})
Item == [guid : Guid, version : Version, killed : BOOLEAN]
NoItem == [guid |-> Nobody, version |-> 0, killed |-> FALSE]
NoDoc == 0

\* original is the document as ingest_item found it, doc its id.
Task == [at : {"idle", "batch", "item", "write", "route", "sync"},
         batch : SUBSET (Guid \X Version), guid : Guid \cup {Nobody}, version : Version,
         doc : Doc \cup {NoDoc}, original : Item \cup {NoItem},
         created : SUBSET Doc, copy : SUBSET (Doc \X Item)]
Idle == [at |-> "idle", batch |-> {}, guid |-> Nobody, version |-> 0, doc |-> NoDoc,
         original |-> NoItem, created |-> {}, copy |-> {}]
Resting == [at |-> "idle", docs |-> {}]

\* <<"overtaken">>     the lock was taken over from a task that was still running
\* <<"torn", g>>       a task failed between the write of g and its copy to elastic
\* <<"crossed", g>>    the removal met an update of g: it removed a version that had
\*                     not expired, or the item expired before it was stored
\* <<"rerouted", g>>   a version of g was routed again, or after a newer one
Oddity == {<<"overtaken">>} \cup ({"torn", "crossed", "rerouted"} \X Guid)

Init ==
  /\ feed = [g \in Guid |-> 0] /\ canceled = {} /\ old = feed
  /\ mongo = [d \in Doc |-> NoItem] /\ elastic = mongo
  /\ routed = feed
  /\ L!LockInit
  /\ task = [w \in Worker |-> Idle]
  /\ gc = Resting
  /\ faults = 0
  /\ odd = {}

Fault == faults < MaxFaults /\ faults' = faults + 1

HasExpired(item) == item # NoItem /\ item.version <= old[item.guid]
Torn(G) == odd' = odd \cup {<<"torn", g>> : g \in G}
Crossed(items) == odd' = odd \cup {<<"crossed", i.guid>> : i \in {j \in items : ~HasExpired(j)}}

-----------------------------------------------------------------------------
(* The provider and the clock.                                             *)

Offer(g) ==
  /\ feed[g] < LastVersion[g]
  /\ feed' = [feed EXCEPT ![g] = @ + 1]
  /\ \/ UNCHANGED canceled
     \/ feed'[g] = LastVersion[g] /\ canceled' = canceled \cup {g}
  /\ UNCHANGED <<old, dataVars, lockVars, task, gc, faults, odd>>

Expire(g) ==
  /\ old[g] < feed[g]
  /\ old' = [old EXCEPT ![g] = @ + 1]
  /\ UNCHANGED <<feed, canceled, dataVars, lockVars, task, gc, faults, odd>>

\* The lock of a task that is gone runs out, or a batch takes longer than 30 minutes.
TimeUp ==
  /\ L!TimeUp
  /\ IF task[owner].at = "idle" THEN UNCHANGED faults ELSE Fault
  /\ UNCHANGED <<feedVars, dataVars, task, gc, odd>>

-----------------------------------------------------------------------------
(* update_provider.                                                        *)

At(w, point) == task[w].at = point

Start(w) ==
  /\ At(w, "idle")
  /\ odd' = IF late /\ ~At(owner, "idle") THEN odd \cup {<<"overtaken">>} ELSE odd
  /\ L!Acquire(w)
  /\ task' = [task EXCEPT ![w].at = "batch"]
  /\ UNCHANGED <<feedVars, dataVars, gc, faults>>

\* filter_expired_items.
Fresh == {g \in Guid : feed[g] > old[g]}

\* The lock is renewed before each batch.
NextBatch(w) ==
  /\ At(w, "batch")
  /\ L!Touch(w)
  /\ Fresh # {}
  /\ task' = [task EXCEPT ![w].at = "item", ![w].batch = {<<g, feed[g]>> : g \in Fresh}]
  /\ UNCHANGED <<feedVars, dataVars, gc, faults, odd>>

\* The provider has no more, or the lock is not the task's any more; unlock.
Finish(w) ==
  /\ At(w, "batch")
  /\ L!Release(w)
  /\ task' = [task EXCEPT ![w] = Idle]
  /\ UNCHANGED <<feedVars, dataVars, gc, faults, odd>>

\* The item is done with; created are the documents to be copied to elastic.
Done(w, created) ==
  task' = [task EXCEPT ![w] = [Idle EXCEPT !.at = "item", !.batch = task[w].batch,
                                           !.created = created]]

\* ingest_item looks the item up by its guid; with several it gets any.
Known(g) == {d \in Doc : mongo[d].guid = g}
IsCancel(g, v) == g \in canceled /\ v = LastVersion[g]
IsNewVersionOrSame(v, d) == v >= mongo[d].version  \* mutant
IsNewVersion(v, d) == v > mongo[d].version
Take(w, g, v, d) ==
  task' = [task EXCEPT ![w].at = "write", ![w].batch = @ \ {<<g, v>>}, ![w].guid = g,
             ![w].version = v, ![w].doc = d, ![w].original = IF d = NoDoc THEN NoItem ELSE mongo[d]]
Skip(w, g, v) == task' = [task EXCEPT ![w].batch = @ \ {<<g, v>>}]

FindNone(w, g, v) ==
  /\ At(w, "item") /\ <<g, v>> \in task[w].batch /\ Known(g) = {}
  /\ Take(w, g, v, NoDoc)
  /\ UNCHANGED <<feedVars, dataVars, lockVars, gc, faults, odd>>

FindOld(w, g, v) ==
  /\ At(w, "item") /\ <<g, v>> \in task[w].batch /\ ~IsCancel(g, v)
  /\ \E d \in Known(g) : IF IsNewVersion(v, d) THEN Take(w, g, v, d) ELSE Skip(w, g, v)
  /\ UNCHANGED <<feedVars, dataVars, lockVars, gc, faults, odd>>

\* ingest_cancel patches every document of the family, in mongo and in elastic.  The
\* etag of the one that was found is stale then: its own update always fails.
Killed(g, items) == [d \in Doc |->
  IF mongo[d].guid = g THEN [mongo[d] EXCEPT !.killed = TRUE] ELSE items[d]]

Cancel(w, g, v) ==
  /\ At(w, "item") /\ <<g, v>> \in task[w].batch /\ IsCancel(g, v) /\ Known(g) # {}
  /\ mongo' = Killed(g, mongo) /\ elastic' = Killed(g, elastic)
  /\ Skip(w, g, v)
  /\ UNCHANGED <<feedVars, routed, lockVars, gc, faults, odd>>

\* post_in_mongo gives the item a new id: nothing else keeps a guid from being
\* posted twice.
InUse(d) == \/ mongo[d] # NoItem \/ elastic[d] # NoItem \/ d \in gc.docs
            \/ \E w \in Worker : d = task[w].doc \/ d \in task[w].created
                                     \/ \E c \in task[w].copy : c[1] = d
NewItem(w) == [guid |-> task[w].guid, version |-> task[w].version,
               killed |-> IsCancel(task[w].guid, task[w].version)]

Post(w) ==
  /\ At(w, "write") /\ task[w].doc = NoDoc
  /\ \E d \in Doc : ~InUse(d) /\ \A e \in Doc : e < d => InUse(e)
  /\ LET d == Min({e \in Doc : ~InUse(e)}) IN
     /\ mongo' = [mongo EXCEPT ![d] = NewItem(w)]
     /\ task' = [task EXCEPT ![w].at = "route", ![w].doc = d]
  /\ odd' = IF HasExpired(NewItem(w)) THEN odd \cup {<<"crossed", task[w].guid>>} ELSE odd
  /\ UNCHANGED <<feedVars, elastic, routed, lockVars, gc, faults>>

\* patch_in_mongo: mongo updates the document only if it has the etag it was read
\* with.  An item that is canceled gets no further than Cancel.
Unchanged(w) == mongo[task[w].doc] = task[w].original

Patch(w) ==
  /\ At(w, "write") /\ task[w].doc # NoDoc
  /\ IF Unchanged(w)
     THEN /\ mongo' = [mongo EXCEPT ![task[w].doc] = NewItem(w)]
          /\ task' = [task EXCEPT ![w].at = "route"]
     ELSE Done(w, task[w].created) /\ UNCHANGED mongo
  /\ UNCHANGED <<feedVars, elastic, routed, lockVars, gc, faults, odd>>

\* The document is read again and the routing scheme applied to it; there may be none
\* by now, which is an exception.
CreatedByPost(w) ==  \* mutant
  task[w].created \cup (IF task[w].original = NoItem THEN {task[w].doc} ELSE {})
Created(w) == task[w].created \cup {task[w].doc}

Route(w) ==
  /\ At(w, "route")
  /\ LET item == mongo[task[w].doc] IN
     IF item = NoItem
     THEN Done(w, task[w].created) /\ UNCHANGED <<routed, odd>>
     ELSE /\ routed' = [routed EXCEPT ![item.guid] = Max({@, item.version})]
          /\ odd' = IF item.version > routed[item.guid] THEN odd
                    ELSE odd \cup {<<"rerouted", item.guid>>}
          /\ Done(w, Created(w))
  /\ UNCHANGED <<feedVars, mongo, elastic, lockVars, gc, faults>>

\* Any exception in ingest_item: the item counts as failed and the ids are forgotten.
ItemFails(w) ==
  /\ At(w, "write") \/ At(w, "route")
  /\ Fault
  /\ IF At(w, "route") THEN Torn({task[w].guid}) ELSE UNCHANGED odd
  /\ Done(w, task[w].created)
  /\ UNCHANGED <<feedVars, dataVars, lockVars, gc>>

\* The end of ingest_items: what was created is read from mongo, then put in elastic.
SyncRead(w) ==
  /\ At(w, "item") /\ task[w].batch = {}
  /\ LET found == {<<d, mongo[d]>> : d \in {e \in task[w].created : mongo[e] # NoItem}} IN
     task' = [task EXCEPT ![w].at = IF found = {} THEN "batch" ELSE "sync",
                ![w].created = {}, ![w].copy = found]
  /\ UNCHANGED <<feedVars, dataVars, lockVars, gc, faults, odd>>

SyncWrite(w) ==
  /\ At(w, "sync")
  /\ elastic' = [d \in Doc |->
       IF \E c \in task[w].copy : c[1] = d
       THEN (CHOOSE c \in task[w].copy : c[1] = d)[2] ELSE elastic[d]]
  /\ task' = [task EXCEPT ![w].at = "batch", ![w].copy = {}]
  /\ UNCHANGED <<feedVars, mongo, routed, lockVars, gc, faults, odd>>

\* What the task has written and not copied.
Pending(w) == {mongo[d].guid : d \in {e \in Doc : mongo[e] # NoItem /\
                                     (e \in task[w].created \/ <<e, mongo[e]>> \in task[w].copy)}}
              \cup (IF At(w, "route") THEN {task[w].guid} ELSE {})

\* Any other exception, the soft time limit for one: the lock is released.
TaskFails(w) ==
  /\ task[w].at \in {"batch", "item", "sync"} /\ Fault
  /\ Torn(Pending(w))
  /\ L!Release(w)
  /\ task' = [task EXCEPT ![w] = Idle]
  /\ UNCHANGED <<feedVars, dataVars, gc>>

WorkerCrash(w) ==
  /\ ~At(w, "idle") /\ Fault
  /\ Torn(Pending(w))
  /\ task' = [task EXCEPT ![w] = Idle]
  /\ UNCHANGED <<feedVars, dataVars, lockVars, gc>>

-----------------------------------------------------------------------------
(* remove_expired_data.                                                    *)

GcStep == UNCHANGED <<feedVars, routed, lockVars, task>>

Expired(store) == {d \in Doc : HasExpired(store[d])}

GcFindIndexed ==  \* mutant: what is not in elastic is not found
  LET found == {d \in Expired(mongo) : elastic[d] # NoItem} IN
  /\ gc.at = "idle" /\ found # {}
  /\ gc' = [at |-> "elastic", docs |-> found]
  /\ GcStep /\ UNCHANGED <<mongo, elastic, faults, odd>>

GcFind ==
  /\ gc.at = "idle" /\ Expired(mongo) # {}
  /\ gc' = [at |-> "elastic", docs |-> Expired(mongo)]
  /\ GcStep /\ UNCHANGED <<mongo, elastic, faults, odd>>

Unindex ==
  /\ elastic' = [d \in Doc |-> IF d \in gc.docs THEN NoItem ELSE elastic[d]]
  /\ Crossed({elastic[d] : d \in gc.docs} \ {NoItem})

\* ingest.delete: what was found is removed from elastic, ...
GcElastic ==
  /\ gc.at = "elastic"
  /\ Unindex
  /\ gc' = [at |-> "mongo", docs |-> gc.docs]
  /\ GcStep /\ UNCHANGED <<mongo, faults>>

\* ... then from mongo, whatever has become of it.
GcMongo ==
  /\ gc.at = "mongo"
  /\ mongo' = [d \in Doc |-> IF d \in gc.docs THEN NoItem ELSE mongo[d]]
  /\ Crossed({mongo[d] : d \in gc.docs} \ {NoItem})
  /\ gc' = Resting
  /\ GcStep /\ UNCHANGED <<elastic, faults>>

\* remove_expired_from_elastic, once nothing expired is in mongo any more.
GcSearch ==
  /\ gc.at = "idle" /\ Expired(mongo) = {} /\ Expired(elastic) # {}
  /\ gc' = [at |-> "clean", docs |-> Expired(elastic)]
  /\ GcStep /\ UNCHANGED <<mongo, elastic, faults, odd>>

GcClean ==
  /\ gc.at = "clean"
  /\ Unindex
  /\ gc' = Resting
  /\ GcStep /\ UNCHANGED <<mongo, faults>>

GcFails ==
  /\ gc.at # "idle" /\ Fault
  /\ gc' = Resting
  /\ GcStep /\ UNCHANGED <<mongo, elastic, odd>>

-----------------------------------------------------------------------------
Ingesting(w) ==
  \/ \E g \in Guid, v \in Version :
       FindNone(w, g, v) \/ FindOld(w, g, v) \/ Cancel(w, g, v)
  \/ Post(w) \/ Patch(w) \/ Route(w) \/ SyncRead(w) \/ SyncWrite(w)
Updating(w) == Start(w) \/ NextBatch(w) \/ Finish(w)
Removing == GcFind \/ GcElastic \/ GcMongo \/ GcSearch \/ GcClean
Failure == GcFails \/ \E w \in Worker : ItemFails(w) \/ TaskFails(w) \/ WorkerCrash(w)

Next == \/ TimeUp \/ Removing \/ Failure
        \/ \E g \in Guid : Offer(g) \/ Expire(g)
        \/ \E w \in Worker : Updating(w) \/ Ingesting(w)

\* celery beat starts the removal again and again.  Nothing makes the provider offer an
\* item, an update start or a task go on.
Spec == Init /\ [][Next]_vars /\ WF_vars(Removing)
-----------------------------------------------------------------------------
\* The type of every variable.
TypeOK ==
  /\ L!LockType
  /\ \A g \in Guid : old[g] <= feed[g] /\ feed[g] <= LastVersion[g]
  /\ mongo \in [Doc -> Item \cup {NoItem}] /\ elastic \in [Doc -> Item \cup {NoItem}]
  /\ \A w \in Worker : task[w] \in Task
  /\ gc.at \in {"idle", "elastic", "mongo", "clean"} /\ gc.docs \subseteq Doc
  /\ odd \subseteq Oddity

\* An item is in mongo once: guid has no unique index, the lock of the provider is
\* all there is, and it holds as long as no batch outlives it.
OneCopy ==
  <<"overtaken">> \notin odd => \A g \in Guid : Cardinality(Known(g)) <= 1

\* The desks get each version of an item once and in order.
RoutedOnce ==
  \A g \in Guid : <<"rerouted", g>> \in odd => {<<"overtaken">>, <<"crossed", g>>} \cap odd # {}

\* What elastic lacks of mongo, or has in another version, a running task has still in
\* hand, unless it is about to be removed or a task failed halfway.
InHand(w, d) == d \in task[w].created \/ (At(w, "route") /\ task[w].doc = d)
                \/ \E c \in task[w].copy : c[1] = d
IndexCatchesUp ==
  \A d \in Doc : mongo[d] # NoItem /\ elastic[d] # mongo[d] =>
    \/ \E w \in Worker : InHand(w, d)
    \/ HasExpired(mongo[d])
    \/ {<<"overtaken">>, <<"crossed", mongo[d].guid>>, <<"torn", mongo[d].guid>>} \cap odd # {}

\* Again and again nothing expired is in mongo nor in elastic, whatever failed in
\* between: what only one of them has is removed as well.
ExpiredRemoved == []<>(Expired(mongo) = {} /\ Expired(elastic) = {})

=============================================================================
