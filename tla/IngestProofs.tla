---------------------------- MODULE IngestProofs ----------------------------
(***************************************************************************)
(* Proofs about Ingest, for any items with any number of versions, any     *)
(* number of workers, and any number of crashes, exceptions and leases     *)
(* that run out.                                                           *)
(***************************************************************************)
EXTENDS Ingest, FiniteSetTheorems, TLAPS

\* What the proofs need of the types.
Items == [guid : Guid, version : Nat, killed : BOOLEAN]
Stores == [Doc -> Items \cup {NoItem}]
Tasks == [at : {"idle", "batch", "item", "write", "route", "sync"},
          batch : SUBSET (Guid \X Nat), guid : Guid \cup {Nobody}, version : Nat,
          doc : Doc \cup {NoDoc}, original : Items \cup {NoItem},
          created : SUBSET Doc, copy : SUBSET (Doc \X Items)]
Types ==
  /\ L!LockType
  /\ feed \in [Guid -> Nat] /\ old \in [Guid -> Nat] /\ routed \in [Guid -> Nat]
  /\ mongo \in Stores /\ elastic \in Stores
  /\ task \in [Worker -> Tasks]
  /\ gc.docs \subseteq Doc

\* No batch outlived its lock; g has no update that met the removal.
Sole == <<"overtaken">> \notin odd
Hit(g) == <<"crossed", g>> \in odd

\* What a task has in hand at which point, ...
HandInv(w) ==
  LET t == task[w] IN
  /\ t.created # {} => t.at \in {"item", "write", "route"}
  /\ t.copy # {} => t.at = "sync"
  /\ \A c, e \in t.copy : c[1] = e[1] => c = e
  /\ t.at \in {"write", "route"} => t.guid \in Guid
  /\ t.at = "route" => t.doc \in Doc
  /\ t.at = "write" /\ t.doc # NoDoc =>
       t.original \in Items /\ t.original.guid = t.guid /\ t.version > t.original.version

\* ... and what it knows of mongo while nobody else is at work.
SoleInv(w) ==
  LET t == task[w] IN
  /\ t.at # "idle" => owner = w
  /\ t.at = "write" /\ t.doc = NoDoc => Known(t.guid) = {}
  /\ t.at = "route" /\ mongo[t.doc] # NoItem => mongo[t.doc].guid = t.guid
  /\ \A c \in t.copy : mongo[c[1]] \in {c[2], NoItem}

DocInv == \A d, e \in Doc : mongo[d] # NoItem /\ mongo[d].guid = mongo[e].guid => d = e

TaskInv == /\ \A w \in Worker : HandInv(w)
           /\ Sole => DocInv /\ \A w \in Worker : SoleInv(w)

\* What was routed of an item is in mongo or has expired; what is about to be routed
\* is newer.
RouteInv ==
  Sole => \A g \in Guid : ~Hit(g) =>
    /\ Known(g) = {} => routed[g] <= old[g]
    /\ \A d \in Known(g) :
         /\ routed[g] <= mongo[d].version
         /\ \A w \in Worker : At(w, "route") /\ task[w].doc = d => routed[g] < mongo[d].version

-----------------------------------------------------------------------------
(* Types.                                                                  *)

\* Markings are different when they are of different kinds or items.
LEMMA Markings ==
  ASSUME NEW g, NEW h
  PROVE  /\ <<"overtaken">> # <<"crossed", g>> /\ <<"overtaken">> # <<"rerouted", g>>
         /\ <<"overtaken">> # <<"torn", g>>
         /\ <<"crossed", g>> # <<"rerouted", h>> /\ <<"crossed", g>> # <<"torn", h>>
         /\ <<"rerouted", g>> # <<"torn", h>>
         /\ <<"rerouted", g>> = <<"rerouted", h>> => g = h
         /\ <<"crossed", g>> = <<"crossed", h>> => g = h
  OBVIOUS

LEMMA NewItemType ==
  ASSUME Types, NEW w \in Worker, task[w].guid \in Guid
  PROVE  /\ NewItem(w) \in Items /\ NewItem(w).guid = task[w].guid
         /\ NewItem(w).version = task[w].version
<1>1. IsCancel(task[w].guid, task[w].version) \in BOOLEAN
  BY DEF IsCancel
<1>2. task[w].version \in Nat
  BY DEF Types, Tasks
<1>3. QED
  BY <1>1, <1>2 DEF NewItem, Items

LEMMA ItemFacts ==
  /\ NoItem \notin Items /\ NoItem.guid \notin Guid
  /\ \A i \in Items : i.guid \in Guid /\ i.version \in Nat
  BY NobodyAssumption DEF NoItem, Items

\* The items of mongo and of elastic after a cancellation.
LEMMA KilledType ==
  ASSUME Types, NEW g \in Guid, NEW store \in Stores
  PROVE  /\ Killed(g, store) \in Stores
         /\ \A d \in Doc :
              IF mongo[d].guid = g
              THEN /\ Killed(g, store)[d] \in Items
                   /\ Killed(g, store)[d].guid = g
                   /\ Killed(g, store)[d].version = mongo[d].version
              ELSE Killed(g, store)[d] = store[d]
<1>1. ASSUME NEW d \in Doc, mongo[d].guid = g
      PROVE  /\ [mongo[d] EXCEPT !.killed = TRUE] \in Items
             /\ [mongo[d] EXCEPT !.killed = TRUE].guid = g
             /\ [mongo[d] EXCEPT !.killed = TRUE].version = mongo[d].version
  <2>1. mongo[d] \in Items
    BY <1>1, ItemFacts DEF Types, Stores
  <2>2. QED
    BY <1>1, <2>1 DEF Items
<1>2. QED
  BY <1>1 DEF Killed, Stores

-----------------------------------------------------------------------------
(* What a step does to the task of its worker.                             *)

LEMMA IdleType == Idle \in Tasks
  BY DEF Idle, Tasks

Others(w) == \A x \in Worker \ {w} : task'[x] = task[x]

LEMMA EndStep ==
  ASSUME Types, NEW w \in Worker, task' = [task EXCEPT ![w] = Idle]
  PROVE  /\ task' \in [Worker -> Tasks] /\ Others(w)
         /\ task'[w].at = "idle" /\ task'[w].created = {} /\ task'[w].copy = {}
  BY IdleType DEF Types, Idle, Others

LEMMA PointStep ==
  ASSUME Types, NEW w \in Worker, NEW at \in {"batch", "item", "write", "route"},
         task' = [task EXCEPT ![w].at = at]
  PROVE  /\ task' \in [Worker -> Tasks] /\ Others(w)
         /\ task'[w].at = at /\ task'[w].guid = task[w].guid /\ task'[w].doc = task[w].doc
         /\ task'[w].created = task[w].created /\ task'[w].copy = task[w].copy
<1>1. task[w] \in Tasks /\ task'[w] = [task[w] EXCEPT !.at = at] /\ Others(w)
  BY DEF Types, Others
<1>2. task'[w] \in Tasks
  BY <1>1 DEF Tasks
<1>3. QED
  BY <1>1, <1>2 DEF Types, Tasks, Others

LEMMA NextBatchStep ==
  ASSUME Types, NEW w \in Worker, NextBatch(w)
  PROVE  /\ task' \in [Worker -> Tasks] /\ Others(w)
         /\ task'[w].at = "item"
         /\ task'[w].created = task[w].created /\ task'[w].copy = task[w].copy
<1>1. PICK B \in SUBSET (Guid \X Nat) : task' = [task EXCEPT ![w].at = "item", ![w].batch = B]
  <2>1. {<<g, feed[g]>> : g \in Fresh} \in SUBSET (Guid \X Nat)
    BY DEF Fresh, Types
  <2>2. QED
    BY <2>1 DEF NextBatch
<1>2. task[w] \in Tasks /\ task'[w] = [task[w] EXCEPT !.at = "item", !.batch = B] /\ Others(w)
  BY <1>1 DEF Types, Others
<1>3. task'[w] \in Tasks
  BY <1>2 DEF Tasks
<1>4. QED
  BY <1>1, <1>2, <1>3 DEF Types, Tasks, Others

LEMMA DoneStep ==
  ASSUME Types, NEW w \in Worker, NEW C \in SUBSET Doc, Done(w, C)
  PROVE  /\ task' \in [Worker -> Tasks] /\ Others(w)
         /\ task'[w].at = "item" /\ task'[w].created = C /\ task'[w].copy = {}
<1>1. task[w] \in Tasks /\ Others(w)
      /\ task'[w] = [Idle EXCEPT !.at = "item", !.batch = task[w].batch, !.created = C]
  BY DEF Types, Done, Others
<1>2. PICK B \in SUBSET (Guid \X Nat) : B = task[w].batch
  BY <1>1 DEF Tasks
<1>3. task'[w] = [at |-> "item", batch |-> B, guid |-> Nobody, version |-> 0, doc |-> NoDoc,
                  original |-> NoItem, created |-> C, copy |-> {}]
  BY <1>1, <1>2 DEF Idle
<1>4. /\ task'[w] \in Tasks
      /\ task'[w].at = "item" /\ task'[w].created = C /\ task'[w].copy = {}
  BY <1>3 DEF Tasks
<1>5. QED
  BY <1>1, <1>4 DEF Types, Done

LEMMA TakeStep ==
  ASSUME Types, NEW w \in Worker, NEW g \in Guid, NEW v \in Nat, NEW d \in Doc \cup {NoDoc},
         Take(w, g, v, d)
  PROVE  /\ task' \in [Worker -> Tasks] /\ Others(w)
         /\ task'[w].at = "write" /\ task'[w].guid = g /\ task'[w].version = v
         /\ task'[w].doc = d /\ task'[w].original = (IF d = NoDoc THEN NoItem ELSE mongo[d])
         /\ task'[w].created = task[w].created /\ task'[w].copy = task[w].copy
<1>1. PICK i \in Items \cup {NoItem} : i = IF d = NoDoc THEN NoItem ELSE mongo[d]
  BY DEF Types, Stores
<1>2. PICK B \in SUBSET (Guid \X Nat) : B = task[w].batch \ {<<g, v>>}
  BY DEF Types, Tasks
<1>3. task[w] \in Tasks /\ Others(w)
      /\ task'[w] = [task[w] EXCEPT !.at = "write", !.batch = B, !.guid = g, !.version = v,
                                    !.doc = d, !.original = i]
  BY <1>1, <1>2 DEF Types, Take, Others
<1>4. task'[w] \in Tasks
  BY <1>3 DEF Tasks
<1>5. /\ task'[w].at = "write" /\ task'[w].guid = g /\ task'[w].version = v /\ task'[w].doc = d
      /\ task'[w].original = i
      /\ task'[w].created = task[w].created /\ task'[w].copy = task[w].copy
  BY <1>3 DEF Tasks
<1>6. QED
  BY <1>1, <1>3, <1>4, <1>5 DEF Types, Take

LEMMA SkipStep ==
  ASSUME Types, NEW w \in Worker, NEW g, NEW v, Skip(w, g, v)
  PROVE  /\ task' \in [Worker -> Tasks] /\ Others(w)
         /\ task'[w].at = task[w].at /\ task'[w].guid = task[w].guid
         /\ task'[w].created = task[w].created /\ task'[w].copy = task[w].copy
<1>1. PICK B \in SUBSET (Guid \X Nat) : B = task[w].batch \ {<<g, v>>}
  BY DEF Types, Tasks
<1>2. task[w] \in Tasks /\ task'[w] = [task[w] EXCEPT !.batch = B] /\ Others(w)
  BY <1>1 DEF Types, Skip, Others
<1>3. task'[w] \in Tasks
  BY <1>2 DEF Tasks
<1>4. QED
  BY <1>2, <1>3 DEF Types, Tasks, Skip

LEMMA PostStep ==
  ASSUME Types, NEW w \in Worker, Post(w)
  PROVE  \E d \in Doc :
           /\ ~InUse(d) /\ mongo' = [mongo EXCEPT ![d] = NewItem(w)]
           /\ task' \in [Worker -> Tasks] /\ Others(w)
           /\ task'[w].at = "route" /\ task'[w].guid = task[w].guid /\ task'[w].doc = d
           /\ task'[w].created = task[w].created /\ task'[w].copy = task[w].copy
<1>1. PICK d \in Doc : ~InUse(d) /\ \A e \in Doc : e < d => InUse(e)
  BY DEF Post
<1>2. Min({e \in Doc : ~InUse(e)}) = d
  <2>1. \A e \in {x \in Doc : ~InUse(x)} : d <= e
    BY <1>1, DocAssumption
  <2>2. \A e \in {x \in Doc : ~InUse(x)} : e <= d => e = d
    BY <1>1, <2>1, DocAssumption
  <2>3. QED
    BY <1>1, <2>1, <2>2 DEF Min
<1>3. /\ mongo' = [mongo EXCEPT ![d] = NewItem(w)]
      /\ task' = [task EXCEPT ![w].at = "route", ![w].doc = d]
  BY <1>2 DEF Post
<1>4. task[w] \in Tasks /\ task'[w] = [task[w] EXCEPT !.at = "route", !.doc = d] /\ Others(w)
  BY <1>3 DEF Types, Others
<1>5. task'[w] \in Tasks
  BY <1>4 DEF Tasks
<1>6. /\ task'[w].at = "route" /\ task'[w].guid = task[w].guid /\ task'[w].doc = d
      /\ task'[w].created = task[w].created /\ task'[w].copy = task[w].copy
  BY <1>4 DEF Tasks
<1>7. QED
  BY <1>1, <1>3, <1>4, <1>5, <1>6 DEF Types

\* What SyncRead has found.
Found(w) == {<<d, mongo[d]>> : d \in {e \in task[w].created : mongo[e] # NoItem}}

LEMMA SyncReadStep ==
  ASSUME Types, NEW w \in Worker, SyncRead(w)
  PROVE  /\ task' \in [Worker -> Tasks] /\ Others(w)
         /\ task'[w].at = (IF Found(w) = {} THEN "batch" ELSE "sync")
         /\ task'[w].created = {} /\ task'[w].copy = Found(w)
<1>1. task[w] \in Tasks /\ Others(w)
      /\ task'[w] = [task[w] EXCEPT !.at = IF Found(w) = {} THEN "batch" ELSE "sync",
                                    !.created = {}, !.copy = Found(w)]
  BY DEF Types, SyncRead, Found, Others
<1>2. Found(w) \in SUBSET (Doc \X Items)
  BY <1>1 DEF Types, Found, Tasks, Stores
<1>3. /\ task'[w] \in Tasks
      /\ task'[w].at = (IF Found(w) = {} THEN "batch" ELSE "sync")
      /\ task'[w].created = {} /\ task'[w].copy = Found(w)
  BY <1>1, <1>2 DEF Tasks
<1>4. QED
  BY <1>1, <1>3 DEF Types, SyncRead

LEMMA SyncWriteStep ==
  ASSUME Types, NEW w \in Worker, SyncWrite(w)
  PROVE  /\ task' \in [Worker -> Tasks] /\ Others(w)
         /\ task'[w].at = "batch" /\ task'[w].created = task[w].created /\ task'[w].copy = {}
<1>1. task[w] \in Tasks /\ Others(w)
      /\ task'[w] = [task[w] EXCEPT !.at = "batch", !.copy = {}]
  BY DEF Types, SyncWrite, Others
<1>2. /\ task'[w] \in Tasks
      /\ task'[w].at = "batch" /\ task'[w].created = task[w].created /\ task'[w].copy = {}
  BY <1>1 DEF Tasks
<1>3. QED
  BY <1>1, <1>2 DEF Types, SyncWrite

LEMMA MaxOfTwo ==
  ASSUME NEW m \in Nat, NEW n \in Nat
  PROVE  Max({m, n}) = IF m >= n THEN m ELSE n
<1>1. \A x \in {m, n} : (\A y \in {m, n} : x >= y) <=> x = (IF m >= n THEN m ELSE n)
  OBVIOUS
<1>2. (IF m >= n THEN m ELSE n) \in {m, n}
  OBVIOUS
<1>3. QED
  BY <1>1, <1>2 DEF Max

-----------------------------------------------------------------------------
(* The steps, grouped by what they can change.                             *)

\* The provider, the clock and the removal.
Around == \/ (\E g \in Guid : Offer(g) \/ Expire(g)) \/ TimeUp
          \/ GcFind \/ GcElastic \/ GcMongo \/ GcSearch \/ GcClean \/ GcFails
Beginning(w) == Start(w) \/ NextBatch(w) \/ Finish(w)
Finding(w) == \E g \in Guid, v \in Nat :
                <<g, v>> \in task[w].batch /\ (FindNone(w, g, v) \/ FindOld(w, g, v) \/ Cancel(w, g, v))
Writing(w) == Post(w) \/ Patch(w) \/ Route(w)
Copying(w) == SyncRead(w) \/ SyncWrite(w)
Failing(w) == ItemFails(w) \/ TaskFails(w) \/ WorkerCrash(w)

LEMMA NextCases ==
  ASSUME Types, Next
  PROVE  Around \/ \E w \in Worker : Beginning(w) \/ Finding(w) \/ Writing(w) \/ Copying(w) \/ Failing(w)
<1>1. ASSUME NEW w \in Worker, NEW g \in Guid, NEW v,
             FindNone(w, g, v) \/ FindOld(w, g, v) \/ Cancel(w, g, v)
      PROVE  Finding(w)
  <2>1. <<g, v>> \in task[w].batch
    BY <1>1 DEF FindNone, FindOld, Cancel
  <2>2. v \in Nat
    BY <2>1 DEF Types, Tasks
  <2>3. QED
    BY <1>1, <2>1, <2>2 DEF Finding
<1>2. QED
  BY <1>1 DEF Next, Removing, Failure, Updating, Ingesting, Around, Beginning, Writing, Copying, Failing

LEMMA AroundTypes ==
  ASSUME Types, Around
  PROVE  Types' /\ UNCHANGED <<task, routed>>
<1> USE DEF Types
<1>1. CASE \E g \in Guid : Offer(g) \/ Expire(g)
  BY <1>1 DEF Offer, Expire, dataVars, lockVars, L!LockType
<1>2. CASE TimeUp
  BY <1>2 DEF TimeUp, feedVars, dataVars, L!TimeUp, L!LockType
<1>3. CASE GcFind \/ GcElastic \/ GcMongo \/ GcSearch \/ GcClean \/ GcFails
  <2>1. UNCHANGED <<feedVars, routed, lockVars, task>>
    BY <1>3 DEF GcFind, GcElastic, Unindex, GcMongo, GcSearch, GcClean, GcFails, GcStep
  <2>2. mongo' \in Stores /\ elastic' \in Stores
    BY <1>3 DEF GcFind, GcElastic, Unindex, GcMongo, GcSearch, GcClean, GcFails, Stores
  <2>3. gc'.docs \subseteq Doc
    BY <1>3 DEF GcFind, GcElastic, Unindex, GcMongo, GcSearch, GcClean, GcFails, Expired, Resting
  <2>4. QED
    BY <2>1, <2>2, <2>3 DEF feedVars, lockVars, L!LockType
<1>4. QED
  BY <1>1, <1>2, <1>3 DEF Around

LEMMA BeginningTypes ==
  ASSUME Types, NEW w \in Worker, Beginning(w)
  PROVE  Types' /\ UNCHANGED <<feedVars, dataVars, gc>> /\ Others(w)
<1>1. UNCHANGED <<feedVars, dataVars, gc>> /\ L!LockType'
  BY NobodyAssumption DEF Beginning, Start, NextBatch, Finish, L!Acquire, L!Touch, L!Release,
     L!lockVars, L!LockType, Types
<1>2. task' \in [Worker -> Tasks] /\ Others(w)
  BY PointStep, NextBatchStep, EndStep DEF Beginning, Start, Finish
<1>3. QED
  BY <1>1, <1>2 DEF Types, feedVars, dataVars

LEMMA FindingTypes ==
  ASSUME Types, NEW w \in Worker, Finding(w)
  PROVE  Types' /\ UNCHANGED <<feedVars, routed, lockVars, gc, faults, odd>> /\ Others(w)
<1>1. PICK g \in Guid, v \in Nat : FindNone(w, g, v) \/ FindOld(w, g, v) \/ Cancel(w, g, v)
  BY DEF Finding
<1>2. UNCHANGED <<feedVars, routed, lockVars, gc, faults, odd>>
  BY <1>1 DEF FindNone, FindOld, Cancel, dataVars
<1>3. mongo' \in Stores /\ elastic' \in Stores
  <2>1. Killed(g, mongo) \in Stores /\ Killed(g, elastic) \in Stores
    BY KilledType DEF Types
  <2>2. QED
    BY <1>1, <2>1 DEF FindNone, FindOld, Cancel, dataVars, Types
<1>4. task' \in [Worker -> Tasks] /\ Others(w)
  <2>1. CASE FindNone(w, g, v)
    BY <2>1, TakeStep DEF FindNone
  <2>2. CASE FindOld(w, g, v)
    <3>1. \E d \in Doc : Take(w, g, v, d) \/ Skip(w, g, v)
      BY <2>2 DEF FindOld, Known
    <3>2. QED
      BY <3>1, TakeStep, SkipStep
  <2>3. CASE Cancel(w, g, v)
    BY <2>3, SkipStep DEF Cancel
  <2>4. QED
    BY <1>1, <2>1, <2>2, <2>3
<1>5. QED
  BY <1>2, <1>3, <1>4 DEF Types, feedVars, lockVars, L!LockType

LEMMA WritingTypes ==
  ASSUME Types, NEW w \in Worker, HandInv(w), Writing(w)
  PROVE  Types' /\ UNCHANGED <<feedVars, elastic, lockVars, gc>> /\ Others(w)
<1>1. UNCHANGED <<feedVars, elastic, lockVars, gc>>
  BY DEF Writing, Post, Patch, Route
<1>2. task[w].guid \in Guid
  BY DEF HandInv, Writing, Post, Patch, Route, At
<1>3. NewItem(w) \in Items
  BY <1>2, NewItemType
<1>4. mongo' \in Stores
  <2>1. CASE Post(w)
    BY <1>3, <2>1, PostStep DEF Types, Stores
  <2>2. CASE Patch(w)
    BY <1>3, <2>2 DEF Patch, Types, Stores
  <2>3. CASE Route(w)
    BY <2>3 DEF Route, Types
  <2>4. QED
    BY <2>1, <2>2, <2>3 DEF Writing
<1>5. routed' \in [Guid -> Nat]
  <2>1. CASE Post(w) \/ Patch(w)
    BY <2>1 DEF Post, Patch, Types
  <2>2. CASE Route(w)
    <3> DEFINE item == mongo[task[w].doc]
    <3>1. CASE item = NoItem
      BY <2>2, <3>1 DEF Route, Types
    <3>2. CASE item # NoItem
      <4>1. item.guid \in Guid /\ item.version \in Nat
        BY <2>2, <3>2, ItemFacts DEF Route, HandInv, At, Types, Stores
      <4>2. routed[item.guid] \in Nat
        BY <4>1 DEF Types
      <4>3. Max({routed[item.guid], item.version}) \in Nat
        BY <4>1, <4>2, MaxOfTwo
      <4>4. QED
        BY <2>2, <3>2, <4>1, <4>3 DEF Route, Types
    <3>3. QED
      BY <3>1, <3>2
  <2>3. QED
    BY <2>1, <2>2 DEF Writing
<1>6. task' \in [Worker -> Tasks] /\ Others(w)
  <2>1. task[w].created \in SUBSET Doc
    BY DEF Types, Tasks
  <2>2. CASE Post(w)
    BY <2>2, PostStep
  <2>3. CASE Patch(w)
    BY <2>1, <2>3, PointStep, DoneStep DEF Patch
  <2>4. CASE Route(w)
    <3>1. Created(w) \in SUBSET Doc
      BY <2>1, <2>4 DEF Created, HandInv, Route, At
    <3>2. QED
      BY <2>1, <2>4, <3>1, DoneStep DEF Route
  <2>5. QED
    BY <2>2, <2>3, <2>4 DEF Writing
<1>7. QED
  BY <1>1, <1>4, <1>5, <1>6 DEF Types, feedVars, lockVars, L!LockType

LEMMA CopyingTypes ==
  ASSUME Types, NEW w \in Worker, Copying(w)
  PROVE  Types' /\ UNCHANGED <<feedVars, mongo, routed, lockVars, gc, odd>> /\ Others(w)
<1>1. UNCHANGED <<feedVars, mongo, routed, lockVars, gc, odd>>
  BY DEF Copying, SyncRead, SyncWrite, dataVars
<1>2. elastic' \in Stores
  <2>1. CASE SyncRead(w)
    BY <2>1 DEF SyncRead, dataVars, Types
  <2>2. CASE SyncWrite(w)
    <3>1. \A c \in task[w].copy : c[2] \in Items
      BY DEF Types, Tasks
    <3>2. ASSUME NEW d \in Doc, \E c \in task[w].copy : c[1] = d
          PROVE  (CHOOSE c \in task[w].copy : c[1] = d)[2] \in Items
      BY <3>1, <3>2
    <3>3. QED
      BY <2>2, <3>2 DEF SyncWrite, Types, Stores
  <2>3. QED
    BY <2>1, <2>2 DEF Copying
<1>3. task' \in [Worker -> Tasks] /\ Others(w)
  BY SyncReadStep, SyncWriteStep DEF Copying
<1>4. QED
  BY <1>1, <1>2, <1>3 DEF Types, feedVars, lockVars, L!LockType

LEMMA FailingTypes ==
  ASSUME Types, NEW w \in Worker, Failing(w)
  PROVE  Types' /\ UNCHANGED <<feedVars, dataVars, gc>> /\ Others(w)
<1>1. UNCHANGED <<feedVars, dataVars, gc>> /\ (UNCHANGED lockVars \/ L!Release(w))
  BY DEF Failing, ItemFails, TaskFails, WorkerCrash
<1>2. L!LockType'
  BY <1>1 DEF lockVars, L!Release, L!lockVars, L!LockType, Types
<1>3. task' \in [Worker -> Tasks] /\ Others(w)
  <2>1. task[w].created \in SUBSET Doc
    BY DEF Types, Tasks
  <2>2. QED
    BY <2>1, DoneStep, EndStep DEF Failing, ItemFails, TaskFails, WorkerCrash
<1>4. QED
  BY <1>1, <1>2, <1>3 DEF Types, feedVars, dataVars

LEMMA TypesStep ==
  ASSUME Types, TaskInv, Next
  PROVE  Types'
  BY NextCases, AroundTypes, BeginningTypes, FindingTypes, WritingTypes, CopyingTypes,
     FailingTypes DEF TaskInv

-----------------------------------------------------------------------------
(* One task at a time, one document for an item.                           *)

LEMMA OddGrows ==
  ASSUME Types, Next
  PROVE  odd \subseteq odd'
<1>1. CASE Around
  BY <1>1 DEF Around, Offer, Expire, TimeUp, GcFind, GcElastic, Unindex, GcMongo, GcSearch, GcClean, GcFails, Crossed
<1>2. ASSUME NEW w \in Worker, Beginning(w) PROVE odd \subseteq odd'
  BY <1>2 DEF Beginning, Start, NextBatch, Finish
<1>3. ASSUME NEW w \in Worker, Finding(w) \/ Copying(w) PROVE odd \subseteq odd'
  BY <1>3, FindingTypes, CopyingTypes
<1>4. ASSUME NEW w \in Worker, Writing(w) PROVE odd \subseteq odd'
  BY <1>4 DEF Writing, Post, Patch, Route
<1>5. ASSUME NEW w \in Worker, Failing(w) PROVE odd \subseteq odd'
  BY <1>5 DEF Failing, ItemFails, TaskFails, WorkerCrash, Torn
<1>6. QED
  BY <1>1, <1>2, <1>3, <1>4, <1>5, NextCases

\* While no batch has outlived its lock, a task that is running runs alone.
LEMMA Alone ==
  ASSUME TaskInv, Sole, NEW w \in Worker, ~At(w, "idle"), NEW x \in Worker \ {w}
  PROVE  At(x, "idle")
  BY DEF TaskInv, SoleInv, At

\* So a step of a task needs to see to its own knowledge only.
LEMMA TaskFrame ==
  ASSUME TaskInv, NEW w \in Worker, Others(w), odd \subseteq odd', HandInv(w)',
         ASSUME Sole' PROVE DocInv' /\ SoleInv(w)' /\ \A x \in Worker \ {w} : At(x, "idle")
  PROVE  TaskInv'
<1>1. \A x \in Worker : HandInv(x)'
  BY DEF TaskInv, HandInv, Others
<1>2. ASSUME Sole', NEW x \in Worker PROVE SoleInv(x)'
  <2>1. CASE x = w
    BY <1>2, <2>1
  <2>2. CASE x # w
    <3>1. task'[x] = task[x] /\ task[x].at = "idle"
      BY <1>2, <2>2 DEF Others, At
    <3>2. task'[x].copy = {}
      BY <1>1, <3>1 DEF HandInv
    <3>3. QED
      BY <3>1, <3>2 DEF SoleInv
  <2>3. QED
    BY <2>1, <2>2
<1>3. QED
  BY <1>1, <1>2 DEF TaskInv

LEMMA AroundTask ==
  ASSUME Types, TaskInv, Around, Next
  PROVE  TaskInv'
<1>1. UNCHANGED <<task, owner>>
  BY DEF Around, Offer, Expire, TimeUp, GcFind, GcElastic, Unindex, GcMongo, GcSearch, GcClean, GcFails, GcStep,
     lockVars, L!TimeUp
<1>2. \A d \in Doc : mongo'[d] \in {mongo[d], NoItem}
  BY DEF Around, Offer, Expire, TimeUp, GcFind, GcElastic, Unindex, GcMongo, GcSearch, GcClean, GcFails, dataVars
<1>3. \A g \in Guid : Known(g)' \subseteq Known(g)
  BY <1>2, ItemFacts DEF Known
<1>4. \A w \in Worker : HandInv(w)'
  BY <1>1 DEF TaskInv, HandInv
<1>5. Sole' => Sole
  BY OddGrows DEF Sole
<1>6. ASSUME Sole' PROVE DocInv'
  <2>1. DocInv
    BY <1>5, <1>6 DEF TaskInv
  <2>2. \A d, e \in Doc : mongo'[d] # NoItem /\ mongo'[d].guid = mongo'[e].guid => mongo'[d] = mongo[d] /\ mongo'[e] = mongo[e]
    BY <1>2, ItemFacts DEF Types, Stores
  <2>3. QED
    BY <2>1, <2>2 DEF DocInv
<1>7. ASSUME Sole', NEW w \in Worker PROVE SoleInv(w)'
  <2>1. SoleInv(w) /\ HandInv(w)
    BY <1>5, <1>7 DEF TaskInv
  <2>2. task[w].at = "write" /\ task[w].doc = NoDoc => \A d \in Doc : mongo'[d].guid # task[w].guid
    BY <1>2, <2>1, ItemFacts DEF SoleInv, HandInv, Known
  <2>3. task[w].at = "route" => mongo'[task[w].doc] \in {mongo[task[w].doc], NoItem}
    BY <1>2, <2>1 DEF HandInv
  <2>4. \A c \in task[w].copy : mongo'[c[1]] \in {mongo[c[1]], NoItem}
    BY <1>2 DEF Types, Tasks
  <2>5. QED
    <3>1. task'[w] = task[w] /\ owner' = owner
      BY <1>1
    <3>2. task[w].at = "route" /\ mongo'[task[w].doc] # NoItem => mongo'[task[w].doc].guid = task[w].guid
      BY <2>1, <2>3 DEF SoleInv
    <3>3. \A c \in task[w].copy : mongo'[c[1]] \in {c[2], NoItem}
      BY <2>1, <2>4 DEF SoleInv
    <3>4. QED
      BY <2>1, <2>2, <3>1, <3>2, <3>3 DEF SoleInv, Known
<1>8. QED
  BY <1>4, <1>6, <1>7 DEF TaskInv

LEMMA BeginningTask ==
  ASSUME Types, TaskInv, NEW w \in Worker, Beginning(w), Next
  PROVE  TaskInv'
<1>1. UNCHANGED mongo /\ Others(w) /\ odd \subseteq odd'
  BY BeginningTypes, OddGrows DEF dataVars
<1>2. HandInv(w)
  BY DEF TaskInv
<1>3. /\ task'[w].at \notin {"write", "route"} /\ task'[w].copy = {}
      /\ task'[w].created = {}
  <2>1. CASE Start(w)
    BY <1>2, <2>1, PointStep DEF Start, HandInv, At
  <2>2. CASE NextBatch(w)
    BY <1>2, <2>2, NextBatchStep DEF NextBatch, HandInv, At
  <2>3. CASE Finish(w)
    BY <2>3, EndStep DEF Finish
  <2>4. QED
    BY <2>1, <2>2, <2>3 DEF Beginning
<1>4. HandInv(w)'
  BY <1>3 DEF HandInv
<1>5. ASSUME Sole' PROVE DocInv' /\ SoleInv(w)' /\ \A x \in Worker \ {w} : At(x, "idle")
  <2>1. Sole
    BY <1>1, <1>5 DEF Sole
  <2>2. DocInv'
    BY <1>1, <2>1 DEF TaskInv, DocInv
  <2>3. task'[w].at # "idle" => owner' = w
    BY EndStep DEF Beginning, Start, NextBatch, Finish, L!Acquire, L!Touch
  <2>4. SoleInv(w)'
    BY <1>3, <2>3 DEF SoleInv
  <2>5. CASE Start(w)
    <3>1. \A x \in Worker : ~At(x, "idle") => owner = x
      BY <2>1 DEF TaskInv, SoleInv, At
    <3>2. ~late \/ At(owner, "idle")
      BY <1>5, <2>5 DEF Start, Sole
    <3>3. owner = Nobody \/ late
      BY <2>5 DEF Start, L!Acquire, L!Free
    <3>4. QED
      BY <2>2, <2>4, <3>1, <3>2, <3>3, NobodyAssumption
  <2>6. CASE NextBatch(w) \/ Finish(w)
    <3>1. ~At(w, "idle")
      BY <2>6 DEF NextBatch, Finish, At
    <3>2. QED
      BY <2>1, <2>2, <2>4, <3>1, Alone
  <2>7. QED
    BY <2>5, <2>6 DEF Beginning
<1>6. QED
  BY <1>1, <1>4, <1>5, TaskFrame

LEMMA FindingTask ==
  ASSUME Types, TaskInv, NEW w \in Worker, Finding(w), Next
  PROVE  TaskInv'
<1>1. PICK g \in Guid, v \in Nat : FindNone(w, g, v) \/ FindOld(w, g, v) \/ Cancel(w, g, v)
  BY DEF Finding
<1>2. UNCHANGED <<owner, odd>> /\ Others(w) /\ At(w, "item") /\ HandInv(w)
  BY <1>1, FindingTypes DEF lockVars, FindNone, FindOld, Cancel, TaskInv
<1>3. task[w].copy = {}
  BY <1>2 DEF HandInv, At
<1>4. ASSUME Sole PROVE DocInv /\ SoleInv(w)
  BY <1>4 DEF TaskInv
<1>5. CASE \E d \in Known(g) \cup {NoDoc} :
             /\ Take(w, g, v, d) /\ UNCHANGED mongo
             /\ IF d = NoDoc THEN Known(g) = {} ELSE v > mongo[d].version
  <2>1. PICK d \in Known(g) \cup {NoDoc} :
          /\ Take(w, g, v, d) /\ UNCHANGED mongo
          /\ IF d = NoDoc THEN Known(g) = {} ELSE v > mongo[d].version
    BY <1>5
  <2>2. d \in Doc \cup {NoDoc} /\ (d # NoDoc => mongo[d] \in Items /\ mongo[d].guid = g)
    BY <2>1, ItemFacts DEF Known, Types, Stores
  <2>3. /\ task'[w].at = "write" /\ task'[w].guid = g /\ task'[w].version = v
        /\ task'[w].doc = d /\ task'[w].original = (IF d = NoDoc THEN NoItem ELSE mongo[d])
        /\ task'[w].copy = {}
    BY <1>3, <2>1, <2>2, TakeStep
  <2>4. HandInv(w)'
    BY <2>1, <2>2, <2>3 DEF HandInv
  <2>5. ASSUME Sole PROVE DocInv' /\ SoleInv(w)'
    <3>1. DocInv'
      BY <1>4, <2>1, <2>5 DEF DocInv
    <3>2. d = NoDoc => \A e \in Doc : mongo'[e].guid # g
      BY <2>1 DEF Known
    <3>3. owner' = w
      BY <1>2, <1>4, <2>5 DEF SoleInv, At
    <3>4. SoleInv(w)'
      BY <2>3, <3>2, <3>3 DEF SoleInv, Known
    <3>5. QED
      BY <3>1, <3>4
  <2>6. QED
    BY <1>2, <2>4, <2>5, Alone, TaskFrame DEF At, Sole
<1>6. CASE Skip(w, g, v) /\ \A d \in Doc : mongo'[d].guid = mongo[d].guid /\ (mongo'[d] = NoItem <=> mongo[d] = NoItem)
  <2>1. task'[w].at = "item" /\ task'[w].copy = {}
    BY <1>2, <1>3, <1>6, SkipStep DEF At
  <2>2. HandInv(w)'
    BY <2>1 DEF HandInv
  <2>3. ASSUME Sole PROVE DocInv' /\ SoleInv(w)'
    BY <1>2, <1>4, <1>6, <2>1, <2>3 DEF DocInv, SoleInv, At
  <2>4. QED
    BY <1>2, <2>2, <2>3, Alone, TaskFrame DEF At, Sole
<1>7. CASE FindNone(w, g, v)
  BY <1>5, <1>7 DEF FindNone, dataVars
<1>8. CASE FindOld(w, g, v)
  <2>1. PICK d \in Known(g) : IF IsNewVersion(v, d) THEN Take(w, g, v, d) ELSE Skip(w, g, v)
    BY <1>8 DEF FindOld
  <2>2. UNCHANGED mongo /\ d # NoDoc
    BY <1>8, DocAssumption DEF FindOld, dataVars, NoDoc, Known
  <2>3. QED
    BY <1>5, <1>6, <2>1, <2>2 DEF IsNewVersion
<1>9. CASE Cancel(w, g, v)
  <2>1. mongo' = Killed(g, mongo) /\ Skip(w, g, v)
    BY <1>9 DEF Cancel
  <2>2. \A d \in Doc : mongo'[d].guid = mongo[d].guid /\ (mongo'[d] = NoItem <=> mongo[d] = NoItem)
    BY <2>1, KilledType, ItemFacts DEF Types
  <2>3. QED
    BY <1>6, <2>1, <2>2
<1>10. QED
  BY <1>1, <1>7, <1>8, <1>9

LEMMA WritingTask ==
  ASSUME Types, TaskInv, NEW w \in Worker, Writing(w), Next
  PROVE  TaskInv'
<1>1. UNCHANGED owner /\ Others(w) /\ odd \subseteq odd' /\ HandInv(w)
  BY WritingTypes, OddGrows DEF lockVars, TaskInv
<1>2. task[w].at \in {"write", "route"} /\ task[w].copy = {} /\ task[w].guid \in Guid
      /\ task[w].created \in SUBSET Doc
  BY <1>1 DEF Writing, Post, Patch, Route, At, HandInv, Types, Tasks
<1>3. ASSUME Sole' PROVE Sole /\ DocInv /\ SoleInv(w) /\ owner' = w /\ \A x \in Worker \ {w} : At(x, "idle")
  BY <1>1, <1>2, <1>3, Alone DEF TaskInv, Sole, SoleInv, At
<1>4. NewItem(w) \in Items /\ NewItem(w).guid = task[w].guid
  BY <1>2, NewItemType
<1>5. CASE UNCHANGED mongo /\ task'[w].at = "item" /\ task'[w].copy = {}
  <2>1. HandInv(w)'
    BY <1>5 DEF HandInv
  <2>2. ASSUME Sole' PROVE DocInv' /\ SoleInv(w)'
    BY <1>3, <1>5, <2>2 DEF DocInv, SoleInv
  <2>3. QED
    BY <1>1, <1>3, <2>1, <2>2, TaskFrame
<1>6. ASSUME NEW d \in Doc, mongo' = [mongo EXCEPT ![d] = NewItem(w)],
             \A e \in Doc : Sole /\ mongo[e].guid = task[w].guid => e = d,
             /\ task'[w].at = "route" /\ task'[w].guid = task[w].guid /\ task'[w].doc = d
             /\ task'[w].created = task[w].created /\ task'[w].copy = task[w].copy
      PROVE  TaskInv'
  <2>1. HandInv(w)'
    BY <1>2, <1>6 DEF HandInv
  <2>2. mongo'[d] = NewItem(w) /\ \A e \in Doc \ {d} : mongo'[e] = mongo[e]
    BY <1>6 DEF Types, Stores
  <2>3. ASSUME Sole' PROVE DocInv' /\ SoleInv(w)'
    <3>1. DocInv'
      BY <1>3, <1>4, <1>6, <2>2, <2>3 DEF DocInv
    <3>2. SoleInv(w)'
      BY <1>2, <1>3, <1>4, <1>6, <2>2, <2>3 DEF SoleInv
    <3>3. QED
      BY <3>1, <3>2
  <2>4. QED
    BY <1>1, <1>3, <2>1, <2>3, TaskFrame
<1>7. CASE Post(w)
  <2>1. PICK d \in Doc :
          /\ ~InUse(d) /\ mongo' = [mongo EXCEPT ![d] = NewItem(w)]
          /\ task'[w].at = "route" /\ task'[w].guid = task[w].guid /\ task'[w].doc = d
          /\ task'[w].created = task[w].created /\ task'[w].copy = task[w].copy
    BY <1>7, PostStep
  <2>2. Sole => Known(task[w].guid) = {}
    BY <1>7 DEF Post, At, TaskInv, SoleInv
  <2>3. \A e \in Doc : Sole /\ mongo[e].guid = task[w].guid => e = d
    BY <2>2 DEF Known
  <2>4. QED
    BY <1>6, <2>1, <2>3
<1>8. CASE Patch(w)
  <2>1. task[w].doc \in Doc
    BY <1>8 DEF Patch, Types, Tasks
  <2>2. CASE Unchanged(w)
    <3>1. mongo[task[w].doc] # NoItem /\ mongo[task[w].doc].guid = task[w].guid
      BY <1>1, <1>8, <2>2, ItemFacts DEF Unchanged, HandInv, Patch, At
    <3>2. \A e \in Doc : Sole /\ mongo[e].guid = task[w].guid => e = task[w].doc
      BY <2>1, <3>1 DEF TaskInv, DocInv
    <3>3. /\ mongo' = [mongo EXCEPT ![task[w].doc] = NewItem(w)]
          /\ task' = [task EXCEPT ![w].at = "route"]
      BY <1>8, <2>2 DEF Patch
    <3>4. QED
      BY <1>6, <2>1, <3>2, <3>3, PointStep
  <2>3. CASE ~Unchanged(w)
    BY <1>2, <1>5, <1>8, <2>3, DoneStep DEF Patch
  <2>4. QED
    BY <2>2, <2>3
<1>9. CASE Route(w)
  <2>1. Created(w) \in SUBSET Doc
    BY <1>1, <1>2, <1>9 DEF Created, Route, At, HandInv
  <2>2. task'[w].at = "item" /\ task'[w].copy = {}
    BY <1>2, <1>9, <2>1, DoneStep DEF Route
  <2>3. QED
    BY <1>5, <1>9, <2>2 DEF Route
<1>10. QED
  BY <1>7, <1>8, <1>9 DEF Writing

LEMMA CopyingTask ==
  ASSUME Types, TaskInv, NEW w \in Worker, Copying(w), Next
  PROVE  TaskInv'
<1>1. UNCHANGED <<mongo, owner, odd>> /\ Others(w) /\ HandInv(w)
  BY CopyingTypes DEF lockVars, TaskInv
<1>2. task[w].at \in {"item", "sync"}
  BY DEF Copying, SyncRead, SyncWrite, At
<1>3. /\ task'[w].at \in {"batch", "sync"} /\ task'[w].created = {}
      /\ task'[w].copy # {} => task'[w].at = "sync" /\ task'[w].copy = Found(w)
  BY <1>1, SyncReadStep, SyncWriteStep DEF Copying, SyncWrite, HandInv, At
<1>4. \A c \in Found(w) : mongo[c[1]] = c[2] /\ c = <<c[1], c[2]>>
  BY DEF Found
<1>5. HandInv(w)'
  BY <1>3, <1>4 DEF HandInv
<1>6. ASSUME Sole PROVE DocInv' /\ SoleInv(w)'
  <2>1. DocInv /\ owner = w
    BY <1>2, <1>6 DEF TaskInv, SoleInv
  <2>2. DocInv'
    BY <1>1, <2>1 DEF DocInv
  <2>3. \A c \in task'[w].copy : mongo'[c[1]] \in {c[2], NoItem}
    BY <1>1, <1>3, <1>4
  <2>4. SoleInv(w)'
    BY <1>1, <1>3, <2>1, <2>3 DEF SoleInv
  <2>5. QED
    BY <2>2, <2>4
<1>7. QED
  BY <1>1, <1>2, <1>5, <1>6, Alone, TaskFrame DEF At, Sole

LEMMA FailingTask ==
  ASSUME Types, TaskInv, NEW w \in Worker, Failing(w), Next
  PROVE  TaskInv'
<1>1. UNCHANGED mongo /\ Others(w) /\ odd \subseteq odd'
  BY FailingTypes, OddGrows DEF dataVars
<1>2. ~At(w, "idle")
  BY DEF Failing, ItemFails, TaskFails, WorkerCrash, At
<1>3. /\ task'[w].at = "idle" \/ (task'[w].at = "item" /\ UNCHANGED owner)
      /\ task'[w].copy = {} /\ (task'[w].created # {} => task'[w].at = "item")
  <2>1. task[w].created \in SUBSET Doc
    BY DEF Types, Tasks
  <2>2. QED
    BY <2>1, DoneStep, EndStep DEF Failing, ItemFails, TaskFails, WorkerCrash, lockVars
<1>4. HandInv(w)'
  BY <1>3 DEF HandInv
<1>5. ASSUME Sole' PROVE DocInv' /\ SoleInv(w)' /\ \A x \in Worker \ {w} : At(x, "idle")
  <2>1. Sole
    BY <1>1, <1>5 DEF Sole
  <2>2. DocInv' /\ owner = w
    BY <1>1, <1>2, <2>1 DEF TaskInv, DocInv, SoleInv, At
  <2>3. SoleInv(w)'
    BY <1>3, <2>2 DEF SoleInv
  <2>4. QED
    BY <1>2, <2>1, <2>2, <2>3, Alone
<1>6. QED
  BY <1>1, <1>4, <1>5, TaskFrame

LEMMA TaskStep ==
  ASSUME Types, TaskInv, [Next]_vars
  PROVE  (Types /\ TaskInv)'
<1>1. CASE Next
  BY <1>1, TypesStep, NextCases, AroundTask, BeginningTask, FindingTask, WritingTask, CopyingTask,
     FailingTask
<1>2. CASE UNCHANGED vars
  <2>1. UNCHANGED <<feed, old, mongo, elastic, routed, owner, late, task, gc, odd>>
    BY <1>2 DEF vars, feedVars, dataVars, lockVars
  <2>2. Types'
    BY <2>1 DEF Types, L!LockType
  <2>3. TaskInv'
    BY <2>1 DEF TaskInv, HandInv, Sole, DocInv, SoleInv, Known
  <2>4. QED
    BY <2>2, <2>3
<1>3. QED
  BY <1>1, <1>2

LEMMA InitTask == Init => Types /\ TaskInv
<1> SUFFICES ASSUME Init PROVE Types /\ TaskInv
  OBVIOUS
<1>1. Types
  BY IdleType DEF Init, Types, L!LockInit, L!LockType, Stores, Resting
<1>2. TaskInv
  BY DEF Init, TaskInv, HandInv, DocInv, SoleInv, Idle, NoItem
<1>3. QED
  BY <1>1, <1>2

\* An item is in mongo once, as long as no batch outlives the lock of the provider
\* (io/commands/update_ingest.py, update_provider; guid has no unique index).
THEOREM OneDocument == Spec => []OneCopy
<1>1. Types /\ TaskInv => OneCopy
  <2> SUFFICES ASSUME Types, TaskInv, Sole, NEW g \in Guid PROVE Cardinality(Known(g)) <= 1
    BY DEF OneCopy, Sole
  <2>1. \A d, e \in Known(g) : d = e
    BY ItemFacts DEF TaskInv, DocInv, Known
  <2>2. Known(g) = {} \/ \E d \in Known(g) : Known(g) = {d}
    BY <2>1
  <2>3. QED
    BY <2>2, FS_EmptySet, FS_Singleton
<1>2. QED
  BY <1>1, InitTask, TaskStep, PTL DEF Spec

-----------------------------------------------------------------------------
(* Each version is routed once and in order.                               *)

\* Only routing marks an item as rerouted.
LEMMA RerouteOnly ==
  ASSUME Types, Next, \A w \in Worker : ~Route(w), NEW g
  PROVE  <<"rerouted", g>> \in odd' => <<"rerouted", g>> \in odd
<1>1. CASE Around
  BY <1>1, Markings DEF Around, Offer, Expire, TimeUp, GcFind, GcElastic, Unindex, GcMongo, GcSearch, GcClean, GcFails, Crossed
<1>2. ASSUME NEW w \in Worker, Beginning(w) PROVE <<"rerouted", g>> \in odd' => <<"rerouted", g>> \in odd
  BY <1>2, Markings DEF Beginning, Start, NextBatch, Finish
<1>3. ASSUME NEW w \in Worker, Finding(w) \/ Copying(w) PROVE odd' = odd
  BY <1>3, FindingTypes, CopyingTypes
<1>4. ASSUME NEW w \in Worker, Writing(w) PROVE <<"rerouted", g>> \in odd' => <<"rerouted", g>> \in odd
  BY <1>4, Markings DEF Writing, Post, Patch
<1>5. ASSUME NEW w \in Worker, Failing(w) PROVE <<"rerouted", g>> \in odd' => <<"rerouted", g>> \in odd
  BY <1>5, Markings DEF Failing, ItemFails, TaskFails, WorkerCrash, Torn
<1>6. QED
  BY <1>1, <1>2, <1>3, <1>4, <1>5, NextCases

\* Most steps leave alone what was routed and the versions in mongo.
LEMMA RouteFrame ==
  ASSUME Types, RouteInv, odd \subseteq odd', UNCHANGED routed,
         \A g \in Guid : old[g] <= old'[g] /\ old'[g] \in Nat,
         \A d \in Doc : mongo'[d].guid = mongo[d].guid /\ mongo'[d].version = mongo[d].version,
         \A w \in Worker : At(w, "route")' => At(w, "route") /\ task'[w].doc = task[w].doc
  PROVE  RouteInv'
<1> SUFFICES ASSUME Sole', NEW g \in Guid, ~Hit(g)'
             PROVE  /\ Known(g)' = {} => routed'[g] <= old'[g]
                    /\ \A d \in Known(g)' :
                         /\ routed'[g] <= mongo'[d].version
                         /\ \A w \in Worker : At(w, "route")' /\ task'[w].doc = d => routed'[g] < mongo'[d].version
  BY DEF RouteInv
<1>1. Sole /\ ~Hit(g)
  BY DEF Sole, Hit
<1>2. Known(g)' = Known(g)
  BY DEF Known
<1>3. routed[g] \in Nat /\ old[g] \in Nat
  BY DEF Types
<1>4. QED
  BY <1>1, <1>2, <1>3 DEF RouteInv, Known

LEMMA AroundRoute ==
  ASSUME Types, TaskInv, RouteInv, Around, Next
  PROVE  RouteInv'
<1>1. odd \subseteq odd' /\ UNCHANGED <<task, routed>> /\ Types'
  BY AroundTypes, OddGrows
<1>2. \A g \in Guid : old[g] <= old'[g]
  BY <1>1 DEF Around, Offer, Expire, TimeUp, GcFind, GcElastic, Unindex, GcMongo, GcSearch, GcClean, GcFails, GcStep,
     feedVars, Types
<1>3. CASE UNCHANGED mongo
  BY <1>1, <1>2, <1>3, RouteFrame DEF At, Types
<1>4. CASE GcMongo
  <2>1. /\ UNCHANGED old
        /\ \A d \in Doc : mongo'[d] = IF d \in gc.docs THEN NoItem ELSE mongo[d]
    BY <1>4 DEF GcMongo, GcStep, feedVars
  <2> SUFFICES ASSUME Sole', NEW g \in Guid, ~Hit(g)'
               PROVE  /\ Known(g)' = {} => routed'[g] <= old'[g]
                      /\ \A d \in Known(g)' :
                           /\ routed'[g] <= mongo'[d].version
                           /\ \A w \in Worker : At(w, "route")' /\ task'[w].doc = d => routed'[g] < mongo'[d].version
    BY DEF RouteInv
  <2>2. Sole /\ ~Hit(g)
    BY <1>1 DEF Sole, Hit
  <2>3. \A d \in Known(g)' : d \in Known(g) /\ mongo'[d] = mongo[d]
    BY <2>1, ItemFacts DEF Known
  <2>4. ASSUME NEW d \in Known(g), d \in gc.docs PROVE mongo[d].version <= old[g]
    <3>1. mongo[d] # NoItem /\ mongo[d].guid = g
      BY ItemFacts DEF Known
    <3>2. HasExpired(mongo[d])
      BY <1>4, <2>4, <3>1 DEF GcMongo, Crossed, Hit
    <3>3. QED
      BY <3>1, <3>2 DEF HasExpired
  <2>5. ASSUME Known(g)' = {} PROVE routed[g] <= old[g]
    <3>1. CASE Known(g) = {}
      BY <2>2, <3>1 DEF RouteInv
    <3>2. CASE Known(g) # {}
      <4>1. PICK d \in Known(g) : d \in gc.docs
        BY <2>1, <2>5, <3>2 DEF Known
      <4>2. routed[g] <= mongo[d].version /\ mongo[d].version <= old[g]
        BY <2>2, <2>4, <4>1 DEF RouteInv
      <4>3. mongo[d].version \in Nat /\ routed[g] \in Nat /\ old[g] \in Nat
        BY ItemFacts DEF Known, Types, Stores
      <4>4. QED
        BY <4>2, <4>3
    <3>3. QED
      BY <3>1, <3>2
  <2>6. QED
    BY <1>1, <2>1, <2>2, <2>3, <2>5 DEF RouteInv, At
<1>5. QED
  BY <1>3, <1>4 DEF Around, Offer, Expire, TimeUp, GcFind, GcElastic, Unindex, GcSearch, GcClean, GcFails, dataVars

LEMMA TaskRoute ==
  ASSUME Types, TaskInv, RouteInv, NEW w \in Worker,
         Beginning(w) \/ Finding(w) \/ Copying(w) \/ Failing(w), Next
  PROVE  RouteInv'
<1>1. UNCHANGED <<feedVars, routed>> /\ Others(w) /\ odd \subseteq odd'
  BY BeginningTypes, FindingTypes, CopyingTypes, FailingTypes, OddGrows DEF dataVars
<1>2. \A d \in Doc : mongo'[d].guid = mongo[d].guid /\ mongo'[d].version = mongo[d].version
  <2>1. CASE Finding(w)
    <3>1. PICK g \in Guid, v \in Nat : FindNone(w, g, v) \/ FindOld(w, g, v) \/ Cancel(w, g, v)
      BY <2>1 DEF Finding
    <3>2. UNCHANGED mongo \/ mongo' = Killed(g, mongo)
      BY <3>1 DEF FindNone, FindOld, Cancel, dataVars
    <3>3. QED
      BY <3>2, KilledType DEF Types
  <2>2. CASE ~Finding(w)
    BY <2>2, BeginningTypes, CopyingTypes, FailingTypes DEF dataVars
  <2>3. QED
    BY <2>1, <2>2
<1>3. task'[w].at # "route"
  <2>1. CASE Beginning(w)
    BY <2>1, PointStep, NextBatchStep, EndStep DEF Beginning, Start, Finish
  <2>2. CASE Finding(w)
    <3>1. PICK g \in Guid, v \in Nat : FindNone(w, g, v) \/ FindOld(w, g, v) \/ Cancel(w, g, v)
      BY <2>2 DEF Finding
    <3>2. At(w, "item") /\ (Skip(w, g, v) \/ \E d \in Doc \cup {NoDoc} : Take(w, g, v, d))
      BY <3>1 DEF FindNone, FindOld, Cancel, Known
    <3>3. QED
      BY <3>2, TakeStep, SkipStep DEF At
  <2>3. CASE Copying(w)
    BY <2>3, SyncReadStep, SyncWriteStep DEF Copying
  <2>4. CASE Failing(w)
    <3>1. task[w].created \in SUBSET Doc
      BY DEF Types, Tasks
    <3>2. QED
      BY <2>4, <3>1, DoneStep, EndStep DEF Failing, ItemFails, TaskFails, WorkerCrash
  <2>5. QED
    BY <2>1, <2>2, <2>3, <2>4
<1>4. \A x \in Worker : At(x, "route")' => At(x, "route") /\ task'[x].doc = task[x].doc
  BY <1>1, <1>3 DEF At, Others
<1>5. \A g \in Guid : old[g] <= old'[g] /\ old'[g] \in Nat
  BY <1>1 DEF Types, feedVars
<1>6. QED
  BY <1>1, <1>2, <1>4, <1>5, RouteFrame

\* The document a task has just written is newer than what was routed.
LEMMA StoredRoute ==
  ASSUME Types, TaskInv, RouteInv, NEW w \in Worker, Writing(w), Next, NEW d \in Doc,
         ~At(w, "idle"), UNCHANGED <<old, routed>>, task'[w].doc = d,
         mongo' = [mongo EXCEPT ![d] = NewItem(w)], NEW h \in Guid, h = task[w].guid,
         mongo[d] = NoItem \/ mongo[d].guid = h,
         Sole' /\ ~Hit(h)' => routed[h] < task[w].version
  PROVE  RouteInv'
<1>1. Others(w) /\ odd \subseteq odd' /\ Types'
  BY WritingTypes, OddGrows DEF TaskInv
<1>2. /\ mongo'[d].guid = task[w].guid /\ mongo'[d].version = task[w].version
      /\ \A e \in Doc \ {d} : mongo'[e] = mongo[e]
  BY NewItemType DEF Types, Stores
<1> SUFFICES ASSUME Sole', NEW g \in Guid, ~Hit(g)'
             PROVE  /\ Known(g)' = {} => routed[g] <= old[g]
                    /\ \A e \in Known(g)' :
                         /\ routed[g] <= mongo'[e].version
                         /\ \A x \in Worker : At(x, "route")' /\ task'[x].doc = e => routed[g] < mongo'[e].version
  BY DEF RouteInv
<1>3. Sole /\ ~Hit(g) /\ TaskInv'
  BY <1>1, TaskStep DEF Sole, Hit
<1>4. \A x \in Worker \ {w} : ~At(x, "route")'
  BY <1>1, <1>3, Alone DEF Others, At
<1>5. CASE g = h
  <2>1. d \in Known(g)' /\ \A e \in Known(g)' : e = d
    BY <1>2, <1>3, <1>5, ItemFacts DEF Known, TaskInv, DocInv
  <2>2. routed[g] < mongo'[d].version /\ routed[g] \in Nat /\ mongo'[d].version \in Nat
    BY <1>2, <1>5 DEF Types, Tasks
  <2>3. QED
    BY <2>1, <2>2
<1>6. CASE g # h
  <2>1. Known(g)' = Known(g) /\ d \notin Known(g)
    BY <1>2, <1>6, ItemFacts DEF Known
  <2>2. \A e \in Known(g)' : mongo'[e] = mongo[e] /\ e # d
    BY <1>2, <2>1 DEF Known
  <2>3. QED
    BY <1>3, <1>4, <2>1, <2>2 DEF RouteInv
<1>7. QED
  BY <1>5, <1>6

LEMMA PostRoute ==
  ASSUME Types, TaskInv, RouteInv, NEW w \in Worker, Post(w), Next
  PROVE  RouteInv'
<1>1. PICK d \in Doc : /\ ~InUse(d) /\ mongo' = [mongo EXCEPT ![d] = NewItem(w)]
                       /\ task'[w].doc = d
  BY PostStep
<1>2. At(w, "write") /\ task[w].doc = NoDoc /\ task[w].guid \in Guid
  BY DEF Post, TaskInv, HandInv, At
<1> PICK g \in Guid : g = task[w].guid
  BY <1>2
<1>3. ASSUME Sole', ~Hit(g)' PROVE routed[g] < task[w].version
  <2>1. Sole /\ ~Hit(g)
    BY <1>3, OddGrows DEF Sole, Hit
  <2>2. Known(g) = {}
    BY <1>2, <2>1 DEF TaskInv, SoleInv, At
  <2>3. routed[g] <= old[g]
    BY <1>2, <2>1, <2>2 DEF RouteInv
  <2>4. ~HasExpired(NewItem(w))
    BY <1>3 DEF Post, Hit
  <2>5. ~(task[w].version <= old[g])
    BY <1>2, <2>4, NewItemType, ItemFacts DEF HasExpired
  <2>6. routed[g] \in Nat /\ old[g] \in Nat /\ task[w].version \in Nat
    BY <1>2 DEF Types, Tasks
  <2>7. QED
    BY <2>3, <2>5, <2>6
<1>4. UNCHANGED <<old, routed>> /\ Writing(w) /\ mongo[d] = NoItem /\ ~At(w, "idle")
  BY <1>1, <1>2 DEF Post, feedVars, Writing, InUse, At
<1>5. QED
  BY <1>1, <1>2, <1>3, <1>4, StoredRoute

LEMMA PatchRoute ==
  ASSUME Types, TaskInv, RouteInv, NEW w \in Worker, Patch(w), Next
  PROVE  RouteInv'
<1>1. /\ At(w, "write") /\ task[w].doc \in Doc /\ task[w].guid \in Guid
      /\ UNCHANGED <<old, routed, odd>> /\ Others(w) /\ Writing(w)
  BY WritingTypes DEF Patch, TaskInv, HandInv, At, Types, Tasks, feedVars, Writing
<1> PICK g \in Guid, d \in Doc : g = task[w].guid /\ d = task[w].doc
  BY <1>1
<1>2. CASE Unchanged(w)
  <2>1. /\ mongo[d] \in Items /\ mongo[d].guid = g /\ task[w].version > mongo[d].version
    BY <1>1, <1>2 DEF Unchanged, TaskInv, HandInv, Patch, At
  <2>2. /\ mongo' = [mongo EXCEPT ![d] = NewItem(w)] /\ task'[w].doc = d
    BY <1>2, PointStep DEF Patch
  <2>3. ASSUME Sole', ~Hit(g)' PROVE routed[g] < task[w].version
    <3>1. Sole /\ ~Hit(g) /\ d \in Known(g)
      BY <1>1, <2>1, <2>3 DEF Sole, Hit, Known
    <3>2. routed[g] <= mongo[d].version
      BY <1>1, <3>1 DEF RouteInv
    <3>3. routed[g] \in Nat /\ mongo[d].version \in Nat /\ task[w].version \in Nat
      BY <1>1, <2>1, ItemFacts DEF Types, Tasks
    <3>4. QED
      BY <2>1, <3>2, <3>3
  <2>4. QED
    BY <1>1, <2>1, <2>2, <2>3, StoredRoute DEF At
<1>3. CASE ~Unchanged(w)
  <2>1. task[w].created \in SUBSET Doc
    BY DEF Types, Tasks
  <2>2. UNCHANGED mongo /\ task'[w].at = "item"
    BY <1>3, <2>1, DoneStep DEF Patch
  <2>3. \A x \in Worker : At(x, "route")' => At(x, "route") /\ task'[x].doc = task[x].doc
    BY <1>1, <2>2 DEF At, Others
  <2>4. \A h \in Guid : old[h] <= old'[h] /\ old'[h] \in Nat
    BY <1>1 DEF Types
  <2>5. QED
    BY <1>1, <2>2, <2>3, <2>4, RouteFrame
<1>4. QED
  BY <1>2, <1>3

LEMMA RouteRoute ==
  ASSUME Types, TaskInv, RouteInv, RoutedOnce, NEW w \in Worker, Route(w), Next
  PROVE  RouteInv' /\ RoutedOnce'
<1>1. /\ At(w, "route") /\ task[w].doc \in Doc /\ task[w].guid \in Guid
      /\ UNCHANGED <<old, mongo>> /\ Others(w) /\ odd \subseteq odd' /\ Types'
  BY WritingTypes, OddGrows DEF Route, TaskInv, HandInv, At, feedVars, Writing
<1> DEFINE item == mongo[task[w].doc]
<1>2. task'[w].at = "item"
  <2>1. task[w].created \in SUBSET Doc /\ Created(w) \in SUBSET Doc
    BY <1>1 DEF Created, Types, Tasks
  <2>2. QED
    BY <2>1, DoneStep DEF Route
<1>3. \A x \in Worker : At(x, "route")' => At(x, "route") /\ task'[x].doc = task[x].doc
  BY <1>1, <1>2 DEF At, Others
<1>4. CASE item = NoItem
  <2>1. UNCHANGED <<routed, odd>>
    BY <1>4 DEF Route
  <2>2. \A h \in Guid : old[h] <= old'[h] /\ old'[h] \in Nat
    BY <1>1 DEF Types
  <2>3. QED
    BY <1>1, <1>3, <2>1, <2>2, RouteFrame DEF RoutedOnce
<1>5. CASE item # NoItem
  <2> DEFINE h == item.guid
  <2>1. item \in Items /\ h \in Guid /\ item.version \in Nat /\ routed[h] \in Nat
        /\ task[w].doc \in Known(h)
    BY <1>1, <1>5, ItemFacts DEF Types, Stores, Known
  <2>2. /\ routed' = [routed EXCEPT ![h] = Max({@, item.version})]
        /\ odd' = IF item.version > routed[h] THEN odd ELSE odd \cup {<<"rerouted", h>>}
    BY <1>5 DEF Route
  <2>3. Sole /\ ~Hit(h) => routed[h] < item.version
    BY <1>1, <2>1 DEF RouteInv
  <2>4. Sole /\ ~Hit(h) => routed'[h] = item.version
    BY <2>1, <2>2, <2>3, MaxOfTwo DEF Types
  <2>5. RoutedOnce'
    BY <2>1, <2>2, <2>3, Markings DEF RoutedOnce, Sole, Hit
  <2>6. RouteInv'
    <3> SUFFICES ASSUME Sole', NEW g \in Guid, ~Hit(g)'
                 PROVE  /\ Known(g)' = {} => routed'[g] <= old'[g]
                        /\ \A e \in Known(g)' :
                             /\ routed'[g] <= mongo'[e].version
                             /\ \A x \in Worker : At(x, "route")' /\ task'[x].doc = e => routed'[g] < mongo'[e].version
      BY DEF RouteInv
    <3>1. Sole /\ ~Hit(g) /\ Known(g)' = Known(g)
      BY <1>1 DEF Sole, Hit, Known
    <3>2. \A x \in Worker : ~At(x, "route")'
      BY <1>1, <1>3, <3>1, Alone, <1>2 DEF At
    <3>3. CASE g = h
      <4>1. \A e \in Known(g) : e = task[w].doc
        BY <1>1, <2>1, <3>1, <3>3, <1>5 DEF TaskInv, DocInv, Known
      <4>2. routed'[g] = item.version
        BY <2>4, <3>1, <3>3
      <4>3. QED
        BY <1>1, <2>1, <3>1, <3>2, <3>3, <4>1, <4>2
    <3>4. CASE g # h
      <4>1. routed'[g] = routed[g]
        BY <2>2, <3>4 DEF Types
      <4>2. QED
        BY <1>1, <3>1, <3>2, <4>1 DEF RouteInv
    <3>5. QED
      BY <3>3, <3>4
  <2>7. QED
    BY <2>5, <2>6
<1>6. QED
  BY <1>4, <1>5

\* The routing scheme is applied to each version of an item once and in order, as long
\* as no batch outlives the lock of the provider and the removal does not meet an update
\* of the item (io/commands/update_ingest.py, ingest_item).
THEOREM EachVersionOnce == Spec => []RoutedOnce
<1> DEFINE I == Types /\ TaskInv /\ RouteInv /\ RoutedOnce
<1>1. Init => I
  <2>1. Init => RouteInv /\ RoutedOnce
    BY ItemFacts DEF Init, RouteInv, RoutedOnce, Known, At, Idle
  <2>2. QED
    BY <2>1, InitTask
<1>2. I /\ [Next]_vars => I'
  <2> SUFFICES ASSUME I, [Next]_vars PROVE I'
    OBVIOUS
  <2>1. CASE Next
    <3>1. CASE \E w \in Worker : Route(w)
      BY <2>1, <3>1, TaskStep, RouteRoute
    <3>2. CASE \A w \in Worker : ~Route(w)
      <4>1. RoutedOnce'
        BY <2>1, <3>2, RerouteOnly, OddGrows DEF RoutedOnce
      <4>2. RouteInv'
        BY <2>1, <3>2, NextCases, AroundRoute, TaskRoute, PostRoute, PatchRoute DEF Writing
      <4>3. QED
        BY <2>1, <4>1, <4>2, TaskStep
    <3>3. QED
      BY <3>1, <3>2
  <2>2. CASE UNCHANGED vars
    BY <2>2, TaskStep DEF vars, feedVars, dataVars, RouteInv, RoutedOnce, Sole, Hit, Known, At
  <2>3. QED
    BY <2>1, <2>2
<1>3. QED
  BY <1>1, <1>2, PTL DEF Spec

-----------------------------------------------------------------------------
(* Elastic catches up with mongo.                                          *)

\* d is in mongo, and excused from being the same in elastic.
Excused(d) == \/ \E w \in Worker : InHand(w, d)
              \/ HasExpired(mongo[d])
              \/ <<"crossed", mongo[d].guid>> \in odd \/ <<"torn", mongo[d].guid>> \in odd

LEMMA IndexExcused ==
  IndexCatchesUp <=>
    (Sole => \A d \in Doc : mongo[d] # NoItem /\ elastic[d] # mongo[d] => Excused(d))
  BY DEF IndexCatchesUp, Sole, Excused

\* What was excused stays so when it stays in hand, or its task failed.
LEMMA ExcuseKept ==
  ASSUME Types, Types', NEW d \in Doc, mongo[d] # NoItem, mongo'[d] = mongo[d], odd \subseteq odd',
         \A g \in Guid : old[g] <= old'[g], Excused(d),
         (\E w \in Worker : InHand(w, d)) =>
           (\E w \in Worker : InHand(w, d)') \/ <<"torn", mongo[d].guid>> \in odd'
  PROVE  Excused(d)'
<1>1. mongo[d].guid \in Guid /\ mongo[d].version \in Nat
  BY ItemFacts DEF Types, Stores
<1>2. HasExpired(mongo[d]) => HasExpired(mongo[d])'
  <2>1. old[mongo[d].guid] \in Nat /\ old'[mongo[d].guid] \in Nat
    BY <1>1 DEF Types
  <2>2. QED
    BY <1>1, <2>1 DEF HasExpired
<1>3. QED
  BY <1>2 DEF Excused

LEMMA AroundIndex ==
  ASSUME Types, TaskInv, IndexCatchesUp, Around, Next
  PROVE  IndexCatchesUp'
<1>1. odd \subseteq odd' /\ UNCHANGED task /\ Types'
  BY AroundTypes, OddGrows
<1>2. \A g \in Guid : old[g] <= old'[g]
  BY <1>1 DEF Around, Offer, Expire, TimeUp, GcFind, GcElastic, Unindex, GcMongo, GcSearch, GcClean, GcFails, GcStep,
     feedVars, Types
<1>3. \A d \in Doc : mongo'[d] \in {mongo[d], NoItem}
  BY DEF Around, Offer, Expire, TimeUp, GcFind, GcElastic, Unindex, GcMongo, GcSearch, GcClean, GcFails, dataVars
<1> SUFFICES ASSUME Sole', NEW d \in Doc, mongo'[d] # NoItem, elastic'[d] # mongo'[d]
             PROVE  Excused(d)'
  BY IndexExcused DEF IndexCatchesUp, Sole, Excused
<1>4. mongo'[d] = mongo[d] /\ mongo[d] # NoItem /\ Sole
  BY <1>1, <1>3 DEF Sole
<1>5. (\E w \in Worker : InHand(w, d)) => \E w \in Worker : InHand(w, d)'
  BY <1>1 DEF InHand, At
<1>6. CASE elastic[d] # mongo[d]
  BY <1>1, <1>2, <1>4, <1>5, <1>6, IndexExcused, ExcuseKept
<1>7. CASE elastic[d] = mongo[d]
  <2>1. CASE GcElastic \/ GcClean
    <3>1. d \in gc.docs
      BY <1>4, <1>7, <2>1 DEF GcElastic, GcClean, Unindex
    <3>2. mongo[d] \in {elastic[e] : e \in gc.docs} \ {NoItem}
      BY <1>4, <1>7, <3>1
    <3>3. HasExpired(mongo[d]) \/ <<"crossed", mongo[d].guid>> \in odd'
      BY <2>1, <3>2 DEF GcElastic, GcClean, Unindex, Crossed
    <3>4. CASE HasExpired(mongo[d])
      <4>1. Excused(d)
        BY <3>4 DEF Excused
      <4>2. QED
        BY <1>1, <1>2, <1>4, <1>5, <4>1, ExcuseKept
    <3>5. CASE <<"crossed", mongo[d].guid>> \in odd'
      BY <1>4, <3>5 DEF Excused
    <3>6. QED
      BY <3>3, <3>4, <3>5
  <2>2. CASE ~GcElastic /\ ~GcClean
    BY <1>4, <1>7, <2>2 DEF Around, Offer, Expire, TimeUp, GcFind, GcMongo, GcSearch, GcFails, dataVars
  <2>3. QED
    BY <2>1, <2>2
<1>8. QED
  BY <1>6, <1>7

\* The steps of tasks that change neither mongo nor elastic, but for documents that
\* are in hand then or the same in both.
LEMMA TaskIndex ==
  ASSUME Types, Types', TaskInv, IndexCatchesUp, NEW w \in Worker, Others(w), odd \subseteq odd',
         UNCHANGED feedVars,
         ASSUME Sole, NEW d \in Doc, mongo'[d] # NoItem, elastic'[d] # mongo'[d]
         PROVE  \/ InHand(w, d)'
                \/ /\ mongo'[d] = mongo[d] /\ elastic'[d] = elastic[d]
                   /\ InHand(w, d) => <<"torn", mongo[d].guid>> \in odd'
  PROVE  IndexCatchesUp'
<1> SUFFICES ASSUME Sole', NEW d \in Doc, mongo'[d] # NoItem, elastic'[d] # mongo'[d]
             PROVE  Excused(d)'
  BY IndexExcused DEF IndexCatchesUp, Sole, Excused
<1>1. Sole
  BY DEF Sole
<1>2. CASE InHand(w, d)'
  BY <1>2 DEF Excused
<1>3. CASE /\ mongo'[d] = mongo[d] /\ elastic'[d] = elastic[d]
           /\ InHand(w, d) => <<"torn", mongo[d].guid>> \in odd'
  <2>1. Excused(d)
    BY <1>1, <1>3, IndexExcused
  <2>2. \A g \in Guid : old[g] <= old'[g]
    BY DEF feedVars, Types
  <2>3. \A x \in Worker : x # w /\ InHand(x, d) => InHand(x, d)'
    BY DEF InHand, At, Others
  <2>4. QED
    BY <1>3, <2>1, <2>2, <2>3, ExcuseKept
<1>4. QED
  BY <1>1, <1>2, <1>3

LEMMA BeginningIndex ==
  ASSUME Types, TaskInv, IndexCatchesUp, NEW w \in Worker, Beginning(w), Next
  PROVE  IndexCatchesUp'
<1>1. Types' /\ UNCHANGED <<feedVars, dataVars>> /\ Others(w) /\ odd \subseteq odd'
  BY BeginningTypes, OddGrows
<1>2. task[w].created = {} /\ task[w].copy = {} /\ ~At(w, "route")
  BY DEF TaskInv, HandInv, Beginning, Start, NextBatch, Finish, At
<1>3. \A d \in Doc : ~InHand(w, d)
  BY <1>2 DEF InHand
<1>4. QED
  BY <1>1, <1>3, TaskIndex DEF dataVars

LEMMA FindingIndex ==
  ASSUME Types, TaskInv, IndexCatchesUp, NEW w \in Worker, Finding(w), Next
  PROVE  IndexCatchesUp'
<1>1. Types' /\ UNCHANGED feedVars /\ Others(w) /\ odd \subseteq odd'
  BY FindingTypes, OddGrows
<1>2. PICK g \in Guid, v \in Nat : FindNone(w, g, v) \/ FindOld(w, g, v) \/ Cancel(w, g, v)
  BY DEF Finding
<1>3. At(w, "item") /\ (Skip(w, g, v) \/ \E d \in Doc \cup {NoDoc} : Take(w, g, v, d))
  BY <1>2 DEF FindNone, FindOld, Cancel, Known
<1>4. task'[w].created = task[w].created /\ task'[w].copy = task[w].copy
  BY <1>3, TakeStep, SkipStep
<1>5. \A d \in Doc : InHand(w, d) => InHand(w, d)'
  BY <1>3, <1>4 DEF InHand, At
<1>6. \A d \in Doc : elastic'[d] # mongo'[d] => mongo'[d] = mongo[d] /\ elastic'[d] = elastic[d]
  BY <1>2 DEF FindNone, FindOld, Cancel, Killed, dataVars
<1>7. QED
  BY <1>1, <1>5, <1>6, TaskIndex

LEMMA WritingIndex ==
  ASSUME Types, TaskInv, IndexCatchesUp, NEW w \in Worker, Writing(w), Next
  PROVE  IndexCatchesUp'
<1>0. HandInv(w) /\ task[w].created \in SUBSET Doc
  BY DEF TaskInv, Types, Tasks
<1>1. Types' /\ UNCHANGED <<feedVars, elastic>> /\ Others(w) /\ odd \subseteq odd'
  BY <1>0, WritingTypes, OddGrows
<1>2. task[w].copy = {}
  BY <1>0 DEF HandInv, Writing, Post, Patch, Route, At
<1>3. CASE Post(w)
  <2>1. PICK d \in Doc : /\ mongo' = [mongo EXCEPT ![d] = NewItem(w)]
                         /\ task'[w].at = "route" /\ task'[w].doc = d /\ task'[w].created = task[w].created
    BY <1>3, PostStep
  <2>2. ~At(w, "route")
    BY <1>3 DEF Post, At
  <2>3. \A e \in Doc : InHand(w, e)' \/ (mongo'[e] = mongo[e] /\ ~InHand(w, e))
    BY <1>2, <2>1, <2>2 DEF InHand, At, Types, Stores
  <2>4. QED
    BY <1>1, <2>3, TaskIndex
<1>4. CASE Patch(w)
  <2>1. ~At(w, "route")
    BY <1>4 DEF Patch, At
  <2>2. CASE Unchanged(w)
    <3>1. /\ mongo' = [mongo EXCEPT ![task[w].doc] = NewItem(w)]
          /\ task'[w].at = "route" /\ task'[w].doc = task[w].doc /\ task'[w].created = task[w].created
      BY <1>4, <2>2, PointStep DEF Patch
    <3>2. \A e \in Doc : InHand(w, e)' \/ (mongo'[e] = mongo[e] /\ ~InHand(w, e))
      BY <1>2, <2>1, <3>1 DEF InHand, At, Types, Stores
    <3>3. QED
      BY <1>1, <3>2, TaskIndex
  <2>3. CASE ~Unchanged(w)
    <3>1. UNCHANGED mongo /\ task'[w].created = task[w].created
      BY <1>0, <1>4, <2>3, DoneStep DEF Patch
    <3>2. \A e \in Doc : InHand(w, e)' \/ ~InHand(w, e)
      BY <1>2, <2>1, <3>1 DEF InHand, At
    <3>3. QED
      BY <1>1, <3>1, <3>2, TaskIndex
  <2>4. QED
    BY <2>2, <2>3
<1>5. CASE Route(w)
  <2>1. UNCHANGED mongo /\ Created(w) \in SUBSET Doc /\ At(w, "route")
    BY <1>0, <1>5 DEF Route, Created, HandInv, At
  <2>2. \/ mongo[task[w].doc] = NoItem /\ task'[w].created = task[w].created
        \/ task'[w].created = Created(w)
    BY <1>0, <1>5, <2>1, DoneStep DEF Route
  <2>3. \A e \in Doc : mongo'[e] # NoItem => InHand(w, e)' \/ ~InHand(w, e)
    BY <1>2, <2>1, <2>2 DEF InHand, At, Created
  <2>4. QED
    BY <1>1, <2>1, <2>3, TaskIndex
<1>6. QED
  BY <1>3, <1>4, <1>5 DEF Writing

LEMMA CopyingIndex ==
  ASSUME Types, TaskInv, IndexCatchesUp, NEW w \in Worker, Copying(w), Next
  PROVE  IndexCatchesUp'
<1>1. Types' /\ UNCHANGED <<feedVars, mongo>> /\ Others(w) /\ odd \subseteq odd' /\ HandInv(w)
  BY CopyingTypes, OddGrows DEF TaskInv
<1>2. CASE SyncRead(w)
  <2>1. UNCHANGED elastic /\ At(w, "item") /\ task'[w].copy = Found(w)
    BY <1>2, SyncReadStep DEF SyncRead, dataVars
  <2>2. task[w].copy = {}
    BY <1>1, <2>1 DEF HandInv, At
  <2>3. ASSUME NEW d \in Doc, mongo[d] # NoItem, InHand(w, d) PROVE InHand(w, d)'
    <3>1. d \in task[w].created
      BY <2>1, <2>2, <2>3 DEF InHand, At
    <3>2. <<d, mongo[d]>> \in Found(w)
      BY <2>3, <3>1 DEF Found
    <3>3. QED
      BY <2>1, <3>2 DEF InHand
  <2>4. QED
    BY <1>1, <2>1, <2>3, TaskIndex
<1>3. CASE SyncWrite(w)
  <2>1. At(w, "sync") /\ task[w].created = {}
    BY <1>1, <1>3 DEF SyncWrite, HandInv, At
  <2>2. ASSUME Sole, NEW d \in Doc, mongo[d] # NoItem, InHand(w, d) PROVE elastic'[d] = mongo[d]
    <3>1. PICK c \in task[w].copy : c[1] = d
      BY <2>1, <2>2 DEF InHand, At
    <3>2. mongo[d] = c[2]
      BY <2>2, <3>1 DEF TaskInv, SoleInv
    <3>3. (CHOOSE e \in task[w].copy : e[1] = d) = c
      BY <1>1, <3>1 DEF HandInv
    <3>4. QED
      BY <1>3, <3>1, <3>2, <3>3 DEF SyncWrite
  <2>3. \A d \in Doc : ~InHand(w, d) => elastic'[d] = elastic[d]
    BY <1>3 DEF SyncWrite, InHand
  <2>4. QED
    BY <1>1, <2>2, <2>3, TaskIndex
<1>4. QED
  BY <1>2, <1>3 DEF Copying

LEMMA FailingIndex ==
  ASSUME Types, TaskInv, IndexCatchesUp, NEW w \in Worker, Failing(w), Next
  PROVE  IndexCatchesUp'
<1>1. Types' /\ UNCHANGED <<feedVars, dataVars>> /\ Others(w) /\ odd \subseteq odd' /\ HandInv(w)
  BY FailingTypes, OddGrows DEF TaskInv
<1>2. ASSUME Sole, At(w, "route"), mongo[task[w].doc] # NoItem
      PROVE  mongo[task[w].doc].guid = task[w].guid
  BY <1>2 DEF TaskInv, SoleInv, At
<1>3. ASSUME Sole, NEW d \in Doc, mongo[d] # NoItem, InHand(w, d)
      PROVE  InHand(w, d)' \/ <<"torn", mongo[d].guid>> \in odd'
  <2>1. CASE ItemFails(w)
    <3>1. task'[w].created = task[w].created /\ task[w].copy = {}
      BY <1>1, <2>1, DoneStep DEF ItemFails, Types, Tasks, HandInv, At
    <3>2. CASE d \in task[w].created
      BY <3>1, <3>2 DEF InHand
    <3>3. CASE At(w, "route") /\ task[w].doc = d
      BY <1>2, <1>3, <2>1, <3>3 DEF ItemFails, Torn
    <3>4. QED
      BY <1>3, <3>1, <3>2, <3>3 DEF InHand
  <2>2. CASE TaskFails(w) \/ WorkerCrash(w)
    <3>1. mongo[d].guid \in Pending(w)
      <4>1. CASE d \in task[w].created
        BY <1>3, <4>1 DEF Pending
      <4>2. CASE At(w, "route") /\ task[w].doc = d
        BY <1>2, <1>3, <4>2 DEF Pending
      <4>3. CASE \E c \in task[w].copy : c[1] = d
        <5>1. PICK c \in task[w].copy : c[1] = d
          BY <4>3
        <5>2. mongo[d] = c[2] /\ c = <<c[1], c[2]>>
          BY <1>3, <5>1 DEF TaskInv, SoleInv, Types, Tasks
        <5>3. <<d, mongo[d]>> \in task[w].copy
          BY <5>1, <5>2
        <5>4. QED
          BY <1>3, <5>3 DEF Pending
      <4>4. QED
        BY <1>3, <4>1, <4>2, <4>3 DEF InHand
    <3>2. QED
      BY <2>2, <3>1 DEF TaskFails, WorkerCrash, Torn
  <2>3. QED
    BY <2>1, <2>2 DEF Failing
<1>4. QED
  BY <1>1, <1>3, TaskIndex DEF dataVars

\* What elastic lacks of mongo, or has in another version, a running task has in hand,
\* or it has expired, unless a task failed halfway, the removal met an update of it or
\* a batch outlived the lock (io/commands/update_ingest.py, ingest_items; the data layer
\* writes to mongo alone there).
THEOREM ElasticFollows == Spec => []IndexCatchesUp
<1> DEFINE I == Types /\ TaskInv /\ IndexCatchesUp
<1>1. Init => I
  <2>1. Init => IndexCatchesUp
    BY DEF Init, IndexCatchesUp
  <2>2. QED
    BY <2>1, InitTask
<1>2. I /\ [Next]_vars => I'
  <2> SUFFICES ASSUME I, [Next]_vars PROVE I'
    OBVIOUS
  <2>1. CASE Next
    BY <2>1, TaskStep, NextCases, AroundIndex, BeginningIndex, FindingIndex, WritingIndex,
       CopyingIndex, FailingIndex
  <2>2. CASE UNCHANGED vars
    BY <2>2, TaskStep DEF vars, feedVars, dataVars, IndexCatchesUp, InHand, At, HasExpired
  <2>3. QED
    BY <2>1, <2>2
<1>3. QED
  BY <1>1, <1>2, PTL DEF Spec
=============================================================================
