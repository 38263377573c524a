----------------------------- MODULE Retention -----------------------------
(***************************************************************************)
(* What becomes of an article after its publication.  The legal archive    *)
(* (apps/legal_archive/commands.py) copies the article, its versions and   *)
(* its publish_queue entries, and flags what it has copied as              *)
(* moved_to_legal: by a task after each publication, and by two commands   *)
(* for what the tasks have missed.  Content expiry                         *)
(* (apps/archive/commands.py) removes expired articles once everything of  *)
(* them is flagged, family by family, after copying the published versions *)
(* to archived.  The flags are all the two sides have in common.           *)
(***************************************************************************)
EXTENDS Naturals, FiniteSets, FiniteSetsExt

CONSTANTS
  Article,       \* numbered in the order of their guid
  Refs,          \* [Article -> SUBSET Article]: rewrites, packages and their items
  Initial,       \* their states at first, and those with an import task
  Audience,      \* SUBSET Article: those with subscribers
  LastVersion,   \* [Article -> Nat]: bound, the versions an article reaches
  Worker,        \* celery workers taking import_into_legal_archive tasks
  Command,       \* the process that runs ImportLegalArchiveCommand
  BatchSize,     \* MAX_EXPIRY_QUERY_LIMIT
  MaxFaults      \* bound on crashes and failing calls

ASSUME ArticleAssumption == Article \subseteq Nat \ {0} /\ IsFiniteSet(Article)
ASSUME RefsAssumption ==
  /\ Refs \in [Article -> SUBSET Article]
  /\ \A a, b \in Article : b \in Refs[a] => a \in Refs[b]
ASSUME InitialAssumption == Initial \subseteq
  [state : [Article -> {"draft", "spiked", "published"}], tasks : SUBSET Article]
ASSUME AudienceAssumption == Audience \subseteq Article
ASSUME VersionAssumption == LastVersion \in [Article -> Nat \ {0}]
ASSUME CommandAssumption == Command \notin Worker
ASSUME BoundAssumption == BatchSize \in Nat \ {0} /\ MaxFaults \in Nat

VARIABLES
  version,       \* [Article -> Nat]: _current_version in archive, 0 once removed
  state,         \* [Article -> {"draft", "spiked", "published", "killed"}]
  expired,       \* SUBSET Article: expiry has passed
  versions,      \* [Article -> SUBSET Version]: documents in archive_versions
  writing,       \* [Article -> SUBSET Task]: what a request publishing it has still to do
  published,     \* [Article -> SUBSET Version]: entries in published
  moved,         \* [Article -> SUBSET Version]: those with moved_to_legal
  queue,         \* [Article -> SUBSET Version]: entries in publish_queue
  qmoved,        \* [Article -> SUBSET Version]: those with moved_to_legal
  invalid,       \* SUBSET Article: expiry_status is "invalid"
  legal,         \* [Article -> Nat]: version of the legal_archive document, 0: none
  legalVersions, \* [Article -> SUBSET Version]: legal_archive_versions
  legalQueue,    \* [Article -> SUBSET Version]: legal_publish_queue
  archived,      \* [Article -> SUBSET Version]: entries in archived
  tasks,         \* SUBSET Article: an import task waits in the broker
  import,        \* [Importer -> Import]: the upsert_into_legal_archive running
  job,           \* RemoveExpiredContent: where it is and the sets it has built
  position,      \* LAST_ID_CONFIG: where the next job goes on, 0: at the start
  faults,        \* crashes and failing calls so far
  odd            \* ghost, [Article -> SUBSET Oddity]: see Oddity

prodVars  == <<version, state, expired, versions, writing>>
pubVars   == <<published, moved, queue, qmoved>>
legalVars == <<legal, legalVersions, legalQueue>>
expVars   == <<archived, job, position>>
vars == <<prodVars, pubVars, invalid, legalVars, tasks, import, expVars, faults, odd>>

-----------------------------------------------------------------------------
Importer   == Worker \cup {Command}
Version    == 1..Max({LastVersion[a] : a \in Article})
Import == [at : {"idle", "upsert", "flag", "queue"},
           art : Article \cup {0}, doc : {0} \cup Version, found : {0} \cup Version]
Idle   == [at |-> "idle", art |-> 0, doc |-> 0, found |-> 0]
Task   == {"post", "keep", "send"}
Job    == [at : {"idle", "move", "purge", "queue", "drop", "kill"}, item : {0} \cup Article,
           archive : SUBSET Article, killed : SUBSET Article, removed : SUBSET Article,
           issues : SUBSET Article]
Resting == [at |-> "idle", item |-> 0, archive |-> {}, killed |-> {}, removed |-> {},
            issues |-> {}]

\* raced   published, killed or enqueued while the job was removing it
\* torn    the job failed or died while it was moving it
\* halved  only a part of its entries in published and publish_queue was deleted
\* blind   the job could not ask which of its entries had been moved
\* early   imported without one of its versions, which archive_versions lacked
Oddity == {"raced", "torn", "halved", "blind", "early"}

Init ==
  /\ version = [a \in Article |-> 1]
  /\ \E i \in Initial : state = i.state /\ tasks = i.tasks
  /\ expired = {}
  /\ versions = [a \in Article |-> {1}]
  /\ writing = [a \in Article |-> {}]
  /\ published = [a \in Article |-> IF state[a] = "published" THEN {1} ELSE {}]
  /\ moved = [a \in Article |-> IF a \in tasks THEN {} ELSE published[a]]
  /\ queue = [a \in Article |-> IF a \in Audience THEN published[a] ELSE {}]
  /\ qmoved = [a \in Article |-> queue[a] \cap moved[a]]
  /\ invalid = {}
  /\ legal = [a \in Article |-> Cardinality(moved[a])]
  /\ legalVersions = moved
  /\ legalQueue = qmoved
  /\ archived = [a \in Article |-> {}]
  /\ import = [p \in Importer |-> Idle]
  /\ job = Resting
  /\ position = 0
  /\ faults = 0
  /\ odd = [a \in Article |-> {}]

Add(f, a, S) == [f EXCEPT ![a] = @ \cup S]

IsExpired(a) == a \in expired

Fault == faults < MaxFaults /\ faults' = faults + 1

-----------------------------------------------------------------------------
(* The newsroom, as far as the two jobs see it.                            *)

InJob(a) == a \in job.archive \cup job.killed \cup job.removed

Race(a) == odd' = IF InJob(a) THEN Add(odd, a, {"raced"}) ELSE odd

\* Publishing, correcting, killing, by a request that takes several steps.  The article
\* in archive is updated: it has a new version and a new expiry, ...
IsWriting(a) == writing[a] # {}

NewVersion(a, s) ==
  /\ version[a] \in 1..(LastVersion[a] - 1) /\ ~IsWriting(a)
  /\ version' = [version EXCEPT ![a] = @ + 1]
  /\ state' = [state EXCEPT ![a] = s]
  /\ expired' = expired \ {a}
  /\ writing' = [writing EXCEPT ![a] = Task]
  /\ Race(a)
  /\ UNCHANGED <<versions, pubVars, invalid, legalVars, tasks, import, expVars, faults>>

Publish(a) == state[a] \in {"draft", "published"} /\ NewVersion(a, "published")
Kill(a) == state[a] = "published" /\ NewVersion(a, "killed")

Does(a, step) ==
  /\ step \in writing[a] /\ version[a] > 0
  /\ writing' = [writing EXCEPT ![a] = @ \ {step}]

\* ... the entry is posted to published, ...
PostEntry(a) ==
  /\ Does(a, "post")
  /\ published' = Add(published, a, {version[a]})
  /\ UNCHANGED <<version, state, expired, versions, moved, queue, qmoved, invalid, legalVars,
                 tasks, import, expVars, faults, odd>>

\* ... then the version is inserted into archive_versions, and the task that imports the
\* article is sent: in this order by the API, in the other one when a service calls it.
KeepVersion(a) ==
  /\ "post" \notin writing[a] /\ Does(a, "keep")
  /\ versions' = Add(versions, a, {version[a]})
  /\ UNCHANGED <<version, state, expired, pubVars, invalid, legalVars, tasks, import, expVars,
                 faults, odd>>

SendImport(a) ==
  /\ "post" \notin writing[a] /\ Does(a, "send")
  /\ tasks' = tasks \cup {a}
  /\ UNCHANGED <<version, state, expired, versions, pubVars, invalid, legalVars, import, expVars,
                 faults, odd>>

\* The request fails, as it does when the article is removed meanwhile, or its process
\* dies: what it has not done yet is never done.
RequestFails(a) ==
  /\ IsWriting(a)
  /\ IF version[a] = 0 THEN UNCHANGED faults ELSE Fault
  /\ writing' = [writing EXCEPT ![a] = {}]
  /\ UNCHANGED <<version, state, expired, versions, pubVars, invalid, legalVars, tasks, import,
                 expVars, odd>>

\* An entry of published gets its entries in publish_queue, here one.
Enqueue(a) ==
  /\ a \in Audience
  /\ \E v \in published[a] \ queue[a] :
    /\ queue' = Add(queue, a, {v})
    /\ Race(a)
    /\ UNCHANGED <<prodVars, published, moved, qmoved, invalid, legalVars, tasks, import, expVars,
                   faults>>

\* No request lasts until the expiry it sets.
Expire(a) ==
  /\ version[a] > 0 /\ ~IsExpired(a) /\ ~IsWriting(a)
  /\ expired' = expired \cup {a}
  /\ UNCHANGED <<version, state, versions, writing, pubVars, invalid, legalVars, tasks, import, expVars,
                 faults, odd>>

-----------------------------------------------------------------------------
(* upsert_into_legal_archive, step by step.                                *)

At(p, point) == import[p].at = point
Goto(p, point) == import' = [import EXCEPT ![p].at = point]
Return(p) == import' = [import EXCEPT ![p] = Idle]

\* What was imported by Command is one of its expired_items, see CommandEnd.
Imported(p) == IF p = Command THEN Goto(p, "queue") ELSE Return(p)

\* The documents of archive and legal_archive are read.  Nothing but the flag is set when
\* legal_archive is newer.
Begin(p, a, doc) ==
  import' = [import EXCEPT ![p] =
    [at |-> IF version[a] = 0 \/ legal[a] > version[a] THEN "flag" ELSE "upsert",
     art |-> a, doc |-> doc, found |-> legal[a]]]

\* A task has nothing to do when the article is gone.
TaskTake(w, a) ==
  /\ At(w, "idle") /\ a \in tasks
  /\ tasks' = tasks \ {a}
  /\ IF version[a] = 0 THEN UNCHANGED import ELSE Begin(w, a, version[a])
  /\ UNCHANGED <<prodVars, pubVars, invalid, legalVars, expVars, faults, odd>>

\* put, or post when none was found: that raises if there is one by now.
Duplicate(p) == At(p, "upsert") /\ import[p].found = 0 /\ legal[import[p].art] > 0

\* Then the versions in archive_versions now that the legal archive lacks; the document
\* itself when it is newer than the one found and no version was lacking.
Lacking(p) ==
  LET a == import[p].art
      S == versions[a] \ legalVersions[a]
  IN IF S = {} /\ import[p].found \in 1..(import[p].doc - 1) THEN {import[p].doc} ELSE S

\* A version up to the document is neither there nor among what archive_versions has.
Early(p) == ~(1..import[p].doc \subseteq legalVersions[import[p].art] \cup Lacking(p))

ImportUpsert(p) ==
  /\ At(p, "upsert") /\ ~Duplicate(p)
  /\ legal' = [legal EXCEPT ![import[p].art] = import[p].doc]
  /\ legalVersions' = Add(legalVersions, import[p].art, Lacking(p))
  /\ import' = [import EXCEPT ![p].at = "flag", ![p].found = 0]
  /\ odd' = IF Early(p) THEN Add(odd, import[p].art, {"early"}) ELSE odd
  /\ UNCHANGED <<prodVars, pubVars, invalid, legalQueue, tasks, expVars, faults>>

\* set_moved_to_legal: the entries up to the version that was imported.
Flagged(a, upto) == {v \in published[a] : v <= upto}

ImportFlag(p) ==
  /\ At(p, "flag")
  /\ moved' = Add(moved, import[p].art, Flagged(import[p].art, import[p].doc))
  /\ Imported(p)
  /\ UNCHANGED <<prodVars, published, queue, qmoved, invalid, legalVars, tasks, expVars, faults,
                 odd>>

\* What is raised while flagging, by the search for the entries or an update of one, is
\* only logged: the import is over and some flags are not set.
FlagFails(p) ==
  /\ At(p, "flag") /\ Fault
  /\ \E S \in SUBSET Flagged(import[p].art, import[p].doc) :
       moved' = Add(moved, import[p].art, S)
  /\ Imported(p)
  /\ UNCHANGED <<prodVars, published, queue, qmoved, invalid, legalVars, tasks, expVars, odd>>

\* Any exception before: a task is retried after three minutes, Command logs it and takes
\* the next article.
ImportFails(p) ==
  /\ At(p, "upsert")
  /\ \/ Duplicate(p) /\ UNCHANGED faults
     \/ Fault
  /\ Return(p)
  /\ tasks' = IF p = Command THEN tasks ELSE tasks \cup {import[p].art}
  /\ UNCHANGED <<prodVars, pubVars, invalid, legalVars, expVars, odd>>

\* A process dies: the task of a worker is acknowledged, it does not come back.
ImporterCrash(p) ==
  /\ ~At(p, "idle") /\ Fault
  /\ Return(p)
  /\ UNCHANGED <<prodVars, pubVars, invalid, legalVars, tasks, expVars, odd>>

-----------------------------------------------------------------------------
(* The two legal commands.                                                 *)

\* ImportLegalPublishQueueCommand: an entry that has come to a final state, as any
\* entry may at any time.
CopyQueue(a) ==
  \E v \in queue[a] \ qmoved[a] :
    /\ legalQueue' = Add(legalQueue, a, {v})
    /\ qmoved' = Add(qmoved, a, {v})
    /\ UNCHANGED <<prodVars, published, moved, queue, invalid, legal, legalVersions, tasks,
                   import, expVars, faults, odd>>

\* ImportLegalArchiveCommand, one article at a time: it has an expired entry without
\* the flag (an older version may have expired before the article), or is invalid.
\* It is imported as a task would, and the entry is flagged even if the article is gone.
Missed == {a \in Article : \E v \in published[a] \ moved[a] : v < version[a] \/ IsExpired(a)}

CommandTake(a) ==
  /\ At(Command, "idle") /\ a \in Missed \cup (invalid \cap expired)
  /\ \E doc \in IF version[a] > 0 THEN {version[a]} ELSE published[a] \ moved[a] :
       Begin(Command, a, doc)
  /\ UNCHANGED <<prodVars, pubVars, invalid, legalVars, tasks, expVars, faults, odd>>

\* Then its queue entries are copied and flagged whatever their state, and its
\* expiry_status is reset: content expiry may try again.
Cured == invalid \ {import[Command].art}

CommandEnd ==
  /\ At(Command, "queue")
  /\ LET a == import[Command].art IN
     /\ legalQueue' = Add(legalQueue, a, queue[a])
     /\ qmoved' = Add(qmoved, a, queue[a])
  /\ invalid' = Cured
  /\ Return(Command)
  /\ UNCHANGED <<prodVars, published, moved, queue, legal, legalVersions, tasks, expVars,
                 faults, odd>>

\* The copies may fail, and the reset too; either is only logged.
CommandEndFails ==
  /\ At(Command, "queue") /\ Fault
  /\ invalid' \in {invalid, Cured}
  /\ Return(Command)
  /\ UNCHANGED <<prodVars, pubVars, legalVars, tasks, expVars, odd>>

-----------------------------------------------------------------------------
(* RemoveExpiredContent._remove_expired_items.                             *)

JobStep == UNCHANGED <<pubVars, invalid, legalVars, tasks, import>>

\* _can_remove_item follows the references of an article; all must have expired.
Related(a) == {b \in Refs[a] : version[b] > 0 /\ state[b] # "spiked"}
Closed(S) == \A b \in S : Related(b) \subseteq S
Family(a) == {b \in Article : \A S \in SUBSET Article : a \in S /\ Closed(S) => b \in S}
CanRemoveAlone(a) == IsExpired(a)  \* mutant
CanRemove(a) == \A b \in Family(a) : IsExpired(b)

\* check_if_items_imported_to_legal_archive: an entry of published or publish_queue
\* that is not flagged.  The search for published entries may fail, and is then
\* taken for an empty answer.
UnmovedQueueWhole(a) == queue[a] # {} /\ qmoved[a] = {}  \* mutant: one imported entry is enough
UnmovedQueue(a) == queue[a] \ qmoved[a] # {}
Unmoved(a) == published[a] \ moved[a] # {} \/ UnmovedQueue(a)

\* archive.get_expired_items: the next articles in the order of their guid.
Eligible == {a \in Article : version[a] > 0 /\ IsExpired(a) /\ a \notin invalid /\ a > position}
FirstOf(S) == {a \in S : Cardinality({b \in S : b < a}) < BatchSize}

\* ArchiveService.delete_by_article_ids: archive_versions, then archive.  (Here at once:
\* an article without its versions, when the second fails, is left to the next job.)
Deleted(S) ==
  /\ version' = [a \in Article |-> IF a \in S THEN 0 ELSE version[a]]
  /\ versions' = [a \in Article |-> IF a \in S THEN {} ELSE versions[a]]

\* The position is saved, spiked articles are deleted, and everything is decided:
\* what can be removed with its family, what has issues, and what was killed.
\* Killed articles reached by a reference are set apart only when some article has
\* an issue, those of the batch are removed whatever the issues of their families.
\* (The code reads twice whether things have moved, at the beginning and just before
\* it moves them; the two are one here.)
Decide(batch, unmoved) ==
  LET spiked   == {a \in batch : state[a] = "spiked"}
      dead     == {a \in Article : state[a] = "killed"}
      families == UNION {Family(a) : a \in {b \in batch \ (spiked \cup dead) : CanRemove(b)}}
      issues   == {a \in families : Family(a) \cap unmoved # {}}
                    \cup (batch \cap dead \cap unmoved)
      rest     == families \ issues
  IN
  /\ position' = Max(batch)
  /\ Deleted(spiked)
  /\ job' = [at |-> "move", item |-> 0, removed |-> {}, issues |-> issues,
             archive |-> IF issues = {} THEN rest ELSE rest \ dead,
             killed |-> ((batch \cap dead) \ unmoved)
                        \cup (IF issues = {} THEN {} ELSE rest \cap dead)]

NextBatch ==
  /\ job.at = "idle" /\ Eligible # {}
  /\ Decide(FirstOf(Eligible), {a \in Article : Unmoved(a)})
  /\ JobStep /\ UNCHANGED <<state, expired, writing, archived, faults, odd>>

NextBatchBlind ==
  /\ job.at = "idle" /\ Eligible # {} /\ Fault
  /\ Decide(FirstOf(Eligible), {a \in Article : UnmovedQueue(a)})
  /\ odd' = [a \in Article |-> IF InJob(a)' THEN odd[a] \cup {"blind"} ELSE odd[a]]
  /\ JobStep /\ UNCHANGED <<state, expired, writing, archived>>

JobEndKeepsPosition ==  \* mutant
  /\ job.at = "idle" /\ Eligible = {} /\ position # 0
  /\ JobStep /\ UNCHANGED <<prodVars, archived, job, position, faults, odd>>

\* No more of them: the next job begins at the start.
JobEnd ==
  /\ job.at = "idle" /\ Eligible = {} /\ position # 0
  /\ position' = 0
  /\ JobStep /\ UNCHANGED <<prodVars, archived, job, faults, odd>>

\* _move_to_archived: the entries are copied, unless some have been already
\* (Conflict), ...  (No filter keeps articles out of the text archive.)
StoredLast(a) == published[a] \cap {version[a]}  \* mutant
Stored(a) == published[a]

StoreOrDrop(a) ==  \* mutant: a Conflict leads past the deletion of the entries
  /\ job.at = "move" /\ a \in job.archive
  /\ archived' = IF archived[a] \cap Stored(a) = {} THEN Add(archived, a, Stored(a)) ELSE archived
  /\ job' = [job EXCEPT !.at = IF archived[a] \cap Stored(a) # {} THEN "drop" ELSE "purge",
                        !.item = a]
  /\ JobStep /\ UNCHANGED <<prodVars, position, faults, odd>>

Store(a) ==
  /\ job.at = "move" /\ a \in job.archive
  /\ archived' = IF archived[a] \cap Stored(a) = {} THEN Add(archived, a, Stored(a)) ELSE archived
  /\ job' = [job EXCEPT !.at = IF published[a] = {} THEN "drop" ELSE "purge", !.item = a]
  /\ JobStep /\ UNCHANGED <<prodVars, position, faults, odd>>

\* ... and the article is deleted from archive and archive_versions.
Drop ==
  /\ job.at = "drop"
  /\ Deleted({job.item})
  /\ job' = [job EXCEPT !.at = "move", !.item = 0, !.archive = @ \ {job.item}]
  /\ JobStep /\ UNCHANGED <<state, expired, writing, archived, position, faults, odd>>

\* The killed articles come after all that are moved.
KillNext(a) ==
  /\ job.at \in {"move", "kill"} /\ job.archive = {} /\ a \in job.killed
  /\ job' = [job EXCEPT !.at = "purge", !.item = a]
  /\ JobStep /\ UNCHANGED <<prodVars, archived, position, faults, odd>>

\* delete_by_article_id deletes the entries in published, ...
PurgeStep(kept) ==
  /\ published' = [published EXCEPT ![job.item] = @ \cap kept]
  /\ moved' = [moved EXCEPT ![job.item] = @ \cap kept]
  /\ job' = [job EXCEPT !.at = "queue"]
  /\ UNCHANGED <<prodVars, queue, qmoved, invalid, legalVars, tasks, import, archived, position>>

Purge == job.at = "purge" /\ PurgeStep({}) /\ UNCHANGED <<faults, odd>>

\* those that elastic does not remove are kept and this is only logged, ...
PurgeSwallowed ==
  /\ job.at = "purge" /\ Fault
  /\ \E kept \in (SUBSET published[job.item]) \ {{}} : PurgeStep(kept)
  /\ odd' = Add(odd, job.item, {"halved"})

\* ... then those in publish_queue.
PurgeQueue ==
  /\ job.at = "queue"
  /\ queue' = [queue EXCEPT ![job.item] = {}]
  /\ qmoved' = [qmoved EXCEPT ![job.item] = {}]
  /\ job' = IF job.item \in job.archive THEN [job EXCEPT !.at = "drop"]
            ELSE [job EXCEPT !.at = "kill", !.item = 0, !.killed = @ \ {job.item},
                             !.removed = @ \cup {job.item}]
  /\ UNCHANGED <<prodVars, published, moved, invalid, legalVars, tasks, import, archived,
                 position, faults, odd>>

\* All killed articles of the batch are deleted at once, and issues are marked.
EndBatch ==
  /\ job.at \in {"move", "kill"} /\ job.archive = {} /\ job.killed = {}
  /\ Deleted(job.removed)
  /\ invalid' = invalid \cup {a \in job.issues \ job.removed : version[a] > 0}
  /\ job' = Resting
  /\ UNCHANGED <<state, expired, writing, pubVars, legalVars, tasks, import, archived, position,
                 faults, odd>>

\* An exception while removing one article is logged and the next is taken.
Tear ==
  odd' = IF job.item = 0 THEN odd
         ELSE Add(odd, job.item, IF job.at = "queue" THEN {"torn", "halved"} ELSE {"torn"})

MoveFails ==
  /\ job.at \in {"purge", "queue", "drop"} /\ Fault
  /\ Tear
  /\ job' = IF job.item \in job.archive
            THEN [job EXCEPT !.at = "move", !.item = 0, !.archive = @ \ {job.item}]
            ELSE [job EXCEPT !.at = "kill", !.item = 0, !.killed = @ \ {job.item}]
  /\ JobStep /\ UNCHANGED <<prodVars, archived, position>>

\* The job dies; its lock expires and the next one goes on from the position.
JobCrash ==
  /\ job.at # "idle" /\ Fault
  /\ Tear
  /\ job' = Resting
  /\ JobStep /\ UNCHANGED <<prodVars, archived, position>>

-----------------------------------------------------------------------------
Newsroom == \E a \in Article :
              \/ Publish(a) \/ Kill(a) \/ Enqueue(a) \/ Expire(a)
              \/ PostEntry(a) \/ KeepVersion(a) \/ SendImport(a)
ImportStep(p) == ImportUpsert(p) \/ ImportFlag(p) \/ ImportFails(p)
WorkerStep(w) == ImportStep(w) \/ \E a \in Article : TaskTake(w, a)
CommandStep == ImportStep(Command) \/ CommandEnd
JobNext == \/ NextBatch \/ JobEnd \/ Purge \/ PurgeQueue \/ Drop \/ EndBatch
           \/ \E a \in Article : Store(a) \/ KillNext(a)
Failure == \/ NextBatchBlind \/ PurgeSwallowed \/ MoveFails \/ JobCrash \/ CommandEndFails
           \/ \E p \in Importer : FlagFails(p) \/ ImporterCrash(p)
           \/ \E a \in Article : RequestFails(a)

Next ==
  \/ Newsroom \/ CommandStep \/ JobNext \/ Failure
  \/ \E a \in Article : CommandTake(a) \/ CopyQueue(a)
  \/ \E w \in Worker : WorkerStep(w)

\* celery beat starts the jobs again and again and each run goes on to its end; one
\* of ImportLegalArchiveCommand comes to every article it finds.  Faults are bounded.
\* Nothing makes the newsroom act, nor a worker take its task.
Fairness ==
  /\ WF_vars(CommandStep) /\ WF_vars(JobNext)
  /\ \A a \in Article : SF_vars(CommandTake(a))

Spec == Init /\ [][Next]_vars /\ Fairness
-----------------------------------------------------------------------------
\* The type of every variable.
TypeOK ==
  /\ version \in [Article -> {0} \cup Version]
  /\ state \in [Article -> {"draft", "spiked", "published", "killed"}]
  /\ \A f \in {versions, published, moved, queue, qmoved, legalVersions, legalQueue, archived} :
       f \in [Article -> SUBSET Version]
  /\ legal \in [Article -> {0} \cup Version]
  /\ expired \subseteq Article /\ invalid \subseteq Article /\ tasks \subseteq Article
  /\ writing \in [Article -> SUBSET Task]
  /\ import \in [Importer -> Import]
  /\ job \in Job
  /\ position \in {0} \cup Article
  /\ faults \in 0..MaxFaults
  /\ odd \in [Article -> SUBSET Oddity]

Gone(a) == version[a] = 0

\* Whatever expiry removes, the legal archive has: each published version and each
\* entry of the publish queue (archive/commands.py, "check if items imported").
\* Three parties write and read the flags that say so.
LegalKeepsAll ==
  [][\A a \in Article : odd[a] \cap {"raced", "blind", "early"} = {} =>
       /\ published[a] \ published'[a] \subseteq legalVersions[a]
       /\ queue[a] \ queue'[a] \subseteq legalQueue[a]]_vars

\* When published versions of an article are deleted they are in the text archive,
\* unless it was killed.
ArchivedComplete ==
  [][\A a \in Article : state[a] = "published" /\ odd[a] \cap {"raced", "torn"} = {} =>
       published[a] \ published'[a] \subseteq archived[a]]_vars

\* No entry of published or of the publish queue outlives its article, for nothing
\* would ever remove it: unless the deletion of its entries stopped halfway.
NoOrphans ==
  \A a \in Article : Gone(a) /\ odd[a] \cap {"raced", "halved"} = {} =>
    published[a] = {} /\ queue[a] = {}

\* An article is removed only when all it is linked to has expired as well or is
\* gone; killed and spiked articles are removed on their own.
LinksExpire ==
  [][\A a \in Article : ~Gone(a) /\ Gone(a)' /\ state[a] \in {"draft", "published"} =>
       \A b \in Family(a) : IsExpired(b) \/ odd[b] \cap {"raced", "torn"} # {}]_vars

\* Again and again nothing is left that could be removed, an expired article whose
\* whole family has expired: an import that failed, a crash of any of the jobs or a
\* saved position never leaves it behind for good.
Removable(a) == ~Gone(a) /\ \A b \in Family(a) : IsExpired(b)

EventuallyRemoved == []<>(\A a \in Article : ~Removable(a))

=============================================================================
