-------------------------- MODULE RetentionProofs --------------------------
(***************************************************************************)
(* Proofs about Retention, for any articles with any links, any number of  *)
(* versions and of workers, and any number of crashes and failing calls.   *)
(***************************************************************************)
EXTENDS Retention, FiniteSetTheorems, TLAPS

\* What the proofs need of the types.
Entries == [Article -> SUBSET Nat]
Imports ==
  {t \in [at : {"idle", "upsert", "flag", "queue"}, art : Article \cup {0}, doc : Nat, found : Nat] :
     t.at # "idle" => t.art \in Article}
AtWork == job.at \in {"purge", "queue", "drop"}

Types ==
  /\ version \in [Article -> Nat] /\ legal \in [Article -> Nat]
  /\ state \in [Article -> {"draft", "spiked", "published", "killed"}]
  /\ published \in Entries /\ moved \in Entries /\ queue \in Entries /\ qmoved \in Entries
  /\ legalVersions \in Entries /\ legalQueue \in Entries /\ archived \in Entries
  /\ versions \in Entries /\ writing \in [Article -> SUBSET Task]
  /\ tasks \subseteq Article
  /\ import \in [Importer -> Imports]
  /\ job \in Job /\ (AtWork => job.item \in Article)
  /\ odd \in [Article -> SUBSET Oddity]

Raced(a) == "raced" \in odd[a]
Broken(a) == odd[a] \cap {"raced", "halved"} # {}
Empty(a) == published[a] = {} /\ queue[a] = {}

\* An entry of published is of a version the article has had, one of the publish queue
\* is of one of these, until these are deleted; a spiked article has none.
EntryInv ==
  \A a \in Article :
    /\ published[a] \subseteq Nat \ {0}
    /\ ~Gone(a) => published[a] \subseteq 1..version[a]
    /\ state[a] = "spiked" => Empty(a)
    /\ queue[a] \subseteq published[a] \/ Broken(a) \/ (job.at = "queue" /\ job.item = a)

\* The job deletes an article when its entries are deleted.
JobInv ==
  /\ AtWork => job.item \in job.archive \cup job.killed
  /\ job.at = "queue" => published[job.item] = {} \/ Broken(job.item)
  /\ job.at = "drop" => job.item \in job.archive /\ (Empty(job.item) \/ Broken(job.item))
  /\ job.at = "idle" => job.archive \cup job.killed \cup job.removed = {}
  /\ \A a \in job.removed : Empty(a) \/ Broken(a)
  /\ \A a \in job.archive : ~Gone(a)
  /\ \A a \in job.killed \cup job.removed : state[a] = "killed"

\* The job takes no article while it is being published.
WritingInv ==
  \A a \in Article : IsWriting(a) => /\ state[a] \in {"published", "killed"}
                                     /\ Raced(a) \/ ~(IsExpired(a) \/ InJob(a))

OrphanInv == EntryInv /\ JobInv /\ WritingInv /\ NoOrphans

\* Nothing came in between that its flags do not know of, and it was imported whole.
Clean(a) == odd[a] \cap {"raced", "blind"} = {}
Sound(a) == odd[a] \cap {"raced", "blind", "early"} = {}

\* What is flagged has been copied.
FlagInv ==
  \A a \in Article : /\ Sound(a) => moved[a] \subseteq legalVersions[a]
                     /\ qmoved[a] \subseteq legalQueue[a]
                     /\ Gone(a) \/ legal[a] <= version[a]

\* What will be flagged has been copied: all versions up to the one imported, also those
\* whose entry is still to be posted; or all the entries left by an article that is gone.
ImportInv(p) ==
  LET a == import[p].art IN
  /\ import[p].at \in {"upsert", "flag"} => Gone(a) \/ import[p].doc <= version[a]
  /\ import[p].at = "flag" /\ Sound(a) =>
       \/ 1..import[p].doc \subseteq legalVersions[a]
       \/ Gone(a) /\ Flagged(a, import[p].doc) \subseteq legalVersions[a]

\* What the job is to remove has been flagged, and what an article leaves behind, when
\* nothing came in between.
MovedInv ==
  \A a \in Article : Clean(a) => /\ InJob(a) => ~Unmoved(a)
                                 /\ Gone(a) => published[a] \subseteq moved[a]

LegalInv == FlagInv /\ MovedInv /\ \A p \in Importer : ImportInv(p)

\* The text archive has an article only when the job has been at it.
Whole(a) == odd[a] \cap {"raced", "torn"} = {}

ArchiveInv ==
  /\ job.at = "purge" /\ job.item \in job.archive /\ Whole(job.item) =>
       published[job.item] \subseteq archived[job.item]
  /\ \A a \in Article : Whole(a) /\ archived[a] # {} =>
       Gone(a) \/ (AtWork /\ job.item = a /\ a \in job.archive)

\* With an article the job has its family, all of it expired, or something came in between.
FamilyInv ==
  \A a \in job.archive : \A b \in Family(a) : (IsExpired(b) /\ InJob(b)) \/ ~Whole(b)

-----------------------------------------------------------------------------
(* Families.                                                               *)

\* An article is of its own family, ...
LEMMA FamilySelf ==
  ASSUME NEW a \in Article
  PROVE  a \in Family(a)
  BY DEF Family

\* ... which has the families of all its members, ...
LEMMA FamilyWithin ==
  ASSUME NEW a \in Article, NEW b \in Family(a)
  PROVE  Family(b) \subseteq Family(a)
  BY DEF Family

\* ... and the others in it are there and not spiked.
LEMMA FamilyThere ==
  ASSUME NEW a \in Article, NEW b \in Family(a), b # a
  PROVE  b \in Article /\ version[b] > 0 /\ state[b] # "spiked"
<1> DEFINE S == {a} \cup {c \in Article : version[c] > 0 /\ state[c] # "spiked"}
<1>1. S \in SUBSET Article /\ a \in S
  OBVIOUS
<1>2. Closed(S)
  BY RefsAssumption, <1>1 DEF Closed, Related
<1>3. b \in Article /\ b \in S
  BY <1>1, <1>2 DEF Family
<1>4. QED
  BY <1>3

\* When no article gets a link, none gets a relative.
LEMMA FamilyShrinks ==
  ASSUME \A c \in Article : Related(c)' \subseteq Related(c), NEW a \in Article
  PROVE  Family(a)' \subseteq Family(a)
<1> SUFFICES ASSUME NEW b \in Family(a)' PROVE b \in Family(a)
  OBVIOUS
<1>1. b \in Article /\ \A S \in SUBSET Article : a \in S /\ Closed(S)' => b \in S
  BY DEF Family
<1>2. ASSUME NEW S \in SUBSET Article, Closed(S) PROVE Closed(S)'
  BY <1>2 DEF Closed
<1>3. QED
  BY <1>1, <1>2 DEF Family

LEMMA SameFamilies ==
  ASSUME UNCHANGED <<version, state>>, NEW a \in Article
  PROVE  Family(a)' = Family(a)
  BY DEF Family, Closed, Related

-----------------------------------------------------------------------------
(* The steps, grouped by what they can change.                             *)

ImportOf(p) ==
  \/ ImportUpsert(p) \/ ImportFlag(p) \/ FlagFails(p) \/ ImportFails(p) \/ ImporterCrash(p)
  \/ \E a \in Article : TaskTake(p, a) \/ (p = Command /\ CommandTake(a))
Importing == \E p \in Importer : ImportOf(p)
Legal == CommandEnd \/ CommandEndFails \/ \E a \in Article : CopyQueue(a)
Aside == \E a \in Article : Expire(a) \/ KeepVersion(a) \/ SendImport(a) \/ RequestFails(a)
Versioning == \E a \in Article : Publish(a) \/ Kill(a)
Posting == \E a \in Article : PostEntry(a)
Enqueuing == \E a \in Article : Enqueue(a)
Deciding == NextBatch \/ NextBatchBlind
Purging == Purge \/ PurgeSwallowed
Choosing == \E a \in Article : Store(a) \/ KillNext(a)
Ending == MoveFails \/ JobCrash

LEMMA NextCases ==
  ASSUME Next
  PROVE  \/ Importing \/ Legal \/ Aside \/ Versioning \/ Posting \/ Enqueuing \/ Deciding
         \/ Purging \/ PurgeQueue \/ Drop \/ EndBatch \/ Choosing \/ Ending \/ JobEnd
  BY DEF Next, Newsroom, CommandStep, ImportStep, JobNext, Failure, WorkerStep, ImportOf,
         Importing, Legal, Aside, Versioning, Posting, Enqueuing, Deciding, Purging, Choosing,
         Ending, Importer

-----------------------------------------------------------------------------
(* Types.                                                                  *)

LEMMA InitTypes == Init => Types
<1> SUFFICES ASSUME Init PROVE Types
  OBVIOUS
<1> USE ArticleAssumption
<1>1. state \in [Article -> {"draft", "spiked", "published"}] /\ tasks \subseteq Article
  BY InitialAssumption DEF Init
<1>2. /\ published \in Entries /\ moved \in Entries /\ queue \in Entries /\ qmoved \in Entries
      /\ legalVersions \in Entries /\ legalQueue \in Entries /\ archived \in Entries
      /\ versions \in Entries /\ writing \in [Article -> SUBSET Task]
  BY DEF Init, Entries
<1>3. \A a \in Article : moved[a] = {} \/ moved[a] = {1}
  BY DEF Init
<1>4. \A a \in Article : legal[a] = IF moved[a] = {} THEN 0 ELSE 1
  BY <1>3, FS_EmptySet, FS_Singleton DEF Init
<1>5. version \in [Article -> Nat] /\ legal \in [Article -> Nat]
  BY <1>4 DEF Init
<1>6. Idle \in Imports /\ Resting \in Job
  BY DEF Idle, Imports, Resting, Job
<1>7. import \in [Importer -> Imports] /\ job \in Job /\ odd \in [Article -> SUBSET Oddity]
  BY <1>6 DEF Init
<1>8. ~AtWork
  BY DEF Init, Resting, AtWork
<1>9. QED
  BY <1>1, <1>2, <1>5, <1>7, <1>8 DEF Types

\* Entries stay entries when some are added for an article or all of them removed.
LEMMA AddType ==
  ASSUME NEW f \in Entries, NEW a \in Article, NEW S \in SUBSET Nat
  PROVE  Add(f, a, S) \in Entries /\ [f EXCEPT ![a] = {}] \in Entries
  BY DEF Entries, Add

LEMMA OddType ==
  ASSUME odd \in [Article -> SUBSET Oddity], NEW a \in Article, NEW S \in SUBSET Oddity
  PROVE  Add(odd, a, S) \in [Article -> SUBSET Oddity]
  BY DEF Add

LEMMA VersioningTypes ==
  ASSUME Types, Versioning
  PROVE  Types'
<1> USE DEF Types, AtWork
<1>1. PICK a \in Article, s \in {"published", "killed"} : NewVersion(a, s)
  BY DEF Versioning, Publish, Kill
<1>2. version' \in [Article -> Nat] /\ state' \in [Article -> {"draft", "spiked", "published", "killed"}]
  BY <1>1 DEF NewVersion
<1>3. writing' \in [Article -> SUBSET Task]
  BY <1>1 DEF NewVersion
<1>4. odd' \in [Article -> SUBSET Oddity]
  BY <1>1, OddType DEF NewVersion, Race, Oddity
<1>5. QED
  BY <1>1, <1>2, <1>3, <1>4 DEF NewVersion, pubVars, legalVars, expVars

LEMMA PostingTypes ==
  ASSUME Types, Posting
  PROVE  Types'
<1> USE DEF Types, AtWork
<1>1. PICK a \in Article : PostEntry(a)
  BY DEF Posting
<1>2. published' \in Entries /\ writing' \in [Article -> SUBSET Task]
  BY <1>1, AddType DEF PostEntry, Does
<1>3. QED
  BY <1>1, <1>2 DEF PostEntry, legalVars, expVars

LEMMA AsideTypes ==
  ASSUME Types, Aside
  PROVE  Types'
<1> USE DEF Types, AtWork
<1>1. PICK a \in Article : Expire(a) \/ KeepVersion(a) \/ SendImport(a) \/ RequestFails(a)
  BY DEF Aside
<1>2. writing' \in [Article -> SUBSET Task] /\ tasks' \subseteq Article
  BY <1>1 DEF Expire, KeepVersion, SendImport, RequestFails, Does
<1>3. versions' \in Entries
  <2>1. CASE KeepVersion(a)
    <3>1. versions \in Entries /\ {version[a]} \in SUBSET Nat /\ versions' = Add(versions, a, {version[a]})
      BY <2>1 DEF KeepVersion
    <3>2. QED
      BY <3>1, AddType
  <2>2. CASE UNCHANGED versions
    BY <2>2
  <2>3. QED
    BY <1>1, <2>1, <2>2 DEF Expire, SendImport, RequestFails
<1>4. QED
  BY <1>1, <1>2, <1>3 DEF Expire, KeepVersion, SendImport, RequestFails, pubVars, legalVars, expVars

LEMMA EnqueuingTypes ==
  ASSUME Types, Enqueuing
  PROVE  Types'
<1> USE DEF Types, AtWork
<1>1. PICK a \in Article : Enqueue(a)
  BY DEF Enqueuing
<1>2. PICK v \in published[a] \ queue[a] : queue' = Add(queue, a, {v})
  BY <1>1 DEF Enqueue
<1>3. queue' \in Entries
  BY <1>2, AddType DEF Entries
<1>4. odd' \in [Article -> SUBSET Oddity]
  BY <1>1, OddType DEF Enqueue, Race, Oddity
<1>5. QED
  BY <1>1, <1>3, <1>4 DEF Enqueue, prodVars, legalVars, expVars

LEMMA IdleType == Idle \in Imports /\ Resting \in Job
  BY DEF Idle, Imports, Resting, Job

LEMMA PointType ==
  ASSUME NEW t \in Imports, t.at # "idle", NEW at \in {"idle", "upsert", "flag", "queue"}
  PROVE  [t EXCEPT !.at = at] \in Imports /\ [t EXCEPT !.at = at, !.found = 0] \in Imports
  BY DEF Imports

LEMMA ImportingTypes ==
  ASSUME Types, Importing
  PROVE  Types'
<1> PICK p \in Importer : ImportOf(p)
  BY DEF Importing
<1> USE ArticleAssumption DEF Types, AtWork
<1>1. import[p] \in Imports /\ (~At(p, "idle") => import[p].art \in Article)
  BY DEF Imports, At
<1>2. CASE ImportUpsert(p)
  <2>1. [import[p] EXCEPT !.at = "flag", !.found = 0] \in Imports
    BY <1>1, <1>2, PointType DEF ImportUpsert, At
  <2>2. import' \in [Importer -> Imports]
    BY <1>2, <2>1 DEF ImportUpsert
  <2>3. legal' \in [Article -> Nat]
    BY <1>1, <1>2 DEF ImportUpsert, Imports
  <2>4. Lacking(p) \in SUBSET Nat
    BY <1>1, <1>2 DEF ImportUpsert, At, Lacking, Imports, Entries
  <2>5. legalVersions' \in Entries
    BY <1>2, <2>4 DEF ImportUpsert, Add, Entries
  <2>6. odd' \in [Article -> SUBSET Oddity]
    BY <1>1, <1>2, OddType DEF ImportUpsert, At, Oddity
  <2>7. QED
    BY <1>2, <2>2, <2>3, <2>5, <2>6 DEF ImportUpsert, prodVars, pubVars, expVars
<1>3. CASE ImportFlag(p) \/ FlagFails(p)
  <2>1. [import[p] EXCEPT !.at = "queue"] \in Imports
    BY <1>1, <1>3, PointType DEF ImportFlag, FlagFails, At
  <2>2. import' \in [Importer -> Imports]
    BY <1>3, <2>1, IdleType DEF ImportFlag, FlagFails, Imported, Goto, Return
  <2>3. PICK a \in Article, S \in SUBSET Nat : moved' = Add(moved, a, S)
    BY <1>1, <1>3 DEF ImportFlag, FlagFails, Flagged, At, Entries
  <2>4. moved' \in Entries
    BY <2>3, AddType
  <2>5. QED
    BY <1>3, <2>2, <2>4 DEF ImportFlag, FlagFails, prodVars, legalVars, expVars
<1>4. CASE ImportFails(p) \/ ImporterCrash(p)
  <2>1. import' \in [Importer -> Imports]
    BY <1>4, IdleType DEF ImportFails, ImporterCrash, Return
  <2>2. tasks' \subseteq Article
    BY <1>1, <1>4 DEF ImportFails, ImporterCrash, At
  <2>3. QED
    BY <1>4, <2>1, <2>2 DEF ImportFails, ImporterCrash, prodVars, pubVars, legalVars, expVars
<1>5. CASE \E a \in Article : TaskTake(p, a) \/ (p = Command /\ CommandTake(a))
  <2>1. PICK a \in Article : TaskTake(p, a) \/ (p = Command /\ CommandTake(a))
    BY <1>5
  <2>2. tasks' \subseteq tasks /\ (UNCHANGED import \/ \E doc \in Nat : Begin(p, a, doc))
    BY <2>1 DEF TaskTake, CommandTake, Entries
  <2>3. \A point \in {"upsert", "flag"}, d \in Nat :
          [at |-> point, art |-> a, doc |-> d, found |-> legal[a]] \in Imports
    BY DEF Imports
  <2>4. import' \in [Importer -> Imports]
    BY <2>2, <2>3 DEF Begin
  <2>5. QED
    BY <2>1, <2>2, <2>4 DEF TaskTake, CommandTake, prodVars, pubVars, legalVars, expVars
<1>6. QED
  BY <1>2, <1>3, <1>4, <1>5 DEF ImportOf

LEMMA LegalTypes ==
  ASSUME Types, Legal
  PROVE  Types'
<1> USE DEF Types, AtWork
<1>1. CASE \E a \in Article : CopyQueue(a)
  <2>1. PICK a \in Article, v \in Nat : legalQueue' = Add(legalQueue, a, {v}) /\ qmoved' = Add(qmoved, a, {v})
    BY <1>1 DEF CopyQueue, Entries
  <2>2. legalQueue' \in Entries /\ qmoved' \in Entries
    BY <2>1, AddType
  <2>3. QED
    BY <1>1, <2>2 DEF CopyQueue, prodVars, expVars
<1>2. CASE CommandEnd
  <2>1. legalQueue' \in Entries /\ qmoved' \in Entries
    BY <1>2 DEF CommandEnd, Add, Entries
  <2>2. import' \in [Importer -> Imports]
    BY <1>2, IdleType DEF CommandEnd, Return
  <2>3. QED
    BY <1>2, <2>1, <2>2 DEF CommandEnd, prodVars, expVars
<1>3. CASE CommandEndFails
  <2>1. import' \in [Importer -> Imports]
    BY <1>3, IdleType DEF CommandEndFails, Return
  <2>2. QED
    BY <1>3, <2>1 DEF CommandEndFails, prodVars, pubVars, legalVars, expVars
<1>4. QED
  BY <1>1, <1>2, <1>3 DEF Legal

\* What Decide has the job remove: articles that are there, none of them unmoved,
\* the killed ones apart, and with each of them its family, all of it expired.
LEMMA Decided ==
  ASSUME Types, NEW batch \in SUBSET Eligible, NEW unmoved, Decide(batch, unmoved)
  PROVE  /\ job' \in Job /\ job'.at = "move" /\ job'.removed = {}
         /\ version' \in [Article -> Nat] /\ versions' \in Entries
         /\ \A a \in Article : version'[a] = version[a] \/ (version'[a] = 0 /\ state[a] = "spiked")
         /\ \A a \in job'.archive \cup job'.killed : a \notin unmoved /\ IsExpired(a)
         /\ \A a \in job'.archive : version[a] > 0 /\ state[a] # "spiked"
         /\ \A a \in job'.killed : state[a] = "killed"
         /\ \A a \in job'.archive : \A b \in Family(a) :
              IsExpired(b) /\ b \in job'.archive \cup job'.killed
<1> DEFINE spiked   == {a \in batch : state[a] = "spiked"}
           dead     == {a \in Article : state[a] = "killed"}
           first    == {b \in batch \ (spiked \cup dead) : CanRemove(b)}
           families == UNION {Family(a) : a \in first}
           issues   == {a \in families : Family(a) \cap unmoved # {}}
                         \cup (batch \cap dead \cap unmoved)
           rest     == families \ issues
           archive  == IF issues = {} THEN rest ELSE rest \ dead
           killed   == ((batch \cap dead) \ unmoved)
                        \cup (IF issues = {} THEN {} ELSE rest \cap dead)
<1>1. /\ version' = [a \in Article |-> IF a \in spiked THEN 0 ELSE version[a]]
      /\ versions' = [a \in Article |-> IF a \in spiked THEN {} ELSE versions[a]]
      /\ job' = [at |-> "move", item |-> 0, removed |-> {}, issues |-> issues,
                 archive |-> archive, killed |-> killed]
  BY DEF Decide, Deleted
<1>2. batch \subseteq {a \in Article : version[a] > 0 /\ IsExpired(a)}
  BY DEF Eligible
<1>3. \A a \in first : a \in Article /\ version[a] > 0 /\ state[a] # "spiked"
  BY <1>2
<1>4. \A a \in families : \E b \in first : a \in Family(b)
  OBVIOUS
<1>5. \A a \in families : a \in Article /\ version[a] > 0 /\ state[a] # "spiked" /\ IsExpired(a)
  <2>1. TAKE a \in families
  <2>2. PICK b \in first : a \in Family(b)
    BY <1>4
  <2>3. IsExpired(a)
    BY <2>2 DEF CanRemove
  <2>4. QED
    BY <1>3, <2>2, <2>3, FamilyThere
<1>6. \A a \in rest : a \notin unmoved /\ Family(a) \subseteq rest
  <2>1. TAKE a \in rest
  <2>2. PICK b \in first : a \in Family(b)
    BY <1>4
  <2>3. a \in Family(a) /\ Family(a) \cap unmoved = {}
    BY <1>5, FamilySelf
  <2>4. Family(a) \subseteq families
    BY <1>3, <2>2, FamilyWithin
  <2>5. ASSUME NEW c \in Family(a) PROVE c \notin issues
    BY <1>5, <2>3, <2>4, <2>5, FamilyWithin
  <2>6. QED
    BY <2>3, <2>4, <2>5
<1>7. archive \subseteq rest /\ rest \subseteq archive \cup killed /\ killed \subseteq Article
  BY <1>5
<1>8. \A a \in killed : a \notin unmoved /\ state[a] = "killed" /\ IsExpired(a)
  BY <1>2, <1>5, <1>6
<1>9. job' \in Job /\ job'.at = "move" /\ job'.removed = {}
  <2>1. archive \subseteq Article /\ issues \subseteq Article
    BY <1>5, <1>7
  <2>2. QED
    BY <1>1, <1>7, <2>1 DEF Job
<1>10. version' \in [Article -> Nat] /\ versions' \in Entries
  BY <1>1 DEF Types, Entries
<1>11. \A a \in Article : version'[a] = version[a] \/ (version'[a] = 0 /\ state[a] = "spiked")
  BY <1>1
<1>12. job'.archive = archive /\ job'.killed = killed
  BY <1>1
<1> HIDE DEF archive, killed, rest, issues
<1>13. \A a \in archive \cup killed : a \notin unmoved /\ IsExpired(a)
  BY <1>5, <1>6, <1>7, <1>8 DEF rest
<1>14. \A a \in archive : version[a] > 0 /\ state[a] # "spiked"
  BY <1>5, <1>7 DEF rest
<1>15. \A a \in archive : \A b \in Family(a) : IsExpired(b) /\ b \in archive \cup killed
  BY <1>5, <1>6, <1>7 DEF rest
<1>16. QED
  BY <1>8, <1>9, <1>10, <1>11, <1>12, <1>13, <1>14, <1>15

\* The same of the steps that decide: blind or not.
LEMMA DecidingStep ==
  ASSUME Types, Deciding
  PROVE  /\ job.at = "idle" /\ UNCHANGED <<state, expired, writing, archived>> /\ JobStep
         /\ job' \in Job /\ job'.at = "move" /\ job'.removed = {}
         /\ version' \in [Article -> Nat] /\ versions' \in Entries
         /\ \A a \in Article : version'[a] = version[a] \/ (version'[a] = 0 /\ state[a] = "spiked")
         /\ odd' \in [Article -> SUBSET Oddity]
         /\ \A a \in Article : odd'[a] = odd[a] \/ odd'[a] = odd[a] \cup {"blind"}
         /\ \A a \in job'.archive \cup job'.killed :
              IsExpired(a) /\ (~Unmoved(a) \/ "blind" \in odd'[a])
         /\ \A a \in job'.archive : version[a] > 0 /\ state[a] # "spiked"
         /\ \A a \in job'.killed : state[a] = "killed"
         /\ \A a \in job'.archive : \A b \in Family(a) :
              IsExpired(b) /\ b \in job'.archive \cup job'.killed
<1>1. FirstOf(Eligible) \in SUBSET Eligible
  BY DEF FirstOf
<1>2. CASE NextBatch
  <2>1. Decide(FirstOf(Eligible), {a \in Article : Unmoved(a)}) /\ odd' = odd
    BY <1>2 DEF NextBatch
  <2>2. \A a \in Article : odd'[a] = odd[a]
    BY <2>1
  <2>3. job' \in Job
    BY <1>1, <2>1, Decided
  <2>4. \A a \in job'.archive \cup job'.killed :
          a \in Article /\ a \notin {b \in Article : Unmoved(b)} /\ IsExpired(a)
    BY <1>1, <2>1, <2>3, Decided DEF Job
  <2>5. \A a \in job'.archive \cup job'.killed : IsExpired(a) /\ ~Unmoved(a)
    BY <2>4
  <2>6. QED
    BY <1>1, <1>2, <2>1, <2>2, <2>5, Decided DEF NextBatch, Types
<1>3. CASE NextBatchBlind
  <2>1. /\ Decide(FirstOf(Eligible), {a \in Article : UnmovedQueue(a)})
        /\ odd' = [a \in Article |-> IF InJob(a)' THEN odd[a] \cup {"blind"} ELSE odd[a]]
    BY <1>3 DEF NextBatchBlind
  <2>2. job' \in Job
    BY <1>1, <2>1, Decided
  <2>3. odd' \in [Article -> SUBSET Oddity]
    BY <2>1 DEF Types, Oddity
  <2>4. \A a \in job'.archive \cup job'.killed : IsExpired(a) /\ "blind" \in odd'[a]
    BY <1>1, <2>1, <2>2, Decided DEF InJob, Job
  <2>5. \A a \in Article : odd'[a] = odd[a] \/ odd'[a] = odd[a] \cup {"blind"}
    BY <2>1
  <2>6. QED
    BY <1>1, <1>3, <2>1, <2>3, <2>4, <2>5, Decided DEF NextBatchBlind
<1>4. QED
  BY <1>2, <1>3 DEF Deciding

LEMMA DecidingTypes ==
  ASSUME Types, Deciding
  PROVE  Types'
  BY DecidingStep DEF Types, AtWork, JobStep, pubVars, legalVars

\* What the other steps of the job do to it.
LEMMA PurgeJob ==
  ASSUME job \in Job, Purging
  PROVE  /\ job.at = "purge" /\ job' \in Job /\ job'.at = "queue" /\ job'.item = job.item
         /\ job'.archive = job.archive /\ job'.killed = job.killed /\ job'.removed = job.removed
<1>1. job.at = "purge" /\ job' = [job EXCEPT !.at = "queue"]
  BY DEF Purging, Purge, PurgeSwallowed, PurgeStep
<1>2. QED
  BY <1>1 DEF Job

LEMMA QueueJob ==
  ASSUME job \in Job, job.item \in Article, PurgeQueue
  PROVE  /\ job.at = "queue" /\ job' \in Job /\ job'.archive = job.archive
         /\ job.item \in job.archive =>
              /\ job'.at = "drop" /\ job'.item = job.item
              /\ job'.killed = job.killed /\ job'.removed = job.removed
         /\ job.item \notin job.archive =>
              /\ job'.at = "kill" /\ job'.killed = job.killed \ {job.item}
              /\ job'.removed = job.removed \cup {job.item}
<1>1. CASE job.item \in job.archive
  <2>1. job.at = "queue" /\ job' = [job EXCEPT !.at = "drop"]
    BY <1>1 DEF PurgeQueue
  <2>2. QED
    BY <1>1, <2>1 DEF Job
<1>2. CASE job.item \notin job.archive
  <2>1. job.at = "queue" /\ job' = [job EXCEPT !.at = "kill", !.item = 0, !.killed = @ \ {job.item},
                                              !.removed = @ \cup {job.item}]
    BY <1>2 DEF PurgeQueue
  <2>2. QED
    BY <1>2, <2>1 DEF Job
<1>3. QED
  BY <1>1, <1>2

LEMMA DropJob ==
  ASSUME job \in Job, Drop
  PROVE  /\ job.at = "drop" /\ job' \in Job /\ job'.at = "move"
         /\ job'.archive = job.archive \ {job.item}
         /\ job'.killed = job.killed /\ job'.removed = job.removed
<1>1. job.at = "drop" /\ job' = [job EXCEPT !.at = "move", !.item = 0, !.archive = @ \ {job.item}]
  BY DEF Drop
<1>2. QED
  BY <1>1 DEF Job

LEMMA EndingJob ==
  ASSUME job \in Job, Ending
  PROVE  /\ job' \in Job /\ job'.at \in {"idle", "move", "kill"}
         /\ job'.archive \subseteq job.archive \ {job.item}
         /\ job'.killed \subseteq job.killed /\ job'.removed \subseteq job.removed
         /\ job'.at = "idle" => job' = Resting
         /\ job'.at # "idle" => /\ AtWork
                                /\ job'.removed = job.removed
                                /\ job.archive \cup job.killed \subseteq
                                     job'.archive \cup job'.killed \cup {job.item}
                                /\ job.archive \subseteq job'.archive \cup {job.item}
<1>1. CASE job' = Resting
  BY <1>1 DEF Resting, Job
<1>2. CASE MoveFails /\ job.item \in job.archive
  <2>1. AtWork /\ job' = [job EXCEPT !.at = "move", !.item = 0, !.archive = @ \ {job.item}]
    BY <1>2 DEF MoveFails, AtWork
  <2>2. QED
    BY <2>1 DEF Job
<1>3. CASE MoveFails /\ job.item \notin job.archive
  <2>1. AtWork /\ job' = [job EXCEPT !.at = "kill", !.item = 0, !.killed = @ \ {job.item}]
    BY <1>3 DEF MoveFails, AtWork
  <2>2. QED
    BY <1>3, <2>1 DEF Job
<1>4. QED
  BY <1>1, <1>2, <1>3 DEF Ending, JobCrash

LEMMA ChoosingJob ==
  ASSUME job \in Job, NEW a \in Article, Store(a) \/ KillNext(a)
  PROVE  /\ job' \in Job /\ job'.item = a
         /\ job.at \in {"move", "kill"}
         /\ job'.archive = job.archive /\ job'.killed = job.killed /\ job'.removed = job.removed
         /\ Store(a) => /\ a \in job.archive
                        /\ job'.at = (IF published[a] = {} THEN "drop" ELSE "purge")
         /\ KillNext(a) => a \in job.killed /\ job.archive = {} /\ job'.at = "purge"
<1>1. CASE Store(a)
  <2>1. job.at = "move" /\ a \in job.archive
        /\ job' = [job EXCEPT !.at = IF published[a] = {} THEN "drop" ELSE "purge", !.item = a]
    BY <1>1 DEF Store
  <2>2. ~KillNext(a)
    BY <2>1 DEF KillNext
  <2>3. QED
    BY <2>1, <2>2 DEF Job
<1>2. CASE KillNext(a)
  <2>1. /\ job.at \in {"move", "kill"} /\ a \in job.killed /\ job.archive = {}
        /\ job' = [job EXCEPT !.at = "purge", !.item = a]
    BY <1>2 DEF KillNext
  <2>2. ~Store(a)
    BY <2>1 DEF Store
  <2>3. QED
    BY <2>1, <2>2 DEF Job
<1>3. QED
  BY <1>1, <1>2

\* What they do to the entries.
LEMMA PurgeStepped ==
  ASSUME Types, Purging
  PROVE  /\ \E kept \in SUBSET Nat :
              /\ published' = [published EXCEPT ![job.item] = @ \cap kept]
              /\ moved' = [moved EXCEPT ![job.item] = @ \cap kept]
              /\ kept # {} => odd' = Add(odd, job.item, {"halved"})
              /\ kept = {} => odd' = odd
         /\ UNCHANGED <<prodVars, queue, qmoved, invalid, legalVars, tasks, import, archived>>
<1>1. CASE Purge
  <2>1. PurgeStep({}) /\ odd' = odd
    BY <1>1 DEF Purge
  <2>2. {} \in SUBSET Nat
    OBVIOUS
  <2>3. QED
    BY <2>1, <2>2 DEF PurgeStep
<1>2. CASE PurgeSwallowed
  <2>1. PICK kept \in (SUBSET published[job.item]) \ {{}} : PurgeStep(kept)
    BY <1>2 DEF PurgeSwallowed
  <2>2. kept \in SUBSET Nat /\ kept # {}
    <3>1. job.item \in Article
      BY <1>2 DEF PurgeSwallowed, AtWork, Types
    <3>2. QED
      BY <2>1, <3>1 DEF Types, Entries
  <2>3. odd' = Add(odd, job.item, {"halved"})
    BY <1>2 DEF PurgeSwallowed
  <2>4. QED
    BY <2>1, <2>2, <2>3 DEF PurgeStep
<1>3. QED
  BY <1>1, <1>2 DEF Purging

LEMMA TearStep ==
  ASSUME Types, Ending
  PROVE  /\ odd' \in [Article -> SUBSET Oddity]
         /\ \A a \in Article : /\ odd[a] \subseteq odd'[a]
                              /\ odd'[a] \subseteq odd[a] \cup {"torn", "halved"}
         /\ AtWork => "torn" \in odd'[job.item]
         /\ job.at = "queue" => "halved" \in odd'[job.item]
<1>1. Tear
  BY DEF Ending, MoveFails, JobCrash
<1>2. CASE job.item = 0
  <2>1. ~AtWork
    BY <1>2, ArticleAssumption DEF Types
  <2>2. QED
    BY <1>1, <1>2, <2>1 DEF Tear, Types, AtWork
<1>3. CASE job.item # 0
  <2>1. job.item \in Article
    BY <1>3 DEF Types, Job
  <2>2. QED
    BY <1>1, <1>3, <2>1 DEF Tear, Add, Types, Oddity, AtWork
<1>4. QED
  BY <1>2, <1>3

LEMMA MovingTypes ==
  ASSUME Types, Purging \/ PurgeQueue \/ Drop \/ EndBatch \/ Choosing \/ Ending \/ JobEnd
  PROVE  Types'
<1> USE ArticleAssumption DEF Types, AtWork
<1>1. CASE JobEnd
  BY <1>1 DEF JobEnd, JobStep, prodVars, pubVars, legalVars, AtWork
<1>2. CASE Purging
  <2>1. PICK kept \in SUBSET Nat :
          /\ published' = [published EXCEPT ![job.item] = @ \cap kept]
          /\ moved' = [moved EXCEPT ![job.item] = @ \cap kept]
          /\ odd' = odd \/ odd' = Add(odd, job.item, {"halved"})
          /\ UNCHANGED <<prodVars, queue, qmoved, invalid, legalVars, tasks, import, archived>>
    BY <1>2, PurgeStepped
  <2>2. job' \in Job /\ job.item \in Article /\ job'.item = job.item
    BY <1>2, PurgeJob DEF AtWork
  <2>3. published' \in Entries /\ moved' \in Entries
    BY <2>1 DEF Entries
  <2>4. odd' \in [Article -> SUBSET Oddity]
    <3>1. {"halved"} \in SUBSET Oddity /\ odd \in [Article -> SUBSET Oddity]
      BY DEF Oddity
    <3>2. Add(odd, job.item, {"halved"}) \in [Article -> SUBSET Oddity]
      BY <2>2, <3>1, OddType
    <3>3. odd' = odd \/ odd' = Add(odd, job.item, {"halved"})
      BY <2>1
    <3>4. QED
      BY <3>1, <3>2, <3>3
  <2>5. QED
    BY <2>1, <2>2, <2>3, <2>4 DEF prodVars, legalVars
<1>3. CASE PurgeQueue
  <2>1. job.item \in Article
    BY <1>3 DEF PurgeQueue, AtWork
  <2>2. queue' \in Entries /\ qmoved' \in Entries
    BY <1>3 DEF PurgeQueue, Entries
  <2>3. job' \in Job /\ (AtWork' => job'.item \in Article)
    BY <1>3, <2>1, QueueJob DEF AtWork
  <2>4. QED
    BY <1>3, <2>2, <2>3 DEF PurgeQueue, prodVars, legalVars
<1>4. CASE Drop \/ EndBatch
  <2>1. version' \in [Article -> Nat] /\ versions' \in Entries
    BY <1>4 DEF Drop, EndBatch, Deleted, Entries
  <2>2. job' \in Job /\ job'.at \in {"move", "idle"}
    <3>1. CASE Drop
      <4>1. job \in Job
        OBVIOUS
      <4>2. QED
        BY <3>1, <4>1, DropJob
    <3>2. CASE EndBatch
      <4>1. job' = Resting
        BY <3>2 DEF EndBatch
      <4>2. QED
        BY <4>1, IdleType DEF Resting
    <3>3. QED
      BY <1>4, <3>1, <3>2
  <2>3. QED
    BY <1>4, <2>1, <2>2 DEF Drop, EndBatch, JobStep, pubVars, legalVars, AtWork
<1>5. CASE Ending
  <2>1. job' \in Job /\ ~AtWork'
    BY <1>5, EndingJob DEF AtWork
  <2>2. odd' \in [Article -> SUBSET Oddity]
    BY <1>5, TearStep
  <2>3. QED
    BY <1>5, <2>1, <2>2 DEF Ending, MoveFails, JobCrash, JobStep, prodVars, pubVars, legalVars
<1>6. CASE Choosing
  <2>1. PICK a \in Article : Store(a) \/ KillNext(a)
    BY <1>6 DEF Choosing
  <2>2. archived' \in Entries
    BY <2>1 DEF Store, KillNext, Stored, Add, Entries
  <2>3. job' \in Job /\ job'.item \in Article
    BY <2>1, ChoosingJob
  <2>4. QED
    BY <2>1, <2>2, <2>3 DEF Store, KillNext, JobStep, prodVars, pubVars, legalVars
<1>7. QED
  BY <1>1, <1>2, <1>3, <1>4, <1>5, <1>6

LEMMA TypesStep ==
  ASSUME Types, Next
  PROVE  Types'
  BY NextCases, ImportingTypes, LegalTypes, AsideTypes, VersioningTypes, PostingTypes,
     EnqueuingTypes, DecidingTypes, MovingTypes

-----------------------------------------------------------------------------
(* No entry without its article.                                           *)

LEMMA InitOrphan == Init => OrphanInv
<1> SUFFICES ASSUME Init PROVE OrphanInv
  OBVIOUS
<1>1. job = Resting /\ \A a \in Article : version[a] = 1
  BY DEF Init
<1>2. \A a \in Article : /\ published[a] = IF state[a] = "published" THEN {1} ELSE {}
                         /\ queue[a] \subseteq published[a]
  BY DEF Init
<1>3. EntryInv
  BY <1>1, <1>2 DEF EntryInv, Empty
<1>4. JobInv /\ NoOrphans
  BY <1>1 DEF JobInv, NoOrphans, Gone, Resting, AtWork
<1>5. WritingInv
  BY DEF Init, WritingInv, IsWriting
<1>6. QED
  BY <1>3, <1>4, <1>5 DEF OrphanInv

\* The imports, the rest of a request and the end of the job leave the entries alone.
Quiet == Importing \/ Legal \/ Aside \/ JobEnd

LEMMA ImportQuiet ==
  ASSUME Types, NEW p \in Importer, ImportOf(p)
  PROVE  /\ UNCHANGED <<version, state, expired, writing, published, queue, qmoved, legalQueue,
                        job, archived>>
         /\ \A a \in Article : odd[a] \subseteq odd'[a] /\ odd'[a] \subseteq odd[a] \cup {"early"}
<1>1. CASE ImportUpsert(p)
  <2>1. odd' = odd \/ odd' = Add(odd, import[p].art, {"early"})
    BY <1>1 DEF ImportUpsert
  <2>2. QED
    BY <1>1, <2>1 DEF ImportUpsert, prodVars, pubVars, expVars, Add, Types
<1>2. CASE ImportFlag(p) \/ FlagFails(p) \/ ImportFails(p) \/ ImporterCrash(p)
  BY <1>2 DEF ImportFlag, FlagFails, ImportFails, ImporterCrash, prodVars, pubVars, legalVars, expVars
<1>3. CASE \E a \in Article : TaskTake(p, a) \/ (p = Command /\ CommandTake(a))
  BY <1>3 DEF TaskTake, CommandTake, prodVars, pubVars, legalVars, expVars
<1>4. QED
  BY <1>1, <1>2, <1>3 DEF ImportOf

LEMMA QuietStep ==
  ASSUME Types, Quiet
  PROVE  /\ UNCHANGED <<version, state, published, queue, job, archived>>
         /\ \A a \in Article :
              /\ odd[a] \subseteq odd'[a] /\ odd'[a] \subseteq odd[a] \cup {"early"}
              /\ IsWriting(a)' => IsWriting(a)
              /\ IsExpired(a) => IsExpired(a)'
              /\ IsExpired(a)' => IsExpired(a) \/ ~IsWriting(a)'
<1>1. CASE Importing
  BY <1>1, ImportQuiet DEF Importing, IsWriting, IsExpired
<1>2. CASE Legal \/ JobEnd
  BY <1>2 DEF Legal, CommandEnd, CommandEndFails, CopyQueue, JobEnd, JobStep, prodVars, pubVars,
     expVars, IsWriting, IsExpired
<1>3. CASE Aside
  <2>1. PICK a \in Article : Expire(a) \/ KeepVersion(a) \/ SendImport(a) \/ RequestFails(a)
    BY <1>3 DEF Aside
  <2>2. UNCHANGED <<version, state, published, queue, job, archived, odd>>
    BY <2>1 DEF Expire, KeepVersion, SendImport, RequestFails, pubVars, expVars
  <2>3. CASE Expire(a)
    BY <2>2, <2>3 DEF Expire, IsWriting, IsExpired
  <2>4. CASE KeepVersion(a) \/ SendImport(a) \/ RequestFails(a)
    <3>1. UNCHANGED expired /\ \A b \in Article : writing'[b] \subseteq writing[b]
      BY <2>4 DEF KeepVersion, SendImport, RequestFails, Does, Types
    <3>2. QED
      BY <2>2, <3>1 DEF IsWriting, IsExpired
  <2>5. QED
    BY <2>1, <2>3, <2>4
<1>4. QED
  BY <1>1, <1>2, <1>3 DEF Quiet

LEMMA OrphanSame ==
  ASSUME Types, OrphanInv, UNCHANGED <<version, state, published, queue, job>>,
         \A a \in Article :
              /\ odd[a] \subseteq odd'[a] /\ odd'[a] \subseteq odd[a] \cup {"early"}
              /\ IsWriting(a)' => IsWriting(a)
              /\ IsExpired(a)' => IsExpired(a) \/ ~IsWriting(a)'
  PROVE  OrphanInv'
<1>1. \A a \in Article : (Raced(a)' <=> Raced(a)) /\ (Broken(a)' <=> Broken(a))
  BY DEF Raced, Broken
<1>2. EntryInv' /\ NoOrphans'
  BY <1>1 DEF OrphanInv, EntryInv, NoOrphans, Gone, Broken, Empty
<1>3. JobInv'
  <2>1. /\ job.archive \subseteq Article /\ job.removed \subseteq Article
        /\ AtWork => job.item \in Article
    BY DEF Types, Job
  <2>2. QED
    BY <1>1, <2>1 DEF OrphanInv, JobInv, Gone, Empty, AtWork
<1>4. WritingInv'
  BY <1>1 DEF OrphanInv, WritingInv, InJob
<1>5. QED
  BY <1>2, <1>3, <1>4 DEF OrphanInv

\* The step of an editor, as the invariants see it.
LEMMA RaceStep ==
  ASSUME Types, NEW a \in Article, Race(a)
  PROVE  /\ \A b \in Article : /\ odd[b] \subseteq odd'[b] /\ odd'[b] \subseteq odd[b] \cup {"raced"}
                              /\ b # a => odd'[b] = odd[b]
         /\ InJob(a) => Raced(a)'
         /\ ~InJob(a) => odd' = odd
  BY DEF Race, Add, Raced, Types

LEMMA VersionStep ==
  ASSUME Types, NEW a \in Article, Publish(a) \/ Kill(a)
  PROVE  /\ version[a] > 0 /\ version'[a] = version[a] + 1
         /\ state[a] \in {"draft", "published"} /\ state'[a] \in {"published", "killed"}
         /\ \A b \in Article \ {a} : /\ version'[b] = version[b] /\ state'[b] = state[b]
                                     /\ writing'[b] = writing[b]
         /\ expired' = expired \ {a}
         /\ Race(a)
         /\ UNCHANGED <<pubVars, invalid, legalVars, import, expVars, faults>>
<1>1. PICK s \in {"published", "killed"} : state[a] \in {"draft", "published"} /\ NewVersion(a, s)
  BY DEF Publish, Kill
<1>2. version[a] \in Nat /\ version[a] > 0
  BY <1>1 DEF NewVersion, Types
<1>3. QED
  BY <1>1, <1>2 DEF NewVersion, Types

LEMMA PostStep ==
  ASSUME Types, NEW a \in Article, PostEntry(a)
  PROVE  /\ version[a] \in Nat \ {0} /\ IsWriting(a)
         /\ published'[a] = published[a] \cup {version[a]}
         /\ \A b \in Article \ {a} : published'[b] = published[b]
         /\ \A b \in Article : IsWriting(b)' => IsWriting(b)
         /\ UNCHANGED <<version, state, expired, versions, moved, queue, qmoved, invalid, legalVars,
                        tasks, import, expVars, faults, odd>>
<1>1. version[a] \in Nat \ {0} /\ "post" \in writing[a] /\ writing' = [writing EXCEPT ![a] = @ \ {"post"}]
  BY DEF PostEntry, Does, Types
<1>2. \A b \in Article : writing'[b] \subseteq writing[b]
  BY <1>1 DEF Types
<1>3. QED
  BY <1>1, <1>2 DEF PostEntry, Add, IsWriting, Types, Entries

LEMMA OrphanVersioning ==
  ASSUME Types, OrphanInv, Versioning
  PROVE  OrphanInv'
<1> USE DEF OrphanInv
<1>1. PICK a \in Article : Publish(a) \/ Kill(a)
  BY DEF Versioning
<1>2. /\ version[a] > 0 /\ version'[a] = version[a] + 1
      /\ state[a] \in {"draft", "published"} /\ state'[a] \in {"published", "killed"}
      /\ \A b \in Article \ {a} : /\ version'[b] = version[b] /\ state'[b] = state[b]
                                  /\ writing'[b] = writing[b]
      /\ expired' = expired \ {a} /\ Race(a)
      /\ UNCHANGED <<published, queue, job>>
  BY <1>1, VersionStep DEF pubVars, expVars
<1>3. /\ \A b \in Article : (Raced(b) => Raced(b)') /\ (Broken(b) => Broken(b)')
      /\ InJob(a) => Raced(a)'
  <2>0. Race(a)
    BY <1>2
  <2>1. \A b \in Article : odd[b] \subseteq odd'[b]
    BY <2>0 DEF Race, Add, Types
  <2>2. InJob(a) => Raced(a)'
    BY <2>0, RaceStep
  <2>3. \A b \in Article : (Raced(b) => Raced(b)') /\ (Broken(b) => Broken(b)')
    BY <2>1 DEF Raced, Broken
  <2>4. QED
    BY <2>2, <2>3 DEF Raced, Broken
<1>4. EntryInv'
  <2>1. \A b \in Article : (~Gone(b)' => ~Gone(b) /\ 1..version[b] \subseteq 1..version'[b])
    BY <1>2 DEF Gone, Types
  <2>2. \A b \in Article : state'[b] = "spiked" => state[b] = "spiked"
    BY <1>2
  <2>3. QED
    BY <1>2, <1>3, <2>1, <2>2 DEF EntryInv, Empty
<1>5. NoOrphans'
  <2>1. \A b \in Article : (Gone(b)' => Gone(b))
    BY <1>2 DEF Gone, Types
  <2>2. QED
    BY <1>2, <1>3, <2>1 DEF NoOrphans, Broken
<1>6. JobInv'
  <2>1. job.archive \subseteq Article /\ job.removed \subseteq Article /\ job.killed \subseteq Article
    BY DEF Types, Job
  <2>2. \A b \in Article : (Gone(b)' => Gone(b)) /\ (state[b] = "killed" => state'[b] = "killed")
    BY <1>2 DEF Gone, Types
  <2>3. AtWork => job.item \in Article
    BY DEF Types
  <2>4. QED
    BY <1>2, <1>3, <2>1, <2>2, <2>3 DEF JobInv, Empty, AtWork
<1>7. WritingInv'
  <2>1. \A b \in Article : IsExpired(b)' => IsExpired(b) /\ b # a
    BY <1>2 DEF IsExpired
  <2>2. \A b \in Article : InJob(b)' <=> InJob(b)
    BY <1>2 DEF InJob
  <2>3. \A b \in Article : b # a => (IsWriting(b)' <=> IsWriting(b))
    BY <1>2 DEF IsWriting
  <2>4. QED
    BY <1>2, <1>3, <2>1, <2>2, <2>3 DEF WritingInv
<1>8. QED
  BY <1>4, <1>5, <1>6, <1>7

LEMMA OrphanPosting ==
  ASSUME Types, OrphanInv, Posting
  PROVE  OrphanInv'
<1> USE DEF OrphanInv
<1>1. PICK a \in Article : PostEntry(a)
  BY DEF Posting
<1>2. /\ version[a] \in Nat \ {0} /\ IsWriting(a)
      /\ published'[a] = published[a] \cup {version[a]}
      /\ \A b \in Article \ {a} : published'[b] = published[b]
      /\ \A b \in Article : IsWriting(b)' => IsWriting(b)
      /\ UNCHANGED <<version, state, expired, queue, job, odd>>
  BY <1>1, PostStep DEF expVars
<1>3. state[a] # "spiked" /\ (InJob(a) => Broken(a))
  BY <1>2 DEF WritingInv, Raced, Broken
<1>4. EntryInv'
  BY <1>2, <1>3 DEF EntryInv, Gone, Empty, Broken
<1>5. NoOrphans'
  BY <1>2 DEF NoOrphans, Gone
<1>6. JobInv'
  <2>1. job.archive \subseteq Article /\ job.removed \subseteq Article /\ job.killed \subseteq Article
    BY DEF Types, Job
  <2>2. \A b \in Article : InJob(b) => published'[b] = published[b] \/ Broken(b)
    BY <1>2, <1>3
  <2>3. QED
    BY <1>2, <2>1, <2>2 DEF JobInv, InJob, Gone, Empty, AtWork, Broken
<1>7. WritingInv'
  BY <1>2 DEF WritingInv, Raced, IsExpired, InJob
<1>8. QED
  BY <1>4, <1>5, <1>6, <1>7

LEMMA OrphanEnqueuing ==
  ASSUME Types, OrphanInv, Enqueuing
  PROVE  OrphanInv'
<1> USE DEF OrphanInv
<1>1. PICK a \in Article : Enqueue(a)
  BY DEF Enqueuing
<1>2. PICK v \in published[a] : queue' = Add(queue, a, {v})
  BY <1>1 DEF Enqueue
<1>3. UNCHANGED <<version, state, published, job, expired, writing>> /\ Race(a)
  BY <1>1 DEF Enqueue, prodVars, expVars
<1>4. /\ \A b \in Article : (Raced(b) => Raced(b)') /\ (Broken(b) => Broken(b)')
      /\ InJob(a) => Broken(a)'
  <2>0. Race(a)
    BY <1>3
  <2>1. \A b \in Article : odd[b] \subseteq odd'[b]
    BY <2>0 DEF Race, Add, Types
  <2>2. InJob(a) => Raced(a)'
    BY <2>0, RaceStep
  <2>3. \A b \in Article : (Raced(b) => Raced(b)') /\ (Broken(b) => Broken(b)')
    BY <2>1 DEF Raced, Broken
  <2>4. QED
    BY <2>2, <2>3 DEF Raced, Broken
<1>5. queue'[a] = queue[a] \cup {v} /\ \A b \in Article : b # a => queue'[b] = queue[b]
  BY <1>2 DEF Add, Types, Entries
<1>6. EntryInv'
  <2>1. state[a] # "spiked"
    BY <1>2 DEF EntryInv, Empty
  <2>2. \A b \in Article : queue[b] \subseteq published[b] => queue'[b] \subseteq published[b]
    BY <1>2, <1>5
  <2>3. \A b \in Article : /\ published[b] \subseteq Nat \ {0}
                           /\ ~Gone(b)' => published[b] \subseteq 1..version[b]
                           /\ state[b] = "spiked" => Empty(b)'
    BY <1>3, <1>5, <2>1 DEF EntryInv, Gone, Empty
  <2>4. \A b \in Article : queue'[b] \subseteq published[b] \/ Broken(b)' \/ (job.at = "queue" /\ job.item = b)
    BY <1>4, <2>2 DEF EntryInv
  <2>5. QED
    BY <1>3, <2>3, <2>4 DEF EntryInv, Gone
<1>7. NoOrphans'
  BY <1>2, <1>3, <1>4, <1>5 DEF NoOrphans, Gone, Broken
<1>8. JobInv'
  <2>1. job.archive \subseteq Article /\ job.removed \subseteq Article /\ job.killed \subseteq Article
    BY DEF Types, Job
  <2>2. \A b \in Article : InJob(b) => queue'[b] = queue[b] \/ Broken(b)'
    BY <1>4, <1>5
  <2>3. QED
    BY <1>3, <1>4, <2>1, <2>2 DEF JobInv, InJob, Gone, Empty, AtWork
<1>9. WritingInv'
  BY <1>3, <1>4 DEF WritingInv, IsWriting, IsExpired, InJob
<1>10. QED
  BY <1>6, <1>7, <1>8, <1>9

LEMMA OrphanDeciding ==
  ASSUME Types, OrphanInv, Deciding
  PROVE  OrphanInv'
<1> USE DEF OrphanInv
<1>1. UNCHANGED <<published, queue, state, expired, writing>> /\ job.at = "idle"
  BY DecidingStep DEF JobStep, pubVars
<1>2. \A a \in Article : version'[a] = version[a] \/ (version'[a] = 0 /\ state[a] = "spiked")
  BY DecidingStep
<1>3. \A a \in Article : (Raced(a)' <=> Raced(a)) /\ (Broken(a)' <=> Broken(a))
  BY DecidingStep DEF Raced, Broken
<1>4. EntryInv'
  BY <1>1, <1>2, <1>3 DEF EntryInv, Gone, Empty, Types
<1>5. NoOrphans'
  BY <1>1, <1>2, <1>3 DEF NoOrphans, EntryInv, Gone, Empty, Broken
<1>6. JobInv'
  <2>1. job' \in Job /\ job'.at = "move" /\ job'.removed = {}
    BY DecidingStep
  <2>2. \A a \in job'.archive : version[a] > 0 /\ state[a] # "spiked"
    BY DecidingStep
  <2>3. \A a \in job'.killed : state[a] = "killed"
    BY DecidingStep
  <2>4. \A a \in job'.archive : ~Gone(a)'
    BY <1>2, <2>1, <2>2 DEF Gone, Job
  <2>5. QED
    BY <1>1, <2>1, <2>3, <2>4 DEF JobInv, AtWork
<1>7. WritingInv'
  <2>1. \A a \in Article : InJob(a)' => IsExpired(a)
    BY DecidingStep DEF InJob
  <2>2. QED
    BY <1>1, <1>3, <2>1 DEF WritingInv, IsWriting, IsExpired
<1>8. QED
  BY <1>4, <1>5, <1>6, <1>7

\* The two steps of a deletion, as the invariants see them.
LEMMA PurgeFacts ==
  ASSUME Types, Purging
  PROVE  /\ job.item \in Article
         /\ published'[job.item] \subseteq published[job.item]
         /\ published'[job.item] \ moved'[job.item] \subseteq published[job.item] \ moved[job.item]
         /\ moved'[job.item] \subseteq moved[job.item]
         /\ published'[job.item] = {} \/ "halved" \in odd'[job.item]
         /\ \A b \in Article \ {job.item} : published'[b] = published[b] /\ moved'[b] = moved[b]
         /\ \A b \in Article : odd[b] \subseteq odd'[b] /\ odd'[b] \subseteq odd[b] \cup {"halved"}
         /\ UNCHANGED <<prodVars, queue, qmoved, invalid, legalVars, tasks, import, archived>>
<1>1. PICK kept \in SUBSET Nat :
        /\ published' = [published EXCEPT ![job.item] = @ \cap kept]
        /\ moved' = [moved EXCEPT ![job.item] = @ \cap kept]
        /\ kept # {} => odd' = Add(odd, job.item, {"halved"})
        /\ kept = {} => odd' = odd
        /\ UNCHANGED <<prodVars, queue, qmoved, invalid, legalVars, tasks, import, archived>>
  BY PurgeStepped
<1>2. job.item \in Article
  BY PurgeJob DEF Types, AtWork
<1>3. /\ published'[job.item] = published[job.item] \cap kept
      /\ moved'[job.item] = moved[job.item] \cap kept
      /\ \A b \in Article \ {job.item} : published'[b] = published[b] /\ moved'[b] = moved[b]
  BY <1>1, <1>2 DEF Types, Entries
<1>4. CASE kept = {}
  BY <1>1, <1>2, <1>3, <1>4
<1>5. CASE kept # {}
  <2>1. /\ "halved" \in odd'[job.item]
        /\ \A b \in Article : odd[b] \subseteq odd'[b] /\ odd'[b] \subseteq odd[b] \cup {"halved"}
    BY <1>1, <1>2, <1>5 DEF Add, Types
  <2>2. QED
    BY <1>1, <1>2, <1>3, <2>1
<1>6. QED
  BY <1>4, <1>5

LEMMA QueueFacts ==
  ASSUME Types, PurgeQueue
  PROVE  /\ job.item \in Article
         /\ queue'[job.item] = {} /\ qmoved'[job.item] = {}
         /\ \A b \in Article \ {job.item} : queue'[b] = queue[b] /\ qmoved'[b] = qmoved[b]
         /\ UNCHANGED <<prodVars, published, moved, invalid, legalVars, tasks, import, archived, odd>>
<1>1. job.item \in Article
  BY DEF PurgeQueue, AtWork, Types
<1>2. QED
  BY <1>1 DEF PurgeQueue, Types, Entries

LEMMA OrphanPurging ==
  ASSUME Types, OrphanInv, Purging
  PROVE  OrphanInv'
<1> USE DEF OrphanInv
<1>0. job \in Job /\ job.archive \subseteq Article /\ job.killed \subseteq Article /\ job.removed \subseteq Article
  BY DEF Types, Job
<1>i. PICK i \in Article : i = job.item
  BY PurgeFacts
<1>1. /\ published'[i] \subseteq published[i]
      /\ published'[i] = {} \/ "halved" \in odd'[i]
      /\ \A b \in Article \ {i} : published'[b] = published[b]
      /\ UNCHANGED <<version, state, expired, writing, queue>>
  BY <1>i, PurgeFacts DEF prodVars
<1>2. \A b \in Article : (Raced(b)' <=> Raced(b)) /\ (Broken(b) => Broken(b)')
  BY PurgeFacts DEF Raced, Broken
<1>3. published'[i] = {} \/ Broken(i)'
  BY <1>1 DEF Broken
<1>4. /\ job.at = "purge" /\ job'.at = "queue" /\ job'.item = i
      /\ job'.archive = job.archive /\ job'.killed = job.killed /\ job'.removed = job.removed
  BY <1>0, <1>i, PurgeJob
<1>5. EntryInv'
  BY <1>1, <1>2, <1>4 DEF EntryInv, Gone, Empty
<1>6. NoOrphans'
  BY <1>1, <1>2 DEF NoOrphans, Gone, Broken
<1>7. JobInv'
  <2>1. i \in job.archive \cup job.killed
    BY <1>i, <1>4 DEF JobInv, AtWork
  <2>2. QED
    <3>1. \A b \in Article : Empty(b) => Empty(b)'
      BY <1>1 DEF Empty
    <3>2. \A b \in job.removed : Empty(b)' \/ Broken(b)'
      BY <1>0, <1>2, <3>1 DEF JobInv
    <3>3. /\ \A b \in job.archive : ~Gone(b)'
          /\ \A b \in job.killed \cup job.removed : state'[b] = "killed"
      BY <1>1 DEF JobInv, Gone
    <3>4. QED
      BY <1>3, <1>4, <2>1, <3>2, <3>3 DEF JobInv, AtWork
<1>8. WritingInv'
  BY <1>1, <1>2, <1>4 DEF WritingInv, IsWriting, IsExpired, InJob
<1>9. QED
  BY <1>5, <1>6, <1>7, <1>8

LEMMA OrphanPurgeQueue ==
  ASSUME Types, OrphanInv, PurgeQueue
  PROVE  OrphanInv'
<1> USE DEF OrphanInv
<1>0. job \in Job /\ job.archive \subseteq Article /\ job.killed \subseteq Article /\ job.removed \subseteq Article
  BY DEF Types, Job
<1>i. PICK i \in Article : i = job.item
  BY QueueFacts
<1>1. /\ queue'[i] = {}
      /\ \A b \in Article \ {i} : queue'[b] = queue[b]
      /\ UNCHANGED <<version, state, expired, writing, published, odd>>
  BY <1>i, QueueFacts DEF prodVars
<1>2. \A b \in Article : (Raced(b)' <=> Raced(b)) /\ (Broken(b)' <=> Broken(b))
  BY <1>1 DEF Raced, Broken
<1>3. job.at = "queue" /\ job'.archive = job.archive
      /\ (published[i] = {} \/ Broken(i)) /\ i \in job.archive \cup job.killed
  BY <1>0, <1>i, QueueJob DEF JobInv, AtWork
<1>4. i \in job.archive => /\ job'.at = "drop" /\ job'.item = i
                          /\ job'.killed = job.killed /\ job'.removed = job.removed
  BY <1>0, <1>i, QueueJob
<1>5. i \notin job.archive => /\ job'.at = "kill" /\ job'.killed = job.killed \ {i}
                             /\ job'.removed = job.removed \cup {i}
  BY <1>0, <1>i, QueueJob
<1>6. EntryInv'
  <2>1. \A b \in Article : queue'[b] \subseteq published[b] \/ Broken(b)
    BY <1>i, <1>1, <1>3 DEF EntryInv
  <2>2. QED
    BY <1>1, <1>2, <2>1 DEF EntryInv, Gone, Empty
<1>7. NoOrphans'
  BY <1>1, <1>2 DEF NoOrphans, Gone, Broken
<1>8. JobInv'
  <2>1. Empty(i)' \/ Broken(i)'
    BY <1>1, <1>2, <1>3 DEF Empty
  <2>2. \A b \in Article : Empty(b) => Empty(b)'
    BY <1>1 DEF Empty
  <2>3. CASE i \in job.archive
    BY <1>0, <1>1, <1>2, <1>3, <1>4, <2>1, <2>2, <2>3 DEF JobInv, AtWork, Gone
  <2>4. CASE i \notin job.archive
    BY <1>0, <1>1, <1>2, <1>3, <1>5, <2>1, <2>2, <2>4 DEF JobInv, AtWork, Gone
  <2>5. QED
    BY <2>3, <2>4
<1>9. WritingInv'
  <2>1. \A b \in Article : InJob(b)' => InJob(b)
    BY <1>3, <1>4, <1>5 DEF InJob
  <2>2. QED
    BY <1>1, <1>2, <2>1 DEF WritingInv, IsWriting, IsExpired
<1>10. QED
  BY <1>6, <1>7, <1>8, <1>9

LEMMA OrphanDrop ==
  ASSUME Types, OrphanInv, Drop
  PROVE  OrphanInv'
<1> USE DEF OrphanInv
<1>0. job \in Job /\ job.archive \subseteq Article /\ job.killed \subseteq Article /\ job.removed \subseteq Article
  BY DEF Types, Job
<1>1. job.at = "drop" /\ job.item \in job.archive /\ (Empty(job.item) \/ Broken(job.item))
  BY DEF Drop, JobInv
<1>2. \A b \in Article : version'[b] = IF b = job.item THEN 0 ELSE version[b]
  BY DEF Drop, Deleted, Types
<1>3. UNCHANGED <<state, expired, writing, published, queue, odd>>
  BY DEF Drop, JobStep, pubVars
<1>4. /\ job'.at = "move" /\ job'.archive = job.archive \ {job.item}
      /\ job'.killed = job.killed /\ job'.removed = job.removed
  BY <1>0, DropJob
<1>5. EntryInv'
  BY <1>1, <1>2, <1>3 DEF EntryInv, Gone, Empty, Broken
<1>6. NoOrphans'
  BY <1>1, <1>2, <1>3 DEF NoOrphans, Gone, Empty, Broken
<1>7. JobInv'
  BY <1>0, <1>2, <1>3, <1>4 DEF JobInv, AtWork, Gone, Empty, Broken
<1>8. WritingInv'
  BY <1>3, <1>4 DEF WritingInv, IsWriting, IsExpired, InJob, Raced
<1>9. QED
  BY <1>5, <1>6, <1>7, <1>8

LEMMA OrphanEndBatch ==
  ASSUME Types, OrphanInv, EndBatch
  PROVE  OrphanInv'
<1> USE DEF OrphanInv
<1>1. \A a \in Article : version'[a] = IF a \in job.removed THEN 0 ELSE version[a]
  BY DEF EndBatch, Deleted
<1>2. UNCHANGED <<state, expired, writing, published, queue, odd>> /\ job' = Resting /\ job.at # "queue"
  BY DEF EndBatch, pubVars
<1>3. EntryInv'
  BY <1>1, <1>2 DEF EntryInv, Gone, Empty, Broken
<1>4. NoOrphans'
  BY <1>1, <1>2 DEF NoOrphans, JobInv, Gone, Empty, Broken
<1>5. JobInv'
  BY <1>2 DEF JobInv, Resting, AtWork
<1>6. WritingInv'
  BY <1>2 DEF WritingInv, IsWriting, IsExpired, InJob, Raced, Resting
<1>7. QED
  BY <1>3, <1>4, <1>5, <1>6

LEMMA OrphanEnding ==
  ASSUME Types, OrphanInv, Ending
  PROVE  OrphanInv'
<1> USE DEF OrphanInv
<1>0. job \in Job /\ job.archive \subseteq Article /\ job.killed \subseteq Article /\ job.removed \subseteq Article
  BY DEF Types, Job
<1>1. UNCHANGED <<version, state, expired, writing, published, queue>>
  BY DEF Ending, MoveFails, JobCrash, JobStep, prodVars, pubVars
<1>2. /\ job'.at \in {"idle", "move", "kill"} /\ job'.archive \subseteq job.archive
      /\ job'.killed \subseteq job.killed /\ job'.removed \subseteq job.removed
      /\ job'.at = "idle" => job' = Resting
  BY <1>0, EndingJob
<1>3. \A a \in Article : (Raced(a)' <=> Raced(a)) /\ (Broken(a) => Broken(a)')
  BY TearStep DEF Raced, Broken
<1>4. \A a \in Article : job.at = "queue" /\ job.item = a => Broken(a)'
  BY TearStep DEF Broken
<1>5. EntryInv'
  BY <1>1, <1>3, <1>4 DEF EntryInv, Gone, Empty
<1>6. NoOrphans'
  BY <1>1, <1>3 DEF NoOrphans, Gone, Broken
<1>7. JobInv'
  BY <1>0, <1>1, <1>2, <1>3 DEF JobInv, AtWork, Gone, Empty, Resting
<1>8. WritingInv'
  BY <1>1, <1>2, <1>3 DEF WritingInv, IsWriting, IsExpired, InJob
<1>9. QED
  BY <1>5, <1>6, <1>7, <1>8

LEMMA OrphanChoosing ==
  ASSUME Types, OrphanInv, Choosing
  PROVE  OrphanInv'
<1> USE DEF OrphanInv
<1>0. job \in Job /\ job.archive \subseteq Article /\ job.killed \subseteq Article /\ job.removed \subseteq Article
  BY DEF Types, Job
<1>1. PICK a \in Article : Store(a) \/ KillNext(a)
  BY DEF Choosing
<1>2. UNCHANGED <<version, state, expired, writing, published, queue, odd>>
  BY <1>1 DEF Store, KillNext, JobStep, prodVars, pubVars
<1>3. /\ job'.item = a /\ job.at \in {"move", "kill"}
      /\ job'.archive = job.archive /\ job'.killed = job.killed /\ job'.removed = job.removed
  BY <1>0, <1>1, ChoosingJob
<1>4. \/ a \in job.archive /\ job'.at = (IF published[a] = {} THEN "drop" ELSE "purge")
      \/ a \in job.killed /\ job'.at = "purge"
  BY <1>0, <1>1, ChoosingJob
<1>5. EntryInv'
  BY <1>2, <1>3, <1>4 DEF EntryInv, Gone, Empty, Broken
<1>6. NoOrphans'
  BY <1>2 DEF NoOrphans, Gone
<1>7. JobInv'
  <2>1. published[a] = {} => Empty(a) \/ Broken(a)
    BY <1>3 DEF EntryInv, Empty
  <2>2. QED
    BY <1>0, <1>2, <1>3, <1>4, <2>1 DEF JobInv, AtWork, Gone, Empty, Broken
<1>8. WritingInv'
  BY <1>2, <1>3 DEF WritingInv, IsWriting, IsExpired, InJob, Raced
<1>9. QED
  BY <1>5, <1>6, <1>7, <1>8

LEMMA OrphanStep ==
  ASSUME Types, OrphanInv, Next
  PROVE  OrphanInv'
<1>1. CASE Quiet
  BY <1>1, QuietStep, OrphanSame
<1>2. CASE ~Quiet
  BY <1>2, NextCases, OrphanVersioning, OrphanPosting, OrphanEnqueuing, OrphanDeciding,
     OrphanPurging, OrphanPurgeQueue, OrphanDrop, OrphanEndBatch, OrphanChoosing, OrphanEnding
     DEF Quiet
<1>3. QED
  BY <1>1, <1>2

\* No entry of published or of the publish queue outlives its article, unless a new
\* version was published, or an entry enqueued, while the job was removing it, or the
\* deletion of its entries stopped halfway (archive/commands.py, _move_to_archived and
\* _remove_expired_items; published_item.py, delete_by_article_id).
THEOREM EntriesGoWithTheArticle == Spec => []NoOrphans
<1>1. Init => Types /\ OrphanInv
  BY InitTypes, InitOrphan
<1>2. Types /\ OrphanInv /\ [Next]_vars => (Types /\ OrphanInv)'
  <2> SUFFICES ASSUME Types, OrphanInv, [Next]_vars PROVE (Types /\ OrphanInv)'
    OBVIOUS
  <2>1. CASE Next
    BY <2>1, TypesStep, OrphanStep
  <2>2. CASE UNCHANGED vars
    <3>1. UNCHANGED <<version, state, expired, writing, published, queue, job, odd>>
      BY <2>2 DEF vars, prodVars, pubVars, expVars
    <3>2. Types'
      BY <2>2 DEF vars, prodVars, pubVars, legalVars, expVars, Types, AtWork
    <3>3. OrphanInv'
      BY <3>1, OrphanSame DEF IsWriting, IsExpired
    <3>4. QED
      BY <3>2, <3>3
  <2>3. QED
    BY <2>1, <2>2
<1>3. OrphanInv => NoOrphans
  BY DEF OrphanInv
<1>4. QED
  BY <1>1, <1>2, <1>3, PTL DEF Spec

-----------------------------------------------------------------------------
(* The legal archive has what is removed.                                  *)

\* In every step: what is gone stays so and gets no entry, versions go up until then, the
\* legal archive keeps its versions, and what was odd stays so.
Onward ==
  \A a \in Article : /\ Gone(a) => Gone(a)' /\ published'[a] \subseteq published[a]
                     /\ Gone(a)' \/ version[a] <= version'[a]
                     /\ legalVersions[a] \subseteq legalVersions'[a]
                     /\ odd[a] \subseteq odd'[a]

LEMMA OnwardStep ==
  ASSUME Types, OrphanInv, Next
  PROVE  Onward
<1> USE DEF Onward
<1>0. \A a \in Article : version[a] \in Nat
  BY DEF Types
<1>1. CASE Importing
  <2>1. PICK p \in Importer : ImportOf(p)
    BY <1>1 DEF Importing
  <2>2. UNCHANGED <<version, published>> /\ \A a \in Article : odd[a] \subseteq odd'[a]
    BY <2>1, ImportQuiet
  <2>3. \A a \in Article : legalVersions[a] \subseteq legalVersions'[a]
    <3>1. CASE ImportUpsert(p)
      BY <3>1 DEF ImportUpsert, Add, Types, Entries
    <3>2. CASE UNCHANGED legalVersions
      BY <3>2
    <3>3. QED
      BY <2>1, <3>1, <3>2 DEF ImportOf, ImportFlag, FlagFails, ImportFails, ImporterCrash,
         TaskTake, CommandTake, legalVars
  <2>4. QED
    BY <1>0, <2>2, <2>3 DEF Gone
<1>2. CASE Legal \/ Aside \/ JobEnd \/ PurgeQueue
  <2>1. UNCHANGED <<version, published, legalVersions, odd>>
    BY <1>2 DEF Legal, CommandEnd, CommandEndFails, CopyQueue, Aside, Expire, KeepVersion,
       SendImport, RequestFails, JobEnd, JobStep, PurgeQueue, prodVars, pubVars, legalVars
  <2>2. QED
    BY <1>0, <2>1 DEF Gone
<1>3. CASE Versioning
  <2>1. PICK a \in Article : Publish(a) \/ Kill(a)
    BY <1>3 DEF Versioning
  <2>2. /\ version[a] > 0 /\ version'[a] = version[a] + 1 /\ Race(a)
        /\ \A b \in Article \ {a} : version'[b] = version[b]
        /\ UNCHANGED <<published, legalVersions>>
    BY <2>1, VersionStep DEF pubVars, legalVars
  <2>3. \A b \in Article : odd[b] \subseteq odd'[b]
    BY <2>2 DEF Race, Add, Types
  <2>4. QED
    BY <1>0, <2>2, <2>3 DEF Gone
<1>4. CASE Posting
  <2>1. PICK a \in Article : PostEntry(a)
    BY <1>4 DEF Posting
  <2>2. /\ version[a] \in Nat \ {0}
        /\ \A b \in Article \ {a} : published'[b] = published[b]
        /\ UNCHANGED <<version, legalVersions, odd>>
    BY <2>1, PostStep DEF legalVars
  <2>3. QED
    BY <1>0, <2>2 DEF Gone
<1>5. CASE Enqueuing
  <2>1. PICK a \in Article : Enqueue(a)
    BY <1>5 DEF Enqueuing
  <2>2. UNCHANGED <<version, published, legalVersions>> /\ Race(a)
    BY <2>1 DEF Enqueue, prodVars, legalVars
  <2>3. \A b \in Article : odd[b] \subseteq odd'[b]
    BY <2>2 DEF Race, Add, Types
  <2>4. QED
    BY <1>0, <2>2, <2>3 DEF Gone
<1>6. CASE Deciding
  <2>1. UNCHANGED <<published, legalVersions>>
    BY <1>6, DecidingStep DEF JobStep, pubVars, legalVars
  <2>2. \A a \in Article : version'[a] = version[a] \/ version'[a] = 0
    BY <1>6, DecidingStep
  <2>3. \A a \in Article : odd[a] \subseteq odd'[a]
    BY <1>6, DecidingStep
  <2>4. QED
    BY <1>0, <2>1, <2>2, <2>3 DEF Gone
<1>7. CASE Purging
  <2>1. \A a \in Article : published'[a] \subseteq published[a] /\ odd[a] \subseteq odd'[a]
    BY <1>7, PurgeFacts
  <2>2. UNCHANGED <<version, legalVersions>>
    BY <1>7, PurgeFacts DEF prodVars, legalVars
  <2>3. QED
    BY <1>0, <2>1, <2>2 DEF Gone
<1>8. CASE Drop \/ EndBatch
  <2>1. UNCHANGED <<published, legalVersions, odd>>
    BY <1>8 DEF Drop, EndBatch, JobStep, pubVars, legalVars
  <2>2. \A a \in Article : version'[a] = version[a] \/ version'[a] = 0
    BY <1>8 DEF Drop, EndBatch, Deleted
  <2>3. QED
    BY <1>0, <2>1, <2>2 DEF Gone
<1>9. CASE Choosing
  <2>1. UNCHANGED <<version, published, legalVersions, odd>>
    BY <1>9 DEF Choosing, Store, KillNext, JobStep, prodVars, pubVars, legalVars
  <2>2. QED
    BY <1>0, <2>1 DEF Gone
<1>10. CASE Ending
  <2>1. UNCHANGED <<version, published, legalVersions>>
    BY <1>10 DEF Ending, MoveFails, JobCrash, JobStep, prodVars, pubVars, legalVars
  <2>2. \A a \in Article : odd[a] \subseteq odd'[a]
    BY <1>10, TearStep
  <2>3. QED
    BY <1>0, <2>1, <2>2 DEF Gone
<1>11. QED
  BY <1>1, <1>2, <1>3, <1>4, <1>5, <1>6, <1>7, <1>8, <1>9, <1>10, NextCases

\* So what an import knows stays true while it takes no step.
LEMMA ImportKept ==
  ASSUME Types, Types', Onward, NEW p \in Importer, ImportInv(p), import'[p] = import[p]
  PROVE  ImportInv(p)'
<1> DEFINE upto == import[p].doc
<1>1. import[p] \in Imports
  BY DEF Types
<1>2. CASE At(p, "upsert") \/ At(p, "flag")
  <2>a. PICK a \in Article : a = import[p].art
    BY <1>1, <1>2 DEF Imports, At
  <2>d. PICK doc \in Nat : doc = import[p].doc
    BY <1>1 DEF Imports
  <2>1. /\ Gone(a) => Gone(a)' /\ published'[a] \subseteq published[a]
        /\ Gone(a)' \/ version[a] <= version'[a]
        /\ legalVersions[a] \subseteq legalVersions'[a]
        /\ odd[a] \subseteq odd'[a]
    BY DEF Onward
  <2>2. version[a] \in Nat /\ version'[a] \in Nat
    BY DEF Types
  <2>3. Gone(a) \/ doc <= version[a]
    BY <1>2, <2>a, <2>d DEF ImportInv, At
  <2>4. Gone(a)' \/ doc <= version'[a]
    BY <2>1, <2>2, <2>3
  <2>5. Sound(a)' => Sound(a)
    BY <2>1 DEF Sound
  <2>6. ASSUME At(p, "flag"), Sound(a)'
        PROVE  \/ 1..doc \subseteq legalVersions'[a]
               \/ Gone(a)' /\ Flagged(a, doc)' \subseteq legalVersions'[a]
    <3>1. 1..doc \subseteq legalVersions[a] \/ (Gone(a) /\ Flagged(a, doc) \subseteq legalVersions[a])
      BY <2>5, <2>6, <2>a, <2>d DEF ImportInv, At
    <3>2. Gone(a) => Flagged(a, doc)' \subseteq Flagged(a, doc)
      BY <2>1 DEF Flagged
    <3>3. QED
      BY <2>1, <3>1, <3>2
  <2>7. QED
    BY <2>4, <2>6, <2>a, <2>d DEF ImportInv, At, Flagged
<1>3. CASE ~(At(p, "upsert") \/ At(p, "flag"))
  BY <1>3 DEF ImportInv, At
<1>4. QED
  BY <1>2, <1>3

LEMMA ImportInvStep ==
  ASSUME Types, OrphanInv, LegalInv, Next
  PROVE  \A p \in Importer : ImportInv(p)'
<1>0. Types' /\ Onward /\ \A p \in Importer : ImportInv(p)
  BY TypesStep, OnwardStep DEF LegalInv
<1>1. CASE Importing
  <2>1. PICK p \in Importer : ImportOf(p)
    BY <1>1 DEF Importing
  <2>2. \A q \in Importer : q # p => import'[q] = import[q]
    BY <2>1 DEF ImportOf, ImportUpsert, ImportFlag, FlagFails, Imported, Goto, Return, ImportFails,
       ImporterCrash, TaskTake, CommandTake, Begin, Types
  <2>3. \A q \in Importer : q # p => ImportInv(q)'
    BY <1>0, <2>2, ImportKept
  <2>4. CASE import'[p].at \notin {"upsert", "flag"}
    BY <2>3, <2>4 DEF ImportInv
  <2>5. CASE ImportUpsert(p)
    <3>1. At(p, "upsert") /\ import[p] \in Imports
      BY <2>5 DEF ImportUpsert, Types
    <3>a. PICK a \in Article, doc \in Nat : a = import[p].art /\ doc = import[p].doc
      BY <3>1 DEF At, Imports
    <3>2. import'[p].at = "flag" /\ import'[p].art = a /\ import'[p].doc = doc
      BY <2>5, <3>1, <3>a DEF ImportUpsert, Types, Imports
    <3>3. UNCHANGED version
      BY <2>5 DEF ImportUpsert, prodVars
    <3>4. Gone(a)' \/ doc <= version'[a]
      BY <1>0, <3>1, <3>3, <3>a DEF ImportInv, At, Gone
    <3>5. legalVersions'[a] = legalVersions[a] \cup Lacking(p)
      BY <2>5, <3>a DEF ImportUpsert, Add, Types, Entries
    <3>6. Early(p) => ~Sound(a)'
      BY <2>5, <3>a DEF ImportUpsert, Add, Types, Sound
    <3>7. ~Early(p) => 1..doc \subseteq legalVersions'[a]
      BY <3>5, <3>a DEF Early
    <3>8. ImportInv(p)'
      BY <3>2, <3>4, <3>6, <3>7 DEF ImportInv
    <3>9. QED
      BY <2>3, <3>8
  <2>6. CASE \E a \in Article : TaskTake(p, a) \/ (p = Command /\ CommandTake(a))
    <3>1. PICK a \in Article : TaskTake(p, a) \/ (p = Command /\ CommandTake(a))
      BY <2>6
    <3>2. UNCHANGED <<version, published, legalVersions, odd>>
      BY <3>1 DEF TaskTake, CommandTake, prodVars, pubVars, legalVars
    <3>3. version[a] \in Nat /\ version'[a] = version[a] /\ legal[a] \in Nat
      BY <3>2 DEF Types
    <3>4. CASE version[a] > 0
      <4>1. Begin(p, a, version[a])
        BY <3>1, <3>4 DEF TaskTake, CommandTake
      <4>2. ~(legal[a] > version[a]) /\ version[a] # 0
        BY <3>3, <3>4 DEF LegalInv, FlagInv, Gone
      <4>3. import'[p] = [at |-> "upsert", art |-> a, doc |-> version[a], found |-> legal[a]]
        BY <4>1, <4>2 DEF Begin, Types
      <4>4. ImportInv(p)'
        BY <3>3, <4>3 DEF ImportInv
      <4>5. QED
        BY <2>3, <4>4
    <3>5. CASE ~(version[a] > 0) /\ TaskTake(p, a)
      <4>1. import'[p] = import[p]
        BY <3>3, <3>5 DEF TaskTake
      <4>2. QED
        BY <1>0, <2>3, <4>1, ImportKept
    <3>6. CASE ~(version[a] > 0) /\ p = Command /\ CommandTake(a)
      <4>0. version[a] = 0
        BY <3>3, <3>6
      <4>1. PICK doc \in published[a] \ moved[a] : Begin(p, a, doc)
        BY <3>6 DEF CommandTake
      <4>2. import'[p] = [at |-> "flag", art |-> a, doc |-> doc, found |-> legal[a]]
        BY <4>0, <4>1 DEF Begin, Types
      <4>3. Gone(a) /\ ~Clean(a)
        BY <4>0, <4>1 DEF LegalInv, MovedInv, Gone
      <4>4. Gone(a)' /\ ~Sound(a)'
        BY <3>2, <4>3 DEF Clean, Sound, Gone
      <4>5. ImportInv(p)'
        BY <4>2, <4>4 DEF ImportInv
      <4>6. QED
        BY <2>3, <4>5
    <3>7. QED
      BY <3>1, <3>4, <3>5, <3>6
  <2>7. CASE ImportFlag(p) \/ FlagFails(p) \/ ImportFails(p) \/ ImporterCrash(p)
    <3>1. import' = [import EXCEPT ![p].at = "queue"] \/ import' = [import EXCEPT ![p] = Idle]
      BY <2>7 DEF ImportFlag, FlagFails, Imported, Goto, Return, ImportFails, ImporterCrash
    <3>2. import'[p].at \in {"queue", "idle"}
      BY <3>1 DEF Types, Imports, Idle
    <3>3. QED
      BY <2>4, <3>2
  <2>8. QED
    BY <2>1, <2>5, <2>6, <2>7 DEF ImportOf
<1>2. CASE CommandEnd \/ CommandEndFails
  <2>1. TAKE p \in Importer
  <2>2. CASE p = Command
    BY <1>2, <2>2 DEF CommandEnd, CommandEndFails, Return, Types, Idle, ImportInv
  <2>3. CASE p # Command
    BY <1>0, <1>2, <2>3, ImportKept DEF CommandEnd, CommandEndFails, Return, Types
  <2>4. QED
    BY <2>2, <2>3
<1>3. CASE UNCHANGED import
  BY <1>0, <1>3, ImportKept
<1>4. CASE (\E a \in Article : CopyQueue(a)) \/ Aside \/ Versioning \/ Posting \/ Enqueuing
  BY <1>3, <1>4 DEF CopyQueue, Aside, Expire, KeepVersion, SendImport, RequestFails, Versioning,
     Publish, Kill, NewVersion, Posting, PostEntry, Enqueuing, Enqueue
<1>5. CASE Deciding \/ Drop \/ EndBatch \/ Choosing \/ Ending \/ JobEnd
  BY <1>3, <1>5, DecidingStep DEF Drop, EndBatch, Choosing, Store, KillNext, Ending, MoveFails,
     JobCrash, JobEnd, JobStep
<1>6. CASE Purging \/ PurgeQueue
  BY <1>3, <1>6, PurgeFacts, QueueFacts
<1>7. QED
  BY <1>1, <1>2, <1>4, <1>5, <1>6, NextCases DEF Legal

\* An import flags what it has copied.
LEMMA FlaggedCopied ==
  ASSUME Types, OrphanInv, LegalInv, NEW p \in Importer, ImportFlag(p) \/ FlagFails(p)
  PROVE  \E a \in Article : \E S \in SUBSET Nat :
           /\ moved' = Add(moved, a, S)
           /\ Sound(a) => S \subseteq legalVersions[a]
           /\ UNCHANGED <<prodVars, published, queue, qmoved, legalVars, odd>>
<1>1. At(p, "flag") /\ import[p] \in Imports
  BY DEF ImportFlag, FlagFails, Types
<1>2. PICK a \in Article, doc \in Nat : a = import[p].art /\ doc = import[p].doc
  BY <1>1 DEF At, Imports
<1>3. PICK S \in SUBSET Flagged(a, doc) : moved' = Add(moved, a, S)
  BY <1>2 DEF ImportFlag, FlagFails
<1>4. published[a] \subseteq Nat \ {0}
  BY DEF OrphanInv, EntryInv
<1>5. Flagged(a, doc) \subseteq 1..doc
  BY <1>4 DEF Flagged
<1>6. Sound(a) => Flagged(a, doc) \subseteq legalVersions[a]
  BY <1>1, <1>2, <1>5 DEF LegalInv, ImportInv, At
<1>7. S \in SUBSET Nat /\ (Sound(a) => S \subseteq legalVersions[a])
  BY <1>5, <1>6
<1>8. UNCHANGED <<prodVars, published, queue, qmoved, legalVars, odd>>
  BY DEF ImportFlag, FlagFails
<1>9. QED
  BY <1>3, <1>7, <1>8

LEMMA FlagInvStep ==
  ASSUME Types, OrphanInv, LegalInv, Next
  PROVE  FlagInv'
<1>0. Types' /\ Onward /\ FlagInv
  BY TypesStep, OnwardStep DEF LegalInv
<1>a. \A a \in Article : Sound(a)' => Sound(a)
  BY <1>0 DEF Onward, Sound
<1>1. ASSUME UNCHANGED <<legal, legalQueue>>,
             \A a \in Article : moved'[a] \subseteq moved[a] /\ qmoved'[a] \subseteq qmoved[a]
      PROVE  FlagInv'
  <2>1. \A a \in Article : version[a] \in Nat /\ version'[a] \in Nat /\ legal[a] \in Nat
    BY <1>0 DEF Types
  <2>2. \A a \in Article : Gone(a)' \/ legal'[a] <= version'[a]
    BY <1>0, <1>1, <2>1 DEF FlagInv, Onward
  <2>3. \A a \in Article : Sound(a)' => moved'[a] \subseteq legalVersions'[a]
    BY <1>0, <1>1, <1>a DEF FlagInv, Onward
  <2>4. QED
    BY <1>0, <1>1, <2>2, <2>3 DEF FlagInv
<1>2. CASE Importing
  <2>1. PICK p \in Importer : ImportOf(p)
    BY <1>2 DEF Importing
  <2>2. CASE ImportUpsert(p)
    <3>1. At(p, "upsert") /\ import[p] \in Imports
      BY <2>2 DEF ImportUpsert, Types
    <3>a. PICK a \in Article : a = import[p].art
      BY <3>1 DEF At, Imports
    <3>2. UNCHANGED <<version, moved, qmoved, legalQueue>>
      BY <2>2 DEF ImportUpsert, prodVars, pubVars
    <3>3. legal'[a] = import[p].doc /\ \A b \in Article : b # a => legal'[b] = legal[b]
      BY <2>2, <3>a DEF ImportUpsert, Types
    <3>4. Gone(a) \/ import[p].doc <= version[a]
      BY <3>1, <3>a DEF LegalInv, ImportInv, At
    <3>5. \A b \in Article : Gone(b)' \/ legal'[b] <= version'[b]
      BY <1>0, <3>2, <3>3, <3>4 DEF FlagInv, Gone
    <3>6. \A b \in Article : Sound(b)' => moved'[b] \subseteq legalVersions'[b]
      BY <1>0, <1>a, <3>2 DEF FlagInv, Onward
    <3>7. QED
      BY <1>0, <3>2, <3>5, <3>6 DEF FlagInv
  <2>3. CASE ImportFlag(p) \/ FlagFails(p)
    <3>1. PICK a \in Article : \E S \in SUBSET Nat :
            /\ moved' = Add(moved, a, S)
            /\ Sound(a) => S \subseteq legalVersions[a]
            /\ UNCHANGED <<prodVars, published, queue, qmoved, legalVars, odd>>
      BY <2>3, FlaggedCopied
    <3>2. PICK S \in SUBSET Nat :
            /\ moved' = Add(moved, a, S)
            /\ Sound(a) => S \subseteq legalVersions[a]
            /\ UNCHANGED <<prodVars, published, queue, qmoved, legalVars, odd>>
      BY <3>1
    <3>3. moved'[a] = moved[a] \cup S /\ \A b \in Article : b # a => moved'[b] = moved[b]
      BY <3>2 DEF Add, Types, Entries
    <3>4. UNCHANGED <<version, qmoved, legal, legalVersions, legalQueue, odd>>
      BY <3>2 DEF prodVars, legalVars
    <3>5. \A b \in Article : Sound(b)' => moved'[b] \subseteq legalVersions'[b]
      BY <1>0, <1>a, <3>2, <3>3, <3>4 DEF FlagInv
    <3>6. QED
      BY <1>0, <3>4, <3>5 DEF FlagInv, Gone
  <2>4. CASE UNCHANGED <<pubVars, legalVars>>
    BY <1>1, <2>4 DEF pubVars, legalVars
  <2>5. QED
    BY <2>1, <2>2, <2>3, <2>4 DEF ImportOf, ImportFails, ImporterCrash, TaskTake, CommandTake
<1>3. CASE CommandEnd
  <2>1. UNCHANGED <<version, moved, legal, legalVersions, odd>>
    BY <1>3 DEF CommandEnd, prodVars
  <2>2. import[Command].art \in Article
    BY <1>3 DEF CommandEnd, At, Types, Imports, Importer
  <2>3. \A b \in Article : qmoved'[b] \subseteq legalQueue'[b]
    BY <1>0, <1>3, <2>2 DEF CommandEnd, Add, FlagInv, Types, Entries
  <2>4. QED
    BY <1>0, <2>1, <2>3 DEF FlagInv, Gone, Sound
<1>4. CASE \E a \in Article : CopyQueue(a)
  <2>1. PICK a \in Article : CopyQueue(a)
    BY <1>4
  <2>2. PICK v \in queue[a] : legalQueue' = Add(legalQueue, a, {v}) /\ qmoved' = Add(qmoved, a, {v})
    BY <2>1 DEF CopyQueue
  <2>3. UNCHANGED <<version, moved, legal, legalVersions, odd>>
    BY <2>1 DEF CopyQueue, prodVars
  <2>4. \A b \in Article : qmoved'[b] \subseteq legalQueue'[b]
    BY <1>0, <2>2 DEF Add, FlagInv, Types, Entries
  <2>5. QED
    BY <1>0, <2>3, <2>4 DEF FlagInv, Gone, Sound
<1>5. CASE Purging
  <2>1. \A a \in Article : moved'[a] \subseteq moved[a]
    BY <1>5, PurgeFacts
  <2>2. UNCHANGED <<qmoved, legal, legalQueue>>
    BY <1>5, PurgeFacts DEF legalVars
  <2>3. QED
    BY <1>1, <2>1, <2>2
<1>6. CASE PurgeQueue
  <2>1. \A a \in Article : qmoved'[a] \subseteq qmoved[a]
    BY <1>6, QueueFacts
  <2>2. UNCHANGED <<moved, legal, legalQueue>>
    BY <1>6, QueueFacts DEF legalVars
  <2>3. QED
    BY <1>1, <2>1, <2>2
<1>7. CASE UNCHANGED <<moved, qmoved, legalVars>>
  BY <1>1, <1>7 DEF legalVars
<1>8. CASE CommandEndFails \/ Aside \/ Versioning \/ Posting \/ Enqueuing
  BY <1>7, <1>8 DEF CommandEndFails, Aside, Expire, KeepVersion, SendImport, RequestFails,
     Versioning, Publish, Kill, NewVersion, Posting, PostEntry, Enqueuing, Enqueue, pubVars
<1>9. CASE Deciding \/ Drop \/ EndBatch \/ Choosing \/ Ending \/ JobEnd
  BY <1>7, <1>9, DecidingStep DEF Drop, EndBatch, Choosing, Store, KillNext, Ending, MoveFails,
     JobCrash, JobEnd, JobStep, pubVars
<1>10. QED
  BY <1>2, <1>3, <1>4, <1>5, <1>6, <1>8, <1>9, NextCases DEF Legal

LEMMA MovedInvStep ==
  ASSUME Types, OrphanInv, LegalInv, Next
  PROVE  MovedInv'
<1>0. Types' /\ Onward /\ MovedInv
  BY TypesStep, OnwardStep DEF LegalInv
<1>a. \A a \in Article : Clean(a)' => Clean(a)
  BY <1>0 DEF Onward, Clean
<1>1. ASSUME \A a \in Article :
               /\ InJob(a)' => InJob(a)
               /\ Gone(a)' => Gone(a) \/ InJob(a)
               /\ Clean(a)' /\ (InJob(a) \/ Gone(a)) =>
                    published'[a] \ moved'[a] \subseteq published[a] \ moved[a]
               /\ Clean(a)' /\ InJob(a) => queue'[a] \ qmoved'[a] \subseteq queue[a] \ qmoved[a]
      PROVE  MovedInv'
  <2> SUFFICES ASSUME NEW a \in Article, Clean(a)'
               PROVE  (InJob(a)' => ~Unmoved(a)') /\ (Gone(a)' => published'[a] \subseteq moved'[a])
    BY DEF MovedInv
  <2>1. (InJob(a) => ~Unmoved(a)) /\ (Gone(a) => published[a] \subseteq moved[a])
    BY <1>0, <1>a DEF MovedInv
  <2>2. InJob(a) \/ Gone(a) => published'[a] \subseteq moved'[a]
    BY <1>1, <2>1 DEF Unmoved
  <2>3. InJob(a) => queue'[a] \subseteq qmoved'[a]
    BY <1>1, <2>1 DEF Unmoved, UnmovedQueue
  <2>4. QED
    BY <1>1, <2>2, <2>3 DEF Unmoved, UnmovedQueue
<1>b. ASSUME version' = version, job' = job
      PROVE  \A a \in Article : (InJob(a)' => InJob(a)) /\ (Gone(a)' => Gone(a))
  BY <1>b DEF InJob, Gone
<1>2. CASE Importing
  <2>1. PICK p \in Importer : ImportOf(p)
    BY <1>2 DEF Importing
  <2>2. UNCHANGED <<version, published, queue, qmoved, job>>
    BY <2>1, ImportQuiet
  <2>3. \A a \in Article : moved[a] \subseteq moved'[a]
    <3>1. CASE ImportFlag(p) \/ FlagFails(p)
      <4>1. PICK a \in Article : \E S \in SUBSET Nat : moved' = Add(moved, a, S)
        BY <3>1, FlaggedCopied
      <4>2. QED
        BY <4>1 DEF Add, Types, Entries
    <3>2. CASE UNCHANGED moved
      BY <3>2
    <3>3. QED
      BY <2>1, <3>1, <3>2 DEF ImportOf, ImportUpsert, ImportFails, ImporterCrash, TaskTake,
         CommandTake, pubVars
  <2>4. \A b \in Article : (InJob(b)' => InJob(b)) /\ (Gone(b)' => Gone(b))
    BY <1>b, <2>2, <2>3
  <2>5. QED
    BY <1>1, <2>2, <2>3, <2>4
<1>3. CASE Legal
  <2>1. UNCHANGED <<version, published, moved, queue, job>>
    BY <1>3 DEF Legal, CommandEnd, CommandEndFails, CopyQueue, prodVars, pubVars, expVars
  <2>2. \A a \in Article : qmoved[a] \subseteq qmoved'[a]
    BY <1>3 DEF Legal, CommandEnd, CommandEndFails, CopyQueue, Add, pubVars, Types, Entries
  <2>3. \A b \in Article : (InJob(b)' => InJob(b)) /\ (Gone(b)' => Gone(b))
    BY <1>b, <2>1, <2>2
  <2>4. QED
    BY <1>1, <2>1, <2>2, <2>3
<1>4. CASE Aside \/ JobEnd
  <2>1. UNCHANGED <<version, published, moved, queue, qmoved, job>>
    BY <1>4 DEF Aside, Expire, KeepVersion, SendImport, RequestFails, JobEnd, JobStep, prodVars,
       pubVars, expVars
  <2>2. \A b \in Article : (InJob(b)' => InJob(b)) /\ (Gone(b)' => Gone(b))
    BY <1>b, <2>1
  <2>3. QED
    BY <1>1, <2>1, <2>2
<1>5. CASE Versioning
  <2>1. PICK a \in Article : Publish(a) \/ Kill(a)
    BY <1>5 DEF Versioning
  <2>2. /\ \A b \in Article : Gone(b)' => Gone(b)
        /\ UNCHANGED <<published, moved, queue, qmoved, job>>
    BY <2>1, VersionStep DEF pubVars, expVars, Gone, Types
  <2>3. QED
    BY <1>1, <2>2 DEF InJob
<1>6. CASE Posting
  <2>1. PICK a \in Article : PostEntry(a)
    BY <1>6 DEF Posting
  <2>2. /\ version[a] # 0 /\ IsWriting(a)
        /\ \A b \in Article \ {a} : published'[b] = published[b]
        /\ UNCHANGED <<version, moved, queue, qmoved, job, odd>>
    BY <2>1, PostStep DEF expVars
  <2>3. ~Gone(a) /\ (InJob(a) => ~Clean(a)')
    BY <2>2 DEF OrphanInv, WritingInv, Raced, Clean, Gone
  <2>4. \A b \in Article : (InJob(b)' => InJob(b)) /\ (Gone(b)' => Gone(b))
    BY <1>b, <2>2, <2>3
  <2>5. QED
    BY <1>1, <2>2, <2>3, <2>4
<1>7. CASE Enqueuing
  <2>1. PICK a \in Article : Enqueue(a)
    BY <1>7 DEF Enqueuing
  <2>2. UNCHANGED <<version, published, moved, qmoved, job>> /\ Race(a)
    BY <2>1 DEF Enqueue, prodVars, expVars
  <2>3. \A b \in Article : b # a => queue'[b] = queue[b]
    BY <2>1 DEF Enqueue, Add, Types, Entries
  <2>4. InJob(a) => ~Clean(a)'
    BY <2>2, RaceStep DEF Clean, Raced
  <2>5. \A b \in Article : (InJob(b)' => InJob(b)) /\ (Gone(b)' => Gone(b))
    BY <1>b, <2>2, <2>3, <2>4
  <2>6. QED
    BY <1>1, <2>2, <2>3, <2>4, <2>5
<1>8. CASE Deciding
  <2>1. UNCHANGED <<published, moved, queue, qmoved, state>>
    BY <1>8, DecidingStep DEF JobStep, pubVars
  <2>2. \A a \in Article : InJob(a)' => ~Unmoved(a) \/ ~Clean(a)'
    BY <1>8, DecidingStep DEF InJob, Clean
  <2>3. \A a \in Article : Gone(a)' => Gone(a) \/ published[a] = {}
    BY <1>8, DecidingStep DEF Gone, OrphanInv, EntryInv, Empty
  <2>4. \A a \in Article : Unmoved(a)' <=> Unmoved(a)
    BY <2>1 DEF Unmoved, UnmovedQueue
  <2>5. QED
    BY <1>0, <1>a, <2>1, <2>2, <2>3, <2>4 DEF MovedInv
<1>9. CASE Purging
  <2>1. \A a \in Article : published'[a] \ moved'[a] \subseteq published[a] \ moved[a]
    BY <1>9, PurgeFacts
  <2>2. UNCHANGED <<version, queue, qmoved>>
    BY <1>9, PurgeFacts DEF prodVars
  <2>3. \A a \in Article : InJob(a)' => InJob(a)
    <3>1. job \in Job
      BY DEF Types
    <3>2. QED
      BY <1>9, <3>1, PurgeJob DEF InJob
  <2>4. QED
    BY <1>1, <2>1, <2>2, <2>3 DEF Gone
<1>10. CASE PurgeQueue
  <2>1. job.item \in Article /\ \A a \in Article : queue'[a] \subseteq queue[a]
    BY <1>10, QueueFacts
  <2>2. \A a \in Article : queue'[a] \ qmoved'[a] \subseteq queue[a] \ qmoved[a]
    BY <1>10, QueueFacts
  <2>3. UNCHANGED <<version, published, moved>>
    BY <1>10, QueueFacts DEF prodVars
  <2>4. \A a \in Article : InJob(a)' => InJob(a)
    <3>1. job \in Job /\ job.item \in job.archive \cup job.killed
      BY <1>10 DEF Types, OrphanInv, JobInv, AtWork, PurgeQueue
    <3>2. /\ job'.archive = job.archive /\ job'.killed \subseteq job.killed
          /\ job'.removed \subseteq job.removed \cup {job.item}
      BY <1>10, <2>1, <3>1, QueueJob
    <3>3. QED
      BY <3>1, <3>2 DEF InJob
  <2>5. QED
    BY <1>1, <2>2, <2>3, <2>4 DEF Gone
<1>11. CASE Drop \/ EndBatch
  <2>1. UNCHANGED <<published, moved, queue, qmoved>>
    BY <1>11 DEF Drop, EndBatch, JobStep, pubVars
  <2>2. \A a \in Article : InJob(a)' => InJob(a)
    <3>1. job \in Job
      BY DEF Types
    <3>2. CASE Drop
      BY <3>1, <3>2, DropJob DEF InJob
    <3>3. CASE EndBatch
      BY <3>3 DEF EndBatch, Resting, InJob
    <3>4. QED
      BY <1>11, <3>2, <3>3
  <2>3. \A a \in Article : Gone(a)' => Gone(a) \/ InJob(a)
    BY <1>11 DEF Drop, EndBatch, Deleted, OrphanInv, JobInv, InJob, Gone
  <2>4. QED
    BY <1>1, <2>1, <2>2, <2>3
<1>12. CASE Choosing
  <2>1. PICK a \in Article : Store(a) \/ KillNext(a)
    BY <1>12 DEF Choosing
  <2>2. UNCHANGED <<version, published, moved, queue, qmoved>>
    BY <2>1 DEF Store, KillNext, JobStep, prodVars, pubVars
  <2>3. job \in Job
    BY DEF Types
  <2>4. \A b \in Article : InJob(b)' => InJob(b)
    BY <2>1, <2>3, ChoosingJob DEF InJob
  <2>5. QED
    BY <1>1, <2>2, <2>4 DEF Gone
<1>13. CASE Ending
  <2>1. UNCHANGED <<version, published, moved, queue, qmoved>>
    BY <1>13 DEF Ending, MoveFails, JobCrash, JobStep, prodVars, pubVars
  <2>2. job \in Job
    BY DEF Types
  <2>3. \A b \in Article : InJob(b)' => InJob(b)
    BY <1>13, <2>2, EndingJob DEF InJob
  <2>4. QED
    BY <1>1, <2>1, <2>3 DEF Gone
<1>14. QED
  BY <1>2, <1>3, <1>4, <1>5, <1>6, <1>7, <1>8, <1>9, <1>10, <1>11, <1>12, <1>13, NextCases

LEMMA InitLegal == Init => LegalInv
<1> SUFFICES ASSUME Init PROVE LegalInv
  OBVIOUS
<1>1. \A a \in Article : moved[a] = {} \/ moved[a] = {1}
  BY DEF Init
<1>2. \A a \in Article : legal[a] = IF moved[a] = {} THEN 0 ELSE 1
  BY <1>1, FS_EmptySet, FS_Singleton DEF Init
<1>3. FlagInv
  BY <1>2 DEF Init, FlagInv
<1>4. MovedInv
  <2>1. job.archive \cup job.killed \cup job.removed = {}
    BY DEF Init, Resting
  <2>2. \A a \in Article : ~Gone(a)
    BY DEF Init, Gone
  <2>3. QED
    BY <2>1, <2>2 DEF MovedInv, InJob
<1>5. \A p \in Importer : ImportInv(p)
  BY DEF Init, ImportInv, Idle
<1>6. QED
  BY <1>3, <1>4, <1>5 DEF LegalInv

LEMMA LegalStep ==
  ASSUME Types, OrphanInv, LegalInv, [Next]_vars
  PROVE  (Types /\ OrphanInv /\ LegalInv)'
<1>1. CASE Next
  BY <1>1, TypesStep, OrphanStep, FlagInvStep, ImportInvStep, MovedInvStep DEF LegalInv
<1>2. CASE UNCHANGED vars
  <2>1. UNCHANGED <<version, state, expired, writing, published, queue, job, odd>>
    BY <1>2 DEF vars, prodVars, pubVars, expVars
  <2>2. UNCHANGED <<moved, qmoved, legal, legalVersions, legalQueue, import>>
    BY <1>2 DEF vars, pubVars, legalVars
  <2>3. Types'
    BY <1>2 DEF vars, prodVars, pubVars, legalVars, expVars, Types, AtWork
  <2>4. LegalInv'
    <3>1. FlagInv'
      BY <2>1, <2>2 DEF LegalInv, FlagInv, Gone, Sound
    <3>2. MovedInv'
      BY <2>1, <2>2 DEF LegalInv, MovedInv, InJob, Unmoved, UnmovedQueue, Clean, Gone
    <3>3. \A p \in Importer : ImportInv(p)'
      BY <2>1, <2>2 DEF LegalInv, ImportInv, Flagged, Gone, Sound
    <3>4. QED
      BY <3>1, <3>2, <3>3 DEF LegalInv
  <2>5. OrphanInv'
    BY <2>1, OrphanSame DEF IsWriting, IsExpired
  <2>6. QED
    BY <2>3, <2>4, <2>5
<1>3. QED
  BY <1>1, <1>2

\* Entries are removed only by the job, and only of the article it is at.
LEMMA RemovingStep ==
  ASSUME Types, OrphanInv, Next, NEW a \in Article
  PROVE  /\ published[a] \subseteq published'[a] \/ (Purging /\ a = job.item)
         /\ queue[a] \subseteq queue'[a] \/ (PurgeQueue /\ a = job.item)
<1>1. CASE UNCHANGED <<published, queue>>
  BY <1>1
<1>2. CASE Quiet
  BY <1>1, <1>2, QuietStep
<1>3. CASE Versioning
  BY <1>1, <1>3, VersionStep DEF Versioning, pubVars
<1>4. CASE Posting
  <2>1. PICK b \in Article : PostEntry(b)
    BY <1>4 DEF Posting
  <2>2. /\ published'[b] = published[b] \cup {version[b]} /\ UNCHANGED queue
        /\ \A c \in Article \ {b} : published'[c] = published[c]
    BY <2>1, PostStep
  <2>3. QED
    BY <2>2
<1>5. CASE Enqueuing
  <2>1. PICK b \in Article : Enqueue(b)
    BY <1>5 DEF Enqueuing
  <2>2. UNCHANGED published /\ queue[a] \subseteq queue'[a]
    BY <2>1 DEF Enqueue, Add, Types, Entries
  <2>3. QED
    BY <2>2
<1>6. CASE Purging
  BY <1>6, PurgeFacts
<1>7. CASE PurgeQueue
  BY <1>7, QueueFacts
<1>8. CASE Deciding \/ Drop \/ EndBatch \/ Choosing \/ Ending
  BY <1>1, <1>8, DecidingStep DEF Drop, EndBatch, Choosing, Store, KillNext, Ending, MoveFails,
     JobCrash, JobStep, pubVars
<1>9. QED
  BY <1>2, <1>3, <1>4, <1>5, <1>6, <1>7, <1>8, NextCases DEF Quiet

\* Whatever expiry removes the legal archive has, each published version and each
\* entry of the publish queue (archive/commands.py, "check if items imported"), unless
\* the article was published or enqueued while it was being removed, the job's search
\* failed, or an import came before a version it should have found: whatever is flagged
\* was copied before.
THEOREM LegalArchiveComplete == Spec => LegalKeepsAll
<1>1. Init => Types /\ OrphanInv /\ LegalInv
  BY InitTypes, InitOrphan, InitLegal
<1>2. Types /\ OrphanInv /\ LegalInv /\ [Next]_vars => (Types /\ OrphanInv /\ LegalInv)'
  BY LegalStep
<1>3. ASSUME Types, OrphanInv, LegalInv, [Next]_vars
      PROVE  [\A a \in Article : odd[a] \cap {"raced", "blind", "early"} = {} =>
                /\ published[a] \ published'[a] \subseteq legalVersions[a]
                /\ queue[a] \ queue'[a] \subseteq legalQueue[a]]_vars
  <2> SUFFICES ASSUME Next, NEW a \in Article, odd[a] \cap {"raced", "blind", "early"} = {}
               PROVE  /\ published[a] \ published'[a] \subseteq legalVersions[a]
                      /\ queue[a] \ queue'[a] \subseteq legalQueue[a]
    BY <1>3
  <2>1. AtWork => job.item \in job.archive \cup job.killed
    BY <1>3 DEF OrphanInv, JobInv
  <2>2. Purging \/ PurgeQueue => AtWork
    BY DEF Purging, Purge, PurgeSwallowed, PurgeQueue, AtWork
  <2>3. \/ InJob(a)
        \/ published[a] \subseteq published'[a] /\ queue[a] \subseteq queue'[a]
    BY <1>3, <2>1, <2>2, RemovingStep DEF InJob
  <2>4. Sound(a) /\ Clean(a)
    BY DEF Sound, Clean
  <2>5. InJob(a) => ~Unmoved(a)
    BY <1>3, <2>4 DEF LegalInv, MovedInv
  <2>6. moved[a] \subseteq legalVersions[a] /\ qmoved[a] \subseteq legalQueue[a]
    BY <1>3, <2>4 DEF LegalInv, FlagInv
  <2>7. QED
    BY <2>3, <2>5, <2>6 DEF Unmoved, UnmovedQueue
<1>4. QED
  BY <1>1, <1>2, <1>3, PTL DEF Spec, LegalKeepsAll

-----------------------------------------------------------------------------
(* The text archive.                                                       *)

\* The steps the text archive has no part in.
LEMMA ArchiveApart ==
  ASSUME Types, OrphanInv, ArchiveInv, Onward, UNCHANGED <<archived, job>>,
         \A a \in Article : Whole(a)' /\ InJob(a) => published'[a] \subseteq published[a]
  PROVE  ArchiveInv'
<1>1. AtWork => job.item \in Article /\ InJob(job.item)
  BY DEF OrphanInv, JobInv, Types, InJob
<1>2. \A a \in Article : (Whole(a)' => Whole(a)) /\ (Gone(a) => Gone(a)')
  BY DEF Onward, Whole
<1>3. AtWork' <=> AtWork
  BY DEF AtWork
<1>4. job.at = "purge" => AtWork
  BY DEF AtWork
<1>5. QED
  BY <1>1, <1>2, <1>3, <1>4 DEF ArchiveInv

LEMMA ArchiveStep ==
  ASSUME Types, OrphanInv, ArchiveInv, Next
  PROVE  ArchiveInv'
<1>0. job \in Job /\ Onward
  BY OnwardStep DEF Types
<1>a. \A a \in Article : (Whole(a)' => Whole(a)) /\ (Gone(a) => Gone(a)')
  BY <1>0 DEF Onward, Whole
<1>b. AtWork => job.item \in Article /\ job.item \in job.archive \cup job.killed
  BY DEF OrphanInv, JobInv, Types
<1>1. CASE Quiet
  <2>1. UNCHANGED <<published, job, archived>>
    BY <1>1, QuietStep
  <2>2. QED
    BY <1>0, <2>1, ArchiveApart
<1>2. CASE Versioning
  <2>1. UNCHANGED <<published, job, archived>>
    BY <1>2, VersionStep DEF Versioning, pubVars, expVars
  <2>2. QED
    BY <1>0, <2>1, ArchiveApart
<1>3. CASE Posting
  <2>1. PICK a \in Article : PostEntry(a)
    BY <1>3 DEF Posting
  <2>2. /\ IsWriting(a) /\ UNCHANGED <<job, archived, odd>>
        /\ \A b \in Article \ {a} : published'[b] = published[b]
    BY <2>1, PostStep DEF expVars
  <2>3. InJob(a) => ~Whole(a)'
    BY <2>2 DEF OrphanInv, WritingInv, Raced, Whole
  <2>4. QED
    BY <1>0, <2>2, <2>3, ArchiveApart
<1>4. CASE Enqueuing
  <2>1. UNCHANGED <<published, job, archived>>
    BY <1>4 DEF Enqueuing, Enqueue, expVars
  <2>2. QED
    BY <1>0, <2>1, ArchiveApart
<1>5. CASE Deciding
  <2>1. job.at = "idle" /\ job'.at = "move" /\ UNCHANGED archived
    BY <1>5, DecidingStep
  <2>2. QED
    BY <1>a, <2>1 DEF ArchiveInv, AtWork
<1>6. CASE Purging
  <2>1. /\ job.at = "purge" /\ job'.at = "queue" /\ job'.item = job.item
        /\ job'.archive = job.archive /\ UNCHANGED archived
    BY <1>0, <1>6, PurgeJob, PurgeFacts
  <2>2. QED
    BY <1>a, <2>1 DEF ArchiveInv, AtWork
<1>7. CASE PurgeQueue
  <2>1. job.at = "queue" /\ job.item \in Article
    BY <1>7, QueueFacts DEF PurgeQueue
  <2>2. CASE job.item \in job.archive
    <3>1. /\ job'.at = "drop" /\ job'.item = job.item /\ job'.archive = job.archive
          /\ UNCHANGED archived
      BY <1>0, <1>7, <2>1, <2>2, QueueJob, QueueFacts
    <3>2. QED
      BY <1>a, <2>1, <3>1 DEF ArchiveInv, AtWork
  <2>3. CASE job.item \notin job.archive
    <3>1. job'.at = "kill" /\ UNCHANGED archived
      BY <1>0, <1>7, <2>1, <2>3, QueueJob, QueueFacts
    <3>2. QED
      BY <1>a, <2>1, <2>3, <3>1 DEF ArchiveInv, AtWork
  <2>4. QED
    BY <2>2, <2>3
<1>8. CASE Drop
  <2>1. job.at = "drop" /\ job'.at = "move" /\ UNCHANGED archived
    BY <1>0, <1>8, DropJob DEF Drop
  <2>2. \A a \in Article : a = job.item => Gone(a)'
    BY <1>8 DEF Drop, Deleted, Gone
  <2>3. QED
    BY <1>a, <2>1, <2>2 DEF ArchiveInv, AtWork
<1>9. CASE EndBatch
  <2>1. job.at \in {"move", "kill"} /\ job'.at = "idle" /\ UNCHANGED archived
    BY <1>9 DEF EndBatch, Resting
  <2>2. QED
    BY <1>a, <2>1 DEF ArchiveInv, AtWork
<1>10. CASE Ending
  <2>1. UNCHANGED archived /\ job'.at \in {"idle", "move", "kill"}
    BY <1>0, <1>10, EndingJob DEF Ending, MoveFails, JobCrash
  <2>2. \A a \in Article : AtWork /\ a = job.item => ~Whole(a)'
    BY <1>10, TearStep DEF Whole
  <2>3. QED
    BY <1>a, <2>1, <2>2 DEF ArchiveInv, AtWork
<1>11. CASE Choosing
  <2>1. PICK a \in Article : Store(a) \/ KillNext(a)
    BY <1>11 DEF Choosing
  <2>2. /\ job'.item = a /\ job'.archive = job.archive
        /\ job.at \in {"move", "kill"}
        /\ Store(a) => a \in job.archive /\ job'.at \in {"drop", "purge"}
        /\ KillNext(a) => job.archive = {}
    BY <1>0, <2>1, ChoosingJob
  <2>3. \A b \in Article : Whole(b)' /\ archived[b] # {} => Gone(b)'
    BY <1>a, <2>2 DEF ArchiveInv, AtWork
  <2>4. CASE KillNext(a)
    <3>1. UNCHANGED archived
      BY <2>4 DEF KillNext
    <3>2. QED
      BY <2>2, <2>3, <2>4, <3>1 DEF ArchiveInv
  <2>5. CASE Store(a)
    <3>1. UNCHANGED <<version, published, odd>>
      BY <2>5 DEF Store, JobStep, prodVars, pubVars
    <3>2. archived' = IF archived[a] \cap published[a] = {} THEN Add(archived, a, published[a])
                      ELSE archived
      BY <2>5 DEF Store, Stored
    <3>3. ~Gone(a)'
      BY <2>2, <2>5, <3>1 DEF OrphanInv, JobInv, Gone
    <3>4. Whole(a)' => archived[a] = {}
      BY <2>3, <3>3
    <3>5. Whole(a)' => published[a] \subseteq archived'[a]
      BY <3>2, <3>4 DEF Add, Types, Entries
    <3>6. \A b \in Article : b # a => archived'[b] = archived[b]
      BY <3>2 DEF Add, Types, Entries
    <3>7. QED
      BY <2>2, <2>3, <2>5, <3>1, <3>5, <3>6 DEF ArchiveInv, AtWork
  <2>6. QED
    BY <2>1, <2>4, <2>5
<1>12. QED
  BY <1>1, <1>2, <1>3, <1>4, <1>5, <1>6, <1>7, <1>8, <1>9, <1>10, <1>11, NextCases DEF Quiet

\* When published versions of an article are deleted they are in the text archive, unless
\* it was killed or its removal was raced or torn before (archive/commands.py,
\* _move_to_archived): a Conflict there is never met otherwise.
THEOREM ArchivedBeforeRemoval == Spec => ArchivedComplete
<1> DEFINE I == Types /\ OrphanInv /\ ArchiveInv
<1>1. Init => I
  <2>1. Init => ArchiveInv
    BY DEF Init, ArchiveInv, Resting
  <2>2. QED
    BY <2>1, InitTypes, InitOrphan
<1>2. I /\ [Next]_vars => I'
  <2> SUFFICES ASSUME I, [Next]_vars PROVE I'
    OBVIOUS
  <2>1. CASE Next
    BY <2>1, TypesStep, OrphanStep, ArchiveStep
  <2>2. CASE UNCHANGED vars
    <3>1. UNCHANGED <<version, state, expired, writing, published, queue, job, odd, archived>>
      BY <2>2 DEF vars, prodVars, pubVars, expVars
    <3>2. Types'
      BY <2>2 DEF vars, prodVars, pubVars, legalVars, expVars, Types, AtWork
    <3>3. ArchiveInv'
      BY <3>1 DEF ArchiveInv, Gone, Whole, AtWork
    <3>4. OrphanInv'
      BY <3>1, OrphanSame DEF IsWriting, IsExpired
    <3>5. QED
      BY <3>2, <3>3, <3>4
  <2>3. QED
    BY <2>1, <2>2
<1>3. ASSUME I, [Next]_vars
      PROVE  [\A a \in Article : state[a] = "published" /\ odd[a] \cap {"raced", "torn"} = {} =>
                published[a] \ published'[a] \subseteq archived[a]]_vars
  <2> SUFFICES ASSUME Next, NEW a \in Article, state[a] = "published",
                      odd[a] \cap {"raced", "torn"} = {}, ~(published[a] \subseteq published'[a])
               PROVE  published[a] \subseteq archived[a]
    BY <1>3
  <2>1. Purging /\ a = job.item
    BY <1>3, RemovingStep
  <2>2. job.at = "purge" /\ AtWork
    BY <2>1 DEF Purging, Purge, PurgeSwallowed, AtWork
  <2>3. a \in job.archive
    BY <1>3, <2>1, <2>2 DEF OrphanInv, JobInv
  <2>4. QED
    BY <1>3, <2>1, <2>2, <2>3 DEF ArchiveInv, Whole
<1>4. QED
  BY <1>1, <1>2, <1>3, PTL DEF Spec, ArchivedComplete

-----------------------------------------------------------------------------
(* Linked articles.                                                        *)

\* When nothing is published, no article gets a relative.
LEMMA FamilyStep ==
  ASSUME Types, Types', UNCHANGED state, NEW a \in Article,
         \A b \in Article : version'[b] = version[b] \/ version'[b] = 0
  PROVE  Family(a)' \subseteq Family(a)
<1>1. \A c \in Article : Related(c)' \subseteq Related(c)
  BY RefsAssumption DEF Related, Types
<1>2. QED
  BY <1>1, FamilyShrinks

\* Nor does it when something is: drafts are relatives already.
LEMMA FamilyVersion ==
  ASSUME Types, NEW a \in Article, NEW c \in Article, Publish(c) \/ Kill(c)
  PROVE  Family(a)' \subseteq Family(a)
<1>1. version[c] > 0 /\ state[c] # "spiked"
  BY VersionStep
<1>2. \A b \in Article : b # c => version'[b] = version[b] /\ state'[b] = state[b]
  BY VersionStep
<1>3. \A b \in Article : Related(b)' \subseteq Related(b)
  BY <1>1, <1>2, RefsAssumption DEF Related
<1>4. QED
  BY <1>3, FamilyShrinks

\* What the job has stays what it has, unless something came in between.
LEMMA FamilyKept ==
  ASSUME Types, FamilyInv, job'.archive \subseteq job.archive,
         \A a \in Article : /\ Family(a)' \subseteq Family(a)
                            /\ odd[a] \subseteq odd'[a]
                            /\ Whole(a)' /\ IsExpired(a) /\ InJob(a) => IsExpired(a)' /\ InJob(a)'
  PROVE  FamilyInv'
<1> SUFFICES ASSUME NEW a \in job'.archive, NEW b \in Family(a)', Whole(b)'
             PROVE  IsExpired(b)' /\ InJob(b)'
  BY DEF FamilyInv
<1>1. a \in Article /\ a \in job.archive
  BY DEF Types, Job
<1>2. b \in Article /\ b \in Family(a)
  BY <1>1 DEF Family
<1>3. Whole(b)
  BY <1>2 DEF Whole
<1>4. QED
  BY <1>1, <1>2, <1>3 DEF FamilyInv

LEMMA FamilyInvStep ==
  ASSUME Types, OrphanInv, FamilyInv, Next
  PROVE  FamilyInv'
<1>0. Types' /\ job \in Job /\ job.archive \subseteq Article
  BY TypesStep DEF Types, Job
<1>a. \A a \in Article : odd[a] \subseteq odd'[a]
  BY OnwardStep DEF Onward
<1>1. CASE Quiet
  <2>1. UNCHANGED <<version, state, job>> /\ \A a \in Article : IsExpired(a) => IsExpired(a)'
    BY <1>1, QuietStep
  <2>2. \A a \in Article : Family(a)' = Family(a)
    BY <2>1, SameFamilies
  <2>3. QED
    BY <1>a, <2>1, <2>2, FamilyKept DEF InJob
<1>2. CASE Versioning
  <2>1. PICK a \in Article : Publish(a) \/ Kill(a)
    BY <1>2 DEF Versioning
  <2>2. Race(a) /\ UNCHANGED job /\ expired' = expired \ {a}
    BY <2>1, VersionStep DEF expVars
  <2>3. \A b \in Article : Family(b)' \subseteq Family(b)
    BY <2>1, FamilyVersion
  <2>4. InJob(a) => ~Whole(a)'
    BY <2>2, RaceStep DEF Raced, Whole
  <2>5. \A b \in Article : /\ InJob(b)' <=> InJob(b)
                           /\ b # a => (IsExpired(b)' <=> IsExpired(b))
    BY <2>2 DEF InJob, IsExpired
  <2>6. QED
    BY <1>a, <2>2, <2>3, <2>4, <2>5, FamilyKept
<1>3. CASE Posting \/ Enqueuing
  <2>1. UNCHANGED <<version, state, expired, job>>
    BY <1>3, PostStep DEF Posting, Enqueuing, Enqueue, prodVars, expVars
  <2>2. \A a \in Article : Family(a)' = Family(a)
    BY <2>1, SameFamilies
  <2>3. QED
    BY <1>a, <2>1, <2>2, FamilyKept DEF IsExpired, InJob
<1>4. CASE Deciding
  <2>1. \A a \in job'.archive : \A b \in Family(a) : IsExpired(b) /\ b \in job'.archive \cup job'.killed
    BY <1>4, DecidingStep
  <2>2. UNCHANGED <<state, expired>> /\ \A a \in Article : version'[a] = version[a] \/ version'[a] = 0
    BY <1>4, DecidingStep
  <2>3. \A a \in Article : Family(a)' \subseteq Family(a)
    BY <1>0, <2>2, FamilyStep
  <2>4. job'.archive \subseteq Article
    BY <1>0 DEF Types, Job
  <2>5. QED
    BY <2>1, <2>2, <2>3, <2>4 DEF FamilyInv, IsExpired, InJob
<1>5. CASE Purging \/ PurgeQueue \/ Choosing
  <2>1. UNCHANGED <<version, state, expired>>
    BY <1>5, PurgeFacts, QueueFacts DEF Choosing, Store, KillNext, prodVars
  <2>2. job'.archive = job.archive /\ \A a \in Article : InJob(a) => InJob(a)'
    <3>1. CASE Purging
      BY <1>0, <3>1, PurgeJob DEF InJob
    <3>2. CASE PurgeQueue
      <4>1. job.item \in Article
        BY <3>2, QueueFacts
      <4>2. /\ job'.archive = job.archive
            /\ \/ job'.killed = job.killed /\ job'.removed = job.removed
               \/ job'.killed = job.killed \ {job.item} /\ job'.removed = job.removed \cup {job.item}
        BY <1>0, <3>2, <4>1, QueueJob
      <4>3. QED
        BY <4>2 DEF InJob
    <3>3. CASE Choosing
      BY <1>0, <3>3, ChoosingJob DEF Choosing, InJob
    <3>4. QED
      BY <1>5, <3>1, <3>2, <3>3
  <2>3. \A a \in Article : Family(a)' = Family(a)
    BY <2>1, SameFamilies
  <2>4. QED
    BY <1>a, <2>1, <2>2, <2>3, FamilyKept DEF IsExpired
<1>6. CASE Drop
  <2>1. UNCHANGED <<state, expired, odd>> /\ job.item \in job.archive
    BY <1>6 DEF Drop, JobStep, OrphanInv, JobInv
  <2>2. \A a \in Article : version'[a] = IF a = job.item THEN 0 ELSE version[a]
    BY <1>6 DEF Drop, Deleted
  <2>3. /\ job'.archive = job.archive \ {job.item}
        /\ job'.killed = job.killed /\ job'.removed = job.removed
    BY <1>0, <1>6, DropJob
  <2>4. SUFFICES ASSUME NEW a \in job'.archive, NEW b \in Family(a)', Whole(b)'
                 PROVE  IsExpired(b)' /\ InJob(b)'
    BY DEF FamilyInv
  <2>5. a \in Article /\ a \in job.archive /\ a # job.item
    BY <1>0, <2>3
  <2>6. b \in Family(a)
    BY <1>0, <2>1, <2>2, <2>5, FamilyStep
  <2>7. IsExpired(b) /\ InJob(b)
    BY <2>1, <2>4, <2>5, <2>6 DEF FamilyInv, Whole
  <2>8. b # job.item
    <3>1. b # a => version'[b] > 0
      <4>1. PICK S \in SUBSET Article :
              S = {a} \cup {c \in Article : version'[c] > 0 /\ state'[c] # "spiked"}
        BY <2>5
      <4>2. Closed(S)'
        BY <4>1, RefsAssumption DEF Closed, Related
      <4>3. b \in S
        BY <2>4, <4>1, <4>2 DEF Family
      <4>4. QED
        BY <4>1, <4>3
    <3>2. QED
      BY <1>0, <2>1, <2>2, <2>5, <3>1
  <2>9. QED
    BY <2>1, <2>3, <2>7, <2>8 DEF IsExpired, InJob
<1>7. CASE Ending
  <2>1. UNCHANGED <<version, state, expired>>
    BY <1>7 DEF Ending, MoveFails, JobCrash, prodVars
  <2>2. CASE job'.at = "idle"
    <3>1. job'.archive = {}
      BY <1>0, <1>7, <2>2, EndingJob DEF Resting
    <3>2. QED
      BY <3>1 DEF FamilyInv
  <2>3. CASE job'.at # "idle"
    <3>1. /\ AtWork /\ job'.archive \subseteq job.archive
          /\ job'.removed = job.removed
          /\ job.archive \cup job.killed \subseteq job'.archive \cup job'.killed \cup {job.item}
      BY <1>0, <1>7, <2>3, EndingJob
    <3>2. \A a \in Article : a = job.item => ~Whole(a)'
      BY <1>7, <3>1, TearStep DEF Whole
    <3>3. \A a \in Article : Whole(a)' /\ InJob(a) => InJob(a)'
      BY <3>1, <3>2 DEF InJob
    <3>4. \A a \in Article : Family(a)' = Family(a)
      BY <2>1, SameFamilies
    <3>5. QED
      BY <1>a, <2>1, <3>1, <3>3, <3>4, FamilyKept DEF IsExpired
  <2>4. QED
    BY <2>2, <2>3
<1>8. CASE EndBatch
  BY <1>8 DEF EndBatch, Resting, FamilyInv
<1>9. QED
  BY <1>1, <1>2, <1>3, <1>4, <1>5, <1>6, <1>7, <1>8, NextCases DEF Quiet

\* An article is removed only when all it is linked to has expired as well, or is gone,
\* or was published, enqueued or torn while the job was at work; killed and spiked ones
\* are removed on their own (archive/commands.py, _can_remove_item).
THEOREM LinkedExpireTogether == Spec => LinksExpire
<1> DEFINE I == Types /\ OrphanInv /\ FamilyInv
<1>1. Init => I
  <2>1. Init => FamilyInv
    BY DEF Init, FamilyInv, Resting
  <2>2. QED
    BY <2>1, InitTypes, InitOrphan
<1>2. I /\ [Next]_vars => I'
  <2> SUFFICES ASSUME I, [Next]_vars PROVE I'
    OBVIOUS
  <2>1. CASE Next
    BY <2>1, TypesStep, OrphanStep, FamilyInvStep
  <2>2. CASE UNCHANGED vars
    <3>1. UNCHANGED <<version, state, expired, writing, published, queue, job, odd>>
      BY <2>2 DEF vars, prodVars, pubVars, expVars
    <3>2. Types'
      BY <2>2 DEF vars, prodVars, pubVars, legalVars, expVars, Types, AtWork
    <3>3. FamilyInv'
      BY <3>1, SameFamilies, FamilyKept DEF IsExpired, InJob
    <3>4. OrphanInv'
      BY <3>1, OrphanSame DEF IsWriting, IsExpired
    <3>5. QED
      BY <3>2, <3>3, <3>4
  <2>3. QED
    BY <2>1, <2>2
<1>3. ASSUME I, [Next]_vars
      PROVE  [\A a \in Article : ~Gone(a) /\ Gone(a)' /\ state[a] \in {"draft", "published"} =>
                \A b \in Family(a) : IsExpired(b) \/ odd[b] \cap {"raced", "torn"} # {}]_vars
  <2> SUFFICES ASSUME Next, NEW a \in Article, ~Gone(a), Gone(a)',
                      state[a] \in {"draft", "published"}, NEW b \in Family(a)
               PROVE  IsExpired(b) \/ odd[b] \cap {"raced", "torn"} # {}
    BY <1>3
  <2>1. version'[a] # version[a]
    BY DEF Gone
  <2>2. CASE Drop
    <3>1. a = job.item /\ a \in job.archive
      BY <1>3, <2>1, <2>2 DEF Drop, Deleted, OrphanInv, JobInv
    <3>2. QED
      BY <1>3, <3>1 DEF FamilyInv, Whole
  <2>3. CASE EndBatch
    BY <1>3, <2>1, <2>3 DEF EndBatch, Deleted, OrphanInv, JobInv
  <2>4. CASE Versioning
    BY <1>3, <2>1, <2>4, VersionStep DEF Versioning, Gone, Types
  <2>5. CASE Deciding
    BY <1>3, <2>1, <2>5, DecidingStep
  <2>6. CASE UNCHANGED version
    BY <2>1, <2>6
  <2>7. CASE Quiet
    BY <1>3, <2>6, <2>7, QuietStep
  <2>8. CASE Posting \/ Enqueuing \/ Choosing \/ Ending
    BY <2>6, <2>8 DEF Posting, PostEntry, Enqueuing, Enqueue, Choosing, Store, KillNext, Ending,
       MoveFails, JobCrash, prodVars
  <2>9. CASE Purging \/ PurgeQueue
    BY <1>3, <2>6, <2>9, PurgeFacts, QueueFacts DEF prodVars
  <2>10. QED
    BY <2>2, <2>3, <2>4, <2>5, <2>7, <2>8, <2>9, NextCases DEF Quiet
<1>4. QED
  BY <1>1, <1>2, <1>3, PTL DEF Spec, LinksExpire

=============================================================================
