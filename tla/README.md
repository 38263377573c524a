# Superdesk core in TLA+

Superdesk is a newsroom system: articles are ingested from agencies, edited by
journalists, published, and delivered to subscribers. This directory models the parts
of the server in which several processes work on the same documents, and checks and
proves that they stay correct. It is read beside the source tree it describes; every
definition that stands for code is listed with its lines in `PROJECT.json` under `map`.

## 1. The system

### How it runs

The server is a set of processes around one MongoDB, with elastic as an index of it: web
processes that answer API requests, celery workers that run tasks, and the celery beat
that sends tasks on a schedule. There are no transactions. What keeps processes apart is

* the `_etag` of a document, compared by the database when a request updates it
  (`system_update` leaves the comparison out on purpose);
* locks kept as documents with a time to live (`superdesk/lock.py`);
* the order in which fields that work as states (`queue_state`, `state`) are written.

Tasks are acknowledged to the broker when they start: a task whose process dies is not run
again. A task gets `SoftTimeLimitExceeded` at an arbitrary point once its time is up.

### The pipeline of an article

    editor request --> archive + published --> publish_queue --> receiver
      publish services   EnqueueContent (beat, 10 s)   publish() (beat, 10 s)
      content/*.py       enqueue/*.py                  transmit_subscriber_items
                                                       transmit_item

| Component | State it keeps | Operations | Hard behaviour | What makes it correct |
|---|---|---|---|---|
| publish transmission | `publish_queue`: state, retry_attempt, next_retry_attempt_at; three kinds of locks | publish, transmit_subscriber_items, transmit_item, update_item_status | duplicated and expired messages, two locking schemes for sync and async, failures after delivery | one transmitter per entry, bounded deliveries, truth of success, order, backoff, no stranded entry |
| enqueue | `published`: queue_state; lock enqueue_published | run, enqueue_items, enqueue_item, queue_transmission | timeouts in the middle of a fan-out, lists read long before they are used, expiring lock | each subscriber once, nobody left out, versions in order, follow-ups reach receivers |
| publish services | `archive`: state, _etag; entries of `published` | publish, correct, kill, takedown, unpublish, schedule, deschedule | archive and published written one after the other, lost updates only logged | archive and published agree, a kill is final |
| subscribers | is_active, async, products, critical_errors | REST, get_active (cached) | cache staleness | who gets what |
| legal archive | legal copies, moved_to_legal flags | import after publishing, two commands | copies of stale reads, forced flags, retries | the legal copy is complete and current |
| content expiry | archive, published, archived, saved position | remove_expired | crash between copy and delete, waits for legal | nothing is lost or archived twice |
| ingest | ingest items, provider status, one lock per provider | update_provider, ingest_items | batches longer than the lock | an item is ingested once, versions grow |
| item locking | lock_user, lock_session of an article, a five second lock | lock, unlock, end of session | decisions on stale copies | one session edits an article |
| distributed lock | documents of `_lock` | lock, unlock, touch, is_locked, remove_locks | expiry under the owner | mutual exclusion within the lease |
| sequences | one counter per key | get_next_sequence_number | wrap in two writes | numbers are in range and not repeated |
| data backend | mongo and elastic | create, update, system_update, delete | index lags or disagrees | elastic converges to mongo |
| archive, workflow, tasks, packages, broadcast, history | articles, versions | edit, move, spike, duplicate, rewrite | propagation to packages and rewrites | the workflow is obeyed |
| sessions, users, roles, privileges | sessions, preferences | login, purge | purge racing with use | locks of dead sessions go |
| content filters, products, rules, templates, highlights, export, rundowns, monitoring, search, dictionaries, vocabularies | reference data | CRUD | none of their own | outside this project |
| content api, prod api | read side | GET | none | outside this project |
| formatters, parsers, transmitters, feeding services, media, storage, sams, notifications, audit, profiling | - | I/O and conversion | external failures | appear as failures of the steps that use them |

`PROJECT.json` lists each of them with its sources and status, and under `hazards` what is
hard to test, at its line.

## 2. Modules

| Module | Models | Uses |
|---|---|---|
| `Transmit` | `superdesk/publish/publish_content.py`, `publish_service.py`, the operator endpoints of `publish_queue` | instantiates `Delivery` |
| `Delivery` | what transmission promises: the abstract specification `Transmit` implements | - |
| `Enqueue` | `apps/publish/enqueue`, the publish services and deschedule for one article | - |
| `Publishing` | the two together, sharing `publish_queue` and the subscribers | extends `Transmit`, instantiates `Enqueue` |
| `Workflow` | the editorial life of articles and a package: `apps/archive`, `apps/publish/content`, `apps/packages`, `superdesk/workflow.py` | - |
| `Retention` | `apps/legal_archive/commands.py` and `apps/archive/commands.py` | - |
| `Lock` | `superdesk/lock.py` | - |
| `Ingest` | `superdesk/io/commands/update_ingest.py`, `remove_expired_content.py` | instantiates `Lock` |
| `ItemLock` | `apps/item_lock`, `apps/item_autosave`, saving and the end of sessions | instantiates `Lock` |
| `TransmitProofs`, `DeliveryProofs` | theorems about `Transmit`: types, exclusion, truth; then order and the refinement of `Delivery` | extend `Transmit`, `TransmitProofs` |
| `EnqueueProofs` | theorems about `Enqueue`: types, once each, who gets what and when | extends `Enqueue` |
| `PublishingProofs` | theorems about the composition | extends `Publishing`, `DeliveryProofs`, instantiates `EnqueueProofs` |
| `WorkflowProofs`, `RetentionProofs`, `IngestProofs`, `ItemLockProofs` | theorems about the modules they are named after | extend them |
| `MCTransmit`, `MCEnqueue`, `MCPublishing`, `MCWorkflow`, `MCRetention`, `MCIngest`, `MCItemLock` | instances for TLC | extend them |

### Transmit and Delivery

`Item` numbers the entries of `publish_queue` in the order in which they are created, which
is the order of the sort in `get_queue_items`. `state`, `attempt` and `due` are the fields
`state`, `retry_attempt` and whether `next_retry_attempt_at` has passed; `sent` is a history
variable, the number of times the receiver has got the content. `articlesLock`, `subLock`
and `itemLock` hold the owner of the locks `Transmit-Articles`, `Subscriber-Transmit-<id>`
and `Transmit-<id>`. `subMsgs` and `itemMsgs` are the messages in the broker.

A worker's `pc` names the database call it is about to make:

| point | code |
|---|---|
| `dispatch`, with `phase` 0 to 4 | the two loops of `publish()`, one query and its messages at a time |
| `fetch`, `next` | `transmit_subscriber_items`: `get_queue_items`, the loop |
| `read`, `mark` | `transmit_item`: `find_one` and the test of the state, `patch` to in-progress |
| `send` | `transmitter.transmit` |
| `record`, `mark_error` | `update_item_status` to success or error in `PublishService.transmit` |
| `fail`, `reschedule` | the exception handler: `find_one`, `system_update` |

What may go wrong is a constant, `Faults`, so that each property is checked under as many
faults as it survives: errors of the transmitter of each class the code tells apart, the
error raised although the content has arrived (`ack`), a failing database call, the soft
time limit, a crash, a lock that expires under its owner, an operator who resets entries
or closes subscribers, a subscriber switched between synchronous and asynchronous.

The destination of an entry may be the content API (`Direct`). `_set_queue_state` creates such an
entry as a success (`PostedState`): nothing transmits it, `publish_content_api` runs later and what
it raises is only logged. So success means delivery only for the other entries, which is what
`SuccessWasSent` says, and in `Delivery` the entries of the content API are settled when they are
submitted. An operator can reset one to pending (`on_updated` repairs only the response); it is
then listed as any other, no transmitter is registered for it and the attempts end as failures
(`SendOtherError`). `transmit` has such an entry between two others; the proofs cover them under
every fault, the operator included, which `transmit_faults` leaves out for the size of its instance.

`Delivery` forgets workers, locks, messages and retries: an entry is posted, the receiver
gets it while it is open, and it is settled with the truth: a success only for what the
receiver has. A receiver that acknowledges what it accepts gets an entry at most once, and
never one that was given up; when acknowledgements get lost (`Lossy`) it gets it at most
`Limit` times. The refinement maps an entry that exists to `posted`, `sent` to `got`, the final
states to `outcome`, `MaxRetry + 1` to `Limit` and the fault `ack` to `Lossy`
(`ImplementsDelivery`). `transmit` checks it with lost acknowledgements, `publishing` without.

### Enqueue

The module follows one article. `archState` and `etag` are its document in `archive`;
`Entry` numbers its entries in `published` by `publish_sequence_no`, and `qstate`, `op`,
`scheduled` and `waiting` are their fields `queue_state`, `operation`, whether the state is
scheduled, and whether `publish_schedule` is still to come. `posted` counts the entries of
`publish_queue` made from an entry for a subscriber.

Editors are API requests: `Submit` reads the article and validates the transition,
`UpdateArchive` is the update guarded by the etag (which, when the etag has changed, writes
nothing and still goes on, as `eve_backend._change_request` does), `TakeNumber` takes
`publish_sequence_no` (in `on_create` of the published entry), and `PostPublished` inserts it.
Between the last two another request may take the next number and insert first: a kill
may be enqueued before the correction it follows. The code does nothing about that. The history
variable `overtaken` holds the entries inserted after one with a later number;
`InSequence` and `FollowUpsReachReceivers` (and in `Publishing` `OlderOnlyByRetry` and
`FollowUpsReachReaders`) exempt those entries and no others. Without the exemption TLC finds each of
the four violated on the instances of `enqueue_follow` and `publishing`, which have two editors.
Descheduling is three steps: `DeletePublished`, `DeleteQueue`, `RestoreArchive`.

Workers run `EnqueueContent.run`: `RunStart` (lock), `ListItems`, `TakeItem`, and for each
entry `Check`, `FlipArchive` when it was scheduled, `Mark`, `GetSubscribers`, then `QueueFor` or
`SkipSubscriber` for each subscriber, `Finish`; `HandleTimeout` and `HandleError` are the
exception handlers, at every call that can raise.

`Matches` is the result of `filter_subscribers` for each operation: products, content filters
and targets are outside the module. `Received` is `_get_subscribers_for_previously_sent_items`.

### Publishing

The entries of `publish_queue` are the items of `Transmit`, and `source` says from which
published entry each was made; `posted` of `Enqueue` is counted from it. `Queueing` is the one
step both take part in (`queue_transmission` posts an entry); every other step is of one
component, and the subscribers a transmission error closes are those `Enqueue` no longer
serves. What the composition shows and neither module can: a follow-up reaches whoever
was *delivered* the article, an older version comes after a newer one only by a retry or because it
was inserted late, and what is published ends delivered, given up or in error.

### Workflow

Every request is one step here; what is hard is the order of legal requests over several
documents. `state`, `revert`, `rewriteOf`, `rewrittenBy`, `story`, `groups`, `linked` are the fields
`state`, `revert_state`, `rewrite_of`, `rewritten_by`, `event_id`, `groups` and
`linked_in_packages`; `published` is the list of an item's entries in `published`, each with its
state, `last_published_version`, whether it is a correction, and its schedule. `Valid` is the
table of `workflow_action` registrations. `Release` is what publish, correct, kill, take down and
unpublish have in common: the new entry, the flag taken from the older ones, and the
correction of a live package around the article, which publishes the package's other
articles on the way (`Wave`: one after the other, up to the first that is refused).

Some legal orders of requests end in states a property would forbid, because the code lets
them. Each such irregular step adds a word to the ghost `odd`, and a property names the
words it does not survive; everything else is checked without exception.

| `odd` | The code lets |
|---|---|
| `unlinked` | an update be unlinked from the middle of a chain of updates (`archive_link.py`): the event of the story is split and one side of the link stays |
| `refused` | a spike fail after `on_update` has unlinked the article's updates (`archive_spike.py:86` and `:148`) |
| `chained` | an article that has an update of its own become an update of another |
| `descheduled` | an original be descheduled although its update is scheduled: all its entries are deleted (`archive.py:898`) |
| `associated` | an article that has been out and was unpublished become an update |
| `withdrawn` | a scheduled article be killed, taken down or unpublished: its waiting entry stays, and goes out when it is due |
| `miscorrected` | a package be corrected to add or drop an article that is not out (its `linked_in_packages` is lost or stays), or its publication fail halfway |
| `revived` | a package be unspiked although articles of it were killed or spiked meanwhile |

Simplified: fetched and routed articles are submitted ones; the nested corrections of a
package caused by one request are one entry; the index is refreshed at once; locks, embargo,
associated media, the scheduling of packages and the copies of `rewritten_by` in `published`
are left out; a client adds to a package only what it can see (`Offered`).

### Retention

The legal archive copies what is published, content expiry removes it, and all they share
are the flags `moved_to_legal`. A request that publishes, corrects or kills takes four steps: `NewVersion` updates
archive, `PostEntry` posts to `published`, `KeepVersion` inserts into `archive_versions` and `SendImport`
sends the import task; `writing` is what it has still to do and `RequestFails` ends it early. The
last two come in this order when the API inserts the version after the hook that sends
the task has run, or in the other; an import may come between any of them.

`import` is one `upsert_into_legal_archive` per importer, the
workers and `ImportLegalArchiveCommand`: `Begin` reads archive and legal archive,
`ImportUpsert` puts or posts (a post that finds a copy by then raises), `ImportFlag` sets the
flags of `published`. What goes wrong while flagging is swallowed and the import counts as
done (`FlagFails`); what goes wrong before is retried (`ImportFails`). `CopyQueue` and `CommandEnd`
are the import of the publish queue, without and with force. `job` is `RemoveExpiredContent`:
`NextBatch` saves the position, deletes spiked articles and decides what may go with its family
of linked articles; `Store`, `Purge`, `PurgeQueue` and `Drop` move one article to `archived`: the
entries in `published` and those in `publish_queue` are deleted by two calls, between which the job
may fail, and `PurgeSwallowed` is the entry that elastic does not let go. `KillNext` and `EndBatch`
delete killed articles and mark issues.

| `odd` | What happened to the article |
|---|---|
| `raced` | published, killed or enqueued while the job was removing it |
| `torn` | the job failed or died while it was moving it |
| `halved` | the deletion of its entries stopped after `published` (`published_item.py:348`), or left some there (`eve_backend.py:401`): what is left is never removed, for the next job finds no entries and drops the article |
| `early` | it was imported while a publication had written `archive` and not yet `archive_versions`: the entry is flagged though the legal archive lacks the version, and stays so when the task of the publication is lost |
| `blind` | the search for its unflagged entries failed, which the code takes for an empty answer |

The last three exemptions are losses the code allows: without `halved` TLC finds `NoOrphans`
violated, without `early` or `blind` `LegalKeepsAll`.

Simplified: the document and the versions of the legal archive are written in one step, and
so is the forced copy of the queue with the reset of `expiry_status`; `ImportLegalArchiveCommand`
takes one article at a time; the two looks at the flags before removal are one; the article and its versions in
`archive_versions` are deleted in one step (an article without versions is left to the next
job); no request lasts until the expiry it has set; a version
has one queue entry, whose delivery state is not kept (any entry may be final at any time);
content filters for `archived`, preserved desks, broadcasts, assignments, media and the
other expiry settings are left out.

### Lock, Ingest

`Lock` is the document of a lock: `Acquire`, `Touch`, `Release`, and `TimeUp` when its lease runs
out, of which the owner learns nothing.

`Ingest` has one provider. `feed` is what it offers, `mongo` and `elastic` the two copies of the
`ingest` collection with ids of their own (`guid` has no unique index), `routed` the version the
routing scheme was last applied to. A task takes the lock (`Start`), touches it before each
batch (`NextBatch`), looks each item up (`FindNone`, `FindOld`, `Cancel`), writes it to mongo (`Post`, or
`Patch` guarded by the etag), routes it (`Route`) and, at the end of the batch, copies what it
has written to elastic (`SyncRead`, `SyncWrite`). The removal looks for what has
expired in mongo (`GcFind`), deletes that from elastic and then from mongo (`GcElastic`, `GcMongo`),
whatever has become of it meanwhile, and last clears the index of what is expired there
(`GcSearch`, `GcClean`).

| `odd` | What happened |
|---|---|
| `overtaken` | the lease of a running task ran out and another took the lock |
| `torn` | a task failed or died between the write of the item and its copy to elastic |
| `crossed` | the removal met an update of the item and deleted, from either store, a version that had not expired, or the item expired before it was stored |
| `rerouted` | an overtaken task routed a version of the item again, or after a newer one |

Simplified: a provider offers its whole list in each batch; the cancellation patches mongo
and elastic at once, and a canceled version of a known item is never stored itself (its etag
is stale by then); one removal at a time, whose search of the index comes when nothing
expired is in mongo (the five minutes of grace of the query); packages, associations,
renditions and the administration of providers are left out.

### ItemLock

`article` is the document with the session that holds it and the session whose text it has,
`draft` the autosaved text, `over` the sessions that have ended. A process serves one request
at a time, one database call per step: lock (`LockRead`, `LockTake`, `AssignRead`, `Assign`,
`LockReturn`), unlock (`UnlockRead`, then `Discard`, or `DraftRead` and `Free` or `Store` and `Clear`), save,
autosave, and the end of a session, which unlocks what it finds (`CloseFind`). `fresh` are the
processes whose copy of the article still has its etag; an update without it is dropped
silently, and the request goes on. The lock of five seconds is a `Lock`.

The properties name what they cannot exclude: a request that read the article before its
present holder got it (`seen`), a request between whose steps something has come (`sound`), an
unlock that was dropped or crashed (`kept`).

## 3. Runs

| Run | Properties | Result | What it shows |
|---|---|---|---|
| `transmit` | `OneTransmitter`, `NoStrandedEntry`, `SendsBounded`, `SyncInOrder`, `SyncRetryWaits`, `ImplementsDelivery` | passes | Three entries of a subscriber, synchronous or asynchronous, one of them for the content API, with two workers, failing transmitters, receivers that get what they do not acknowledge and messages that lie in the broker: no entry is transmitted by two workers nor left in progress by all, the order of publication, the backoff and the retry budget are kept, and the whole machinery implements Delivery. |
| `transmit_faults` | `TypeOK`, `SuccessWasSent` | passes | Every fault at once on one entry (database, lost acknowledgement, soft time limit, crash, locks that expire under their owner, operators, a subscriber switched between sync and async): success stays truthful. |
| `transmit_retry_delay` | `EveryRetryWaits` | violated | The delay between retry attempts is not kept for an asynchronous subscriber: a copy of the message sent before the failure retries at once. |
| `enqueue_follow` | `QueuedOnce`, `FollowUpsReachReceivers`, `QueuedForAll`, `InSequence` | passes | Two requests at a time, a correction that widens the audience and two workers that fail or die: an entry is queued once for a subscriber and for every subscriber chosen, and unless a request inserts its entry after one with a later number, versions stay in order and corrections and kills reach whoever got the article. |
| `enqueue_scheduled` | `TypeOK`, `NothingEarly`, `EventuallyEnqueued` | passes | Two requests scheduling, descheduling and correcting one article while subscribers come and go and tasks run into their time limit: nothing of a scheduled entry is queued early, and with fair scheduling every entry ends enqueued or in error. |
| `enqueue_kill_scheduled` | `KillIsFinal` | violated | An article killed while scheduled turns to published in the archive when its schedule elapses. |
| `enqueue_soft_limit` | `QueuedForAll` | violated | The soft time limit raised while formatting costs one subscriber the article, and the entry is called queued. |
| `workflow` | `LastVersion`, `LinksAgree`, `UpdateAfterOriginal`, `PendingScheduled`, `CorrectionCanEnd`, `PackageLinks`, `NothingDeadInPackage` | passes | Three articles and a package, two times to schedule for and every sequence of six requests from any mix of fetched and published articles: the links of updates and packages, the published entries and the order of publication stay consistent, but for the irregular steps each property names. |
| `retention` | `NoOrphans`, `LinksExpire`, `LegalKeepsAll`, `ArchivedComplete`, `EventuallyRemoved` | passes | Two linked articles, published by requests of several steps, a worker and the two legal commands importing while content expiry removes in several steps, one crash or failing call anywhere: nothing is removed that the legal archive lacks, families go together, archived gets every version, no entry stays without its article, and what has expired is removed in the end. |
| `ingest` | `OneCopy`, `RoutedOnce`, `IndexCatchesUp`, `ExpiredRemoved` | passes | Two updates of a provider that offers three versions of an item, the last perhaps a cancellation, and the removal of what has expired, with one lease that runs out, crash or exception: an item is stored once, routed once per version and indexed, and what has expired goes from both stores. |
| `item_lock` | `OneLocking`, `EndedHoldsNothing`, `LockRespected`, `TextByHolder`, `DraftKept` | passes | Two sessions of one or two users lock, unlock, save and autosave an article, end and log in again, served by two processes, with one crash or one request slower than its lock: who holds the article, whose text gets into it, and what becomes of drafts and of the locks of ended sessions. |
| `publishing` | `FollowUpsReachReaders`, `OlderOnlyByRetry`, `ImplementsDelivery`, `EventuallyDone` | passes | Enqueue and Transmit together: two editors publish an article and kill it, their requests interleaving, for a synchronous subscriber whose transmissions may fail. What follows reaches whoever got the article, an older version is delivered after a newer one only by a retry (but for a version inserted after a later one), no entry is delivered twice, and with fair scheduling every version ends with each chosen subscriber having got it or been given up. |

### Bounds, and why they are enough

* Two workers or processes: every lock and every race in the code is between two tasks; a
  third adds nothing the second cannot do after its task ends, because tasks keep no state.
* Two or three entries in `Transmit` and `Enqueue`: order properties need two entries of one
  subscriber; three entries of `Enqueue` hold a publication and two follow-ups. The entry of
  `transmit_faults` has top priority, those of `transmit` have none.
* `MaxRetry` is 1, a retry and the exhausted case, or 0 under all faults. The limit only
  enters in one comparison. `SentCap` and `PostCap` saturate history counters above the value
  the properties test. `MaxCopies` is 1: a copy of a message exists beside the one in work.
  `QueryLimit` is 2: a batch holds both entries, or the one that is left.
* `transmit` has a third entry, of the content API, between the other two. `Direct` is empty
  in the other runs of the transmission: such an entry adds nothing to them but states.
* `publishing`: two editors whose requests, a publication and a kill, interleave, with one entry of
  one synchronous subscriber for each. A larger instance, two subscribers, one of them reached
  by the content API, and all three kinds of requests, was run by hand without
  `EventuallyDone`: 442,491 states, no violation.
* One article in `Enqueue`: entries of different articles share only the lock and the batch.
* `Workflow`: three articles make a chain of two updates, or an update and its original with a
  third in the package; two slots order two schedules; six requests reach every irregular
  step from any mix of fetched and published articles; two entries per item hold a publication
  and what follows it.
* `Retention`: two linked articles are the smallest family; a batch of one makes the saved
  position matter; two versions let the legal archive be behind; one fault anywhere.
* `Ingest`: one item in three versions, because an overtaken task may bring the second after
  the third; two ids, so that a copy can exist twice; one fault anywhere.
* `ItemLock`: two sessions, of one user or two, one of whom may break locks; one fault. Sessions
  are used again after they are forgotten everywhere, so behaviours are not bounded.
* Symmetry is used in runs without liveness only: of workers in `transmit` and `transmit_faults`, of
  articles in `workflow`, of processes and sessions in `item_lock`.
* Deadlock is not checked in `workflow`, `retention` and `item_lock`: requests are bounded, articles are
  gone at the end, and sessions of an article that was deleted have nothing to ask.

Runs that check a property under fewer faults than exist do so because the code breaks it
otherwise; these limits are:

* `ImplementsDelivery` without `db` and `timeout`, and at most once without `ack`: delivery cannot
  be atomic with recording it. `SendsBounded` is what remains under them (it is proved for all
  three, and crashes).
* `NoStrandedEntry` without `crash` and `db`, `EventuallyEnqueued` without `crash`: no query looks for
  entries left in progress. A crash there needs an operator.
* `QueuedOnce` and `InSequence` without `search`, `softlimit`, `overrun`: an entry put back to pending
  after part of its fan-out is queued again for those served, and overtaken by its successor.
* `QueuedForAll` of `enqueue_follow` without the timeout of the search. With `error`, `crash` and
  `search` the instance was run by hand: 6,246,390 states, no violation (the theorem
  `EverybodyQueued` has no limit on them).
* `FollowUpsReachReceivers` without operators and formatter failures: a subscriber that is
  inactive when the correction is enqueued never gets it.

### Findings

Three runs show the code doing what a comment, test or setting says it does not:

* `transmit_retry_delay`: `TRANSMIT_RETRY_ATTEMPT_DELAY_MINUTES` is not kept for asynchronous
  subscribers, whose waiting messages retry at once.
* `enqueue_kill_scheduled`: an article killed while scheduled is published when its time comes.
* `enqueue_soft_limit`: a soft time limit in the fan-out drops one subscriber and the entry
  is called queued.

## 4. Fairness

The beat sends `publish:transmit` and `publish:enqueue` every ten seconds. A run started while
the lock is taken ends at once, so the code justifies strong fairness of `PublishStart` and
`RunStart`: the lock is free again and again, and so is some worker. Tasks that have started go
on (weak fairness of every step of a worker), because a process that is stuck is interrupted
by its time limit. Messages may expire (`transmit_subscriber_items` after ten seconds), so a
single message has no fairness; what is assumed is that a subscriber for whom messages keep
being sent is served at some time (strong fairness of `SubTake` and `ItemTake`): the pool of
workers is not saturated for ever. With a single worker it would be, the messages expiring
while the only worker dispatches; `publishing` has two. Retries come due and schedules
elapse. `Publishing` takes the fairness of its two parts.

`Retention`: the beat starts content expiry and the legal command again and again and each
goes on to its end (weak fairness of the steps of the job and of the command); the
command comes to every article its query keeps finding (strong fairness of
`CommandTake`). The import tasks are not assumed to run at all. `Ingest`: the removal is
started again and again (weak fairness of its steps); nothing makes a provider offer an
item or an update go on.

Users are never assumed to act, and faults are never assumed to happen.

## 5. Proofs

TLC checks a property on a small instance; the theorems state it for any number of
entries, subscribers, articles, sessions, versions, workers, requests and faults. Each
rests on an inductive invariant, a conjunction of named parts at the head of its module,
which TLC checked on the instances of section 3 before it was proved. Where a
hypothesis is needed it is a name for the faults that are left out, the same that the run
of the property leaves out; theorems without one hold under every fault of the module.

**`TransmitProofs`**

* `TypeCorrect`. The inductive invariant is `TypeOK` with `CurOK`: a worker inside
  `transmit_item` has an entry.
* `MutualExclusion`, under `NoOverlap` (no lock expires under its owner, nobody flips a
  subscriber, operators leave the queue alone). Asynchronous tasks exclude one another
  by the lock of the entry, synchronous ones by the lock of the subscriber; that the two kinds
  never meet is the point of the proof. `LockInv` says that a task's `is_async`
  agrees with the subscriber's flag, that item messages exist only for asynchronous
  subscribers, that a batch contains entries of the subscriber whose lock is held, and that
  work on an entry is covered by the lock of its kind.
* `RetryBudget`, under `NoOverlap`. `SendsBounded` is not inductive: between a delivery and
  its record the counter lags. `BudgetInv` charges a worker at each point with the deliveries
  that its entry may have had: `sent <= attempt` when the entry is free, one more in the middle
  of an attempt. It needs `LockInv`: with two transmitters the charge would be split.
* `SuccessTruthful`, under all faults: the worker that is about to write success has
  just delivered, and history only grows.

**`DeliveryProofs`**

* `NothingStranded`, under `NothingLost` (no crash, failing database call or time limit).
  `BusyInv`: an entry in progress or in error has a worker between `mark` and the write of its
  next state. Overlapping transmissions do not hurt: the last of them still writes.
* `Refinement`, under `Careful`: `NoOverlap`, no failing database call and no time limit inside
  an attempt, and a history counter that is not cut off (`SentCap > MaxRetry`). Crashes and lost
  acknowledgements are allowed. Beside the three invariants above it needs `OpenInv`: a
  worker finds its entry as it left it, and unless acknowledgements get lost what is yet to
  be sent or has failed was never delivered. Each action maps to `Submit`, `Deliver`, `Settle` or
  a stutter of `Delivery`.
* `FirstAttemptsInOrder` and `RetriesWait`, under `NoOverlap`. `OrderInv`: a task of a synchronous
  subscriber has in its batch every earlier pending entry of the same priority up to the one
  at hand, none before the one it is about to mark, and each as the query found it. That
  the limit of the query cuts off later entries only is the lemma `FirstClosed`.

**`EnqueueProofs`**

* `TypeCorrect`, from `TInv`: the numbers taken for entries that are not inserted yet are distinct
  (`NumberOwn`) and belong to no entry (`NumberNew`), and a worker has inserted entries only
  (`WorkInserted`).
* `OncePerSubscriber`, under `NoTimeouts`. The lock makes the busy worker unique (`LockInv`); a
  pending entry has been queued for nobody (`PendingFresh`), a worker about to mark an
  entry finds it so (`MarkPending`), and during the fan-out the subscribers still in
  `targets` have not been served (`FanFresh`, with `FanMarked`: the entry is in progress).
* `NothingBeforeTime`, under all faults. `EarlyInv`: whatever is in a batch or in hand was due
  when it was listed, and what is due stays so.
* `EverybodyQueued`, under `Thorough` (runs do not overlap, no soft time limit or formatter makes the
  fan-out skip a subscriber, no descheduling deletes queue entries; timeouts of the search,
  errors and crashes are allowed). `MeantInv`: during the fan-out each chosen subscriber has
  been served or is still in `targets`.
* `VersionsInSequence`, under `Plain` (`NoTimeouts`, nothing is scheduled). `PrefixInv`: while
  an entry is pending that is not `overtaken`, none after it has been touched; `BatchInv` and
  `TurnInv`: a run has with an entry all such pending ones before it, and none before the
  entry it marks is pending. Only a number that is skipped lets a later entry go first, so
  the exemption is the race of two requests and nothing more.
* `FollowUpsComplete`, under `Unfiltered` (`Plain`, no formatter failure, no subscriber switched). It
  needs the order of versions: the subscribers of a kill are read when all that came before
  it has been queued, so `Owed`, the active subscribers with an earlier version, cannot grow
  afterwards (`OwedAll`). A version that was `overtaken` by the kill owes nothing: the code may
  send it to subscribers the kill was never queued for.

**`PublishingProofs`**

The steps of the composition are steps of `Transmit` or stutter, and steps of `Enqueue` or change
nothing but the active subscribers (`OnlyActive`), which keeps the invariants of `EnqueueProofs`; so
the lemmas about the parts are cited, for `Enqueue` through the instance `EP`, whose steps are
shown to be those of `Enq`. The new part is what links them: exactly the posted queue entries
have a source (`Linked`).

* `CompositionDelivers`, under `Careful`: every behaviour of the composition is one of `Transmit`.
* `ReadersGetFollowUps`, under `Steady` (`Unfiltered` for the enqueue side, no operator in the
  transmission). What was delivered was posted and so was queued (`SentKnown`), and a
  transmission only closes subscribers, so nobody new is owed a follow-up.
* `NewestLast`, under `Ordered` (`NoOverlap`, `Plain`, one priority per subscriber). Enqueue makes the
  entries for a subscriber ascend in version, those `overtaken` left out (`Ascending`), and `TurnsInv` says of Transmit: once
  an entry has its turn the earlier ones have been attempted, and one that is being sent again
  has a retry counted. The priority is needed: an entry of high priority overtakes earlier
  ones.

**`ItemLockProofs`**, all without hypotheses: what a property exempts is part of it.

* `OneSetsTheLock`, `EndedSessionsRelease`, `LocksAreRespected`, `TextIsTheHolders`, `DraftsAreKept` share one
  invariant. `TaskInv` says what a request knows at each point: the lock it takes it may
  take given what it has read, the one it removes it may remove, and while nothing came
  between its steps (`sound`) the lock of five seconds is its own and the draft it stores is
  the last and the holder's. `EndedInv`: what an ended session still holds a request on
  its way will unlock. Of `Lock` they need that only
  a lock that is free or late changes hands, which makes the former owner's request unsound.

**`RetentionProofs`**, all without hypotheses, for any graph of links.

* `EntriesGoWithTheArticle`. `EntryInv` and `JobInv`: an article is dropped after its entries, and
  what the job has decided on is still there; a deletion that stopped halfway is `halved`.
  `WritingInv`: an article that is being published is not expired, unless the job decided on
  it before (`raced`).
* `LegalArchiveComplete`. `FlagInv`: what is flagged as moved to legal was copied, and the legal
  version is not newer than the article's; `MovedInv`: what the job has decided to remove is
  flagged; `ImportInv`: what an import is about to flag it has copied, the version whose entry
  a publication has still to post included. An import that ran between the writes of a
  publication is `early`, and only what is not can be said to be whole (`Sound`).
* `ArchivedBeforeRemoval`. `ArchiveInv`: the text archive has versions of an article that is still
  there only while the job is at it, so storing them never meets a conflict.
* `LinkedExpireTogether`. `FamilyInv`: with an article the job has its whole family, which has
  expired. The lemmas about families (an article's own contains those of
  its members, no step of the job adds to one) are proved of the least closed set, so
  chains of any length need no induction.

**`IngestProofs`**, all without hypotheses.

* `OneDocument`. `guid` has no unique index: `DocInv` rests on the lock alone. `SoleInv`: while no lease
  was overtaken only the owner of the lock is at work, and what it found to be missing
  is still missing when it posts.
* `EachVersionOnce`. `RouteInv`: the last routed version is the one in mongo or was about to be
  replaced by the one at hand, which is newer.
* `ElasticFollows` is inductive with `TaskInv`: each document that differs is in `created` or
  `copy` of a task, or expired.

**`WorkflowProofs`**, all without hypotheses, for any articles, schedules and requests.

A request touches many documents, and the waves through a package touch them in an order
of their own; but to each item it does one thing, its *fate* (`Fate`: kept, written, posted,
descheduled, issued, marked, cancelled, shelved, unshelved or failed). Each request is proved
to give every item one of them, and the invariants are proved per fate.

* `TypeCorrect`, `LastIsNewest`, `NothingTakenBackGoesOut` and `CorrectionsEnd` from `EntriesInv`. The second
  needs `ShelfInv` (what is spiked returns to a state it could be spiked from) and the third
  that only one entry of an article waits at a time (`PendingInv`).
* `PackageKnowsItsArticles` and `PackageIsAlive` from `PackageInv`, with `AwayInv`: a package that is
  spiked has no groups.
* `UpdatesAndOriginals` from `LinkInv`: events are classes of an equivalence (`StoryInv`), linked articles
  share one (`EventInv`), and what is not there has no links (`AbsentInv`).
* `OriginalFirst` from `OutInv`, which says what stands in the published collection for an article's
  state: a scheduled one ends in an entry that waits, one withdrawn has something out, one
  published or corrected a version out. `validate_schedule` compares states and times of the
  articles; `OutInv` turns what it saw into what `UpdateAfterOriginal` says of the entries.

### Only model-checked, and why

* Every liveness property (`EventuallyEnqueued`, `EventuallyRemoved`, `ExpiredRemoved`, `EventuallyDone`):
  the prover cannot reason about fairness.
* The properties of the three findings (`EveryRetryWaits`, `KillIsFinal`, and `QueuedForAll` with the soft
  time limit), which the code does not have.

## 6. Plan

Every invariant and action property of a passing run is stated by a theorem. To prove next: the
same under weaker hypotheses, for example the order of versions when some are scheduled
(`Plain` in `VersionsInSequence` excludes all scheduling).

To model next: `Sequences`, the counter with its wrap and concurrent callers; `EveBackend`, the
mirror of mongo in elastic; the matching of subscribers by products and content filters;
the scheduled tasks of templates and rundowns.

## 7. Not modelled

Formatting and parsing, network and file input and output, reference data, privileges and
queries. They keep no protocol state; where they can fail in the middle of a protocol,
the failure is a nondeterministic outcome of the step that calls them. What is left out of
a module is said in its section above, and what is left out of a component in its note in
`PROJECT.json`.
