------------------------------ MODULE Workflow ------------------------------
(***************************************************************************)
(* The editorial life of articles and of a package that contains them: the *)
(* workflow states, the entries of the published collection, updates       *)
(* (rewrites) of a story, corrections, spiking and the links of a package. *)
(* Every request is one step: the races between requests and the           *)
(* publishing tasks are the subject of Enqueue and Transmit.  What is hard *)
(* here is the order in which users may send the requests.                 *)
(*                                                                         *)
(* fetched and routed articles behave as submitted ones.  The nested       *)
(* corrections of a package that one request causes are one entry.         *)
(***************************************************************************)
EXTENDS Naturals, Sequences, FiniteSets

CONSTANTS Articles,    \* the articles
          Package,     \* the package, a composite item
          Nobody,      \* no article
          Slots,       \* times an article may be scheduled for
          MaxEntries,  \* bound: entries of one item in the published collection
          MaxRequests  \* bound: requests of one behaviour

Items == Articles \cup {Package}

ASSUME WorkflowAssumption ==
  /\ Package \notin Articles /\ Nobody \notin Items
  /\ Slots \subseteq Nat \ {0} /\ MaxEntries \in Nat \ {0} /\ MaxRequests \in Nat

VARIABLES
  state,       \* the archive state of each item, "absent" before it is created
  revert,      \* revert_state: the state a spiked item goes back to
  amended,     \* whether the item has a correction_sequence
  published,   \* the item's entries in the published collection, oldest first
  rewriteOf,   \* rewrite_of: the story the article updates
  rewrittenBy, \* rewritten_by: the update of the article
  story,       \* event_id: the articles that share the article's event
  groups,      \* the articles the package refers to
  deleted,     \* deleted_groups: what a spiked package referred to
  linked,      \* the articles whose linked_in_packages names the package
  odd,         \* ghost: the irregular steps taken so far
  requests     \* bound: the requests made so far

vars == <<state, revert, amended, published, rewriteOf, rewrittenBy, story, groups, deleted,
          linked, odd, requests>>
links == <<rewriteOf, rewrittenBy, story>>
package == <<groups, deleted, linked>>

PublishStates == {"published", "scheduled", "corrected", "killed", "recalled", "unpublished",
                  "being_corrected"}
ArchiveStates == {"absent", "draft", "submitted", "in_progress", "spiked", "correction"}
                   \cup (PublishStates \ {"being_corrected"})

\* The states in which each action of the workflow is valid.
Valid ==
  [save       |-> {"draft", "submitted", "scheduled", "unpublished"},
   submit     |-> {"draft", "submitted", "in_progress", "published", "scheduled", "unpublished",
                   "correction"},
   assign     |-> ArchiveStates \ {"absent", "spiked", "published", "scheduled", "killed"},
   duplicate  |-> ArchiveStates \ {"absent", "spiked", "killed", "recalled"},
   publish    |-> {"submitted", "in_progress", "scheduled", "unpublished", "correction"},
   correct    |-> {"published", "corrected", "correction"},
   correction |-> {"published", "correction", "corrected"},
   kill       |-> {"published", "scheduled", "corrected", "correction"},
   rewrite    |-> ArchiveStates \ {"absent", "killed", "spiked", "scheduled"},
   spike      |-> ArchiveStates \ {"absent", "spiked", "published", "scheduled", "corrected",
                                   "killed"}]

Entry == [state : PublishStates, last : BOOLEAN, amended : BOOLEAN, due : Slots \cup {0}]

----------------------------------------------------------------------------
(* Creating, saving and moving. *)

\* Give article a an event of its own.
OwnStory(a) == [b \in Articles |-> IF b = a THEN {a} ELSE story[b] \ {a}]
\* Article b joins the event of article a.
JoinStory(a, b) ==
  LET joined == (story[a] \ {b}) \cup {b}
  IN [c \in Articles |-> IF c \in joined THEN joined ELSE story[c] \ {b}]

Create(a) ==
  /\ state[a] = "absent"
  /\ state' = [state EXCEPT ![a] = "draft"]
  /\ UNCHANGED <<revert, amended, published, links, package, odd>>

Fetch(a) ==
  /\ state[a] = "absent"
  /\ state' = [state EXCEPT ![a] = "submitted"]
  /\ UNCHANGED <<revert, amended, published, links, package, odd>>

\* duplicate_content removes the links, the lock and the schedule but keeps the
\* correction sequence.
Duplicate(a, b) ==
  /\ state[a] \in Valid.duplicate /\ state[b] = "absent"
  /\ state' = [state EXCEPT ![b] = "submitted"]
  /\ amended' = [amended EXCEPT ![b] = amended[a]]
  /\ UNCHANGED <<revert, published, links, package, odd>>

\* The state update_state gives an item that is saved; saving is refused where it
\* is not defined.
Savable(s) == s \in Valid.save \cup {"in_progress", "correction"}
Saved(s) == IF s \in {"in_progress", "scheduled", "correction"} THEN s ELSE "in_progress"

Save(a) ==
  /\ Savable(state[a])
  /\ state' = [state EXCEPT ![a] = Saved(@)]
  /\ UNCHANGED <<revert, amended, published, links, package, odd>>

Move(i) ==
  /\ state[i] \in Valid.submit
  /\ state' = [state EXCEPT ![i] = IF @ \in {"published", "scheduled", "killed", "recalled",
                                            "correction"} THEN @ ELSE "submitted"]
  /\ UNCHANGED <<revert, amended, published, links, package, odd>>

\* A change of desk through the tasks endpoint.
Assign(i) ==
  /\ state[i] \in Valid.assign
  /\ state' = [state EXCEPT ![i] = "submitted"]
  /\ UNCHANGED <<revert, amended, published, links, package, odd>>

----------------------------------------------------------------------------
(* Publishing. *)

Room(i) == Len(published[i]) < MaxEntries
OldKept(es) == es
Old(es) == [k \in DOMAIN es |-> [es[k] EXCEPT !.last = FALSE]]
Post(es, s, am, d) == Append(Old(es), [state |-> s, last |-> TRUE, amended |-> am, due |-> d])
DueOf(a) == published[a][Len(published[a])].due

\* Some of the articles are there from the start, fetched or published.
Init ==
  /\ state \in [Items -> {"absent", "submitted", "published"}] /\ state[Package] = "absent"
  /\ revert = [i \in Items |-> "absent"]
  /\ amended = [i \in Items |-> FALSE]
  /\ published = [i \in Items |-> IF state[i] = "published"
                                  THEN Post(<<>>, "published", FALSE, 0) ELSE <<>>]
  /\ rewriteOf = [a \in Articles |-> Nobody]
  /\ rewrittenBy = [a \in Articles |-> Nobody]
  /\ story = [a \in Articles |-> {a}]
  /\ groups = {} /\ deleted = {} /\ linked = {}
  /\ odd = {} /\ requests = 0

\* The update of a has not been published; its original has been, or will be before slot t.
NotOvertaken(a, st) == rewrittenBy[a] # Nobody => st[rewrittenBy[a]] \notin PublishStates
OriginalOutAnytime(a, st, t) ==
  LET o == rewriteOf[a]
  IN o # Nobody => /\ st[o] \in PublishStates
                   /\ st[o] = "scheduled" => t # 0
OriginalOut(a, st, t) ==
  LET o == rewriteOf[a]
  IN o # Nobody => /\ st[o] \in PublishStates
                   /\ st[o] = "scheduled" => t # 0 /\ DueOf(o) < t
Publishable(a, st, t) ==
  st[a] \in Valid.publish /\ NotOvertaken(a, st) /\ OriginalOut(a, st, t)

\* The articles of U are published one after the other, up to the first that is
\* refused: D are those that were.
Wave(U, st, D) ==
  LET sent == [i \in Items |-> IF i \in D THEN "published" ELSE st[i]]
  IN /\ \A d \in D : st[d] \in Valid.publish /\ NotOvertaken(d, st) /\ OriginalOut(d, sent, 0)
     /\ D # U => \E u \in U \ D : ~Publishable(u, sent, 0)

Unpublished(S, st) == {a \in S : st[a] \notin PublishStates}
Live(s) == s \in {"published", "corrected"}

\* Items in D are published, and package p becomes s if `done` holds.
Entries(es, D, done, s, am) ==
  [i \in Items |-> IF i \in D THEN Post(es[i], "published", amended[i], 0)
                   ELSE IF i = Package /\ done THEN Post(es[i], s, am, 0) ELSE es[i]]
States(st, D, done, s) ==
  [i \in Items |-> IF i \in D THEN "published" ELSE IF i = Package /\ done THEN s ELSE st[i]]

\* Article a goes out as s: the new entry becomes the last one, the archive follows, and
\* on_updated corrects the package if it is live, which publishes the articles of the
\* package that are not published.
Release(a, s, am, d, es) ==
  LET st   == [state EXCEPT ![a] = s]
      live == a \in groups /\ Live(state[Package])
      U    == IF live THEN Unpublished(groups, st) ELSE {}
  IN /\ Room(a) /\ \A i \in U : Room(i)
     /\ live => Room(Package)
     /\ \E D \in SUBSET U :
          /\ Wave(U, st, D)
          /\ state' = States(st, D, live /\ D = U, "corrected")
          /\ published' = Entries([published EXCEPT ![a] = Post(es, s, am, d)], D,
                                  live /\ D = U, "corrected", TRUE)
          /\ amended' = [amended EXCEPT ![a] = am, ![Package] = @ \/ (live /\ D = U)]
          /\ odd' = IF state[a] = "scheduled" THEN odd \cup {"withdrawn"} ELSE odd

Publish(a) ==
  /\ state[a] # "scheduled" /\ Publishable(a, state, 0)
  /\ Release(a, "published", amended[a], 0, published[a])
  /\ UNCHANGED <<revert, links, package>>

Schedule(a, t) ==
  /\ state[a] # "scheduled" /\ Publishable(a, state, t)
  /\ Release(a, "scheduled", amended[a], t, published[a])
  /\ UNCHANGED <<revert, links, package>>

\* A save that names the schedule of a scheduled article takes it, and every entry it ever
\* had, out of the published collection.
DescheduleKeepsEntries(a) ==
  /\ state[a] = "scheduled"
  /\ state' = [state EXCEPT ![a] = "in_progress"]
  /\ odd' = odd \cup {"descheduled"}
  /\ UNCHANGED <<revert, amended, published, links, package>>
Deschedule(a) ==
  /\ state[a] = "scheduled"
  /\ state' = [state EXCEPT ![a] = "in_progress"]
  /\ published' = [published EXCEPT ![a] = <<>>]
  /\ odd' = odd \cup {"descheduled"}
  /\ UNCHANGED <<revert, amended, links, package>>

\* enqueue_item publishes a scheduled entry when it is due.
Pending(a) == {k \in DOMAIN published[a] : published[a][k].state = "scheduled"}
Due(a) ==
  \E k \in Pending(a) :
    /\ \A b \in Articles : \A m \in Pending(b) : published[a][k].due <= published[b][m].due
    /\ state' = [state EXCEPT ![a] = "published"]
    /\ published' = [published EXCEPT ![a][k].state = "published"]
    /\ UNCHANGED <<revert, amended, links, package, odd>>

BeingCorrected(i) == {k \in DOMAIN published[i] : published[i][k].state = "being_corrected"}
Restore(i, k) ==
  [published[i] EXCEPT ![k].state = IF published[i][k].amended THEN "corrected" ELSE "published"]
\* What change_being_corrected_to_published leaves; without such an entry the request fails.
Restored(i) ==
  IF state[i] = "correction" THEN {Restore(i, k) : k \in BeingCorrected(i)} ELSE {published[i]}

Correct(a) ==
  /\ state[a] \in Valid.correct
  /\ \E es \in Restored(a) : Release(a, "corrected", TRUE, 0, es)
  /\ UNCHANGED <<revert, links, package>>

\* A correction is written beside the published entry, which is marked: the last corrected
\* one, or whichever entry with the item's guid the database returns first.
ToCorrect(i) ==
  IF state[i] = "corrected"
  THEN {k \in DOMAIN published[i] : published[i][k].state = "corrected" /\ published[i][k].amended}
  ELSE DOMAIN published[i]

CreateCorrection(i) ==
  /\ state[i] \in Valid.correction
  /\ \E k \in ToCorrect(i) :
       /\ state[i] = "corrected" => \A m \in ToCorrect(i) : m <= k
       /\ published' = [published EXCEPT ![i][k].state = "being_corrected"]
  /\ state' = [state EXCEPT ![i] = "correction"]
  /\ UNCHANGED <<revert, amended, links, package, odd>>

CancelForgetsArchive(i) ==
  /\ state[i] \in Valid.correction
  /\ \E k \in BeingCorrected(i) : published' = [published EXCEPT ![i] = Restore(i, k)]
  /\ UNCHANGED <<state, revert, amended, links, package, odd>>
CancelCorrection(i) ==
  /\ state[i] \in Valid.correction
  /\ \E k \in BeingCorrected(i) : published' = [published EXCEPT ![i] = Restore(i, k)]
  /\ state' = [state EXCEPT ![i] = IF amended[i] THEN "corrected" ELSE "published"]
  /\ UNCHANGED <<revert, amended, links, package, odd>>

\* Kill and take down are refused while a package that is not dead itself refers to the
\* article; unpublish is not.
Dead == {"killed", "recalled"}
WithdrawUnchecked(a, s) ==
  /\ state[a] \in Valid.kill
  /\ Release(a, s, amended[a], 0, published[a])
  /\ UNCHANGED <<revert, links, package>>
Withdraw(a, s) ==
  /\ state[a] \in Valid.kill
  /\ s \in Dead /\ a \in groups => state[Package] \in Dead \cup {"unpublished"}
  /\ Release(a, s, amended[a], 0, published[a])
  /\ UNCHANGED <<revert, links, package>>

Kill(a) == Withdraw(a, "killed")
TakeDown(a) == Withdraw(a, "recalled")
Unpublish(a) == Withdraw(a, "unpublished")

----------------------------------------------------------------------------
(* Updates of a story. *)

Rewritable(a) ==
  /\ state[a] \in Valid.rewrite /\ rewrittenBy[a] = Nobody
  /\ rewriteOf[a] # Nobody => state[a] \in PublishStates

LinkRewrite(a, b) ==
  /\ rewriteOf' = [rewriteOf EXCEPT ![b] = a]
  /\ rewrittenBy' = [rewrittenBy EXCEPT ![a] = b]
  /\ story' = JoinStory(a, b)

Rewrite(a, b) ==
  /\ Rewritable(a) /\ state[b] = "absent"
  /\ LinkRewrite(a, b)
  /\ state' = [state EXCEPT ![b] = "in_progress"]
  /\ UNCHANGED <<revert, amended, published, package, odd>>

\* Article b, which exists, becomes the update of a.
Associate(a, b) ==
  /\ a # b /\ Rewritable(a)
  /\ state[b] \notin {"published", "corrected", "killed", "recalled", "scheduled", "spiked"}
  /\ Savable(state[b]) /\ rewriteOf[b] = Nobody
  /\ LinkRewrite(a, b)
  /\ state' = [state EXCEPT ![b] = "in_progress"]
  /\ odd' = odd \cup (IF published[b] # <<>> THEN {"associated"} ELSE {})
               \cup (IF rewrittenBy[b] # Nobody THEN {"chained"} ELSE {})
  /\ UNCHANGED <<revert, amended, published, package>>

\* update_rewrite: whoever of b's event is rewritten by b no longer is, and the update of b
\* is one no longer.
ClearedIfOut(b) ==
  [a \in Articles |-> IF rewriteOf[b] # Nobody /\ a \in story[b] /\ rewrittenBy[a] = b
                        /\ published[a] # <<>>
                      THEN Nobody ELSE rewrittenBy[a]]
Cleared(b) ==
  [a \in Articles |-> IF rewriteOf[b] # Nobody /\ a \in story[b] /\ rewrittenBy[a] = b
                      THEN Nobody ELSE rewrittenBy[a]]
Orphaned(b) ==
  [c \in Articles |-> IF c = rewrittenBy[b] THEN Nobody ELSE rewriteOf[c]]

Unlink(b) ==
  /\ rewriteOf[b] # Nobody
  /\ rewriteOf' = [Orphaned(b) EXCEPT ![b] = Nobody]
  /\ rewrittenBy' = Cleared(b)
  /\ story' = OwnStory(b)
  /\ odd' = IF rewrittenBy[b] # Nobody THEN odd \cup {"unlinked"} ELSE odd
  /\ UNCHANGED <<state, revert, amended, published, package>>

----------------------------------------------------------------------------
(* Spiking. *)

\* Saving the package without a spiked article is refused when the package is out.
Dropped(i) == IF i \in groups /\ Savable(state[Package]) THEN {i} ELSE {}

Spike(a) ==
  /\ a \notin linked /\ state[a] \in Valid.spike
  /\ rewriteOf' = [Orphaned(a) EXCEPT ![a] = Nobody]
  /\ rewrittenBy' = [Cleared(a) EXCEPT ![a] = Nobody]
  /\ story' = OwnStory(a)
  /\ revert' = [revert EXCEPT ![a] = state[a]]
  /\ groups' = groups \ Dropped(a)
  /\ state' = [i \in Items |-> IF i = a THEN "spiked"
                               ELSE IF i = Package /\ Dropped(a) # {} THEN Saved(state[i])
                               ELSE state[i]]
  /\ linked' = IF Dropped(a) # {} THEN linked \cup groups' ELSE linked
  /\ UNCHANGED <<amended, published, deleted, odd>>

\* The spike of an article that is out fails, after it has unlinked the article's updates.
SpikeRefused(a) ==
  /\ a \notin linked /\ state[a] \notin Valid.spike \cup {"absent"}
  /\ Cleared(a) # rewrittenBy \/ Orphaned(a) # rewriteOf
  /\ rewriteOf' = Orphaned(a) /\ rewrittenBy' = Cleared(a)
  /\ odd' = odd \cup {"refused"}
  /\ UNCHANGED <<state, revert, amended, published, story, package>>

Unspike(a) ==
  /\ state[a] = "spiked"
  /\ state' = [state EXCEPT ![a] = revert[a]]
  /\ revert' = [revert EXCEPT ![a] = "absent"]
  /\ UNCHANGED <<amended, published, links, package, odd>>

----------------------------------------------------------------------------
(* The package. *)

\* What the client offers for a package: articles that exist and are not dead.
Offered == {a \in Articles : state[a] \notin {"absent", "spiked"} \cup Dead}
LinkedOnly(G) == linked \cup G
Linked(G) == (linked \ (groups \ G)) \cup G

CreatePackage(G) ==
  /\ state[Package] = "absent"
  /\ state' = [state EXCEPT ![Package] = "draft"]
  /\ groups' = G /\ linked' = linked \cup G
  /\ UNCHANGED <<revert, amended, published, links, deleted, odd>>

EditPackage(G) ==
  /\ Savable(state[Package]) /\ G # groups
  /\ state' = [state EXCEPT ![Package] = Saved(@)]
  /\ groups' = G /\ linked' = Linked(G)
  /\ UNCHANGED <<revert, amended, published, links, deleted, odd>>

\* Before package p goes out its unpublished articles do; the first one that is refused
\* stops the request, and those before it stay published.
SendPackage(items, s, am, base, after) ==
  LET U == Unpublished(items, state)
  IN /\ Room(Package) /\ \A i \in U : Room(i)
     /\ \E D \in SUBSET U :
          LET nested == Live(state[Package]) /\ D \cap groups # {} /\ U \cap groups \subseteq D
              done   == D = U
              as     == IF done THEN s ELSE "corrected"
          IN /\ Wave(U, state, D)
             /\ state' = States(state, D, done \/ nested, as)
             /\ published' = Entries([published EXCEPT ![Package] = base], D, done \/ nested, as,
                                     IF done THEN am ELSE TRUE)
             /\ amended' = [amended EXCEPT ![Package] = IF done THEN am ELSE @ \/ nested]
             /\ groups' = IF done THEN after ELSE groups
             /\ linked' \in LET told == {i \in items : i \notin U}
                                 all  == (linked \ (told \ after)) \cup (told \cap (after \ groups))
                             IN IF done THEN {all} ELSE {linked, all}
             /\ odd' = IF done /\ U \subseteq groups \cap after THEN odd ELSE odd \cup {"miscorrected"}

PublishPackage ==
  /\ state[Package] \in Valid.publish \ {"scheduled"} /\ groups # {}
  /\ \A i \in groups : state[i] \notin Dead \cup {"spiked", "scheduled"}
  /\ SendPackage(groups, "published", amended[Package], published[Package], groups)
  /\ UNCHANGED <<revert, links, deleted>>

CorrectPackage(G) ==
  /\ state[Package] \in Valid.correct
  /\ groups # {} \/ G # {}
  /\ ~(G = {} /\ groups # {})
  /\ \E es \in Restored(Package) : SendPackage(groups \cup G, "corrected", TRUE, es, G)
  /\ UNCHANGED <<revert, links, deleted>>

WithdrawPackage(s) ==
  /\ state[Package] \in Valid.kill
  /\ SendPackage(groups, s, amended[Package], published[Package], groups)
  /\ UNCHANGED <<revert, links, deleted>>

SpikePackage ==
  /\ state[Package] \in Valid.spike
  /\ state' = [state EXCEPT ![Package] = "spiked"]
  /\ revert' = [revert EXCEPT ![Package] = state[Package]]
  /\ deleted' = groups /\ groups' = {} /\ linked' = linked \ groups
  /\ UNCHANGED <<amended, published, links, odd>>

UnspikePackage ==
  /\ state[Package] = "spiked"
  /\ state' = [state EXCEPT ![Package] = revert[Package]]
  /\ revert' = [revert EXCEPT ![Package] = "absent"]
  /\ groups' = deleted /\ deleted' = {} /\ linked' = linked \cup deleted
  /\ odd' = IF \E i \in deleted : state[i] \in Dead \cup {"spiked"} THEN odd \cup {"revived"} ELSE odd
  /\ UNCHANGED <<amended, published, links>>

----------------------------------------------------------------------------
ArticleRequest(a) ==
  \/ Create(a) \/ Fetch(a) \/ Save(a) \/ Publish(a) \/ Deschedule(a) \/ Due(a) \/ Correct(a)
  \/ Kill(a) \/ TakeDown(a) \/ Unpublish(a) \/ Unlink(a) \/ Spike(a) \/ SpikeRefused(a) \/ Unspike(a)
  \/ \E t \in Slots : Schedule(a, t)
  \/ \E b \in Articles : Duplicate(a, b) \/ Rewrite(a, b) \/ Associate(a, b)

PackageRequest ==
  \/ PublishPackage \/ SpikePackage \/ UnspikePackage
  \/ \E G \in SUBSET Offered : CreatePackage(G)
  \/ \E D \in SUBSET (Offered \ groups), K \in SUBSET groups :
       EditPackage(K \cup D) \/ CorrectPackage(K \cup D)
  \/ \E s \in Dead \cup {"unpublished"} : WithdrawPackage(s)

Next ==
  /\ requests < MaxRequests /\ requests' = requests + 1
  /\ \/ \E a \in Articles : ArticleRequest(a)
     \/ \E i \in Items : Move(i) \/ Assign(i) \/ CreateCorrection(i) \/ CancelCorrection(i)
     \/ PackageRequest

Spec == Init /\ [][Next]_vars

----------------------------------------------------------------------------
(* Properties.  The irregular steps that break one are named in it; README says how each
   comes about. *)

Regularly(steps) == odd \cap steps = {}

\* The archive documents and the published entries have the shape the code gives them, and
\* the states are those of the workflow.
TypeOK ==
  /\ state \in [Items -> ArchiveStates] /\ revert \in [Items -> ArchiveStates]
  /\ amended \in [Items -> BOOLEAN]
  /\ published \in [Items -> Seq(Entry)]
  /\ rewriteOf \in [Articles -> Articles \cup {Nobody}]
  /\ rewrittenBy \in [Articles -> Articles \cup {Nobody}]
  /\ story \in [Articles -> SUBSET Articles]
  /\ groups \subseteq Articles /\ deleted \subseteq Articles /\ linked \subseteq Articles
  /\ requests \in 0..MaxRequests

\* Whatever is published, corrected, descheduled, withdrawn or swept along with a package,
\* the newest entry of an item and no other is its last published version.
LastVersion ==
  \A i \in Items : \A k \in DOMAIN published[i] :
    published[i][k].last <=> k = Len(published[i])

\* rewrite_of and rewritten_by name each other through rewrites, associations, unlinks and
\* spikes, unless an update was unlinked from the middle of a chain, a spike was refused, or
\* an article with an update of its own was associated as an update.
LinksAgree ==
  Regularly({"unlinked", "refused", "chained"}) =>
    \A a, b \in Articles : rewrittenBy[a] = b <=> rewriteOf[b] = a

\* No version of an update has gone out unless something of its original has, and one that
\* waits for its time waits for a later one than something of the original: whichever of the
\* two was scheduled, rescheduled, withdrawn or taken along by a package.  A descheduled
\* original breaks that, and an article that was out before it was associated as an update.
Versions(a) == {k \in DOMAIN published[a] :
                  published[a][k].state \in {"published", "corrected", "being_corrected"}}
Out(a) == DOMAIN published[a] \ Pending(a)
Before(a, t) == Out(a) # {} \/ \E k \in Pending(a) : published[a][k].due < t

UpdateAfterOriginal ==
  Regularly({"descheduled", "associated"}) =>
    \A a, b \in Articles : rewriteOf[b] = a =>
      /\ Versions(b) # {} => Out(a) # {}
      /\ \A k \in Pending(b) : Before(a, published[b][k].due)

\* An entry that waits for its time belongs to an article that is still scheduled, unless it
\* was killed, taken down or unpublished while it waited: nothing that an editor has taken
\* back goes out on its own.
PendingScheduled ==
  Regularly({"withdrawn"}) => \A a \in Articles : Pending(a) # {} => state[a] = "scheduled"

\* A correction in progress has its marked entry, without which it could be neither
\* published nor cancelled, unless the correction of a package failed halfway: by then the
\* entry is restored.
CorrectionCanEnd ==
  \A i \in Items : state[i] = "correction" /\ (i = Package => Regularly({"miscorrected"})) =>
    BeingCorrected(i) # {}

\* The package's groups and the articles' linked_in_packages agree, unless a package was
\* corrected to take in or drop an article that was not out, or its publication failed
\* halfway.
PackageLinks == Regularly({"miscorrected"}) => groups = linked

\* No package that is out refers to an article that is killed, taken down or spiked, unless
\* its links are wrong or it was unspiked.
NothingDeadInPackage ==
  Regularly({"revived", "miscorrected"}) /\ Live(state[Package]) =>
    \A a \in groups : state[a] \notin Dead \cup {"spiked"}

=============================================================================
