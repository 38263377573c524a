--------------------------- MODULE WorkflowProofs ---------------------------
(***************************************************************************)
(* Proofs about Workflow, for any articles, schedules, numbers of entries  *)
(* and sequences of requests.  What a request does to one item is a Fate:  *)
(* the invariants about states and entries are proved from the fates, those*)
(* about updates and the package from the requests that change them.       *)
(***************************************************************************)
EXTENDS Workflow, TLAPS

-----------------------------------------------------------------------------
(* Sequences of entries. *)

\* The new entry is the last one of a longer sequence, whose others are as before but
\* for the flag.
LEMMA PostFacts ==
  ASSUME NEW es \in Seq(Entry), NEW s \in PublishStates, NEW am \in BOOLEAN,
         NEW d \in Slots \cup {0}
  PROVE  /\ Post(es, s, am, d) \in Seq(Entry)
         /\ Len(Post(es, s, am, d)) = Len(es) + 1
         /\ Post(es, s, am, d)[Len(es) + 1] = [state |-> s, last |-> TRUE, amended |-> am, due |-> d]
         /\ \A k \in 1..Len(es) :
              /\ Post(es, s, am, d)[k].state = es[k].state
              /\ Post(es, s, am, d)[k].due = es[k].due
              /\ Post(es, s, am, d)[k].last = FALSE
<1> DEFINE new == [state |-> s, last |-> TRUE, amended |-> am, due |-> d]
<1>1. new \in Entry
  BY DEF Entry
<1>2. \A e \in Entry : /\ [e EXCEPT !.last = FALSE] \in Entry
                       /\ [e EXCEPT !.last = FALSE].state = e.state
                       /\ [e EXCEPT !.last = FALSE].due = e.due
                       /\ [e EXCEPT !.last = FALSE].last = FALSE
  BY DEF Entry
<1>3. \A k \in 1..Len(es) : es[k] \in Entry
  OBVIOUS
<1>4. /\ Old(es) \in Seq(Entry) /\ Len(Old(es)) = Len(es)
      /\ \A k \in 1..Len(es) : Old(es)[k] = [es[k] EXCEPT !.last = FALSE]
  <2>1. DOMAIN es = 1..Len(es) /\ Len(es) \in Nat
    OBVIOUS
  <2>2. Old(es) \in [1..Len(es) -> Entry]
    BY <1>2, <1>3, <2>1 DEF Old
  <2>3. QED
    BY <2>1, <2>2 DEF Old
<1> HIDE DEF new
<1>5. Post(es, s, am, d) = Append(Old(es), new)
  BY DEF Post, new
<1>6. /\ Append(Old(es), new) \in Seq(Entry)
      /\ Len(Append(Old(es), new)) = Len(es) + 1
      /\ Append(Old(es), new)[Len(es) + 1] = new
      /\ \A k \in 1..Len(es) : Append(Old(es), new)[k] = Old(es)[k]
  BY <1>1, <1>4
<1>7. ASSUME NEW k \in 1..Len(es)
      PROVE  /\ Post(es, s, am, d)[k].state = es[k].state
             /\ Post(es, s, am, d)[k].due = es[k].due
             /\ Post(es, s, am, d)[k].last = FALSE
  <2>1. Post(es, s, am, d)[k] = [es[k] EXCEPT !.last = FALSE] /\ es[k] \in Entry
    BY <1>3, <1>4, <1>5, <1>6
  <2>2. QED
    BY <2>1, <1>2, Zenon
<1>8. QED
  BY <1>5, <1>6, <1>7 DEF new

LEMMA PostDue ==
  ASSUME NEW es \in Seq(Entry), NEW s \in PublishStates, NEW am \in BOOLEAN,
         NEW d \in Slots \cup {0}
  PROVE  Post(es, s, am, d)[Len(Post(es, s, am, d))].due = d
<1>1. /\ Len(Post(es, s, am, d)) = Len(es) + 1
      /\ Post(es, s, am, d)[Len(es) + 1] = [state |-> s, last |-> TRUE, amended |-> am, due |-> d]
  BY PostFacts
<1>2. QED
  BY <1>1

\* Changing the state of an entry changes nothing else.
Labelled(es, k, s) == [es EXCEPT ![k].state = s]

LEMMA LabelFacts ==
  ASSUME NEW es \in Seq(Entry), NEW k \in DOMAIN es, NEW s \in PublishStates
  PROVE  /\ Labelled(es, k, s) \in Seq(Entry)
         /\ Len(Labelled(es, k, s)) = Len(es)
         /\ DOMAIN Labelled(es, k, s) = DOMAIN es
         /\ Labelled(es, k, s)[k].state = s
         /\ \A m \in DOMAIN es : /\ Labelled(es, k, s)[m].last = es[m].last
                                 /\ Labelled(es, k, s)[m].due = es[m].due
                                 /\ m # k => Labelled(es, k, s)[m] = es[m]
<1>1. DOMAIN es = 1..Len(es) /\ Len(es) \in Nat /\ es \in [1..Len(es) -> Entry]
  OBVIOUS
<1>2. [es[k] EXCEPT !.state = s] \in Entry
  BY <1>1 DEF Entry
<1>3. /\ [es[k] EXCEPT !.state = s].state = s /\ [es[k] EXCEPT !.state = s].last = es[k].last
      /\ [es[k] EXCEPT !.state = s].due = es[k].due
  BY <1>1 DEF Entry
<1> DEFINE r == [es EXCEPT ![k] = [es[k] EXCEPT !.state = s]]
<1>4. Labelled(es, k, s) = r
  BY DEF Labelled
<1>5. r \in [1..Len(es) -> Entry] /\ r[k] = [es[k] EXCEPT !.state = s]
      /\ \A m \in DOMAIN es : m # k => r[m] = es[m]
  BY <1>1, <1>2
<1> HIDE DEF r
<1>6. r \in Seq(Entry) /\ Len(r) = Len(es) /\ DOMAIN r = DOMAIN es
  BY <1>1, <1>5
<1>7. QED
  BY <1>3, <1>4, <1>5, <1>6

-----------------------------------------------------------------------------
(* What a request does to an item. *)

\* The entries a new one is posted after: those of the item, where a correction ends
\* with its mark removed.
Base(i) == {published[i]} \cup {Restore(i, k) : k \in BeingCorrected(i)}

Kept(i) ==
  state'[i] = state[i] /\ revert'[i] = revert[i] /\ published'[i] = published[i]

Written(i) ==
  /\ state[i] \notin {"spiked", "scheduled"}
  /\ state'[i] \in {"draft", "submitted", "in_progress"}
  /\ revert'[i] = revert[i] /\ published'[i] = published[i]

\* The original of an article that goes out is out or, if the article is to wait, waits for
\* an earlier time.
OriginalReady(a) ==
  LET o == rewriteOf[a]
  IN o # Nobody => \/ state[o] \in PublishStates \ {"scheduled"}
                   \/ state'[o] \in PublishStates \ {"scheduled"}
                   \/ /\ state'[a] = "scheduled" /\ state[o] = "scheduled"
                      /\ DueOf(o) < published'[a][Len(published'[a])].due

Posted(i) ==
  /\ state[i] \notin {"absent", "spiked"}
  /\ state'[i] \in PublishStates \ {"being_corrected"}
  /\ revert'[i] = revert[i]
  /\ \E es \in Base(i), am \in BOOLEAN, d \in Slots \cup {0} :
       published'[i] = Post(es, state'[i], am, d)
  /\ i \in Articles =>
       /\ state[i] = "scheduled" => "withdrawn" \in odd'
       /\ \/ state[i] \in Valid.correct /\ state'[i] # "scheduled"
          \/ state'[i] \in Dead \cup {"unpublished"}
          \/ OriginalReady(i)
  /\ UNCHANGED links

Descheduled(i) ==
  /\ state'[i] = "in_progress" /\ published'[i] = <<>> /\ revert'[i] = revert[i]
  /\ state[i] = "scheduled" /\ "descheduled" \in odd'

Issued(i) ==
  /\ state'[i] = "published" /\ revert'[i] = revert[i]
  /\ \E k \in Pending(i) :
       /\ published'[i] = Labelled(published[i], k, "published")
       /\ \A c \in Articles : \A m \in Pending(c) : published[i][k].due <= published[c][m].due

Marked(i) ==
  /\ state[i] \in Valid.correction /\ state'[i] = "correction" /\ revert'[i] = revert[i]
  /\ \E k \in DOMAIN published[i] :
       published'[i] = Labelled(published[i], k, "being_corrected")

Cancelled(i) ==
  /\ state[i] \in Valid.correction /\ state'[i] \in {"corrected", "published"}
  /\ revert'[i] = revert[i]
  /\ \E k \in BeingCorrected(i) : published'[i] = Restore(i, k)

Shelved(i) ==
  /\ state[i] \in Valid.spike /\ state'[i] = "spiked" /\ revert'[i] = state[i]
  /\ published'[i] = published[i]

Unshelved(i) ==
  /\ state[i] = "spiked" /\ state'[i] = revert[i] /\ revert'[i] = "absent"
  /\ published'[i] = published[i]

Failed(i) ==
  /\ i = Package /\ "miscorrected" \in odd'
  /\ state'[i] = state[i] /\ revert'[i] = revert[i] /\ published'[i] \in Base(i)

Fate(i) ==
  \/ Kept(i) \/ Written(i) \/ Posted(i) \/ Descheduled(i) \/ Issued(i) \/ Marked(i)
  \/ Cancelled(i) \/ Shelved(i) \/ Unshelved(i) \/ Failed(i)

Fates == \A i \in Items : Fate(i)

\* The types, but for the bound on requests.
Types ==
  /\ state \in [Items -> ArchiveStates] /\ revert \in [Items -> ArchiveStates]
  /\ amended \in [Items -> BOOLEAN]
  /\ published \in [Items -> Seq(Entry)]
  /\ rewriteOf \in [Articles -> Articles \cup {Nobody}]
  /\ rewrittenBy \in [Articles -> Articles \cup {Nobody}]
  /\ story \in [Articles -> SUBSET Articles]
  /\ groups \subseteq Articles /\ deleted \subseteq Articles /\ linked \subseteq Articles

\* What a request that is not about the package may do to it and to the articles in it.
QuietPackage ==
  /\ state'[Package] \in Valid.correct => state[Package] \in Valid.correct
  /\ state'[Package] \in {"absent", "spiked"} => state'[Package] = state[Package]
NoNewDead ==
  \A c \in Articles :
    state'[c] \in Dead \cup {"spiked"} =>
      \/ state[c] \in Dead \cup {"spiked"} \/ c \notin groups
      \/ state[Package] \in Dead \cup {"unpublished"}

LEMMA Kinds ==
  /\ Package \in Items /\ Package \notin Articles /\ Nobody \notin Articles
  /\ \A a \in Articles : a \in Items /\ a # Package
BY WorkflowAssumption DEF Items

\* The requests that write a state and nothing else.
Editing(a) ==
  Create(a) \/ Fetch(a) \/ Save(a) \/ Unspike(a) \/ \E b \in Articles : Duplicate(a, b)
Moving(i) == Move(i) \/ Assign(i)

LEMMA EditingSteps ==
  ASSUME Types, NEW a \in Articles, Editing(a)
  PROVE  Types' /\ Fates /\ UNCHANGED <<links, package, odd>> /\ QuietPackage /\ NoNewDead
<1> USE Kinds DEF Types, Fates, Fate, links, package, Kept, Written, QuietPackage, NoNewDead, Dead
<1>1. CASE Create(a) \/ Fetch(a)
  BY <1>1 DEF Create, Fetch, ArchiveStates
<1>2. CASE Save(a)
  BY <1>2 DEF Save, Saved, Savable, ArchiveStates, Valid
<1>3. CASE Unspike(a)
  BY <1>3 DEF Unspike, ArchiveStates, Unshelved
<1>4. CASE \E b \in Articles : Duplicate(a, b)
  BY <1>4 DEF Duplicate, ArchiveStates, Valid
<1>5. QED
  BY <1>1, <1>2, <1>3, <1>4 DEF Editing

LEMMA MovingSteps ==
  ASSUME Types, NEW i \in Items, Moving(i)
  PROVE  Types' /\ Fates /\ UNCHANGED <<links, package, odd>> /\ QuietPackage /\ NoNewDead
<1> USE Kinds DEF Types, Fates, Fate, links, package, Kept, Written, QuietPackage, NoNewDead, Dead
<1>1. CASE Move(i)
  BY <1>1 DEF Move, ArchiveStates, Valid
<1>2. CASE Assign(i)
  BY <1>2 DEF Assign, ArchiveStates, Valid
<1>3. QED
  BY <1>1, <1>2 DEF Moving

\* Restoring a marked entry gives it a state that is neither marked nor pending.
LEMMA RestoreFacts ==
  ASSUME Types, NEW i \in Items, NEW k \in BeingCorrected(i)
  PROVE  /\ k \in DOMAIN published[i]
         /\ \E s \in {"corrected", "published"} :
              Restore(i, k) = Labelled(published[i], k, s)
<1>1. k \in DOMAIN published[i]
  BY DEF BeingCorrected
<1>2. CASE published[i][k].amended
  BY <1>1, <1>2 DEF Restore, Labelled
<1>3. CASE ~published[i][k].amended
  BY <1>1, <1>3 DEF Restore, Labelled
<1>4. QED
  BY <1>1, <1>2, <1>3

VersionStates == {"published", "corrected", "being_corrected"}

LEMMA BaseFacts ==
  ASSUME Types, NEW i \in Items, NEW es \in Base(i)
  PROVE  /\ es \in Seq(Entry) /\ Len(es) = Len(published[i]) /\ DOMAIN es = DOMAIN published[i]
         /\ \A k \in DOMAIN es : es[k].last = published[i][k].last
         /\ \A k \in DOMAIN es : es[k].due = published[i][k].due
         /\ \A k \in DOMAIN es : es[k].state = "scheduled" => published[i][k].state = "scheduled"
         /\ \A k \in DOMAIN es : es[k].state \in VersionStates <=> published[i][k].state \in VersionStates
<1>1. published[i] \in Seq(Entry)
  BY DEF Types
<1>2. CASE es = published[i]
  BY <1>1, <1>2, Zenon
<1>3. CASE es # published[i]
  <2>1. PICK k \in BeingCorrected(i) : es = Restore(i, k)
    BY <1>3 DEF Base
  <2>2. PICK s \in {"corrected", "published"} : es = Labelled(published[i], k, s)
    BY <2>1, RestoreFacts
  <2>3. k \in DOMAIN published[i] /\ s \in PublishStates
    BY RestoreFacts DEF PublishStates
  <2>4. /\ es \in Seq(Entry) /\ Len(es) = Len(published[i]) /\ DOMAIN es = DOMAIN published[i]
        /\ es[k].state = s
        /\ \A m \in DOMAIN es : /\ es[m].last = published[i][m].last
                                /\ es[m].due = published[i][m].due
                                /\ m # k => es[m] = published[i][m]
    BY <1>1, <2>2, <2>3, LabelFacts
  <2>5. ASSUME NEW m \in DOMAIN es, es[m].state = "scheduled"
        PROVE  published[i][m].state = "scheduled"
    BY <2>4, <2>5
  <2>6. ASSUME NEW m \in DOMAIN es
        PROVE  es[m].state \in VersionStates <=> published[i][m].state \in VersionStates
    <3>1. CASE m = k
      BY <2>1, <2>4, <3>1 DEF BeingCorrected, VersionStates
    <3>2. CASE m # k
      BY <2>4, <3>2
    <3>3. QED
      BY <3>1, <3>2
  <2>7. QED
    BY <2>4, <2>5, <2>6
<1>4. QED
  BY <1>2, <1>3

LEMMA RestoredBase == ASSUME NEW i \in Items PROVE Restored(i) \subseteq Base(i)
BY DEF Restored, Base

\* The requests about the entries of one item.
Marking(i) == CreateCorrection(i) \/ CancelCorrection(i)
Timing(a) == Deschedule(a) \/ Due(a)

LEMMA MarkingSteps ==
  ASSUME Types, NEW i \in Items, Marking(i)
  PROVE  Types' /\ Fates /\ UNCHANGED <<links, package, odd>> /\ QuietPackage /\ NoNewDead
<1>1. CASE CreateCorrection(i)
  <2>1. PICK k \in DOMAIN published[i] :
          published' = [published EXCEPT ![i][k].state = "being_corrected"]
    BY <1>1 DEF CreateCorrection, ToCorrect
  <2> DEFINE es == Labelled(published[i], k, "being_corrected")
  <2>2. published' = [published EXCEPT ![i] = es]
    BY <2>1 DEF Labelled
  <2>3. es \in Seq(Entry)
    BY LabelFacts DEF Types, PublishStates
  <2> HIDE DEF es
  <2>4. Types' /\ UNCHANGED <<links, package, odd, revert>>
    BY <1>1, <2>2, <2>3 DEF CreateCorrection, Types, ArchiveStates, links, package
  <2>5. /\ state' = [state EXCEPT ![i] = "correction"] /\ state[i] \in Valid.correction
    BY <1>1 DEF CreateCorrection
  <2>6. Marked(i)
    BY <2>2, <2>4, <2>5 DEF Types, Marked, es
  <2>7. \A j \in Items : j # i => Kept(j)
    BY <2>2, <2>4, <2>5 DEF Types, Kept
  <2>8. QuietPackage /\ NoNewDead
    BY <2>5 DEF Types, QuietPackage, NoNewDead, Dead, Valid
  <2>9. QED
    BY <2>4, <2>6, <2>7, <2>8 DEF Fates, Fate
<1>2. CASE CancelCorrection(i)
  <2>1. PICK k \in BeingCorrected(i) : published' = [published EXCEPT ![i] = Restore(i, k)]
    BY <1>2 DEF CancelCorrection
  <2>2. Restore(i, k) \in Seq(Entry)
    BY BaseFacts DEF Base
  <2>3. /\ state[i] \in Valid.correction /\ UNCHANGED <<links, package, odd, revert, amended>>
        /\ \E s \in {"corrected", "published"} : state' = [state EXCEPT ![i] = s]
    BY <1>2 DEF CancelCorrection
  <2>4. Types'
    BY <2>1, <2>2, <2>3 DEF Types, ArchiveStates, PublishStates, links, package
  <2>5. Cancelled(i)
    BY <2>1, <2>3 DEF Types, Cancelled
  <2>6. \A j \in Items : j # i => Kept(j)
    BY <2>1, <2>3 DEF Types, Kept
  <2>7. QuietPackage /\ NoNewDead
    BY <2>3 DEF Types, QuietPackage, NoNewDead, Dead, Valid
  <2>8. QED
    BY <2>3, <2>4, <2>5, <2>6, <2>7 DEF Fates, Fate
<1>3. QED
  BY <1>1, <1>2 DEF Marking

LEMMA TimingSteps ==
  ASSUME Types, NEW a \in Articles, Timing(a)
  PROVE  /\ Types' /\ Fates /\ UNCHANGED <<links, package>> /\ odd \subseteq odd'
         /\ QuietPackage /\ NoNewDead
<1>0. a \in Items
  BY Kinds
<1>1. CASE Deschedule(a)
  <2>1. <<>> \in Seq(Entry)
    OBVIOUS
  <2>2. Types'
    BY <1>0, <1>1, <2>1 DEF Deschedule, Types, ArchiveStates, links, package
  <2>3. Descheduled(a) /\ \A j \in Items : j # a => Kept(j)
    BY <1>0, <1>1 DEF Deschedule, Descheduled, Kept, Types
  <2>4. QuietPackage /\ NoNewDead
    BY <1>0, <1>1, Kinds DEF Deschedule, Types, QuietPackage, NoNewDead, Dead
  <2>5. QED
    BY <1>1, <2>2, <2>3, <2>4 DEF Deschedule, Fates, Fate
<1>2. CASE Due(a)
  <2>1. PICK k \in Pending(a) :
          /\ published' = [published EXCEPT ![a][k].state = "published"]
          /\ \A b \in Articles : \A m \in Pending(b) : published[a][k].due <= published[b][m].due
    BY <1>2 DEF Due
  <2> DEFINE es == Labelled(published[a], k, "published")
  <2>2. published' = [published EXCEPT ![a] = es]
    BY <2>1 DEF Labelled
  <2>3. k \in DOMAIN published[a]
    BY DEF Pending
  <2>4. es \in Seq(Entry)
    BY <1>0, <2>3, LabelFacts DEF Types, PublishStates
  <2> HIDE DEF es
  <2>5. state' = [state EXCEPT ![a] = "published"] /\ UNCHANGED <<links, package, odd, revert, amended>>
    BY <1>2 DEF Due
  <2>6. Types'
    BY <1>0, <2>2, <2>4, <2>5 DEF Types, ArchiveStates, PublishStates, links, package
  <2>7. Issued(a)
    BY <1>0, <2>1, <2>2, <2>5 DEF Types, Issued, es
  <2>8. \A j \in Items : j # a => Kept(j)
    BY <1>0, <2>2, <2>5 DEF Types, Kept
  <2>9. QuietPackage /\ NoNewDead
    BY <1>0, <2>5, Kinds DEF Types, QuietPackage, NoNewDead, Dead
  <2>10. QED
    BY <2>5, <2>6, <2>7, <2>8, <2>9 DEF Fates, Fate
<1>3. QED
  BY <1>1, <1>2 DEF Timing

-----------------------------------------------------------------------------
(* The requests that publish. *)

\* Why an article may go out as s, to wait until d if that is its schedule.
MayGoOut(a, s, d) ==
  \/ state[a] \in Valid.correct /\ s # "scheduled"
  \/ s \in Dead \cup {"unpublished"}
  \/ LET o == rewriteOf[a]
     IN o # Nobody => \/ state[o] \in PublishStates \ {"scheduled"}
                      \/ s = "scheduled" /\ state[o] = "scheduled" /\ DueOf(o) < d

\* The articles swept along were not out, and what they update is.
LEMMA WaveFacts ==
  ASSUME Types, NEW st \in [Items -> ArchiveStates], NEW U \in SUBSET Articles,
         NEW D \in SUBSET U, Wave(U, st, D), NEW c \in D
  PROVE  /\ st[c] \in Valid.publish
         /\ rewriteOf[c] \in Articles =>
              rewriteOf[c] \in D \/ st[rewriteOf[c]] \in PublishStates \ {"scheduled"}
<1>1. st[c] \in Valid.publish /\ OriginalOut(c, [i \in Items |-> IF i \in D THEN "published" ELSE st[i]], 0)
  BY DEF Wave
<1>2. ASSUME rewriteOf[c] \in Articles, rewriteOf[c] \notin D
      PROVE  st[rewriteOf[c]] \in PublishStates \ {"scheduled"}
  BY <1>1, <1>2, Kinds DEF OriginalOut
<1>3. QED
  BY <1>1, <1>2

LEMMA ReleaseSteps ==
  ASSUME Types, NEW a \in Articles, NEW s \in PublishStates \ {"being_corrected"},
         NEW am \in BOOLEAN, NEW d \in Slots \cup {0}, NEW es \in Base(a),
         Release(a, s, am, d, es), UNCHANGED <<revert, links, package>>,
         state[a] \notin {"absent", "spiked"}, MayGoOut(a, s, d)
  PROVE  /\ Types' /\ Fates /\ odd \subseteq odd'
         /\ state'[a] = s
         /\ \A c \in Articles \ {a} : state'[c] \in {state[c], "published"}
         /\ QuietPackage
<1> DEFINE st   == [state EXCEPT ![a] = s]
           live == a \in groups /\ Live(state[Package])
           U    == IF live THEN Unpublished(groups, st) ELSE {}
           new  == Post(es, s, am, d)
<1>1. PICK D \in SUBSET U :
        /\ Wave(U, st, D)
        /\ state' = States(st, D, live /\ D = U, "corrected")
        /\ published' = Entries([published EXCEPT ![a] = new], D, live /\ D = U, "corrected", TRUE)
        /\ amended' = [amended EXCEPT ![a] = am, ![Package] = @ \/ (live /\ D = U)]
        /\ odd' = IF state[a] = "scheduled" THEN odd \cup {"withdrawn"} ELSE odd
  BY DEF Release
<1> DEFINE fin == live /\ D = U
<1>2. st \in [Items -> ArchiveStates] /\ st[a] = s /\ \A i \in Items : i # a => st[i] = state[i]
  BY Kinds DEF Types, ArchiveStates
<1>3. /\ U \subseteq Articles /\ a \notin U /\ Package \notin U
      /\ \A c \in U : st[c] = state[c] /\ state[c] \notin PublishStates
  BY <1>2, Kinds DEF Unpublished, Types
<1>4. fin => Live(state[Package])
  OBVIOUS
<1>5. \A c \in D : /\ state[c] \in Valid.publish /\ state[c] \notin PublishStates
                   /\ rewriteOf[c] \in Articles =>
                        rewriteOf[c] \in D \/ st[rewriteOf[c]] \in PublishStates \ {"scheduled"}
  BY <1>1, <1>2, <1>3, WaveFacts
<1>6. new \in Seq(Entry)
  BY Kinds, BaseFacts, PostFacts
<1>7. state' = [i \in Items |-> IF i \in D THEN "published"
                                ELSE IF i = Package /\ fin THEN "corrected" ELSE st[i]]
  BY <1>1 DEF States
<1>8. published' =
        [i \in Items |-> IF i \in D THEN Post(published[i], "published", amended[i], 0)
                         ELSE IF i = Package /\ fin THEN Post(published[i], "corrected", TRUE, 0)
                         ELSE IF i = a THEN new ELSE published[i]]
  <2> DEFINE pub == [published EXCEPT ![a] = new]
  <2>1. /\ published' = [i \in Items |-> IF i \in D THEN Post(pub[i], "published", amended[i], 0)
                            ELSE IF i = Package /\ fin THEN Post(pub[i], "corrected", TRUE, 0)
                            ELSE pub[i]]
    BY <1>1 DEF Entries
  <2>2. /\ pub[a] = new /\ \A i \in Items : i # a => pub[i] = published[i]
    BY Kinds DEF Types
  <2>3. a \notin D /\ a # Package
    BY <1>3, Kinds
  <2> HIDE DEF pub, fin, new, U
  <2>4. QED
    BY <2>1, <2>2, <2>3
<1>9. amended' \in [Items -> BOOLEAN]
  BY <1>1, Kinds DEF Types
<1>10. odd \subseteq odd' /\ (state[a] = "scheduled" => "withdrawn" \in odd')
  BY <1>1
<1> HIDE DEF st, live, U, new, fin
<1>11. /\ \A i \in Items : published[i] \in Seq(Entry) /\ amended[i] \in BOOLEAN
       /\ "published" \in PublishStates /\ "corrected" \in PublishStates
  BY DEF Types, PublishStates
<1>12. /\ \A i \in Items : Post(published[i], "published", amended[i], 0) \in Seq(Entry)
       /\ Post(published[Package], "corrected", TRUE, 0) \in Seq(Entry)
  BY <1>11, PostFacts, Kinds
<1>13. Types'
  <2>1. published' \in [Items -> Seq(Entry)]
    BY <1>8, <1>6, <1>11, <1>12
  <2>2. state' \in [Items -> ArchiveStates]
    BY <1>7, <1>2 DEF ArchiveStates, PublishStates
  <2>3. QED
    BY <2>1, <2>2, <1>9 DEF Types, links, package
<1>14. /\ state'[a] = s
       /\ \A c \in Articles \ {a} : state'[c] \in {state[c], "published"}
       /\ QuietPackage
  <2>1. /\ state'[a] = s
        /\ \A c \in Articles \ {a} : state'[c] \in {state[c], "published"}
        /\ \/ state'[Package] = state[Package]
           \/ Live(state[Package]) /\ state'[Package] = "corrected"
    BY <1>2, <1>3, <1>4, <1>7, Kinds
  <2>2. QED
    BY <2>1 DEF QuietPackage, Live, Valid
<1>15. \A o \in Articles : o \in D \/ st[o] \in PublishStates \ {"scheduled"} =>
                             state'[o] \in PublishStates \ {"scheduled"}
  BY <1>7, <1>11, Kinds
<1>16. ASSUME NEW i \in Items PROVE Fate(i)
  <2>1. CASE i = a
    <3>1. state'[i] = s /\ published'[i] = Post(es, s, am, d)
      BY <2>1, <1>3, <1>8, <1>14, Kinds DEF new
    <3>2. published'[a][Len(published'[a])].due = d
      <4>1. es \in Seq(Entry)
        BY BaseFacts, Kinds, Zenon
      <4>2. Post(es, s, am, d)[Len(Post(es, s, am, d))].due = d
        BY <4>1, PostDue
      <4>3. QED
        BY <2>1, <3>1, <4>2, Zenon
    <3>3. Posted(i)
      BY <2>1, <3>1, <3>2, <1>10, Kinds DEF Posted, MayGoOut, OriginalReady, Types
    <3>4. QED
      BY <3>3 DEF Fate
  <2>2. CASE i \in D
    <3>1. state'[i] = "published" /\ published'[i] = Post(published[i], "published", amended[i], 0)
      BY <2>2, <1>7, <1>8
    <3>2. published[i] \in Base(i) /\ amended[i] \in BOOLEAN /\ 0 \in Slots \cup {0}
      BY <1>11 DEF Base
    <3>3. \E e \in Base(i), x \in BOOLEAN, y \in Slots \cup {0} :
            published'[i] = Post(e, state'[i], x, y)
      BY <3>1, <3>2
    <3>4. state[i] \in Valid.publish /\ state[i] \notin PublishStates
      BY <2>2, <1>5
    <3>5. rewriteOf[i] # Nobody => state'[rewriteOf[i]] \in PublishStates \ {"scheduled"}
      BY <2>2, <1>3, <1>5, <1>15 DEF Types
    <3>6. Posted(i)
      BY <3>1, <3>3, <3>4, <3>5 DEF Posted, OriginalReady, Valid, PublishStates
    <3>7. QED
      BY <3>6 DEF Fate
  <2>3. CASE i = Package /\ fin
    <3>1. /\ state'[i] = "corrected" /\ published'[i] = Post(published[i], "corrected", TRUE, 0)
      BY <2>3, <1>3, <1>7, <1>8
    <3>2. published[i] \in Base(i) /\ 0 \in Slots \cup {0}
      BY DEF Base
    <3>3. \E e \in Base(i), x \in BOOLEAN, y \in Slots \cup {0} :
            published'[i] = Post(e, state'[i], x, y)
      BY <3>1, <3>2
    <3>4. Posted(i)
      BY <2>3, <3>1, <3>3, <1>4, Kinds DEF Posted, Live, PublishStates
    <3>5. QED
      BY <3>4 DEF Fate
  <2>4. CASE i # a /\ i \notin D /\ ~(i = Package /\ fin)
    <3>1. Kept(i)
      BY <2>4, <1>2, <1>7, <1>8 DEF Kept
    <3>2. QED
      BY <3>1 DEF Fate
  <2>5. QED
    BY <2>1, <2>2, <2>3, <2>4
<1>17. QED
  BY <1>10, <1>13, <1>14, <1>16 DEF Fates

Posting(a) ==
  \/ Publish(a) \/ Correct(a) \/ Kill(a) \/ TakeDown(a) \/ Unpublish(a)
  \/ \E t \in Slots : Schedule(a, t)

LEMMA PostingSteps ==
  ASSUME Types, NEW a \in Articles, Posting(a)
  PROVE  /\ Types' /\ Fates /\ odd \subseteq odd' /\ UNCHANGED <<links, package>>
         /\ QuietPackage /\ NoNewDead
<1>1. /\ amended[a] \in BOOLEAN /\ published[a] \in Base(a) /\ 0 \in Slots \cup {0}
      /\ \A t \in Slots : t \in Slots \cup {0}
  BY Kinds DEF Types, Base
<1>2. \A s \in {"published", "scheduled", "corrected", "killed", "recalled", "unpublished"} :
        s \in PublishStates \ {"being_corrected"}
  BY DEF PublishStates
<1>3. ASSUME NEW s \in {"published", "scheduled", "corrected", "unpublished"},
             NEW am \in BOOLEAN, NEW d \in Slots \cup {0}, NEW es \in Base(a),
             Release(a, s, am, d, es), UNCHANGED <<revert, links, package>>,
             state[a] \notin {"absent", "spiked"}, MayGoOut(a, s, d)
      PROVE  /\ Types' /\ Fates /\ odd \subseteq odd' /\ UNCHANGED <<links, package>>
             /\ QuietPackage /\ NoNewDead
  <2>1. /\ Types' /\ Fates /\ odd \subseteq odd'
        /\ state'[a] = s /\ QuietPackage
        /\ \A c \in Articles \ {a} : state'[c] \in {state[c], "published"}
    BY <1>2, <1>3, ReleaseSteps
  <2>2. NoNewDead
    BY <2>1 DEF NoNewDead, Dead
  <2>3. QED
    BY <1>3, <2>1, <2>2
<1>4. ASSUME NEW t \in Slots \cup {0}, Publishable(a, state, t),
             NEW s \in {"published", "scheduled"}, s = "published" => t = 0
      PROVE  MayGoOut(a, s, t) /\ state[a] \notin {"absent", "spiked"}
  BY <1>4 DEF Publishable, OriginalOut, MayGoOut, Valid
<1>5. CASE Publish(a)
  BY <1>1, <1>3, <1>4, <1>5 DEF Publish
<1>6. CASE \E t \in Slots : Schedule(a, t)
  BY <1>1, <1>3, <1>4, <1>6 DEF Schedule
<1>7. CASE Correct(a)
  <2>1. PICK es \in Restored(a) : Release(a, "corrected", TRUE, 0, es)
    BY <1>7 DEF Correct
  <2>2. es \in Base(a) /\ state[a] \in {"published", "corrected", "correction"}
    BY <1>7, RestoredBase, Kinds DEF Correct, Valid
  <2>3. MayGoOut(a, "corrected", 0) /\ state[a] \notin {"absent", "spiked"}
    BY <2>2 DEF MayGoOut, Valid
  <2>4. QED
    BY <1>1, <1>3, <1>7, <2>1, <2>2, <2>3 DEF Correct
<1>8. ASSUME NEW s \in Dead \cup {"unpublished"}, Withdraw(a, s)
      PROVE  /\ Types' /\ Fates /\ odd \subseteq odd' /\ UNCHANGED <<links, package>>
             /\ QuietPackage /\ NoNewDead
  <2>1. state[a] \in {"published", "scheduled", "corrected", "correction"}
    BY <1>8 DEF Withdraw, Valid
  <2>2. MayGoOut(a, s, 0) /\ state[a] \notin {"absent", "spiked"}
    BY <2>1 DEF MayGoOut
  <2>3. Release(a, s, amended[a], 0, published[a]) /\ UNCHANGED <<revert, links, package>>
    BY <1>8 DEF Withdraw
  <2>4. s \in PublishStates \ {"being_corrected"}
    BY <1>2 DEF Dead
  <2>5. /\ Types' /\ Fates /\ odd \subseteq odd'
        /\ state'[a] = s /\ QuietPackage
        /\ \A c \in Articles \ {a} : state'[c] \in {state[c], "published"}
    BY <1>1, <2>2, <2>3, <2>4, ReleaseSteps
  <2>6. s \in Dead /\ a \in groups => state[Package] \in Dead \cup {"unpublished"}
    BY <1>8 DEF Withdraw
  <2>7. NoNewDead
    BY <2>5, <2>6 DEF NoNewDead, Dead
  <2>8. QED
    BY <2>3, <2>5, <2>7
<1>9. CASE Kill(a) \/ TakeDown(a) \/ Unpublish(a)
  BY <1>8, <1>9 DEF Kill, TakeDown, Unpublish, Dead
<1>10. QED
  BY <1>5, <1>6, <1>7, <1>9 DEF Posting

\* The articles in question are those the package has and will have.
Covered(items, after) == groups \cup after \subseteq items

\* Before the package goes out its articles do; when one is refused the request fails.
LEMMA SendSteps ==
  ASSUME Types, NEW items \in SUBSET Articles, NEW s \in PublishStates \ {"being_corrected"},
         NEW am \in BOOLEAN, NEW base \in Base(Package), NEW after \in SUBSET Articles,
         SendPackage(items, s, am, base, after), UNCHANGED <<revert, links, deleted>>,
         Covered(items, after), state[Package] \notin {"absent", "spiked"}
  PROVE  /\ Types' /\ Fates /\ odd \subseteq odd' /\ state'[Package] \notin {"absent", "spiked"}
         /\ \A c \in Articles : state'[c] \in {state[c], "published"}
         /\ "miscorrected" \notin odd' =>
              /\ state'[Package] = s /\ groups' = after
              /\ groups = linked => groups' = linked'
<1> DEFINE U == Unpublished(items, state)
<1>1. PICK D \in SUBSET U :
          LET nested == Live(state[Package]) /\ D \cap groups # {} /\ U \cap groups \subseteq D
              done   == D = U
              as     == IF done THEN s ELSE "corrected"
          IN /\ Wave(U, state, D)
             /\ state' = States(state, D, done \/ nested, as)
             /\ published' = Entries([published EXCEPT ![Package] = base], D, done \/ nested, as,
                                     IF done THEN am ELSE TRUE)
             /\ amended' = [amended EXCEPT ![Package] = IF done THEN am ELSE @ \/ nested]
             /\ groups' = IF done THEN after ELSE groups
             /\ linked' \in LET told == {i \in items : i \notin U}
                                 all  == (linked \ (told \ after)) \cup (told \cap (after \ groups))
                             IN IF done THEN {all} ELSE {linked, all}
             /\ odd' = IF done /\ U \subseteq groups \cap after THEN odd ELSE odd \cup {"miscorrected"}
  BY DEF SendPackage
<1> DEFINE done == D = U
           fin  == done \/ (Live(state[Package]) /\ D \cap groups # {} /\ U \cap groups \subseteq D)
           as   == IF done THEN s ELSE "corrected"
           new  == Post(base, as, IF done THEN am ELSE TRUE, 0)
           told == {i \in items : i \notin U}
           all  == (linked \ (told \ after)) \cup (told \cap (after \ groups))
<1>2. /\ U \subseteq items /\ U \subseteq Articles /\ Package \notin U
      /\ \A c \in U : state[c] \notin PublishStates
  BY Kinds DEF Unpublished
<1>3. \A c \in D : /\ state[c] \in Valid.publish /\ state[c] \notin PublishStates
                   /\ rewriteOf[c] \in Articles =>
                        rewriteOf[c] \in D \/ state[rewriteOf[c]] \in PublishStates \ {"scheduled"}
  <2>1. state \in [Items -> ArchiveStates] /\ Wave(U, state, D) /\ U \in SUBSET Articles
    BY <1>1, <1>2 DEF Types
  <2>2. QED
    BY <1>2, <2>1, WaveFacts
<1>4. as \in PublishStates \ {"being_corrected"} /\ base \in Seq(Entry)
      /\ (IF done THEN am ELSE TRUE) \in BOOLEAN
  BY BaseFacts, Kinds DEF PublishStates
<1>5. new \in Seq(Entry)
  BY <1>4, PostFacts
<1>6. state' = [i \in Items |-> IF i \in D THEN "published"
                                ELSE IF i = Package /\ fin THEN as ELSE state[i]]
  BY <1>1 DEF States
<1>7. published' =
        [i \in Items |-> IF i \in D THEN Post(published[i], "published", amended[i], 0)
                         ELSE IF i = Package THEN (IF fin THEN new ELSE base)
                         ELSE published[i]]
  <2> DEFINE pub == [published EXCEPT ![Package] = base]
  <2>1. published' = [i \in Items |-> IF i \in D THEN Post(pub[i], "published", amended[i], 0)
                            ELSE IF i = Package /\ fin
                                 THEN Post(pub[i], as, IF done THEN am ELSE TRUE, 0)
                            ELSE pub[i]]
    BY <1>1 DEF Entries
  <2>2. pub[Package] = base /\ \A i \in Items : i # Package => pub[i] = published[i]
    BY Kinds DEF Types
  <2>3. Package \notin D
    BY <1>2
  <2> HIDE DEF pub, fin, done, U, as
  <2>4. QED
    BY <2>1, <2>2, <2>3
<1>8. amended' \in [Items -> BOOLEAN]
  BY <1>1, Kinds DEF Types
<1>9. /\ odd \subseteq odd' /\ (~done => "miscorrected" \in odd')
      /\ "miscorrected" \notin odd' => U \subseteq groups \cap after
  BY <1>1
<1>10. /\ groups' = (IF done THEN after ELSE groups) /\ linked' \in {linked, all}
       /\ done => linked' = all
  BY <1>1
<1>11. done => fin
  OBVIOUS
<1>12. groups = linked /\ done /\ U \subseteq groups \cap after => all = after
  <2>1. SUFFICES ASSUME groups = linked, U \subseteq groups \cap after, NEW i PROVE i \in all <=> i \in after
    OBVIOUS
  <2>2. QED
    BY <2>1 DEF Covered
<1>13. fin /\ ~done => Live(state[Package])
  OBVIOUS
<1> HIDE DEF U, fin, done, as, new, told
<1>14. /\ \A i \in Items : published[i] \in Seq(Entry) /\ amended[i] \in BOOLEAN
       /\ "published" \in PublishStates
  BY DEF Types, PublishStates
<1>15. \A i \in Items : Post(published[i], "published", amended[i], 0) \in Seq(Entry)
  BY <1>14, PostFacts
<1>16. Types'
  <2>1. published' \in [Items -> Seq(Entry)]
    BY <1>4, <1>5, <1>7, <1>14, <1>15
  <2>2. state' \in [Items -> ArchiveStates]
    BY <1>4, <1>6 DEF Types, ArchiveStates, PublishStates
  <2>3. told \subseteq Articles
    BY DEF told
  <2>4. groups' \subseteq Articles /\ linked' \subseteq Articles
    BY <1>10, <2>3 DEF Types
  <2>5. QED
    BY <2>1, <2>2, <2>4, <1>8 DEF Types, links
<1>17. \A o \in Articles : o \in D \/ state[o] \in PublishStates \ {"scheduled"} =>
                             state'[o] \in PublishStates \ {"scheduled"}
  BY <1>6, <1>14, Kinds
<1>18. ASSUME NEW i \in Items PROVE Fate(i)
  <2>1. CASE i \in D
    <3>1. state'[i] = "published" /\ published'[i] = Post(published[i], "published", amended[i], 0)
      BY <2>1, <1>6, <1>7
    <3>2. published[i] \in Base(i) /\ amended[i] \in BOOLEAN /\ 0 \in Slots \cup {0}
      BY <1>14 DEF Base
    <3>3. \E e \in Base(i), x \in BOOLEAN, y \in Slots \cup {0} :
            published'[i] = Post(e, state'[i], x, y)
      BY <3>1, <3>2
    <3>4. state[i] \in Valid.publish /\ state[i] \notin PublishStates
      BY <2>1, <1>3
    <3>5. rewriteOf[i] # Nobody => state'[rewriteOf[i]] \in PublishStates \ {"scheduled"}
      BY <2>1, <1>2, <1>3, <1>17 DEF Types
    <3>6. Posted(i)
      BY <3>1, <3>3, <3>4, <3>5 DEF Posted, OriginalReady, Valid, PublishStates
    <3>7. QED
      BY <3>6 DEF Fate
  <2>2. CASE i = Package /\ fin
    <3>1. /\ state'[i] = as /\ published'[i] = new
      BY <2>2, <1>2, <1>6, <1>7
    <3>2. \E e \in Base(i), x \in BOOLEAN, y \in Slots \cup {0} :
            published'[i] = Post(e, state'[i], x, y)
      BY <2>2, <3>1, <1>4 DEF new
    <3>3. Posted(i)
      BY <2>2, <3>1, <3>2, <1>4, Kinds DEF Posted
    <3>4. QED
      BY <3>3 DEF Fate
  <2>3. CASE i = Package /\ ~fin
    <3>1. state'[i] = state[i] /\ published'[i] = base
      BY <2>3, <1>2, <1>6, <1>7
    <3>2. Failed(i)
      BY <2>3, <3>1, <1>9, <1>11 DEF Failed
    <3>3. QED
      BY <3>2 DEF Fate
  <2>4. CASE i # Package /\ i \notin D
    <3>1. Kept(i)
      BY <2>4, <1>6, <1>7 DEF Kept
    <3>2. QED
      BY <3>1 DEF Fate
  <2>5. QED
    BY <2>1, <2>2, <2>3, <2>4
<1>19. \A c \in Articles : state'[c] \in {state[c], "published"}
  BY <1>6, Kinds
<1>20. ASSUME "miscorrected" \notin odd'
       PROVE  /\ state'[Package] = s /\ groups' = after
              /\ groups = linked => groups' = linked'
  <2>1. done /\ fin /\ Package \notin D
    BY <1>2, <1>9, <1>11, <1>20
  <2>2. state'[Package] = s
    BY <1>6, <2>1, Kinds DEF as
  <2>3. QED
    BY <2>1, <2>2, <1>9, <1>10, <1>12, <1>20
<1>21. state'[Package] \notin {"absent", "spiked"}
  BY <1>2, <1>4, <1>6, Kinds DEF PublishStates
<1>22. QED
  BY <1>9, <1>16, <1>18, <1>19, <1>20, <1>21 DEF Fates

-----------------------------------------------------------------------------
(* The requests about updates, and those about the package. *)

LEMMA LinkTypes ==
  ASSUME Types, NEW a \in Articles, NEW b \in Articles
  PROVE  /\ OwnStory(b) \in [Articles -> SUBSET Articles]
         /\ JoinStory(a, b) \in [Articles -> SUBSET Articles]
         /\ Cleared(b) \in [Articles -> Articles \cup {Nobody}]
         /\ Orphaned(b) \in [Articles -> Articles \cup {Nobody}]
BY DEF Types, OwnStory, JoinStory, Cleared, Orphaned

Linking(a) == Unlink(a) \/ SpikeRefused(a) \/ \E b \in Articles : Rewrite(a, b) \/ Associate(a, b)

LEMMA LinkingSteps ==
  ASSUME Types, NEW a \in Articles, Linking(a)
  PROVE  /\ Types' /\ Fates /\ odd \subseteq odd' /\ UNCHANGED package
         /\ QuietPackage /\ NoNewDead
<1> USE Kinds DEF package
<1>1. CASE Unlink(a) \/ SpikeRefused(a)
  <2>1. /\ UNCHANGED <<state, revert, amended, published, package>> /\ odd \subseteq odd'
    BY <1>1 DEF Unlink, SpikeRefused
  <2>2. /\ story' \in [Articles -> SUBSET Articles]
        /\ rewriteOf' \in [Articles -> Articles \cup {Nobody}]
        /\ rewrittenBy' \in [Articles -> Articles \cup {Nobody}]
    <3>1. /\ OwnStory(a) \in [Articles -> SUBSET Articles]
          /\ Cleared(a) \in [Articles -> Articles \cup {Nobody}]
          /\ Orphaned(a) \in [Articles -> Articles \cup {Nobody}]
      BY LinkTypes
    <3>2. CASE Unlink(a)
      BY <3>1, <3>2 DEF Unlink
    <3>3. CASE SpikeRefused(a)
      BY <3>1, <3>3 DEF SpikeRefused, Types
    <3>4. QED
      BY <1>1, <3>2, <3>3
  <2>3. QED
    BY <2>1, <2>2 DEF Types, Fates, Fate, Kept, QuietPackage, NoNewDead
<1>2. ASSUME NEW b \in Articles, Rewrite(a, b) \/ Associate(a, b)
      PROVE  /\ Types' /\ Fates /\ odd \subseteq odd' /\ UNCHANGED package
             /\ QuietPackage /\ NoNewDead
  <2>1. /\ UNCHANGED <<revert, amended, published, package>> /\ odd \subseteq odd'
        /\ LinkRewrite(a, b) /\ state' = [state EXCEPT ![b] = "in_progress"]
        /\ state[b] \notin {"spiked", "scheduled"}
    BY <1>2 DEF Rewrite, Associate
  <2>2. /\ story' \in [Articles -> SUBSET Articles]
        /\ rewriteOf' \in [Articles -> Articles \cup {Nobody}]
        /\ rewrittenBy' \in [Articles -> Articles \cup {Nobody}]
    BY <2>1, LinkTypes DEF LinkRewrite, Types
  <2>3. Types'
    BY <2>1, <2>2 DEF Types, ArchiveStates
  <2>4. Written(b) /\ \A i \in Items : i # b => Kept(i)
    BY <2>1 DEF Types, Written, Kept
  <2>5. QED
    BY <2>1, <2>3, <2>4 DEF Fates, Fate, QuietPackage, NoNewDead, Types, Dead
<1>3. QED
  BY <1>1, <1>2 DEF Linking

LEMMA SpikeSteps ==
  ASSUME Types, NEW a \in Articles, Spike(a)
  PROVE  /\ Types' /\ Fates /\ UNCHANGED <<odd, deleted>>
         /\ a \notin linked /\ state'[a] = "spiked"
         /\ \A c \in Articles \ {a} : state'[c] = state[c]
         /\ groups' \subseteq groups /\ QuietPackage
         /\ a \notin groups => UNCHANGED package
<1> USE Kinds
<1>1. /\ state' = [i \in Items |-> IF i = a THEN "spiked"
                                   ELSE IF i = Package /\ Dropped(a) # {} THEN Saved(state[i])
                                   ELSE state[i]]
      /\ a \notin linked /\ state[a] \in Valid.spike /\ UNCHANGED <<amended, published, deleted, odd>>
      /\ revert' = [revert EXCEPT ![a] = state[a]]
      /\ groups' = groups \ Dropped(a)
      /\ linked' = IF Dropped(a) # {} THEN linked \cup groups' ELSE linked
  BY DEF Spike
<1>2. /\ rewriteOf' \in [Articles -> Articles \cup {Nobody}]
      /\ rewrittenBy' \in [Articles -> Articles \cup {Nobody}]
      /\ story' \in [Articles -> SUBSET Articles]
  BY LinkTypes DEF Spike
<1>3. Dropped(a) # {} => Savable(state[Package]) /\ a \in groups
  BY DEF Dropped
<1>4. Savable(state[Package]) =>
        \/ Saved(state[Package]) = state[Package]
        \/ Saved(state[Package]) = "in_progress" /\ state[Package] \notin {"spiked", "scheduled"}
  BY DEF Savable, Saved, Valid
<1>5. Types'
  <2>1. state' \in [Items -> ArchiveStates]
    BY <1>1, <1>3, <1>4 DEF Types, ArchiveStates
  <2>2. revert' \in [Items -> ArchiveStates]
    BY <1>1 DEF Types
  <2>3. QED
    BY <1>1, <1>2, <2>1, <2>2 DEF Types
<1>6. /\ state'[a] = "spiked" /\ \A c \in Articles \ {a} : state'[c] = state[c]
      /\ state'[Package] = IF Dropped(a) # {} THEN Saved(state[Package]) ELSE state[Package]
  BY <1>1
<1>7. Shelved(a) /\ \A c \in Articles \ {a} : Kept(c)
  BY <1>1, <1>6 DEF Shelved, Kept, Types
<1>8. Written(Package) \/ Kept(Package)
  BY <1>1, <1>3, <1>4, <1>6 DEF Written, Kept, Types
<1>9. Fates
  BY <1>7, <1>8 DEF Fates, Fate, Items
<1>10. QuietPackage
  BY <1>3, <1>4, <1>6 DEF QuietPackage, Valid
<1>11. QED
  BY <1>1, <1>3, <1>5, <1>6, <1>9, <1>10 DEF package

\* The requests about the package that publish nothing.
Packaging ==
  \/ SpikePackage \/ UnspikePackage
  \/ \E G \in SUBSET Offered : CreatePackage(G)
  \/ \E D \in SUBSET (Offered \ groups), K \in SUBSET groups : EditPackage(K \cup D)
Sending ==
  \/ PublishPackage \/ \E s \in Dead \cup {"unpublished"} : WithdrawPackage(s)
  \/ \E D \in SUBSET (Offered \ groups), K \in SUBSET groups : CorrectPackage(K \cup D)

LEMMA PackagingSteps ==
  ASSUME Types, Packaging
  PROVE  /\ Types' /\ Fates /\ odd \subseteq odd' /\ UNCHANGED links
         /\ \A c \in Articles : state'[c] = state[c]
<1> USE Kinds DEF Types, Fates, Fate, links
<1>1. CASE SpikePackage
  BY <1>1 DEF SpikePackage, Shelved, Kept, ArchiveStates
<1>2. CASE UnspikePackage
  BY <1>2 DEF UnspikePackage, Unshelved, Kept, ArchiveStates
<1>3. CASE \E G \in SUBSET Offered : CreatePackage(G)
  BY <1>3 DEF CreatePackage, Offered, Written, Kept, ArchiveStates
<1>4. ASSUME NEW D \in SUBSET (Offered \ groups), NEW K \in SUBSET groups, EditPackage(K \cup D)
      PROVE  /\ Types' /\ Fates /\ odd \subseteq odd' /\ UNCHANGED links
             /\ \A c \in Articles : state'[c] = state[c]
  BY <1>4 DEF EditPackage, Linked, Offered, Savable, Saved, Valid, Written, Kept, ArchiveStates
<1>5. QED
  BY <1>1, <1>2, <1>3, <1>4 DEF Packaging

\* The package was offered something, and it went out if nothing was refused.
LEMMA SendingSteps ==
  ASSUME Types, Sending
  PROVE  /\ Types' /\ Fates /\ odd \subseteq odd' /\ state'[Package] \notin {"absent", "spiked"}
         /\ UNCHANGED <<links, deleted>>
         /\ \A c \in Articles : state'[c] \in {state[c], "published"}
         /\ "miscorrected" \notin odd' =>
              /\ groups = linked => groups' = linked'
              /\ \/ state'[Package] \notin Valid.correct
                 \/ \A c \in groups' : state[c] \notin Dead \cup {"spiked"}
                 \/ /\ state[Package] \in Valid.correct
                    /\ \A c \in groups' : c \in groups \/ state[c] \notin Dead \cup {"spiked"}
<1>1. published[Package] \in Base(Package) /\ amended[Package] \in BOOLEAN /\ groups \subseteq Articles
  BY Kinds DEF Base, Types
<1>2. ASSUME NEW s \in PublishStates \ {"being_corrected"}, NEW am \in BOOLEAN,
             NEW base \in Base(Package), NEW items \in SUBSET Articles, items = groups,
             SendPackage(items, s, am, base, items),
             UNCHANGED <<revert, links, deleted>>, state[Package] \notin {"absent", "spiked"}
      PROVE  /\ Types' /\ Fates /\ odd \subseteq odd' /\ state'[Package] \notin {"absent", "spiked"}
             /\ \A c \in Articles : state'[c] \in {state[c], "published"}
             /\ "miscorrected" \notin odd' =>
                  /\ state'[Package] = s /\ groups' = groups
                  /\ groups = linked => groups' = linked'
  <2>1. Covered(items, items)
    BY <1>2 DEF Covered
  <2>2. /\ Types' /\ Fates /\ odd \subseteq odd' /\ state'[Package] \notin {"absent", "spiked"}
        /\ \A c \in Articles : state'[c] \in {state[c], "published"}
        /\ "miscorrected" \notin odd' =>
             /\ state'[Package] = s /\ groups' = items
             /\ groups = linked => groups' = linked'
    BY <1>2, <2>1, SendSteps
  <2>3. QED
    BY <1>2, <2>2
<1>3. CASE PublishPackage
  <2>1. /\ SendPackage(groups, "published", amended[Package], published[Package], groups)
        /\ UNCHANGED <<revert, links, deleted>>
        /\ \A i \in groups : state[i] \notin Dead \cup {"spiked"}
        /\ state[Package] \notin {"absent", "spiked"}
    BY <1>3 DEF PublishPackage, Valid
  <2>2. "published" \in PublishStates \ {"being_corrected"}
    BY DEF PublishStates
  <2>3. /\ Types' /\ Fates /\ odd \subseteq odd' /\ state'[Package] \notin {"absent", "spiked"}
        /\ \A c \in Articles : state'[c] \in {state[c], "published"}
        /\ "miscorrected" \notin odd' =>
             /\ state'[Package] = "published" /\ groups' = groups
             /\ groups = linked => groups' = linked'
    BY <1>2, <1>1, <2>1, <2>2
  <2>4. QED
    BY <2>1, <2>3
<1>4. ASSUME NEW s \in Dead \cup {"unpublished"}, WithdrawPackage(s)
      PROVE  /\ Types' /\ Fates /\ odd \subseteq odd' /\ state'[Package] \notin {"absent", "spiked"}
             /\ UNCHANGED <<links, deleted>>
             /\ \A c \in Articles : state'[c] \in {state[c], "published"}
             /\ "miscorrected" \notin odd' =>
                  /\ groups = linked => groups' = linked'
                  /\ state'[Package] \notin Valid.correct \cup {"absent", "spiked"}
  <2>1. /\ SendPackage(groups, s, amended[Package], published[Package], groups)
        /\ UNCHANGED <<revert, links, deleted>>
        /\ state[Package] \notin {"absent", "spiked"}
    BY <1>4 DEF WithdrawPackage, Valid
  <2>2. s \in PublishStates \ {"being_corrected"} /\ s \notin Valid.correct \cup {"absent", "spiked"}
    BY DEF PublishStates, Dead, Valid
  <2>3. /\ Types' /\ Fates /\ odd \subseteq odd' /\ state'[Package] \notin {"absent", "spiked"}
        /\ \A c \in Articles : state'[c] \in {state[c], "published"}
        /\ "miscorrected" \notin odd' =>
             /\ state'[Package] = s /\ groups' = groups
             /\ groups = linked => groups' = linked'
    BY <1>2, <1>1, <2>1, <2>2
  <2>4. QED
    BY <2>1, <2>2, <2>3
<1>5. ASSUME NEW G, G \subseteq groups \cup Offered, CorrectPackage(G)
      PROVE  /\ Types' /\ Fates /\ odd \subseteq odd' /\ state'[Package] \notin {"absent", "spiked"}
             /\ UNCHANGED <<links, deleted>>
             /\ \A c \in Articles : state'[c] \in {state[c], "published"}
             /\ "miscorrected" \notin odd' =>
                  /\ groups = linked => groups' = linked'
                  /\ state[Package] \in Valid.correct
                  /\ \A c \in groups' : c \in groups \/ state[c] \notin Dead \cup {"spiked"}
  <2>1. PICK es \in Restored(Package) : SendPackage(groups \cup G, "corrected", TRUE, es, G)
    BY <1>5 DEF CorrectPackage
  <2>2. /\ es \in Base(Package) /\ state[Package] \in Valid.correct
        /\ state[Package] \notin {"absent", "spiked"} /\ UNCHANGED <<revert, links, deleted>>
    BY <1>5, RestoredBase, Kinds DEF CorrectPackage, Valid
  <2>3. "corrected" \in PublishStates \ {"being_corrected"} /\ G \subseteq Articles
    BY <1>1, <1>5 DEF PublishStates, Offered
  <2>4. \A c \in G : c \in groups \/ state[c] \notin Dead \cup {"spiked"}
    BY <1>5 DEF Offered
  <2>5. groups \cup G \subseteq Articles /\ Covered(groups \cup G, G) /\ TRUE \in BOOLEAN
    BY <1>1, <2>3 DEF Covered
  <2>6. /\ Types' /\ Fates /\ odd \subseteq odd' /\ state'[Package] \notin {"absent", "spiked"}
        /\ \A c \in Articles : state'[c] \in {state[c], "published"}
        /\ "miscorrected" \notin odd' =>
             /\ state'[Package] = "corrected" /\ groups' = G
             /\ groups = linked => groups' = linked'
    BY <2>1, <2>2, <2>3, <2>5, SendSteps, Zenon
  <2>7. QED
    BY <2>2, <2>4, <2>6
<1>6. CASE \E s \in Dead \cup {"unpublished"} : WithdrawPackage(s)
  <2>1. PICK s \in Dead \cup {"unpublished"} : WithdrawPackage(s)
    BY <1>6
  <2>2. QED
    BY <1>4, <2>1
<1>7. CASE \E D \in SUBSET (Offered \ groups), K \in SUBSET groups : CorrectPackage(K \cup D)
  <2>1. PICK D \in SUBSET (Offered \ groups), K \in SUBSET groups : CorrectPackage(K \cup D)
    BY <1>7
  <2>2. K \cup D \subseteq groups \cup Offered
    OBVIOUS
  <2>3. QED
    BY <1>5, <2>1, <2>2
<1>8. QED
  BY <1>3, <1>6, <1>7 DEF Sending

LEMMA NextCases ==
  ASSUME Next
  PROVE  \/ \E a \in Articles : Editing(a) \/ Timing(a) \/ Posting(a) \/ Linking(a) \/ Spike(a)
         \/ \E i \in Items : Moving(i) \/ Marking(i)
         \/ Packaging \/ Sending
<1>1. CASE \E a \in Articles : ArticleRequest(a)
  BY <1>1 DEF ArticleRequest, Editing, Timing, Posting, Linking
<1>2. CASE \E i \in Items : Move(i) \/ Assign(i) \/ CreateCorrection(i) \/ CancelCorrection(i)
  BY <1>2 DEF Moving, Marking
<1>3. CASE PackageRequest
  BY <1>3 DEF PackageRequest, Packaging, Sending
<1>4. QED
  BY <1>1, <1>2, <1>3 DEF Next

LEMMA NextSteps ==
  ASSUME Types, Next
  PROVE  Types' /\ Fates /\ odd \subseteq odd'
BY NextCases, EditingSteps, TimingSteps, PostingSteps, LinkingSteps, SpikeSteps, MovingSteps,
   MarkingSteps, PackagingSteps, SendingSteps

-----------------------------------------------------------------------------
(* States and entries. *)

OutStates == PublishStates \cup {"correction"}

\* The state an item has, or will have again once it is unspiked.
At(i, S) == state[i] \in S \/ (state[i] = "spiked" /\ revert[i] \in S)

ShelfInv == \A i \in Items : state[i] = "spiked" => revert[i] \in Valid.spike

\* What is out has been posted, and what is not there has not.
EntryInv ==
  \A i \in Items : /\ At(i, OutStates) => published[i] # <<>>
                   /\ state[i] = "absent" => published[i] = <<>>

\* Only one entry waits, and that for a scheduled article.
PendingInv ==
  Regularly({"withdrawn"}) =>
    \A a \in Articles : /\ Pending(a) # {} => state[a] = "scheduled"
                        /\ \A j, k \in Pending(a) : j = k

\* A correction that is spiked can go on when it is unspiked.
CorrectionInv ==
  \A i \in Items : At(i, {"correction"}) /\ (i = Package => Regularly({"miscorrected"})) =>
    BeingCorrected(i) # {}

EntriesInv == LastVersion /\ ShelfInv /\ EntryInv /\ PendingInv /\ CorrectionInv

\* What the fates other than a publication and a deschedule leave of the entries.
LEMMA OldEntries ==
  ASSUME Types, NEW i \in Items, Fate(i), ~Posted(i), ~Descheduled(i)
  PROVE  /\ published[i] \in Seq(Entry) /\ published'[i] \in Seq(Entry)
         /\ Len(published'[i]) = Len(published[i]) /\ DOMAIN published'[i] = DOMAIN published[i]
         /\ \A k \in DOMAIN published[i] : /\ published'[i][k].last = published[i][k].last
                                           /\ published'[i][k].due = published[i][k].due
<1>1. published[i] \in Seq(Entry)
  BY DEF Types
<1>2. ASSUME NEW k \in DOMAIN published[i], NEW s \in PublishStates,
             published'[i] = Labelled(published[i], k, s)
      PROVE  /\ published'[i] \in Seq(Entry)
             /\ Len(published'[i]) = Len(published[i]) /\ DOMAIN published'[i] = DOMAIN published[i]
             /\ \A m \in DOMAIN published[i] : /\ published'[i][m].last = published[i][m].last
                                               /\ published'[i][m].due = published[i][m].due
  <2>1. /\ Labelled(published[i], k, s) \in Seq(Entry)
        /\ Len(Labelled(published[i], k, s)) = Len(published[i])
        /\ DOMAIN Labelled(published[i], k, s) = DOMAIN published[i]
        /\ \A m \in DOMAIN published[i] :
             /\ Labelled(published[i], k, s)[m].last = published[i][m].last
             /\ Labelled(published[i], k, s)[m].due = published[i][m].due
    BY <1>1, LabelFacts
  <2>2. QED
    BY <1>2, <2>1, Zenon
<1>3. CASE Issued(i)
  BY <1>1, <1>2, <1>3 DEF Issued, Pending, PublishStates
<1>4. CASE Marked(i)
  BY <1>1, <1>2, <1>4 DEF Marked, PublishStates
<1>5. CASE Cancelled(i) \/ Failed(i)
  <2>1. published'[i] \in Base(i)
    BY <1>5 DEF Cancelled, Failed, Base
  <2>2. QED
    BY <1>1, <2>1, BaseFacts, Zenon
<1>6. CASE Kept(i) \/ Written(i) \/ Shelved(i) \/ Unshelved(i)
  <2>1. published'[i] = published[i]
    BY <1>6 DEF Kept, Written, Shelved, Unshelved
  <2>2. QED
    BY <1>1, <2>1, Zenon
<1>7. QED
  BY <1>3, <1>4, <1>5, <1>6 DEF Fate

\* A publication adds an entry to those.
LEMMA NewEntry ==
  ASSUME Types, NEW i \in Items, Posted(i)
  PROVE  /\ published[i] \in Seq(Entry) /\ published'[i] \in Seq(Entry)
         /\ Len(published'[i]) = Len(published[i]) + 1
         /\ published'[i][Len(published[i]) + 1].last = TRUE
         /\ published'[i][Len(published[i]) + 1].state = state'[i]
         /\ \A k \in 1..Len(published[i]) : published'[i][k].last = FALSE
         /\ \A k \in 1..Len(published[i]) :
              published'[i][k].state = "scheduled" => published[i][k].state = "scheduled"
         /\ \A k \in 1..Len(published[i]) :
              /\ published'[i][k].due = published[i][k].due
              /\ published'[i][k].state \in VersionStates <=> published[i][k].state \in VersionStates
<1>1. PICK es \in Base(i), am \in BOOLEAN, d \in Slots \cup {0} :
        published'[i] = Post(es, state'[i], am, d)
  BY DEF Posted
<1>2. state'[i] \in PublishStates /\ published[i] \in Seq(Entry)
  BY DEF Posted, Types
<1>3. /\ es \in Seq(Entry) /\ Len(es) = Len(published[i]) /\ DOMAIN es = DOMAIN published[i]
      /\ \A k \in DOMAIN es : es[k].due = published[i][k].due
      /\ \A k \in DOMAIN es : es[k].state = "scheduled" => published[i][k].state = "scheduled"
      /\ \A k \in DOMAIN es : es[k].state \in VersionStates <=> published[i][k].state \in VersionStates
  BY BaseFacts
<1>4. DOMAIN es = 1..Len(es)
  BY <1>3
<1>5. /\ published'[i] \in Seq(Entry)
      /\ Len(published'[i]) = Len(es) + 1
      /\ published'[i][Len(es) + 1] = [state |-> state'[i], last |-> TRUE, amended |-> am, due |-> d]
      /\ \A k \in 1..Len(es) : /\ published'[i][k].state = es[k].state
                               /\ published'[i][k].due = es[k].due
                               /\ published'[i][k].last = FALSE
  <2>1. ASSUME NEW s \in PublishStates
        PROVE  /\ Post(es, s, am, d) \in Seq(Entry)
               /\ Len(Post(es, s, am, d)) = Len(es) + 1
               /\ Post(es, s, am, d)[Len(es) + 1] =
                    [state |-> s, last |-> TRUE, amended |-> am, due |-> d]
               /\ \A k \in 1..Len(es) : /\ Post(es, s, am, d)[k].state = es[k].state
                                        /\ Post(es, s, am, d)[k].due = es[k].due
                                        /\ Post(es, s, am, d)[k].last = FALSE
    BY <1>3, PostFacts
  <2>2. QED
    BY <1>1, <1>2, <2>1, Zenon
<1>6. /\ published'[i][Len(es) + 1].last = TRUE
      /\ published'[i][Len(es) + 1].state = state'[i]
  BY <1>5
<1>7. \A k \in 1..Len(es) : published'[i][k].state = "scheduled" => published[i][k].state = "scheduled"
  BY <1>3, <1>4, <1>5
<1>8. \A k \in 1..Len(es) :
        /\ published'[i][k].due = published[i][k].due
        /\ published'[i][k].state \in VersionStates <=> published[i][k].state \in VersionStates
  BY <1>3, <1>4, <1>5
<1>9. QED
  BY <1>2, <1>3, <1>5, <1>6, <1>7, <1>8, Zenon

LEMMA VersionKept ==
  ASSUME Types, Fates, LastVersion
  PROVE  LastVersion'
<1> SUFFICES ASSUME NEW i \in Items, NEW k \in DOMAIN published'[i]
             PROVE  published'[i][k].last <=> k = Len(published'[i])
  BY DEF LastVersion
<1>1. Fate(i) /\ \A m \in DOMAIN published[i] : published[i][m].last <=> m = Len(published[i])
  BY DEF Fates, LastVersion
<1>2. CASE Posted(i)
  <2>1. /\ published[i] \in Seq(Entry) /\ published'[i] \in Seq(Entry)
        /\ Len(published'[i]) = Len(published[i]) + 1
        /\ published'[i][Len(published[i]) + 1].last = TRUE
        /\ \A m \in 1..Len(published[i]) : published'[i][m].last = FALSE
    BY <1>2, NewEntry, Zenon
  <2>2. k \in 1..Len(published[i]) \/ k = Len(published[i]) + 1
    BY <2>1
  <2>3. CASE k \in 1..Len(published[i])
    <3>1. k # Len(published'[i])
      BY <2>1, <2>3
    <3>2. QED
      BY <2>1, <2>3, <3>1, Zenon
  <2>4. CASE k = Len(published[i]) + 1
    BY <2>1, <2>4, Zenon
  <2>5. QED
    BY <2>2, <2>3, <2>4
<1>3. CASE Descheduled(i)
  BY <1>3 DEF Descheduled
<1>4. CASE ~Posted(i) /\ ~Descheduled(i)
  <2>1. /\ Len(published'[i]) = Len(published[i]) /\ DOMAIN published'[i] = DOMAIN published[i]
        /\ \A m \in DOMAIN published[i] : published'[i][m].last = published[i][m].last
    BY <1>1, <1>4, OldEntries
  <2>2. QED
    BY <1>1, <2>1, Zenon
<1>5. QED
  BY <1>2, <1>3, <1>4

LEMMA ShelfKept ==
  ASSUME Types, Fates, ShelfInv
  PROVE  ShelfInv'
<1> SUFFICES ASSUME NEW i \in Items, state'[i] = "spiked" PROVE revert'[i] \in Valid.spike
  BY DEF ShelfInv, Valid
<1>1. Fate(i) /\ (state[i] = "spiked" => revert[i] \in Valid.spike)
  BY DEF Fates, ShelfInv
<1>2. "spiked" \notin Valid.spike /\ "spiked" \notin PublishStates
  BY DEF Valid, PublishStates
<1>3. QED
  BY <1>1, <1>2 DEF Fate, Kept, Written, Posted, Descheduled, Issued, Marked, Cancelled, Shelved,
                    Unshelved, Failed

LEMMA EntryKept ==
  ASSUME Types, Fates, ShelfInv, EntryInv
  PROVE  EntryInv'
<1> SUFFICES ASSUME NEW i \in Items
             PROVE  /\ At(i, OutStates)' => published'[i] # <<>>
                    /\ state'[i] = "absent" => published'[i] = <<>>
  BY DEF EntryInv, At, OutStates, PublishStates
<1>1. /\ Fate(i) /\ (At(i, OutStates) => published[i] # <<>>)
      /\ state[i] = "absent" => published[i] = <<>>
      /\ state[i] = "spiked" => revert[i] \in Valid.spike
  BY DEF Fates, EntryInv, ShelfInv
<1>2. /\ "absent" \notin OutStates /\ "spiked" \notin OutStates /\ "in_progress" \notin OutStates
      /\ "draft" \notin OutStates /\ "submitted" \notin OutStates /\ "absent" \notin Valid.spike
      /\ Valid.correction \subseteq OutStates /\ "absent" \notin Valid.correction
      /\ "spiked" \notin Valid.correction
      /\ \A s \in PublishStates : s \notin {"absent", "spiked"}
  BY DEF OutStates, PublishStates, Valid
<1>3. At(i, OutStates)' <=> state'[i] \in OutStates \/ (state'[i] = "spiked" /\ revert'[i] \in OutStates)
  BY DEF At, OutStates, PublishStates
<1>4. \A es \in Seq(Entry) : (es = <<>> <=> Len(es) = 0) /\ (es = <<>> <=> DOMAIN es = {})
  OBVIOUS
<1>5. CASE Posted(i)
  <2>1. /\ published[i] \in Seq(Entry) /\ published'[i] \in Seq(Entry)
        /\ Len(published'[i]) = Len(published[i]) + 1
    BY <1>5, NewEntry
  <2>2. published'[i] # <<>>
    BY <1>4, <2>1
  <2>3. state'[i] \in PublishStates
    BY <1>5 DEF Posted
  <2>4. QED
    BY <1>2, <2>2, <2>3
<1>6. CASE Descheduled(i)
  BY <1>2, <1>3, <1>6 DEF Descheduled
<1>7. CASE ~Posted(i) /\ ~Descheduled(i)
  <2>1. published'[i] = <<>> <=> published[i] = <<>>
    BY <1>1, <1>4, <1>7, OldEntries
  <2>2. CASE Issued(i)
    <3>1. PICK k \in Pending(i) : state'[i] = "published"
      BY <2>2 DEF Issued
    <3>2. published[i] # <<>>
      BY <3>1 DEF Pending
    <3>3. QED
      BY <2>1, <3>1, <3>2
  <2>3. CASE Marked(i) \/ Cancelled(i)
    BY <1>1, <1>2, <2>1, <2>3 DEF Marked, Cancelled, At
  <2>4. CASE Kept(i) \/ Written(i) \/ Failed(i)
    BY <1>1, <1>2, <1>3, <2>1, <2>4 DEF Kept, Written, Failed, At
  <2>5. CASE Shelved(i) \/ Unshelved(i)
    BY <1>1, <1>2, <1>3, <2>1, <2>5 DEF Shelved, Unshelved, At
  <2>6. QED
    BY <1>1, <1>7, <2>2, <2>3, <2>4, <2>5 DEF Fate
<1>8. QED
  BY <1>5, <1>6, <1>7

LEMMA PendingKept ==
  ASSUME Types, Fates, odd \subseteq odd', PendingInv
  PROVE  PendingInv'
<1> SUFFICES ASSUME Regularly({"withdrawn"})', NEW a \in Articles
             PROVE  /\ Pending(a)' # {} => state'[a] = "scheduled"
                    /\ \A j, k \in Pending(a)' : j = k
  BY DEF PendingInv
<1>1. "withdrawn" \notin odd' /\ Regularly({"withdrawn"})
  BY DEF Regularly
<1>2. /\ Pending(a) # {} => state[a] = "scheduled"
      /\ \A j, k \in Pending(a) : j = k
      /\ a \in Items /\ Fate(a)
  BY <1>1, Kinds DEF PendingInv, Fates
<1>3. /\ Pending(a) = {k \in DOMAIN published[a] : published[a][k].state = "scheduled"}
      /\ Pending(a)' = {k \in DOMAIN published'[a] : published'[a][k].state = "scheduled"}
  BY DEF Pending
<1>4. published[a] \in Seq(Entry)
  BY <1>2 DEF Types
<1>5. ASSUME NEW k \in DOMAIN published[a], NEW s \in PublishStates \ {"scheduled"},
             published'[a] = Labelled(published[a], k, s)
      PROVE  Pending(a)' = Pending(a) \ {k}
  <2>1. /\ DOMAIN published'[a] = DOMAIN published[a] /\ published'[a][k].state = s
        /\ \A m \in DOMAIN published[a] : m # k => published'[a][m] = published[a][m]
    BY <1>4, <1>5, LabelFacts
  <2>2. QED
    BY <1>3, <2>1
<1>6. CASE Posted(a)
  <2>1. /\ published'[a] \in Seq(Entry)
        /\ Len(published'[a]) = Len(published[a]) + 1
        /\ published'[a][Len(published[a]) + 1].state = state'[a]
        /\ \A k \in 1..Len(published[a]) :
             published'[a][k].state = "scheduled" => published[a][k].state = "scheduled"
    BY <1>2, <1>6, NewEntry, Zenon
  <2>2. Pending(a) = {}
    BY <1>1, <1>2, <1>6 DEF Posted
  <2>3. ASSUME NEW k \in Pending(a)'
        PROVE  k = Len(published[a]) + 1 /\ state'[a] = "scheduled"
    <3>1. k \in 1..Len(published[a]) \/ k = Len(published[a]) + 1
      BY <1>3, <1>4, <2>1
    <3>2. k \notin 1..Len(published[a])
      BY <1>3, <1>4, <2>1, <2>2
    <3>3. QED
      BY <1>3, <2>1, <3>1, <3>2
  <2>4. QED
    BY <2>3
<1>7. CASE Issued(a)
  <2>1. PICK k \in Pending(a) : published'[a] = Labelled(published[a], k, "published")
    BY <1>7 DEF Issued
  <2>2. Pending(a)' = Pending(a) \ {k}
    BY <1>3, <1>5, <2>1 DEF PublishStates
  <2>3. QED
    BY <1>2, <2>1, <2>2
<1>8. CASE Marked(a)
  <2>1. PICK k \in DOMAIN published[a] : published'[a] = Labelled(published[a], k, "being_corrected")
    BY <1>8 DEF Marked
  <2>2. Pending(a)' \subseteq Pending(a)
    BY <1>5, <2>1 DEF PublishStates
  <2>3. state[a] # "scheduled"
    BY <1>8 DEF Marked, Valid
  <2>4. QED
    BY <1>2, <2>2, <2>3
<1>9. CASE Cancelled(a)
  <2>1. published'[a] \in Base(a) /\ state[a] # "scheduled"
    BY <1>9 DEF Cancelled, Base, Valid
  <2>2. Pending(a)' \subseteq Pending(a)
    BY <1>2, <1>3, <2>1, BaseFacts
  <2>3. QED
    BY <1>2, <2>1, <2>2
<1>10. CASE Descheduled(a)
  BY <1>3, <1>10 DEF Descheduled
<1>11. CASE Kept(a) \/ Written(a) \/ Shelved(a) \/ Unshelved(a)
  <2>1. Pending(a)' = Pending(a) /\ (state[a] = "scheduled" => state'[a] = "scheduled")
    BY <1>3, <1>11 DEF Kept, Written, Shelved, Unshelved, Valid
  <2>2. QED
    BY <1>2, <2>1
<1>12. ~Failed(a)
  BY Kinds DEF Failed
<1>13. QED
  BY <1>2, <1>6, <1>7, <1>8, <1>9, <1>10, <1>11, <1>12 DEF Fate

LEMMA CorrectionKept ==
  ASSUME Types, Fates, odd \subseteq odd', CorrectionInv
  PROVE  CorrectionInv'
<1> SUFFICES ASSUME NEW i \in Items, At(i, {"correction"})',
                    i = Package => Regularly({"miscorrected"})'
             PROVE  BeingCorrected(i)' # {}
  BY DEF CorrectionInv, At
<1>1. i = Package => "miscorrected" \notin odd' /\ Regularly({"miscorrected"})
  BY DEF Regularly
<1>2. /\ Fate(i) /\ (At(i, {"correction"}) => BeingCorrected(i) # {})
  BY <1>1 DEF Fates, CorrectionInv
<1>3. state'[i] = "correction" \/ (state'[i] = "spiked" /\ revert'[i] = "correction")
  BY DEF At
<1>4. /\ BeingCorrected(i) = {k \in DOMAIN published[i] : published[i][k].state = "being_corrected"}
      /\ BeingCorrected(i)' = {k \in DOMAIN published'[i] : published'[i][k].state = "being_corrected"}
  BY DEF BeingCorrected
<1>5. CASE Marked(i)
  <2>1. PICK k \in DOMAIN published[i] : published'[i] = Labelled(published[i], k, "being_corrected")
    BY <1>5 DEF Marked
  <2>2. published[i] \in Seq(Entry) /\ "being_corrected" \in PublishStates
    BY DEF Types, PublishStates
  <2>3. k \in DOMAIN published'[i] /\ published'[i][k].state = "being_corrected"
    BY <2>1, <2>2, LabelFacts
  <2>4. QED
    BY <1>4, <2>3
<1>6. CASE Kept(i) \/ Shelved(i) \/ Unshelved(i)
  <2>1. BeingCorrected(i)' = BeingCorrected(i)
    BY <1>4, <1>6 DEF Kept, Shelved, Unshelved
  <2>2. At(i, {"correction"})
    BY <1>3, <1>6 DEF Kept, Shelved, Unshelved, At
  <2>3. QED
    BY <1>2, <2>1, <2>2
<1>7. ~(Written(i) \/ Posted(i) \/ Descheduled(i) \/ Issued(i) \/ Cancelled(i) \/ Failed(i))
  <2>1. "correction" \notin PublishStates /\ "spiked" \notin PublishStates
    BY DEF PublishStates
  <2>2. ~Written(i) /\ ~Posted(i) /\ ~Descheduled(i) /\ ~Issued(i) /\ ~Cancelled(i)
    BY <1>3, <2>1 DEF Written, Posted, Descheduled, Issued, Cancelled
  <2>3. ~Failed(i)
    BY <1>1 DEF Failed
  <2>4. QED
    BY <2>2, <2>3
<1>8. QED
  BY <1>2, <1>5, <1>6, <1>7 DEF Fate

-----------------------------------------------------------------------------
(* The package. *)

\* A package that is out, or being corrected, has nothing dead in it: nobody may kill or
\* spike what it refers to.  One that is not there refers to nothing.
DeadInv ==
  Regularly({"revived", "miscorrected"}) /\ state[Package] \in Valid.correct =>
    \A a \in groups : state[a] \notin Dead \cup {"spiked"}
AwayInv == state[Package] \in {"absent", "spiked"} => groups = {}

PackageInv == PackageLinks /\ DeadInv /\ AwayInv

\* Requests that leave the links of the package alone.
LEMMA QuietKept ==
  ASSUME PackageInv, UNCHANGED package, odd \subseteq odd', QuietPackage, NoNewDead,
         groups \subseteq Articles
  PROVE  PackageInv'
<1>1. groups' = groups /\ linked' = linked
  BY DEF package
<1>2. PackageLinks'
  BY <1>1 DEF PackageInv, PackageLinks, Regularly
<1>3. AwayInv'
  BY <1>1 DEF PackageInv, AwayInv, QuietPackage
<1>4. ASSUME Regularly({"revived", "miscorrected"})', state'[Package] \in Valid.correct,
             NEW c \in groups
      PROVE  state'[c] \notin Dead \cup {"spiked"}
  <2>1. Regularly({"revived", "miscorrected"})
    BY <1>4 DEF Regularly
  <2>2. state[Package] \in Valid.correct
    BY <1>4 DEF QuietPackage
  <2>3. state[c] \notin Dead \cup {"spiked"} /\ state[Package] \notin Dead \cup {"unpublished"}
    BY <2>1, <2>2 DEF PackageInv, DeadInv, Valid, Dead
  <2>4. QED
    BY <2>3 DEF NoNewDead
<1>5. DeadInv'
  BY <1>1, <1>4 DEF DeadInv, Dead, Valid
<1>6. QED
  BY <1>2, <1>3, <1>5 DEF PackageInv

LEMMA SpikeKept ==
  ASSUME Types, PackageInv, NEW a \in Articles, Spike(a)
  PROVE  PackageInv'
<1>1. /\ UNCHANGED <<odd, deleted>> /\ a \notin linked /\ groups' \subseteq groups /\ QuietPackage
      /\ \A c \in Articles \ {a} : state'[c] = state[c]
      /\ a \notin groups => UNCHANGED package
  BY SpikeSteps
<1>2. CASE a \notin groups
  <2>1. NoNewDead
    BY <1>1, <1>2 DEF NoNewDead
  <2>2. QED
    BY <1>1, <1>2, <2>1, QuietKept DEF Types
<1>3. CASE a \in groups
  <2>1. ~Regularly({"miscorrected"}) /\ odd' = odd
    BY <1>1, <1>3 DEF PackageInv, PackageLinks
  <2>2. ~Regularly({"miscorrected"})' /\ ~Regularly({"revived", "miscorrected"})'
    BY <2>1 DEF Regularly
  <2>3. AwayInv'
    BY <1>1 DEF PackageInv, AwayInv, QuietPackage
  <2>4. QED
    BY <2>2, <2>3 DEF PackageInv, PackageLinks, DeadInv
<1>4. QED
  BY <1>2, <1>3

LEMMA PackagingKept ==
  ASSUME Types, PackageInv, ShelfInv, Packaging
  PROVE  PackageInv'
<1> USE Kinds DEF PackageInv, PackageLinks, DeadInv, AwayInv, Regularly, Types
<1>1. CASE SpikePackage
  BY <1>1 DEF SpikePackage, Valid
<1>2. CASE UnspikePackage
  <2>1. /\ state[Package] = "spiked" /\ state' = [state EXCEPT ![Package] = revert[Package]]
        /\ groups' = deleted /\ linked' = linked \cup deleted
        /\ odd' = IF \E i \in deleted : state[i] \in Dead \cup {"spiked"} THEN odd \cup {"revived"} ELSE odd
    BY <1>2 DEF UnspikePackage
  <2>2. groups = {} /\ revert[Package] \in Valid.spike /\ odd \subseteq odd'
    BY <2>1 DEF ShelfInv
  <2>3. state'[Package] \notin {"absent", "spiked"} /\ \A c \in Articles : state'[c] = state[c]
    BY <2>1, <2>2 DEF Valid
  <2>4. PackageLinks'
    BY <2>1, <2>2
  <2>5. "revived" \in odd' \/ \A c \in deleted : state[c] \notin Dead \cup {"spiked"}
    BY <2>1
  <2>6. DeadInv'
    BY <2>1, <2>3, <2>5 DEF Valid, Dead
  <2>7. QED
    BY <2>3, <2>4, <2>6
<1>3. ASSUME NEW G \in SUBSET Offered, CreatePackage(G)
      PROVE  PackageInv'
  <2>1. /\ state[Package] = "absent" /\ state' = [state EXCEPT ![Package] = "draft"]
        /\ groups' = G /\ linked' = linked \cup G /\ odd' = odd
    BY <1>3 DEF CreatePackage
  <2>2. QED
    BY <2>1 DEF Valid
<1>4. ASSUME NEW D \in SUBSET (Offered \ groups), NEW K \in SUBSET groups, EditPackage(K \cup D)
      PROVE  PackageInv'
  <2>1. /\ Savable(state[Package]) /\ state' = [state EXCEPT ![Package] = Saved(@)]
        /\ groups' = K \cup D /\ linked' = Linked(K \cup D) /\ odd' = odd
    BY <1>4 DEF EditPackage
  <2>2. PackageLinks'
    BY <2>1 DEF Linked
  <2>3. /\ state'[Package] \notin {"absent", "spiked"} /\ \A c \in Articles : state'[c] = state[c]
        /\ state'[Package] \in Valid.correct => state[Package] = "correction"
    BY <2>1 DEF Savable, Saved, Valid
  <2>4. \A c \in K \cup D : c \in groups \/ state[c] \notin Dead \cup {"spiked"}
    BY DEF Offered
  <2>5. K \cup D \subseteq Articles
    BY DEF Offered
  <2>6. DeadInv'
    BY <2>1, <2>3, <2>4, <2>5 DEF Valid, Dead
  <2>7. QED
    BY <2>2, <2>3, <2>6
<1>5. QED
  BY <1>1, <1>2, <1>3, <1>4 DEF Packaging

LEMMA SendingKept ==
  ASSUME Types, PackageInv, Sending
  PROVE  PackageInv'
<1>1. /\ Types' /\ odd \subseteq odd' /\ state'[Package] \notin {"absent", "spiked"}
      /\ \A c \in Articles : state'[c] \in {state[c], "published"}
      /\ "miscorrected" \notin odd' =>
           /\ groups = linked => groups' = linked'
           /\ \/ state'[Package] \notin Valid.correct
              \/ \A c \in groups' : state[c] \notin Dead \cup {"spiked"}
              \/ /\ state[Package] \in Valid.correct
                 /\ \A c \in groups' : c \in groups \/ state[c] \notin Dead \cup {"spiked"}
  BY SendingSteps
<1>2. PackageLinks'
  BY <1>1 DEF PackageInv, PackageLinks, Regularly
<1>3. AwayInv'
  BY <1>1 DEF AwayInv
<1>4. ASSUME Regularly({"revived", "miscorrected"})', state'[Package] \in Valid.correct,
             NEW c \in groups'
      PROVE  state'[c] \notin Dead \cup {"spiked"}
  <2>1. Regularly({"revived", "miscorrected"}) /\ "miscorrected" \notin odd'
    BY <1>1, <1>4 DEF Regularly
  <2>2. state[c] \notin Dead \cup {"spiked"}
    BY <1>1, <1>4, <2>1 DEF PackageInv, DeadInv
  <2>3. c \in Articles
    BY <1>1 DEF Types
  <2>4. QED
    BY <1>1, <2>2, <2>3 DEF Dead
<1>5. DeadInv'
  BY <1>4 DEF DeadInv, Dead, Valid
<1>6. QED
  BY <1>2, <1>3, <1>5 DEF PackageInv

LEMMA PackageKept ==
  ASSUME Types, ShelfInv, PackageInv, Next
  PROVE  PackageInv'
<1>1. groups \subseteq Articles
  BY DEF Types
<1>2. ASSUME NEW a \in Articles, Editing(a) \/ Timing(a) \/ Posting(a) \/ Linking(a)
      PROVE  UNCHANGED package /\ odd \subseteq odd' /\ QuietPackage /\ NoNewDead
  BY <1>2, EditingSteps, TimingSteps, PostingSteps, LinkingSteps
<1>3. ASSUME NEW i \in Items, Moving(i) \/ Marking(i)
      PROVE  UNCHANGED package /\ odd \subseteq odd' /\ QuietPackage /\ NoNewDead
  BY <1>3, MovingSteps, MarkingSteps
<1>4. QED
  BY <1>1, <1>2, <1>3, NextCases, QuietKept, SpikeKept, PackagingKept, SendingKept

-----------------------------------------------------------------------------
(* Updates of a story. *)

\* The articles of an event are the same, seen from each of them.
StoryInv == \A a \in Articles : a \in story[a] /\ \A b \in story[a] : story[b] = story[a]

\* What is not there has no links; linked articles share an event.
AbsentInv ==
  \A a \in Articles : state[a] = "absent" => rewriteOf[a] = Nobody /\ rewrittenBy[a] = Nobody
EventInv ==
  Regularly({"unlinked", "refused", "chained"}) =>
    \A a, b \in Articles : rewriteOf[b] = a => a \in story[b]

LinkInv == StoryInv /\ AbsentInv /\ EventInv /\ LinksAgree

LEMMA OwnStoryKept ==
  ASSUME StoryInv, NEW b \in Articles, story \in [Articles -> SUBSET Articles], story' = OwnStory(b)
  PROVE  StoryInv'
<1>1. story' = [c \in Articles |-> IF c = b THEN {b} ELSE story[c] \ {b}]
  BY DEF OwnStory
<1>2. ASSUME NEW c \in Articles
      PROVE  c \in story'[c] /\ \A d \in story'[c] : story'[d] = story'[c]
  BY <1>1 DEF StoryInv
<1>3. QED
  BY <1>2 DEF StoryInv

LEMMA JoinStoryKept ==
  ASSUME StoryInv, NEW a \in Articles, NEW b \in Articles, a # b,
         story \in [Articles -> SUBSET Articles], story' = JoinStory(a, b)
  PROVE  StoryInv'
<1> DEFINE joined == (story[a] \ {b}) \cup {b}
<1>1. story' = [c \in Articles |-> IF c \in joined THEN joined ELSE story[c] \ {b}]
  BY DEF JoinStory
<1>2. joined \subseteq Articles
  OBVIOUS
<1>3. ASSUME NEW c \in Articles, c \notin joined, NEW d \in story[c], d # b
      PROVE  d \notin joined /\ story[d] = story[c]
  BY <1>3 DEF StoryInv
<1>4. ASSUME NEW c \in Articles
      PROVE  c \in story'[c] /\ \A d \in story'[c] : story'[d] = story'[c]
  <2>1. CASE c \in joined
    <3>1. story'[c] = joined
      BY <1>1, <2>1
    <3> HIDE DEF joined
    <3>2. QED
      BY <1>1, <1>2, <2>1, <3>1
  <2>2. CASE c \notin joined
    <3>1. c # b /\ story'[c] = story[c] \ {b}
      BY <1>1, <2>2
    <3>2. c \in story[c]
      BY DEF StoryInv
    <3>3. ASSUME NEW d \in story'[c] PROVE story'[d] = story'[c]
      <4>1. d \in story[c] /\ d # b /\ d \in Articles
        BY <3>1, <3>3
      <4>2. d \notin joined /\ story[d] = story[c]
        BY <1>3, <2>2, <4>1
      <4>3. QED
        BY <1>1, <3>1, <4>1, <4>2
    <3>4. QED
      BY <3>1, <3>2, <3>3
  <2>3. QED
    BY <2>1, <2>2
<1>5. QED
  BY <1>4 DEF StoryInv

\* A new link joins two articles that have none with each other's place taken.
LEMMA LinkedKept ==
  ASSUME Types, LinkInv, NEW a \in Articles, NEW b \in Articles, a # b, odd \subseteq odd',
         LinkRewrite(a, b), rewrittenBy[a] = Nobody, rewriteOf[b] = Nobody,
         "chained" \in odd' \/ rewrittenBy[b] = Nobody
  PROVE  EventInv' /\ LinksAgree' /\ StoryInv'
<1>1. /\ rewriteOf' = [rewriteOf EXCEPT ![b] = a] /\ rewrittenBy' = [rewrittenBy EXCEPT ![a] = b]
      /\ story' = JoinStory(a, b)
  BY DEF LinkRewrite
<1>2. SUFFICES ASSUME Regularly({"unlinked", "refused", "chained"})'
               PROVE  EventInv' /\ LinksAgree'
  BY <1>1, JoinStoryKept DEF Types, LinkInv, EventInv, LinksAgree
<1>3. /\ Regularly({"unlinked", "refused", "chained"}) /\ rewrittenBy[b] = Nobody
  BY <1>2 DEF Regularly
<1>4. \A x, y \in Articles : rewrittenBy[x] = y <=> rewriteOf[y] = x
  BY <1>3 DEF LinkInv, LinksAgree
<1>5. \A x, y \in Articles : rewrittenBy'[x] = y <=> rewriteOf'[y] = x
  BY <1>1, <1>4, Kinds DEF Types
<1>6. ASSUME NEW x \in Articles, NEW y \in Articles, rewriteOf'[y] = x PROVE x \in story'[y]
  <2> DEFINE joined == (story[a] \ {b}) \cup {b}
  <2>1. story' = [c \in Articles |-> IF c \in joined THEN joined ELSE story[c] \ {b}]
    BY <1>1 DEF JoinStory
  <2>2. a \in joined /\ b \in joined
    BY DEF LinkInv, StoryInv
  <2>3. CASE y = b
    BY <1>1, <1>6, <2>1, <2>2, <2>3 DEF Types
  <2>4. CASE y # b
    <3>1. rewriteOf[y] = x /\ rewrittenBy[x] = y
      BY <1>1, <1>4, <1>6, <2>4 DEF Types
    <3>2. x # b
      BY <1>3, <3>1, Kinds
    <3>3. x \in story[y]
      BY <1>3, <3>1 DEF LinkInv, EventInv
    <3>4. CASE y \in joined
      <4>1. story[y] = story[a]
        BY <2>4, <3>4 DEF LinkInv, StoryInv
      <4>2. x \in joined
        BY <3>2, <3>3, <4>1
      <4>3. QED
        BY <2>1, <3>4, <4>2
    <3>5. CASE y \notin joined
      BY <2>1, <3>2, <3>3, <3>5
    <3>6. QED
      BY <3>4, <3>5
  <2>5. QED
    BY <2>3, <2>4
<1>7. QED
  BY <1>5, <1>6 DEF EventInv, LinksAgree

\* An article that leaves its story takes its links with it.
LEMMA UnlinkedKept ==
  ASSUME Types, LinkInv, NEW b \in Articles, Unlink(b) \/ Spike(b)
  PROVE  EventInv' /\ LinksAgree' /\ StoryInv'
<1>1. story' = OwnStory(b) /\ odd \subseteq odd'
  BY DEF Unlink, Spike
<1>2. SUFFICES ASSUME Regularly({"unlinked", "refused", "chained"})'
               PROVE  EventInv' /\ LinksAgree'
  BY <1>1, OwnStoryKept DEF Types, LinkInv, EventInv, LinksAgree
<1>3. Regularly({"unlinked", "refused", "chained"}) /\ "unlinked" \notin odd'
  BY <1>1, <1>2 DEF Regularly
<1>4. /\ \A x, y \in Articles : rewrittenBy[x] = y <=> rewriteOf[y] = x
      /\ \A x, y \in Articles : rewriteOf[y] = x => x \in story[y]
  BY <1>3 DEF LinkInv, LinksAgree, EventInv
<1>5. \A y \in Articles : rewriteOf'[y] = IF y = b \/ y = rewrittenBy[b] THEN Nobody ELSE rewriteOf[y]
  <2>1. rewriteOf' = [Orphaned(b) EXCEPT ![b] = Nobody]
    BY DEF Unlink, Spike
  <2>2. QED
    BY <2>1 DEF Orphaned
<1>6. \A x \in Articles : rewrittenBy'[x] =
        IF x = b THEN Nobody ELSE IF rewrittenBy[x] = b THEN Nobody ELSE rewrittenBy[x]
  <2>1. \A x \in Articles : Cleared(b)[x] = IF rewrittenBy[x] = b THEN Nobody ELSE rewrittenBy[x]
    BY <1>4, Kinds DEF Cleared
  <2>2. CASE Spike(b)
    <3>1. rewrittenBy' = [Cleared(b) EXCEPT ![b] = Nobody]
      BY <2>2 DEF Spike
    <3>2. Cleared(b) \in [Articles -> Articles \cup {Nobody}]
      BY LinkTypes
    <3>3. QED
      BY <2>1, <3>1, <3>2
  <2>3. CASE Unlink(b)
    <3>1. rewrittenBy' = Cleared(b) /\ rewrittenBy[b] = Nobody
      BY <1>3, <2>3 DEF Unlink
    <3>2. QED
      BY <2>1, <3>1
  <2>4. QED
    BY <2>2, <2>3
<1>7. \A x, y \in Articles : rewrittenBy'[x] = y <=> rewriteOf'[y] = x
  BY <1>4, <1>5, <1>6, Kinds
<1>8. ASSUME NEW x \in Articles, NEW y \in Articles, rewriteOf'[y] = x PROVE x \in story'[y]
  <2>1. rewriteOf[y] = x /\ y # b /\ x # b
    BY <1>4, <1>5, <1>8, Kinds
  <2>2. story'[y] = story[y] \ {b}
    BY <1>1, <2>1 DEF OwnStory
  <2>3. QED
    BY <1>4, <2>1, <2>2
<1>9. QED
  BY <1>7, <1>8 DEF EventInv, LinksAgree

LEMMA LinkCases ==
  ASSUME Types, Next
  PROVE  UNCHANGED links \/ \E a \in Articles : Linking(a) \/ Spike(a)
<1>1. ASSUME NEW a \in Articles, Editing(a) \/ Timing(a) \/ Posting(a) PROVE UNCHANGED links
  BY <1>1, EditingSteps, TimingSteps, PostingSteps
<1>2. ASSUME NEW i \in Items, Moving(i) \/ Marking(i) PROVE UNCHANGED links
  BY <1>2, MovingSteps, MarkingSteps
<1>3. CASE Packaging \/ Sending
  BY <1>3, PackagingSteps, SendingSteps
<1>4. QED
  BY <1>1, <1>2, <1>3, NextCases

\* No item is forgotten.
LEMMA NeverAbsent ==
  ASSUME Types, Fates, ShelfInv, NEW i \in Items, state'[i] = "absent"
  PROVE  state[i] = "absent"
<1>1. Fate(i) /\ (state[i] = "spiked" => revert[i] \in Valid.spike)
  BY DEF Fates, ShelfInv
<1>2. "absent" \notin Valid.spike /\ "absent" \notin PublishStates
  BY DEF Valid, PublishStates
<1>3. QED
  BY <1>1, <1>2 DEF Fate, Kept, Written, Posted, Descheduled, Issued, Marked, Cancelled, Shelved,
                    Unshelved, Failed

LEMMA LinkKept ==
  ASSUME Types, Types', Fates, odd \subseteq odd', ShelfInv, LinkInv, Next
  PROVE  LinkInv'
<1>1. \A a \in Articles : state'[a] = "absent" =>
        state[a] = "absent" /\ rewriteOf[a] = Nobody /\ rewrittenBy[a] = Nobody
  BY NeverAbsent, Kinds DEF LinkInv, AbsentInv
<1>2. CASE UNCHANGED links
  <2>1. rewriteOf' = rewriteOf /\ rewrittenBy' = rewrittenBy /\ story' = story
    BY <1>2 DEF links
  <2>2. QED
    BY <1>1, <2>1 DEF LinkInv, StoryInv, AbsentInv, EventInv, LinksAgree, Regularly
<1>3. ASSUME NEW b \in Articles, Unlink(b) \/ Spike(b)
      PROVE  LinkInv'
  <2>1. EventInv' /\ LinksAgree' /\ StoryInv'
    BY <1>3, UnlinkedKept
  <2>2. \A c \in Articles : rewriteOf'[c] \in {rewriteOf[c], Nobody}
    BY <1>3 DEF Unlink, Spike, Orphaned
  <2>3. \A c \in Articles : rewrittenBy'[c] \in {rewrittenBy[c], Nobody}
    BY <1>3, LinkTypes DEF Unlink, Spike, Cleared
  <2>4. AbsentInv'
    BY <1>1, <2>2, <2>3 DEF AbsentInv
  <2>5. QED
    BY <2>1, <2>4 DEF LinkInv
<1>4. ASSUME NEW b \in Articles, SpikeRefused(b)
      PROVE  LinkInv'
  <2>1. rewriteOf' = Orphaned(b) /\ rewrittenBy' = Cleared(b) /\ story' = story /\ "refused" \in odd'
    BY <1>4 DEF SpikeRefused
  <2>2. EventInv' /\ LinksAgree' /\ StoryInv'
    BY <2>1 DEF EventInv, LinksAgree, LinkInv, StoryInv, Regularly
  <2>3. AbsentInv'
    BY <1>1, <2>1 DEF AbsentInv, Orphaned, Cleared
  <2>4. QED
    BY <2>2, <2>3 DEF LinkInv
<1>5. ASSUME NEW a \in Articles, NEW b \in Articles, Rewrite(a, b) \/ Associate(a, b)
      PROVE  LinkInv'
  <2>1. /\ LinkRewrite(a, b) /\ rewrittenBy[a] = Nobody /\ state[a] # "absent"
        /\ state' = [state EXCEPT ![b] = "in_progress"]
    BY <1>5 DEF Rewrite, Associate, Rewritable, Valid
  <2>2. /\ a # b /\ rewriteOf[b] = Nobody
        /\ "chained" \in odd' \/ rewrittenBy[b] = Nobody
    <3>1. CASE Rewrite(a, b)
      BY <2>1, <3>1 DEF Rewrite, LinkInv, AbsentInv
    <3>2. CASE Associate(a, b)
      BY <3>2 DEF Associate
    <3>3. QED
      BY <1>5, <3>1, <3>2
  <2>3. EventInv' /\ LinksAgree' /\ StoryInv'
    BY <2>1, <2>2, LinkedKept
  <2>4. state'[b] = "in_progress"
    BY <2>1, Kinds DEF Types
  <2>5. AbsentInv'
    BY <1>1, <2>1, <2>4 DEF AbsentInv, LinkRewrite, Types
  <2>6. QED
    BY <2>3, <2>5 DEF LinkInv
<1>6. QED
  BY <1>2, <1>3, <1>4, <1>5, LinkCases DEF Linking

\* An article that becomes an update has not been out, or the association was irregular.
LEMMA NewUpdates ==
  ASSUME Types, EntryInv, Next, NEW b \in Articles
  PROVE  \/ rewriteOf'[b] \in {rewriteOf[b], Nobody}
         \/ published'[b] = <<>> \/ "associated" \in odd'
<1>1. CASE UNCHANGED links
  BY <1>1 DEF links
<1>2. ASSUME NEW a \in Articles, Unlink(a) \/ Spike(a) \/ SpikeRefused(a)
      PROVE  rewriteOf'[b] \in {rewriteOf[b], Nobody}
  BY <1>2 DEF Unlink, Spike, SpikeRefused, Orphaned
<1>3. ASSUME NEW a \in Articles, NEW c \in Articles, Rewrite(a, c)
      PROVE  rewriteOf'[b] = rewriteOf[b] \/ published'[b] = <<>>
  BY <1>3, Kinds DEF Rewrite, LinkRewrite, EntryInv, Types
<1>4. ASSUME NEW a \in Articles, NEW c \in Articles, Associate(a, c)
      PROVE  rewriteOf'[b] = rewriteOf[b] \/ published'[b] = <<>> \/ "associated" \in odd'
  BY <1>4, Kinds DEF Associate, LinkRewrite, Types
<1>5. QED
  BY <1>1, <1>2, <1>3, <1>4, LinkCases DEF Linking

\* What stands in the published collection for an article's state: its last entry waits
\* while it is scheduled, some entry is out when it was withdrawn, and some entry is a
\* version when it was published or corrected.
OutInv ==
  \A a \in Articles :
    /\ state[a] = "scheduled" =>
         Len(published[a]) # 0 /\ published[a][Len(published[a])].state = "scheduled"
    /\ At(a, Dead \cup {"unpublished"}) => Out(a) # {}
    /\ At(a, Valid.correct) => Versions(a) # {}

LEMMA OutFacts ==
  /\ \A a \in Articles : Versions(a) \subseteq Out(a)
  /\ \A a \in Articles : Versions(a)' \subseteq Out(a)'
  /\ \A a : Versions(a) = {k \in DOMAIN published[a] : published[a][k].state \in VersionStates}
  /\ \A a : Versions(a)' = {k \in DOMAIN published'[a] : published'[a][k].state \in VersionStates}
  /\ \A a : Out(a) = {k \in DOMAIN published[a] : published[a][k].state # "scheduled"}
  /\ \A a : Out(a)' = {k \in DOMAIN published'[a] : published'[a][k].state # "scheduled"}
BY DEF Versions, Out, Pending, VersionStates

\* Entries do not go away, unless the article is descheduled, and none is to wait again.
LEMMA EntriesStay ==
  ASSUME Types, NEW i \in Items, Fate(i), "descheduled" \notin odd', NEW k \in DOMAIN published[i]
  PROVE  /\ k \in DOMAIN published'[i] /\ published'[i][k].due = published[i][k].due
         /\ published'[i][k].state = "scheduled" => published[i][k].state = "scheduled"
<1>1. published[i] \in Seq(Entry)
  BY DEF Types
<1>2. CASE Posted(i)
  <2>1. /\ published'[i] \in Seq(Entry)
        /\ Len(published'[i]) = Len(published[i]) + 1
        /\ \A m \in 1..Len(published[i]) :
             published'[i][m].state = "scheduled" => published[i][m].state = "scheduled"
        /\ \A m \in 1..Len(published[i]) :
             /\ published'[i][m].due = published[i][m].due
             /\ published'[i][m].state \in VersionStates <=> published[i][m].state \in VersionStates
    BY <1>2, NewEntry, Zenon
  <2>2. k \in 1..Len(published[i]) /\ k \in DOMAIN published'[i]
    BY <1>1, <2>1
  <2>3. QED
    BY <2>1, <2>2
<1>3. ~Descheduled(i)
  BY DEF Descheduled
<1>4. ASSUME ~Posted(i)
      PROVE  k \in DOMAIN published'[i] /\ published'[i][k].due = published[i][k].due
  BY <1>3, <1>4, OldEntries, Zenon
<1>5. ASSUME NEW m \in DOMAIN published[i], NEW s \in PublishStates \ {"scheduled"},
             published'[i] = Labelled(published[i], m, s)
      PROVE  published'[i][k].state = "scheduled" => published[i][k].state = "scheduled"
  <2>1. s \in PublishStates /\ s # "scheduled"
    OBVIOUS
  <2>2. /\ Labelled(published[i], m, s)[m].state = s
        /\ k # m => Labelled(published[i], m, s)[k] = published[i][k]
    BY <1>1, <2>1, LabelFacts
  <2>3. QED
    BY <1>5, <2>1, <2>2
<1>6. ASSUME Issued(i) PROVE published'[i][k].state = "scheduled" => published[i][k].state = "scheduled"
  BY <1>5, <1>6 DEF Issued, Pending, PublishStates
<1>7. ASSUME Marked(i) PROVE published'[i][k].state = "scheduled" => published[i][k].state = "scheduled"
  BY <1>5, <1>7 DEF Marked, PublishStates
<1>8. ASSUME Cancelled(i) \/ Failed(i) PROVE published'[i][k].state = "scheduled" => published[i][k].state = "scheduled"
  <2>1. published'[i] \in Base(i)
    BY <1>8 DEF Cancelled, Failed, Base
  <2>2. QED
    BY <2>1, BaseFacts
<1>9. ASSUME Kept(i) \/ Written(i) \/ Shelved(i) \/ Unshelved(i) PROVE published'[i][k].state = "scheduled" => published[i][k].state = "scheduled"
  BY <1>9 DEF Kept, Written, Shelved, Unshelved
<1>10. CASE ~Posted(i)
  BY <1>3, <1>4, <1>6, <1>7, <1>8, <1>9, <1>10 DEF Fate
<1>11. QED
  BY <1>2, <1>10

\* So what was out before a time is.
LEMMA OutStays ==
  ASSUME Types, NEW a \in Articles, Fate(a), "descheduled" \notin odd'
  PROVE  /\ Out(a) # {} => Out(a)' # {}
         /\ \A t : Before(a, t) => Out(a)' # {} \/ \E k \in Pending(a)' : published'[a][k].due < t
<1>1. \A k \in DOMAIN published[a] :
        /\ k \in DOMAIN published'[a] /\ published'[a][k].due = published[a][k].due
        /\ published'[a][k].state = "scheduled" => published[a][k].state = "scheduled"
  BY EntriesStay, Kinds
<1>2. Out(a) \subseteq Out(a)'
  BY <1>1, OutFacts
<1>3. ASSUME NEW t, NEW k \in Pending(a), published[a][k].due < t
      PROVE  Out(a)' # {} \/ \E m \in Pending(a)' : published'[a][m].due < t
  <2>1. k \in DOMAIN published'[a] /\ published'[a][k].due < t
    BY <1>1, <1>3 DEF Pending
  <2>2. CASE published'[a][k].state = "scheduled"
    BY <2>1, <2>2 DEF Pending
  <2>3. CASE published'[a][k].state # "scheduled"
    BY <2>1, <2>3, OutFacts
  <2>4. QED
    BY <2>2, <2>3
<1>4. QED
  BY <1>2, <1>3 DEF Before

\* Where new versions and new waiting entries come from.
LEMMA NewVersions ==
  ASSUME Types, NEW a \in Articles, Fate(a), OutInv
  PROVE  /\ Versions(a)' # {} =>
              \/ Versions(a) # {} \/ Issued(a)
              \/ Posted(a) /\ state'[a] \in VersionStates
         /\ \A k \in Pending(a)' :
              \/ k \in Pending(a) /\ published'[a][k].due = published[a][k].due
              \/ Posted(a) /\ state'[a] = "scheduled" /\ k = Len(published'[a])
<1>1. a \in Items /\ published[a] \in Seq(Entry)
  BY Kinds DEF Types
<1>2. /\ Pending(a) = {k \in DOMAIN published[a] : published[a][k].state = "scheduled"}
      /\ Pending(a)' = {k \in DOMAIN published'[a] : published'[a][k].state = "scheduled"}
  BY DEF Pending
<1>3. CASE Posted(a)
  <2>1. /\ published'[a] \in Seq(Entry)
        /\ Len(published'[a]) = Len(published[a]) + 1
        /\ published'[a][Len(published[a]) + 1].state = state'[a]
        /\ \A k \in 1..Len(published[a]) :
             published'[a][k].state = "scheduled" => published[a][k].state = "scheduled"
        /\ \A k \in 1..Len(published[a]) :
             /\ published'[a][k].due = published[a][k].due
             /\ published'[a][k].state \in VersionStates <=> published[a][k].state \in VersionStates
    BY <1>1, <1>3, NewEntry
  <2>2. /\ DOMAIN published[a] = 1..Len(published[a])
        /\ \A k \in DOMAIN published'[a] : k \in 1..Len(published[a]) \/ k = Len(published[a]) + 1
    BY <1>1, <2>1
  <2>3. ASSUME NEW k \in Versions(a)', state'[a] \notin VersionStates
        PROVE  Versions(a) # {}
    <3>1. k \in DOMAIN published'[a] /\ published'[a][k].state \in VersionStates
      BY OutFacts
    <3>2. k \in 1..Len(published[a])
      BY <2>1, <2>2, <2>3, <3>1
    <3>3. QED
      BY <2>1, <2>2, <3>1, <3>2, OutFacts
  <2>4. ASSUME NEW k \in Pending(a)'
        PROVE  \/ k \in Pending(a) /\ published'[a][k].due = published[a][k].due
               \/ state'[a] = "scheduled" /\ k = Len(published'[a])
    BY <1>2, <2>1, <2>2
  <2>5. QED
    BY <1>3, <2>3, <2>4
<1>4. CASE Descheduled(a)
  BY <1>2, <1>4, OutFacts DEF Descheduled
<1>5. CASE ~Posted(a) /\ ~Descheduled(a)
  <2>1. /\ DOMAIN published'[a] = DOMAIN published[a]
        /\ \A k \in DOMAIN published[a] : published'[a][k].due = published[a][k].due
    BY <1>1, <1>5, OldEntries
  <2>2. ASSUME NEW m \in DOMAIN published[a], NEW s \in PublishStates \ {"scheduled"},
               published'[a] = Labelled(published[a], m, s)
        PROVE  Pending(a)' \subseteq Pending(a)
    BY <1>1, <1>2, <2>2, LabelFacts
  <2>3. CASE Issued(a)
    <3>1. Pending(a)' \subseteq Pending(a)
      BY <2>2, <2>3 DEF Issued, Pending, PublishStates
    <3>2. QED
      BY <1>2, <2>1, <2>3, <3>1
  <2>4. CASE Marked(a) \/ Cancelled(a)
    <3>1. Versions(a) # {}
      BY <2>4 DEF Marked, Cancelled, OutInv, At, Valid
    <3>2. Pending(a)' \subseteq Pending(a)
      <4>1. CASE Marked(a)
        BY <2>2, <4>1 DEF Marked, PublishStates
      <4>2. CASE Cancelled(a)
        <5>1. published'[a] \in Base(a)
          BY <4>2 DEF Cancelled, Base
        <5>2. QED
          BY <1>1, <1>2, <5>1, BaseFacts
      <4>3. QED
        BY <2>4, <4>1, <4>2
    <3>3. QED
      BY <1>2, <2>1, <3>1, <3>2
  <2>5. CASE Kept(a) \/ Written(a) \/ Shelved(a) \/ Unshelved(a)
    <3>1. published'[a] = published[a]
      BY <2>5 DEF Kept, Written, Shelved, Unshelved
    <3>2. QED
      BY <1>2, <3>1, OutFacts
  <2>6. ~Failed(a)
    BY Kinds DEF Failed
  <2>7. QED
    BY <1>5, <2>3, <2>4, <2>5, <2>6 DEF Fate
<1>6. QED
  BY <1>3, <1>4, <1>5

LEMMA OutKept ==
  ASSUME Types, Fates, ShelfInv, OutInv
  PROVE  OutInv'
<1> DEFINE Gone == Dead \cup {"unpublished"}
<1> SUFFICES ASSUME NEW a \in Articles
             PROVE  /\ state'[a] = "scheduled" =>
                         Len(published'[a]) # 0 /\ published'[a][Len(published'[a])].state = "scheduled"
                    /\ At(a, Gone)' => Out(a)' # {}
                    /\ At(a, Valid.correct)' => Versions(a)' # {}
  BY DEF OutInv
<1>1. /\ a \in Items /\ Fate(a) /\ published[a] \in Seq(Entry)
      /\ state[a] = "spiked" => revert[a] \in Valid.spike
  BY Kinds DEF Fates, Types, ShelfInv
<1>2. /\ state[a] = "scheduled" =>
           Len(published[a]) # 0 /\ published[a][Len(published[a])].state = "scheduled"
      /\ At(a, Gone) => Out(a) # {}
      /\ At(a, Valid.correct) => Versions(a) # {}
  BY DEF OutInv
<1>3. /\ At(a, Gone)' <=> state'[a] \in Gone \/ (state'[a] = "spiked" /\ revert'[a] \in Gone)
      /\ At(a, Valid.correct)' <=>
           state'[a] \in Valid.correct \/ (state'[a] = "spiked" /\ revert'[a] \in Valid.correct)
  BY DEF At, Dead, Valid
<1>4. ASSUME NEW k \in DOMAIN published[a], NEW s \in VersionStates,
             published'[a] = Labelled(published[a], k, s)
      PROVE  Versions(a)' # {}
  <2>0. s \in PublishStates
    BY DEF VersionStates, PublishStates
  <2>1. k \in DOMAIN published'[a] /\ published'[a][k].state = s
    <3>1. /\ DOMAIN Labelled(published[a], k, s) = DOMAIN published[a]
          /\ Labelled(published[a], k, s)[k].state = s
      BY <1>1, <2>0, LabelFacts
    <3>2. QED
      BY <1>4, <3>1, Zenon
  <2>2. QED
    BY <2>1, OutFacts
<1>5. CASE Posted(a)
  <2>1. /\ published[a] \in Seq(Entry) /\ published'[a] \in Seq(Entry)
        /\ Len(published'[a]) = Len(published[a]) + 1
        /\ published'[a][Len(published[a]) + 1].state = state'[a]
    BY <1>1, <1>5, NewEntry
  <2> DEFINE n == Len(published[a]) + 1
  <2>2. n \in DOMAIN published'[a] /\ n = Len(published'[a]) /\ n # 0
    BY <2>1
  <2>3. /\ state'[a] # "scheduled" => n \in Out(a)'
        /\ state'[a] \in VersionStates => n \in Versions(a)'
    BY <2>1, <2>2, OutFacts
  <2>4. state'[a] \in PublishStates \ {"being_corrected"}
    BY <1>5 DEF Posted
  <2>5. state'[a] # "spiked" /\ (state'[a] \in Valid.correct => state'[a] \in VersionStates)
    BY <2>4 DEF PublishStates, Valid, VersionStates
  <2>6. state'[a] \in Gone => state'[a] # "scheduled"
    BY DEF Dead
  <2>7. QED
    BY <1>3, <2>1, <2>2, <2>3, <2>5, <2>6
<1>6. CASE Descheduled(a)
  BY <1>3, <1>6 DEF Descheduled, Valid, Dead
<1>7. CASE Issued(a)
  <2>1. PICK k \in Pending(a) : published'[a] = Labelled(published[a], k, "published")
    BY <1>7 DEF Issued
  <2>2. Versions(a)' # {} /\ state'[a] = "published"
    BY <1>4, <1>7, <2>1 DEF Issued, Pending, VersionStates
  <2>3. QED
    BY <1>3, <2>2 DEF Dead
<1>8. CASE Marked(a)
  <2>1. Versions(a)' # {} /\ state'[a] = "correction"
    BY <1>4, <1>8 DEF Marked, VersionStates
  <2>2. QED
    BY <1>3, <2>1 DEF Dead
<1>9. CASE Cancelled(a)
  <2>1. PICK k \in BeingCorrected(a) : published'[a] = Restore(a, k)
    BY <1>9 DEF Cancelled
  <2>2. /\ k \in DOMAIN published[a]
        /\ \E s \in {"corrected", "published"} : Restore(a, k) = Labelled(published[a], k, s)
    BY <1>1, RestoreFacts
  <2>3. Versions(a)' # {} /\ state'[a] \in {"corrected", "published"}
    BY <1>4, <1>9, <2>1, <2>2 DEF Cancelled, VersionStates
  <2>4. QED
    BY <1>3, <2>3 DEF Dead
<1>10. CASE Kept(a) \/ Shelved(a) \/ Unshelved(a)
  <2>1. published'[a] = published[a] /\ Out(a)' = Out(a) /\ Versions(a)' = Versions(a)
    BY <1>10, OutFacts DEF Kept, Shelved, Unshelved
  <2>2. /\ state'[a] = "scheduled" => state[a] = "scheduled"
        /\ At(a, Gone)' => At(a, Gone)
        /\ At(a, Valid.correct)' => At(a, Valid.correct)
    <3>1. /\ "scheduled" \notin Valid.spike /\ "spiked" \notin Gone /\ "spiked" \notin Valid.correct
          /\ "absent" \notin Gone /\ "absent" \notin Valid.correct
      BY DEF Valid, Dead
    <3>2. CASE Kept(a)
      BY <3>2, <1>3 DEF Kept, At
    <3>3. CASE Shelved(a)
      BY <3>1, <3>3, <1>3 DEF Shelved, At
    <3>4. CASE Unshelved(a)
      BY <1>1, <1>3, <3>1, <3>4 DEF Unshelved, At
    <3>5. QED
      BY <1>10, <3>2, <3>3, <3>4
  <2>3. QED
    BY <1>2, <2>1, <2>2
<1>11. CASE Written(a)
  BY <1>3, <1>11 DEF Written, Valid, Dead
<1>12. ~Failed(a)
  BY Kinds DEF Failed
<1>13. QED
  BY <1>1, <1>5, <1>6, <1>7, <1>8, <1>9, <1>10, <1>11, <1>12 DEF Fate

\* An article is posted as a version, or to wait, when its original is out before that.
LEMMA PostedAfter ==
  ASSUME Types, Types', Fates, OutInv, OutInv', "descheduled" \notin odd',
         NEW a \in Articles, NEW b \in Articles, rewriteOf[b] = a, Posted(b),
         state'[b] \in VersionStates \cup {"scheduled"}, Versions(b) # {} => Out(a) # {}
  PROVE  \/ Out(a)' # {}
         \/ /\ state'[b] = "scheduled"
            /\ \E k \in Pending(a)' : published'[a][k].due < published'[b][Len(published'[b])].due
<1>1. /\ Fate(a) /\ a # Nobody /\ a \in Items
      /\ \/ state[b] \in Valid.correct /\ state'[b] # "scheduled"
         \/ OriginalReady(b)
  BY Kinds DEF Fates, Posted, VersionStates, Dead
<1>2. Out(a) # {} => Out(a)' # {}
  BY <1>1, OutStays
<1>3. \A s \in ArchiveStates : s \in PublishStates \ {"scheduled"} =>
        s \in Valid.correct \/ s \in Dead \cup {"unpublished"}
  BY DEF ArchiveStates, PublishStates, Valid, Dead
<1>4. CASE state[b] \in Valid.correct
  BY <1>2, <1>4 DEF OutInv, At
<1>5. CASE state[a] \in PublishStates \ {"scheduled"}
  <2>1. state[a] \in ArchiveStates
    BY <1>1 DEF Types
  <2>2. /\ state[a] \in Dead \cup {"unpublished"} => Out(a) # {}
        /\ state[a] \in Valid.correct => Versions(a) # {}
    BY DEF OutInv, At
  <2>3. QED
    BY <1>2, <1>3, <1>5, <2>1, <2>2, OutFacts
<1>6. CASE state'[a] \in PublishStates \ {"scheduled"}
  <2>1. state'[a] \in ArchiveStates
    BY <1>1 DEF Types
  <2>2. /\ state'[a] \in Dead \cup {"unpublished"} => Out(a)' # {}
        /\ state'[a] \in Valid.correct => Versions(a)' # {}
    BY DEF OutInv, At
  <2>3. QED
    BY <1>3, <1>6, <2>1, <2>2, OutFacts
<1>7. CASE /\ state'[b] = "scheduled" /\ state[a] = "scheduled"
           /\ DueOf(a) < published'[b][Len(published'[b])].due
  <2>1. /\ Len(published[a]) # 0 /\ published[a][Len(published[a])].state = "scheduled"
        /\ published[a] \in Seq(Entry)
    BY <1>1, <1>7 DEF OutInv, Types
  <2>2. Len(published[a]) \in Pending(a)
    BY <2>1 DEF Pending
  <2>3. Before(a, published'[b][Len(published'[b])].due)
    BY <1>7, <2>2 DEF Before, DueOf
  <2>4. QED
    BY <1>1, <1>7, <2>3, OutStays
<1>8. QED
  BY <1>1, <1>4, <1>5, <1>6, <1>7 DEF OriginalReady

LEMMA UpdateKept ==
  ASSUME Types, Types', Fates, odd \subseteq odd', EntryInv, OutInv, OutInv', UpdateAfterOriginal, Next
  PROVE  UpdateAfterOriginal'
<1> SUFFICES ASSUME Regularly({"descheduled", "associated"})', NEW a \in Articles, NEW b \in Articles,
                    rewriteOf'[b] = a
             PROVE  /\ Versions(b)' # {} => Out(a)' # {}
                    /\ \A k \in Pending(b)' : Before(a, published[b][k].due)'
  BY DEF UpdateAfterOriginal
<1>1. /\ "descheduled" \notin odd' /\ "associated" \notin odd'
      /\ Regularly({"descheduled", "associated"})
  BY DEF Regularly
<1>2. a \in Items /\ b \in Items /\ Fate(a) /\ Fate(b) /\ published[b] \in Seq(Entry)
  BY Kinds DEF Fates, Types
<1>3. \A t : Out(a)' # {} \/ (\E k \in Pending(a)' : published'[a][k].due < t) =>
        (Out(a) # {} \/ \E k \in Pending(a) : published[a][k].due < t)'
  OBVIOUS
<1>4. CASE published'[b] = <<>>
  BY <1>4 DEF Versions, Pending
<1>5. CASE published'[b] # <<>>
  <2>1. rewriteOf[b] = a
    BY <1>1, <1>5, NewUpdates, Kinds
  <2>2. /\ Versions(b) # {} => Out(a) # {}
        /\ \A k \in Pending(b) : Before(a, published[b][k].due)
    BY <1>1, <2>1 DEF UpdateAfterOriginal
  <2>3. /\ Out(a) # {} => Out(a)' # {}
        /\ \A t : Before(a, t) => Out(a)' # {} \/ \E k \in Pending(a)' : published'[a][k].due < t
    BY <1>1, <1>2, OutStays
  <2>4. Posted(b) /\ state'[b] \in VersionStates => Out(a)' # {}
    BY <1>1, <2>1, <2>2, PostedAfter DEF VersionStates
  <2>5. ASSUME Issued(b) PROVE Out(a)' # {}
    <3>1. PICK k \in Pending(b) :
            \A m \in Pending(a) : published[b][k].due <= published[a][m].due
      BY <2>5 DEF Issued
    <3>2. published[a] \in Seq(Entry) /\ k \in DOMAIN published[b]
      BY <1>2 DEF Types, Pending
    <3>3. published[b][k].due \in Nat /\ \A m \in DOMAIN published[a] : published[a][m].due \in Nat
      <4>1. \A e \in Entry : e.due \in Nat
        <5>1. \A e \in Entry : e.due \in Slots \cup {0}
          BY DEF Entry
        <5>2. Slots \cup {0} \subseteq Nat
          BY WorkflowAssumption
        <5>3. QED
          BY <5>1, <5>2
      <4>2. published[b][k] \in Entry /\ \A m \in DOMAIN published[a] : published[a][m] \in Entry
        BY <1>2, <3>2
      <4>3. QED
        BY <4>1, <4>2
    <3>4. ~\E m \in Pending(a) : published[a][m].due < published[b][k].due
      BY <3>1, <3>3 DEF Pending
    <3>5. QED
      BY <2>2, <2>3, <3>4 DEF Before
  <2>6. Versions(b)' # {} => Out(a)' # {}
    BY <1>2, <2>2, <2>3, <2>4, <2>5, NewVersions
  <2>7. ASSUME NEW k \in Pending(b)'
        PROVE  Out(a)' # {} \/ \E m \in Pending(a)' : published'[a][m].due < published'[b][k].due
    <3>1. CASE k \in Pending(b) /\ published'[b][k].due = published[b][k].due
      BY <2>2, <2>3, <3>1
    <3>2. CASE Posted(b) /\ state'[b] = "scheduled" /\ k = Len(published'[b])
      BY <1>1, <2>1, <2>2, <3>2, PostedAfter
    <3>3. QED
      BY <1>2, <3>1, <3>2, NewVersions
  <2>8. QED
    BY <2>6, <2>7 DEF Before
<1>6. QED
  BY <1>4, <1>5

-----------------------------------------------------------------------------
(* The theorems. *)

IInv == Types /\ EntriesInv /\ OutInv /\ PackageInv /\ LinkInv /\ UpdateAfterOriginal

LEMMA InitIInv == ASSUME Init PROVE IInv /\ TypeOK
<1>1. <<>> \in Seq(Entry) /\ "published" \in PublishStates /\ FALSE \in BOOLEAN /\ 0 \in Slots \cup {0}
  BY DEF PublishStates
<1> DEFINE first == Post(<<>>, "published", FALSE, 0)
<1>2. /\ first \in Seq(Entry) /\ Len(first) = 1 /\ first[1].last = TRUE
      /\ first[1].state = "published"
  <2>1. /\ first \in Seq(Entry) /\ Len(first) = Len(<<>>) + 1
        /\ first[Len(<<>>) + 1] = [state |-> "published", last |-> TRUE, amended |-> FALSE, due |-> 0]
    BY <1>1, PostFacts
  <2> HIDE DEF first
  <2>2. Len(<<>>) + 1 = 1
    OBVIOUS
  <2>3. QED
    BY <2>1, <2>2
<1> HIDE DEF first
<1>3. /\ state \in [Items -> {"absent", "submitted", "published"}] /\ state[Package] = "absent"
      /\ revert = [i \in Items |-> "absent"]
      /\ amended = [i \in Items |-> FALSE]
      /\ published = [i \in Items |-> IF state[i] = "published" THEN first ELSE <<>>]
      /\ rewriteOf = [a \in Articles |-> Nobody] /\ rewrittenBy = [a \in Articles |-> Nobody]
      /\ story = [a \in Articles |-> {a}]
      /\ groups = {} /\ deleted = {} /\ linked = {} /\ odd = {} /\ requests = 0
  BY DEF Init, first
<1>4. Types
  BY <1>1, <1>2, <1>3 DEF Types, ArchiveStates
<1>5. TypeOK
  BY <1>3, <1>4, WorkflowAssumption DEF Types, TypeOK
<1>6. LastVersion
  <2>1. ASSUME NEW i \in Items, NEW k \in DOMAIN published[i]
        PROVE  published[i][k].last <=> k = Len(published[i])
    <3>1. published[i] = first /\ k = 1
      BY <1>2, <1>3, <2>1
    <3>2. QED
      BY <1>2, <3>1
  <2>2. QED
    BY <2>1 DEF LastVersion
<1>7. ShelfInv /\ EntryInv
  <2>1. first # <<>>
    BY <1>2
  <2>2. \A i \in Items : state[i] # "spiked" /\ (state[i] \in OutStates => state[i] = "published")
    BY <1>3 DEF OutStates, PublishStates
  <2>3. QED
    BY <1>3, <2>1, <2>2 DEF ShelfInv, EntryInv, At
<1>8. \A i \in Items : Pending(i) = {}
  BY <1>2, <1>3 DEF Pending
<1>9. PendingInv /\ CorrectionInv
  BY <1>3, <1>8, Kinds DEF PendingInv, CorrectionInv, At
<1>10. PackageInv
  BY <1>3 DEF PackageInv, PackageLinks, DeadInv, AwayInv
<1>11. LinkInv
  BY <1>3, Kinds DEF LinkInv, StoryInv, AbsentInv, EventInv, LinksAgree
<1>12. UpdateAfterOriginal
  BY <1>3, Kinds DEF UpdateAfterOriginal
<1>13. OutInv
  <2>1. \A a \in Articles : state[a] \in {"absent", "submitted", "published"}
    BY <1>3, Kinds
  <2>2. ASSUME NEW a \in Articles, state[a] = "published" PROVE Versions(a) # {}
    <3>1. published[a] = first /\ 1 \in DOMAIN first
      BY <1>2, <1>3, <2>2, Kinds
    <3>2. QED
      BY <1>2, <3>1 DEF Versions
  <2>3. QED
    BY <2>1, <2>2 DEF OutInv, At, Dead, Valid
<1>14. QED
  BY <1>4, <1>5, <1>6, <1>7, <1>9, <1>10, <1>11, <1>12, <1>13 DEF IInv, EntriesInv

LEMMA NextIInv == ASSUME IInv, [Next]_vars PROVE IInv'
<1>1. CASE Next
  <2>1. Types' /\ Fates /\ odd \subseteq odd'
    BY <1>1, NextSteps DEF IInv
  <2>2. EntriesInv'
    BY <2>1, VersionKept, ShelfKept, EntryKept, PendingKept, CorrectionKept DEF IInv, EntriesInv
  <2>3. PackageInv'
    BY <1>1, PackageKept DEF IInv, EntriesInv
  <2>4. LinkInv'
    BY <1>1, <2>1, LinkKept DEF IInv, EntriesInv
  <2>5. OutInv'
    BY <2>1, OutKept DEF IInv, EntriesInv
  <2>6. UpdateAfterOriginal'
    BY <1>1, <2>1, <2>5, UpdateKept DEF IInv, EntriesInv
  <2>7. QED
    BY <2>1, <2>2, <2>3, <2>4, <2>5, <2>6 DEF IInv
<1>2. CASE UNCHANGED vars
  <2>1. /\ state' = state /\ revert' = revert /\ published' = published /\ odd' = odd
        /\ rewriteOf' = rewriteOf /\ rewrittenBy' = rewrittenBy /\ story' = story
        /\ groups' = groups /\ deleted' = deleted /\ linked' = linked
    BY <1>2 DEF vars, links, package
  <2>2. amended' = amended
    BY <1>2, Zenon DEF vars
  <2>3. Types'
    BY <2>1, <2>2, Zenon DEF IInv, Types
  <2>4. LastVersion'
    BY <2>1, Zenon DEF IInv, EntriesInv, LastVersion
  <2>5. ShelfInv' /\ EntryInv' /\ PendingInv' /\ CorrectionInv'
    BY <2>1 DEF IInv, EntriesInv, ShelfInv, EntryInv, PendingInv, CorrectionInv, At, Pending,
                BeingCorrected, Regularly
  <2>6. PackageInv'
    BY <2>1 DEF IInv, PackageInv, PackageLinks, DeadInv, AwayInv, Regularly
  <2>7. LinkInv'
    BY <2>1 DEF IInv, LinkInv, StoryInv, AbsentInv, EventInv, LinksAgree, Regularly
  <2>8. /\ \A a : Pending(a)' = Pending(a) /\ Out(a)' = Out(a) /\ Versions(a)' = Versions(a)
        /\ \A a, S : At(a, S)' <=> state'[a] \in S' \/ (state'[a] = "spiked" /\ revert'[a] \in S')
    BY <2>1 DEF Pending, Out, Versions, At
  <2>9. OutInv'
    BY <2>1, <2>8 DEF IInv, OutInv, At
  <2>10. UpdateAfterOriginal'
    BY <2>1, <2>8 DEF IInv, UpdateAfterOriginal, Before, Regularly
  <2>11. QED
    BY <2>3, <2>4, <2>5, <2>6, <2>7, <2>9, <2>10 DEF IInv, EntriesInv
<1>3. QED
  BY <1>1, <1>2

LEMMA Always == Spec => []IInv
BY InitIInv, NextIInv, PTL DEF Spec

\* The documents keep the shape the code gives them, and every state is one of the workflow.
THEOREM TypeCorrect == Spec => []TypeOK
<1>1. IInv /\ TypeOK /\ [Next]_vars => TypeOK'
  <2> SUFFICES ASSUME IInv, TypeOK, [Next]_vars PROVE TypeOK'
    OBVIOUS
  <2>1. Types'
    BY NextIInv DEF IInv
  <2>2. requests' \in 0..MaxRequests
    <3>1. CASE Next
      BY <3>1, WorkflowAssumption DEF Next, TypeOK
    <3>2. CASE UNCHANGED vars
      BY <3>2 DEF vars, TypeOK
    <3>3. QED
      BY <3>1, <3>2
  <2>3. QED
    BY <2>1, <2>2 DEF Types, TypeOK
<1>2. QED
  BY <1>1, InitIInv, Always, PTL DEF Spec

\* However requests follow one another, the newest entry of an item and no other is its
\* last published version.
THEOREM LastIsNewest == Spec => []LastVersion
<1>1. IInv => LastVersion
  BY DEF IInv, EntriesInv
<1>2. QED
  BY <1>1, Always, PTL

\* What waits for its time belongs to an article that is still scheduled.
THEOREM NothingTakenBackGoesOut == Spec => []PendingScheduled
<1>1. IInv => PendingScheduled
  BY DEF IInv, EntriesInv, PendingInv, PendingScheduled
<1>2. QED
  BY <1>1, Always, PTL

\* A correction that was begun can be published or cancelled.
THEOREM CorrectionsEnd == Spec => []CorrectionCanEnd
<1>1. IInv => CorrectionCanEnd
  BY DEF IInv, EntriesInv, CorrectionInv, CorrectionCanEnd, At
<1>2. QED
  BY <1>1, Always, PTL

\* The groups of the package and linked_in_packages of the articles agree.
THEOREM PackageKnowsItsArticles == Spec => []PackageLinks
<1>1. IInv => PackageLinks
  BY DEF IInv, PackageInv
<1>2. QED
  BY <1>1, Always, PTL

\* A package that is out refers to nothing killed, taken down or spiked.
THEOREM PackageIsAlive == Spec => []NothingDeadInPackage
<1>1. IInv => NothingDeadInPackage
  BY DEF IInv, PackageInv, DeadInv, NothingDeadInPackage, Live, Valid
<1>2. QED
  BY <1>1, Always, PTL

\* rewrite_of and rewritten_by of a story and its updates name each other.
THEOREM UpdatesAndOriginals == Spec => []LinksAgree
<1>1. IInv => LinksAgree
  BY DEF IInv, LinkInv
<1>2. QED
  BY <1>1, Always, PTL

\* An update goes out after its original, and waits for a later time than it.
THEOREM OriginalFirst == Spec => []UpdateAfterOriginal
<1>1. IInv => UpdateAfterOriginal
  BY DEF IInv
<1>2. QED
  BY <1>1, Always, PTL
=============================================================================
