--------------------------- MODULE ItemLockProofs ---------------------------
(***************************************************************************)
(* Proofs about ItemLock, for any number of sessions, users and processes, *)
(* and for any number of crashes and of requests that outlive their lock.  *)
(***************************************************************************)
EXTENDS ItemLock, TLAPS

\* The points of a request that has found whose lock it removes.
Unlocking == {"discard", "draft", "free", "freeing", "store", "storing"}

\* What a request knows of the locks: the lock it takes it may take, and the one it
\* removes it may remove; while nothing came between its steps, the draft it stores
\* is the last one and of the holder it saw, and its own lock is still its own.
TaskInv(p) ==
  LET t == task[p] IN
  /\ t.at # "idle" => t.session \in Session
  /\ t.at \in {"assign", "assigned"} => CanLock(t.seen, t.session) /\ (t.sound => owner = p)
  /\ t.at = "force" => t.seen \in Session /\ Same(t.session, t.seen)
  /\ t.at \in Unlocking => t.seen \in Session /\ MayUnlock(t.session, t.seen)
  /\ t.at \in {"store", "storing"} /\ t.sound =>
       t.copy \in Session /\ Same(t.copy, t.seen) /\ draft \in {Nobody, t.copy}
  /\ t.at = "saving" /\ p \in fresh => MayEdit(t.session)
  /\ t.at = "clear" /\ t.sound /\ draft # Nobody => stored

\* Only of a document that is there has anybody a current copy, or the lock.
DocInv == /\ fresh # {} => article.there
          /\ Held => article.there

\* A request that will unlock what session s holds, or be recorded in kept.
Closing(p, s) ==
  task[p].session = s /\ task[p].at \in {"close", "closeAll", "force"} \cup Unlocking

EndedInv ==
  \A s \in over : article.holder = s => kept \/ \E p \in Process : Closing(p, s)

Inv == TypeOK /\ (\A p \in Process : TaskInv(p)) /\ DocInv /\ EndedInv


LEMMA InitInv == Init => Inv
<1> SUFFICES ASSUME Init PROVE Inv
  OBVIOUS
<1> USE NobodyAssumption, BoundAssumption
<1>1. Idle \in Task
  BY DEF Idle, Task, Point
<1>2. article \in Article
  BY DEF Init, Article
<1>3. L!LockType /\ kept \in BOOLEAN /\ stored \in BOOLEAN
  BY DEF Init, L!LockInit, L!LockType
<1>4. TypeOK
  BY <1>1, <1>2, <1>3 DEF Init, TypeOK
<1>5. DocInv /\ EndedInv /\ \A p \in Process : TaskInv(p)
  BY DEF Init, DocInv, EndedInv, TaskInv, Held, Idle, Unlocking
<1>6. QED
  BY <1>4, <1>5 DEF Inv

-----------------------------------------------------------------------------
(* Types.                                                                  *)


LEMMA IdleType == Idle \in Task
  BY DEF Idle, Task, Point

\* The updates of one task.
LEMMA AtType ==
  ASSUME NEW t \in Task, NEW at \in Point
  PROVE  [t EXCEPT !.at = at] \in Task
  BY DEF Task

LEMMA SeenType ==
  ASSUME NEW t \in Task, NEW at \in Point, NEW seen \in Session \cup {Nobody}
  PROVE  [t EXCEPT !.at = at, !.seen = seen] \in Task
  BY DEF Task

LEMMA CopyType ==
  ASSUME NEW t \in Task, NEW at \in Point, NEW copy \in Session \cup {Nobody},
         NEW sound \in BOOLEAN
  PROVE  [t EXCEPT !.at = at, !.copy = copy, !.sound = sound] \in Task
  BY DEF Task

LEMMA SoundType ==
  ASSUME NEW t \in Task, NEW sound \in BOOLEAN
  PROVE  [t EXCEPT !.sound = sound] \in Task
  BY DEF Task

LEMMA BeginType ==
  ASSUME NEW at \in Point, NEW s \in Session, NEW seen \in Session \cup {Nobody}
  PROVE  [Idle EXCEPT !.at = at, !.session = s, !.seen = seen] \in Task
  BY DEF Task, Idle

\* The steps of processes, as the lemmas group them.
Locks(p) == LockRefused(p) \/ LockTake(p) \/ AssignRead(p) \/ Assign(p) \/ LockReturn(p)
Unlocks(p) == \/ CloseFind(p) \/ UnlockRead(p) \/ Discard(p) \/ DraftRead(p)
              \/ OriginalRead(p) \/ Free(p) \/ Store(p) \/ Clear(p)
Edits(p) == Save(p) \/ AutosaveWrite(p)

LEMMA NextCases ==
  ASSUME Next
  PROVE  \/ \E p \in Process : Locks(p) \/ Unlocks(p) \/ Edits(p) \/ Crash(p)
         \/ \E p \in Process, s \in Session : Asking(p, s)
         \/ \E s \in Session, u \in User : Login(s, u)
         \/ TimeUp
  BY DEF Next, Serving, Locks, Unlocks, Edits


\* Every step leaves each process with a task.
LEMMA LocksTask ==
  ASSUME TypeOK, NEW p \in Process, Locks(p)
  PROVE  task' \in [Process -> Task]
<1> USE IdleType DEF TypeOK
<1>1. CASE LockRefused(p) \/ LockReturn(p)
  BY <1>1 DEF LockRefused, LockReturn, End
<1>2. CASE LockTake(p)
  <2>1. [task[p] EXCEPT !.at = "assign"] \in Task
    BY AtType DEF Point
  <2>2. \A q \in Process : [task[q] EXCEPT !.sound = At(q, "idle")] \in Task
    BY SoundType DEF At
  <2>3. QED
    BY <1>2, <2>1, <2>2 DEF LockTake
<1>3. CASE AssignRead(p) \/ Assign(p)
  <2>1. [task[p] EXCEPT !.at = "assigned"] \in Task /\ [task[p] EXCEPT !.at = "return"] \in Task
    BY AtType DEF Point
  <2>2. QED
    BY <1>3, <2>1 DEF AssignRead, Assign, Goto
<1>4. QED
  BY <1>1, <1>2, <1>3 DEF Locks

LEMMA UnlocksTask ==
  ASSUME TypeOK, NEW p \in Process, Unlocks(p)
  PROVE  task' \in [Process -> Task]
<1> USE IdleType DEF TypeOK
<1>1. article.holder \in Session \cup {Nobody} /\ task[p].seen \in Session \cup {Nobody}
  BY DEF Article, Task
<1>2. CASE CloseFind(p)
  <2>1. [task[p] EXCEPT !.at = "force", !.seen = article.holder] \in Task
    BY <1>1, SeenType DEF Point
  <2>2. QED
    BY <1>2, <2>1 DEF CloseFind, End
<1>3. CASE UnlockRead(p)
  <2>1. PICK at \in {"draft", "discard"}, seen \in Session \cup {Nobody} :
          task' \in {[task EXCEPT ![p].at = at, ![p].seen = seen], [task EXCEPT ![p] = Idle]}
    BY <1>1, <1>3 DEF UnlockRead, End
  <2>2. [task[p] EXCEPT !.at = at, !.seen = seen] \in Task
    BY SeenType DEF Point
  <2>3. QED
    BY <2>1, <2>2
<1>4. CASE DraftRead(p)
  <2>1. ASSUME NEW at \in {"free", "store"}, NEW sound \in BOOLEAN
        PROVE  [task[p] EXCEPT !.at = at, !.copy = draft, !.sound = sound] \in Task
    BY CopyType DEF Point
  <2>2. QED
    BY <1>4, <2>1 DEF DraftRead, Same
<1>5. CASE OriginalRead(p)
  <2>1. [task[p] EXCEPT !.at = "freeing"] \in Task /\ [task[p] EXCEPT !.at = "storing"] \in Task
    BY AtType DEF Point
  <2>2. QED
    BY <1>5, <2>1 DEF OriginalRead, Goto, End
<1>6. CASE Store(p)
  <2>1. PICK sound \in BOOLEAN : ThenClear(p, sound)
    BY <1>6 DEF Store
  <2>2. [task[p] EXCEPT !.at = "clear", !.copy = Nobody, !.sound = sound] \in Task
    BY CopyType DEF Point
  <2>3. QED
    BY <2>1, <2>2 DEF ThenClear, End
<1>7. CASE Discard(p) \/ Free(p) \/ Clear(p)
  BY <1>7 DEF Discard, Free, Clear, End
<1>8. QED
  BY <1>2, <1>3, <1>4, <1>5, <1>6, <1>7 DEF Unlocks

LEMMA OthersTask ==
  ASSUME TypeOK,
         \/ \E p \in Process : Edits(p) \/ Crash(p)
         \/ \E p \in Process, s \in Session : Asking(p, s)
         \/ \E s \in Session, u \in User : Login(s, u)
         \/ TimeUp
  PROVE  task' \in [Process -> Task]
<1> USE IdleType DEF TypeOK
<1>1. ASSUME NEW p \in Process, Save(p) PROVE task' \in [Process -> Task]
  <2>1. PICK sound \in BOOLEAN : ThenClear(p, sound)
    BY <1>1 DEF Save
  <2>2. [task[p] EXCEPT !.at = "clear", !.copy = Nobody, !.sound = sound] \in Task
    BY CopyType DEF Point
  <2>3. QED
    BY <2>1, <2>2 DEF ThenClear, End
<1>2. ASSUME NEW p \in Process, AutosaveWrite(p) PROVE task' \in [Process -> Task]
  BY <1>2, SoundType DEF AutosaveWrite
<1>3. ASSUME NEW p \in Process, Crash(p) PROVE task' \in [Process -> Task]
  BY <1>3 DEF Crash, End
<1>4. ASSUME NEW p \in Process, NEW s \in Session, Asking(p, s) PROVE task' \in [Process -> Task]
  <2>1. PICK at \in {"lease", "unlock", "close", "closeAll", "saving", "drafting"},
             seen \in Session \cup {Nobody} : Begin(p, s, at, seen)
    BY <1>4 DEF Asking, LockRead, Unlock, SessionEnd, SaveRead, AutosaveRead, Article
  <2>2. [Idle EXCEPT !.at = at, !.session = s, !.seen = seen] \in Task
    BY BeginType DEF Point
  <2>3. QED
    BY <2>1, <2>2 DEF Begin
<1>5. CASE (\E s \in Session, u \in User : Login(s, u)) \/ TimeUp
  BY <1>5 DEF Login, TimeUp
<1>6. QED
  BY <1>1, <1>2, <1>3, <1>4, <1>5 DEF Edits

\* The updates of the article.
LEMMA ArticleTypes ==
  ASSUME TypeOK, NEW s \in Session \cup {Nobody}
  PROVE  /\ [article EXCEPT !.holder = s] \in Article
         /\ [article EXCEPT !.there = FALSE, !.holder = Nobody] \in Article
         /\ [article EXCEPT !.holder = Nobody, !.text = s] \in Article
         /\ [article EXCEPT !.saved = TRUE, !.text = s] \in Article
  BY DEF TypeOK, Article

\* What else a step writes keeps its type.
LEMMA DocsType ==
  ASSUME TypeOK, Next
  PROVE  /\ article' \in Article /\ draft' \in Session \cup {Nobody}
         /\ user' \in [Session -> User] /\ over' \subseteq Session /\ fresh' \subseteq Process
<1> USE DEF TypeOK, docVars
<1>1. ASSUME NEW p \in Process
      PROVE  task[p].session \in Session \cup {Nobody} /\ task[p].copy \in Session \cup {Nobody}
  BY DEF Task
<1>2. ASSUME NEW p \in Process, Locks(p)
      PROVE  article' \in Article /\ fresh' \subseteq Process /\ UNCHANGED <<draft, user, over>>
  BY <1>1, <1>2, ArticleTypes
  DEF Locks, LockRefused, LockTake, AssignRead, ReadOriginal, Assign, Changed, LockReturn
<1>3. ASSUME NEW p \in Process, Unlocks(p)
      PROVE  /\ article' \in Article /\ fresh' \subseteq Process
             /\ draft' \in {draft, Nobody} /\ UNCHANGED <<user, over>>
  BY <1>1, <1>3, ArticleTypes
  DEF Unlocks, CloseFind, UnlockRead, Discard, DraftRead, OriginalRead, ReadOriginal, Free, Store,
      StoreDraft, Failed, Changed, Clear
<1>4. ASSUME NEW p \in Process, Edits(p) \/ Crash(p)
      PROVE  /\ article' \in Article /\ fresh' \subseteq Process
             /\ draft' \in {draft, task[p].session} /\ UNCHANGED <<user, over>>
  BY <1>1, <1>4, ArticleTypes DEF Edits, Save, AutosaveWrite, Changed, Crash
<1>5. ASSUME NEW p \in Process, NEW s \in Session, Asking(p, s)
      PROVE  /\ over' \subseteq Session /\ fresh' \subseteq Process
             /\ UNCHANGED <<article, draft, user>>
  BY <1>5 DEF Asking, LockRead, Unlock, SessionEnd, SaveRead, AutosaveRead, ReadOriginal
<1>6. ASSUME NEW s \in Session, NEW u \in User, Login(s, u)
      PROVE  /\ user' \in [Session -> User] /\ over' \subseteq Session
             /\ UNCHANGED <<article, draft, fresh>>
  BY <1>6 DEF Login
<1>7. CASE TimeUp
  BY <1>7 DEF TimeUp
<1>8. QED
  BY <1>1, <1>2, <1>3, <1>4, <1>5, <1>6, <1>7, NextCases

LEMMA LocksFields ==
  ASSUME TypeOK, Next
  PROVE  L!LockType' /\ faults' \in 0 .. MaxFaults /\ stored' \in BOOLEAN /\ kept' \in BOOLEAN
<1> USE DEF TypeOK, lockVars, ghostVars, L!LockType
<1>1. L!LockType'
  <2>1. CASE UNCHANGED <<owner, late>>
    BY <2>1
  <2>2. ASSUME NEW p \in Process, LockTake(p) PROVE L!LockType'
    BY <2>2, NobodyAssumption DEF LockTake, L!Acquire
  <2>3. ASSUME NEW p \in Process, LockReturn(p) PROVE L!LockType'
    BY <2>3 DEF LockReturn, L!Release, L!lockVars
  <2>4. CASE TimeUp
    BY <2>4 DEF TimeUp, L!TimeUp
  <2>5. QED
    BY <2>1, <2>2, <2>3, <2>4
    DEF Next, Serving, Asking, LockRefused, AssignRead, Assign, CloseFind, UnlockRead, Discard,
        DraftRead, OriginalRead, Free, Store, Clear, Save, AutosaveWrite, Crash, LockRead, Unlock,
        SessionEnd, SaveRead, AutosaveRead, Login
<1>2. faults' \in 0 .. MaxFaults
  <2>1. faults' \in {faults, faults + 1} /\ (faults' # faults => faults < MaxFaults)
    BY DEF Next, Serving, Asking, LockRefused, LockTake, LockReturn, AssignRead, Assign, CloseFind,
           UnlockRead, Discard, DraftRead, OriginalRead, Free, Store, Clear, Save, AutosaveWrite,
           Crash, LockRead, Unlock, SessionEnd, SaveRead, AutosaveRead, Login, TimeUp
  <2>2. QED
    BY <2>1, BoundAssumption
<1>3. stored' \in BOOLEAN /\ kept' \in BOOLEAN
  <2>1. \A a : Has(a) => stored' \in BOOLEAN
    BY Zenon DEF Has
  <2>2. ASSUME NEW p \in Process, Crash(p) \/ Failed(p) PROVE kept' \in BOOLEAN
    BY <2>2, Zenon DEF Crash, Failed
  <2>3. \A s, ended : Holder(s, ended) => kept' \in BOOLEAN
    BY Zenon DEF Holder
  <2>4. \/ UNCHANGED stored \/ stored' = FALSE \/ \E a : Has(a)
    BY DEF Next, Serving, Asking, LockRefused, LockTake, LockReturn, AssignRead, Assign, CloseFind,
           UnlockRead, Discard, DraftRead, OriginalRead, Free, Store, Clear, Save, AutosaveWrite,
           Crash, LockRead, Unlock, SessionEnd, SaveRead, AutosaveRead, Login, TimeUp
  <2>5. \/ UNCHANGED kept \/ (\E s, ended : Holder(s, ended))
        \/ \E p \in Process : Crash(p) \/ Failed(p)
    BY DEF Next, Serving, Asking, LockRefused, LockTake, LockReturn, AssignRead, Assign, CloseFind,
           UnlockRead, Discard, DraftRead, OriginalRead, Free, Store, Clear, Save, AutosaveWrite,
           LockRead, Unlock, SessionEnd, SaveRead, AutosaveRead, Login, TimeUp
  <2>6. QED
    BY <2>1, <2>2, <2>3, <2>4, <2>5
<1>4. QED
  BY <1>1, <1>2, <1>3

LEMMA StepType == TypeOK /\ [Next]_vars => TypeOK'
<1> SUFFICES ASSUME TypeOK, [Next]_vars PROVE TypeOK'
  OBVIOUS
<1>1. CASE Next
  <2>1. task' \in [Process -> Task]
    BY <1>1, NextCases, LocksTask, UnlocksTask, OthersTask
  <2>2. QED
    BY <1>1, <2>1, DocsType, LocksFields DEF TypeOK
<1>2. CASE UNCHANGED vars
  BY <1>2 DEF vars, docVars, lockVars, ghostVars, TypeOK, L!LockType
<1>3. QED
  BY <1>1, <1>2

-----------------------------------------------------------------------------
(* What the requests know.                                                 *)

\* A task is left as it is, or found to be disturbed.
Kept(q) ==
  /\ task'[q].at = task[q].at /\ task'[q].session = task[q].session
  /\ task'[q].seen = task[q].seen /\ task'[q].copy = task[q].copy
  /\ task'[q].sound => task[q].sound \/ At(q, "idle")

\* What the step of another must not do to a request, unless it disturbs it.
Respected(q) ==
  /\ Kept(q) /\ user' = user
  /\ task'[q].at \in {"assign", "assigned"} /\ task'[q].sound => owner' = owner \/ owner # q
  /\ q \in fresh' => q \in fresh /\ article' = article
  /\ task'[q].at \in {"store", "storing", "clear"} /\ task'[q].sound => draft' \in {Nobody, draft}
  /\ task'[q].at = "clear" /\ task'[q].sound /\ draft' # Nobody => (stored => stored')

LEMMA RespectedInv ==
  ASSUME TypeOK, NEW q \in Process, TaskInv(q), Respected(q)
  PROVE  TaskInv(q)'
  BY DEF TaskInv, Respected, Kept, At, CanLock, Same, MayUnlock, MayEdit, HeldBy, Held, Unlocking

LEMMA UnchangedKept ==
  ASSUME NEW q \in Process, task'[q] = task[q]
  PROVE  Kept(q)
  BY DEF Kept

LEMMA SoundKept ==
  ASSUME NEW q \in Process, task[q] \in Task, task'[q] = [task[q] EXCEPT !.sound = FALSE]
  PROVE  Kept(q)
  BY DEF Kept, Task

LEMMA IdleInv ==
  ASSUME NEW p \in Process, task'[p].at \in {"idle", "lease", "return", "close", "closeAll", "unlock", "drafting"},
         task'[p].at # "idle" => task'[p].session \in Session
  PROVE  TaskInv(p)'
  BY DEF TaskInv, Unlocking

LEMMA ForceInv ==
  ASSUME NEW p \in Process, task'[p].at = "force",
         task'[p].session \in Session, task'[p].seen \in Session,
         Same(task[p].session, task[p].seen)'
  PROVE  TaskInv(p)'
  BY DEF TaskInv, Unlocking

LEMMA UnlockingInv ==
  ASSUME NEW p \in Process, task'[p].at \in Unlocking,
         task'[p].session \in Session, task'[p].seen \in Session,
         MayUnlock(task[p].session, task[p].seen)',
         task'[p].at \in {"store", "storing"} /\ task'[p].sound =>
           /\ task'[p].copy \in Session /\ Same(task[p].copy, task[p].seen)'
           /\ draft' \in {Nobody, task'[p].copy}
  PROVE  TaskInv(p)'
  BY DEF TaskInv, Unlocking

LEMMA ClearInv ==
  ASSUME NEW p \in Process, task'[p].at = "clear", task'[p].session \in Session,
         task'[p].sound /\ draft' # Nobody => stored'
  PROVE  TaskInv(p)'
  BY DEF TaskInv, Unlocking

\* The steps of ItemLock.lock.
LEMMA LocksInv ==
  ASSUME TypeOK, \A q \in Process : TaskInv(q), NEW p \in Process, Locks(p)
  PROVE  \A q \in Process : TaskInv(q)'
<1> USE DEF docVars, lockVars, ghostVars
<1>1. task \in [Process -> Task] /\ task[p] \in Task /\ TaskInv(p)
  BY DEF TypeOK
<1>2. CASE LockTake(p)
  <2>1. ASSUME NEW q \in Process \ {p} PROVE Respected(q)
    <3>1. CASE q = owner /\ late
      <4>1. task'[q] = [task[q] EXCEPT !.sound = At(q, "idle")] /\ task[q] \in Task
        BY <1>1, <1>2, <3>1 DEF LockTake
      <4>2. /\ task'[q].at = task[q].at /\ task'[q].session = task[q].session
            /\ task'[q].seen = task[q].seen /\ task'[q].copy = task[q].copy
            /\ task'[q].sound = At(q, "idle")
        BY <4>1 DEF Task
      <4>3. QED
        BY <1>2, <4>2 DEF LockTake, Respected, Kept, At
    <3>2. CASE ~(q = owner /\ late)
      <4>1. task'[q] = task[q]
        BY <1>1, <1>2, <3>2 DEF LockTake
      <4>2. q # owner
        BY <1>2, <3>2, NobodyAssumption DEF LockTake, L!Acquire, L!Free
      <4>3. QED
        BY <1>2, <4>1, <4>2, UnchangedKept DEF LockTake, Respected
    <3>3. QED
      BY <3>1, <3>2
  <2>2. TaskInv(p)'
    <3>1. task'[p] = [task[p] EXCEPT !.at = "assign"] /\ owner' = p
      BY <1>1, <1>2 DEF LockTake, L!Acquire
    <3>2. CanLock(task[p].seen, task[p].session) /\ task[p].at = "lease"
      BY <1>2 DEF LockTake, At
    <3>3. QED
      BY <1>1, <3>1, <3>2 DEF TaskInv, CanLock, Unlocking, Task
  <2>3. QED
    BY <2>1, <2>2, RespectedInv
<1>3. CASE LockRefused(p) \/ LockReturn(p)
  <2>1. ASSUME NEW q \in Process \ {p} PROVE Respected(q)
    <3>1. task'[q] = task[q] /\ (owner' = owner \/ owner = p)
      BY <1>1, <1>3 DEF LockRefused, LockReturn, L!Release, L!lockVars, End
    <3>2. QED
      BY <1>3, <3>1, UnchangedKept DEF LockRefused, LockReturn, Respected
  <2>2. task'[p].at = "idle"
    BY <1>1, <1>3 DEF LockRefused, LockReturn, End, Idle
  <2>3. QED
    BY <2>1, <2>2, RespectedInv, IdleInv
<1>4. CASE AssignRead(p) \/ Assign(p)
  <2>1. ASSUME NEW q \in Process \ {p} PROVE Respected(q)
    <3>1. task'[q] = task[q]
      BY <1>1, <1>4 DEF AssignRead, Assign, Goto
    <3>2. QED
      BY <1>4, <3>1, UnchangedKept DEF AssignRead, Assign, ReadOriginal, Changed, Respected
  <2>2. TaskInv(p)'
    BY <1>1, <1>4
    DEF AssignRead, Assign, At, Goto, TaskInv, Unlocking, CanLock, Task
  <2>3. QED
    BY <2>1, <2>2, RespectedInv
<1>5. QED
  BY <1>2, <1>3, <1>4 DEF Locks

\* The steps of ItemLock.unlock and of the end of a session.
LEMMA UnlocksOwn ==
  ASSUME TypeOK, NEW p \in Process, TaskInv(p), Unlocks(p)
  PROVE  TaskInv(p)'
<1> USE DEF docVars, lockVars, ghostVars
<1>1. task \in [Process -> Task] /\ task[p] \in Task /\ article.holder \in Session \cup {Nobody}
  BY DEF TypeOK, Article
<1>2. task[p].at # "idle" => task[p].session \in Session
  BY DEF TaskInv
<1>3. CASE CloseFind(p)
  <2>1. CASE article.there /\ LockedBy(p)
    <3>1. /\ task'[p].at = "force" /\ task'[p].session = task[p].session
          /\ task'[p].seen = article.holder /\ user' = user
      BY <1>1, <1>3, <2>1 DEF CloseFind, Task
    <3>2. task[p].session \in Session
      BY <1>2, <1>3 DEF CloseFind, At
    <3>3. article.holder \in Session /\ Same(task[p].session, article.holder)
      BY <1>1, <1>3, <2>1, <3>2 DEF CloseFind, LockedBy, HeldBy, Held, Same
    <3>4. QED
      BY <3>1, <3>2, <3>3, ForceInv DEF Same
  <2>2. CASE ~(article.there /\ LockedBy(p))
    <3>1. task'[p].at = "idle"
      BY <1>1, <1>3, <2>2 DEF CloseFind, End, Idle
    <3>2. QED
      BY <3>1, IdleInv
  <2>3. QED
    BY <2>1, <2>2
<1>4. CASE UnlockRead(p)
  <2>1. CASE article.there /\ Held /\ (At(p, "force") \/ MayUnlock(task[p].session, article.holder))
    <3>1. /\ task'[p].at \in {"draft", "discard"} /\ task'[p].session = task[p].session
          /\ task'[p].seen = IF At(p, "force") THEN task[p].seen ELSE article.holder
          /\ user' = user
      BY <1>1, <1>4, <2>1 DEF UnlockRead, Task
    <3>2. At(p, "force") => task[p].seen \in Session /\ Same(task[p].session, task[p].seen)
      BY DEF TaskInv, At
    <3>3. task'[p].seen \in Session /\ MayUnlock(task[p].session, task'[p].seen)
      BY <1>1, <2>1, <3>1, <3>2 DEF Held, MayUnlock
    <3>4. task[p].session \in Session
      BY <1>2, <1>4 DEF UnlockRead, At
    <3>5. QED
      BY <3>1, <3>3, <3>4, UnlockingInv DEF MayUnlock, Same, Unlocking
  <2>2. CASE ~(article.there /\ Held /\ (At(p, "force") \/ MayUnlock(task[p].session, article.holder)))
    <3>1. task'[p].at = "idle"
      BY <1>1, <1>4, <2>2 DEF UnlockRead, End, Idle
    <3>2. QED
      BY <3>1, IdleInv
  <2>3. QED
    BY <2>1, <2>2
<1>5. task[p].at \in Unlocking =>
        task[p].seen \in Session /\ MayUnlock(task[p].session, task[p].seen)
  BY DEF TaskInv
<1>6. task[p].at \in {"store", "storing"} /\ task[p].sound =>
        task[p].copy \in Session /\ Same(task[p].copy, task[p].seen) /\ draft \in {Nobody, task[p].copy}
  BY DEF TaskInv
<1>7. CASE DraftRead(p)
  <2>1. /\ task'[p].at = IF draft = Nobody THEN "free" ELSE "store"
        /\ task'[p].session = task[p].session /\ task'[p].seen = task[p].seen
        /\ task'[p].copy = draft
        /\ task'[p].sound = (draft = Nobody \/ Same(draft, task[p].seen))
    BY <1>1, <1>7 DEF DraftRead, Task
  <2>2. task[p].at = "draft" /\ UNCHANGED <<user, draft>> /\ draft \in Session \cup {Nobody}
    BY <1>7 DEF DraftRead, At, TypeOK
  <2>3. QED
    BY <1>2, <1>5, <2>1, <2>2, UnlockingInv DEF MayUnlock, Same, Unlocking
<1>8. CASE OriginalRead(p)
  <2>1. CASE article.there
    <3>1. /\ task'[p].at = (IF At(p, "free") THEN "freeing" ELSE "storing")
          /\ task'[p].session = task[p].session /\ task'[p].seen = task[p].seen
          /\ task'[p].copy = task[p].copy /\ task'[p].sound = task[p].sound
      BY <1>1, <1>8, <2>1 DEF OriginalRead, Goto, Task
    <3>2. task[p].at \in {"free", "store"} /\ UNCHANGED <<user, draft>>
      BY <1>8 DEF OriginalRead, At
    <3>3. QED
      BY <1>2, <1>5, <1>6, <3>1, <3>2, UnlockingInv DEF At, MayUnlock, Same, Unlocking
  <2>2. CASE ~article.there
    <3>1. task'[p].at = "idle"
      BY <1>1, <1>8, <2>2 DEF OriginalRead, End, Idle
    <3>2. QED
      BY <3>1, IdleInv
  <2>3. QED
    BY <2>1, <2>2
<1>9. CASE Store(p)
  <2>1. task[p].session \in Session /\ task[p].at = "storing" /\ draft' = draft
    BY <1>2, <1>9 DEF Store, At
  <2>2. ASSUME task[p].sound, Unchanged(p), draft # Nobody PROVE stored'
    <3>1. task[p].copy = draft
      BY <1>6, <2>1, <2>2
    <3>2. StoreDraft(p).text = draft
      BY <3>1 DEF StoreDraft, TypeOK, Article
    <3>3. Has(StoreDraft(p))
      BY <1>9, <2>2 DEF Store
    <3>4. QED
      BY <2>2, <3>2, <3>3 DEF Has
  <2>3. CASE article.there
    <3>1. ThenClear(p, task[p].sound /\ Unchanged(p))
      BY <1>9 DEF Store
    <3>2. /\ task'[p].at = "clear" /\ task'[p].session = task[p].session
          /\ task'[p].sound <=> task[p].sound /\ Unchanged(p)
      BY <1>1, <2>3, <3>1 DEF ThenClear, Task
    <3>3. QED
      BY <2>1, <2>2, <3>2, ClearInv
  <2>4. CASE ~article.there
    <3>1. task'[p].at = "idle"
      BY <1>1, <1>9, <2>4 DEF Store, ThenClear, End, Idle
    <3>2. QED
      BY <3>1, IdleInv
  <2>5. QED
    BY <2>3, <2>4
<1>10. CASE Discard(p) \/ Free(p) \/ Clear(p)
  <2>1. End(p)
    BY <1>10 DEF Discard, Free, Clear
  <2>2. task'[p].at = "idle"
    BY <1>1, <2>1 DEF End, Idle
  <2>3. QED
    BY <2>2, IdleInv
<1>11. QED
  BY <1>3, <1>4, <1>7, <1>8, <1>9, <1>10 DEF Unlocks

LEMMA UnlocksInv ==
  ASSUME TypeOK, \A q \in Process : TaskInv(q), NEW p \in Process, Unlocks(p)
  PROVE  \A q \in Process : TaskInv(q)'
<1>1. ASSUME NEW q \in Process \ {p} PROVE Respected(q)
  <2> USE DEF docVars, lockVars, ghostVars
  <2>1. task'[q] = task[q]
    BY DEF Unlocks, CloseFind, UnlockRead, Discard, DraftRead, OriginalRead, Free, Store, Clear,
           ThenClear, Goto, End, TypeOK
  <2>2. Kept(q)
    BY <2>1, UnchangedKept
  <2>3. user' = user /\ owner' = owner /\ (q \in fresh' => q \in fresh /\ article' = article)
    BY DEF Unlocks, CloseFind, UnlockRead, Discard, DraftRead, OriginalRead, Free, Store, Clear,
           Failed, Changed, ReadOriginal
  <2>4. draft' \in {Nobody, draft} /\ (draft' # Nobody => (stored => stored'))
    <3>1. CASE Store(p)
      BY <3>1 DEF Store, Has
    <3>2. CASE ~Store(p)
      <4>1. draft' = Nobody \/ UNCHANGED <<draft, stored>>
        BY <3>2
        DEF Unlocks, CloseFind, UnlockRead, Discard, DraftRead, OriginalRead, Free, Clear
      <4>2. QED
        BY <4>1, Zenon DEF TypeOK
    <3>3. QED
      BY <3>1, <3>2
  <2>5. QED
    BY <2>2, <2>3, <2>4 DEF Respected
<1>2. QED
  BY <1>1, UnlocksOwn, RespectedInv

\* Saves, autosaves and crashes.
LEMMA SavingInv ==
  ASSUME NEW p \in Process, task'[p].at = "saving", task'[p].session \in Session,
         p \in fresh' => MayEdit(task[p].session)'
  PROVE  TaskInv(p)'
  BY DEF TaskInv, Unlocking

LEMMA EditsInv ==
  ASSUME TypeOK, \A q \in Process : TaskInv(q), NEW p \in Process, Edits(p) \/ Crash(p)
  PROVE  \A q \in Process : TaskInv(q)'
<1> USE DEF docVars, lockVars, ghostVars
<1>1. task \in [Process -> Task] /\ task[p] \in Task
  BY DEF TypeOK
<1>2. task[p].at # "idle" => task[p].session \in Session
  BY DEF TaskInv
<1>3. CASE Save(p)
  <2> DEFINE a == [article EXCEPT !.saved = TRUE, !.text = task[p].session]
  <2>1. ASSUME NEW q \in Process \ {p} PROVE Respected(q)
    <3>1. task'[q] = task[q]
      BY <1>1, <1>3 DEF Save, ThenClear, End
    <3>2. draft' = draft /\ (draft' # Nobody => (stored => stored'))
      BY <1>3 DEF Save, Has
    <3>3. user' = user /\ owner' = owner /\ (q \in fresh' => q \in fresh /\ article' = article)
      BY <1>3 DEF Save, Changed
    <3>4. QED
      BY <3>1, <3>2, <3>3, UnchangedKept DEF Respected
  <2>2. ASSUME Unchanged(p), draft \in {Nobody, task[p].session}, draft # Nobody PROVE stored'
    <3>1. Has(a) /\ a.text = draft
      BY <1>3, <2>2 DEF Save, TypeOK, Article
    <3>2. QED
      BY <2>2, <3>1 DEF Has
  <2>3. CASE article.there
    <3>1. ThenClear(p, task[p].sound /\ Unchanged(p) /\ draft \in {Nobody, task[p].session})
      BY <1>3 DEF Save
    <3>2. /\ task'[p].at = "clear" /\ task'[p].session = task[p].session
          /\ task'[p].sound <=> task[p].sound /\ Unchanged(p) /\ draft \in {Nobody, task[p].session}
      BY <1>1, <2>3, <3>1 DEF ThenClear, Task
    <3>3. task[p].session \in Session /\ draft' = draft
      BY <1>2, <1>3 DEF Save, At
    <3>4. TaskInv(p)'
      BY <2>2, <3>2, <3>3, ClearInv
    <3>5. QED
      BY <2>1, <3>4, RespectedInv
  <2>4. CASE ~article.there
    <3>1. task'[p].at = "idle"
      BY <1>1, <1>3, <2>4 DEF Save, ThenClear, End, Idle
    <3>2. QED
      BY <2>1, <3>1, IdleInv, RespectedInv
  <2>5. QED
    BY <2>3, <2>4
<1>4. CASE AutosaveWrite(p)
  <2>1. ASSUME NEW q \in Process \ {p} PROVE Respected(q)
    <3>1. CASE Saving(q)
      <4>1. task'[q] = [task[q] EXCEPT !.sound = FALSE] /\ task[q] \in Task
        BY <1>1, <1>4, <3>1 DEF AutosaveWrite
      <4>2. Kept(q) /\ ~task'[q].sound
        BY <4>1, SoundKept DEF Task
      <4>3. QED
        BY <1>4, <4>2 DEF AutosaveWrite, Respected
    <3>2. CASE ~Saving(q)
      <4>1. task'[q] = task[q]
        BY <1>1, <1>4, <3>2 DEF AutosaveWrite
      <4>2. QED
        BY <1>4, <3>2, <4>1, UnchangedKept DEF AutosaveWrite, Respected, Saving
    <3>3. QED
      BY <3>1, <3>2
  <2>2. task'[p].at = "idle"
    BY <1>1, <1>4 DEF AutosaveWrite, Idle
  <2>3. QED
    BY <2>1, <2>2, IdleInv, RespectedInv
<1>5. CASE Crash(p)
  <2>1. ASSUME NEW q \in Process \ {p} PROVE Respected(q)
    <3>1. task'[q] = task[q]
      BY <1>1, <1>5 DEF Crash, End
    <3>2. QED
      BY <1>5, <3>1, UnchangedKept DEF Crash, Respected
  <2>2. task'[p].at = "idle"
    BY <1>1, <1>5 DEF Crash, End, Idle
  <2>3. QED
    BY <2>1, <2>2, IdleInv, RespectedInv
<1>6. QED
  BY <1>3, <1>4, <1>5 DEF Edits

\* What comes from outside.
LEMMA AskingInv ==
  ASSUME TypeOK, \A q \in Process : TaskInv(q), NEW p \in Process, NEW s \in Session,
         Asking(p, s)
  PROVE  \A q \in Process : TaskInv(q)'
<1> USE DEF docVars, lockVars, ghostVars
<1>1. ASSUME NEW q \in Process \ {p} PROVE Respected(q)
  <2>1. task'[q] = task[q]
    BY DEF Asking, LockRead, Unlock, SessionEnd, SaveRead, AutosaveRead, Begin, TypeOK
  <2>2. /\ UNCHANGED <<user, owner, article, draft, stored>>
        /\ q \in fresh' => q \in fresh
    BY DEF Asking, LockRead, Unlock, SessionEnd, SaveRead, AutosaveRead, ReadOriginal
  <2>3. QED
    BY <2>1, <2>2, UnchangedKept DEF Respected
<1>2. TaskInv(p)'
  <2>1. ASSUME NEW at, NEW seen, Begin(p, s, at, seen) PROVE task'[p].at = at /\ task'[p].session = s
    BY <2>1 DEF Begin, TypeOK, Idle
  <2>2. CASE SaveRead(p, s)
    <3>1. task'[p].at = "saving" /\ task'[p].session = s
      BY <2>1, <2>2 DEF SaveRead
    <3>2. MayEdit(s)'
      BY <2>2 DEF SaveRead, MayEdit, HeldBy, Held, Same
    <3>3. QED
      BY <3>1, <3>2, SavingInv DEF MayEdit, HeldBy, Held, Same
  <2>3. CASE LockRead(p, s) \/ Unlock(p, s) \/ SessionEnd(p, s) \/ AutosaveRead(p, s)
    <3>1. /\ task'[p].at \in {"lease", "unlock", "close", "closeAll", "drafting"}
          /\ task'[p].session = s
      BY <2>1, <2>3 DEF LockRead, Unlock, SessionEnd, AutosaveRead
    <3>2. QED
      BY <3>1, IdleInv
  <2>4. QED
    BY <2>2, <2>3 DEF Asking
<1>3. QED
  BY <1>1, <1>2, RespectedInv

LEMMA OutsideInv ==
  ASSUME TypeOK, \A q \in Process : TaskInv(q),
         (\E s \in Session, u \in User : Login(s, u)) \/ TimeUp
  PROVE  \A q \in Process : TaskInv(q)'
<1> USE DEF docVars, lockVars, ghostVars
<1>1. ASSUME NEW s \in Session, NEW u \in User, Login(s, u), NEW q \in Process
      PROVE  TaskInv(q)'
  <2>1. /\ \A t \in Session \ {s} : user'[t] = user[t]
        /\ s \notin {article.holder, task[q].session, task[q].seen, task[q].copy}
        /\ UNCHANGED <<article, draft, task, owner, fresh, stored>>
    BY <1>1 DEF Login, TypeOK
  <2>2. article.holder \in Session \cup {Nobody} /\ TaskInv(q)
    BY DEF TypeOK, Article
  <2>3. QED
    BY <2>1, <2>2
    DEF TaskInv, CanLock, MayUnlock, MayEdit, HeldBy, Held, Same, Unlocking
<1>2. ASSUME TimeUp, NEW q \in Process PROVE TaskInv(q)'
  <2>1. Respected(q)
    BY <1>2, UnchangedKept DEF TimeUp, L!TimeUp, Respected
  <2>2. QED
    BY <2>1, RespectedInv
<1>3. QED
  BY <1>1, <1>2

LEMMA StepTask ==
  TypeOK /\ (\A p \in Process : TaskInv(p)) /\ [Next]_vars => \A p \in Process : TaskInv(p)'
<1> SUFFICES ASSUME TypeOK, \A p \in Process : TaskInv(p), [Next]_vars
             PROVE  \A p \in Process : TaskInv(p)'
  OBVIOUS
<1>1. CASE Next
  BY <1>1, NextCases, LocksInv, UnlocksInv, EditsInv, AskingInv, OutsideInv
<1>2. CASE UNCHANGED vars
  <2>1. \A q \in Process : Respected(q)
    BY <1>2, UnchangedKept DEF vars, docVars, lockVars, ghostVars, Respected
  <2>2. QED
    BY <2>1, RespectedInv
<1>3. QED
  BY <1>1, <1>2

\* A document that is gone does not come back, and nobody holds it.
LEMMA StepDoc == TypeOK /\ DocInv /\ [Next]_vars => DocInv'
<1> SUFFICES ASSUME TypeOK, DocInv, [Next]_vars PROVE DocInv'
  OBVIOUS
<1> USE DEF docVars
<1>1. CASE UNCHANGED <<article, fresh>>
  BY <1>1 DEF DocInv, Held
<1>2. ASSUME NEW p \in Process, AssignRead(p) \/ OriginalRead(p) PROVE DocInv'
  BY <1>2 DEF AssignRead, OriginalRead, ReadOriginal, DocInv, Held
<1>3. ASSUME NEW p \in Process, Assign(p) PROVE DocInv'
  BY <1>3 DEF Assign, Unchanged, Changed, DocInv, Held, TypeOK, Article
<1>4. ASSUME NEW p \in Process, Discard(p) PROVE DocInv'
  BY <1>4 DEF Discard, Changed, DocInv, Held, TypeOK, Article
<1>5. ASSUME NEW p \in Process, Free(p) \/ Store(p) PROVE DocInv'
  BY <1>5 DEF Free, Store, StoreDraft, Failed, Unchanged, Changed, DocInv, Held, TypeOK, Article
<1>6. ASSUME NEW p \in Process, Save(p) PROVE DocInv'
  BY <1>6 DEF Save, Unchanged, Changed, DocInv, Held, TypeOK, Article
<1>7. ASSUME NEW p \in Process, NEW s \in Session, SaveRead(p, s) PROVE DocInv'
  BY <1>7 DEF SaveRead, Asks, ReadOriginal, DocInv, Held
<1>8. ASSUME NEW p \in Process, Crash(p) PROVE DocInv'
  BY <1>8 DEF Crash, DocInv, Held
<1>9. QED
  BY <1>1, <1>2, <1>3, <1>4, <1>5, <1>6, <1>7, <1>8
  DEF Next, Serving, Asking, LockRefused, LockTake, LockReturn, CloseFind, UnlockRead, DraftRead,
      Clear, AutosaveWrite, LockRead, Unlock, SessionEnd, AutosaveRead, Login, TimeUp, vars

\* What an ended session holds is in the hands of the request that ended it, and stays
\* there while others take their steps.
LEMMA EndedKept ==
  ASSUME TypeOK, EndedInv, NEW p \in Process,
         \A q \in Process \ {p} :
           task'[q].at = task[q].at /\ task'[q].session = task[q].session,
         kept => kept', over' \subseteq over, article'.holder \in {article.holder, Nobody},
         \A s \in over : article.holder = s /\ Closing(p, s) =>
                           Closing(p, s)' \/ kept' \/ article'.holder = Nobody
  PROVE  EndedInv'
<1> SUFFICES ASSUME NEW s \in over', article'.holder = s PROVE kept' \/ \E q \in Process : Closing(q, s)'
  BY DEF EndedInv
<1>1. s \in over /\ s # Nobody /\ article.holder = s
  BY NobodyAssumption DEF TypeOK
<1>2. CASE kept
  BY <1>2
<1>3. ASSUME NEW q \in Process, Closing(q, s) PROVE kept' \/ \E r \in Process : Closing(r, s)'
  BY <1>1, <1>3 DEF Closing
<1>4. QED
  BY <1>1, <1>2, <1>3 DEF EndedInv

LEMMA LocksEnded ==
  ASSUME TypeOK, EndedInv, NEW p \in Process, TaskInv(p), Locks(p)
  PROVE  EndedInv'
<1> USE DEF docVars, lockVars, ghostVars
<1>1. task \in [Process -> Task]
  BY DEF TypeOK
<1>2. \A q \in Process \ {p} : task'[q].at = task[q].at /\ task'[q].session = task[q].session
  <2>1. CASE LockTake(p)
    BY <1>1, <2>1 DEF LockTake, Task
  <2>2. CASE LockRefused(p) \/ AssignRead(p) \/ Assign(p) \/ LockReturn(p)
    BY <1>1, <2>2 DEF LockRefused, AssignRead, Assign, LockReturn, Goto, End
  <2>3. QED
    BY <2>1, <2>2 DEF Locks
<1>3. \A s \in over : ~Closing(p, s)
  BY DEF Locks, LockTake, LockRefused, AssignRead, Assign, LockReturn, At, Closing, Unlocking
<1>4. CASE Assign(p) /\ Unchanged(p)
  <2>1. article'.holder = task[p].session /\ kept' = (task[p].session # Nobody /\ task[p].session \in over)
    BY <1>4 DEF Assign, Changed, Holder, TypeOK, Article
  <2>2. over' = over /\ Nobody \notin over
    BY <1>4, NobodyAssumption DEF Assign, TypeOK
  <2>3. QED
    BY <2>1, <2>2 DEF EndedInv
<1>5. CASE ~(Assign(p) /\ Unchanged(p))
  <2>1. UNCHANGED <<article, over, kept>>
    BY <1>5 DEF Locks, LockRefused, LockTake, AssignRead, Assign, LockReturn
  <2>2. QED
    BY <1>2, <1>3, <2>1, EndedKept
<1>6. QED
  BY <1>4, <1>5

LEMMA UnlocksEnded ==
  ASSUME TypeOK, DocInv, EndedInv, NEW p \in Process, Unlocks(p)
  PROVE  EndedInv'
<1> USE DEF docVars, lockVars, ghostVars
<1>1. task \in [Process -> Task] /\ task[p] \in Task /\ over \subseteq Session
  BY DEF TypeOK
<1>2. \A q \in Process \ {p} : task'[q].at = task[q].at /\ task'[q].session = task[q].session
  BY <1>1
  DEF Unlocks, CloseFind, UnlockRead, Discard, DraftRead, OriginalRead, Free, Store, Clear,
      ThenClear, Goto, End
<1>3. over' = over
  BY DEF Unlocks, CloseFind, UnlockRead, Discard, DraftRead, OriginalRead, Free, Store, Clear
<1>4. article'.holder \in {article.holder, Nobody} /\ (kept => kept' \/ article'.holder = Nobody)
  BY DEF Unlocks, CloseFind, UnlockRead, Discard, DraftRead, OriginalRead, Free, Store, StoreDraft,
         Failed, Changed, Clear, TypeOK, Article
<1>5. ASSUME NEW s \in over, article.holder = s, Closing(p, s)
      PROVE  Closing(p, s)' \/ kept' \/ article'.holder = Nobody
  <2>1. Held /\ article.there /\ task[p].session = s
    BY <1>1, <1>5, NobodyAssumption DEF Held, DocInv, Closing
  <2>2. CASE CloseFind(p)
    <3>1. LockedBy(p)
      BY <1>5, <2>1 DEF LockedBy
    <3>2. task'[p].at = "force" /\ task'[p].session = s
      BY <1>1, <2>1, <2>2, <3>1 DEF CloseFind, Task
    <3>3. QED
      BY <3>2 DEF Closing
  <2>3. CASE UnlockRead(p)
    <3>1. MayUnlock(task[p].session, article.holder)
      BY <1>5, <2>1 DEF MayUnlock, Same
    <3>2. task'[p].at \in {"draft", "discard"} /\ task'[p].session = s
      BY <1>1, <2>1, <2>3, <3>1 DEF UnlockRead, Task
    <3>3. QED
      BY <3>2 DEF Closing, Unlocking
  <2>4. CASE DraftRead(p)
    <3>1. task'[p].at \in {"free", "store"} /\ task'[p].session = s
      BY <1>1, <2>1, <2>4 DEF DraftRead, Task
    <3>2. QED
      BY <3>1 DEF Closing, Unlocking
  <2>5. CASE OriginalRead(p)
    <3>1. task'[p].at \in {"freeing", "storing"} /\ task'[p].session = s
      BY <1>1, <2>1, <2>5 DEF OriginalRead, Goto, Task
    <3>2. QED
      BY <3>1 DEF Closing, Unlocking
  <2>6. CASE Discard(p) \/ Free(p) \/ Store(p)
    BY <1>5, <2>1, <2>6
    DEF Discard, Free, Store, StoreDraft, Failed, Changed, TypeOK, Article
  <2>7. ~Clear(p)
    BY <1>5 DEF Clear, At, Closing, Unlocking
  <2>8. QED
    BY <2>2, <2>3, <2>4, <2>5, <2>6, <2>7 DEF Unlocks
<1>6. CASE article'.holder = Nobody
  BY <1>1, <1>3, <1>6, NobodyAssumption DEF EndedInv
<1>7. CASE article'.holder # Nobody
  BY <1>2, <1>3, <1>4, <1>5, <1>7, EndedKept
<1>8. QED
  BY <1>6, <1>7

LEMMA OthersEnded ==
  ASSUME TypeOK, EndedInv,
         \/ \E p \in Process : Edits(p) \/ Crash(p)
         \/ \E p \in Process, s \in Session : Asking(p, s)
         \/ \E s \in Session, u \in User : Login(s, u)
         \/ TimeUp
  PROVE  EndedInv'
<1> USE DEF docVars, lockVars, ghostVars
<1>1. task \in [Process -> Task] /\ over \subseteq Session /\ Nobody \notin over
  BY NobodyAssumption DEF TypeOK
<1>2. ASSUME NEW p \in Process, Edits(p) PROVE EndedInv'
  <2>1. \A q \in Process \ {p} : task'[q].at = task[q].at /\ task'[q].session = task[q].session
    <3>1. CASE Save(p)
      BY <1>1, <3>1 DEF Save, ThenClear, End
    <3>2. CASE AutosaveWrite(p)
      BY <1>1, <3>2 DEF AutosaveWrite, Task
    <3>3. QED
      BY <1>2, <3>1, <3>2 DEF Edits
  <2>2. article'.holder = article.holder /\ UNCHANGED <<over, kept>>
    BY <1>2 DEF Edits, Save, AutosaveWrite, Changed, TypeOK, Article
  <2>3. \A s \in over : ~Closing(p, s)
    BY <1>2 DEF Edits, Save, AutosaveWrite, At, Closing, Unlocking
  <2>4. QED
    BY <2>1, <2>2, <2>3, EndedKept
<1>3. ASSUME NEW p \in Process, Crash(p) PROVE EndedInv'
  <2>1. \A q \in Process \ {p} : task'[q].at = task[q].at /\ task'[q].session = task[q].session
    BY <1>1, <1>3 DEF Crash, End
  <2>2. \A s \in over : article.holder = s /\ Closing(p, s) => kept'
    BY <1>3 DEF Crash, Closing
  <2>3. QED
    BY <1>3, <2>1, <2>2, EndedKept DEF Crash
<1>4. ASSUME NEW p \in Process, NEW s \in Session, Asking(p, s) PROVE EndedInv'
  <2>1. /\ \A q \in Process \ {p} : task'[q].at = task[q].at /\ task'[q].session = task[q].session
        /\ At(p, "idle")
    BY <1>1, <1>4
    DEF Asking, LockRead, Unlock, SessionEnd, SaveRead, AutosaveRead, Asks, Begin
  <2>2. \A t \in over : ~Closing(p, t)
    BY <2>1 DEF At, Closing, Unlocking
  <2>3. UNCHANGED <<article, kept>>
    BY <1>4 DEF Asking, LockRead, Unlock, SessionEnd, SaveRead, AutosaveRead
  <2>4. CASE SessionEnd(p, s)
    <3>1. over' = over \cup {s} /\ task'[p].session = s /\ task'[p].at \in {"close", "closeAll"}
      BY <1>1, <2>4 DEF SessionEnd, Begin, Idle
    <3>2. Closing(p, s)'
      BY <3>1 DEF Closing
    <3>3. ASSUME NEW t \in over, article.holder = t PROVE kept' \/ \E q \in Process : Closing(q, t)'
      BY <2>1, <2>2, <2>3, <3>3 DEF EndedInv, Closing
    <3>4. QED
      BY <2>3, <3>1, <3>2, <3>3 DEF EndedInv
  <2>5. CASE ~SessionEnd(p, s)
    <3>1. over' = over
      BY <1>4, <2>5 DEF Asking, LockRead, Unlock, SaveRead, AutosaveRead
    <3>2. QED
      BY <2>1, <2>2, <2>3, <3>1, EndedKept
  <2>6. QED
    BY <2>4, <2>5
<1>5. CASE (\E s \in Session, u \in User : Login(s, u)) \/ TimeUp
  <2>1. UNCHANGED <<article, task, kept>> /\ over' \subseteq over
    BY <1>5 DEF Login, TimeUp
  <2>2. QED
    BY <2>1 DEF EndedInv, Closing
<1>6. QED
  BY <1>2, <1>3, <1>4, <1>5

LEMMA StepInv == Inv /\ [Next]_vars => Inv'
<1> SUFFICES ASSUME Inv, [Next]_vars PROVE Inv'
  OBVIOUS
<1>1. TypeOK' /\ DocInv' /\ \A p \in Process : TaskInv(p)'
  BY StepType, StepTask, StepDoc DEF Inv
<1>2. EndedInv'
  <2>1. CASE Next
    BY <2>1, NextCases, LocksEnded, UnlocksEnded, OthersEnded DEF Inv
  <2>2. CASE UNCHANGED vars
    BY <2>2 DEF vars, docVars, ghostVars, Inv, EndedInv, Closing
  <2>3. QED
    BY <2>1, <2>2
<1>3. QED
  BY <1>1, <1>2 DEF Inv

-----------------------------------------------------------------------------
\* One request at a time sets the lock fields, however many are slower than their lock:
\* of these each is known to have been overtaken.
THEOREM OneSetsTheLock == Spec => []OneLocking
<1>1. Inv => OneLocking
  <2> SUFFICES ASSUME Inv, NEW p \in Process, NEW q \in Process,
                      {task[p].at, task[q].at} \subseteq {"assign", "assigned"},
                      task[p].sound, task[q].sound
               PROVE  p = q
    BY DEF OneLocking
  <2>1. owner = p /\ owner = q
    BY DEF Inv, TaskInv
  <2>2. QED
    BY <2>1
<1>2. QED
  BY <1>1, InitInv, StepInv, PTL DEF Spec

\* A session that has ended loses what it holds, unless an unlock was dropped or crashed
\* or a lock request of the session outlived it.
THEOREM EndedSessionsRelease == Spec => []EndedHoldsNothing
<1>1. Inv => EndedHoldsNothing
  <2> SUFFICES ASSUME Inv, article.holder \in over, ~kept
               PROVE  \E p \in Process : task[p].session \in Session /\ Same(task[p].session, article.holder)
    BY DEF EndedHoldsNothing
  <2>1. PICK p \in Process : Closing(p, article.holder)
    BY DEF Inv, EndedInv
  <2>2. task[p].session = article.holder /\ article.holder \in Session
    BY <2>1 DEF Closing, Inv, TypeOK
  <2>3. QED
    BY <2>2 DEF Same
<1>2. QED
  BY <1>1, InitInv, StepInv, PTL DEF Spec

\* The steps that write the article.
LEMMA WritingStep ==
  ASSUME Inv, [Next]_vars, article' # article
  PROVE  \E p \in Process : /\ Assign(p) \/ Discard(p) \/ Free(p) \/ Store(p) \/ Save(p)
                            /\ Unchanged(p) \/ Discard(p)
<1> USE DEF docVars
<1>1. Next
  BY DEF vars
<1>2. ASSUME NEW p \in Process, Locks(p) PROVE Assign(p) /\ Unchanged(p)
  BY <1>2 DEF Locks, LockRefused, LockTake, AssignRead, Assign, LockReturn
<1>3. ASSUME NEW p \in Process, Unlocks(p)
      PROVE  Discard(p) \/ ((Free(p) \/ Store(p)) /\ Unchanged(p))
  BY <1>3 DEF Unlocks, CloseFind, UnlockRead, DraftRead, OriginalRead, Free, Store, Failed, Clear
<1>4. ASSUME NEW p \in Process, Edits(p) \/ Crash(p) PROVE Save(p) /\ Unchanged(p)
  BY <1>4 DEF Edits, Save, AutosaveWrite, Crash
<1>5. ~ \/ \E p \in Process, s \in Session : Asking(p, s)
        \/ \E s \in Session, u \in User : Login(s, u)
        \/ TimeUp
  BY DEF Asking, LockRead, Unlock, SessionEnd, SaveRead, AutosaveRead, Login, TimeUp
<1>6. QED
  BY <1>1, <1>2, <1>3, <1>4, <1>5, NextCases

\* They end or move on.
LEMMA WritingMoves ==
  ASSUME TypeOK, NEW p \in Process,
         Assign(p) \/ Discard(p) \/ Free(p) \/ Store(p) \/ Save(p)
  PROVE  task'[p] # task[p]
<1>1. task \in [Process -> Task] /\ task[p] \in Task
  BY DEF TypeOK
<1>2. task'[p].at \in {"return", "idle", "clear"}
  <2>1. CASE Assign(p)
    BY <1>1, <2>1 DEF Assign, Goto, Task
  <2>2. CASE Discard(p) \/ Free(p)
    <3>1. End(p)
      BY <2>2 DEF Discard, Free
    <3>2. QED
      BY <1>1, <3>1 DEF End, Idle
  <2>3. CASE Store(p) \/ Save(p)
    <3>1. \E sound \in BOOLEAN : ThenClear(p, sound)
      BY <2>3 DEF Store, Save
    <3>2. QED
      BY <1>1, <3>1 DEF ThenClear, End, Idle, Task
  <2>4. QED
    BY <2>1, <2>2, <2>3
<1>3. task[p].at \in {"assigned", "discard", "freeing", "storing", "saving"}
  BY DEF Assign, Discard, Free, Store, Save, At
<1>4. QED
  BY <1>2, <1>3

\* A holder loses the article only to an unlock it must bear or to a request that had not
\* seen it hold the article.
THEOREM LocksAreRespected == Spec => LockRespected
<1> DEFINE Loss == Held /\ article'.holder # article.holder =>
              \E p \in Process :
                /\ task'[p] # task[p]
                /\ \/ task[p].seen # article.holder
                   \/ article'.holder = Nobody /\ MayUnlock(task[p].session, article.holder)
<1>1. Inv /\ [Next]_vars => [Loss]_vars
  <2> SUFFICES ASSUME Inv, [Next]_vars, Held, article'.holder # article.holder
               PROVE  \E p \in Process :
                        /\ task'[p] # task[p]
                        /\ \/ task[p].seen # article.holder
                           \/ article'.holder = Nobody /\ MayUnlock(task[p].session, article.holder)
    OBVIOUS
  <2>1. PICK p \in Process : Assign(p) \/ Discard(p) \/ Free(p) \/ Store(p) \/ Save(p)
    BY WritingStep
  <2>2. task'[p] # task[p]
    BY <2>1, WritingMoves DEF Inv
  <2>3. CASE Assign(p)
    <3>1. article'.holder = task[p].session
      BY <2>3 DEF Assign, Changed, Inv, TypeOK, Article
    <3>2. CanLock(task[p].seen, task[p].session)
      BY <2>3 DEF Assign, At, Inv, TaskInv
    <3>3. QED
      BY <2>2, <3>1, <3>2 DEF CanLock, Held
  <2>4. CASE Discard(p) \/ Free(p) \/ Store(p)
    <3>1. article'.holder = Nobody
      BY <2>4 DEF Discard, Free, Store, StoreDraft, Failed, Changed, Inv, TypeOK, Article
    <3>2. task[p].at \in Unlocking
      BY <2>4 DEF Discard, Free, Store, At, Unlocking
    <3>3. MayUnlock(task[p].session, task[p].seen)
      BY <3>2 DEF Inv, TaskInv
    <3>4. QED
      BY <2>2, <3>1, <3>3
  <2>5. ~Save(p)
    BY DEF Save, Changed, Inv, TypeOK, Article
  <2>6. QED
    BY <2>1, <2>3, <2>4, <2>5
<1>2. QED
  BY <1>1, InitInv, StepInv, PTL DEF Spec, LockRespected

\* The text of a locked article is its holder's, but for an unlock that had seen another
\* holder or found the draft of a user who was not the holder.
THEOREM TextIsTheHolders == Spec => TextByHolder
<1> DEFINE Written == article'.text # article.text /\ Held =>
              \/ HeldBy(article'.text)
              \/ \E p \in Process : /\ task'[p] # task[p] /\ At(p, "storing")
                                    /\ task[p].seen # article.holder \/ ~task[p].sound
<1>1. Inv /\ [Next]_vars => [Written]_vars
  <2> SUFFICES ASSUME Inv, [Next]_vars, article'.text # article.text, Held
               PROVE  \/ HeldBy(article'.text)
                      \/ \E p \in Process :
                           /\ task'[p] # task[p] /\ At(p, "storing")
                           /\ task[p].seen # article.holder \/ ~task[p].sound
    OBVIOUS
  <2>1. PICK p \in Process : /\ Assign(p) \/ Discard(p) \/ Free(p) \/ Store(p) \/ Save(p)
                             /\ Unchanged(p) \/ Discard(p)
    BY WritingStep
  <2>2. task'[p] # task[p]
    BY <2>1, WritingMoves DEF Inv
  <2>3. CASE Store(p)
    <3>1. article'.text = task[p].copy /\ task[p].at = "storing"
      BY <2>3 DEF Store, StoreDraft, Changed, Failed, At, Inv, TypeOK, Article
    <3>2. task[p].sound => Same(task[p].copy, task[p].seen)
      BY <3>1 DEF Inv, TaskInv
    <3>3. QED
      BY <2>2, <3>1, <3>2 DEF At, HeldBy, Same
  <2>4. CASE Save(p)
    <3>1. article'.text = task[p].session /\ task[p].at = "saving" /\ Unchanged(p)
      BY <2>4 DEF Save, Changed, At, Inv, TypeOK, Article
    <3>2. MayEdit(task[p].session)
      BY <3>1 DEF Inv, TaskInv, Unchanged
    <3>3. QED
      BY <3>1, <3>2 DEF MayEdit
  <2>5. ~Assign(p) /\ ~Discard(p) /\ ~Free(p)
    BY DEF Assign, Discard, Free, Failed, Changed, Inv, TypeOK, Article
  <2>6. QED
    BY <2>1, <2>3, <2>4, <2>5
<1>2. QED
  BY <1>1, InitInv, StepInv, PTL DEF Spec, TextByHolder

\* A draft is deleted with its article or when the article has what it says; exempt are
\* requests whose update was dropped or that a draft or a lock came in between of.
THEOREM DraftsAreKept == Spec => DraftKept
<1> DEFINE Deleted == draft # Nobody /\ draft' = Nobody /\ article'.there =>
              stored \/ \E p \in Process : At(p, "clear") /\ ~task[p].sound
<1>1. Inv /\ [Next]_vars => [Deleted]_vars
  <2> SUFFICES ASSUME Inv, [Next]_vars, draft # Nobody, draft' = Nobody, article'.there
               PROVE  stored \/ \E p \in Process : At(p, "clear") /\ ~task[p].sound
    OBVIOUS
  <2>1. \E p \in Process : Clear(p)
    <3> USE DEF docVars
    <3>1. Next
      BY DEF vars
    <3>2. ASSUME NEW p \in Process, Locks(p) PROVE FALSE
      BY <3>2 DEF Locks, LockRefused, LockTake, AssignRead, Assign, LockReturn
    <3>3. ASSUME NEW p \in Process, Unlocks(p) PROVE Clear(p)
      BY <3>3 DEF Unlocks, CloseFind, UnlockRead, Discard, Changed, DraftRead, OriginalRead, Free,
                  Store, Inv, TypeOK, Article
    <3>4. ASSUME NEW p \in Process, Edits(p) \/ Crash(p) PROVE FALSE
      <4>1. ~AutosaveWrite(p)
        BY NobodyAssumption DEF AutosaveWrite, At, Inv, TaskInv
      <4>2. QED
        BY <3>4, <4>1 DEF Edits, Save, Crash
    <3>5. ~ \/ \E p \in Process, s \in Session : Asking(p, s)
            \/ \E s \in Session, u \in User : Login(s, u)
            \/ TimeUp
      BY DEF Asking, LockRead, Unlock, SessionEnd, SaveRead, AutosaveRead, Login, TimeUp
    <3>6. QED
      BY <3>1, <3>2, <3>3, <3>4, <3>5, NextCases
  <2>2. PICK p \in Process : Clear(p)
    BY <2>1
  <2>3. QED
    BY <2>2 DEF Clear, At, Inv, TaskInv
<1>2. QED
  BY <1>1, InitInv, StepInv, PTL DEF Spec, DraftKept
=============================================================================
