------------------------------ MODULE ItemLock ------------------------------
(***************************************************************************)
(* Who may edit an article: the lock fields of the article                 *)
(* (apps/item_lock/components/item_lock.py), the drafts that clients save  *)
(* on their own (apps/item_autosave), saving, and the end of a session,    *)
(* which unlocks what it held.  A request that sets the fields is itself   *)
(* under a lock of five seconds (superdesk/lock.py); the others only have  *)
(* the etag of the article, and an update that fails on it is dropped      *)
(* without an error (superdesk/eve_backend.py).                            *)
(*                                                                         *)
(* The article is on a desk of which all users are members; it is not      *)
(* published.                                                              *)
(***************************************************************************)
EXTENDS Naturals

CONSTANTS
  Session,      \* sessions of users
  User,
  Privileged,   \* SUBSET User: those with the privilege "unlock"
  Process,      \* processes that serve requests, one at a time
  Nobody,
  MaxFaults     \* bound on crashes and on requests slower than their lock

ASSUME NobodyAssumption == Nobody \notin Session /\ Nobody \notin Process
ASSUME UserAssumption == Privileged \subseteq User
ASSUME BoundAssumption == MaxFaults \in Nat

VARIABLES
  article,   \* its document, see Article
  draft,     \* the session whose autosaved draft there is, or Nobody
  user,      \* [Session -> User]: whose they are
  over,      \* SUBSET Session: those that have ended
  owner,     \* the lock "item_lock <id>", see Lock
  late,
  task,      \* [Process -> Task]: the request being served
  fresh,     \* SUBSET Process: their copy of the article has its etag still
  faults,    \* those so far
  stored,    \* ghost: there is a draft and the article has what it says
  kept       \* ghost: an ended session holds the article, see EndedHoldsNothing

docVars   == <<article, draft, user, over>>
lockVars  == <<owner, late>>
ghostVars == <<stored, kept>>
vars == <<docVars, lockVars, task, fresh, faults, ghostVars>>

L == INSTANCE Lock

-----------------------------------------------------------------------------
\* saved: it has a version; text: the session that wrote what it says.
Article == [there : BOOLEAN, saved : BOOLEAN, holder : Session \cup {Nobody},
            text : Session \cup {Nobody}]
\* Where a request may be.
Point == {"idle", "lease", "assign", "assigned", "return", "close", "closeAll", "unlock", "force",
          "discard", "draft", "free", "freeing", "store", "storing", "saving", "clear", "drafting"}
\* session: for whom; seen: the holder when the request read the article; copy: the
\* draft it has read; sound: that is the draft of the holder seen, and nothing has come
\* between the steps of the request (ghost).
Task == [at : Point, session : Session \cup {Nobody}, seen : Session \cup {Nobody},
         copy : Session \cup {Nobody}, sound : BOOLEAN]
Idle == [at |-> "idle", session |-> Nobody, seen |-> Nobody, copy |-> Nobody, sound |-> TRUE]

Same(s, t) == user[s] = user[t]
Held == article.holder # Nobody
HeldBy(s) == Held /\ Same(article.holder, s)

Init ==
  /\ \E saved \in BOOLEAN :
       article = [there |-> TRUE, saved |-> saved, holder |-> Nobody, text |-> Nobody]
  /\ draft = Nobody /\ user \in [Session -> User] /\ over = {}
  /\ L!LockInit
  /\ task = [p \in Process |-> Idle]
  /\ fresh = {} /\ faults = 0 /\ stored = FALSE /\ kept = FALSE

At(p, point) == task[p].at = point
Goto(p, point) == task' = [task EXCEPT ![p].at = point]
End(p) == task' = [task EXCEPT ![p] = Idle]
Begin(p, s, point, seen) ==
  task' = [task EXCEPT ![p] = [Idle EXCEPT !.at = point, !.session = s, !.seen = seen]]

\* A request for a session that is not over, by a process that has nothing to do.
Asks(p, s) == At(p, "idle") /\ s \notin over /\ article.there

\* A patch reads the original and updates the document if it has its etag still.
ReadOriginal(p) == fresh' = fresh \cup {p}
UnchangedOrNot(p) == TRUE  \* mutant
Unchanged(p) == p \in fresh
Changed(a) == article' = a /\ fresh' = {}

\* The holder becomes s; kept is about an ended session that is the holder.
Holder(s, ended) == kept' = (s # Nobody /\ ended)

-----------------------------------------------------------------------------
(* ItemLock.lock.  The article is read before the lock is taken.           *)

LockRead(p, s) ==
  /\ Asks(p, s)
  /\ Begin(p, s, "lease", article.holder)
  /\ UNCHANGED <<docVars, lockVars, fresh, ghostVars, faults>>

\* can_lock: not when another user or another session of the user has it.
CanLockUser(holder, s) == holder # Nobody => Same(holder, s)  \* mutant
CanLock(holder, s) == holder \in {Nobody, s}

LockRefused(p) ==
  /\ At(p, "lease")
  /\ ~L!Free \/ ~CanLock(task[p].seen, task[p].session)
  /\ End(p)
  /\ UNCHANGED <<docVars, lockVars, fresh, ghostVars, faults>>

LockTake(p) ==
  /\ At(p, "lease") /\ CanLock(task[p].seen, task[p].session)
  /\ L!Acquire(p)
  /\ task' = [q \in Process |->
                IF q = p THEN [task[p] EXCEPT !.at = "assign"]
                ELSE IF q = owner /\ late THEN [task[q] EXCEPT !.sound = At(q, "idle")]
                ELSE task[q]]
  /\ UNCHANGED <<docVars, fresh, ghostVars, faults>>

\* tasks.assign_user is a patch.
AssignRead(p) ==
  /\ At(p, "assign")
  /\ IF article.there THEN ReadOriginal(p) /\ Goto(p, "assigned")
                      ELSE UNCHANGED fresh /\ Goto(p, "return")
  /\ UNCHANGED <<docVars, lockVars, ghostVars, faults>>

Assign(p) ==
  /\ At(p, "assigned")
  /\ IF Unchanged(p)
     THEN /\ Changed([article EXCEPT !.holder = task[p].session])
          /\ Holder(task[p].session, task[p].session \in over)
     ELSE UNCHANGED <<article, fresh, kept>>
  /\ Goto(p, "return")
  /\ UNCHANGED <<draft, user, over, lockVars, stored, faults>>

LockReturn(p) ==
  /\ At(p, "return")
  /\ L!Release(p)
  /\ End(p)
  /\ UNCHANGED <<docVars, fresh, ghostVars, faults>>

Locking == {"assign", "assigned", "return"}

TimeUp ==
  /\ L!TimeUp
  /\ IF task[owner].at \in Locking THEN faults < MaxFaults /\ faults' = faults + 1
                                   ELSE UNCHANGED faults
  /\ UNCHANGED <<docVars, task, fresh, ghostVars>>

-----------------------------------------------------------------------------
(* ItemLock.unlock, as a request or at the end of a session.               *)

Unlock(p, s) ==
  /\ Asks(p, s)
  /\ Begin(p, s, "unlock", Nobody)
  /\ UNCHANGED <<docVars, lockVars, fresh, ghostVars, faults>>

\* A session is deleted, by a logout or because it has expired; then come the
\* articles it has locked, or those of its user if a logout has left him no other.
SessionEnd(p, s) ==
  /\ At(p, "idle") /\ s \notin over
  /\ over' = over \cup {s}
  /\ \/ Begin(p, s, "close", Nobody)
     \/ {t \in Session : Same(t, s)} \subseteq over' /\ Begin(p, s, "closeAll", Nobody)
  /\ UNCHANGED <<article, draft, user, lockVars, fresh, ghostVars, faults>>

\* A user logs in, with a session that is nowhere to be found.
Login(s, u) ==
  /\ s \in over /\ s \notin {article.holder, article.text, draft}
  /\ \A p \in Process : s \notin {task[p].session, task[p].seen, task[p].copy}
  /\ over' = over \ {s} /\ user' = [user EXCEPT ![s] = u]
  /\ UNCHANGED <<article, draft, lockVars, task, fresh, ghostVars, faults>>

LockedByLast(p) == At(p, "closeAll") /\ HeldBy(task[p].session)  \* mutant
LockedBy(p) == article.holder = task[p].session \/ (At(p, "closeAll") /\ HeldBy(task[p].session))

CloseFind(p) ==
  /\ At(p, "close") \/ At(p, "closeAll")
  /\ IF article.there /\ LockedBy(p)
     THEN task' = [task EXCEPT ![p].at = "force", ![p].seen = article.holder]
     ELSE End(p)
  /\ UNCHANGED <<docVars, lockVars, fresh, ghostVars, faults>>

MayUnlock(s, holder) == Same(s, holder) \/ user[s] \in Privileged

\* An article that was never saved is deleted.  The end of a session goes on with what
\* it has found.
UnlockRead(p) ==
  /\ At(p, "unlock") \/ At(p, "force")
  /\ IF article.there /\ Held /\ (At(p, "force") \/ MayUnlock(task[p].session, article.holder))
     THEN task' = [task EXCEPT ![p].at = IF article.saved THEN "draft" ELSE "discard",
                               ![p].seen = IF At(p, "force") THEN @ ELSE article.holder]
     ELSE End(p)
  /\ UNCHANGED <<docVars, lockVars, fresh, ghostVars, faults>>

\* archive.delete_action, which clears the draft.
Discard(p) ==
  /\ At(p, "discard")
  /\ Changed([article EXCEPT !.there = FALSE, !.holder = Nobody])
  /\ draft' = Nobody /\ stored' = FALSE
  /\ Holder(Nobody, FALSE)
  /\ End(p)
  /\ UNCHANGED <<user, over, lockVars, faults>>

\* Without a draft the lock fields are cleared, with one it is saved as well.
DraftRead(p) ==
  /\ At(p, "draft")
  /\ task' = [task EXCEPT ![p].at = IF draft = Nobody THEN "free" ELSE "store",
                          ![p].copy = draft,
                          ![p].sound = draft = Nobody \/ Same(draft, task[p].seen)]
  /\ UNCHANGED <<docVars, lockVars, fresh, ghostVars, faults>>

\* find_one before the update; of a document that is gone it is an error.
OriginalRead(p) ==
  /\ At(p, "free") \/ At(p, "store")
  /\ IF article.there
     THEN ReadOriginal(p) /\ Goto(p, IF At(p, "free") THEN "freeing" ELSE "storing")
     ELSE UNCHANGED fresh /\ End(p)
  /\ UNCHANGED <<docVars, lockVars, ghostVars, faults>>

\* An unlock that fails on its etag leaves the article locked.
Failed(p) ==
  /\ kept' = (kept \/ (task[p].session \in over /\ article.holder \in over))
  /\ UNCHANGED <<article, fresh>>

Free(p) ==
  /\ At(p, "freeing")
  /\ IF Unchanged(p)
     THEN /\ Changed([article EXCEPT !.holder = Nobody])
          /\ Holder(Nobody, FALSE)
     ELSE Failed(p)
  /\ End(p)
  /\ UNCHANGED <<draft, user, over, lockVars, stored, faults>>

\* archive.on_updated deletes the draft, whoever wrote it and whether or not the
\* update was made.
ThenClear(p, sound) ==
  IF article.there
  THEN task' = [task EXCEPT ![p].at = "clear", ![p].copy = Nobody, ![p].sound = sound]
  ELSE End(p)

StoreNothing(p) == [article EXCEPT !.holder = Nobody]  \* mutant
StoreDraft(p) == [article EXCEPT !.holder = Nobody, !.text = task[p].copy]
Has(a) == stored' = (draft # Nobody /\ (stored \/ a.text = draft))

Store(p) ==
  /\ At(p, "storing")
  /\ IF Unchanged(p)
     THEN /\ Changed(StoreDraft(p)) /\ Has(StoreDraft(p))
          /\ Holder(Nobody, FALSE)
     ELSE Failed(p) /\ UNCHANGED stored
  /\ ThenClear(p, task[p].sound /\ Unchanged(p))
  /\ UNCHANGED <<draft, user, over, lockVars, faults>>

Clear(p) ==
  /\ At(p, "clear")
  /\ draft' = Nobody /\ stored' = FALSE
  /\ End(p)
  /\ UNCHANGED <<article, user, over, lockVars, fresh, kept, faults>>

-----------------------------------------------------------------------------
(* Saving the article, and the drafts saved without asking.                *)

\* _validate_updates and autosave: not an article another user has locked.
MayEdit(s) == ~Held \/ HeldBy(s)

\* What is saved has what the client has put into its draft.
SaveRead(p, s) ==
  /\ Asks(p, s) /\ MayEdit(s)
  /\ Begin(p, s, "saving", Nobody)
  /\ ReadOriginal(p)
  /\ UNCHANGED <<docVars, lockVars, ghostVars, faults>>

Save(p) ==
  LET s == task[p].session
      a == [article EXCEPT !.saved = TRUE, !.text = s] IN
  /\ At(p, "saving")
  /\ IF Unchanged(p) THEN Changed(a) /\ Has(a) ELSE UNCHANGED <<article, fresh, stored>>
  /\ ThenClear(p, task[p].sound /\ Unchanged(p) /\ draft \in {Nobody, s})
  /\ UNCHANGED <<draft, user, over, lockVars, kept, faults>>

AutosaveRead(p, s) ==
  /\ Asks(p, s) /\ MayEdit(s)
  /\ Begin(p, s, "drafting", Nobody)
  /\ UNCHANGED <<docVars, lockVars, fresh, ghostVars, faults>>

Saving(q) == task[q].at \in {"store", "storing", "saving", "clear"}

AutosaveWrite(p) ==
  /\ At(p, "drafting")
  /\ draft' = task[p].session
  /\ stored' = FALSE
  /\ task' = [q \in Process |->
                IF q = p THEN Idle
                ELSE IF Saving(q) THEN [task[q] EXCEPT !.sound = FALSE]
                ELSE task[q]]
  /\ UNCHANGED <<article, user, over, lockVars, fresh, kept, faults>>

-----------------------------------------------------------------------------
\* A process dies with its request; its locks stay.
Crash(p) ==
  /\ ~At(p, "idle") /\ faults < MaxFaults
  /\ faults' = faults + 1
  /\ kept' = (kept \/ (task[p].session \in over /\ article.holder \in over))
  /\ End(p)
  /\ fresh' = fresh \ {p}
  /\ UNCHANGED <<docVars, lockVars, stored>>

Asking(p, s) ==
  LockRead(p, s) \/ Unlock(p, s) \/ SessionEnd(p, s) \/ SaveRead(p, s) \/ AutosaveRead(p, s)

Serving(p) ==
  \/ LockRefused(p) \/ LockTake(p) \/ AssignRead(p) \/ Assign(p) \/ LockReturn(p)
  \/ CloseFind(p) \/ UnlockRead(p) \/ Discard(p) \/ DraftRead(p) \/ OriginalRead(p)
  \/ Free(p) \/ Store(p) \/ Clear(p) \/ Save(p) \/ AutosaveWrite(p) \/ Crash(p)

Next == \/ \E p \in Process : Serving(p) \/ \E s \in Session : Asking(p, s)
        \/ \E s \in Session, u \in User : Login(s, u)
        \/ TimeUp

Spec == Init /\ [][Next]_vars

-----------------------------------------------------------------------------
\* Every field of the article, its lock and the requests has a value of its type.
TypeOK ==
  /\ article \in Article /\ draft \in Session \cup {Nobody}
  /\ user \in [Session -> User] /\ over \subseteq Session
  /\ L!LockType
  /\ task \in [Process -> Task] /\ fresh \subseteq Process
  /\ faults \in 0 .. MaxFaults /\ stored \in BOOLEAN /\ kept \in BOOLEAN

\* At most one request at a time sets the lock fields, but for one that took more than
\* the five seconds its own lock is good for and was overtaken.
OneLocking ==
  \A p, q \in Process :
    /\ {task[p].at, task[q].at} \subseteq {"assign", "assigned"}
    /\ task[p].sound /\ task[q].sound
    => p = q

\* A session loses an article only to an unlock it must bear (by its user or by one
\* who may break locks) or to a request that had read the article before the session
\* got it: nobody locks over a lock he has seen.
LockRespected ==
  [][Held /\ article'.holder # article.holder =>
       \E p \in Process :
         /\ task'[p] # task[p]
         /\ \/ task[p].seen # article.holder
            \/ article'.holder = Nobody /\ MayUnlock(task[p].session, article.holder)]_vars

\* Nobody's text gets into an article another user has locked, except by an unlock
\* that had seen another holder or found the draft of a user who was not the holder.
TextByHolder ==
  [][article'.text # article.text /\ Held =>
       \/ HeldBy(article'.text)
       \/ \E p \in Process : /\ task'[p] # task[p] /\ At(p, "storing")
                             /\ task[p].seen # article.holder \/ ~task[p].sound]_vars

\* A draft is deleted only when the article has what it says, or with the article;
\* exempt are a request whose update was dropped, one during which a draft was
\* written, and a save while the draft is of another session.
DraftKept ==
  [][draft # Nobody /\ draft' = Nobody /\ article'.there =>
       stored \/ \E p \in Process : At(p, "clear") /\ ~task[p].sound]_vars

\* A session that has ended holds no article once the request that ended it is over,
\* unless its unlock was dropped or crashed or a lock request of the session outlived it.
EndedHoldsNothing ==
  article.holder \in over =>
    kept \/ \E p \in Process : task[p].session \in Session /\ Same(task[p].session, article.holder)

=============================================================================
