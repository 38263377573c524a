-------------------------------- MODULE Lock --------------------------------
(***************************************************************************)
(* The lock of superdesk/lock.py: one document of a mongo collection with  *)
(* its owner, a process, and the time it is good for.  Each operation is   *)
(* one atomic operation of mongo.  A lock whose time is up is free for     *)
(* whoever asks next; its owner is not told.                               *)
(***************************************************************************)
CONSTANTS Process, Nobody

VARIABLES
  owner,   \* the process the lock belongs to, or Nobody: there is no document
  late     \* the time of the lock is up

lockVars == <<owner, late>>

LockType == owner \in Process \cup {Nobody} /\ late \in BOOLEAN /\ (owner = Nobody => ~late)
LockInit == owner = Nobody /\ late = FALSE

\* lock, with no timeout: the document is inserted, or taken over.
FreeAlways == TRUE  \* mutant
Free == owner = Nobody \/ late
Acquire(p) == Free /\ owner' = p /\ late' = FALSE

\* touch: it is not asked whether the time was up, only whose the lock is.
Touch(p) == owner = p /\ owner' = p /\ late' = FALSE

\* unlock deletes the document of its owner and no other.
Release(p) == IF owner = p THEN owner' = Nobody /\ late' = FALSE ELSE UNCHANGED lockVars

TimeUp == owner # Nobody /\ ~late /\ late' = TRUE /\ UNCHANGED owner

=============================================================================
