------------------------------ MODULE CronLock ------------------------------
(***************************************************************************)
(* The lock by which the sessions of one directory agree on who runs its   *)
(* scheduled tasks (utils/cronTasksLock.ts): a file with the session's id  *)
(* and process id, created exclusively.                                    *)
(*                                                                         *)
(* An action is one file operation.  Creating the file and writing it are  *)
(* two, and until the second the file cannot be parsed.                    *)
(***************************************************************************)
EXTENDS Naturals, FiniteSets

CONSTANTS
  Sessions,    \* session ids
  None,        \* no lock file
  MaxExits     \* bound on the processes that crash or are stopped

ASSUME ExitsAssumption == MaxExits \in Nat

\* No lock file is told from any lock file.
ASSUME NoneAssumption ==
  None \notin [session: Sessions, process: 0 .. MaxExits + 1, written: BOOLEAN]

VARIABLES
  lock,        \* the lock file: its session, that one's process, fully written
  pc,          \* the file operation each session does next on it
  process,     \* the process of each session: 1 is the first, 0 is none
  recovered,   \* whether a session has ever unlinked a lock as a stale one
  crashes      \* number of crashes so far

lockVars == <<lock, pc, process, recovered, crashes>>

LockStep == {"idle", "create", "write", "read", "rewrite", "unlink", "recreate",
             "won", "lost", "releasing", "unlinking"}

LockTypeOK ==
  /\ lock \in [session: Sessions, process: 1 .. MaxExits + 1, written: BOOLEAN] \cup {None}
  /\ pc \in [Sessions -> LockStep]
  /\ process \in [Sessions -> 0 .. MaxExits + 1]
  /\ recovered \in BOOLEAN
  /\ crashes \in 0 .. MaxExits

LockOf(s) == [session |-> s, process |-> process[s], written |-> FALSE]

\* isProcessRunning, of the process a lock names.
IsRunning(l) == process[l.session] = l.process

-----------------------------------------------------------------------------

\* Mutant: the file is not created exclusively.
TryCreateAnyway(s, otherwise) ==
  IF lock = None \/ otherwise = "read"
  THEN lock' = LockOf(s) /\ pc' = [pc EXCEPT ![s] = "write"]
  ELSE pc' = [pc EXCEPT ![s] = otherwise] /\ UNCHANGED lock

\* tryCreateExclusive: the file is created unless there is one.
TryCreate(s, otherwise) ==
  IF lock = None
  THEN lock' = LockOf(s) /\ pc' = [pc EXCEPT ![s] = "write"]
  ELSE pc' = [pc EXCEPT ![s] = otherwise] /\ UNCHANGED lock

CreateLock(s) ==
  /\ pc[s] = "create"
  /\ TryCreate(s, "read")
  /\ UNCHANGED <<process, recovered, crashes>>

\* The write goes to the file that was created, which may be gone by now.
WriteLock(s) ==
  /\ pc[s] = "write"
  /\ lock' = IF lock = LockOf(s) THEN [lock EXCEPT !.written = TRUE] ELSE lock
  /\ pc' = [pc EXCEPT ![s] = "won"]
  /\ UNCHANGED <<process, recovered, crashes>>

\* Mutant: whoever holds the lock is taken to be alive.
VerdictTrusting(s) ==
  IF lock = None \/ ~lock.written THEN "unlink"
  ELSE IF lock.session = s THEN "won" ELSE "lost"

\* What a session does about the lock it reads, as readLock sees it: one that is
\* half written or of a dead process is stale.
Verdict(s) ==
  IF lock = None \/ ~lock.written THEN "unlink"
  ELSE IF lock.session = s THEN IF lock.process = process[s] THEN "won" ELSE "rewrite"
  ELSE IF IsRunning(lock) THEN "lost" ELSE "unlink"

ReadLock(s) ==
  /\ pc[s] = "read"
  /\ pc' = [pc EXCEPT ![s] = Verdict(s)]
  /\ UNCHANGED <<lock, process, recovered, crashes>>

\* A resumed session enters its new process, whatever the file holds by now.
RewriteLock(s) ==
  /\ pc[s] = "rewrite"
  /\ lock' = LockOf(s)
  /\ pc' = [pc EXCEPT ![s] = "write"]
  /\ UNCHANGED <<process, recovered, crashes>>

\* Recovery: unlink what is there now, then create once more.
UnlinkStale(s) ==
  /\ pc[s] = "unlink"
  /\ lock' = None
  /\ recovered' = (recovered \/ lock # None)
  /\ pc' = [pc EXCEPT ![s] = "recreate"]
  /\ UNCHANGED <<process, crashes>>

CreateAgain(s) ==
  /\ pc[s] = "recreate"
  /\ TryCreate(s, "lost")
  /\ UNCHANGED <<process, recovered, crashes>>

\* releaseSchedulerLock: reads the lock, then unlinks it if it is its own.
ReadToRelease(s) ==
  /\ pc[s] = "releasing"
  /\ pc' = [pc EXCEPT ![s] = IF lock # None /\ lock.written /\ lock.session = s
                             THEN "unlinking" ELSE "idle"]
  /\ UNCHANGED <<lock, process, recovered, crashes>>

UnlinkOwn(s) ==
  /\ pc[s] = "unlinking"
  /\ lock' = None
  /\ pc' = [pc EXCEPT ![s] = "idle"]
  /\ UNCHANGED <<process, recovered, crashes>>

LockAction(s) ==
  \/ CreateLock(s) \/ WriteLock(s) \/ ReadLock(s) \/ RewriteLock(s)
  \/ UnlinkStale(s) \/ CreateAgain(s)
  \/ ReadToRelease(s) \/ UnlinkOwn(s)

LockInit ==
  /\ lock = None
  /\ pc = [s \in Sessions |-> "idle"]
  /\ process = [s \in Sessions |-> 0]
  /\ recovered = FALSE /\ crashes = 0
=============================================================================
