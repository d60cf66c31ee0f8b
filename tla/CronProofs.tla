----------------------------- MODULE CronProofs -----------------------------
(***************************************************************************)
(* Theorems of module Cron, for any number of sessions, tasks and exits.   *)
(*                                                                         *)
(* The state is of its type, and as long as no session has unlinked a lock *)
(* it took for a stale one at most one session runs the tasks.  The        *)
(* invariant says who the lock file names.  A session that owns the tasks, *)
(* is about to, or is about to write or to unlink the file, finds its own  *)
(* id there: nobody else can have touched the file since it looked without *)
(* having recovered a stale lock.                                          *)
(*                                                                         *)
(* With loads in time (Timely) and until there is a mishap, a process      *)
(* fires a task once, and does not fire what the user has deleted, once it *)
(* has loaded the file again, nor what the user was asked about.  The      *)
(* invariant says what is Gone: it is not in the file and in nothing that  *)
(* is about to be written, and an operation that still has it from an      *)
(* earlier look at the file notices that it loses a change.  A list may be *)
(* behind the file, but what a session has had on its list and has no more *)
(* is gone and does not come back to it (Forgotten).                       *)
(***************************************************************************)
EXTENDS Cron, FiniteSetTheorems, TLAPS

\* What a session does next rests on the lock being its own.
RestsOnLock(s) == owner[s] \/ pc[s] \in {"write", "won", "rewrite", "unlinking"}

NamedInLock == \A s \in Sessions : RestsOnLock(s) => lock # None /\ lock.session = s

\* An owner runs and does nothing to the lock; whoever does something to it has a process.
OwnerIdle == \A s \in Sessions : owner[s] => pc[s] = "idle" /\ Live(s)

HasProcess ==
  \A s \in Sessions : /\ pc[s] # "idle" => mode[s] # "off"
                      /\ mode[s] # "off" => process[s] # 0

StoppedOnes == {s \in Sessions : mode[s] = "stopped"}

ExitsBounded == IsFiniteSet(StoppedOnes) /\ crashes + Cardinality(StoppedOnes) <= MaxExits

LockInv ==
  /\ LockTypeOK /\ mode \in [Sessions -> Mode] /\ owner \in [Sessions -> BOOLEAN]
  /\ OwnerIdle /\ HasProcess /\ ExitsBounded
  /\ recovered \/ NamedInLock

JobTyped(j) ==
  j \in [session: Sessions, ids: SUBSET Tasks, snap: Contents, time: Time,
         op: {"load", "reload", "fire", "missed", "delete", "add", "mark"},
         stage: {"read", "land", "write"}]

FileInv ==
  /\ file \in Contents /\ loaded \in [Sessions -> Contents]
  /\ DOMAIN nextFire = Sessions
  /\ \A s \in Sessions : nextFire[s] \in [DOMAIN nextFire[s] -> 0 .. Never]
  /\ inFlight \in [Sessions -> SUBSET Tasks]
  /\ changed \subseteq Sessions
  /\ \A j \in jobs : JobTyped(j)
  /\ now \in Time /\ edits \subseteq {"create", "delete"} \X Tasks /\ errors \in 0 .. MaxErrors
  /\ fired \in [Sessions -> [Tasks -> SUBSET Time]]
  /\ retired \in [Sessions -> SUBSET Tasks]
  /\ asked \subseteq Tasks \ Recurring /\ deleted \subseteq Tasks /\ clobbered \in BOOLEAN

CronInv == LockInv /\ FileInv

-----------------------------------------------------------------------------
(* The lock.                                                               *)

LockFiles == [session: Sessions, process: 1 .. MaxExits + 1, written: BOOLEAN]

LEMMA LockTyped ==
  ASSUME LockInv, NEW s \in Sessions
  PROVE  /\ lock \in LockFiles \cup {None} /\ pc \in [Sessions -> LockStep]
         /\ process \in [Sessions -> 0 .. MaxExits + 1]
         /\ process[s] # 0 => LockOf(s) \in LockFiles /\ LockOf(s) # None /\ LockOf(s).session = s
         /\ lock # None => lock \in LockFiles
<1>1. lock \in LockFiles \cup {None} /\ process \in [Sessions -> 0 .. MaxExits + 1]
      /\ pc \in [Sessions -> LockStep]
  BY DEF LockInv, LockTypeOK, LockFiles
<1>2. ASSUME process[s] # 0
      PROVE  LockOf(s) \in LockFiles /\ LockOf(s) # None /\ LockOf(s).session = s
  <2>1. process[s] \in 1 .. MaxExits + 1
    BY <1>1, <1>2, ExitsAssumption
  <2>2. LockOf(s) \in LockFiles /\ LockOf(s).session = s
    BY <2>1 DEF LockOf, LockFiles
  <2>3. LockOf(s) \in [session: Sessions, process: 0 .. MaxExits + 1, written: BOOLEAN]
    BY <2>2, ExitsAssumption DEF LockFiles
  <2> QED
    BY <2>2, <2>3, NoneAssumption
<1> QED
  BY <1>1, <1>2

\* A step of session s on the lock that leaves the scheduler alone keeps the invariant if
\* the lock it leaves names every session that rests on it.
LEMMA LockStepKeeps ==
  ASSUME LockInv, NEW s \in Sessions, LockAction(s), UNCHANGED <<mode, owner>>
  PROVE  LockInv'
<1>1. /\ lock \in LockFiles \cup {None} /\ pc \in [Sessions -> LockStep]
      /\ process \in [Sessions -> 0 .. MaxExits + 1]
      /\ lock # None => lock \in LockFiles
  BY LockTyped
<1>2. pc[s] # "idle" /\ mode[s] # "off" /\ process[s] # 0
  BY DEF LockInv, HasProcess, LockAction, CreateLock, WriteLock, ReadLock, RewriteLock,
         UnlinkStale, CreateAgain, ReadToRelease, UnlinkOwn
<1>3. LockOf(s) \in LockFiles /\ LockOf(s) # None /\ LockOf(s).session = s
  BY <1>2, LockTyped
<1>4. ~owner[s]
  BY <1>2 DEF LockInv, OwnerIdle
<1>5. /\ process' = process /\ crashes' = crashes /\ mode' = mode /\ owner' = owner
      /\ \E p \in LockStep : pc' = [pc EXCEPT ![s] = p]
      /\ lock' \in LockFiles \cup {None} /\ recovered' \in BOOLEAN
      /\ recovered => recovered'
  <2> USE DEF LockStep
  <2>1. process' = process /\ crashes' = crashes /\ mode' = mode /\ owner' = owner
    BY DEF LockAction, CreateLock, WriteLock, ReadLock, RewriteLock, UnlinkStale, CreateAgain,
           ReadToRelease, UnlinkOwn
  <2>2. recovered \in BOOLEAN
    BY DEF LockInv, LockTypeOK
  <2>3. CASE CreateLock(s) \/ CreateAgain(s)
    BY <1>1, <1>3, <2>1, <2>2, <2>3 DEF CreateLock, CreateAgain, TryCreate
  <2>4. CASE WriteLock(s)
    <3>1. lock \in LockFiles => [lock EXCEPT !.written = TRUE] \in LockFiles
      BY DEF LockFiles
    <3> QED
      BY <1>1, <1>3, <2>1, <2>2, <2>4, <3>1 DEF WriteLock
  <2>5. CASE ReadLock(s)
    <3>1. Verdict(s) \in LockStep
      BY DEF Verdict
    <3> QED
      BY <1>1, <2>1, <2>2, <2>5, <3>1 DEF ReadLock
  <2>6. CASE ReadToRelease(s)
    BY <1>1, <2>1, <2>2, <2>6 DEF ReadToRelease
  <2>7. CASE RewriteLock(s) \/ UnlinkStale(s) \/ UnlinkOwn(s)
    BY <1>1, <1>3, <2>1, <2>2, <2>7 DEF RewriteLock, UnlinkStale, UnlinkOwn
  <2> QED
    BY <2>3, <2>4, <2>5, <2>6, <2>7 DEF LockAction
<1>6. LockTypeOK'
  BY <1>1, <1>5 DEF LockInv, LockTypeOK, LockFiles
<1>7. \A r \in Sessions : r # s => pc'[r] = pc[r]
  BY <1>1, <1>5
<1>8. OwnerIdle' /\ HasProcess' /\ ExitsBounded'
  <2>1. OwnerIdle'
    BY <1>4, <1>5, <1>7 DEF LockInv, OwnerIdle, Live
  <2>2. HasProcess'
    BY <1>2, <1>5, <1>7 DEF LockInv, HasProcess
  <2>3. ExitsBounded'
    BY <1>5 DEF LockInv, ExitsBounded, StoppedOnes
  <2> QED
    BY <2>1, <2>2, <2>3
<1>9. ASSUME ~recovered' PROVE NamedInLock'
  <2>1. ~recovered /\ NamedInLock
    BY <1>5, <1>9 DEF LockInv
  <2> SUFFICES ASSUME NEW r \in Sessions, RestsOnLock(r)'
               PROVE  lock' # None /\ lock'.session = r
    BY DEF NamedInLock
  <2>2. r # s => RestsOnLock(r) /\ lock # None /\ lock.session = r
    BY <1>5, <1>7, <2>1 DEF RestsOnLock, NamedInLock
  <2>3. RestsOnLock(s) => lock # None /\ lock.session = s
    BY <2>1 DEF NamedInLock
  <2>4. r = s => pc'[s] \in {"write", "won", "rewrite", "unlinking"}
    BY <1>4, <1>5 DEF RestsOnLock
  <2>5. CASE CreateLock(s) \/ CreateAgain(s)
    BY <1>1, <1>3, <2>2, <2>4, <2>5 DEF CreateLock, CreateAgain, TryCreate
  <2>6. CASE WriteLock(s)
    <3>1. RestsOnLock(s)
      BY <2>6 DEF WriteLock, RestsOnLock
    <3>2. lock' \in LockFiles /\ lock'.session = lock.session
      BY <1>1, <2>3, <2>6, <3>1 DEF WriteLock, LockFiles
    <3>3. lock' # None
      BY <3>2, NoneAssumption, ExitsAssumption DEF LockFiles
    <3> QED
      BY <2>2, <2>3, <3>1, <3>2, <3>3
  <2>7. CASE ReadLock(s) \/ ReadToRelease(s)
    <3>1. lock' = lock
      BY <2>7 DEF ReadLock, ReadToRelease
    <3>2. r = s => lock # None /\ lock.session = s
      BY <1>1, <2>4, <2>7 DEF ReadLock, ReadToRelease, Verdict
    <3> QED
      BY <2>2, <3>1, <3>2
  <2>8. CASE RewriteLock(s)
    <3>1. RestsOnLock(s) /\ lock' = LockOf(s)
      BY <2>8 DEF RewriteLock, RestsOnLock
    <3> QED
      BY <1>3, <2>2, <2>3, <3>1
  <2>9. CASE UnlinkStale(s)
    <3>1. lock = None /\ pc'[s] = "recreate"
      BY <1>1, <1>9, <2>9 DEF UnlinkStale
    <3> QED
      BY <2>2, <2>4, <3>1
  <2>10. CASE UnlinkOwn(s)
    <3>1. RestsOnLock(s) /\ pc'[s] = "idle"
      BY <1>1, <2>10 DEF UnlinkOwn, RestsOnLock
    <3> QED
      BY <2>2, <2>3, <2>4, <3>1
  <2> QED
    BY <2>5, <2>6, <2>7, <2>8, <2>9, <2>10 DEF LockAction
<1> QED
  BY <1>5, <1>6, <1>8, <1>9 DEF LockInv

\* A step of the scheduler of session s that leaves the lock file and the exits alone.
LEMMA SchedulerKeepsLock ==
  ASSUME LockInv, NEW s \in Sessions, UNCHANGED <<lock, process, recovered, crashes>>,
         mode[s] # "off", NEW m \in {mode[s], "on", "watching"}, mode[s] # "stopped" \/ m = "stopped",
         mode' = [mode EXCEPT ![s] = m],
         NEW p \in LockStep, pc' = [pc EXCEPT ![s] = p],
         NEW o \in BOOLEAN, owner' = [owner EXCEPT ![s] = o],
         o => p = "idle" /\ m \in {"on", "watching"},
         o \/ p \in {"write", "won", "rewrite", "unlinking"} => RestsOnLock(s)
  PROVE  LockInv'
<1>1. /\ pc \in [Sessions -> LockStep] /\ mode \in [Sessions -> Mode]
      /\ owner \in [Sessions -> BOOLEAN]
  BY DEF LockInv, LockTypeOK
<1>2. m \in Mode /\ m # "off"
  BY <1>1 DEF Mode
<1>3. /\ pc' \in [Sessions -> LockStep] /\ mode' \in [Sessions -> Mode]
      /\ owner' \in [Sessions -> BOOLEAN]
  BY <1>1, <1>2
<1>4. /\ pc'[s] = p /\ mode'[s] = m /\ owner'[s] = o
      /\ \A r \in Sessions : r # s => pc'[r] = pc[r] /\ mode'[r] = mode[r] /\ owner'[r] = owner[r]
  BY <1>1
<1>5. LockTypeOK'
  BY <1>3 DEF LockInv, LockTypeOK
<1>6. OwnerIdle'
  BY <1>4 DEF LockInv, OwnerIdle, Live
<1>7. HasProcess'
  BY <1>2, <1>4 DEF LockInv, HasProcess
<1>8. ExitsBounded'
  <2>1. StoppedOnes' = StoppedOnes
    BY <1>4 DEF StoppedOnes
  <2> QED
    BY <2>1 DEF LockInv, ExitsBounded
<1>9. ASSUME NamedInLock PROVE NamedInLock'
  BY <1>4, <1>9 DEF NamedInLock, RestsOnLock
<1> QED
  BY <1>3, <1>5, <1>6, <1>7, <1>8, <1>9 DEF LockInv

LEMMA StartKeepsLock ==
  ASSUME LockInv, NEW s \in Sessions, Start(s)
  PROVE  LockInv'
<1>1. /\ pc \in [Sessions -> LockStep] /\ mode \in [Sessions -> Mode]
      /\ owner \in [Sessions -> BOOLEAN] /\ process \in [Sessions -> 0 .. MaxExits + 1]
      /\ crashes \in 0 .. MaxExits
  BY DEF LockInv, LockTypeOK
<1>2. /\ pc' = [pc EXCEPT ![s] = "create"] /\ mode' = [mode EXCEPT ![s] = "acquire"]
      /\ process' = [process EXCEPT ![s] = crashes + 1] /\ mode[s] = "off"
      /\ UNCHANGED <<owner, lock, recovered, crashes>>
  BY DEF Start
<1>3. crashes + 1 \in 0 .. MaxExits + 1 /\ crashes + 1 # 0
  BY <1>1, ExitsAssumption
<1>4. /\ pc' \in [Sessions -> LockStep] /\ mode' \in [Sessions -> Mode]
      /\ process' \in [Sessions -> 0 .. MaxExits + 1]
  BY <1>1, <1>2, <1>3 DEF LockStep, Mode
<1>5. /\ pc'[s] = "create" /\ mode'[s] = "acquire" /\ process'[s] # 0
      /\ \A r \in Sessions : r # s => pc'[r] = pc[r] /\ mode'[r] = mode[r] /\ process'[r] = process[r]
  BY <1>1, <1>2, <1>3
<1>6. ~owner[s]
  BY <1>2 DEF LockInv, OwnerIdle, Live
<1>7. LockTypeOK'
  BY <1>2, <1>4 DEF LockInv, LockTypeOK
<1>8. OwnerIdle'
  BY <1>2, <1>5, <1>6 DEF LockInv, OwnerIdle, Live
<1>9. HasProcess'
  BY <1>5 DEF LockInv, HasProcess
<1>10. ExitsBounded'
  <2>1. StoppedOnes' = StoppedOnes
    BY <1>2, <1>5 DEF StoppedOnes
  <2> QED
    BY <1>2, <2>1 DEF LockInv, ExitsBounded
<1>11. ASSUME NamedInLock PROVE NamedInLock'
  BY <1>2, <1>5, <1>6, <1>11 DEF NamedInLock, RestsOnLock
<1> QED
  BY <1>2, <1>4, <1>7, <1>8, <1>9, <1>10, <1>11 DEF LockInv

\* A session that stops joins those that have: there is room for one more exit.
LEMMA StopKeepsLock ==
  ASSUME LockInv, NEW s \in Sessions, Stop(s)
  PROVE  LockInv'
<1>1. /\ pc \in [Sessions -> LockStep] /\ mode \in [Sessions -> Mode]
      /\ owner \in [Sessions -> BOOLEAN] /\ crashes \in 0 .. MaxExits
  BY DEF LockInv, LockTypeOK
<1> DEFINE p == IF owner[s] THEN "releasing" ELSE pc[s]
<1>2. /\ pc' = [pc EXCEPT ![s] = p] /\ mode' = [mode EXCEPT ![s] = "stopped"]
      /\ owner' = [owner EXCEPT ![s] = FALSE] /\ mode[s] \in {"acquire", "on", "watching"}
      /\ Exits < MaxExits /\ UNCHANGED <<lock, process, recovered, crashes>>
  BY <1>1 DEF Stop
<1>3. p \in LockStep
  BY <1>1 DEF LockStep
<1>4. /\ pc' \in [Sessions -> LockStep] /\ mode' \in [Sessions -> Mode]
      /\ owner' \in [Sessions -> BOOLEAN]
  BY <1>1, <1>2, <1>3 DEF Mode
<1>5. /\ pc'[s] = p /\ mode'[s] = "stopped" /\ owner'[s] = FALSE
      /\ \A r \in Sessions : r # s => pc'[r] = pc[r] /\ mode'[r] = mode[r] /\ owner'[r] = owner[r]
  BY <1>1, <1>2
<1>6. LockTypeOK'
  BY <1>2, <1>4 DEF LockInv, LockTypeOK
<1>7. OwnerIdle' /\ HasProcess'
  BY <1>2, <1>5 DEF LockInv, OwnerIdle, HasProcess, Live
<1>8. ExitsBounded'
  <2>1. StoppedOnes' = StoppedOnes \cup {s} /\ s \notin StoppedOnes
    BY <1>2, <1>5 DEF StoppedOnes
  <2>2. IsFiniteSet(StoppedOnes) /\ crashes + Cardinality(StoppedOnes) < MaxExits
    BY <1>2 DEF LockInv, ExitsBounded, Exits, StoppedOnes
  <2>3. /\ IsFiniteSet(StoppedOnes') /\ Cardinality(StoppedOnes') = Cardinality(StoppedOnes) + 1
        /\ Cardinality(StoppedOnes) \in Nat
    BY <2>1, <2>2, FS_AddElement, FS_CardinalityType
  <2>4. crashes + Cardinality(StoppedOnes') <= MaxExits
    BY <1>1, <2>2, <2>3, ExitsAssumption
  <2> QED
    BY <1>2, <2>3, <2>4 DEF ExitsBounded
<1>9. ASSUME NamedInLock PROVE NamedInLock'
  BY <1>2, <1>5, <1>9 DEF NamedInLock, RestsOnLock
<1> QED
  BY <1>2, <1>4, <1>6, <1>7, <1>8, <1>9 DEF LockInv

LEMMA CrashKeepsLock ==
  ASSUME LockInv, NEW s \in Sessions, Crash(s)
  PROVE  LockInv'
<1>1. /\ pc \in [Sessions -> LockStep] /\ mode \in [Sessions -> Mode]
      /\ owner \in [Sessions -> BOOLEAN] /\ process \in [Sessions -> 0 .. MaxExits + 1]
      /\ crashes \in 0 .. MaxExits
  BY DEF LockInv, LockTypeOK
<1>2. /\ pc' = [pc EXCEPT ![s] = "idle"] /\ mode' = [mode EXCEPT ![s] = "off"]
      /\ owner' = [owner EXCEPT ![s] = FALSE] /\ process' = [process EXCEPT ![s] = 0]
      /\ mode[s] = "stopped" \/ Exits < MaxExits
      /\ crashes' = crashes + 1 /\ UNCHANGED <<lock, recovered>>
  BY DEF Crash
<1>3. /\ pc' \in [Sessions -> LockStep] /\ mode' \in [Sessions -> Mode]
      /\ owner' \in [Sessions -> BOOLEAN] /\ process' \in [Sessions -> 0 .. MaxExits + 1]
  BY <1>1, <1>2, ExitsAssumption DEF LockStep, Mode
<1>4. /\ pc'[s] = "idle" /\ mode'[s] = "off" /\ owner'[s] = FALSE
      /\ \A r \in Sessions : r # s => /\ pc'[r] = pc[r] /\ mode'[r] = mode[r]
                                     /\ owner'[r] = owner[r] /\ process'[r] = process[r]
  BY <1>1, <1>2
<1>5. /\ IsFiniteSet(StoppedOnes) /\ Cardinality(StoppedOnes) \in Nat
      /\ crashes + Cardinality(StoppedOnes) <= MaxExits
  BY FS_CardinalityType DEF LockInv, ExitsBounded
<1>6. ExitsBounded' /\ crashes' \in 0 .. MaxExits
  <2>1. CASE mode[s] = "stopped"
    <3>1. StoppedOnes' = StoppedOnes \ {s} /\ s \in StoppedOnes
      BY <1>4, <2>1 DEF StoppedOnes
    <3>2. IsFiniteSet(StoppedOnes') /\ Cardinality(StoppedOnes') = Cardinality(StoppedOnes) - 1
          /\ Cardinality(StoppedOnes') \in Nat
      BY <1>5, <3>1, FS_RemoveElement, FS_CardinalityType
    <3>3. crashes' + Cardinality(StoppedOnes') <= MaxExits /\ crashes' \in 0 .. MaxExits
      BY <1>1, <1>2, <1>5, <3>2, ExitsAssumption
    <3> QED
      BY <3>2, <3>3 DEF ExitsBounded
  <2>2. CASE mode[s] # "stopped"
    <3>1. StoppedOnes' = StoppedOnes
      BY <1>4, <2>2 DEF StoppedOnes
    <3>2. crashes + Cardinality(StoppedOnes) < MaxExits
      BY <1>2, <2>2 DEF Exits, StoppedOnes
    <3>3. crashes' + Cardinality(StoppedOnes') <= MaxExits /\ crashes' \in 0 .. MaxExits
      BY <1>1, <1>2, <1>5, <3>1, <3>2, ExitsAssumption
    <3> QED
      BY <1>5, <3>1, <3>3 DEF ExitsBounded
  <2> QED
    BY <2>1, <2>2
<1>7. LockTypeOK'
  BY <1>2, <1>3, <1>6 DEF LockInv, LockTypeOK
<1>8. OwnerIdle' /\ HasProcess'
  BY <1>4 DEF LockInv, OwnerIdle, HasProcess, Live
<1>9. ASSUME NamedInLock PROVE NamedInLock'
  BY <1>2, <1>4, <1>9 DEF NamedInLock, RestsOnLock
<1> QED
  BY <1>2, <1>3, <1>6, <1>7, <1>8, <1>9 DEF LockInv

LEMMA AcquiredKeepsLock ==
  ASSUME LockInv, NEW s \in Sessions, Acquired(s) \/ Probe(s) \/ WatcherReady(s)
  PROVE  LockInv'
<1>1. /\ pc \in [Sessions -> LockStep] /\ mode \in [Sessions -> Mode]
      /\ owner \in [Sessions -> BOOLEAN] /\ HasProcess /\ OwnerIdle
  BY DEF LockInv, LockTypeOK
<1>2. CASE Acquired(s)
  <2> DEFINE m == IF mode[s] = "acquire" THEN IF Timely THEN "watching" ELSE "on" ELSE mode[s]
             p == IF pc[s] = "won" /\ mode[s] = "stopped" THEN "releasing" ELSE "idle"
             o == pc[s] = "won" /\ mode[s] # "stopped"
  <2>1. /\ pc' = [pc EXCEPT ![s] = p] /\ owner' = [owner EXCEPT ![s] = o]
        /\ UNCHANGED <<lock, process, recovered, crashes>>
    BY <1>2 DEF Acquired
  <2>2. mode' = [mode EXCEPT ![s] = m]
    BY <1>1, <1>2 DEF Acquired
  <2>3. mode[s] # "off"
    BY <1>1, <1>2 DEF Acquired, HasProcess
  <2>4. m \in {mode[s], "on", "watching"} /\ (mode[s] # "stopped" \/ m = "stopped")
    OBVIOUS
  <2>5. p \in LockStep /\ o \in BOOLEAN
    BY DEF LockStep
  <2>6. o => p = "idle" /\ m \in {"on", "watching"}
    BY <1>1, <2>3 DEF Mode
  <2>7. o \/ p \in {"write", "won", "rewrite", "unlinking"} => RestsOnLock(s)
    BY DEF RestsOnLock
  <2> HIDE DEF m, p, o
  <2> QED
    BY <2>1, <2>2, <2>3, <2>4, <2>5, <2>6, <2>7, SchedulerKeepsLock
<1>3. CASE Probe(s)
  <2>1. /\ pc' = [pc EXCEPT ![s] = "create"] /\ owner' = [owner EXCEPT ![s] = FALSE]
        /\ mode' = [mode EXCEPT ![s] = mode[s]] /\ mode[s] \in {"on", "watching"}
        /\ UNCHANGED <<lock, process, recovered, crashes>>
    BY <1>1, <1>3 DEF Probe, Live, cronVars
  <2>2. "create" \in LockStep
    BY DEF LockStep
  <2> QED
    BY <2>1, <2>2, SchedulerKeepsLock
<1>4. CASE WatcherReady(s)
  <2>1. /\ pc' = [pc EXCEPT ![s] = pc[s]] /\ owner' = [owner EXCEPT ![s] = owner[s]]
        /\ mode' = [mode EXCEPT ![s] = "watching"] /\ mode[s] = "on"
        /\ UNCHANGED <<lock, process, recovered, crashes>>
    BY <1>1, <1>4 DEF WatcherReady, lockVars
  <2>2. owner[s] => pc[s] = "idle"
    BY <1>1 DEF OwnerIdle
  <2>3. owner[s] \/ pc[s] \in {"write", "won", "rewrite", "unlinking"} => RestsOnLock(s)
    BY DEF RestsOnLock
  <2>4. pc[s] \in LockStep /\ owner[s] \in BOOLEAN
    BY <1>1
  <2> QED
    BY <2>1, <2>2, <2>3, <2>4, SchedulerKeepsLock
<1> QED
  BY <1>2, <1>3, <1>4

LEMMA LockAlone ==
  ASSUME LockInv, UNCHANGED <<mode, owner, lockVars>>
  PROVE  LockInv'
<1>1. UNCHANGED <<mode, owner, lock, pc, process, recovered, crashes>>
  BY DEF lockVars
<1> QED
  BY <1>1 DEF LockInv, LockTypeOK, OwnerIdle, HasProcess, ExitsBounded, StoppedOnes, NamedInLock,
              RestsOnLock, Live

LEMMA LockKept == LockInv /\ [Next]_vars => LockInv'
<1> SUFFICES ASSUME LockInv, [Next]_vars PROVE LockInv'
  OBVIOUS
<1>1. CASE UNCHANGED vars \/ Tick
  BY <1>1, LockAlone DEF vars, cronVars, Tick
<1>2. ASSUME NEW j \in jobs, JobStep(j) PROVE LockInv'
  BY <1>2, LockAlone
  DEF JobStep, HasRead, ReadFile, ReadNothing, LandLoad, Truncate, LandWrite, Fail
<1>3. ASSUME NEW s \in Sessions, Reload(s) \/ Check(s) PROVE LockInv'
  BY <1>3, LockAlone DEF Reload, Check
<1>4. ASSUME NEW s \in Sessions, SchedulerStep(s) PROVE LockInv'
  BY <1>3, <1>4, AcquiredKeepsLock DEF SchedulerStep
<1>5. ASSUME NEW s \in Sessions, LockAction(s), UNCHANGED cronVars PROVE LockInv'
  BY <1>5, LockStepKeeps DEF cronVars
<1>6. ASSUME NEW s \in Sessions, NEW t \in Tasks, CronDelete(s, t) \/ CronCreate(s, t)
      PROVE  LockInv'
  BY <1>6, LockAlone DEF CronDelete, CronCreate
<1> QED
  BY <1>1, <1>2, <1>4, <1>5, <1>6, StartKeepsLock, StopKeepsLock, CrashKeepsLock DEF Next

-----------------------------------------------------------------------------
(* The file and what the sessions hold of it.                              *)

LEMMA ContentsAre ==
  \A c : c \in Contents <=>
        /\ c = [t \in DOMAIN c |-> c[t]] /\ DOMAIN c \subseteq Tasks
        /\ \A t \in DOMAIN c : c[t] \in Stamp
<1> QED
  BY DEF Contents

LEMMA EmptyIsContents == Empty \in Contents /\ Empty = [t \in {} |-> 0] /\ DOMAIN Empty = {}
<1>1. Empty = [t \in {} |-> 0] /\ DOMAIN Empty = {}
  BY DEF Empty
<1>2. Empty \in [{} -> Stamp]
  BY <1>1
<1> QED
  BY <1>1, <1>2 DEF Contents

LEMMA NextRunTyped ==
  ASSUME NEW t, NEW st \in Stamp
  PROVE  NextRun(t, st) \in 0 .. MaxNow + 1
<1>1. st.created \in 0 .. MaxNow /\ (st.lastFired # -1 => st.lastFired \in 0 .. MaxNow)
  BY DEF Stamp, Time, NotFired
<1> QED
  BY <1>1, BoundsAssumption DEF NextRun, NotFired

LEMMA WrittenTyped ==
  ASSUME NEW j, JobTyped(j), Writes(j)
  PROVE  Written(j) \in Contents
<1>1. /\ j.snap \in Contents /\ DOMAIN j.snap \subseteq Tasks
      /\ \A t \in DOMAIN j.snap : j.snap[t] \in Stamp
      /\ j.ids \subseteq Tasks /\ j.time \in Time
  BY ContentsAre DEF JobTyped
<1>2. CASE Removes(j)
  <2> DEFINE w == [t \in DOMAIN j.snap \ j.ids |-> j.snap[t]]
  <2>1. Written(j) = w
    BY <1>2 DEF Written, Restrict
  <2>2. w \in [DOMAIN j.snap \ j.ids -> Stamp]
    BY <1>1
  <2> QED
    BY <1>1, <2>1, <2>2 DEF Contents
<1>3. CASE ~Removes(j)
  <2>1. j.op \in {"add", "mark"}
    BY <1>3 DEF Writes, Loads, Removes, JobTyped
  <2> DEFINE D == DOMAIN j.snap \cup (IF j.op = "add" THEN j.ids ELSE {})
             v(t) == CASE t \notin j.ids -> j.snap[t]
                       [] t \in j.ids /\ j.op = "add" -> [created |-> j.time, lastFired |-> NotFired]
                       [] t \in j.ids /\ j.op = "mark" -> [j.snap[t] EXCEPT !.lastFired = j.time]
  <2>2. Written(j) = [t \in D |-> v(t)]
    BY <1>3 DEF Written
  <2>3. ASSUME NEW t \in D PROVE v(t) \in Stamp
    <3>1. CASE t \notin j.ids
      BY <1>1, <2>3, <3>1
    <3>2. CASE t \in j.ids /\ j.op = "add"
      BY <1>1, <3>2 DEF Stamp
    <3>3. CASE t \in j.ids /\ j.op = "mark"
      <4>1. j.snap[t] \in Stamp
        BY <1>1, <2>3, <3>3
      <4> QED
        BY <1>1, <3>3, <4>1 DEF Stamp
    <3> QED
      BY <2>1, <3>1, <3>2, <3>3
  <2>4. D \subseteq Tasks
    BY <1>1
  <2> HIDE DEF D, v
  <2>5. [t \in D |-> v(t)] \in [D -> Stamp]
    BY <2>3
  <2> QED
    BY <2>2, <2>4, <2>5 DEF Contents
<1> QED
  BY <1>2, <1>3

LEMMA JobIsTyped ==
  ASSUME now \in Time, NEW s \in Sessions, NEW ids \in SUBSET Tasks,
         NEW op \in {"load", "reload", "fire", "missed", "delete", "add", "mark"}
  PROVE  JobTyped(Job(s, op, ids))
<1>1. 0 \in Time
  BY BoundsAssumption DEF Time
<1> QED
  BY <1>1, EmptyIsContents DEF JobTyped, Job

\* A job that goes on is the same job, at another stage or with what it has read.
LEMMA JobGoesOn ==
  ASSUME NEW j, JobTyped(j), NEW st \in {"read", "land", "write"}, NEW c \in Contents
  PROVE  JobTyped([j EXCEPT !.stage = st]) /\ JobTyped([j EXCEPT !.stage = st, !.snap = c])
<1> QED
  BY DEF JobTyped

\* What the steps of the file operations do to the types.
LEMMA JobStepKeeps ==
  ASSUME FileInv, NEW j \in jobs, JobStep(j)
  PROVE  FileInv'
<1>1. /\ JobTyped(j) /\ file \in Contents /\ now \in Time /\ inFlight \in [Sessions -> SUBSET Tasks]
      /\ clobbered \in BOOLEAN /\ errors \in 0 .. MaxErrors /\ deleted \subseteq Tasks
      /\ asked \subseteq Tasks \ Recurring /\ changed \subseteq Sessions
      /\ loaded \in [Sessions -> Contents] /\ DOMAIN nextFire = Sessions
      /\ \A s \in Sessions : nextFire[s] \in [DOMAIN nextFire[s] -> 0 .. Never]
      /\ \A k \in jobs : JobTyped(k)
  BY DEF FileInv
<1>2. /\ j.session \in Sessions /\ j.ids \in SUBSET Tasks /\ j.snap \in Contents
      /\ j.stage \in {"read", "land", "write"}
  BY <1>1 DEF JobTyped
<1>3. CASE ReadFile(j) \/ ReadNothing(j)
  <2>1. PICK c \in Contents : HasRead(j, c)
    BY <1>1, <1>3, EmptyIsContents DEF ReadFile, ReadNothing
  <2>2. JobTyped([j EXCEPT !.stage = "land", !.snap = c])
    BY <1>1, JobGoesOn
  <2>3. \A k \in jobs' : JobTyped(k)
    BY <1>1, <2>1, <2>2 DEF HasRead
  <2>4. clobbered' \in BOOLEAN
    BY <1>1, <1>3 DEF ReadFile, ReadNothing, Unsettled
  <2>5. errors' \in 0 .. MaxErrors
    BY <1>1, <1>3, BoundsAssumption DEF ReadFile, ReadNothing
  <2> QED
    BY <2>1, <2>3, <2>4, <2>5 DEF HasRead, FileInv
<1>4. CASE Truncate(j)
  <2>1. JobTyped([j EXCEPT !.stage = "write"])
    BY <1>1, <1>2, JobGoesOn
  <2>2. \A k \in jobs' : JobTyped(k)
    BY <1>1, <1>4, <2>1 DEF Truncate
  <2>3. clobbered' \in BOOLEAN /\ changed' \subseteq Sessions /\ file' \in Contents
    BY <1>1, <1>4, EmptyIsContents DEF Truncate, WatchersSee
  <2> QED
    BY <1>4, <2>2, <2>3 DEF Truncate, FileInv
<1>5. ASSUME Finish(j)
      PROVE  inFlight' \in [Sessions -> SUBSET Tasks] /\ \A k \in jobs' : JobTyped(k)
  BY <1>1, <1>2, <1>5 DEF Finish
<1>6. CASE LandWrite(j)
  <2>1. file' \in Contents /\ changed' \subseteq Sessions
    BY <1>1, <1>6, WrittenTyped DEF LandWrite, WatchersSee
  <2>2. deleted' \subseteq Tasks
    BY <1>1, <1>2, <1>6 DEF LandWrite
  <2>3. Finish(j)
    BY <1>6 DEF LandWrite
  <2> QED
    BY <1>5, <1>6, <2>1, <2>2, <2>3 DEF LandWrite, FileInv
<1>7. CASE Fail(j)
  <2>1. errors' \in 0 .. MaxErrors
    BY <1>1, <1>7, BoundsAssumption DEF Fail
  <2>2. Finish(j)
    BY <1>7 DEF Fail
  <2> QED
    BY <1>5, <1>7, <2>1, <2>2 DEF Fail, FileInv
<1>8. CASE LandLoad(j)
  <2> DEFINE s == j.session
             missed == Missed(j)
  <2>1. missed \in SUBSET Tasks /\ missed \subseteq Tasks \ Recurring
    BY <1>2, ContentsAre DEF Missed
  <2>2. CASE Live(s)
    <3>1. /\ loaded' = [loaded EXCEPT ![s] = j.snap]
          /\ nextFire' = [nextFire EXCEPT ![s] = HeldBack(missed, @)]
          /\ asked' = asked \cup missed
          /\ jobs' = (jobs \ {j}) \cup IF missed = {} THEN {} ELSE {Job(s, "missed", missed)}
      BY <1>8, <2>2 DEF LandLoad, Listed
    <3> DEFINE nf == HeldBack(missed, nextFire[s])
    <3>2. nf \in [DOMAIN nf -> 0 .. Never]
      <4>1. Never \in 0 .. Never
        BY BoundsAssumption DEF Never
      <4>2. nextFire[s] \in [DOMAIN nextFire[s] -> 0 .. Never]
        BY <1>1, <1>2
      <4> QED
        BY <4>1, <4>2 DEF HeldBack
    <3>3. nextFire' = [nextFire EXCEPT ![s] = nf]
      BY <3>1
    <3> HIDE DEF nf, missed
    <3>4. DOMAIN nextFire' = Sessions
          /\ \A r \in Sessions : nextFire'[r] \in [DOMAIN nextFire'[r] -> 0 .. Never]
      BY <1>1, <1>2, <3>2, <3>3
    <3>5. JobTyped(Job(s, "missed", missed))
      BY <1>1, <1>2, <2>1, JobIsTyped
    <3>6. \A k \in jobs' : JobTyped(k)
      BY <1>1, <3>1, <3>5
    <3>7. loaded' \in [Sessions -> Contents] /\ asked' \subseteq Tasks \ Recurring
      BY <1>1, <1>2, <2>1, <3>1
    <3> QED
      BY <1>8, <3>4, <3>6, <3>7 DEF LandLoad, FileInv
  <2>3. CASE ~Live(s)
    BY <1>8, <2>3 DEF LandLoad, FileInv
  <2> QED
    BY <2>2, <2>3
<1> QED
  BY <1>3, <1>4, <1>6, <1>7, <1>8 DEF JobStep

LEMMA FilesAlone ==
  ASSUME FileInv, \A j \in jobs' : JobTyped(j),
         UNCHANGED <<file, loaded, nextFire, inFlight, now, edits, errors, fired, retired, asked,
                     deleted, clobbered>>,
         changed' \subseteq changed
  PROVE  FileInv'
<1> QED
  BY DEF FileInv

\* A tick of check.
LEMMA CheckKeeps ==
  ASSUME FileInv, NEW s \in Sessions, Check(s)
  PROVE  FileInv'
<1>1. /\ now \in Time /\ inFlight \in [Sessions -> SUBSET Tasks]
      /\ fired \in [Sessions -> [Tasks -> SUBSET Time]] /\ retired \in [Sessions -> SUBSET Tasks]
      /\ loaded \in [Sessions -> Contents] /\ DOMAIN nextFire = Sessions
      /\ \A r \in Sessions : nextFire[r] \in [DOMAIN nextFire[r] -> 0 .. Never]
      /\ \A k \in jobs : JobTyped(k)
  BY DEF FileInv
<1>2. DOMAIN loaded[s] \subseteq Tasks /\ \A t \in DOMAIN loaded[s] : loaded[s][t] \in Stamp
  BY <1>1, ContentsAre
<1> DEFINE due == DueTasks(s)
           gone == due \ Again(s)
           seen == IF owner[s] THEN DOMAIN loaded[s] ELSE {}
           known == (seen \cap (DOMAIN nextFire[s] \cup Idle(s))) \ gone
           fs == [t \in Tasks |-> fired[s][t] \cup IF t \in due THEN {now} ELSE {}]
           nf == [t \in known |-> IF t \in due THEN now + 1 ELSE NextFireOf(s, t)]
           new == {Job(s, "fire", {t}) : t \in gone}
                    \cup IF Again(s) = {} THEN {} ELSE {Job(s, "mark", Again(s))}
<1>3. /\ fired' = [fired EXCEPT ![s] = fs] /\ nextFire' = [nextFire EXCEPT ![s] = nf]
      /\ inFlight' = [inFlight EXCEPT ![s] = @ \cup due] /\ jobs' = jobs \cup new
      /\ retired' = [retired EXCEPT ![s] = @ \cup gone]
      /\ UNCHANGED <<file, loaded, changed, now, edits, errors, asked, deleted, clobbered>>
  BY <1>1 DEF Check
<1>4. due \in SUBSET Tasks /\ gone \in SUBSET Tasks /\ Again(s) \in SUBSET Tasks
      /\ Idle(s) \subseteq DOMAIN loaded[s]
  BY <1>2 DEF DueTasks, Idle, Again
<1>5. fs \in [Tasks -> SUBSET Time]
  BY <1>1
<1>6. nf \in [known -> 0 .. Never]
  <2>1. 0 .. MaxNow + 1 \subseteq 0 .. Never /\ now + 1 \in 0 .. Never
    BY <1>1, BoundsAssumption DEF Never, Time
  <2>2. ASSUME NEW t \in known PROVE NextFireOf(s, t) \in 0 .. Never
    <3>1. t \in DOMAIN loaded[s]
      BY <1>4
    <3>2. NextRun(t, loaded[s][t]) \in 0 .. Never
      BY <1>2, <2>1, <3>1, NextRunTyped
    <3>3. t \in DOMAIN nextFire[s] => nextFire[s][t] \in 0 .. Never
      BY <1>1
    <3> QED
      BY <3>2, <3>3 DEF NextFireOf
  <2> QED
    BY <2>1, <2>2
<1>7. \A k \in new : JobTyped(k)
  <2>1. \A t \in gone : JobTyped(Job(s, "fire", {t}))
    BY <1>1, <1>4, JobIsTyped
  <2>2. JobTyped(Job(s, "mark", Again(s)))
    BY <1>1, <1>4, JobIsTyped
  <2> QED
    BY <2>1, <2>2
<1> HIDE DEF due, gone, seen, known, fs, nf, new
<1>8. /\ fired' \in [Sessions -> [Tasks -> SUBSET Time]] /\ inFlight' \in [Sessions -> SUBSET Tasks]
      /\ retired' \in [Sessions -> SUBSET Tasks]
  BY <1>1, <1>3, <1>4, <1>5
<1>9. /\ DOMAIN nextFire' = Sessions
      /\ \A r \in Sessions : nextFire'[r] \in [DOMAIN nextFire'[r] -> 0 .. Never]
  <2>1. nextFire'[s] = nf /\ DOMAIN nf = known
    BY <1>1, <1>3, <1>6
  <2>2. \A r \in Sessions \ {s} : nextFire'[r] = nextFire[r]
    BY <1>1, <1>3
  <2> QED
    BY <1>1, <1>3, <1>6, <2>1, <2>2
<1>10. \A k \in jobs' : JobTyped(k)
  BY <1>1, <1>3, <1>7
<1> QED
  BY <1>3, <1>8, <1>9, <1>10 DEF FileInv

LEMMA CrashKeeps ==
  ASSUME FileInv, NEW s \in Sessions, Crash(s)
  PROVE  FileInv'
<1>1. /\ inFlight \in [Sessions -> SUBSET Tasks]
      /\ fired \in [Sessions -> [Tasks -> SUBSET Time]] /\ retired \in [Sessions -> SUBSET Tasks]
      /\ loaded \in [Sessions -> Contents] /\ DOMAIN nextFire = Sessions
      /\ \A r \in Sessions : nextFire[r] \in [DOMAIN nextFire[r] -> 0 .. Never]
      /\ changed \subseteq Sessions /\ \A k \in jobs : JobTyped(k)
  BY DEF FileInv
<1>2. /\ loaded' = [loaded EXCEPT ![s] = Empty] /\ nextFire' = [nextFire EXCEPT ![s] = Empty]
      /\ inFlight' = [inFlight EXCEPT ![s] = {}]
      /\ fired' = [fired EXCEPT ![s] = [t \in Tasks |-> {}]]
      /\ retired' = [retired EXCEPT ![s] = {}]
      /\ jobs' \subseteq jobs /\ changed' \subseteq changed
      /\ UNCHANGED <<file, now, edits, errors, asked, deleted, clobbered>>
  BY DEF Crash
<1>3. Empty \in [DOMAIN Empty -> 0 .. Never]
  BY EmptyIsContents
<1>4. /\ loaded' \in [Sessions -> Contents] /\ inFlight' \in [Sessions -> SUBSET Tasks]
      /\ fired' \in [Sessions -> [Tasks -> SUBSET Time]] /\ retired' \in [Sessions -> SUBSET Tasks]
  BY <1>1, <1>2, EmptyIsContents
<1>5. /\ DOMAIN nextFire' = Sessions
      /\ \A r \in Sessions : nextFire'[r] \in [DOMAIN nextFire'[r] -> 0 .. Never]
  <2>1. nextFire'[s] = Empty /\ \A r \in Sessions \ {s} : nextFire'[r] = nextFire[r]
    BY <1>1, <1>2
  <2> QED
    BY <1>1, <1>2, <1>3, <2>1
<1> QED
  BY <1>1, <1>2, <1>4, <1>5 DEF FileInv

LEMMA FilesKept == FileInv /\ [Next]_vars => FileInv'
<1> SUFFICES ASSUME FileInv, [Next]_vars PROVE FileInv'
  OBVIOUS
<1>1. (\A k \in jobs : JobTyped(k)) /\ now \in Time
  BY DEF FileInv
<1>2. CASE UNCHANGED vars
  BY <1>1, <1>2, FilesAlone DEF vars, cronVars
<1>3. CASE Tick
  <2>1. now' \in Time
    BY <1>1, <1>3, BoundsAssumption DEF Tick, Time
  <2> QED
    BY <1>3, <2>1 DEF Tick, FileInv
<1>4. ASSUME NEW s \in Sessions, Start(s) \/ Probe(s) \/ WatcherReady(s) \/ Stop(s)
      PROVE  FileInv'
  BY <1>1, <1>4, FilesAlone DEF Start, Probe, WatcherReady, Stop, cronVars
<1>5. ASSUME NEW s \in Sessions, Acquired(s) \/ Reload(s) PROVE FileInv'
  <2>1. JobTyped(Job(s, "load", {})) /\ JobTyped(Job(s, "reload", {}))
    BY <1>1, JobIsTyped
  <2>2. \A k \in jobs' : JobTyped(k)
    BY <1>1, <1>5, <2>1 DEF Acquired, Reload
  <2> QED
    BY <1>5, <2>2, FilesAlone DEF Acquired, Reload
<1>6. ASSUME NEW s \in Sessions, LockAction(s), UNCHANGED cronVars PROVE FileInv'
  BY <1>1, <1>6, FilesAlone DEF cronVars
<1>7. ASSUME NEW s \in Sessions, NEW t \in Tasks, CronDelete(s, t) \/ CronCreate(s, t)
      PROVE  FileInv'
  <2>1. JobTyped(Job(s, "delete", {t})) /\ JobTyped(Job(s, "add", {t}))
    BY <1>1, JobIsTyped
  <2>2. \A k \in jobs' : JobTyped(k)
    BY <1>1, <1>7, <2>1 DEF CronDelete, CronCreate
  <2>3. edits' \subseteq {"create", "delete"} \X Tasks
    BY <1>7 DEF FileInv, CronDelete, CronCreate, Edit
  <2> QED
    BY <1>7, <2>2, <2>3 DEF FileInv, CronDelete, CronCreate
<1> QED
  BY <1>2, <1>3, <1>4, <1>5, <1>6, <1>7, JobStepKeeps, CheckKeeps, CrashKeeps
  DEF Next, SchedulerStep

LEMMA CronInit == Init => CronInv
<1> SUFFICES ASSUME Init PROVE CronInv
  OBVIOUS
<1>1. LockInv
  <2>1. StoppedOnes = {}
    BY DEF Init, StoppedOnes
  <2>2. ExitsBounded
    BY <2>1, FS_EmptySet, ExitsAssumption DEF Init, LockInit, ExitsBounded
  <2>3. LockTypeOK
    <3>1. 0 \in 0 .. MaxExits /\ 0 \in 0 .. MaxExits + 1
      BY ExitsAssumption
    <3>2. pc \in [Sessions -> LockStep]
      BY DEF Init, LockInit, LockStep
    <3>3. process \in [Sessions -> 0 .. MaxExits + 1]
      BY <3>1 DEF Init, LockInit
    <3> QED
      BY <3>1, <3>2, <3>3 DEF Init, LockInit, LockTypeOK
  <2>4. mode \in [Sessions -> Mode] /\ owner \in [Sessions -> BOOLEAN]
    BY DEF Init, Mode
  <2>5. OwnerIdle /\ HasProcess /\ NamedInLock
    BY DEF Init, LockInit, OwnerIdle, HasProcess, NamedInLock, RestsOnLock
  <2> QED
    BY <2>2, <2>3, <2>4, <2>5 DEF LockInv
<1>2. FileInv
  <2>1. 0 \in Time /\ 0 \in 0 .. MaxErrors
    BY BoundsAssumption DEF Time
  <2>2. file \in [InitialTasks -> Stamp]
    BY <2>1 DEF Init, Stamp
  <2>3. file \in Contents
    BY <2>2, TasksAssumption DEF Contents
  <2>4. Empty \in [DOMAIN Empty -> 0 .. Never]
    BY EmptyIsContents
  <2>5. /\ DOMAIN nextFire = Sessions
        /\ \A s \in Sessions : nextFire[s] \in [DOMAIN nextFire[s] -> 0 .. Never]
    BY <2>4 DEF Init
  <2> QED
    BY <2>1, <2>3, <2>5, EmptyIsContents DEF Init, FileInv
<1> QED
  BY <1>1, <1>2 DEF CronInv

\* The invariant holds in every reachable state.
LEMMA CronInvariant == Spec => []CronInv
<1>1. CronInv /\ [Next]_vars => CronInv'
  BY LockKept, FilesKept DEF CronInv
<1> QED
  BY <1>1, CronInit, PTL DEF Spec

-----------------------------------------------------------------------------

\* The state is of its type and, unless a session has unlinked a lock that it took for a
\* stale one, at most one session runs the tasks of the file.
THEOREM OneRunsTheTasks == Spec => []OneOwnerUnlessRecovered
<1>1. CronInv => TypeOK
  BY DEF CronInv, LockInv, FileInv, TypeOK, JobTyped
<1>2. CronInv => recovered \/ OneOwner
  BY DEF CronInv, LockInv, NamedInLock, RestsOnLock, OneOwner
<1> QED
  BY <1>1, <1>2, CronInvariant, PTL DEF OneOwnerUnlessRecovered

-----------------------------------------------------------------------------
(* What is gone from the file stays gone.                                  *)

\* The tasks whose creation has come to its end.
Born == {t \in Tasks : /\ t \in InitialTasks \/ <<"create", t>> \in edits
                       /\ \A j \in jobs : j.op = "add" => t \notin j.ids}

\* Nothing brings task t back, except a change of the file that loses another.
Gone(t) ==
  /\ t \in Born /\ t \notin DOMAIN file
  /\ \A k \in jobs : k.stage = "write" => t \notin DOMAIN Written(k)

\* What the file, the sessions and the operations know of has been created.
BornFirst ==
  /\ DOMAIN file \subseteq Born
  /\ \A s \in Sessions : DOMAIN loaded[s] \subseteq Born
  /\ \A j \in jobs : DOMAIN j.snap \subseteq Born /\ (j.op # "add" => j.ids \subseteq Born)

\* A task is added by one operation, and was not there before.
AddedOnce ==
  /\ \A j \in jobs : j.op = "add" =>
       \A t \in j.ids : <<"create", t>> \in edits /\ t \notin InitialTasks
  /\ \A j, k \in jobs : j.op = "add" /\ k.op = "add" /\ j.ids \cap k.ids # {} => j = k

WritersWrite == \A j \in jobs : j.stage = "write" => Writes(j)

FileSafe == BornFirst /\ AddedOnce /\ WritersWrite

\* No task is both in the file and in what is about to be written, or in that twice.
Apart ==
  \A k \in jobs : k.stage = "write" =>
    /\ DOMAIN Written(k) \cap DOMAIN file = {}
    /\ \A j \in jobs : j.stage = "write" /\ j # k => DOMAIN Written(k) \cap DOMAIN Written(j) = {}

\* A removal that has found its task gone, or has truncated the file, is as good as done.
RemovedIsGone ==
  \A j \in jobs : Removes(j) => \A t \in j.ids :
    j.stage = "write" \/ (j.stage = "land" /\ t \notin DOMAIN j.snap) => Gone(t)

DeletedIsGone == \A t \in deleted : Gone(t)

NoneBack == Apart /\ RemovedIsGone /\ DeletedIsGone

-----------------------------------------------------------------------------

\* An operation that is scheduled.
NewJob(k) == k.stage = "read" /\ k.snap = Empty /\ k.op # "add" /\ k.ids \subseteq Born

\* A step that leaves the file alone: operations end or are scheduled.
Quiet ==
  /\ UNCHANGED <<file, clobbered, deleted>>
  /\ \A t : <<"create", t>> \in edits' <=> <<"create", t>> \in edits
  /\ \A k \in jobs' : k \in jobs \/ NewJob(k)
  /\ \A s \in Sessions : \/ loaded'[s] = loaded[s] \/ loaded'[s] = Empty
                         \/ \E j \in jobs : loaded'[s] = j.snap

GoneStays == \A t : Gone(t) => Gone(t)'

\* A quiet step forgets nothing and brings nothing back.
LEMMA QuietSafe ==
  ASSUME FileSafe, Quiet
  PROVE  FileSafe' /\ Born \subseteq Born' /\ GoneStays
<1>1. Born \subseteq Born'
  BY DEF Quiet, NewJob, Born
<1>2. BornFirst'
  BY <1>1, EmptyIsContents DEF FileSafe, BornFirst, Quiet, NewJob
<1>3. AddedOnce'
  BY DEF FileSafe, AddedOnce, Quiet, NewJob
<1>4. WritersWrite'
  BY DEF FileSafe, WritersWrite, Quiet, NewJob
<1>5. GoneStays
  BY <1>1 DEF GoneStays, Gone, Quiet, NewJob
<1> QED BY <1>1, <1>2, <1>3, <1>4, <1>5 DEF FileSafe

LEMMA QuietNoneBack ==
  ASSUME FileSafe, Quiet, NoneBack
  PROVE  NoneBack'
<1>1. GoneStays
  BY QuietSafe
<1>2. Apart'
  BY DEF NoneBack, Apart, Quiet, NewJob
<1>3. RemovedIsGone'
  BY <1>1 DEF NoneBack, RemovedIsGone, Quiet, NewJob, GoneStays
<1>4. DeletedIsGone'
  BY <1>1 DEF NoneBack, DeletedIsGone, Quiet, GoneStays
<1> QED BY <1>2, <1>3, <1>4 DEF NoneBack

\* An operation that goes on.
LEMMA SameJob ==
  ASSUME NEW j, JobTyped(j), NEW st, NEW c
  PROVE  /\ [j EXCEPT !.stage = st].session = j.session /\ [j EXCEPT !.stage = st].op = j.op
         /\ [j EXCEPT !.stage = st].ids = j.ids /\ [j EXCEPT !.stage = st].time = j.time
         /\ [j EXCEPT !.stage = st].snap = j.snap /\ [j EXCEPT !.stage = st].stage = st
         /\ [j EXCEPT !.stage = st, !.snap = c].session = j.session
         /\ [j EXCEPT !.stage = st, !.snap = c].op = j.op
         /\ [j EXCEPT !.stage = st, !.snap = c].ids = j.ids
         /\ [j EXCEPT !.stage = st, !.snap = c].time = j.time
         /\ [j EXCEPT !.stage = st, !.snap = c].snap = c
         /\ [j EXCEPT !.stage = st, !.snap = c].stage = st
BY DEF JobTyped

LEMMA WrittenDomain ==
  ASSUME NEW j
  PROVE  DOMAIN Written(j) = IF Removes(j) THEN DOMAIN j.snap \ j.ids
                             ELSE DOMAIN j.snap \cup (IF j.op = "add" THEN j.ids ELSE {})
BY DEF Written, Restrict

\* What the steps of an operation on the file do to the jobs.
MoveJob(j, k) == jobs' = (jobs \ {j}) \cup {k}

SameTask(j, k) == k.session = j.session /\ k.op = j.op /\ k.ids = j.ids /\ k.time = j.time

LEMMA ReadMoves ==
  ASSUME FileInv, NEW j \in jobs, NEW c, HasRead(j, c)
  PROVE  \E k : /\ MoveJob(j, k) /\ SameTask(j, k) /\ k.stage = "land" /\ k.snap = c
                /\ j.stage = "read"
<1> DEFINE k == [j EXCEPT !.stage = "land", !.snap = c]
<1>1. JobTyped(j) /\ j.stage = "read" /\ jobs' = (jobs \ {j}) \cup {k}
  BY DEF FileInv, HasRead
<1>2. SameTask(j, k) /\ k.stage = "land" /\ k.snap = c
  BY <1>1, SameJob DEF SameTask
<1> HIDE DEF k
<1> QED BY <1>1, <1>2 DEF MoveJob

LEMMA TruncateMoves ==
  ASSUME FileInv, NEW j \in jobs, Truncate(j)
  PROVE  \E k : /\ MoveJob(j, k) /\ SameTask(j, k) /\ k.stage = "write" /\ k.snap = j.snap
                /\ j.stage = "land"
<1> DEFINE k == [j EXCEPT !.stage = "write"]
<1>1. JobTyped(j) /\ j.stage = "land" /\ jobs' = (jobs \ {j}) \cup {k}
  BY DEF FileInv, Truncate
<1>2. SameTask(j, k) /\ k.stage = "write" /\ k.snap = j.snap
  BY <1>1, SameJob DEF SameTask
<1> HIDE DEF k
<1> QED BY <1>1, <1>2 DEF MoveJob

LEMMA MoveBorn ==
  ASSUME NEW j \in jobs, NEW k, MoveJob(j, k), SameTask(j, k), edits' = edits
  PROVE  Born' = Born
BY DEF Born, MoveJob, SameTask

LEMMA MoveAdded ==
  ASSUME AddedOnce, NEW j \in jobs, NEW k, MoveJob(j, k), SameTask(j, k), edits' = edits
  PROVE  AddedOnce'
BY DEF AddedOnce, MoveJob, SameTask

\* An operation that reads the file, or nothing.  A removal that does not find its task in
\* a file that nobody is writing has found it gone.
LEMMA ReadSafe ==
  ASSUME FileInv, FileSafe, NEW j \in jobs, NEW c \in {file, Empty}, HasRead(j, c)
  PROVE  FileSafe' /\ Born \subseteq Born' /\ GoneStays
<1>1. PICK k : /\ MoveJob(j, k) /\ SameTask(j, k) /\ k.stage = "land" /\ k.snap = c
               /\ j.stage = "read"
  BY ReadMoves
<1>2. UNCHANGED <<file, edits, loaded>>
  BY DEF HasRead
<1>3. Born' = Born /\ AddedOnce'
  BY <1>1, <1>2, MoveBorn, MoveAdded DEF FileSafe
<1>4. BornFirst'
  BY <1>1, <1>2, <1>3, EmptyIsContents DEF FileSafe, BornFirst, MoveJob, SameTask
<1>5. WritersWrite'
  BY <1>1 DEF FileSafe, WritersWrite, MoveJob
<1>6. GoneStays
  BY <1>1, <1>2, <1>3 DEF GoneStays, Gone, MoveJob
<1> QED BY <1>3, <1>4, <1>5, <1>6 DEF FileSafe

LEMMA ReadNoneBack ==
  ASSUME FileInv, FileSafe, NoneBack, NEW j \in jobs, ReadFile(j), ~clobbered'
  PROVE  NoneBack'
<1>1. PICK k : /\ MoveJob(j, k) /\ SameTask(j, k) /\ k.stage = "land" /\ k.snap = file
               /\ j.stage = "read"
  BY ReadMoves DEF ReadFile
<1>2. UNCHANGED <<file, edits, loaded, deleted>> /\ ~Unsettled /\ HasRead(j, file)
  BY DEF ReadFile, HasRead
<1>3. GoneStays /\ Born' = Born
  BY <1>1, <1>2, ReadSafe, MoveBorn
<1>4. Apart'
  BY <1>1, <1>2 DEF NoneBack, Apart, MoveJob
<1>5. ASSUME NEW t \in k.ids, Removes(k), t \notin DOMAIN k.snap
      PROVE  Gone(t)'
  <2>1. ~Loads(j) /\ j.op # "add"
    BY <1>1, <1>5 DEF Removes, Loads, SameTask
  <2>2. t \in Born /\ t \notin DOMAIN file
    BY <1>1, <1>5, <2>1 DEF FileSafe, BornFirst, SameTask
  <2>3. Gone(t)
    BY <1>2, <2>1, <2>2 DEF Gone, Unsettled
  <2> QED BY <1>3, <2>3 DEF GoneStays
<1>6. RemovedIsGone'
  BY <1>1, <1>3, <1>5 DEF NoneBack, RemovedIsGone, MoveJob, GoneStays
<1>7. DeletedIsGone'
  BY <1>2, <1>3 DEF NoneBack, DeletedIsGone, GoneStays
<1> QED BY <1>4, <1>6, <1>7 DEF NoneBack

\* An operation that truncates the file.  If what it has read is what it destroys, then
\* nobody else is writing a task of that.
LEMMA TruncateSafe ==
  ASSUME FileInv, FileSafe, NEW j \in jobs, Truncate(j)
  PROVE  FileSafe' /\ Born \subseteq Born' /\ (~clobbered' => GoneStays)
<1>1. PICK k : /\ MoveJob(j, k) /\ SameTask(j, k) /\ k.stage = "write" /\ k.snap = j.snap
               /\ j.stage = "land"
  BY TruncateMoves
<1>2. file' = Empty /\ UNCHANGED <<edits, loaded>> /\ Writes(j) /\ (~clobbered' => file = j.snap)
  BY DEF Truncate
<1>3. Born' = Born /\ AddedOnce'
  BY <1>1, <1>2, MoveBorn, MoveAdded DEF FileSafe
<1>4. BornFirst'
  BY <1>1, <1>2, <1>3, EmptyIsContents DEF FileSafe, BornFirst, MoveJob, SameTask
<1>5. Writes(k)
  BY <1>1, <1>2 DEF Writes, Loads, SameTask
<1>6. WritersWrite'
  BY <1>1, <1>5 DEF FileSafe, WritersWrite, MoveJob
<1>7. ASSUME ~clobbered', NEW t, Gone(t) PROVE Gone(t)'
  <2>1. t \notin DOMAIN k.snap /\ t \in Born /\ t \notin DOMAIN file'
    BY <1>1, <1>2, <1>7, EmptyIsContents DEF Gone
  <2>2. k.op = "add" => t \notin k.ids
    BY <1>1, <2>1 DEF Born, SameTask
  <2>3. t \notin DOMAIN Written(k)
    BY <2>1, <2>2, WrittenDomain
  <2> QED BY <1>1, <1>3, <1>7, <2>1, <2>3 DEF Gone, MoveJob
<1> QED BY <1>3, <1>4, <1>6, <1>7 DEF FileSafe, GoneStays

LEMMA TruncateNoneBack ==
  ASSUME FileInv, FileSafe, NoneBack, NEW j \in jobs, Truncate(j), ~clobbered'
  PROVE  NoneBack'
<1>1. PICK k : /\ MoveJob(j, k) /\ SameTask(j, k) /\ k.stage = "write" /\ k.snap = j.snap
               /\ j.stage = "land"
  BY TruncateMoves
<1>2. /\ file' = Empty /\ UNCHANGED <<edits, loaded, deleted>> /\ file = j.snap
  BY DEF Truncate
<1>3. GoneStays /\ Born' = Born
  BY <1>1, <1>2, TruncateSafe, MoveBorn
<1>4. ASSUME NEW i \in jobs, i.stage = "write"
      PROVE  DOMAIN Written(k) \cap DOMAIN Written(i) = {}
  <2>1. DOMAIN Written(i) \cap DOMAIN file = {}
    BY <1>4 DEF NoneBack, Apart
  <2>2. ASSUME NEW t, k.op = "add", t \in k.ids PROVE t \notin DOMAIN Written(i)
    <3>1. t \notin Born /\ i # j /\ j.op = "add" /\ t \in j.ids
      BY <1>1, <1>4, <2>2 DEF Born, SameTask
    <3>2. t \notin DOMAIN i.snap
      BY <3>1 DEF FileSafe, BornFirst
    <3>3. i.op = "add" => t \notin i.ids
      BY <3>1 DEF FileSafe, AddedOnce
    <3> QED BY <3>2, <3>3, WrittenDomain
  <2>3. DOMAIN Written(k) \subseteq DOMAIN file \cup (IF k.op = "add" THEN k.ids ELSE {})
    BY <1>1, <1>2, WrittenDomain
  <2> QED BY <2>1, <2>2, <2>3
<1>5. Apart'
  BY <1>1, <1>2, <1>4, EmptyIsContents DEF NoneBack, Apart, MoveJob
<1>6. ASSUME NEW t \in k.ids, Removes(k)
      PROVE  Gone(t)'
  <2>1. j.op # "add" /\ t \in Born /\ Removes(j) /\ t \in j.ids
    BY <1>1, <1>6 DEF Removes, SameTask, FileSafe, BornFirst
  <2>2. CASE t \notin DOMAIN j.snap
    BY <1>1, <1>3, <2>1, <2>2 DEF NoneBack, RemovedIsGone, GoneStays
  <2>3. CASE t \in DOMAIN j.snap
    <3>1. \A i \in jobs : i.stage = "write" => t \notin DOMAIN Written(i)
      BY <1>2, <2>3 DEF NoneBack, Apart
    <3>2. t \notin DOMAIN Written(k)
      BY <1>6, WrittenDomain
    <3> QED BY <1>1, <1>2, <1>3, <2>1, <3>1, <3>2, EmptyIsContents DEF Gone, MoveJob
  <2> QED BY <2>2, <2>3
<1>7. RemovedIsGone'
  BY <1>1, <1>3, <1>6 DEF NoneBack, RemovedIsGone, MoveJob, GoneStays
<1>8. DeletedIsGone'
  BY <1>2, <1>3 DEF NoneBack, DeletedIsGone, GoneStays
<1> QED BY <1>5, <1>7, <1>8 DEF NoneBack

\* An operation that lands.
LEMMA LandSafe ==
  ASSUME FileInv, FileSafe, NEW j \in jobs, LandWrite(j)
  PROVE  FileSafe' /\ Born \subseteq Born' /\ (~clobbered /\ NoneBack => GoneStays)
<1>1. /\ jobs' = jobs \ {j} /\ UNCHANGED <<edits, loaded>> /\ ~Loads(j)
      /\ file' = IF Writes(j) THEN Written(j) ELSE file
      /\ Writes(j) => j.stage = "write"
  BY DEF LandWrite, Finish
<1>2. Born \subseteq Born'
  BY <1>1 DEF Born
<1>3. AddedOnce'
  BY <1>1 DEF FileSafe, AddedOnce
<1>4. WritersWrite'
  BY <1>1 DEF FileSafe, WritersWrite
<1>5. DOMAIN file' \subseteq Born'
  <2>1. CASE ~Writes(j)
    BY <1>1, <1>2, <2>1 DEF FileSafe, BornFirst
  <2>2. CASE Writes(j)
    <3>1. ASSUME NEW t \in j.ids, j.op = "add" PROVE t \in Born'
      <4>1. t \in Tasks
        BY DEF FileInv, JobTyped
      <4>2. <<"create", t>> \in edits /\ \A k \in jobs' : k.op = "add" => t \notin k.ids
        BY <1>1, <3>1 DEF FileSafe, AddedOnce
      <4> QED BY <1>1, <4>1, <4>2 DEF Born
    <3>2. DOMAIN Written(j) \subseteq DOMAIN j.snap \cup (IF j.op = "add" THEN j.ids ELSE {})
      BY WrittenDomain
    <3>3. DOMAIN j.snap \subseteq Born
      BY DEF FileSafe, BornFirst
    <3> QED BY <1>1, <1>2, <2>2, <3>1, <3>2, <3>3
  <2> QED BY <2>1, <2>2
<1>6. BornFirst'
  BY <1>1, <1>2, <1>5 DEF FileSafe, BornFirst
<1>7. ASSUME NEW t, Gone(t) PROVE Gone(t)'
  BY <1>1, <1>2, <1>7 DEF Gone
<1> QED BY <1>2, <1>3, <1>4, <1>6, <1>7 DEF FileSafe, GoneStays

\* A removal that lands leaves what it removes gone.
LEMMA LandRemoves ==
  ASSUME FileInv, FileSafe, NoneBack, ~clobbered, NEW j \in jobs, LandWrite(j), Removes(j),
         NEW t \in j.ids
  PROVE  Gone(t)
<1>1. j.stage = IF Writes(j) THEN "write" ELSE "land"
  BY DEF LandWrite
<1>2. j.op # "add" /\ ~Loads(j)
  BY DEF Removes, Loads
<1>3. ~Writes(j) => t \notin DOMAIN j.snap
  BY <1>2 DEF Writes
<1> QED BY <1>1, <1>3 DEF NoneBack, RemovedIsGone

LEMMA LandNoneBack ==
  ASSUME FileInv, FileSafe, NoneBack, NEW j \in jobs, LandWrite(j), ~clobbered'
  PROVE  NoneBack'
<1>1. /\ jobs' = jobs \ {j} /\ UNCHANGED <<edits, loaded, clobbered>>
      /\ file' = IF Writes(j) THEN Written(j) ELSE file
      /\ Writes(j) => j.stage = "write"
      /\ deleted' = IF j.op = "delete" THEN deleted \cup j.ids ELSE deleted
  BY DEF LandWrite, Finish
<1>2. GoneStays
  BY <1>1, LandSafe
<1>3. Apart'
  <2>1. ASSUME NEW k \in jobs', k.stage = "write"
        PROVE  DOMAIN Written(k) \cap DOMAIN file' = {}
    BY <1>1, <2>1 DEF NoneBack, Apart
  <2> QED BY <1>1, <2>1 DEF NoneBack, Apart
<1>4. RemovedIsGone'
  BY <1>1, <1>2 DEF NoneBack, RemovedIsGone, GoneStays
<1>5. ASSUME j.op = "delete", NEW t \in j.ids PROVE Gone(t)
  BY <1>1, <1>5, LandRemoves DEF Removes
<1>6. DeletedIsGone'
  BY <1>1, <1>2, <1>5 DEF NoneBack, DeletedIsGone, GoneStays
<1> QED BY <1>3, <1>4, <1>6 DEF NoneBack

\* The user creates a task.
LEMMA CreateSafe ==
  ASSUME FileSafe, NEW s \in Sessions, NEW t \in Tasks, CronCreate(s, t)
  PROVE  FileSafe' /\ Born \subseteq Born' /\ GoneStays
<1> DEFINE a == Job(s, "add", {t})
<1>1. /\ t \notin InitialTasks /\ <<"create", t>> \notin edits /\ jobs' = jobs \cup {a}
      /\ edits' = edits \cup {<<"create", t>>} /\ UNCHANGED <<file, loaded>>
  BY DEF CronCreate, Edit
<1>2. a.op = "add" /\ a.ids = {t} /\ a.stage = "read" /\ a.snap = Empty
  BY DEF Job
<1> HIDE DEF a
<1>3. Born \subseteq Born'
  BY <1>1, <1>2 DEF Born
<1>4. BornFirst'
  BY <1>1, <1>2, <1>3, EmptyIsContents DEF FileSafe, BornFirst
<1>5. AddedOnce'
  BY <1>1, <1>2 DEF FileSafe, AddedOnce
<1>6. WritersWrite'
  BY <1>1, <1>2 DEF FileSafe, WritersWrite
<1>7. GoneStays
  BY <1>1, <1>2, <1>3 DEF GoneStays, Gone
<1> QED BY <1>3, <1>4, <1>5, <1>6, <1>7 DEF FileSafe

LEMMA CreateNoneBack ==
  ASSUME FileSafe, NoneBack, NEW s \in Sessions, NEW t \in Tasks, CronCreate(s, t)
  PROVE  NoneBack'
<1> DEFINE a == Job(s, "add", {t})
<1>1. jobs' = jobs \cup {a} /\ UNCHANGED <<file, deleted>>
  BY DEF CronCreate
<1>2. a.op = "add" /\ a.stage = "read" /\ ~Removes(a)
  BY DEF Job, Removes
<1> HIDE DEF a
<1>3. GoneStays
  BY CreateSafe
<1> QED BY <1>1, <1>2, <1>3 DEF NoneBack, Apart, RemovedIsGone, DeletedIsGone, GoneStays

\* Every other step is quiet.
LEMMA MissedBorn ==
  ASSUME FileSafe, NEW j \in jobs
  PROVE  Missed(j) \subseteq Born
BY DEF Missed, FileSafe, BornFirst

LEMMA DueBorn ==
  ASSUME FileSafe, NEW s \in Sessions
  PROVE  DueTasks(s) \subseteq Born /\ Again(s) \subseteq DueTasks(s) /\ Again(s) \subseteq Recurring
         /\ DueTasks(s) \subseteq DOMAIN loaded[s]
BY DEF DueTasks, Idle, Again, FileSafe, BornFirst

LEMMA NewJobs ==
  ASSUME NEW s, NEW op, op # "add", NEW ids \in SUBSET Born
  PROVE  NewJob(Job(s, op, ids))
BY DEF NewJob, Job

LEMMA QuietSteps ==
  ASSUME FileInv, FileSafe, [Next]_vars
  PROVE  \/ Quiet
         \/ \E j \in jobs : ReadFile(j) \/ ReadNothing(j) \/ Truncate(j) \/ LandWrite(j)
         \/ \E s \in Sessions, t \in Tasks : CronCreate(s, t)
<1>1. ASSUME NEW j \in jobs, LandLoad(j) PROVE Quiet
  <2>1. j.session \in Sessions /\ loaded \in [Sessions -> Contents]
    BY DEF FileInv, JobTyped
  <2>2. \A s \in Sessions : loaded'[s] = loaded[s] \/ loaded'[s] = j.snap
    BY <1>1, <2>1 DEF LandLoad, Listed
  <2>3. NewJob(Job(j.session, "missed", Missed(j)))
    BY MissedBorn, NewJobs
  <2>4. \A k \in jobs' : k \in jobs \/ NewJob(k)
    BY <1>1, <2>3 DEF LandLoad
  <2> QED BY <1>1, <2>2, <2>4 DEF LandLoad, Quiet
<1>2. ASSUME NEW j \in jobs, Fail(j) PROVE Quiet
  BY <1>2 DEF Fail, Finish, Quiet
<1>3. ASSUME NEW s \in Sessions, Start(s) \/ Probe(s) \/ WatcherReady(s) \/ Stop(s) PROVE Quiet
  BY <1>3 DEF Start, Probe, WatcherReady, Stop, cronVars, Quiet
<1>4. ASSUME NEW s \in Sessions, Acquired(s) \/ Reload(s) PROVE Quiet
  <2>1. NewJob(Job(s, "load", {})) /\ NewJob(Job(s, "reload", {}))
    BY NewJobs
  <2> QED BY <1>4, <2>1 DEF Acquired, Reload, Quiet
<1>5. ASSUME NEW s \in Sessions, Check(s) PROVE Quiet
  <2>1. \A t \in DueTasks(s) : NewJob(Job(s, "fire", {t}))
    BY DueBorn, NewJobs
  <2>2. NewJob(Job(s, "mark", Again(s)))
    BY DueBorn, NewJobs
  <2>3. \A k \in jobs' : k \in jobs \/ NewJob(k)
    BY <1>5, <2>1, <2>2 DEF Check
  <2> QED BY <1>5, <2>3 DEF Check, Quiet
<1>6. ASSUME NEW s \in Sessions, Crash(s) PROVE Quiet
  <2>1. loaded \in [Sessions -> Contents]
    BY DEF FileInv
  <2> QED BY <1>6, <2>1 DEF Crash, Quiet
<1>7. ASSUME NEW s \in Sessions, NEW t \in Tasks, CronDelete(s, t) PROVE Quiet
  <2>1. NewJob(Job(s, "delete", {t}))
    BY <1>7, NewJobs DEF CronDelete, FileSafe, BornFirst
  <2>2. \A u : <<"create", u>> \in edits' <=> <<"create", u>> \in edits
    BY <1>7 DEF CronDelete, Edit
  <2> QED BY <1>7, <2>1, <2>2 DEF CronDelete, Quiet
<1>8. ASSUME NEW s \in Sessions, LockAction(s), UNCHANGED cronVars PROVE Quiet
  BY <1>8 DEF cronVars, Quiet
<1>9. CASE Tick \/ UNCHANGED vars
  BY <1>9 DEF Tick, vars, cronVars, Quiet
<1> QED
  BY <1>1, <1>2, <1>3, <1>4, <1>5, <1>6, <1>7, <1>8, <1>9 DEF Next, JobStep, SchedulerStep

\* Mishaps are not forgotten, and a failure is one.
LEMMA MishapStays ==
  ASSUME FileInv, [Next]_vars
  PROVE  /\ Mishap => Mishap'
         /\ \A j \in jobs : ReadNothing(j) \/ Fail(j) => Mishap'
<1>1. errors \in Nat
  BY BoundsAssumption DEF FileInv
<1>2. errors' = errors \/ errors' = errors + 1
  BY DEF Next, vars, cronVars, Tick, JobStep, HasRead, ReadFile, ReadNothing, LandLoad, Truncate,
         LandWrite, Fail, Start, SchedulerStep, Acquired, Probe, WatcherReady, Reload, Check, Stop,
         Crash, CronDelete, CronCreate
<1>3. clobbered => clobbered'
  BY DEF Next, vars, cronVars, Tick, JobStep, HasRead, ReadFile, ReadNothing, LandLoad, Truncate,
         LandWrite, Fail, Start, SchedulerStep, Acquired, Probe, WatcherReady, Reload, Check, Stop,
         Crash, CronDelete, CronCreate
<1>4. \A j \in jobs : ReadNothing(j) \/ Fail(j) => errors' = errors + 1
  BY DEF ReadNothing, Fail
<1> QED BY <1>1, <1>2, <1>3, <1>4 DEF Mishap

LEMMA FilesSafe ==
  ASSUME FileInv, FileSafe, [Next]_vars
  PROVE  /\ FileSafe' /\ Born \subseteq Born' /\ (Mishap => Mishap')
         /\ NoneBack /\ ~Mishap' => NoneBack' /\ GoneStays
<1>1. \A j \in jobs : ReadFile(j) \/ ReadNothing(j) => \E c \in {file, Empty} : HasRead(j, c)
  BY DEF ReadFile, ReadNothing
<1>2. FileSafe' /\ Born \subseteq Born' /\ (NoneBack /\ ~clobbered /\ ~clobbered' => GoneStays)
  BY <1>1, QuietSteps, QuietSafe, ReadSafe, TruncateSafe, LandSafe, CreateSafe
<1>3. ASSUME NoneBack, ~Mishap' PROVE NoneBack'
  <2>1. ~clobbered' /\ \A j \in jobs : ~ReadNothing(j)
    BY <1>3, MishapStays DEF Mishap
  <2> QED
    BY <1>3, <2>1, QuietSteps, QuietNoneBack, ReadNoneBack, TruncateNoneBack, LandNoneBack,
       CreateNoneBack
<1>4. ~Mishap' => ~clobbered /\ ~clobbered'
  BY MishapStays DEF Mishap
<1> QED BY <1>2, <1>3, <1>4, MishapStays

-----------------------------------------------------------------------------
(* The loads.  With Timely changes are loaded whole and in order, so a     *)
(* session that has caught up sees the file as it is.                      *)

\* One load at a time, of a session that watches the file or has been stopped.
OneLoad ==
  /\ \A s \in Sessions : mode[s] # "on"
  /\ \A j \in jobs : Loads(j) => mode[j.session] \in {"watching", "stopped"}
  /\ \A j, k \in jobs : Loads(j) /\ Loads(k) /\ j.session = k.session => j = k

\* A session that knows of no change has loaded the file, or is about to.
LoadsFit ==
  \A s \in Sessions : mode[s] = "watching" /\ s \notin changed =>
    /\ \A j \in jobs : j.session = s /\ Loads(j) /\ j.stage = "land" => j.snap = file /\ ~Unsettled
    /\ ~Loading(s) => loaded[s] = file /\ ~Unsettled

\* What a step makes of the loads.
LoadsGoOn == OneLoad' /\ (LoadsFit /\ ~Mishap' => LoadsFit')

\* A step that leaves the loads, and what they are of, alone.
LoadsAlone ==
  /\ UNCHANGED <<file, loaded, changed>>
  /\ \A s \in Sessions : /\ mode'[s] = "watching" => mode[s] = "watching"
                         /\ mode[s] \in {"watching", "stopped"} => mode'[s] \in {"watching", "stopped"}
                         /\ mode'[s] # "on"
  /\ \A k \in jobs' : k \in jobs \/ (~Loads(k) /\ k.stage # "write")
  /\ \A k \in jobs : Loads(k) => k \in jobs'

LEMMA LoadsAloneKeeps ==
  ASSUME FileInv, OneLoad, LoadsAlone
  PROVE  LoadsGoOn
<1>1. \A j \in jobs : j.session \in Sessions
  BY DEF FileInv, JobTyped
<1>2. OneLoad'
  BY <1>1 DEF OneLoad, LoadsAlone
<1>3. Unsettled' => Unsettled
  BY DEF LoadsAlone, Unsettled
<1>4. \A s \in Sessions : Loading(s) => Loading(s)'
  BY DEF LoadsAlone, Loading, JobsOf
<1>5. ASSUME LoadsFit, ~Mishap' PROVE LoadsFit'
  BY <1>3, <1>4, <1>5 DEF LoadsFit, LoadsAlone
<1> QED BY <1>2, <1>5 DEF LoadsGoOn

\* A change of the file is seen by all who watch it.
LEMMA WritesSeen ==
  ASSUME OneLoad, WatchersSee, mode' = mode,
         \A k \in jobs' : Loads(k) => k \in jobs
  PROVE  LoadsGoOn
BY DEF LoadsGoOn, OneLoad, LoadsFit, WatchersSee

\* Without a mishap a load reads a file that is whole.
LEMMA ReadLoads ==
  ASSUME FileInv, OneLoad, NEW j \in jobs, NEW c, HasRead(j, c), ~Mishap' => c = file /\ ~Unsettled
  PROVE  LoadsGoOn
<1>1. PICK k : /\ MoveJob(j, k) /\ SameTask(j, k) /\ k.stage = "land" /\ k.snap = c
               /\ j.stage = "read"
  BY ReadMoves
<1>2. UNCHANGED <<file, mode, loaded, changed>>
  BY DEF HasRead
<1>3. Loads(k) <=> Loads(j)
  BY <1>1 DEF Loads, SameTask
<1>4. OneLoad'
  BY <1>1, <1>2, <1>3 DEF OneLoad, MoveJob, SameTask
<1>5. Unsettled' => Unsettled
  BY <1>1 DEF Unsettled, MoveJob
<1>6. \A s \in Sessions : Loading(s) => Loading(s)'
  BY <1>1, <1>3 DEF Loading, JobsOf, MoveJob, SameTask
<1>7. ASSUME LoadsFit, ~Mishap' PROVE LoadsFit'
  BY <1>1, <1>2, <1>3, <1>5, <1>6, <1>7 DEF LoadsFit, MoveJob
<1> QED BY <1>4, <1>7 DEF LoadsGoOn

\* A load that lands brings the file as it is, unless a change is reported.
LEMMA LandLoads ==
  ASSUME FileInv, OneLoad, NEW j \in jobs, LandLoad(j)
  PROVE  LoadsGoOn
<1> DEFINE s == j.session
           m == Job(s, "missed", Missed(j))
<1>1. s \in Sessions /\ loaded \in [Sessions -> Contents]
  BY DEF FileInv, JobTyped
<1>2. Loads(j) /\ j.stage = "land" /\ UNCHANGED <<file, mode, changed>>
  BY DEF LandLoad
<1>3. /\ jobs' = jobs \ {j} \/ jobs' = (jobs \ {j}) \cup {m}
      /\ \A r \in Sessions : r # s => loaded'[r] = loaded[r]
      /\ mode[s] = "watching" => loaded'[s] = j.snap
  BY <1>1 DEF LandLoad, Live, Listed
<1>4. ~Loads(m) /\ m.stage = "read"
  BY DEF Job, Loads
<1> HIDE DEF m
<1>5. OneLoad'
  BY <1>2, <1>3, <1>4 DEF OneLoad
<1>6. Unsettled' => Unsettled
  BY <1>3, <1>4 DEF Unsettled
<1>7. \A k \in jobs' : Loads(k) => k \in jobs /\ k.session # s
  BY <1>2, <1>3, <1>4 DEF OneLoad
<1>8. \A r \in Sessions : r # s /\ Loading(r) => Loading(r)'
  BY <1>3 DEF Loading, JobsOf
<1>9. ASSUME LoadsFit, NEW r \in Sessions, mode[r] = "watching", r \notin changed
      PROVE  /\ \A k \in jobs' : k.session = r /\ Loads(k) /\ k.stage = "land" => k.snap = file /\ ~Unsettled'
             /\ ~Loading(r)' => loaded'[r] = file /\ ~Unsettled'
  <2>1. CASE r = s
    BY <1>2, <1>3, <1>6, <1>7, <1>9, <2>1 DEF LoadsFit
  <2>2. CASE r # s
    BY <1>3, <1>6, <1>7, <1>8, <1>9, <2>2 DEF LoadsFit
  <2> QED BY <2>1, <2>2
<1>10. ASSUME LoadsFit, ~Mishap' PROVE LoadsFit'
  BY <1>2, <1>9, <1>10 DEF LoadsFit
<1> QED BY <1>5, <1>10 DEF LoadsGoOn

\* The first load of a session, or another one.
LEMMA LoadStarts ==
  ASSUME FileInv, OneLoad, NEW s \in Sessions, NEW op \in {"load", "reload"}, ~Loading(s),
         jobs' = jobs \cup {Job(s, op, {})}, mode \in [Sessions -> Mode],
         mode' = [mode EXCEPT ![s] = "watching"],
         UNCHANGED <<file, loaded>>, \A r \in Sessions \ {s} : r \in changed => r \in changed'
  PROVE  LoadsGoOn
<1> DEFINE a == Job(s, op, {})
<1>1. Loads(a) /\ a.stage = "read" /\ a.session = s
  BY DEF Job, Loads
<1>2. jobs' = jobs \cup {a} /\ mode'[s] = "watching" /\ \A r \in Sessions \ {s} : mode'[r] = mode[r]
  OBVIOUS
<1> HIDE DEF a
<1>3. \A k \in jobs : Loads(k) => k.session # s /\ k.session \in Sessions
  BY DEF Loading, JobsOf, FileInv, JobTyped
<1>4. OneLoad'
  BY <1>1, <1>2, <1>3 DEF OneLoad
<1>5. Unsettled' => Unsettled
  BY <1>1, <1>2 DEF Unsettled
<1>6. Loading(s)' /\ \A r \in Sessions : Loading(r) => Loading(r)'
  BY <1>1, <1>2 DEF Loading, JobsOf
<1>7. ASSUME LoadsFit, ~Mishap' PROVE LoadsFit'
  BY <1>1, <1>2, <1>3, <1>5, <1>6, <1>7 DEF LoadsFit
<1> QED BY <1>4, <1>7 DEF LoadsGoOn

\* A process takes its loads with it.
LEMMA CrashLoads ==
  ASSUME FileInv, OneLoad, NEW s \in Sessions, Crash(s), mode \in [Sessions -> Mode]
  PROVE  LoadsGoOn
<1>1. /\ jobs' = {j \in jobs : j.session # s} /\ mode'[s] = "off"
      /\ \A r \in Sessions \ {s} : mode'[r] = mode[r] /\ loaded'[r] = loaded[r]
      /\ file' = file /\ changed' = changed \ {s}
  BY DEF Crash, JobsOf, FileInv
<1>2. \A j \in jobs : j.session \in Sessions
  BY DEF FileInv, JobTyped
<1>3. OneLoad'
  BY <1>1, <1>2 DEF OneLoad
<1>4. Unsettled' => Unsettled
  BY <1>1 DEF Unsettled
<1>5. \A r \in Sessions \ {s} : Loading(r) => Loading(r)'
  BY <1>1 DEF Loading, JobsOf
<1>6. ASSUME LoadsFit, ~Mishap' PROVE LoadsFit'
  BY <1>1, <1>4, <1>5, <1>6 DEF LoadsFit
<1> QED BY <1>3, <1>6 DEF LoadsGoOn

LEMMA LoadsKept ==
  ASSUME Timely, CronInv, FileSafe, OneLoad, [Next]_vars
  PROVE  LoadsGoOn
<1>1. FileInv /\ mode \in [Sessions -> Mode]
  BY DEF CronInv, LockInv
<1>2. \A s \in Sessions : mode[s] # "on"
  BY DEF OneLoad
<1>3. ASSUME UNCHANGED <<file, loaded, changed, mode>>,
             \A k \in jobs' : k \in jobs \/ (~Loads(k) /\ k.stage # "write"),
             \A k \in jobs : Loads(k) => k \in jobs'
      PROVE  LoadsGoOn
  BY <1>1, <1>2, <1>3, LoadsAloneKeeps DEF LoadsAlone
<1>4. ASSUME NEW j \in jobs, Truncate(j) PROVE LoadsGoOn
  <2>1. PICK k : /\ MoveJob(j, k) /\ SameTask(j, k) /\ k.stage = "write" /\ k.snap = j.snap
                 /\ j.stage = "land"
    BY <1>1, <1>4, TruncateMoves
  <2>2. WatchersSee /\ mode' = mode /\ Writes(j)
    BY <1>4 DEF Truncate
  <2>3. ~Loads(k)
    BY <2>1, <2>2 DEF Writes, Loads, SameTask
  <2> QED BY <2>1, <2>2, <2>3, WritesSeen DEF MoveJob
<1>5. ASSUME NEW j \in jobs, LandWrite(j) PROVE LoadsGoOn
  <2>1. jobs' = jobs \ {j} /\ ~Loads(j) /\ UNCHANGED <<mode, loaded>>
        /\ (WatchersSee \/ UNCHANGED <<file, changed>>)
    BY <1>5 DEF LandWrite, Finish
  <2>2. CASE WatchersSee
    BY <2>1, <2>2, WritesSeen
  <2>3. CASE UNCHANGED <<file, changed>>
    BY <1>3, <2>1, <2>3
  <2> QED BY <2>1, <2>2, <2>3
<1>6. ASSUME NEW j \in jobs, Fail(j) PROVE LoadsGoOn
  BY <1>3, <1>6 DEF Fail, Finish, Writes
<1>7. ASSUME NEW s \in Sessions, Start(s) \/ Stop(s) PROVE LoadsGoOn
  <2>1. LoadsAlone
    BY <1>1, <1>2, <1>7 DEF Start, Stop, LoadsAlone
  <2> QED BY <1>1, <2>1, LoadsAloneKeeps
<1>8. ASSUME NEW s \in Sessions, Acquired(s) PROVE LoadsGoOn
  <2>1. CASE mode[s] = "acquire"
    <3>1. ~Loading(s)
      BY <2>1 DEF OneLoad, Loading, JobsOf
    <3>2. /\ jobs' = jobs \cup {Job(s, "load", {})} /\ mode' = [mode EXCEPT ![s] = "watching"]
          /\ UNCHANGED <<file, loaded, changed>>
      BY <1>8, <2>1 DEF Acquired
    <3> QED BY <1>1, <3>1, <3>2, LoadStarts
  <2>2. CASE mode[s] # "acquire"
    BY <1>3, <1>8, <2>2 DEF Acquired
  <2> QED BY <2>1, <2>2
<1>9. ASSUME NEW s \in Sessions, Reload(s) PROVE LoadsGoOn
  <2>1. /\ ~Loading(s) /\ jobs' = jobs \cup {Job(s, "reload", {})}
        /\ mode' = [mode EXCEPT ![s] = "watching"]
        /\ UNCHANGED <<file, loaded>> /\ changed' = changed \ {s}
    BY <1>1, <1>9 DEF Reload
  <2> QED BY <1>1, <2>1, LoadStarts
<1>10. ASSUME NEW s \in Sessions, Check(s) PROVE LoadsGoOn
  <2>1. \A t : ~Loads(Job(s, "fire", {t})) /\ Job(s, "fire", {t}).stage = "read"
    BY DEF Loads, Job
  <2>2. ~Loads(Job(s, "mark", Again(s))) /\ Job(s, "mark", Again(s)).stage = "read"
    BY DEF Loads, Job
  <2>3. /\ \A k \in jobs' : k \in jobs \/ (~Loads(k) /\ k.stage # "write")
        /\ \A k \in jobs : k \in jobs'
    BY <1>10, <2>1, <2>2 DEF Check
  <2> QED BY <1>3, <1>10, <2>3 DEF Check
<1>11. ASSUME NEW s \in Sessions, NEW t \in Tasks, CronDelete(s, t) \/ CronCreate(s, t)
       PROVE  LoadsGoOn
  <2>1. \A op \in {"delete", "add"} : ~Loads(Job(s, op, {t})) /\ Job(s, op, {t}).stage = "read"
    BY DEF Loads, Job
  <2> QED BY <1>3, <1>11, <2>1 DEF CronDelete, CronCreate
<1>12. ASSUME NEW s \in Sessions,
              Probe(s) \/ WatcherReady(s) \/ (LockAction(s) /\ UNCHANGED cronVars)
       PROVE  LoadsGoOn
  BY <1>2, <1>3, <1>12 DEF Probe, WatcherReady, cronVars
<1>13. CASE Tick \/ UNCHANGED vars
  BY <1>3, <1>13 DEF Tick, vars, cronVars
<1>14. ASSUME NEW j \in jobs, ReadFile(j) \/ ReadNothing(j) PROVE LoadsGoOn
  <2>1. PICK c : HasRead(j, c) /\ (~Mishap' => c = file /\ ~Unsettled)
    <3>1. CASE ReadFile(j)
      BY <3>1 DEF ReadFile, Mishap
    <3>2. CASE ReadNothing(j)
      BY <1>1, <3>2, MishapStays DEF ReadNothing
    <3> QED BY <1>14, <3>1, <3>2
  <2> QED BY <1>1, <2>1, ReadLoads
<1> QED
  BY <1>1, <1>4, <1>5, <1>6, <1>7, <1>8, <1>9, <1>10, <1>11, <1>12, <1>13, <1>14, LandLoads,
     CrashLoads DEF Next, JobStep, SchedulerStep

\* A tick of a session that has caught up sees the file as it is.
LEMMA UpToDateSees ==
  ASSUME LoadsFit, NEW s \in Sessions, UpToDate(s)
  PROVE  loaded[s] = file /\ ~Unsettled
BY DEF LoadsFit, UpToDate

-----------------------------------------------------------------------------
(* The lists.  What a session has had on its list and has no more is gone, *)
(* and does not come back to it.                                           *)

\* Load j is about to bring session s what it has read.
Brings(j, s) == j.session = s /\ Loads(j) /\ j.stage = "land"

\* Session s does not have task t, and does not hear of it again.
Forgotten(s, t) ==
  /\ Gone(t) /\ t \notin DOMAIN loaded[s]
  /\ \A j \in jobs : Brings(j, s) => t \notin DOMAIN j.snap

\* A load without a task that the session has, or has fired, has found it gone.
ListsFit ==
  \A s \in Sessions, t \in Tasks :
    /\ t \in DOMAIN loaded[s] \/ fired[s][t] # {} =>
         \A j \in jobs : Brings(j, s) /\ t \notin DOMAIN j.snap => Gone(t)
    /\ fired[s][t] # {} /\ t \notin DOMAIN loaded[s] => Forgotten(s, t)

\* A step that leaves the lists, and what is about to be brought, alone.
ListsAlone ==
  UNCHANGED <<loaded, fired>> /\ \A k \in jobs' : k \in jobs \/ k.stage # "land" \/ ~Loads(k)

LEMMA ListSteps ==
  ASSUME FileInv, [Next]_vars
  PROVE  \/ ListsAlone
         \/ \E j \in jobs : ReadFile(j) \/ ReadNothing(j) \/ LandLoad(j)
         \/ \E s \in Sessions : Check(s) \/ Crash(s)
<1>1. \A s, op, ids : Job(s, op, ids).stage = "read"
  BY DEF Job
<1>2. ASSUME NEW j \in jobs, Truncate(j) PROVE ListsAlone
  <2>1. PICK k : MoveJob(j, k) /\ k.stage = "write"
    BY <1>2, TruncateMoves
  <2> QED BY <1>2, <2>1 DEF Truncate, ListsAlone, MoveJob
<1>3. ASSUME NEW j \in jobs, LandWrite(j) \/ Fail(j) PROVE ListsAlone
  BY <1>3 DEF LandWrite, Fail, Finish, ListsAlone
<1>4. ASSUME NEW s \in Sessions, Start(s) \/ Stop(s) \/ Acquired(s) \/ Probe(s) \/ WatcherReady(s)
             \/ Reload(s) \/ (LockAction(s) /\ UNCHANGED cronVars)
      PROVE  ListsAlone
  BY <1>1, <1>4 DEF Start, Stop, Acquired, Probe, WatcherReady, Reload, cronVars, ListsAlone
<1>5. ASSUME NEW s \in Sessions, NEW t \in Tasks, CronDelete(s, t) \/ CronCreate(s, t)
      PROVE  ListsAlone
  BY <1>1, <1>5 DEF CronDelete, CronCreate, ListsAlone
<1>6. CASE Tick \/ UNCHANGED vars
  BY <1>6 DEF Tick, vars, cronVars, ListsAlone
<1> QED BY <1>2, <1>3, <1>4, <1>5, <1>6 DEF Next, JobStep, SchedulerStep

\* A landed load is the only one of its session.
LEMMA LandBrings ==
  ASSUME FileInv, OneLoad, NEW j \in jobs, LandLoad(j)
  PROVE  /\ Brings(j, j.session) /\ j.session \in Sessions /\ fired' = fired
         /\ \A k \in jobs' : Loads(k) => k \in jobs /\ k.session # j.session
         /\ \A r \in Sessions : r # j.session => loaded'[r] = loaded[r]
         /\ loaded'[j.session] = IF Live(j.session) THEN j.snap ELSE loaded[j.session]
<1>1. j.session \in Sessions /\ loaded \in [Sessions -> Contents]
  BY DEF FileInv, JobTyped
<1>2. ~Loads(Job(j.session, "missed", Missed(j)))
  BY DEF Job, Loads
<1>3. \A k \in jobs' : Loads(k) => k \in jobs /\ k # j
  BY <1>2 DEF LandLoad
<1>4. Brings(j, j.session) /\ fired' = fired
  BY DEF LandLoad, Brings
<1>5. \A k \in jobs' : Loads(k) => k.session # j.session
  BY <1>3 DEF OneLoad, LandLoad
<1>6. \A r \in Sessions : r # j.session => loaded'[r] = loaded[r]
  BY <1>1 DEF LandLoad, Listed
<1>7. loaded'[j.session] = IF Live(j.session) THEN j.snap ELSE loaded[j.session]
  BY <1>1 DEF LandLoad, Listed
<1> QED BY <1>1, <1>3, <1>4, <1>5, <1>6, <1>7

\* What a tick of check, and a crash, leave of it.
LEMMA CheckLists ==
  ASSUME FileInv, NEW s \in Sessions, Check(s)
  PROVE  /\ loaded' = loaded /\ \A k \in jobs' : Loads(k) => k \in jobs
         /\ \A r \in Sessions, t \in Tasks :
              fired'[r][t] = IF r = s /\ t \in DueTasks(s) THEN fired[r][t] \cup {now} ELSE fired[r][t]
<1>1. \A t : ~Loads(Job(s, "fire", {t})) /\ ~Loads(Job(s, "mark", Again(s)))
  BY DEF Loads, Job
<1>2. \A k \in jobs' : Loads(k) => k \in jobs
  BY <1>1 DEF Check
<1>3. fired \in [Sessions -> [Tasks -> SUBSET Time]] /\ loaded' = loaded
  BY DEF FileInv, Check
<1>4. \A r \in Sessions, t \in Tasks :
        fired'[r][t] = IF r = s /\ t \in DueTasks(s) THEN fired[r][t] \cup {now} ELSE fired[r][t]
  BY <1>3 DEF Check
<1> QED BY <1>2, <1>3, <1>4

LEMMA CrashLists ==
  ASSUME FileInv, NEW s \in Sessions, Crash(s)
  PROVE  /\ jobs' = {j \in jobs : j.session # s} /\ loaded'[s] = Empty
         /\ \A t \in Tasks : fired'[s][t] = {}
         /\ \A r \in Sessions : r # s => loaded'[r] = loaded[r] /\ fired'[r] = fired[r]
BY DEF Crash, FileInv, JobsOf

\* What is forgotten stays so.
LEMMA ForgottenStays ==
  ASSUME FileInv, OneLoad, GoneStays, [Next]_vars, NEW s \in Sessions, NEW t, Forgotten(s, t)
  PROVE  Forgotten(s, t)'
<1>1. Gone(t)' /\ t \notin DOMAIN file /\ t \notin DOMAIN Empty
  BY EmptyIsContents DEF Forgotten, Gone, GoneStays
<1>2. ASSUME loaded' = loaded, \A k \in jobs' : k \in jobs \/ k.stage # "land" \/ ~Loads(k)
      PROVE  Forgotten(s, t)'
  BY <1>1, <1>2 DEF Forgotten, Brings
<1>3. ASSUME NEW j \in jobs, NEW c \in {file, Empty}, HasRead(j, c) PROVE Forgotten(s, t)'
  <2>1. PICK k : MoveJob(j, k) /\ k.snap = c
    BY <1>3, ReadMoves
  <2>2. loaded' = loaded
    BY <1>3 DEF HasRead
  <2> QED BY <1>1, <2>1, <2>2 DEF Forgotten, Brings, MoveJob
<1>4. ASSUME NEW j \in jobs, LandLoad(j) PROVE Forgotten(s, t)'
  BY <1>1, <1>4, LandBrings DEF Forgotten, Brings
<1>5. ASSUME NEW r \in Sessions, Crash(r) PROVE Forgotten(s, t)'
  BY <1>1, <1>5, CrashLists DEF Forgotten, Brings
<1>6. ASSUME NEW r \in Sessions, Check(r) PROVE Forgotten(s, t)'
  BY <1>2, <1>6, CheckLists
<1> QED BY <1>2, <1>3, <1>4, <1>5, <1>6, ListSteps DEF ListsAlone, ReadFile, ReadNothing

-----------------------------------------------------------------------------
(* A task that has fired.                                                  *)

\* An operation for a task that has fired.
Follows(j) == j.op \in {"fire", "mark"}

\* What an operation follows up is in flight, and followed up by no other.
InFlightFits ==
  /\ \A j \in jobs : Follows(j) => j.ids \subseteq inFlight[j.session]
  /\ \A j \in jobs : j.op = "mark" => j.ids \subseteq Recurring
  /\ \A j, k \in jobs : Follows(j) /\ Follows(k) /\ j.session = k.session /\ j.ids \cap k.ids # {}
                          => j = k

\* Only an owner has fired anything, and none before it was created.
FiredFits ==
  \A s \in Sessions, t \in Tasks : fired[s][t] # {} =>
    /\ t \in Born /\ fired[s][t] \subseteq 0 .. now
    /\ mode[s] = "stopped" \/ (Live(s) /\ owner[s])

\* The removal of a task that session s has fired is under way.
Removal(s, t) == \E j \in jobs : j.op = "fire" /\ j.session = s /\ t \in j.ids

\* The next fire of t in session s is later than now.
Later(s, t) == t \in DOMAIN nextFire[s] /\ nextFire[s][t] > now

Spent(s, t) ==
  /\ t \in retired[s] => Gone(t) \/ Removal(s, t)
  /\ t \notin Recurring /\ fired[s][t] # {} => t \in retired[s]
  /\ t \in Recurring /\ now \in fired[s][t] => t \in retired[s] \/ Later(s, t) \/ Forgotten(s, t)

FiredOnce == \A s \in Sessions, t \in Tasks : Spent(s, t)

\* What is gone, and what is forgotten, stays so.
Onward == GoneStays /\ \A s \in Sessions : \A t : Forgotten(s, t) => Forgotten(s, t)'

-----------------------------------------------------------------------------

LEMMA InFlightAlone ==
  ASSUME FileInv, InFlightFits, inFlight' = inFlight,
         \A k \in jobs' : k \in jobs \/ ~Follows(k)
  PROVE  InFlightFits'
BY DEF InFlightFits, Follows

LEMMA InFlightMoves ==
  ASSUME InFlightFits, NEW j \in jobs, NEW k, MoveJob(j, k), SameTask(j, k), inFlight' = inFlight
  PROVE  InFlightFits'
BY DEF InFlightFits, Follows, MoveJob, SameTask

LEMMA InFlightFinish ==
  ASSUME FileInv, InFlightFits, NEW j \in jobs, Finish(j)
  PROVE  InFlightFits'
<1>1. /\ j.session \in Sessions /\ inFlight \in [Sessions -> SUBSET Tasks] /\ jobs' = jobs \ {j}
      /\ \A k \in jobs : k.session \in Sessions
  BY DEF FileInv, JobTyped, Finish
<1>2. CASE Follows(j)
  <2>1. inFlight' = [inFlight EXCEPT ![j.session] = @ \ j.ids]
    BY <1>2 DEF Finish, Follows
  <2>2. ASSUME NEW k \in jobs', Follows(k) PROVE k.ids \subseteq inFlight'[k.session]
    BY <1>1, <1>2, <2>1, <2>2 DEF InFlightFits
  <2> QED BY <1>1, <2>2 DEF InFlightFits
<1>3. CASE ~Follows(j)
  BY <1>1, <1>3 DEF InFlightFits, Finish, Follows
<1> QED BY <1>2, <1>3

\* What a tick of check schedules.
CheckJobs(s) == {Job(s, "fire", {t}) : t \in DueTasks(s) \ Again(s)}
                  \cup IF Again(s) = {} THEN {} ELSE {Job(s, "mark", Again(s))}

LEMMA CheckJobsAre ==
  ASSUME NEW s \in Sessions, FileSafe, NEW k \in CheckJobs(s)
  PROVE  /\ k.session = s /\ Follows(k) /\ k.ids \subseteq DueTasks(s)
         /\ k.op = "mark" => k.ids = Again(s)
         /\ k.op = "fire" => \E t \in DueTasks(s) \ Again(s) : k = Job(s, "fire", {t}) /\ k.ids = {t}
BY DueBorn DEF CheckJobs, Follows, Job

LEMMA InFlightCheck ==
  ASSUME FileInv, FileSafe, InFlightFits, NEW s \in Sessions, Check(s)
  PROVE  InFlightFits'
<1>1. /\ inFlight \in [Sessions -> SUBSET Tasks] /\ \A k \in jobs : k.session \in Sessions
      /\ jobs' = jobs \cup CheckJobs(s) /\ inFlight' = [inFlight EXCEPT ![s] = @ \cup DueTasks(s)]
  BY DEF FileInv, JobTyped, Check, CheckJobs
<1>2. DueTasks(s) \cap inFlight[s] = {} /\ Again(s) \subseteq Recurring
  BY DEF DueTasks, Idle, Again
<1>3. \A k \in jobs' : Follows(k) => k.ids \subseteq inFlight'[k.session]
  BY <1>1, CheckJobsAre DEF InFlightFits
<1>4. \A k \in jobs' : k.op = "mark" => k.ids \subseteq Recurring
  BY <1>1, <1>2, CheckJobsAre DEF InFlightFits
<1>5. ASSUME NEW j \in jobs, NEW k \in CheckJobs(s), Follows(j), j.session = s
      PROVE  j.ids \cap k.ids = {}
  BY <1>2, <1>5, CheckJobsAre DEF InFlightFits
<1>6. ASSUME NEW j \in CheckJobs(s), NEW k \in CheckJobs(s), j.ids \cap k.ids # {}
      PROVE  j = k
  <2>1. CASE j.op = "fire" /\ k.op = "fire"
    <3>1. PICK t \in DueTasks(s) \ Again(s) : j = Job(s, "fire", {t}) /\ j.ids = {t}
      BY <2>1, CheckJobsAre
    <3>2. PICK u \in DueTasks(s) \ Again(s) : k = Job(s, "fire", {u}) /\ k.ids = {u}
      BY <2>1, CheckJobsAre
    <3>3. t = u
      BY <1>6, <3>1, <3>2
    <3> QED BY <3>1, <3>2, <3>3
  <2>2. CASE j.op = "mark" /\ k.op = "mark"
    <3>1. j = Job(s, "mark", Again(s)) /\ k = Job(s, "mark", Again(s))
      BY <2>2 DEF CheckJobs, Job
    <3> QED BY <3>1
  <2>3. CASE j.op # k.op
    <3>1. ASSUME NEW i \in CheckJobs(s), NEW m \in CheckJobs(s), i.op = "fire", m.op = "mark"
          PROVE  i.ids \cap m.ids = {}
      <4>1. m.ids = Again(s)
        BY <3>1, CheckJobsAre
      <4>2. PICK t \in DueTasks(s) \ Again(s) : i = Job(s, "fire", {t}) /\ i.ids = {t}
        BY <3>1, CheckJobsAre
      <4> QED BY <4>1, <4>2
    <3>2. {j.op, k.op} = {"fire", "mark"}
      BY <2>3, CheckJobsAre DEF Follows
    <3> QED BY <1>6, <3>1, <3>2
  <2> QED BY <2>1, <2>2, <2>3, CheckJobsAre DEF Follows
<1>7. \A j, k \in jobs' : Follows(j) /\ Follows(k) /\ j.session = k.session /\ j.ids \cap k.ids # {}
                            => j = k
  BY <1>1, <1>5, <1>6, CheckJobsAre DEF InFlightFits
<1> QED BY <1>3, <1>4, <1>7 DEF InFlightFits

LEMMA InFlightCrash ==
  ASSUME FileInv, InFlightFits, NEW s \in Sessions, Crash(s)
  PROVE  InFlightFits'
<1>1. /\ inFlight \in [Sessions -> SUBSET Tasks] /\ \A k \in jobs : k.session \in Sessions
      /\ jobs' = {j \in jobs : j.session # s} /\ inFlight' = [inFlight EXCEPT ![s] = {}]
  BY DEF FileInv, JobTyped, Crash, JobsOf
<1> QED BY <1>1 DEF InFlightFits

LEMMA NoFollow ==
  \A s, ids, op : op \notin {"fire", "mark"} => ~Follows(Job(s, op, ids))
BY DEF Follows, Job

LEMMA InFlightKept ==
  ASSUME FileInv, FileSafe, InFlightFits, [Next]_vars
  PROVE  InFlightFits'
<1>1. ASSUME NEW j \in jobs, ReadFile(j) \/ ReadNothing(j) \/ Truncate(j) PROVE InFlightFits'
  <2>1. \E k : MoveJob(j, k) /\ SameTask(j, k)
    BY <1>1, ReadMoves, TruncateMoves DEF ReadFile, ReadNothing
  <2>2. inFlight' = inFlight
    BY <1>1 DEF HasRead, ReadFile, ReadNothing, Truncate
  <2> QED BY <2>1, <2>2, InFlightMoves
<1>2. ASSUME NEW j \in jobs, LandLoad(j) PROVE InFlightFits'
  BY <1>2, NoFollow, InFlightAlone DEF LandLoad
<1>3. ASSUME NEW j \in jobs, LandWrite(j) \/ Fail(j) PROVE InFlightFits'
  BY <1>3, InFlightFinish DEF LandWrite, Fail
<1>4. ASSUME NEW s \in Sessions, Start(s) \/ Probe(s) \/ WatcherReady(s) \/ Stop(s)
             \/ (LockAction(s) /\ UNCHANGED cronVars)
      PROVE InFlightFits'
  BY <1>4, InFlightAlone DEF Start, Probe, WatcherReady, Stop, cronVars
<1>5. ASSUME NEW s \in Sessions, Acquired(s) \/ Reload(s) PROVE InFlightFits'
  BY <1>5, NoFollow, InFlightAlone DEF Acquired, Reload
<1>6. ASSUME NEW s \in Sessions, NEW t \in Tasks, CronDelete(s, t) \/ CronCreate(s, t)
      PROVE  InFlightFits'
  BY <1>6, NoFollow, InFlightAlone DEF CronDelete, CronCreate
<1>7. CASE Tick \/ UNCHANGED vars
  BY <1>7, InFlightAlone DEF Tick, vars, cronVars
<1> QED
  BY <1>1, <1>2, <1>3, <1>4, <1>5, <1>6, <1>7, InFlightCheck, InFlightCrash
  DEF Next, JobStep, SchedulerStep

\* Only a tick of check fires a task, and only one that is due.
LEMMA FiresIsCheck ==
  ASSUME FileInv, [Next]_vars, NEW s \in Sessions, NEW t, Fires(s, t)
  PROVE  Check(s) /\ t \in DueTasks(s)
<1>1. inFlight \in [Sessions -> SUBSET Tasks] /\ inFlight' # inFlight
  BY DEF FileInv, Fires
<1>2. ASSUME NEW j \in jobs, JobStep(j) PROVE FALSE
  <2>1. Finish(j)
    BY <1>1, <1>2
    DEF JobStep, HasRead, ReadFile, ReadNothing, LandLoad, Truncate, LandWrite, Fail
  <2> QED BY <1>1, <2>1 DEF Finish, Fires
<1>3. ASSUME NEW r \in Sessions, Crash(r) PROVE FALSE
  BY <1>1, <1>3 DEF Crash, Fires
<1>4. ASSUME NEW r \in Sessions, Check(r) PROVE Check(s) /\ t \in DueTasks(s)
  BY <1>1, <1>4 DEF Check, Fires
<1>5. CASE Tick \/ UNCHANGED vars
  BY <1>1, <1>5 DEF Tick, vars, cronVars
<1>6. ASSUME NEW r \in Sessions, Start(r) \/ Stop(r) \/ Acquired(r) \/ Probe(r) \/ WatcherReady(r)
             \/ Reload(r) \/ (LockAction(r) /\ UNCHANGED cronVars)
      PROVE  FALSE
  BY <1>1, <1>6 DEF Start, Stop, Acquired, Probe, WatcherReady, Reload, cronVars
<1>7. ASSUME NEW r \in Sessions, NEW u \in Tasks, CronDelete(r, u) \/ CronCreate(r, u) PROVE FALSE
  BY <1>1, <1>7 DEF CronDelete, CronCreate
<1> QED BY <1>2, <1>3, <1>4, <1>5, <1>6, <1>7 DEF Next, SchedulerStep

-----------------------------------------------------------------------------
(* It is spent: gone, being removed, or next due at a later time.          *)

LEMMA FiredKept ==
  ASSUME CronInv, FileSafe, OneLoad, FiredFits, [Next]_vars
  PROVE  FiredFits'
<1>1. /\ Born \subseteq Born' /\ FileInv /\ OwnerIdle /\ mode \in [Sessions -> Mode]
      /\ owner \in [Sessions -> BOOLEAN] /\ fired \in [Sessions -> [Tasks -> SUBSET Time]]
  BY FilesSafe DEF CronInv, LockInv, FileInv
<1>2. ASSUME fired' = fired, UNCHANGED <<now, mode, owner>> PROVE FiredFits'
  BY <1>1, <1>2 DEF FiredFits, Live
<1>3. CASE Tick
  <2>1. 0 .. now \subseteq 0 .. now' /\ UNCHANGED <<fired, mode, owner>>
    BY <1>1, <1>3, BoundsAssumption DEF Tick, FileInv, Time
  <2> QED BY <1>1, <2>1 DEF FiredFits, Live
<1>4. ASSUME NEW s \in Sessions, Check(s) PROVE FiredFits'
  <2>1. /\ \A r \in Sessions, t \in Tasks :
             fired'[r][t] = IF r = s /\ t \in DueTasks(s) THEN fired[r][t] \cup {now} ELSE fired[r][t]
        /\ UNCHANGED <<now, mode, owner>> /\ Live(s)
    BY <1>1, <1>4 DEF Check
  <2>2. DueTasks(s) \subseteq Born /\ (DueTasks(s) # {} => owner[s])
    BY DueBorn DEF DueTasks, Idle
  <2>3. now \in 0 .. now
    BY DEF CronInv, FileInv, Time
  <2>4. ASSUME NEW r \in Sessions, NEW t \in Tasks, fired'[r][t] # {}
        PROVE  /\ t \in Born /\ fired'[r][t] \subseteq 0 .. now
               /\ mode[r] = "stopped" \/ (Live(r) /\ owner[r])
    <3>1. CASE r = s /\ t \in DueTasks(s)
      <4>1. fired[r][t] \subseteq 0 .. now
        BY DEF FiredFits
      <4> QED BY <2>1, <2>2, <2>3, <3>1, <4>1
    <3>2. CASE ~(r = s /\ t \in DueTasks(s))
      <4>1. fired'[r][t] = fired[r][t]
        BY <2>1, <3>2
      <4> QED BY <2>4, <4>1 DEF FiredFits
    <3> QED BY <3>1, <3>2
  <2> QED BY <1>1, <2>1, <2>4 DEF FiredFits, Live
<1>5. ASSUME NEW s \in Sessions, Crash(s) PROVE FiredFits'
  <2>1. /\ \A t \in Tasks : fired'[s][t] = {}
        /\ \A r \in Sessions \ {s} : fired'[r] = fired[r] /\ mode'[r] = mode[r] /\ owner'[r] = owner[r]
        /\ now' = now
    BY <1>1, <1>5 DEF Crash
  <2> QED BY <1>1, <2>1 DEF FiredFits, Live
<1>6. ASSUME NEW s \in Sessions, Start(s) \/ Stop(s) PROVE FiredFits'
  BY <1>1, <1>6 DEF FiredFits, Live, Start, Stop
<1>7. ASSUME NEW s \in Sessions, Acquired(s) PROVE FiredFits'
  <2>1. ~owner[s] /\ UNCHANGED <<now, fired>>
    BY <1>1, <1>7 DEF OwnerIdle, Acquired
  <2>2. \A t \in Tasks : fired[s][t] # {} => mode[s] = "stopped"
    BY <2>1 DEF FiredFits
  <2>3. mode[s] = "stopped" => mode'[s] = "stopped"
    BY <1>1, <1>7 DEF Acquired
  <2>4. \A r \in Sessions \ {s} : mode'[r] = mode[r] /\ owner'[r] = owner[r]
    BY <1>1, <1>7 DEF Acquired
  <2> QED BY <1>1, <2>1, <2>2, <2>3, <2>4 DEF FiredFits, Live
<1>8. ASSUME NEW s \in Sessions, Probe(s) \/ WatcherReady(s) \/ Reload(s)
             \/ (LockAction(s) /\ UNCHANGED cronVars)
      PROVE  FiredFits'
  BY <1>2, <1>8 DEF Probe, WatcherReady, Reload, cronVars, OneLoad
<1>9. ASSUME NEW j \in jobs, JobStep(j) PROVE FiredFits'
  BY <1>2, <1>9
  DEF JobStep, HasRead, ReadFile, ReadNothing, LandLoad, Truncate, LandWrite, Fail
<1>10. ASSUME NEW s \in Sessions, NEW t \in Tasks, CronDelete(s, t) \/ CronCreate(s, t)
      PROVE  FiredFits'
  BY <1>2, <1>10 DEF CronDelete, CronCreate
<1>11. CASE UNCHANGED vars
  BY <1>2, <1>11 DEF vars, cronVars
<1> QED
  BY <1>3, <1>4, <1>5, <1>6, <1>7, <1>8, <1>9, <1>10, <1>11 DEF Next, SchedulerStep

\* The lists go on to fit: a load that reads a file at rest finds what it does not find gone.
LEMMA ListsKept ==
  ASSUME FileInv, FileSafe, OneLoad, FiredFits, ListsFit, Onward, ~Mishap', [Next]_vars
  PROVE  ListsFit'
<1>1. \A s \in Sessions, t \in Tasks : t \in DOMAIN loaded[s] \/ fired[s][t] # {} => t \in Born
  BY DEF FileSafe, BornFirst, FiredFits
<1>2. \A s \in Sessions, t \in Tasks :
        fired[s][t] # {} /\ t \notin DOMAIN loaded[s] => Forgotten(s, t)'
  BY DEF ListsFit, Onward
<1>3. CASE ListsAlone
  BY <1>2, <1>3 DEF ListsAlone, ListsFit, Brings, Onward, GoneStays
<1>4. ASSUME NEW j \in jobs, ReadFile(j) PROVE ListsFit'
  <2>1. HasRead(j, file) /\ ~Unsettled /\ UNCHANGED <<loaded, fired>>
    BY <1>4 DEF ReadFile, HasRead, Mishap
  <2>2. PICK k : MoveJob(j, k) /\ k.snap = file
    BY <2>1, ReadMoves
  <2>3. \A t \in Born : t \notin DOMAIN file => Gone(t)
    BY <2>1 DEF Gone, Unsettled
  <2> QED BY <1>1, <1>2, <2>1, <2>2, <2>3 DEF ListsFit, Brings, MoveJob, Onward, GoneStays
<1>5. ASSUME NEW j \in jobs, ReadNothing(j) PROVE FALSE
  BY <1>5, MishapStays
<1>6. ASSUME NEW j \in jobs, LandLoad(j) PROVE ListsFit'
  <2> DEFINE r == j.session
  <2>1. /\ Brings(j, r) /\ r \in Sessions /\ fired' = fired
        /\ \A k \in jobs' : Loads(k) => k \in jobs /\ k.session # r
        /\ \A s \in Sessions : s # r => loaded'[s] = loaded[s]
        /\ loaded'[r] = IF Live(r) THEN j.snap ELSE loaded[r]
    BY <1>6, LandBrings
  <2> HIDE DEF r
  <2>2. ASSUME NEW s \in Sessions, NEW t \in Tasks,
               t \in DOMAIN loaded'[s] \/ fired[s][t] # {},
               NEW k \in jobs', Brings(k, s), t \notin DOMAIN k.snap
        PROVE  Gone(t)'
    <3>1. k \in jobs /\ s # r /\ loaded'[s] = loaded[s]
      BY <2>1, <2>2 DEF Brings
    <3> QED BY <2>2, <3>1 DEF ListsFit, Onward, GoneStays
  <2>3. ASSUME NEW s \in Sessions, NEW t \in Tasks, fired[s][t] # {}, t \notin DOMAIN loaded'[s]
        PROVE  Forgotten(s, t)'
    <3>1. CASE t \notin DOMAIN loaded[s]
      BY <1>2, <2>3, <3>1
    <3>2. CASE t \in DOMAIN loaded[s]
      <4>1. s = r /\ t \notin DOMAIN j.snap
        BY <2>1, <2>3, <3>2
      <4>2. Gone(t)'
        BY <2>1, <2>3, <4>1 DEF ListsFit, Onward, GoneStays
      <4>3. \A k \in jobs' : ~Brings(k, s)
        BY <2>1, <4>1 DEF Brings
      <4> QED BY <2>3, <4>2, <4>3 DEF Forgotten, Brings
    <3> QED BY <3>1, <3>2
  <2> QED BY <2>1, <2>2, <2>3 DEF ListsFit, Brings
<1>7. ASSUME NEW r \in Sessions, Check(r) PROVE ListsFit'
  <2>1. DueTasks(r) \subseteq DOMAIN loaded[r]
    BY DueBorn
  <2>2. /\ loaded' = loaded /\ \A k \in jobs' : Loads(k) => k \in jobs
        /\ \A s \in Sessions, t \in Tasks :
             fired'[s][t] # {} => fired[s][t] # {} \/ t \in DOMAIN loaded[s]
    BY <1>7, <2>1, CheckLists
  <2> QED BY <1>2, <2>2 DEF ListsFit, Brings, Onward, GoneStays
<1>8. ASSUME NEW r \in Sessions, Crash(r) PROVE ListsFit'
  <2>1. /\ jobs' = {j \in jobs : j.session # r} /\ loaded'[r] = Empty
        /\ \A t \in Tasks : fired'[r][t] = {}
        /\ \A s \in Sessions : s # r => loaded'[s] = loaded[s] /\ fired'[s] = fired[s]
    BY <1>8, CrashLists
  <2> QED BY <1>2, <2>1 DEF ListsFit, Brings, Onward, GoneStays
<1> QED BY <1>3, <1>4, <1>5, <1>6, <1>7, <1>8, ListSteps

\* A step that leaves what has fired, and the removals under way, alone.
LEMMA SpentAlone ==
  ASSUME Onward, FiredOnce, UNCHANGED <<fired, retired, nextFire, now>>,
         \A k \in jobs : k.op = "fire" => \E i \in jobs' : SameTask(k, i)
  PROVE  FiredOnce'
<1>1. \A s, t : Removal(s, t) => Removal(s, t)'
  BY DEF Removal, SameTask
<1> QED BY <1>1 DEF FiredOnce, Spent, Later, Onward, GoneStays

\* A tick of check: a task that it fires is retired or has its next time, and one that has
\* fired before keeps it as long as it is on the list.
LEMMA SpentCheck ==
  ASSUME CronInv, FileSafe, FiredFits, ListsFit, FiredOnce, Onward,
         NEW s \in Sessions, Check(s)
  PROVE  FiredOnce'
<1>1. /\ fired \in [Sessions -> [Tasks -> SUBSET Time]] /\ now \in Time
      /\ retired \in [Sessions -> SUBSET Tasks] /\ DOMAIN nextFire = Sessions
  BY DEF CronInv, FileInv
<1> DEFINE due == DueTasks(s)
           gone == due \ Again(s)
           seen == IF owner[s] THEN DOMAIN loaded[s] ELSE {}
           known == (seen \cap (DOMAIN nextFire[s] \cup Idle(s))) \ gone
           nf == [t \in known |-> IF t \in due THEN now + 1 ELSE NextFireOf(s, t)]
<1>2. /\ \A r \in Sessions, t \in Tasks :
           fired'[r][t] = IF r = s /\ t \in due THEN fired[r][t] \cup {now} ELSE fired[r][t]
      /\ nextFire' = [nextFire EXCEPT ![s] = nf]
      /\ now' = now /\ jobs' = jobs \cup CheckJobs(s) /\ Live(s)
      /\ retired' = [retired EXCEPT ![s] = @ \cup gone]
  BY <1>1 DEF Check, CheckJobs
<1>3. nextFire'[s] = nf /\ DOMAIN nextFire'[s] = known /\ \A r \in Sessions \ {s} : nextFire'[r] = nextFire[r]
  BY <1>1, <1>2
<1>4. \A r, t : Removal(r, t) => Removal(r, t)'
  BY <1>2 DEF Removal
<1>5. retired'[s] = retired[s] \cup gone /\ \A r \in Sessions \ {s} : retired'[r] = retired[r]
  BY <1>1, <1>2
<1>6. ASSUME NEW r \in Sessions \ {s}, NEW t \in Tasks PROVE Spent(r, t)'
  <2>1. /\ fired'[r][t] = fired[r][t] /\ nextFire'[r] = nextFire[r] /\ now' = now /\ Spent(r, t)
        /\ retired'[r] = retired[r]
    BY <1>2, <1>3, <1>5, <1>6 DEF FiredOnce
  <2>2. Later(r, t) => Later(r, t)'
    BY <2>1 DEF Later
  <2> QED BY <1>4, <2>1, <2>2 DEF Spent, Onward, GoneStays
<1>7. ASSUME NEW t \in gone PROVE Removal(s, t)'
  <2>1. Job(s, "fire", {t}) \in jobs'
    BY <1>2, <1>7 DEF CheckJobs
  <2> QED BY <2>1 DEF Removal, Job
<1>8. due \subseteq Idle(s) /\ Idle(s) \subseteq seen /\ Again(s) \subseteq due /\ Again(s) \subseteq Recurring
  BY DEF DueTasks, Idle, Again
<1>9. ASSUME NEW t \in Again(s) PROVE Later(s, t)'
  <2>1. t \in known /\ t \in due
    BY <1>8, <1>9
  <2>2. nextFire'[s][t] = now + 1 /\ t \in DOMAIN nextFire'[s]
    BY <1>3, <2>1
  <2>3. now + 1 > now
    BY <1>1, BoundsAssumption DEF Time
  <2> QED BY <1>2, <2>2, <2>3 DEF Later
<1>10. ASSUME NEW t \in Tasks, t \notin due, fired[s][t] # {}, Later(s, t)
       PROVE  Later(s, t)' \/ Forgotten(s, t)'
  <2>1. owner[s]
    BY <1>2, <1>10 DEF FiredFits, Live
  <2>2. CASE t \notin DOMAIN loaded[s]
    BY <1>10, <2>2 DEF ListsFit, Onward
  <2>3. CASE t \in DOMAIN loaded[s]
    <3>1. t \in known /\ NextFireOf(s, t) = nextFire[s][t]
      BY <1>10, <2>1, <2>3 DEF Later, NextFireOf
    <3> QED BY <1>2, <1>3, <1>10, <3>1 DEF Later
  <2> QED BY <2>2, <2>3
<1> HIDE DEF due, gone, known, nf, seen
<1>11. \A t \in due : t \in gone \/ t \in Again(s)
  BY DEF gone
<1>12. ASSUME NEW t \in Tasks PROVE Spent(s, t)'
  <2>1. t \in retired'[s] => Gone(t)' \/ Removal(s, t)'
    BY <1>4, <1>5, <1>7 DEF FiredOnce, Spent, Onward, GoneStays
  <2>2. CASE t \in due
    BY <1>5, <1>8, <1>9, <1>11, <2>1, <2>2 DEF Spent
  <2>3. CASE t \notin due
    <3>1. fired'[s][t] = fired[s][t] /\ Spent(s, t)
      BY <1>2, <2>3 DEF FiredOnce
    <3>2. now \in fired[s][t] => fired[s][t] # {}
      OBVIOUS
    <3> QED BY <1>2, <1>5, <1>10, <2>1, <2>3, <3>1, <3>2 DEF Spent, Onward
  <2> QED BY <2>2, <2>3
<1> QED BY <1>6, <1>12 DEF FiredOnce

LEMMA SpentLoad ==
  ASSUME FileInv, FiredOnce, Onward, NEW j \in jobs, LandLoad(j)
  PROVE  FiredOnce'
<1>1. /\ UNCHANGED <<fired, retired, now>> /\ Loads(j) /\ jobs \ {j} \subseteq jobs'
      /\ j.session \in Sessions /\ DOMAIN nextFire = Sessions
  BY DEF LandLoad, FileInv, JobTyped
<1>2. \A r, t : Removal(r, t) => Removal(r, t)'
  BY <1>1 DEF Removal, Loads
<1>3. ASSUME NEW r \in Sessions, NEW t \in Recurring, Later(r, t) PROVE Later(r, t)'
  <2>1. CASE nextFire'[r] = nextFire[r]
    BY <1>1, <1>3, <2>1 DEF Later
  <2>2. CASE nextFire'[r] = HeldBack(Missed(j), nextFire[r])
    <3>1. t \notin Missed(j)
      BY DEF Missed
    <3> QED BY <1>1, <1>3, <2>2, <3>1 DEF Later, HeldBack
  <2> QED BY <1>1, <2>1, <2>2 DEF LandLoad
<1> QED BY <1>1, <1>2, <1>3 DEF FiredOnce, Spent, Onward, GoneStays

LEMMA SpentCrash ==
  ASSUME FileInv, FiredOnce, Onward, NEW s \in Sessions, Crash(s)
  PROVE  FiredOnce'
<1>1. /\ \A t \in Tasks : fired'[s][t] = {} /\ t \notin retired'[s]
      /\ \A r \in Sessions \ {s} : /\ fired'[r] = fired[r] /\ nextFire'[r] = nextFire[r]
                                   /\ retired'[r] = retired[r]
      /\ now' = now /\ jobs' = {j \in jobs : j.session # s}
  BY DEF Crash, FileInv, JobsOf
<1>2. \A r \in Sessions \ {s} : \A t : Removal(r, t) => Removal(r, t)'
  BY <1>1 DEF Removal
<1> QED BY <1>1, <1>2 DEF FiredOnce, Spent, Later, Onward, GoneStays

LEMMA SpentKept ==
  ASSUME CronInv, FileSafe, NoneBack, FiredFits, ListsFit, FiredOnce, Onward,
         [Next]_vars, ~Mishap'
  PROVE  FiredOnce'
<1>1. FileInv /\ ~clobbered
  BY FilesSafe DEF CronInv, Mishap
<1>2. ASSUME NEW j \in jobs, ReadFile(j) \/ Truncate(j) PROVE FiredOnce'
  <2>1. PICK k : MoveJob(j, k) /\ SameTask(j, k)
    BY <1>1, <1>2, ReadMoves, TruncateMoves DEF ReadFile
  <2>2. \A i \in jobs : \E k1 \in jobs' : SameTask(i, k1)
    BY <2>1 DEF MoveJob, SameTask
  <2> QED BY <1>2, <2>2, SpentAlone DEF ReadFile, HasRead, Truncate
<1>3. ASSUME NEW j \in jobs, LandWrite(j) PROVE FiredOnce'
  <2>1. jobs' = jobs \ {j} /\ UNCHANGED <<fired, retired, nextFire, now>>
    BY <1>3 DEF LandWrite, Finish
  <2>2. ASSUME NEW s, NEW t, Removal(s, t) PROVE Gone(t)' \/ Removal(s, t)'
    <3>1. PICK k \in jobs : k.op = "fire" /\ k.session = s /\ t \in k.ids
      BY <2>2 DEF Removal
    <3>2. CASE k = j
      <4>1. Gone(t)
        BY <1>1, <1>3, <3>1, <3>2, LandRemoves DEF Removes
      <4> QED BY <4>1 DEF Onward, GoneStays
    <3>3. CASE k # j
      BY <2>1, <3>1, <3>3 DEF Removal
    <3> QED BY <3>2, <3>3
  <2> QED BY <2>1, <2>2 DEF FiredOnce, Spent, Later, Onward, GoneStays
<1>4. ASSUME NEW j \in jobs, ReadNothing(j) \/ Fail(j) PROVE FALSE
  BY <1>1, <1>4, MishapStays
<1>5. ASSUME UNCHANGED <<fired, retired, nextFire, now>>, jobs \subseteq jobs' PROVE FiredOnce'
  <2>1. \A k \in jobs : k.op = "fire" => \E i \in jobs' : SameTask(k, i)
    BY <1>5 DEF SameTask
  <2> QED BY <1>5, <2>1, SpentAlone
<1>6. CASE Tick
  <2>1. now' \notin 0 .. now /\ UNCHANGED <<fired, retired, jobs>>
    BY <1>1, <1>6, BoundsAssumption DEF Tick, FileInv, Time
  <2>2. \A s \in Sessions, t \in Tasks : now' \notin fired[s][t]
    BY <2>1 DEF FiredFits
  <2>3. \A s, t : Removal(s, t) => Removal(s, t)'
    BY <2>1 DEF Removal
  <2> QED BY <2>1, <2>2, <2>3 DEF FiredOnce, Spent, Onward, GoneStays
<1>7. ASSUME NEW s \in Sessions,
             Start(s) \/ Stop(s) \/ Acquired(s) \/ Probe(s) \/ WatcherReady(s) \/ Reload(s)
             \/ (LockAction(s) /\ UNCHANGED cronVars)
      PROVE  FiredOnce'
  BY <1>5, <1>7 DEF Start, Stop, Acquired, Probe, WatcherReady, Reload, cronVars
<1>8. ASSUME NEW s \in Sessions, NEW t \in Tasks, CronDelete(s, t) \/ CronCreate(s, t)
      PROVE  FiredOnce'
  BY <1>5, <1>8 DEF CronDelete, CronCreate
<1>9. CASE UNCHANGED vars
  BY <1>5, <1>9 DEF vars, cronVars
<1> QED
  BY <1>1, <1>2, <1>3, <1>4, <1>6, <1>7, <1>8, <1>9, SpentCheck, SpentLoad, SpentCrash
  DEF Next, JobStep, SchedulerStep

-----------------------------------------------------------------------------
(* All of it together: a process fires a task once.                        *)

\* As long as there has been no mishap.
CalmInv == NoneBack /\ LoadsFit /\ ListsFit /\ FiredOnce

FiringInv ==
  /\ CronInv /\ FileSafe /\ OneLoad /\ InFlightFits /\ FiredFits
  /\ Mishap \/ CalmInv

LEMMA FiringInit == Init => FiringInv
<1> SUFFICES ASSUME Init PROVE FiringInv
  OBVIOUS
<1>1. FileSafe
  BY TasksAssumption, EmptyIsContents DEF Init, FileSafe, BornFirst, AddedOnce, WritersWrite, Born
<1>2. OneLoad /\ LoadsFit
  BY DEF Init, OneLoad, LoadsFit
<1>3. InFlightFits /\ FiredFits /\ FiredOnce
  BY DEF Init, InFlightFits, FiredFits, FiredOnce, Spent
<1>4. NoneBack
  BY DEF Init, NoneBack, Apart, RemovedIsGone, DeletedIsGone
<1>5. ListsFit
  BY DEF Init, ListsFit
<1> QED BY <1>1, <1>2, <1>3, <1>4, <1>5, CronInit DEF FiringInv, CalmInv

LEMMA FiringStep ==
  ASSUME Timely, FiringInv, [Next]_vars
  PROVE  FiringInv'
<1>1. CronInv' /\ FileInv
  BY LockKept, FilesKept DEF FiringInv, CronInv
<1>2. FileSafe' /\ LoadsGoOn /\ InFlightFits' /\ FiredFits'
  BY <1>1, FilesSafe, LoadsKept, InFlightKept, FiredKept DEF FiringInv
<1>3. ASSUME ~Mishap' PROVE CalmInv'
  <2>1. NoneBack /\ LoadsFit /\ ListsFit /\ FiredOnce
    BY <1>1, <1>3, MishapStays DEF FiringInv, CalmInv
  <2>2. NoneBack' /\ GoneStays
    BY <1>1, <1>3, <2>1, FilesSafe DEF FiringInv
  <2>3. Onward
    BY <1>1, <2>2, ForgottenStays DEF Onward, FiringInv
  <2>4. ListsFit' /\ FiredOnce'
    BY <1>1, <1>3, <2>1, <2>3, ListsKept, SpentKept DEF FiringInv
  <2> QED BY <1>2, <1>3, <2>1, <2>2, <2>4 DEF LoadsGoOn, CalmInv
<1> QED BY <1>1, <1>2, <1>3 DEF LoadsGoOn, FiringInv

LEMMA FiresOnceStep ==
  ASSUME Timely, FiringInv, [Next]_vars, NEW s \in Sessions, NEW t \in Tasks, Fires(s, t)
  PROVE  Mishap \/ IF t \in Recurring THEN now \notin fired[s][t] ELSE fired[s][t] = {}
<1> SUFFICES ASSUME ~Mishap
             PROVE  IF t \in Recurring THEN now \notin fired[s][t] ELSE fired[s][t] = {}
  OBVIOUS
<1>1. Check(s) /\ t \in DueTasks(s)
  BY FiresIsCheck DEF FiringInv, CronInv
<1>2. t \in Idle(s) /\ t \in DOMAIN loaded[s] /\ t \notin inFlight[s]
  BY <1>1 DEF DueTasks, Idle
<1>3. t \in retired[s] => ~Gone(t)
  BY <1>1, <1>2 DEF Check, RetiredLoaded, Gone
<1>4. ~Removal(s, t)
  BY <1>2 DEF Removal, FiringInv, InFlightFits, Follows
<1>5. ~Later(s, t)
  <2>1. now >= NextFireOf(s, t) /\ now \in Nat
    BY <1>1, BoundsAssumption DEF DueTasks, FiringInv, CronInv, FileInv, Time
  <2>2. \A r \in Sessions : nextFire[r] \in [DOMAIN nextFire[r] -> 0 .. Never]
    BY DEF FiringInv, CronInv, FileInv
  <2> QED BY <2>1, <2>2, BoundsAssumption DEF Later, NextFireOf, Never
<1>6. ~Forgotten(s, t)
  BY <1>2 DEF Forgotten
<1>7. Spent(s, t)
  BY DEF FiringInv, CalmInv, FiredOnce
<1> QED BY <1>3, <1>4, <1>5, <1>6, <1>7 DEF Spent

\* FiresOnceUnlessClobbered: in any number of sessions, a process fires a one-shot task
\* once and a recurring task once for one round, although removing and stamping it are
\* operations that take their time while the ticks go on.  (inFlight of check)
THEOREM FiresOnce == Timely => (Spec => FiresOnceUnlessClobbered)
<1> SUFFICES ASSUME Timely PROVE Spec => FiresOnceUnlessClobbered
  OBVIOUS
<1>1. FiringInv /\ [Next]_vars => FiringInv'
  BY FiringStep
<1>2. FiringInv /\ [Next]_vars =>
        \A s \in Sessions, t \in Tasks : Fires(s, t) =>
           \/ Mishap
           \/ IF t \in Recurring THEN now \notin fired[s][t] ELSE fired[s][t] = {}
  BY FiresOnceStep
<1> QED BY <1>1, <1>2, FiringInit, PTL DEF Spec, FiresOnceUnlessClobbered

\* A task the user has deleted is not on the list of a session that has caught up.
LEMMA DeletedStep ==
  ASSUME Timely, FiringInv, [Next]_vars, NEW s \in Sessions, NEW t \in deleted, Fires(s, t),
         UpToDate(s)
  PROVE  Mishap
<1>1. t \in DOMAIN loaded[s]
  BY FiresIsCheck DEF FiringInv, CronInv, DueTasks, Idle
<1> QED BY <1>1, UpToDateSees DEF FiringInv, CalmInv, NoneBack, DeletedIsGone, Gone

\* A task the user has deleted fires in no session that has loaded the file since the
\* deletion has landed, unless there was a mishap.  (removeCronTasks, load)
THEOREM DeletedNeverFire ==
  Timely => (Spec => [][\A s \in Sessions, t \in deleted :
                          Fires(s, t) /\ UpToDate(s) => Mishap]_vars)
<1> SUFFICES ASSUME Timely
             PROVE  Spec => [][\A s \in Sessions, t \in deleted :
                                 Fires(s, t) /\ UpToDate(s) => Mishap]_vars
  OBVIOUS
<1>1. FiringInv /\ [Next]_vars => FiringInv'
  BY FiringStep
<1>2. FiringInv /\ [Next]_vars =>
        \A s \in Sessions, t \in deleted : Fires(s, t) /\ UpToDate(s) => Mishap
  BY DeletedStep
<1> QED BY <1>1, <1>2, FiringInit, PTL DEF Spec

-----------------------------------------------------------------------------
(* One session: what it has asked about waits for the answer.              *)

OneSession == \A r, s \in Sessions : r = s

\* Whoever runs is the owner.
AlwaysOwner ==
  \A s \in Sessions : /\ pc[s] # "lost" /\ (pc[s] = "recreate" => lock = None)
                      /\ Live(s) => owner[s]

\* A session that is alone always gets the lock, so one that runs is the owner.
LEMMA OwnerKept ==
  ASSUME OneSession, CronInv, OneLoad, AlwaysOwner, [Next]_vars
  PROVE  AlwaysOwner'
<1>1. /\ pc \in [Sessions -> LockStep] /\ mode \in [Sessions -> Mode]
      /\ owner \in [Sessions -> BOOLEAN] /\ (lock # None => lock.session \in Sessions)
  BY DEF CronInv, LockInv, LockTypeOK
<1>2. ASSUME UNCHANGED <<mode, owner, lockVars>> PROVE AlwaysOwner'
  BY <1>2 DEF AlwaysOwner, lockVars, Live
<1>3. ASSUME NEW s \in Sessions, LockAction(s), UNCHANGED cronVars PROVE AlwaysOwner'
  <2>1. UNCHANGED <<mode, owner>> /\ \A r \in Sessions : r = s
    BY <1>3 DEF cronVars, OneSession
  <2>2. Verdict(s) \notin {"lost", "recreate"}
    BY <1>1 DEF Verdict, OneSession
  <2>3. pc'[s] # "lost" /\ (pc'[s] = "recreate" => lock' = None)
    BY <1>1, <1>3, <2>2 DEF AlwaysOwner, LockAction, CreateLock, WriteLock, ReadLock, RewriteLock,
                       UnlinkStale, CreateAgain, ReadToRelease, UnlinkOwn, TryCreate
  <2> QED BY <2>1, <2>3 DEF AlwaysOwner, Live
<1>4. ASSUME NEW s \in Sessions, Start(s) \/ Probe(s) PROVE AlwaysOwner'
  <2>1. pc' = [pc EXCEPT ![s] = "create"] /\ owner' = owner
        /\ (mode' = mode \/ mode' = [mode EXCEPT ![s] = "acquire"]) /\ \A r \in Sessions : r = s
    BY <1>4 DEF Start, Probe, OneSession, cronVars
  <2> QED BY <1>1, <2>1 DEF AlwaysOwner, Live
<1>5. ASSUME NEW s \in Sessions, Acquired(s) PROVE AlwaysOwner'
  <2>1. pc[s] = "won" /\ \A r \in Sessions : r = s
    BY <1>5 DEF Acquired, AlwaysOwner, OneSession
  <2>2. /\ owner'[s] = (mode[s] # "stopped") /\ pc'[s] \in {"releasing", "idle"}
        /\ mode[s] = "stopped" => mode'[s] = "stopped"
    BY <1>1, <1>5, <2>1 DEF Acquired
  <2> QED BY <2>1, <2>2 DEF AlwaysOwner, Live
<1>6. ASSUME NEW s \in Sessions, Stop(s) \/ Crash(s) PROVE AlwaysOwner'
  <2>1. /\ mode'[s] \in {"stopped", "off"} /\ lock' = lock
        /\ pc'[s] \in {"releasing", "idle", pc[s]} /\ \A r \in Sessions : r = s
    BY <1>1, <1>6 DEF Stop, Crash, OneSession
  <2> QED BY <2>1 DEF AlwaysOwner, Live
<1>7. ASSUME NEW s \in Sessions, WatcherReady(s) PROVE FALSE
  BY <1>7 DEF OneLoad, WatcherReady
<1>8. ASSUME NEW s \in Sessions, Reload(s) \/ Check(s) PROVE AlwaysOwner'
  BY <1>2, <1>8 DEF Reload, Check
<1>9. ASSUME NEW j \in jobs, JobStep(j) PROVE AlwaysOwner'
  BY <1>2, <1>9
  DEF JobStep, HasRead, ReadFile, ReadNothing, LandLoad, Truncate, LandWrite, Fail
<1>10. ASSUME NEW s \in Sessions, NEW t \in Tasks, CronDelete(s, t) \/ CronCreate(s, t)
       PROVE  AlwaysOwner'
  BY <1>2, <1>10 DEF CronDelete, CronCreate
<1>11. CASE Tick \/ UNCHANGED vars
  BY <1>2, <1>11 DEF Tick, vars, cronVars
<1> QED
  BY <1>3, <1>4, <1>5, <1>6, <1>7, <1>8, <1>9, <1>10, <1>11 DEF Next, SchedulerStep

\* The contents of the file, now and as the operations have read it.
Held == {file} \cup {j.snap : j \in jobs}

\* They agree on when a task was created.
SameBirth == \A c, d \in Held : \A t \in DOMAIN c \cap DOMAIN d : c[t].created = d[t].created

\* All that is held of a task the user was asked about says that it was missed.
AskedOld ==
  \A t \in asked : t \in Born /\ \A c \in Held : t \in DOMAIN c => c[t].created + 1 < now

HeldBorn == \A c \in Held : DOMAIN c \subseteq Born

LEMMA HoldsBorn == FileSafe => HeldBorn
BY DEF FileSafe, BornFirst, HeldBorn, Held

\* What a step adds to what is held: nothing, or what an operation writes.
LEMMA HeldStep ==
  ASSUME FileInv, FileSafe, [Next]_vars
  PROVE  \/ Held' \subseteq Held \cup {Empty}
         \/ \E j \in jobs : LandWrite(j) /\ Writes(j) /\ Held' \subseteq Held \cup {Written(j)}
<1>1. CASE Quiet
  BY <1>1 DEF Quiet, NewJob, Held
<1>2. ASSUME NEW j \in jobs, ReadFile(j) \/ ReadNothing(j) \/ Truncate(j)
      PROVE  Held' \subseteq Held \cup {Empty}
  <2>1. PICK k : MoveJob(j, k) /\ (k.snap = file \/ k.snap = Empty \/ k.snap = j.snap)
    BY <1>2, ReadMoves, TruncateMoves DEF ReadFile, ReadNothing
  <2>2. file' \in {file, Empty}
    BY <1>2 DEF HasRead, ReadFile, ReadNothing, Truncate
  <2> QED BY <2>1, <2>2 DEF MoveJob, Held
<1>3. ASSUME NEW j \in jobs, LandWrite(j)
      PROVE  \/ Held' \subseteq Held
             \/ Writes(j) /\ Held' \subseteq Held \cup {Written(j)}
  BY <1>3 DEF LandWrite, Finish, Held
<1>4. ASSUME NEW s \in Sessions, NEW t \in Tasks, CronCreate(s, t)
      PROVE  Held' \subseteq Held \cup {Empty}
  <2>1. Job(s, "add", {t}).snap = Empty
    BY DEF Job
  <2> QED BY <1>4, <2>1 DEF CronCreate, Held
<1> QED BY <1>1, <1>2, <1>3, <1>4, QuietSteps

\* What an operation writes of a task is what it has read, unless it adds the task.
LEMMA WrittenBirth ==
  ASSUME FileInv, NEW j \in jobs, Writes(j), NEW t \in DOMAIN Written(j)
  PROVE  \/ j.op = "add" /\ t \in j.ids
         \/ t \in DOMAIN j.snap /\ Written(j)[t].created = j.snap[t].created
<1>1. /\ JobTyped(j) /\ j.snap \in Contents /\ ~Loads(j)
      /\ \A u \in DOMAIN j.snap : j.snap[u] \in Stamp
  BY ContentsAre DEF FileInv, JobTyped, Writes
<1>2. CASE Removes(j)
  BY <1>2 DEF Written, Restrict
<1>3. CASE ~Removes(j)
  <2>1. j.op \in {"add", "mark"}
    BY <1>1, <1>3 DEF JobTyped, Loads, Removes
  <2>2. t \in DOMAIN j.snap \/ (j.op = "add" /\ t \in j.ids)
    BY <1>3, WrittenDomain
  <2>3. CASE t \in DOMAIN j.snap /\ t \notin j.ids
    BY <1>3, <2>3 DEF Written
  <2>4. CASE t \in DOMAIN j.snap /\ t \in j.ids /\ j.op = "mark"
    <3>1. Written(j)[t] = [j.snap[t] EXCEPT !.lastFired = j.time]
      BY <1>3, <2>4 DEF Written
    <3>2. j.snap[t] \in Stamp
      BY <1>1, <2>4
    <3> QED BY <2>4, <3>1, <3>2 DEF Stamp
  <2> QED BY <2>1, <2>2, <2>3, <2>4
<1> QED BY <1>2, <1>3

LEMMA BirthsKept ==
  ASSUME FileInv, FileSafe, SameBirth, [Next]_vars
  PROVE  SameBirth'
<1>1. ASSUME Held' \subseteq Held \cup {Empty} PROVE SameBirth'
  BY <1>1, EmptyIsContents DEF SameBirth
<1>2. ASSUME NEW j \in jobs, Writes(j), Held' \subseteq Held \cup {Written(j)} PROVE SameBirth'
  <2>1. ASSUME NEW d \in Held, NEW t \in DOMAIN d \cap DOMAIN Written(j)
        PROVE  Written(j)[t].created = d[t].created
    <3>1. ~(j.op = "add" /\ t \in j.ids)
      BY <2>1, HoldsBorn DEF HeldBorn, Born
    <3>2. t \in DOMAIN j.snap /\ Written(j)[t].created = j.snap[t].created
      BY <1>2, <2>1, <3>1, WrittenBirth
    <3>3. j.snap \in Held
      BY DEF Held
    <3> QED BY <2>1, <3>2, <3>3 DEF SameBirth
  <2> DEFINE w == Written(j)
  <2> HIDE DEF w
  <2>2. \A d \in Held : \A t \in DOMAIN d \cap DOMAIN w : w[t].created = d[t].created
    BY <2>1 DEF w
  <2>3. Held' \subseteq Held \cup {w}
    BY <1>2 DEF w
  <2> QED BY <2>2, <2>3 DEF SameBirth
<1> QED BY <1>1, <1>2, HeldStep

LEMMA AskedStep ==
  ASSUME FileInv, FileSafe, SameBirth, [Next]_vars, NEW t \in asked', t \notin asked
  PROVE  \E j \in jobs : LandLoad(j) /\ Live(j.session) /\ t \in Missed(j)
<1>1. asked' # asked
  OBVIOUS
<1> QED
  BY <1>1 DEF Next, vars, cronVars, Tick, JobStep, HasRead, ReadFile, ReadNothing, LandLoad, Truncate,
         LandWrite, Fail, Start, SchedulerStep, Acquired, Probe, WatcherReady, Reload, Check, Stop,
         Crash, CronDelete, CronCreate

LEMMA NowGrows ==
  ASSUME FileInv, [Next]_vars
  PROVE  now \in Int /\ now' \in Int /\ now' >= now
<1>1. now \in Int
  BY BoundsAssumption DEF FileInv, Time
<1>2. now' = now \/ now' = now + 1
  BY DEF Next, vars, cronVars, Tick, JobStep, HasRead, ReadFile, ReadNothing, LandLoad, Truncate,
         LandWrite, Fail, Start, SchedulerStep, Acquired, Probe, WatcherReady, Reload, Check, Stop,
         Crash, CronDelete, CronCreate
<1> QED BY <1>1, <1>2

LEMMA OldKept ==
  ASSUME FileInv, FileSafe, SameBirth, AskedOld, [Next]_vars
  PROVE  AskedOld'
<1>1. Born \subseteq Born' /\ now \in Int /\ now' \in Int /\ now' >= now
  BY FilesSafe, NowGrows
<1>2. \A c \in Held : \A t \in DOMAIN c : c[t].created \in Int
  <2>1. \A c \in Held : c \in Contents
    BY DEF Held, FileInv, JobTyped
  <2>2. \A c \in Held : \A t \in DOMAIN c : c[t] \in Stamp
    BY <2>1, ContentsAre
  <2>3. \A v \in Stamp : v.created \in Int
    BY BoundsAssumption DEF Stamp, Time
  <2> QED BY <2>2, <2>3
<1>3. ASSUME NEW t \in asked' PROVE t \in Born /\ \A c \in Held : t \in DOMAIN c => c[t].created + 1 < now
  <2>1. CASE t \in asked
    BY <2>1 DEF AskedOld
  <2>2. CASE t \notin asked
    <3>1. PICK j \in jobs : t \in Missed(j)
      BY <2>2, AskedStep
    <3>2. t \in DOMAIN j.snap /\ j.snap[t].created + 1 < now
      <4>1. t \in DOMAIN j.snap /\ t \notin Recurring /\ NextRun(t, j.snap[t]) < now
        BY <3>1 DEF Missed
      <4>2. NextRun(t, j.snap[t]) = 1 + j.snap[t].created
        BY <4>1 DEF NextRun
      <4>3. j.snap \in Held
        BY DEF Held
      <4> QED BY <1>2, <4>1, <4>2, <4>3
    <3>3. j.snap \in Held /\ t \in Born
      BY <3>2, HoldsBorn DEF Held, HeldBorn
    <3> QED BY <3>2, <3>3 DEF SameBirth
  <2> QED BY <2>1, <2>2
<1>4. ASSUME NEW t \in asked', NEW c \in Held', t \in DOMAIN c
      PROVE  c[t].created + 1 < now
  <2>1. CASE c \in Held
    BY <1>3, <1>4, <2>1
  <2>2. CASE c = Empty
    BY <1>4, <2>2, EmptyIsContents
  <2>3. ASSUME NEW j \in jobs, Writes(j), c = Written(j) PROVE c[t].created + 1 < now
    <3>1. ~(j.op = "add" /\ t \in j.ids)
      BY <1>3 DEF Born
    <3>2. t \in DOMAIN j.snap /\ c[t].created = j.snap[t].created
      BY <1>4, <2>3, <3>1, WrittenBirth
    <3>3. j.snap \in Held
      BY DEF Held
    <3> QED BY <1>3, <3>2, <3>3
  <2> QED BY <2>1, <2>2, <2>3, HeldStep
<1>5. ASSUME NEW t \in asked', NEW c \in Held', t \in DOMAIN c
      PROVE  c[t].created + 1 < now'
  <2>1. c[t].created \in Int
    <3>1. c \in Contents
      <4>1. FileInv'
        BY FilesKept
      <4> QED BY <4>1 DEF Held, FileInv, JobTyped
    <3>2. c[t] \in Stamp
      BY <1>5, <3>1, ContentsAre
    <3> QED BY <3>2, BoundsAssumption DEF Stamp, Time
  <2> QED BY <1>1, <1>4, <1>5, <2>1
<1> QED BY <1>1, <1>3, <1>5 DEF AskedOld

-----------------------------------------------------------------------------
(* What the session has asked about.                                       *)

FirstLoad(s) == \E j \in jobs : j.session = s /\ j.op = "load"

NeverFires(s, t) == t \in DOMAIN nextFire[s] /\ nextFire[s][t] = Never

\* A process has nothing on its list before its first load has landed.
Fresh ==
  \A s \in Sessions : mode[s] \in {"off", "acquire"} \/ (Live(s) /\ FirstLoad(s)) =>
    DOMAIN loaded[s] = {}

\* A task the user has been asked about is kept from firing since the first load, or
\* forgotten.
AskedHeld ==
  \A t \in asked, s \in Sessions : Live(s) /\ ~FirstLoad(s) =>
    Forgotten(s, t) \/ (t \in DOMAIN loaded[s] /\ NeverFires(s, t))

\* A load that has not found it has found it gone.
LoadSaw ==
  \A j \in jobs, t \in asked : Loads(j) /\ j.stage = "land" /\ t \notin DOMAIN j.snap => Gone(t)

AskedFits == AskedHeld /\ LoadSaw

\* A step that leaves the lists alone, and whose first load is under way.
FreshAlone ==
  /\ loaded' = loaded
  /\ \A s \in Sessions :
       /\ mode'[s] \in {"off", "acquire"} => mode[s] \in {"off", "acquire"}
       /\ Live(s)' => Live(s) \/ mode[s] = "acquire"
       /\ Live(s)' /\ FirstLoad(s)' => FirstLoad(s) \/ mode[s] = "acquire"

LEMMA FreshKept ==
  ASSUME CronInv, OneLoad, Fresh, [Next]_vars
  PROVE  Fresh'
<1>1. FileInv /\ mode \in [Sessions -> Mode] /\ loaded \in [Sessions -> Contents]
  BY DEF CronInv, LockInv, FileInv
<1>2. ASSUME FreshAlone PROVE Fresh'
  BY <1>2 DEF Fresh, FreshAlone
<1>3. \A s, op, ids : op # "load" => Job(s, op, ids).op # "load"
  BY DEF Job
<1>4. ASSUME UNCHANGED <<loaded, mode>>, \A k \in jobs' : k.op = "load" => \E i \in jobs : SameTask(i, k)
      PROVE  Fresh'
  <2>1. \A s \in Sessions : FirstLoad(s)' => FirstLoad(s)
    BY <1>4 DEF FirstLoad, SameTask
  <2> QED BY <1>2, <1>4, <2>1 DEF FreshAlone, Live
<1>5. ASSUME NEW j \in jobs, ReadFile(j) \/ ReadNothing(j) \/ Truncate(j) PROVE Fresh'
  <2>1. PICK k : MoveJob(j, k) /\ SameTask(j, k)
    BY <1>1, <1>5, ReadMoves, TruncateMoves DEF ReadFile, ReadNothing
  <2>2. \A i \in jobs' : \E m \in jobs : SameTask(m, i)
    BY <2>1 DEF MoveJob, SameTask
  <2> QED BY <1>4, <1>5, <2>2 DEF ReadFile, ReadNothing, HasRead, Truncate
<1>6. ASSUME NEW j \in jobs, LandWrite(j) \/ Fail(j) PROVE Fresh'
  BY <1>4, <1>6 DEF LandWrite, Fail, Finish, SameTask
<1>7. ASSUME NEW j \in jobs, LandLoad(j) PROVE Fresh'
  <2>1. /\ j.session \in Sessions
        /\ \A k \in jobs' : Loads(k) => k \in jobs /\ k.session # j.session
        /\ \A r \in Sessions : r # j.session => loaded'[r] = loaded[r]
        /\ loaded'[j.session] = IF Live(j.session) THEN j.snap ELSE loaded[j.session]
    BY <1>1, <1>7, LandBrings
  <2>2. mode' = mode
    BY <1>7 DEF LandLoad
  <2>3. \A r \in Sessions : FirstLoad(r)' => FirstLoad(r) /\ r # j.session
    BY <2>1 DEF FirstLoad, Loads
  <2> QED BY <2>1, <2>2, <2>3 DEF Fresh, Live
<1>8. ASSUME NEW s \in Sessions, Acquired(s) PROVE Fresh'
  <2>1. CASE mode[s] = "acquire"
    <3>1. \A k \in jobs' : k \in jobs \/ k.session = s
      BY <1>8, <2>1 DEF Acquired, Job
    <3>2. \A r \in Sessions \ {s} : mode'[r] = mode[r] /\ (FirstLoad(r)' => FirstLoad(r))
      BY <1>1, <1>8, <2>1, <3>1 DEF Acquired, FirstLoad
    <3> QED BY <1>2, <1>8, <2>1, <3>2 DEF FreshAlone, Acquired, Live
  <2>2. CASE mode[s] # "acquire"
    BY <1>4, <1>8, <2>2 DEF Acquired, SameTask
  <2> QED BY <2>1, <2>2
<1>9. ASSUME NEW s \in Sessions, Start(s) \/ Stop(s) PROVE Fresh'
  <2>1. UNCHANGED <<loaded, jobs>> /\ \A r \in Sessions : FirstLoad(r)' => FirstLoad(r)
    BY <1>9 DEF Start, Stop, FirstLoad
  <2>2. \A r \in Sessions : /\ mode'[r] \in {"off", "acquire"} => mode[r] \in {"off", "acquire"}
                            /\ Live(r)' => Live(r)
    BY <1>1, <1>9 DEF Start, Stop, Live
  <2> QED BY <1>2, <2>1, <2>2 DEF FreshAlone
<1>10. ASSUME NEW s \in Sessions, Crash(s) PROVE Fresh'
  <2>1. /\ jobs' = {j \in jobs : j.session # s} /\ loaded'[s] = Empty
        /\ \A r \in Sessions : r # s => loaded'[r] = loaded[r]
    BY <1>1, <1>10, CrashLists
  <2>2. \A r \in Sessions : r # s => mode'[r] = mode[r] /\ (FirstLoad(r)' => FirstLoad(r))
    BY <1>1, <1>10, <2>1 DEF Crash, FirstLoad
  <2> QED BY <2>1, <2>2, EmptyIsContents DEF Fresh, Live
<1>11. ASSUME NEW s \in Sessions, Check(s) PROVE Fresh'
  <2>1. \A k \in jobs' : Loads(k) => k \in jobs
    BY <1>1, <1>11, CheckLists
  <2> QED BY <1>4, <1>11, <2>1 DEF Check, Loads, SameTask
<1>12. ASSUME NEW s \in Sessions, Reload(s) PROVE Fresh'
  BY <1>3, <1>4, <1>12 DEF Reload, SameTask
<1>13. ASSUME NEW s \in Sessions, NEW t \in Tasks, CronDelete(s, t) \/ CronCreate(s, t)
       PROVE  Fresh'
  BY <1>3, <1>4, <1>13 DEF CronDelete, CronCreate, SameTask
<1>14. ASSUME NEW s \in Sessions,
              Probe(s) \/ WatcherReady(s) \/ (LockAction(s) /\ UNCHANGED cronVars)
       PROVE  Fresh'
  BY <1>4, <1>14 DEF Probe, WatcherReady, cronVars, OneLoad, SameTask
<1>15. CASE Tick \/ UNCHANGED vars
  BY <1>4, <1>15 DEF Tick, vars, cronVars, SameTask
<1> QED
  BY <1>5, <1>6, <1>7, <1>8, <1>9, <1>10, <1>11, <1>12, <1>13, <1>14, <1>15
  DEF Next, JobStep, SchedulerStep

LEMMA AskedAlone ==
  ASSUME Onward, AskedFits, UNCHANGED <<asked, nextFire, loaded>>,
         \A s \in Sessions : Live(s)' => Live(s) \/ FirstLoad(s)',
         \A k \in jobs' : k \in jobs \/ k.stage # "land" \/ ~Loads(k),
         \A s \in Sessions : Live(s)' /\ FirstLoad(s) => FirstLoad(s)'
  PROVE  AskedFits'
<1>1. AskedHeld'
  BY DEF AskedFits, AskedHeld, NeverFires, Onward
<1>2. LoadSaw'
  BY DEF AskedFits, LoadSaw, Onward, GoneStays
<1> QED BY <1>1, <1>2 DEF AskedFits

LEMMA AskedRead ==
  ASSUME FileInv, Onward, AskedOld, AskedFits, NEW j \in jobs, ReadFile(j), ~Mishap'
  PROVE  AskedFits'
<1>1. PICK k : /\ MoveJob(j, k) /\ SameTask(j, k) /\ k.stage = "land" /\ k.snap = file
               /\ j.stage = "read"
  BY ReadMoves DEF ReadFile
<1>2. UNCHANGED <<file, mode, loaded, asked, nextFire>> /\ ~Unsettled
  BY DEF ReadFile, HasRead, Mishap
<1>3. \A s \in Sessions : FirstLoad(s) => FirstLoad(s)'
  BY <1>1 DEF FirstLoad, MoveJob, SameTask
<1>4. AskedHeld'
  BY <1>2, <1>3 DEF AskedFits, AskedHeld, NeverFires, Onward, Live
<1>5. ASSUME NEW t \in asked, t \notin DOMAIN k.snap PROVE Gone(t)
  BY <1>1, <1>2, <1>5 DEF AskedOld, Gone, Unsettled
<1>6. LoadSaw'
  BY <1>1, <1>2, <1>5 DEF AskedFits, LoadSaw, Onward, GoneStays, MoveJob
<1> QED BY <1>4, <1>6 DEF AskedFits

\* A load that lands.  The first one of a process holds back again what was asked about
\* before a crash, since it was missed then and is missed now.
LEMMA AskedLoad ==
  ASSUME OneSession, FileInv, OneLoad, Onward, AskedOld, AskedFits, NEW j \in jobs, LandLoad(j)
  PROVE  AskedFits'
<1> DEFINE s == j.session
<1>1. /\ Brings(j, s) /\ s \in Sessions /\ \A r \in Sessions : r = s
      /\ \A k \in jobs : k.session = s
      /\ loaded'[s] = IF Live(s) THEN j.snap ELSE loaded[s]
      /\ mode' = mode
  BY LandBrings DEF FileInv, JobTyped, OneSession, LandLoad
<1>2. \A k \in jobs' : ~Loads(k)
  BY <1>1, LandBrings
<1>3. LoadSaw'
  BY <1>2 DEF LoadSaw
<1>4. ASSUME Live(s), NEW t \in asked'
      PROVE  Forgotten(s, t)' \/ (t \in DOMAIN loaded'[s] /\ NeverFires(s, t)')
  <2>1. nextFire' = [nextFire EXCEPT ![s] = HeldBack(Missed(j), @)] /\ asked' = asked \cup Missed(j)
    BY <1>4 DEF LandLoad
  <2>2. nextFire'[s] = HeldBack(Missed(j), nextFire[s]) /\ loaded'[s] = j.snap
    BY <1>1, <1>4, <2>1 DEF FileInv
  <2>3. CASE t \in Missed(j)
    BY <2>2, <2>3 DEF HeldBack, NeverFires, Missed
  <2>4. CASE t \in asked /\ t \notin DOMAIN j.snap
    <3>1. Gone(t)'
      BY <1>1, <2>4 DEF AskedFits, LoadSaw, Brings, Onward, GoneStays
    <3> QED BY <1>2, <2>2, <2>4, <3>1 DEF Forgotten, Brings
  <2>5. CASE t \in asked /\ t \in DOMAIN j.snap /\ t \notin Missed(j)
    <3>1. j.op # "load"
      <4>1. j.snap[t].created + 1 < now /\ t \notin Recurring
        BY <2>5 DEF AskedOld, Held, FileInv
      <4>2. j.snap[t] \in Stamp
        BY <2>5, ContentsAre DEF FileInv, JobTyped
      <4>3. j.snap[t].created \in Int
        BY <4>2, BoundsAssumption DEF Stamp, Time
      <4>4. NextRun(t, j.snap[t]) = 1 + j.snap[t].created
        BY <4>1 DEF NextRun
      <4>5. NextRun(t, j.snap[t]) < now
        BY <4>1, <4>3, <4>4
      <4> QED BY <2>5, <4>1, <4>5 DEF Missed
    <3>2. ~FirstLoad(s)
      BY <1>1, <3>1 DEF FirstLoad, OneLoad, Loads, Brings
    <3>3. ~Forgotten(s, t)
      BY <1>1, <2>5 DEF Forgotten
    <3>4. NeverFires(s, t)
      BY <1>1, <1>4, <2>5, <3>2, <3>3 DEF AskedFits, AskedHeld
    <3> QED BY <2>2, <2>5, <3>4 DEF HeldBack, NeverFires
  <2> QED BY <2>1, <2>3, <2>4, <2>5
<1> HIDE DEF s
<1>5. AskedHeld'
  BY <1>1, <1>4 DEF AskedHeld, Live
<1> QED BY <1>3, <1>5 DEF AskedFits

\* A tick keeps what it sees held back.
LEMMA AskedCheck ==
  ASSUME CronInv, Onward, AlwaysOwner, AskedFits, NEW s \in Sessions, Check(s)
  PROVE  AskedFits'
<1>1. DOMAIN nextFire = Sessions /\ now \in Time
  BY DEF CronInv, FileInv
<1> DEFINE due == DueTasks(s)
           gone == due \ Again(s)
           seen == IF owner[s] THEN DOMAIN loaded[s] ELSE {}
           known == (seen \cap (DOMAIN nextFire[s] \cup Idle(s))) \ gone
           nf == [t \in known |-> IF t \in due THEN now + 1 ELSE NextFireOf(s, t)]
<1>2. /\ nextFire' = [nextFire EXCEPT ![s] = nf] /\ UNCHANGED <<mode, asked, loaded>>
      /\ jobs' = jobs \cup CheckJobs(s) /\ Live(s)
  BY DEF Check, CheckJobs
<1>3. nextFire'[s] = nf /\ DOMAIN nextFire'[s] = known /\ \A r \in Sessions \ {s} : nextFire'[r] = nextFire[r]
  BY <1>1, <1>2
<1>4. \A k \in CheckJobs(s) : ~Loads(k)
  BY DEF CheckJobs, Loads, Job
<1>5. owner[s]
  BY <1>2 DEF AlwaysOwner
<1>6. ASSUME NEW t \in DOMAIN loaded[s], NeverFires(s, t) PROVE NeverFires(s, t)'
  <2>1. NextFireOf(s, t) = Never /\ ~(now >= Never)
    BY <1>1, <1>6, BoundsAssumption DEF NextFireOf, NeverFires, Never, Time
  <2>2. t \notin due
    BY <2>1 DEF DueTasks
  <2>3. t \in known
    BY <1>5, <1>6, <2>2 DEF NeverFires
  <2> HIDE DEF due, known
  <2> QED BY <1>3, <2>1, <2>2, <2>3 DEF NeverFires
<1> HIDE DEF nf, known
<1>7. \A r \in Sessions : FirstLoad(r) => FirstLoad(r)'
  BY <1>2 DEF FirstLoad
<1>8. ASSUME NEW t \in asked, NEW r \in Sessions, Live(r), ~FirstLoad(r)
      PROVE  Forgotten(r, t)' \/ (t \in DOMAIN loaded[r] /\ NeverFires(r, t)')
  <2>1. Forgotten(r, t) \/ (t \in DOMAIN loaded[r] /\ NeverFires(r, t))
    BY <1>8 DEF AskedFits, AskedHeld
  <2>2. r # s /\ NeverFires(r, t) => NeverFires(r, t)'
    BY <1>3 DEF NeverFires
  <2> QED BY <1>6, <2>1, <2>2 DEF Onward
<1>9. AskedHeld'
  BY <1>2, <1>7, <1>8 DEF AskedHeld, Live
<1>10. LoadSaw'
  BY <1>2, <1>4 DEF AskedFits, LoadSaw, Onward, GoneStays
<1> QED BY <1>9, <1>10 DEF AskedFits

LEMMA AskedCrash ==
  ASSUME FileInv, Onward, AskedFits, NEW s \in Sessions, Crash(s), mode \in [Sessions -> Mode]
  PROVE  AskedFits'
<1>1. /\ jobs' = {j \in jobs : j.session # s} /\ asked' = asked /\ ~Live(s)'
      /\ \A r \in Sessions \ {s} : /\ nextFire'[r] = nextFire[r] /\ mode'[r] = mode[r]
                                   /\ loaded'[r] = loaded[r]
  BY DEF Crash, JobsOf, FileInv, Live
<1>2. \A r \in Sessions \ {s} : FirstLoad(r) => FirstLoad(r)'
  BY <1>1 DEF FirstLoad
<1>3. AskedHeld'
  BY <1>1, <1>2 DEF AskedFits, AskedHeld, Onward, Live, NeverFires
<1>4. LoadSaw'
  BY <1>1 DEF AskedFits, LoadSaw, Onward, GoneStays
<1> QED BY <1>3, <1>4 DEF AskedFits

LEMMA AskedKept ==
  ASSUME OneSession, CronInv, OneLoad, Onward, AlwaysOwner, AskedOld, AskedFits, [Next]_vars,
         ~Mishap'
  PROVE  AskedFits'
<1>1. FileInv /\ mode \in [Sessions -> Mode]
  BY DEF CronInv, LockInv
<1>2. ASSUME UNCHANGED <<asked, nextFire, loaded, mode>>,
             \A k \in jobs' : k \in jobs \/ k.stage # "land" \/ ~Loads(k),
             \A k \in jobs : Loads(k) => k \in jobs'
      PROVE  AskedFits'
  <2>1. \A s \in Sessions : FirstLoad(s) => FirstLoad(s)'
    BY <1>2 DEF FirstLoad, Loads
  <2> QED BY <1>2, <2>1, AskedAlone DEF Live
<1>3. ASSUME NEW j \in jobs, Truncate(j) PROVE AskedFits'
  <2>1. PICK k : /\ MoveJob(j, k) /\ SameTask(j, k) /\ k.stage = "write" /\ k.snap = j.snap
                 /\ j.stage = "land"
    BY <1>1, <1>3, TruncateMoves
  <2>2. ~Loads(j) /\ UNCHANGED <<asked, nextFire, loaded, mode>>
    BY <1>3 DEF Truncate, Writes
  <2> QED BY <1>2, <2>1, <2>2 DEF MoveJob
<1>4. ASSUME NEW j \in jobs, LandWrite(j) PROVE AskedFits'
  BY <1>2, <1>4 DEF LandWrite, Finish
<1>5. ASSUME NEW s \in Sessions, Start(s) \/ Stop(s) PROVE AskedFits'
  <2>1. UNCHANGED <<asked, nextFire, loaded, jobs>> /\ \A r \in Sessions : Live(r)' => Live(r)
    BY <1>1, <1>5 DEF Start, Stop, Live
  <2>2. \A r \in Sessions : FirstLoad(r) => FirstLoad(r)'
    BY <2>1 DEF FirstLoad
  <2> QED BY <2>1, <2>2, AskedAlone
<1>6. ASSUME NEW s \in Sessions, Acquired(s) PROVE AskedFits'
  <2>1. CASE mode[s] = "acquire"
    <3> DEFINE a == Job(s, "load", {})
    <3>1. /\ jobs' = jobs \cup {a} /\ UNCHANGED <<asked, nextFire, loaded>>
          /\ \A r \in Sessions \ {s} : mode'[r] = mode[r]
      BY <1>1, <1>6, <2>1 DEF Acquired
    <3>2. a.op = "load" /\ a.session = s /\ a.stage = "read"
      BY DEF Job
    <3> HIDE DEF a
    <3>3. FirstLoad(s)' /\ \A r \in Sessions : FirstLoad(r) => FirstLoad(r)'
      BY <3>1, <3>2 DEF FirstLoad
    <3>4. \A r \in Sessions : Live(r)' => Live(r) \/ FirstLoad(r)'
      BY <3>1, <3>3 DEF Live
    <3> QED BY <3>1, <3>2, <3>3, <3>4, AskedAlone
  <2>2. CASE mode[s] # "acquire"
    BY <1>2, <1>6, <2>2 DEF Acquired
  <2> QED BY <2>1, <2>2
<1>7. ASSUME NEW s \in Sessions, Reload(s) PROVE AskedFits'
  <2>1. Job(s, "reload", {}).stage = "read"
    BY DEF Job
  <2> QED BY <1>2, <1>7, <2>1 DEF Reload
<1>8. ASSUME NEW s \in Sessions, NEW t \in Tasks, CronDelete(s, t) \/ CronCreate(s, t)
       PROVE  AskedFits'
  <2>1. \A op : Job(s, op, {t}).stage = "read"
    BY DEF Job
  <2> QED BY <1>2, <1>8, <2>1 DEF CronDelete, CronCreate
<1>9. ASSUME NEW s \in Sessions,
              Probe(s) \/ WatcherReady(s) \/ (LockAction(s) /\ UNCHANGED cronVars)
       PROVE  AskedFits'
  BY <1>2, <1>9 DEF Probe, WatcherReady, cronVars, OneLoad
<1>10. ASSUME NEW j \in jobs, ReadNothing(j) \/ Fail(j) PROVE FALSE
  BY <1>1, <1>10, MishapStays
<1>11. CASE Tick \/ UNCHANGED vars
  BY <1>2, <1>11 DEF Tick, vars, cronVars
<1> QED
  BY <1>1, <1>3, <1>4, <1>5, <1>6, <1>7, <1>8, <1>9, <1>10, <1>11, AskedRead, AskedLoad,
     AskedCheck, AskedCrash DEF Next, JobStep, SchedulerStep

SettledInv ==
  /\ FiringInv /\ SameBirth /\ AskedOld /\ AlwaysOwner /\ Fresh
  /\ Mishap \/ AskedFits

LEMMA SettledInit == Init => SettledInv
<1> SUFFICES ASSUME Init PROVE SettledInv
  OBVIOUS
<1>1. SameBirth
  BY DEF Init, SameBirth, Held
<1>2. AskedOld /\ AskedFits
  BY DEF Init, AskedOld, AskedFits, AskedHeld, LoadSaw
<1>3. AlwaysOwner
  BY DEF Init, LockInit, AlwaysOwner, Live
<1>4. Fresh
  BY EmptyIsContents DEF Init, Fresh
<1> QED BY <1>1, <1>2, <1>3, <1>4, FiringInit DEF SettledInv

LEMMA SettledStep ==
  ASSUME Timely, OneSession, SettledInv, [Next]_vars
  PROVE  SettledInv'
<1>1. FiringInv' /\ FileInv /\ CronInv /\ FileSafe /\ OneLoad
  BY FiringStep DEF SettledInv, FiringInv, CronInv
<1>2. SameBirth' /\ AskedOld' /\ AlwaysOwner' /\ Fresh'
  BY <1>1, BirthsKept, OldKept, OwnerKept, FreshKept DEF SettledInv
<1>3. ASSUME ~Mishap' PROVE AskedFits'
  <2>1. NoneBack /\ AskedFits
    BY <1>1, <1>3, MishapStays DEF SettledInv, FiringInv, CalmInv
  <2>2. GoneStays
    BY <1>1, <1>3, <2>1, FilesSafe
  <2>3. Onward
    BY <1>1, <2>2, ForgottenStays DEF Onward
  <2> QED BY <1>1, <1>3, <2>1, <2>3, AskedKept DEF SettledInv
<1> QED BY <1>1, <1>2, <1>3 DEF SettledInv

LEMMA AskedNever ==
  ASSUME SettledInv, [Next]_vars, NEW s \in Sessions, NEW t \in asked, Fires(s, t)
  PROVE  Mishap
<1>1. Check(s) /\ t \in DueTasks(s)
  BY FiresIsCheck DEF SettledInv, FiringInv, CronInv
<1>2. Live(s) /\ t \in DOMAIN loaded[s]
  BY <1>1 DEF Check, DueTasks, Idle
<1>3. ~FirstLoad(s) /\ ~Forgotten(s, t)
  BY <1>2 DEF SettledInv, Fresh, Forgotten
<1>4. ~NeverFires(s, t)
  <2>1. now >= NextFireOf(s, t) /\ now \in Time
    BY <1>1 DEF DueTasks, SettledInv, FiringInv, CronInv, FileInv
  <2> QED BY <2>1, BoundsAssumption DEF NeverFires, NextFireOf, Never, Time
<1> QED BY <1>2, <1>3, <1>4 DEF SettledInv, AskedFits, AskedHeld

\* SettledNeverFires: with one session nor does a one-shot task that was missed, from the
\* moment the user is asked, whatever the session has loaded, and across a crash.  A second
\* session that has asked about it forgets at its next tick that the task is held back,
\* and may take over before the removal has landed.
THEOREM SettledStay == Timely /\ OneSession => (Spec => SettledNeverFires)
<1> SUFFICES ASSUME Timely, OneSession PROVE Spec => SettledNeverFires
  OBVIOUS
<1>1. SettledInv /\ [Next]_vars => SettledInv'
  BY SettledStep
<1>2. SettledInv /\ [Next]_vars =>
        \A s \in Sessions, t \in Tasks :
          Fires(s, t) /\ (t \in asked \/ (t \in deleted /\ UpToDate(s))) => Mishap
  BY DeletedStep, AskedNever DEF SettledInv
<1> QED BY <1>1, <1>2, SettledInit, PTL DEF Spec, SettledNeverFires
=============================================================================
