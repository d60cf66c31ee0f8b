-------------------------------- MODULE Cron --------------------------------
(***************************************************************************)
(* The scheduled tasks of Clawd Code: the scheduler of every session       *)
(* (utils/cronScheduler.ts) over the task file they share                  *)
(* (utils/cronTasks.ts), one of them owner by the lock of module CronLock. *)
(*                                                                         *)
(* A job is an asynchronous operation on the file: it reads it, truncates  *)
(* it if it is going to write, and lands.  Time is the number of times the *)
(* cron expressions of the tasks have come round: a one-shot task is due   *)
(* one round after its creation.                                           *)
(*                                                                         *)
(* The watcher reports a change 300 ms after the file has come to rest, a  *)
(* tick comes every second.  Timely says that this is as it should be: the *)
(* watcher is ready at once, reloads read a file at rest and land in       *)
(* order, and what a tick has removed from the file is off the session's   *)
(* list before its next tick.  A change by anyone else may land at any     *)
(* moment and meet a tick before the reload.                               *)
(***************************************************************************)
EXTENDS CronLock, Integers, Sequences, Functions

CONSTANTS
  Tasks,          \* ids of tasks, all of them in the file ("durable")
  Recurring,      \* those that recur
  InitialTasks,   \* those the file starts with
  MaxAge,         \* rounds after which a recurring task expires
  Timely,         \* the watcher and the disk are faster than the ticks
  MaxNow,         \* bound on time
  MaxErrors,      \* bound on the file operations that fail
  MaxEdits        \* bound on the tasks created and deleted by the user

ASSUME TasksAssumption ==
  Recurring \subseteq Tasks /\ InitialTasks \subseteq Tasks /\ Timely \in BOOLEAN

ASSUME BoundsAssumption ==
  /\ MaxAge \in Nat \ {0} /\ MaxNow \in Nat
  /\ MaxErrors \in Nat /\ MaxEdits \in Nat

VARIABLES
  file,       \* the task file: created and lastFired of each task in it
  mode,       \* where each session's scheduler is
  owner,      \* isOwner of each session
  loaded,     \* tasks, the content of the file as each session has loaded it
  nextFire,   \* nextFireAt of each session
  inFlight,   \* ids whose removal or stamp is under way in each session
  changed,    \* sessions whose watcher has a change to report
  jobs,       \* the file operations under way
  now,        \* the time
  edits,      \* tasks the user has created and deleted
  errors,     \* number of file operations that have failed
  fired,      \* times at which each session's process has fired each task
  retired,    \* tasks each process has fired for the last time, to be removed
  asked,      \* one-shot tasks surfaced as missed
  deleted,    \* tasks whose deletion by the user has landed
  clobbered   \* whether the file was read half written, or a change written over another

cronVars == <<file, mode, owner, loaded, nextFire, inFlight, changed, jobs, now, edits,
              errors, fired, retired, asked, deleted, clobbered>>
vars == <<cronVars, lockVars>>

Time == 0 .. MaxNow
Never == MaxNow + 2
NotFired == -1
Stamp == [created: Time, lastFired: Time \cup {NotFired}]
Contents == UNION {[ids -> Stamp] : ids \in SUBSET Tasks}
Empty == [t \in {} |-> 0]

Mode == {"off", "acquire", "on", "watching", "stopped"}
Live(s) == mode[s] \in {"on", "watching"}

\* The next fire after a task's anchor: its creation, or the last fire if it recurs.
NextRun(t, stamp) ==
  1 + IF t \in Recurring /\ stamp.lastFired # NotFired THEN stamp.lastFired ELSE stamp.created

-----------------------------------------------------------------------------
(* The file operations. *)

Job(s, op, ids) ==
  [session |-> s, op |-> op, ids |-> ids, stage |-> "read", snap |-> Empty,
   time |-> IF op \in {"add", "mark"} THEN now ELSE 0]

JobsOf(s) == {j \in jobs : j.session = s}
Loads(j) == j.op \in {"load", "reload"}
Removes(j) == j.op \in {"fire", "missed", "delete"}

\* Whether the job writes the file at all, and what: from what it has read.
Writes(j) == ~Loads(j) /\ (j.op = "add" \/ j.ids \cap DOMAIN j.snap # {})
Written(j) ==
  IF Removes(j) THEN Restrict(j.snap, DOMAIN j.snap \ j.ids)
  ELSE [t \in DOMAIN j.snap \cup (IF j.op = "add" THEN j.ids ELSE {}) |->
          CASE t \notin j.ids -> j.snap[t]
            [] t \in j.ids /\ j.op = "add" -> [created |-> j.time, lastFired |-> NotFired]
            [] t \in j.ids /\ j.op = "mark" -> [j.snap[t] EXCEPT !.lastFired = j.time]]

Unsettled == \E k \in jobs : k.stage = "write"

HasRead(j, content) ==
  /\ j.stage = "read"
  /\ jobs' = (jobs \ {j}) \cup {[j EXCEPT !.stage = "land", !.snap = content]}
  /\ UNCHANGED <<file, mode, owner, loaded, nextFire, inFlight, changed, now, edits,
                 fired, retired, asked, deleted, lockVars>>

\* readCronTasks finds no tasks in a file that is being written.  Only the watcher waits
\* until the file has come to rest.
ReadFile(j) ==
  /\ HasRead(j, file)
  /\ Timely /\ j.op = "reload" => ~Unsettled
  /\ clobbered' = (clobbered \/ Unsettled)
  /\ UNCHANGED errors

\* The read fails: readCronTasks logs the error and returns no tasks, to whoever asks.
ReadNothing(j) ==
  /\ HasRead(j, Empty)
  /\ errors < MaxErrors /\ errors' = errors + 1
  /\ UNCHANGED clobbered

\* findMissedTasks, of the one-shot tasks at the initial load.
Missed(j) ==
  {t \in DOMAIN j.snap \ Recurring : j.op = "load" /\ NextRun(t, j.snap[t]) < now}

\* Mutant: the next tick is free to fire them.
HeldBackNot(missed, next) == next

\* Nothing fires what waits for the user's answer.
HeldBack(missed, next) ==
  [t \in missed \cup DOMAIN next |-> IF t \in missed THEN Never ELSE next[t]]

\* Mutant: a load adds to the list, and never takes a task off it.
ListedStill(list, snap) ==
  [t \in DOMAIN list \cup DOMAIN snap |-> IF t \in DOMAIN snap THEN snap[t] ELSE list[t]]

\* What a load makes of the session's list: what it has read.
Listed(list, snap) == snap

\* load: missed one-shot tasks are surfaced, kept from firing, and removed.
LandLoad(j) ==
  LET s == j.session
      missed == Missed(j)
  IN /\ Loads(j) /\ j.stage = "land"
     /\ IF Live(s)
        THEN /\ loaded' = [loaded EXCEPT ![s] = Listed(@, j.snap)]
             /\ nextFire' = [nextFire EXCEPT ![s] = HeldBack(missed, @)]
             /\ asked' = asked \cup missed
             /\ jobs' = (jobs \ {j}) \cup
                          IF missed = {} THEN {} ELSE {Job(s, "missed", missed)}
        ELSE jobs' = jobs \ {j} /\ UNCHANGED <<loaded, nextFire, asked>>
     /\ UNCHANGED <<file, mode, owner, inFlight, changed, now, edits, errors, fired,
                    retired, deleted, clobbered, lockVars>>

\* The job is over; what it was in flight for is so no more.
Finish(j) ==
  /\ jobs' = jobs \ {j}
  /\ inFlight' = IF j.op \in {"fire", "mark"}
                 THEN [inFlight EXCEPT ![j.session] = @ \ j.ids] ELSE inFlight

WatchersSee == changed' = changed \cup {s \in Sessions : mode[s] = "watching"}

\* writeCronTasks truncates the file first: until the job lands it holds no tasks.
Truncate(j) ==
  /\ j.stage = "land" /\ Writes(j)
  /\ file' = Empty /\ WatchersSee
  /\ clobbered' = (clobbered \/ file # j.snap)
  /\ jobs' = (jobs \ {j}) \cup {[j EXCEPT !.stage = "write"]}
  /\ UNCHANGED <<mode, owner, loaded, nextFire, inFlight, now, edits, errors, fired, retired,
                 asked, deleted, lockVars>>

\* removeCronTasks, markCronTasksFired and addCronTask come to their end.
LandWrite(j) ==
  /\ ~Loads(j) /\ j.stage = IF Writes(j) THEN "write" ELSE "land"
  /\ IF Writes(j) THEN file' = Written(j) /\ WatchersSee ELSE UNCHANGED <<file, changed>>
  /\ Finish(j)
  /\ deleted' = IF j.op = "delete" THEN deleted \cup j.ids ELSE deleted
  /\ UNCHANGED <<mode, owner, loaded, nextFire, now, edits, errors, fired, retired,
                 asked, clobbered, lockVars>>

\* writeCronTasks fails, before it has truncated the file or after: the error is logged.
Fail(j) ==
  /\ Writes(j) /\ j.stage \in {"land", "write"}
  /\ errors < MaxErrors /\ errors' = errors + 1
  /\ Finish(j)
  /\ UNCHANGED <<file, mode, owner, loaded, nextFire, changed, now, edits, fired, retired,
                 asked, deleted, clobbered, lockVars>>

JobStep(j) ==
  ReadFile(j) \/ ReadNothing(j) \/ LandLoad(j) \/ Truncate(j) \/ LandWrite(j) \/ Fail(j)

-----------------------------------------------------------------------------
(* A session's scheduler. *)

\* start and enable, of a session's first process or of a resumed one.
Start(s) ==
  /\ mode[s] = "off" /\ pc[s] = "idle"
  /\ mode' = [mode EXCEPT ![s] = "acquire"]
  /\ process' = [process EXCEPT ![s] = crashes + 1]
  /\ pc' = [pc EXCEPT ![s] = "create"]
  /\ UNCHANGED <<file, owner, loaded, nextFire, inFlight, changed, jobs, now, edits,
                 errors, fired, retired, asked, deleted, clobbered, lock, recovered, crashes>>

\* tryAcquireSchedulerLock has answered: the session loads the tasks, owner or not.
\* One that has been stopped meanwhile gives the lock back.
Acquired(s) ==
  /\ pc[s] \in {"won", "lost"}
  /\ owner' = [owner EXCEPT ![s] = pc[s] = "won" /\ mode[s] # "stopped"]
  /\ pc' = [pc EXCEPT ![s] = IF pc[s] = "won" /\ mode[s] = "stopped" THEN "releasing"
                             ELSE "idle"]
  /\ IF mode[s] = "acquire"
     THEN /\ mode' = [mode EXCEPT ![s] = IF Timely THEN "watching" ELSE "on"]
          /\ jobs' = jobs \cup {Job(s, "load", {})}
     ELSE UNCHANGED <<mode, jobs>>
  /\ UNCHANGED <<file, loaded, nextFire, inFlight, changed, now, edits, errors, fired,
                 retired, asked, deleted, clobbered, lock, process, recovered, crashes>>

\* The lock probe, for as long as the session is not the owner.
Probe(s) ==
  /\ Live(s) /\ ~owner[s] /\ pc[s] = "idle"
  /\ pc' = [pc EXCEPT ![s] = "create"]
  /\ UNCHANGED <<cronVars, lock, process, recovered, crashes>>

\* The file watcher is ready: it reports the changes from now on.
WatcherReady(s) ==
  /\ mode[s] = "on"
  /\ mode' = [mode EXCEPT ![s] = "watching"]
  /\ UNCHANGED <<file, owner, loaded, nextFire, inFlight, changed, jobs, now, edits,
                 errors, fired, retired, asked, deleted, clobbered, lockVars>>

Loading(s) == \E j \in JobsOf(s) : Loads(j)

Reload(s) ==
  /\ s \in changed /\ mode[s] = "watching"
  /\ Timely => ~Loading(s)
  /\ changed' = changed \ {s}
  /\ jobs' = jobs \cup {Job(s, "reload", {})}
  /\ UNCHANGED <<file, mode, owner, loaded, nextFire, inFlight, now, edits, errors,
                 fired, retired, asked, deleted, clobbered, lockVars>>

\* No change is waiting to be loaded: the session has caught up with the file.
UpToDate(s) ==
  mode[s] = "watching" /\ s \notin changed /\ ~Loading(s)

\* Mutant: an id in flight is processed like any other.
IdleAny(s) == IF owner[s] THEN DOMAIN loaded[s] ELSE {}

\* The tasks a tick looks at: those of the owner that are not in flight.
Idle(s) == IF owner[s] THEN DOMAIN loaded[s] \ inFlight[s] ELSE {}

NextFireOf(s, t) ==
  IF t \in DOMAIN nextFire[s] THEN nextFire[s][t] ELSE NextRun(t, loaded[s][t])

DueTasks(s) == {t \in Idle(s) : now >= NextFireOf(s, t)}

\* A recurring task fires again, unless it has expired.
Again(s) ==
  {t \in DueTasks(s) \cap Recurring : now - loaded[s][t].created < MaxAge}

\* What a tick of this session has removed from the file is off its list.
RetiredLoaded(s) == Idle(s) \cap retired[s] \subseteq DOMAIN file

\* One tick of check.
Check(s) ==
  LET due == DueTasks(s)
      gone == due \ Again(s)
      seen == IF owner[s] THEN DOMAIN loaded[s] ELSE {}
      known == (seen \cap (DOMAIN nextFire[s] \cup Idle(s))) \ gone
  IN /\ Live(s)
     /\ Timely => RetiredLoaded(s)
     /\ fired' = [fired EXCEPT ![s] =
                    [t \in Tasks |-> @[t] \cup IF t \in due THEN {now} ELSE {}]]
     /\ nextFire' = [nextFire EXCEPT ![s] =
                       [t \in known |-> IF t \in due THEN now + 1 ELSE NextFireOf(s, t)]]
     /\ inFlight' = [inFlight EXCEPT ![s] = @ \cup due]
     /\ retired' = [retired EXCEPT ![s] = @ \cup gone]
     /\ jobs' = jobs \cup {Job(s, "fire", {t}) : t \in gone}
                     \cup IF Again(s) = {} THEN {} ELSE {Job(s, "mark", Again(s))}
     /\ UNCHANGED <<file, mode, owner, loaded, changed, now, edits, errors, asked,
                    deleted, clobbered, lockVars>>

Exits == crashes + Cardinality({s \in Sessions : mode[s] = "stopped"})

\* stop: the lock is released, operations under way go on.
Stop(s) ==
  /\ mode[s] \in {"acquire", "on", "watching"}
  /\ Exits < MaxExits
  /\ mode' = [mode EXCEPT ![s] = "stopped"]
  /\ owner' = [owner EXCEPT ![s] = FALSE]
  /\ pc' = [pc EXCEPT ![s] = IF owner[s] THEN "releasing" ELSE @]
  /\ UNCHANGED <<file, loaded, nextFire, inFlight, changed, jobs, now, edits, errors,
                 fired, retired, asked, deleted, clobbered, lock, process, recovered, crashes>>

SchedulerStep(s) == Acquired(s) \/ Probe(s) \/ WatcherReady(s) \/ Reload(s) \/ Check(s)

-----------------------------------------------------------------------------

\* The process dies, in the middle of a write perhaps.  It may be started again.
Crash(s) ==
  /\ process[s] # 0 /\ mode[s] # "off"
  /\ mode[s] = "stopped" \/ Exits < MaxExits
  /\ crashes' = crashes + 1
  /\ process' = [process EXCEPT ![s] = 0]
  /\ pc' = [pc EXCEPT ![s] = "idle"]
  /\ mode' = [mode EXCEPT ![s] = "off"]
  /\ owner' = [owner EXCEPT ![s] = FALSE]
  /\ loaded' = [loaded EXCEPT ![s] = Empty]
  /\ nextFire' = [nextFire EXCEPT ![s] = Empty]
  /\ inFlight' = [inFlight EXCEPT ![s] = {}]
  /\ fired' = [fired EXCEPT ![s] = [t \in Tasks |-> {}]]
  /\ retired' = [retired EXCEPT ![s] = {}]
  /\ jobs' = jobs \ JobsOf(s)
  /\ changed' = changed \ {s}
  /\ UNCHANGED <<file, now, edits, errors, asked, deleted, clobbered, lock, recovered>>

Tick ==
  /\ now < MaxNow /\ now' = now + 1
  /\ UNCHANGED <<file, mode, owner, loaded, nextFire, inFlight, changed, jobs, edits,
                 errors, fired, retired, asked, deleted, clobbered, lockVars>>

Edit(e) ==
  e \notin edits /\ Cardinality(edits) < MaxEdits /\ edits' = edits \cup {e}

\* CronDelete, once its validation has found the task in the file.
CronDelete(s, t) ==
  /\ process[s] # 0 /\ Edit(<<"delete", t>>)
  /\ t \in DOMAIN file
  /\ jobs' = jobs \cup {Job(s, "delete", {t})}
  /\ UNCHANGED <<file, mode, owner, loaded, nextFire, inFlight, changed, now, errors,
                 fired, retired, asked, deleted, clobbered, lockVars>>

\* CronCreate: a durable task with a fresh id.
CronCreate(s, t) ==
  /\ process[s] # 0 /\ t \notin InitialTasks /\ Edit(<<"create", t>>)
  /\ jobs' = jobs \cup {Job(s, "add", {t})}
  /\ UNCHANGED <<file, mode, owner, loaded, nextFire, inFlight, changed, now, errors,
                 fired, retired, asked, deleted, clobbered, lockVars>>

Init ==
  /\ LockInit
  /\ file = [t \in InitialTasks |-> [created |-> 0, lastFired |-> NotFired]]
  /\ mode = [s \in Sessions |-> "off"]
  /\ owner = [s \in Sessions |-> FALSE]
  /\ loaded = [s \in Sessions |-> Empty] /\ nextFire = [s \in Sessions |-> Empty]
  /\ inFlight = [s \in Sessions |-> {}]
  /\ changed = {} /\ jobs = {}
  /\ now = 0 /\ edits = {} /\ errors = 0
  /\ fired = [s \in Sessions |-> [t \in Tasks |-> {}]]
  /\ retired = [s \in Sessions |-> {}]
  /\ asked = {} /\ deleted = {} /\ clobbered = FALSE

Next ==
  \/ Tick
  \/ \E j \in jobs : JobStep(j)
  \/ \E s \in Sessions :
       \/ Start(s) \/ SchedulerStep(s) \/ Stop(s) \/ Crash(s)
       \/ LockAction(s) /\ UNCHANGED cronVars
       \/ \E t \in Tasks : CronDelete(s, t) \/ CronCreate(s, t)

\* The timers and the file operations of a session that runs go on; that sessions
\* are started, stopped or crash is up to the user.
Fairness ==
  \A s \in Sessions :
    /\ WF_vars(\E j \in JobsOf(s) : JobStep(j))
    /\ WF_vars(LockAction(s) /\ UNCHANGED cronVars)
    /\ WF_vars(Acquired(s)) /\ WF_vars(Probe(s)) /\ WF_vars(Check(s))
    /\ WF_vars(WatcherReady(s)) /\ WF_vars(Reload(s))

Spec == Init /\ [][Next]_vars
FairSpec == Spec /\ Fairness

-----------------------------------------------------------------------------
(* Properties *)

TypeOK ==
  /\ LockTypeOK
  /\ file \in Contents /\ loaded \in [Sessions -> Contents]
  /\ mode \in [Sessions -> Mode] /\ owner \in [Sessions -> BOOLEAN]
  /\ \A s \in Sessions : nextFire[s] \in [DOMAIN nextFire[s] -> 0 .. Never]
  /\ inFlight \in [Sessions -> SUBSET Tasks]
  /\ changed \subseteq Sessions
  /\ \A j \in jobs : j.session \in Sessions /\ j.snap \in Contents /\ j.ids \subseteq Tasks
  /\ now \in Time /\ edits \subseteq {"create", "delete"} \X Tasks /\ errors \in 0 .. MaxErrors
  /\ fired \in [Sessions -> [Tasks -> SUBSET Time]]
  /\ retired \in [Sessions -> SUBSET Tasks]
  /\ asked \subseteq Tasks \ Recurring /\ deleted \subseteq Tasks /\ clobbered \in BOOLEAN

\* At most one session runs the tasks of the file.  (the comment on the lock, "If two
\* sessions race to recover a stale lock, only one create succeeds")
OneOwner == \A r, s \in Sessions : owner[r] /\ owner[s] => r = s

\* The state is of its type, and two owners take a recovery: as long as no session has
\* unlinked a lock that it took for a stale one, at most one runs the tasks, whatever is
\* stopped or resumed when.
OneOwnerUnlessRecovered == TypeOK /\ (recovered \/ OneOwner)

\* Session s fires task t.
Fires(s, t) == t \in inFlight'[s] \ inFlight[s]

\* An operation has failed, or read the file half written, or undone another one's change.
Mishap == clobbered \/ errors > 0

\* A process fires a one-shot task once (the answer of CronCreate, "It will fire once
\* then auto-delete", and the comments on inFlight), and a recurring task once for one
\* round, although the removal or the stamp is under way for any number of ticks.  With
\* Timely, a mishap of the file operations is all that can break it.
FiresOnceUnlessClobbered ==
  [][\A s \in Sessions, t \in Tasks : Fires(s, t) =>
       \/ Mishap
       \/ IF t \in Recurring THEN now \notin fired[s][t] ELSE fired[s][t] = {}]_vars

\* What is settled does not fire.  A task the user has deleted is not fired by a session
\* that has loaded what the deletion left (until then a tick may still fire it), and a
\* one-shot task that was missed while no session ran not before the user has been
\* asked.  A mishap of the file operations excuses either.  (removeCronTasks, load)
SettledNeverFires ==
  [][\A s \in Sessions, t \in Tasks :
       Fires(s, t) /\ (t \in asked \/ (t \in deleted /\ UpToDate(s))) => Mishap]_vars

FiredSince(t, n) == \E s \in Sessions : \E i \in fired[s][t] : i >= n

\* A task that is due is run, or surfaced as missed, or gone from the file, as long as a
\* session is there: one takes over from an owner that crashed or stopped.
\* (the lock probe and the timer of enable)
DueIsHandled ==
  \A t \in Tasks, n \in 1 .. MaxNow :
    (t \in DOMAIN file /\ NextRun(t, file[t]) = n /\ now >= n)
      ~> \/ t \notin DOMAIN file \/ FiredSince(t, n) \/ t \in asked
         \/ \A s \in Sessions : mode[s] \in {"off", "stopped"}
=============================================================================
