------------------------------ MODULE TaskList ------------------------------
(***************************************************************************)
(* The task list that the agents of a team share (utils/tasks.ts): a file  *)
(* per task, a high water mark, a lock on the list and one on each task,   *)
(* under the calls the tools, the teammates and the leader make of it.     *)
(*                                                                         *)
(* An agent makes one call at a time; a step of it is what happens between *)
(* two awaits.  A file that is being written cannot be read: getTask takes *)
(* it for none.                                                            *)
(***************************************************************************)
EXTENDS Naturals, Sequences, FiniteSets, FiniteSetsExt

CONSTANTS
  Agents,         \* the agents of the team
  NoOne,          \* no agent
  Torn,           \* a task file that cannot be parsed
  InitialTasks,   \* number of tasks the list starts with
  Kinds,          \* the calls the agents may make
  MaxCalls,       \* bound on the calls
  MaxKills        \* bound on the agents that are killed

AllKinds == {"create", "claim", "reset", "hide", "start", "complete", "delete",
             "block", "unassign"}

ASSUME TaskListAssumption ==
  /\ Kinds \subseteq AllKinds /\ NoOne \notin Agents
  /\ InitialTasks \in Nat /\ MaxCalls \in Nat /\ MaxKills \in Nat

VARIABLES
  files,      \* the task files
  mark,       \* the high water mark
  listLock,   \* who holds the lock of the list
  taskLock,   \* who holds the lock of each task
  call,       \* what each agent is doing
  update,     \* the updateTask each agent is in
  gone,       \* agents that were killed
  made,       \* number of calls so far
  given,      \* how many tasks each id has been given to
  claimant,   \* who has claimed each task, until it is unassigned again
  overlap,    \* whether two calls have met that no lock keeps apart
  raced       \* whether a claim has met a call that sets an owner without looking again

vars == <<files, mark, listLock, taskLock, call, update, gone, made, given, claimant, overlap, raced>>

Ids == 1 .. InitialTasks + MaxCalls
Owner == Agents \cup {NoOne}
TaskStatus == {"pending", "in_progress", "completed"}
Task == [owner: Owner, status: TaskStatus, blocks: SUBSET Ids, blockedBy: SUBSET Ids]
NewTask == [owner |-> NoOne, status |-> "pending", blocks |-> {}, blockedBy |-> {}]

\* What cannot be parsed is not the content of a task.
ASSUME TornAssumption == Torn \notin Task

NoCall == [kind |-> "none", id |-> 0, other |-> NoOne, pc |-> "idle", high |-> 0,
           blockers |-> {}, left |-> {}, todo |-> <<>>]
UpdateOf(i, fields) == [id |-> i, fields |-> fields]
NoUpdate == [id |-> 0, pc |-> "idle", fields |-> <<>>, task |-> NewTask]

\* The calls whose reads and writes are under one lock, so that they may meet.
Serialised(k, l) ==
  {k, l} \subseteq {"create", "reset"} \/ {k, l} \subseteq {"create", "claim", "complete"}

\* A claim, and a call that sets the owner it decided on from a copy without the lock.
Races(k, l) == "claim" \in {k, l} /\ {k, l} \cap {"start", "unassign"} # {}

\* getTask and listTasks
Readable == {i \in DOMAIN files : files[i] # Torn}
Unresolved == {i \in Readable : files[i].status # "completed"}
Highest == Max(DOMAIN files \cup {0})

Holds(a, i) == taskLock[i] = a

\* Mutant: the lock is not released.
FreeNot(a, i) == UNCHANGED taskLock

Free(a, i) == taskLock' = [taskLock EXCEPT ![i] = IF @ = a THEN NoOne ELSE @]

Goes(a, pc) == call' = [call EXCEPT ![a].pc = pc]
Ends(a) == call' = [call EXCEPT ![a] = NoCall]

\* A task with some of its fields set anew.
Over(fields, task) ==
  [x \in DOMAIN fields \cup DOMAIN task |-> IF x \in DOMAIN fields THEN fields[x] ELSE task[x]]

\* writeFile, which makes the file anew if it is not there.
Write(i, content) ==
  files' = [j \in DOMAIN files \cup {i} |-> IF j = i THEN content ELSE files[j]]

\* The call goes on to update tasks, one after the other: their ids, with the fields
\* to set.
Updates(a, todo) == call' = [call EXCEPT ![a].pc = "updates", ![a].todo = todo]

\* The ids as a listing shows them.
InOrder(ids) ==
  LET upTo[n \in 0 .. InitialTasks + MaxCalls] ==
        IF n = 0 THEN <<>>
        ELSE IF n \in ids THEN Append(upTo[n - 1], n) ELSE upTo[n - 1]
  IN upTo[InitialTasks + MaxCalls]

-----------------------------------------------------------------------------
(* updateTask and updateTaskUnsafe. *)

\* Mutant: what is written is merged into the copy that was read before the lock.
ReadAgainNot(a) == IF update[a].pc = "read" THEN update[a].task ELSE files[update[a].id]

\* The copy of the task the update goes on with.
ReadAgain(a) == files[update[a].id]

UpdateEnds(a) == update' = [update EXCEPT ![a] = NoUpdate]

\* Existence is checked before the task is locked.
CheckTask(a) ==
  /\ update[a].pc = "check"
  /\ IF update[a].id \in Readable
     THEN update' = [update EXCEPT ![a].pc = "lock", ![a].task = ReadAgain(a)]
     ELSE UpdateEnds(a)
  /\ UNCHANGED <<files, mark, listLock, taskLock, call, gone, made, given, claimant, overlap, raced>>

\* The lock needs the file: without it the exception ends the whole call.
LockToUpdate(a) ==
  /\ update[a].pc = "lock"
  /\ IF update[a].id \in DOMAIN files
     THEN /\ taskLock[update[a].id] = NoOne
          /\ taskLock' = [taskLock EXCEPT ![update[a].id] = a]
          /\ update' = [update EXCEPT ![a].pc = "read"]
          /\ UNCHANGED call
     ELSE UpdateEnds(a) /\ Ends(a) /\ UNCHANGED taskLock
  /\ UNCHANGED <<files, mark, listLock, gone, made, given, claimant, overlap, raced>>

ReadToUpdate(a) ==
  /\ update[a].pc = "read"
  /\ IF update[a].id \in Readable
     THEN /\ update' = [update EXCEPT ![a].pc = "truncate", ![a].task = ReadAgain(a)]
          /\ UNCHANGED taskLock
     ELSE UpdateEnds(a) /\ Free(a, update[a].id)
  /\ UNCHANGED <<files, mark, listLock, call, gone, made, given, claimant, overlap, raced>>

\* The file may have been deleted meanwhile.
TruncateToUpdate(a) ==
  /\ update[a].pc = "truncate"
  /\ Write(update[a].id, Torn)
  /\ update' = [update EXCEPT ![a].pc = "write"]
  /\ UNCHANGED <<mark, listLock, taskLock, call, gone, made, given, claimant, overlap, raced>>

\* Who has claimed the task once call k of agent a has written its update.
ClaimantAfter(a, k) ==
  CASE k.kind = "claim" /\ "owner" \in DOMAIN update[a].fields -> a
    [] k.kind = "unassign" /\ claimant[update[a].id] = k.other -> NoOne
    [] OTHER -> claimant[update[a].id]

WriteUpdate(a) ==
  /\ update[a].pc = "write"
  /\ Write(update[a].id, Over(update[a].fields, update[a].task))
  /\ claimant' = [claimant EXCEPT ![update[a].id] = ClaimantAfter(a, call[a])]
  /\ UpdateEnds(a) /\ Free(a, update[a].id)
  /\ UNCHANGED <<mark, listLock, call, gone, made, given, overlap, raced>>

Begun(next, pc) == [NoUpdate EXCEPT !.id = next.id, !.fields = next.fields, !.pc = pc]

\* The next update of the call begins, or the call is over.
NextUpdate(a) ==
  /\ call[a].pc = "updates" /\ update[a] = NoUpdate
  /\ IF call[a].todo = <<>>
     THEN Ends(a) /\ UNCHANGED update
     ELSE /\ update' = [update EXCEPT ![a] = Begun(Head(call[a].todo), "check")]
          /\ call' = [call EXCEPT ![a].todo = Tail(@)]
  /\ UNCHANGED <<files, mark, listLock, taskLock, gone, made, given, claimant, overlap, raced>>

UpdateStep(a) ==
  \/ CheckTask(a) \/ LockToUpdate(a) \/ ReadToUpdate(a) \/ TruncateToUpdate(a)
  \/ WriteUpdate(a) \/ NextUpdate(a)

-----------------------------------------------------------------------------
(* createTask, resetTaskList and the numbering of tasks. *)

LockList(a) ==
  /\ call[a].pc = "list lock"
  /\ listLock = NoOne /\ listLock' = a
  /\ Goes(a, "files")
  /\ UNCHANGED <<files, mark, taskLock, update, gone, made, given, claimant, overlap, raced>>

\* findHighestTaskIdFromFiles; createTask reads the mark beside it, in any order.
ReadFiles(a) ==
  /\ call[a].pc \in {"files", "files only"}
  /\ call' = [call EXCEPT ![a].high = IF call[a].pc = "files" THEN Highest ELSE Max({@, Highest}),
                          ![a].pc = CASE @ = "files only" -> "create"
                                      [] @ = "files" /\ call[a].kind = "create" -> "mark"
                                      [] @ = "files" /\ Highest > 0 -> "mark"
                                      [] OTHER -> "unlink all"]
  /\ UNCHANGED <<files, mark, listLock, taskLock, update, gone, made, given, claimant, overlap, raced>>

MarkFirst(a) ==
  /\ call[a].pc = "files" /\ call[a].kind = "create"
  /\ call' = [call EXCEPT ![a].high = mark, ![a].pc = "files only"]
  /\ UNCHANGED <<files, mark, listLock, taskLock, update, gone, made, given, claimant, overlap, raced>>

\* readHighWaterMark, by the call that goes on to raise it or to number a task.
ReadMark(a) ==
  /\ call[a].pc = "mark"
  /\ call' = [call EXCEPT
       ![a].high = IF call[a].kind = "create" THEN Max({@, mark}) ELSE @,
       ![a].pc = CASE call[a].kind = "create" -> "create"
                   [] call[a].kind # "create" /\ call[a].high > mark -> "raise"
                   [] call[a].kind = "delete" /\ call[a].high <= mark -> "unlink"
                   [] OTHER -> "unlink all"]
  /\ UNCHANGED <<files, mark, listLock, taskLock, update, gone, made, given, claimant, overlap, raced>>

\* writeHighWaterMark: the file is empty, which reads as no mark, before it is written.
EmptyMark(a) ==
  /\ call[a].pc = "raise"
  /\ mark' = 0
  /\ Goes(a, "write mark")
  /\ UNCHANGED <<files, listLock, taskLock, update, gone, made, given, claimant, overlap, raced>>

WriteMark(a) ==
  /\ call[a].pc = "write mark"
  /\ mark' = call[a].high
  /\ Goes(a, IF call[a].kind = "delete" THEN "unlink" ELSE "unlink all")
  /\ UNCHANGED <<files, listLock, taskLock, update, gone, made, given, claimant, overlap, raced>>

\* Mutant: only the files that are there are numbered on from.
NextIdFromFiles(k) == Highest + 1

NextId(k) == k.high + 1

CreateFile(a) ==
  /\ call[a].pc = "create"
  /\ NextId(call[a]) \in Ids /\ Write(NextId(call[a]), Torn)
  /\ given' = [given EXCEPT ![NextId(call[a])] = @ + 1]
  /\ call' = [call EXCEPT ![a].id = NextId(call[a]), ![a].pc = "fill"]
  /\ UNCHANGED <<mark, listLock, taskLock, update, gone, made, claimant, overlap, raced>>

FillFile(a) ==
  /\ call[a].pc = "fill"
  /\ Write(call[a].id, NewTask)
  /\ claimant' = [claimant EXCEPT ![call[a].id] = NoOne]
  /\ listLock' = NoOne
  /\ Ends(a)
  /\ UNCHANGED <<mark, taskLock, update, gone, made, given, overlap, raced>>

\* resetTaskList lists the files, and removes one after the other what it has listed.
ListToUnlink(a) ==
  /\ call[a].pc = "unlink all"
  /\ call' = [call EXCEPT ![a].left = DOMAIN files, ![a].pc = "unlink each"]
  /\ UNCHANGED <<files, mark, listLock, taskLock, update, gone, made, given, claimant, overlap, raced>>

UnlinkNext(a) ==
  /\ call[a].pc = "unlink each"
  /\ \E i \in call[a].left :
       /\ files' = [j \in DOMAIN files \ {i} |-> files[j]]
       /\ call' = [call EXCEPT ![a].left = @ \ {i}]
  /\ UNCHANGED <<mark, listLock, taskLock, update, gone, made, given, claimant, overlap, raced>>

EndReset(a) ==
  /\ call[a].pc = "unlink each" /\ call[a].left = {}
  /\ listLock' = NoOne
  /\ Ends(a)
  /\ UNCHANGED <<files, mark, taskLock, update, gone, made, given, claimant, overlap, raced>>

\* The timer that hides a list all of whose tasks are completed clears it.
CheckAllDone(a) ==
  /\ call[a].pc = "all done"
  /\ IF Readable # {} /\ Unresolved = {} THEN Goes(a, "list lock") ELSE Ends(a)
  /\ UNCHANGED <<files, mark, listLock, taskLock, update, gone, made, given, claimant, overlap, raced>>

NumberingStep(a) ==
  \/ LockList(a) \/ ReadFiles(a) \/ MarkFirst(a) \/ ReadMark(a) \/ EmptyMark(a)
  \/ WriteMark(a) \/ CreateFile(a) \/ FillFile(a) \/ ListToUnlink(a) \/ UnlinkNext(a)
  \/ EndReset(a) \/ CheckAllDone(a)

-----------------------------------------------------------------------------
(* Claiming: tryClaimNextTask and claimTask. *)

Available ==
  {i \in Readable : /\ files[i].status = "pending" /\ files[i].owner = NoOne
                    /\ files[i].blockedBy \cap Unresolved = {}}

ListToClaim(a) ==
  /\ call[a].pc = "claim next"
  /\ IF Available = {} THEN Ends(a)
     ELSE \E i \in Available : call' = [call EXCEPT ![a].id = i, ![a].pc = "exists"]
  /\ UNCHANGED <<files, mark, listLock, taskLock, update, gone, made, given, claimant, overlap, raced>>

CheckExists(a) ==
  /\ call[a].pc = "exists"
  /\ IF call[a].id \in Readable THEN Goes(a, "task lock") ELSE Ends(a)
  /\ UNCHANGED <<files, mark, listLock, taskLock, update, gone, made, given, claimant, overlap, raced>>

LockToClaim(a) ==
  /\ call[a].pc = "task lock"
  /\ IF call[a].id \in DOMAIN files
     THEN /\ taskLock[call[a].id] = NoOne
          /\ taskLock' = [taskLock EXCEPT ![call[a].id] = a]
          /\ Goes(a, "owner")
     ELSE Ends(a) /\ UNCHANGED taskLock
  /\ UNCHANGED <<files, mark, listLock, update, gone, made, given, claimant, overlap, raced>>

\* Mutant: the owner is not looked at again under the lock.
ClaimableUnowned(a, t) == t.status # "completed"

Claimable(a, t) == t.owner \in {NoOne, a} /\ t.status # "completed"

CheckOwner(a) ==
  /\ call[a].pc = "owner"
  /\ IF call[a].id \in Readable /\ Claimable(a, files[call[a].id])
     THEN /\ call' = [call EXCEPT ![a].pc = "blockers",
                                  ![a].blockers = files[call[a].id].blockedBy]
          /\ UNCHANGED taskLock
     ELSE Ends(a) /\ Free(a, call[a].id)
  /\ UNCHANGED <<files, mark, listLock, update, gone, made, given, claimant, overlap, raced>>

\* Mutant: the update of a claim takes the lock the claim holds.
ClaimUpdatesLocking == "check"

\* Where the update of a claim begins: under the lock it has.
ClaimUpdates == "read"

\* The task's blockers among what listTasks reads; then the claim, and after it the
\* status.
CheckBlockers(a) ==
  /\ call[a].pc = "blockers"
  /\ IF call[a].blockers \cap Unresolved # {}
     THEN Ends(a) /\ Free(a, call[a].id) /\ UNCHANGED update
     ELSE /\ update' = [update EXCEPT ![a] =
                          Begun(UpdateOf(call[a].id, [owner |-> a]), ClaimUpdates)]
          /\ Updates(a, <<UpdateOf(call[a].id, [status |-> "in_progress"])>>)
          /\ UNCHANGED taskLock
  /\ UNCHANGED <<files, mark, listLock, gone, made, given, claimant, overlap, raced>>

ClaimStep(a) ==
  ListToClaim(a) \/ CheckExists(a) \/ LockToClaim(a) \/ CheckOwner(a) \/ CheckBlockers(a)

-----------------------------------------------------------------------------
(* TaskUpdate, deleteTask, blockTask and unassignTeammateTasks. *)

\* TaskUpdate reads the task, then sets what differs from what it was asked for: a
\* task that is started without an owner gets the agent.
FieldsToSet(a, t) ==
  LET status == IF call[a].kind = "complete" THEN "completed" ELSE "in_progress"
  IN Over(IF status = t.status THEN <<>> ELSE [status |-> status],
          IF call[a].kind = "start" /\ t.owner = NoOne THEN [owner |-> a] ELSE <<>>)

ReadToSet(a) ==
  /\ call[a].pc = "read"
  /\ IF call[a].id \in Readable /\ FieldsToSet(a, files[call[a].id]) # <<>>
     THEN Updates(a, <<UpdateOf(call[a].id, FieldsToSet(a, files[call[a].id]))>>)
     ELSE Ends(a)
  /\ UNCHANGED <<files, mark, listLock, taskLock, update, gone, made, given, claimant, overlap, raced>>

ReadToDelete(a) ==
  /\ call[a].pc = "delete"
  /\ IF call[a].id \in Readable
     THEN call' = [call EXCEPT ![a].high = call[a].id, ![a].pc = "mark"]
     ELSE Ends(a)
  /\ UNCHANGED <<files, mark, listLock, taskLock, update, gone, made, given, claimant, overlap, raced>>

UnlinkTask(a) ==
  /\ call[a].pc = "unlink"
  /\ files' = [i \in DOMAIN files \ {call[a].id} |-> files[i]]
  /\ IF call[a].id \in DOMAIN files THEN Goes(a, "list references") ELSE Ends(a)
  /\ UNCHANGED <<mark, listLock, taskLock, update, gone, made, given, claimant, overlap, raced>>

\* Mutant: only the tasks it blocks forget a deleted task.
WithoutForward(t, i) == [blocks |-> t.blocks, blockedBy |-> t.blockedBy \ {i}]

Without(t, i) == [blocks |-> t.blocks \ {i}, blockedBy |-> t.blockedBy \ {i}]

\* The references are taken out of what the listing shows.
ListReferences(a) ==
  LET i == call[a].id
      refer == {j \in Readable : i \in files[j].blocks \cup files[j].blockedBy}
  IN /\ call[a].pc = "list references"
     /\ Updates(a, [n \in DOMAIN InOrder(refer) |->
                      LET j == InOrder(refer)[n] IN UpdateOf(j, Without(files[j], i))])
     /\ UNCHANGED <<files, mark, listLock, taskLock, update, gone, made, given, claimant, overlap, raced>>

\* blockTask: both tasks are read first; task id blocks task high.
ReadToBlock(a) ==
  LET from == call[a].id
      to == call[a].high
  IN /\ call[a].pc = "read both"
     /\ IF from \in Readable /\ to \in Readable
        THEN Updates(a,
               (IF to \in files[from].blocks THEN <<>>
                ELSE <<UpdateOf(from, [blocks |-> files[from].blocks \cup {to}])>>) \o
               (IF from \in files[to].blockedBy THEN <<>>
                ELSE <<UpdateOf(to, [blockedBy |-> files[to].blockedBy \cup {from}])>>))
        ELSE Ends(a)
     /\ UNCHANGED <<files, mark, listLock, taskLock, update, gone, made, given, claimant, overlap, raced>>

\* The open tasks of the agent that is gone.
ListToUnassign(a) ==
  LET open == {i \in Unresolved : files[i].owner = call[a].other}
  IN /\ call[a].pc = "list open"
     /\ Updates(a, [n \in DOMAIN InOrder(open) |->
                      UpdateOf(InOrder(open)[n], [owner |-> NoOne, status |-> "pending"])])
     /\ UNCHANGED <<files, mark, listLock, taskLock, update, gone, made, given, claimant, overlap, raced>>

UnlockedStep(a) ==
  \/ ReadToSet(a) \/ ReadToDelete(a) \/ UnlinkTask(a) \/ ListReferences(a)
  \/ ReadToBlock(a) \/ ListToUnassign(a)

-----------------------------------------------------------------------------

Entry(kind) ==
  CASE kind \in {"create", "reset"} -> "list lock" [] kind = "hide" -> "all done"
    [] kind = "claim" -> "claim next" [] kind \in {"start", "complete"} -> "read"
    [] kind = "delete" -> "delete" [] kind = "block" -> "read both"
    [] kind = "unassign" -> "list open"

\* Agent a makes a call on task i, and for blockTask on task j.
Begin(a, kind, i, j, other) ==
  /\ call[a] = NoCall /\ a \notin gone /\ made < MaxCalls /\ made' = made + 1
  /\ call' = [call EXCEPT ![a] = [NoCall EXCEPT !.kind = kind, !.pc = Entry(kind), !.id = i,
                                                !.high = j, !.other = other]]
  /\ overlap' = (overlap \/ \E b \in Agents \ {a} :
                              call[b] # NoCall /\ ~Serialised(kind, call[b].kind))
  /\ raced' = (raced \/ \E b \in Agents \ {a} :
                          call[b] # NoCall /\ Races(kind, call[b].kind))
  /\ UNCHANGED <<files, mark, listLock, taskLock, update, gone, given, claimant>>

MakesCall(a) ==
  \/ \E kind \in Kinds \cap {"create", "claim", "reset", "hide"} : Begin(a, kind, 0, 0, NoOne)
  \/ \E kind \in Kinds \cap {"start", "complete", "delete"}, i \in DOMAIN files :
       Begin(a, kind, i, 0, NoOne)
  \/ "block" \in Kinds /\ \E i, j \in DOMAIN files : i # j /\ Begin(a, "block", i, j, NoOne)
  \/ "unassign" \in Kinds /\ \E b \in gone : Begin(a, "unassign", 0, 0, b)

\* An agent is killed: its locks turn stale, a file it was writing stays torn.
Kill(a) ==
  /\ a \notin gone /\ Cardinality(gone) < MaxKills
  /\ gone' = gone \cup {a}
  /\ call' = [call EXCEPT ![a] = NoCall]
  /\ update' = [update EXCEPT ![a] = NoUpdate]
  /\ listLock' = IF listLock = a THEN NoOne ELSE listLock
  /\ taskLock' = [i \in Ids |-> IF Holds(a, i) THEN NoOne ELSE taskLock[i]]
  /\ UNCHANGED <<files, mark, made, given, claimant, overlap, raced>>

AgentStep(a) ==
  \/ UpdateStep(a)
  \/ update[a] = NoUpdate /\ (NumberingStep(a) \/ ClaimStep(a) \/ UnlockedStep(a))

Init ==
  /\ files = [i \in 1 .. InitialTasks |-> NewTask] /\ mark = 0
  /\ listLock = NoOne /\ taskLock = [i \in Ids |-> NoOne]
  /\ call = [a \in Agents |-> NoCall] /\ update = [a \in Agents |-> NoUpdate]
  /\ gone = {} /\ made = 0 /\ given = [i \in Ids |-> IF i <= InitialTasks THEN 1 ELSE 0]
  /\ claimant = [i \in Ids |-> NoOne] /\ overlap = FALSE /\ raced = FALSE

Next == \E a \in Agents : AgentStep(a) \/ MakesCall(a) \/ Kill(a)

\* A call that has been made goes on; the lock's retries outlast the other calls.
Fairness == \A a \in Agents : WF_vars(AgentStep(a))

Spec == Init /\ [][Next]_vars
FairSpec == Spec /\ Fairness

-----------------------------------------------------------------------------
(* Properties *)

\* The state is of its type, and whoever holds a lock is in a call: no early return
\* keeps one.
TypeOK ==
  /\ DOMAIN files \subseteq Ids
  /\ \A i \in DOMAIN files : files[i] = Torn \/ files[i] \in Task
  /\ mark \in Ids \cup {0} /\ listLock \in Owner /\ taskLock \in [Ids -> Owner]
  /\ \A a \in Agents : call[a].kind \in AllKinds \cup {"none"} /\ call[a].id \in Ids \cup {0}
  /\ \A a \in Agents : update[a].id \in Ids \cup {0} /\ update[a].task \in Task
  /\ gone \subseteq Agents /\ made \in 0 .. MaxCalls /\ given \in [Ids -> Nat]
  /\ claimant \in [Ids -> Owner] /\ overlap \in BOOLEAN /\ raced \in BOOLEAN
  /\ \A a \in Agents : call[a] = NoCall =>
       listLock # a /\ update[a] = NoUpdate /\ \A i \in Ids : ~Holds(a, i)

\* No two agents claim the same task: not while the first lives, and not before its
\* claim is taken back once it is gone; whatever other calls cross the claims, as long as
\* no claim has been under way together with a start or an unassign, which write the
\* owner they decided on before the lock (raced).  (claimTask)
ClaimedOnce ==
  [][\A i \in Ids : claimant'[i] # claimant[i] /\ claimant'[i] # NoOne =>
       raced \/ claimant[i] = NoOne]_vars

\* A new task never gets the id of an earlier one, whether that is still there or was
\* cleared with the list, as long as no delete, which takes no lock on the list, has been
\* under way together with another call, nor another two that no lock keeps apart
\* (overlap).  (the comments on the high water mark, "to prevent ID reuse")
IdsNeverReused ==
  overlap \/ \A i \in Ids : given[i] <= 1

\* From the read under the lock to its write, an update has the task to itself, as long
\* as the id has not gone to another task: what the file says is what it has read, and
\* nobody else is about to write that file.  So the fields an update is not given keep
\* their latest values; of those it is given this says nothing: the calls that decide on
\* them before the lock may write over later ones.  (updateTaskUnsafe under the lock)
UpdatesMerge ==
  \A a \in Agents :
    LET i == update[a].id
    IN update[a].pc \in {"truncate", "write"} /\ given[i] <= 1 =>
         /\ update[a].pc = "truncate" /\ i \in Readable => files[i] = update[a].task
         /\ update[a].pc = "write" => i \notin Readable
         /\ \A b \in Agents \ {a} :
              /\ ~(call[b].pc = "fill" /\ call[b].id = i)
              /\ ~(update[b].pc \in {"truncate", "write"} /\ update[b].id = i)

\* When no call is under way, a task is blocked by exactly those that say they block
\* it, deleted ones left out, unless an agent was killed half way.
\* (blockTask and the references of deleteTask)
BlocksAgree ==
  (\A a \in Agents : call[a] = NoCall) /\ gone = {} /\ ~overlap =>
    \A i \in DOMAIN files :
      /\ \A j \in files[i].blocks : j \in DOMAIN files /\ i \in files[j].blockedBy
      /\ \A j \in files[i].blockedBy : j \in DOMAIN files /\ i \in files[j].blocks

\* Every call comes to an end, whichever locks it needs and whoever is killed holding
\* one.  ("Callers already holding a lock on taskPath must use this to avoid deadlock")
CallsEnd == \A a \in Agents : (call[a] # NoCall) ~> (call[a] = NoCall)
=============================================================================
