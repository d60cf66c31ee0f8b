------------------------------ MODULE Prompts -------------------------------
(***************************************************************************)
(* How an interactive session runs one turn at a time: the guard of the    *)
(* query (utils/QueryGuard.ts), the prompts that are submitted             *)
(* (utils/handlePromptSubmit.ts), the effect that works the command queue  *)
(* (hooks/useQueueProcessor.ts) and the turns with their cancellation      *)
(* (screens/REPL.tsx).                                                     *)
(*                                                                         *)
(* A turn processes its input, which awaits; then it queries, which awaits *)
(* too; a cancelled turn goes on until it notices.  What happens between   *)
(* two awaits that leave the microtask queue is one step.                  *)
(***************************************************************************)
EXTENDS CommandQueue

CONSTANTS
  Kinds,         \* the commands that arrive
  MaxCommands,   \* bound on them
  MaxActs        \* bound on what else the user does

ASSUME PromptsAssumption ==
  /\ Kinds \subseteq AllKinds \cup {"incoming"}
  /\ MaxCommands \in Nat /\ MaxActs \in Nat

VARIABLES
  queue,        \* the command queue
  status,       \* the guard: idle, dispatching or running
  generation,   \* its generation
  turns,        \* the turns there have been
  ctl,          \* the turn whose abort controller the session knows, 0 for none
  seen,         \* whether the queue's effect has seen the queue, and the guard it saw
  made,         \* number of commands so far
  acts,         \* number of the user's other acts so far
  told,         \* how often each command has gone to the model
  settled,      \* commands that were answered locally, failed, or were taken back
  cleared,      \* commands that were thrown away with the queue
  holder,       \* the turn that made the latest reservation
  crossed       \* whether a turn has undone what was another's

vars == <<queue, status, generation, turns, ctl, seen, made, acts, told, settled,
          cleared, holder, crossed>>

IsActive == status # "idle"
Ids(cmds) == {c.id : c \in Range(cmds)}
NoTurn == [pc |-> "input", cmds |-> <<>>, gen |-> 0, aborted |-> FALSE, snapshot |-> <<>>]

Becomes(t, pc) == turns' = [turns EXCEPT ![t].pc = pc]
AbortOf(t) == [turns EXCEPT ![t].aborted = TRUE]
Tell(cmds) == told' = [i \in DOMAIN told |-> IF i \in Ids(cmds) THEN told[i] + 1 ELSE told[i]]
Settle(cmds) == settled' = settled \cup Ids(cmds)

NewCommand(kind) == [id |-> made + 1, kind |-> kind]

\* A change of the queue makes a snapshot the queue's effect has not seen.
Queue(q) ==
  /\ queue' = q
  /\ seen' = IF q = queue THEN seen ELSE [seen EXCEPT !.queue = FALSE]
Enqueue(cmd) == Queue(Append(queue, cmd))

-----------------------------------------------------------------------------
(* The guard. *)

\* Mutant: the guard is left idle while the input is processed.
ReserveNot(t) == UNCHANGED <<status, holder>>

Reserve(t) ==
  IF status = "idle" THEN status' = "dispatching" /\ holder' = t
  ELSE UNCHANGED <<status, holder>>

CancelReservation(s) == IF s = "dispatching" THEN "idle" ELSE s

\* What tryStart lets through.
MayStart == status # "running"

\* Mutant: a turn ends the query of whatever turn is running.
IsCurrentAny(t) == status = "running"

\* Whether end finds the turn's query to be the current one.
IsCurrent(t) == generation = turns[t].gen /\ status = "running"

\* Whether t is about to release or take over a reservation that is not its own.
Intrudes(t) == status = "dispatching" /\ holder # t

\* Whether t is about to clear a controller that is not its own.
Disarms(t) == ctl \notin {0, t}

-----------------------------------------------------------------------------
(* How a turn begins. *)

\* executeUserInput up to its first await.
Begin(cmds) ==
  /\ turns' = Append(turns, [NoTurn EXCEPT !.cmds = cmds])
  /\ ctl' = Len(turns) + 1
  /\ Reserve(Len(turns) + 1)
  /\ UNCHANGED <<generation, acts, told, settled, cleared, crossed>>

\* The user submits: at once when nothing is active, otherwise through the queue,
\* which may interrupt tools that allow it.
Submit(kind) ==
  /\ kind \in {"prompt", "slash", "bash"} /\ made < MaxCommands /\ made' = made + 1
  /\ \/ /\ ~IsActive /\ Begin(<<NewCommand(kind)>>)
        /\ UNCHANGED <<queue, seen>>
     \/ /\ IsActive /\ Enqueue(NewCommand(kind))
        /\ \/ UNCHANGED turns
           \/ ctl # 0 /\ turns' = AbortOf(ctl)
        /\ UNCHANGED <<status, generation, ctl, acts, told, settled, cleared, holder, crossed>>

\* A task's notification, a scheduled prompt or a proactive one joins the queue.
Notify(kind) ==
  /\ kind \in {"note", "agent", "cron", "tick"} /\ made < MaxCommands /\ made' = made + 1
  /\ Enqueue(NewCommand(kind))
  /\ UNCHANGED <<status, generation, turns, ctl, acts, told, settled, cleared, holder, crossed>>

\* handleIncomingPrompt: a teammate's message starts a query of its own.
Incoming(kind) ==
  /\ kind = "incoming" /\ made < MaxCommands /\ made' = made + 1
  /\ ~IsActive /\ \A c \in Range(queue) : Mode(c) = "task-notification"
  /\ status' = "running" /\ generation' = generation + 1
  /\ turns' = Append(turns, [NoTurn EXCEPT !.pc = "query", !.gen = generation'])
  /\ ctl' = Len(turns) + 1
  /\ told' = [told EXCEPT ![made'] = 1]
  /\ UNCHANGED <<queue, seen, acts, settled, cleared, holder, crossed>>

\* The effect runs when the queue or the guard is not as it saw it last.
Process ==
  /\ seen # [queue |-> TRUE, active |-> IsActive]
  /\ IF IsActive \/ TakenBetween(queue) = <<>>
     THEN /\ seen' = [queue |-> TRUE, active |-> IsActive]
          /\ UNCHANGED <<queue, status, generation, turns, ctl, acts, told, settled, cleared,
                         holder, crossed>>
     ELSE /\ queue' = Without(queue, TakenBetween(queue)) /\ Begin(TakenBetween(queue))
          /\ seen' = [queue |-> FALSE, active |-> FALSE]
  /\ UNCHANGED made

-----------------------------------------------------------------------------
(* How a turn goes on. *)

\* The commands a turn puts back when it finds another running: their text, as
\* prompts, without what the program wrote.
PutBack(t) ==
  LET shown == Only(turns[t].cmds, {c \in Range(turns[t].cmds) : ~IsMeta(c)})
  IN  [n \in DOMAIN shown |-> [id |-> shown[n].id, kind |-> "prompt"]]

\* onQuery finds the guard running.
FindsRunning(t) ==
  /\ turns[t].pc = "input" /\ ~MayStart
  /\ Queue(queue \o PutBack(t))
  /\ Becomes(t, "over")
  /\ status' = CancelReservation(status)
  /\ UNCHANGED <<generation, ctl, made, acts, told, settled, cleared, holder, crossed>>

\* onQuery starts the query.
StartsQuery(t) ==
  /\ turns[t].pc = "input" /\ MayStart
  /\ status' = "running" /\ generation' = generation + 1
  /\ turns' = [turns EXCEPT ![t].pc = "query", ![t].gen = generation + 1]
  /\ Tell(turns[t].cmds)
  /\ crossed' = (crossed \/ Intrudes(t))
  /\ UNCHANGED <<queue, ctl, seen, made, acts, settled, cleared, holder>>

\* A slash command may submit another input when it is done.
Chains(t) ==
  \/ UNCHANGED <<queue, seen, made>>
  \/ /\ IsSlash(turns[t].cmds[1]) /\ made < MaxCommands /\ made' = made + 1
     /\ Enqueue(NewCommand("prompt"))

\* onQuery is told not to query, for a bash or slash command, or because a hook has
\* stopped the first input: it starts and ends.
AnswersLocally(t) ==
  /\ turns[t].pc = "input" /\ MayStart
  /\ status' = "idle" /\ generation' = generation + 1
  /\ Becomes(t, "over") /\ ctl' = 0
  /\ Settle(turns[t].cmds) /\ Chains(t)
  /\ crossed' = (crossed \/ Intrudes(t) \/ Disarms(t))
  /\ UNCHANGED <<acts, told, cleared, holder>>

\* A slash command leaves no message.
LeavesNoMessage(t) ==
  /\ turns[t].pc = "input" /\ IsSlash(turns[t].cmds[1])
  /\ status' = CancelReservation(status) /\ ctl' = 0
  /\ Becomes(t, "over") /\ Settle(turns[t].cmds) /\ Chains(t)
  /\ crossed' = (crossed \/ Intrudes(t) \/ Disarms(t))
  /\ UNCHANGED <<generation, acts, told, cleared, holder>>

\* Processing the input throws: the finally of executeUserInput.
InputThrows(t) ==
  /\ turns[t].pc = "input"
  /\ status' = CancelReservation(status)
  /\ Becomes(t, "over") /\ Settle(turns[t].cmds)
  /\ crossed' = (crossed \/ Intrudes(t))
  /\ UNCHANGED <<queue, generation, ctl, seen, made, acts, told, cleared, holder>>

\* After its tools an unaborted query takes a snapshot of the queue; a tool that
\* sleeps makes it take the notifications along.
DrainBegins(t) ==
  /\ turns[t].pc = "query" /\ ~turns[t].aborted
  /\ \E rank \in {1, 2} :
       /\ Inline(Snapshot(queue, rank)) # <<>>
       /\ turns' = [turns EXCEPT ![t].pc = "drain", ![t].snapshot = Snapshot(queue, rank)]
  /\ UNCHANGED <<queue, status, generation, ctl, seen, made, acts, told, settled, cleared,
                 holder, crossed>>

\* It has attached the commands and removes them.
DrainEnds(t) ==
  /\ turns[t].pc = "drain" /\ Becomes(t, "query")
  /\ Tell(Inline(turns[t].snapshot))
  /\ Queue(Without(queue, Consumed(turns[t].snapshot)))
  /\ UNCHANGED <<status, generation, ctl, made, acts, settled, cleared, holder, crossed>>

\* The query is over, or has noticed that it was aborted: the finally of onQuery,
\* then that of executeUserInput for a turn that came that way.
QueryEnds(t) ==
  /\ turns[t].pc = "query" /\ Becomes(t, "over")
  /\ IF IsCurrent(t)
     THEN /\ status' = "idle" /\ ctl' = 0
          /\ crossed' = (crossed \/ Disarms(t))
     ELSE /\ status' = IF turns[t].cmds = <<>> THEN status ELSE CancelReservation(status)
          /\ crossed' = (crossed \/ (turns[t].cmds # <<>> /\ Intrudes(t)))
          /\ UNCHANGED ctl
  /\ UNCHANGED <<queue, generation, seen, made, acts, told, settled, cleared, holder>>

InputDone(t) ==
  FindsRunning(t) \/ StartsQuery(t) \/ AnswersLocally(t) \/ LeavesNoMessage(t) \/ InputThrows(t)

-----------------------------------------------------------------------------
(* What else the user does. *)

Acts == acts < MaxActs /\ acts' = acts + 1

\* onCancel, which the escape key reaches while there is something to abort.
Cancel ==
  /\ Acts /\ ctl # 0 /\ ~turns[ctl].aborted
  /\ status' = "idle" /\ generation' = IF IsActive THEN generation + 1 ELSE generation
  /\ turns' = AbortOf(ctl) /\ ctl' = 0
  /\ UNCHANGED <<queue, seen, made, told, settled, cleared, holder, crossed>>

\* popAllEditable
TakeBack ==
  /\ Acts /\ EditableOf(queue) # <<>>
  /\ Queue(Without(queue, EditableOf(queue))) /\ Settle(EditableOf(queue))
  /\ UNCHANGED <<status, generation, turns, ctl, made, told, cleared, holder, crossed>>

\* The agents are killed: all that is queued is thrown away, what the user has written
\* too, and a notification of the kill is queued.  (clearCommandQueue is to "discard
\* queued notifications", its comment says.)
KillAgents ==
  /\ Acts /\ made < MaxCommands /\ made' = made + 1
  /\ cleared' = cleared \cup Ids(queue) /\ Queue(<<NewCommand("note")>>)
  /\ UNCHANGED <<status, generation, turns, ctl, told, settled, holder, crossed>>

\* The query goes to the background, and the notifications with it.
Background ==
  /\ Acts /\ ctl # 0 /\ turns' = AbortOf(ctl)
  /\ Settle(NotesOf(queue)) /\ Queue(Without(queue, NotesOf(queue)))
  /\ UNCHANGED <<status, generation, ctl, made, told, cleared, holder, crossed>>

\* An agent's own loop takes the notifications that are addressed to it.
AgentTakes ==
  /\ \E c \in Range(queue) : ~ForMain(c)
  /\ Queue(Only(queue, {c \in Range(queue) : ForMain(c)}))
  /\ settled' = settled \cup {c.id : c \in {d \in Range(queue) : ~ForMain(d)}}
  /\ UNCHANGED <<status, generation, turns, ctl, made, acts, told, cleared, holder, crossed>>

-----------------------------------------------------------------------------

Init ==
  /\ queue = <<>> /\ status = "idle" /\ generation = 0 /\ turns = <<>> /\ ctl = 0
  /\ seen = [queue |-> TRUE, active |-> FALSE] /\ made = 0 /\ acts = 0 /\ told = [i \in 1 .. MaxCommands |-> 0]
  /\ settled = {} /\ cleared = {} /\ holder = 0 /\ crossed = FALSE

Next ==
  \/ \E kind \in Kinds : Submit(kind) \/ Notify(kind) \/ Incoming(kind)
  \/ Process
  \/ \E t \in DOMAIN turns : InputDone(t) \/ DrainBegins(t) \/ DrainEnds(t) \/ QueryEnds(t)
  \/ Cancel \/ TakeBack \/ KillAgents \/ Background \/ AgentTakes

\* React runs the effect, the input is processed and the query comes to its end.
Fairness ==
  /\ WF_vars(Process)
  /\ \A t \in 1 .. MaxCommands + MaxActs :
       WF_vars(t \in DOMAIN turns /\ (InputDone(t) \/ DrainEnds(t)))
       /\ WF_vars(t \in DOMAIN turns /\ QueryEnds(t))

Spec == Init /\ [][Next]_vars
FairSpec == Spec /\ Fairness

-----------------------------------------------------------------------------
(* Properties *)

InInput == {t \in DOMAIN turns : turns[t].pc = "input"}
Querying == {t \in DOMAIN turns : turns[t].pc \in {"query", "drain"}}

\* The state is of its type, and a command is in one place: not twice in the queue,
\* nor in it and in the hands of a turn that has still to put it to the model.
TypeOK ==
  /\ Range(queue) \subseteq Command /\ status \in {"idle", "dispatching", "running"}
  /\ generation \in Nat /\ ctl \in {0} \cup DOMAIN turns /\ made \in 0 .. MaxCommands
  /\ told \in [1 .. MaxCommands -> Nat] /\ settled \cup cleared \subseteq 1 .. made
  /\ holder \in {0} \cup DOMAIN turns /\ crossed \in BOOLEAN
  /\ \A i, j \in DOMAIN queue : queue[i].id = queue[j].id => i = j
  /\ \A t \in InInput : Ids(turns[t].cmds) \cap Ids(queue) = {}

\* The guard is running exactly when the query of its generation is, and reserved only
\* while some turn processes its input: no stale end releases a newer query, no
\* reservation is left behind that would stop the session for good.  (QueryGuard)
GuardAgrees ==
  /\ status = "running" <=> \E t \in Querying : turns[t].gen = generation
  /\ status = "dispatching" => InInput # {}

\* A query that has not been aborted is the one the session's controller aborts, so
\* there is one at most and escape reaches it; unless a turn that was cancelled, while it
\* processed its input or in its query, has at its end released or taken over the
\* reservation of another turn, or cleared the controller of one.  (tryStart,
\* setAbortController, the finally of executeUserInput)
OneQuery ==
  \A t \in Querying : turns[t].aborted \/ ctl = t \/ crossed

\* A command that has arrived is in the queue, in a turn's hands, told to the model,
\* answered or taken back.  Two things get lost: what was queued when the agents were
\* killed, the user's prompts among it; and what the program wrote, when its turn was
\* cancelled or lost its reservation to one that was, and finds another query running.
\* (the drains, what onQuery puts back, clearCommandQueue)
NothingLost ==
  \A i \in 1 .. made :
    \/ i \in Ids(queue) \/ told[i] > 0 \/ i \in settled \/ i \in cleared
    \/ \E t \in InInput : i \in Ids(turns[t].cmds)
    \/ \E t \in DOMAIN turns : \E c \in Range(turns[t].cmds) :
         c.id = i /\ IsMeta(c) /\ (turns[t].aborted \/ crossed)

\* No command is told twice, unless a query was aborted while it was attaching it, or a
\* cancelled turn has undone what was another's (as for OneQuery).  (the removal behind
\* the attachments in query.ts)
ToldOnce ==
  \A i \in 1 .. made :
    told[i] > 1 => crossed \/ \E t \in DOMAIN turns :
                                turns[t].aborted /\ i \in Ids(turns[t].snapshot)

\* What is queued for the session leaves the queue, whatever is queued beside it and
\* however the turns before it end.  (the comment in queueProcessor.ts: a prompt that
\* "stalls permanently")
QueueDrains ==
  \A i \in 1 .. MaxCommands :
    (\E c \in Range(queue) : c.id = i /\ ForMain(c)) ~> i \notin Ids(queue)

=============================================================================
