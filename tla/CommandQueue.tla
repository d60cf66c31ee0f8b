---------------------------- MODULE CommandQueue ----------------------------
(***************************************************************************)
(* The command queue of the session (utils/messageQueueManager.ts) and     *)
(* what is taken from it between two turns (utils/queueProcessor.ts) and   *)
(* in the middle of one (query.ts).                                        *)
(***************************************************************************)
EXTENDS Naturals, Sequences, Functions

\* prompt, slash and bash are the user's; note and agent are notifications of
\* background tasks, to the session and to one of its agents; cron is a scheduled
\* prompt and tick a proactive one, both written by the program.
AllKinds == {"prompt", "slash", "bash", "note", "agent", "cron", "tick"}

Command == [id: Nat, kind: AllKinds]

Mode(c) ==
  CASE c.kind = "bash" -> "bash"
    [] c.kind \in {"note", "agent"} -> "task-notification"
    [] OTHER -> "prompt"

\* PRIORITY_ORDER: next before later.
Rank(c) == IF c.kind \in {"note", "agent", "cron"} THEN 2 ELSE 1

IsSlash(c) == c.kind = "slash"
IsMeta(c) == c.kind \in {"cron", "tick"}
ForMain(c) == c.kind # "agent"
Editable(c) == Mode(c) # "task-notification" /\ ~IsMeta(c)

\* The commands of q that are in S, in their order.
Only(q, S) ==
  LET upTo[n \in 0 .. Len(q)] ==
        IF n = 0 THEN <<>>
        ELSE IF q[n] \in S THEN Append(upTo[n - 1], q[n]) ELSE upTo[n - 1]
  IN upTo[Len(q)]

\* Mutant: what is taken stays in the queue.
WithoutNot(q, taken) == q

Without(q, taken) == Only(q, Range(q) \ Range(taken))

\* Mutant: peek looks at the commands for the agents too.
CandidatesAny(q) == DOMAIN q

\* The commands peek considers.
Candidates(q) == {i \in DOMAIN q : ForMain(q[i])}

\* The first of the best priority.
Best(q) ==
  q[CHOOSE i \in Candidates(q) :
      \A j \in Candidates(q) :
        Rank(q[i]) < Rank(q[j]) \/ (Rank(q[i]) = Rank(q[j]) /\ i <= j)]

\* processQueueIfReady: a slash or bash command on its own, otherwise all of its mode.
TakenBetween(q) ==
  CASE Candidates(q) = {} -> <<>>
    [] Candidates(q) # {} /\ (IsSlash(Best(q)) \/ Mode(Best(q)) = "bash") -> <<Best(q)>>
    [] OTHER -> Only(q, {c \in Range(q) : /\ ForMain(c) /\ ~IsSlash(c)
                                         /\ Mode(c) = Mode(Best(q))})

\* The snapshot a turn takes after its tools: up to the given priority.
Snapshot(q, rank) ==
  Only(q, {c \in Range(q) : ForMain(c) /\ ~IsSlash(c) /\ Rank(c) <= rank})

\* Those of the snapshot that become attachments.
Inline(snapshot) == Only(snapshot, {c \in Range(snapshot) : Mode(c) # "bash"})

\* Mutant: everything in the snapshot is taken to be consumed.
ConsumedAll(snapshot) == snapshot

\* Mutant: the commands are looked up as copies, so that none is found.
ConsumedNone(snapshot) == <<>>

\* Those that are removed from the queue.
Consumed(snapshot) == Inline(snapshot)

EditableOf(q) == Only(q, {c \in Range(q) : Editable(c)})
NotesOf(q) == Only(q, {c \in Range(q) : Mode(c) = "task-notification"})

=============================================================================
