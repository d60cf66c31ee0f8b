---------------------------- MODULE ToolSchedule ----------------------------
(***************************************************************************)
(* What the tool executor of Clawd Code promises about the calls of one    *)
(* response, without saying how: a call that needs exclusive access is     *)
(* ordered with every other call of its response, calls that do not may    *)
(* overlap, and a call is reported once, after it is over.                 *)
(***************************************************************************)
EXTENDS Naturals, Sequences

VARIABLE calls   \* [response, exclusive, stage] of the calls, as they were received

Over(c) == c.stage \in {"finished", "reported"}

\* Call i is in turn: every earlier call of its response is over, unless neither
\* of the two needs exclusive access.
InTurn(cs, i) ==
  \A j \in 1 .. i - 1 :
    /\ cs[j].response = cs[i].response
    /\ cs[j].exclusive \/ cs[i].exclusive
    => Over(cs[j])

\* A call leaves the queue in its turn, to run or, cancelled, to be over at once.
Moves(i) ==
  \/ calls'[i].stage = calls[i].stage
  \/ /\ calls[i].stage = "waiting" /\ calls'[i].stage \in {"running", "finished"}
     /\ InTurn(calls, i)
  \/ calls[i].stage = "running" /\ calls'[i].stage = "finished"
  \/ calls[i].stage = "finished" /\ calls'[i].stage = "reported"

\* A call that has just been received may run at once if it is in turn; one that
\* nothing has to be run for is over whatever runs.
Arrives(i) ==
  \/ calls'[i].stage = "waiting"
  \/ calls'[i].stage \in {"running", "finished"} /\ InTurn(calls', i)
  \/ calls'[i].stage = "finished" /\ ~calls'[i].exclusive

Init == calls = <<>>

Next ==
  /\ Len(calls') \in {Len(calls), Len(calls) + 1}
  /\ \A i \in DOMAIN calls' :
       IF i \in DOMAIN calls
       THEN /\ calls'[i].response = calls[i].response
            /\ calls'[i].exclusive = calls[i].exclusive
            /\ Moves(i)
       ELSE Arrives(i)

Spec == Init /\ [][Next]_calls
=============================================================================
