---------------------------- MODULE ToolExecutor ----------------------------
(***************************************************************************)
(* The streaming tool executor of Clawd Code                               *)
(* (services/tools/StreamingToolExecutor.ts) under the query loop that     *)
(* feeds and drains it (query.ts).                                         *)
(*                                                                         *)
(* JavaScript runs one segment between two awaits at a time: an action is  *)
(* such a segment.  A processQueue loop that has started a call is         *)
(* suspended at its await until ResumeLoop; the loop that a finished call  *)
(* asks for is due until FreshLoop.  Calls are numbered in the order in    *)
(* which they arrive, through all the attempts at the response; an attempt *)
(* has an executor of its own, and a discarded one goes on in the          *)
(* background.                                                             *)
(***************************************************************************)
EXTENDS Integers, Sequences, FiniteSets, FiniteSetsExt

CONSTANTS
  Kinds,            \* kinds of tool call the model may ask for
  SafeKinds,        \* those that may share the session with other safe ones
  BashKinds,        \* those of the Bash tool, whose error cancels the rest
  ModifyingKinds,   \* those whose result carries a context modifier
  UnknownKinds,     \* names no tool has
  CancelKinds,      \* those whose interrupt behaviour is "cancel"
  AbortReasons,     \* reasons a turn may be aborted for
  MaxCalls,         \* bound on the calls received
  MaxAttempts,      \* bound on the attempts at the response
  MaxGivenUp,       \* bound on the calls of attempts that are given up
  MaxProgress       \* bound on the progress messages

ASSUME KindsAssumption ==
  /\ SafeKinds \subseteq Kinds /\ BashKinds \subseteq Kinds
  /\ ModifyingKinds \subseteq Kinds /\ CancelKinds \subseteq Kinds
  /\ AbortReasons \subseteq {"user", "interrupt"}
  /\ UnknownKinds \subseteq SafeKinds   \* addTool enters an unknown name as safe

ASSUME BoundsAssumption ==
  /\ MaxCalls \in Nat /\ MaxAttempts \in Nat \ {0}
  /\ MaxGivenUp \in Nat /\ MaxProgress \in Nat

VARIABLES
  calls,      \* the tracked tools of every executor, in order of arrival
  executors,  \* one per attempt: discarded, hasErrored, its context
  loops,      \* calls whose start has suspended a processQueue loop
  due,        \* completed calls whose completion is still to run processQueue
  phase,      \* where the query loop is
  at,         \* the call it has reached while it drains or processes the queue
  waitOn,     \* the calls whose end it waits for
  abort,      \* reason of the turn's abort signal
  handed,     \* context the query loop goes on with
  told        \* number of progress messages so far

vars == <<calls, executors, loops, due, phase, at, waitOn, abort, handed, told>>

Status == {"queued", "executing", "completed", "yielded"}
Stage == {"idle", "running", "cancelled", "answered", "over"}
Message == {"result", "error", "synthetic"}
Phase == {"stream", "drain", "check", "queue", "collect", "decide", "wait",
          "last", "done", "failed"}

Ids == DOMAIN calls
Cur == Len(executors)
Of(cs, e) == {i \in DOMAIN cs : cs[i].exec = e}
Mine == Of(calls, Cur)
IsSafe(c) == c.kind \in SafeKinds

-----------------------------------------------------------------------------
(* Choosing the next call to start, over the calls cs of executor e. *)

CanExecute(cs, e, i) ==
  LET executing == {j \in Of(cs, e) : cs[j].status = "executing"}
  IN executing = {} \/ (IsSafe(cs[i]) /\ \A j \in executing : IsSafe(cs[j]))

\* Mutant: an exclusive call that cannot start does not hold up those behind it.
StopsPastExclusive(cs, e, i) ==
  {j \in Of(cs, e) : j > i /\ cs[j].status = "queued" /\ CanExecute(cs, e, j)}

\* The calls at which a processQueue loop that has looked at the calls up to i
\* may stop: it can start the call, or it cannot and the call is exclusive.
Stops(cs, e, i) ==
  {j \in Of(cs, e) : /\ j > i
                     /\ cs[j].status = "queued"
                     /\ CanExecute(cs, e, j) \/ ~IsSafe(cs[j])}

\* The call that loop starts next, 0 for none.
NextToStart(cs, e, i) ==
  IF Stops(cs, e, i) = {} THEN 0
  ELSE LET j == Min(Stops(cs, e, i)) IN IF CanExecute(cs, e, j) THEN j ELSE 0

\* Mutant: a discarded executor goes on starting what is queued.
AbortReasonKept(c) ==
  IF executors[c.exec].hasErrored THEN "sibling_error"
  ELSE IF abort = "user" \/ (abort = "interrupt" /\ c.kind \in CancelKinds)
  THEN "user_interrupted"
  ELSE "none"

AbortReason(c) ==
  IF executors[c.exec].discarded THEN "streaming_fallback"
  ELSE IF executors[c.exec].hasErrored THEN "sibling_error"
  ELSE IF abort = "user" \/ (abort = "interrupt" /\ c.kind \in CancelKinds)
  THEN "user_interrupted"
  ELSE "none"

\* executeTool up to its first await: the call is completed with a synthetic
\* error when there is a reason to cancel it, otherwise it executes; runToolUse
\* does none of its work when the signal it inherits is aborted.
Started(c) ==
  IF AbortReason(c) # "none"
  THEN [c EXCEPT !.status = "completed", !.stage = "over", !.results = <<"synthetic">>]
  ELSE [c EXCEPT !.status = "executing",
                 !.stage = IF abort = "none" THEN "running" ELSE "cancelled"]

\* A loop of executor e that has looked at the calls cs up to i runs to its next
\* await: it starts call j, or starts nothing (j = 0) and is over.
LoopRuns(cs, e, i, j) ==
  /\ j = NextToStart(cs, e, i)
  /\ calls' = IF j = 0 THEN cs ELSE [cs EXCEPT ![j] = Started(@)]

\* The calls a step completes ask for a fresh loop.
Due(cs, rest) ==
  rest \cup {i \in DOMAIN cs : /\ cs[i].status \in {"queued", "executing"}
                               /\ calls'[i].status = "completed"}

Suspended(j) == IF j = 0 THEN {} ELSE {j}

-----------------------------------------------------------------------------
(* The calls: what a started one does in the background. *)

Errored(c) == c.results # <<>> /\ c.results[1] = "error"
Modifies(c) == c.kind \in ModifyingKinds /\ c.results # <<>> /\ c.results[1] = "result"

\* Mutant: the call does not remember that the error is its own.
ThisToolErroredForgotten(c) == FALSE

ThisToolErrored(c) == Errored(c)

\* The call ends with the messages results: its modifiers are applied to the
\* executor's context if it is exclusive.
Complete(i, results) ==
  /\ calls' = [calls EXCEPT ![i].status = "completed", ![i].stage = "over",
                            ![i].results = results]
  /\ executors' = [executors EXCEPT ![calls[i].exec].context =
                     IF Modifies(calls[i]) /\ ~IsSafe(calls[i]) THEN Append(@, i) ELSE @]
  /\ due' = due \cup {i}

\* The next update of the call finds it aborted: a synthetic error ends it.
Cancelled(i) ==
  /\ calls[i].status = "executing"
  /\ AbortReason(calls[i]) # "none" /\ ~ThisToolErrored(calls[i])
  /\ Complete(i, Append(calls[i].results, "synthetic"))
  /\ UNCHANGED <<loops, phase, at, waitOn, abort, handed, told>>

\* It takes an update itself.
Listens(i) ==
  /\ calls[i].status = "executing"
  /\ AbortReason(calls[i]) = "none" \/ ThisToolErrored(calls[i])

\* A progress message wakes the query loop when it waits.
Progress(i) ==
  /\ Listens(i) /\ calls[i].stage = "running"
  /\ told < MaxProgress /\ told' = told + 1
  /\ calls' = [calls EXCEPT ![i].progress = @ + 1]
  /\ IF phase = "wait" THEN phase' = "check" /\ waitOn' = {} ELSE UNCHANGED <<phase, waitOn>>
  /\ UNCHANGED <<executors, loops, due, at, abort, handed>>

\* The result message, with the context modifier if the tool has one.
Result(i) ==
  /\ Listens(i) /\ calls[i].stage = "running"
  /\ calls' = [calls EXCEPT ![i].stage = "answered",
                            ![i].results = Append(@, "result")]
  /\ UNCHANGED <<executors, loops, due, phase, at, waitOn, abort, handed, told>>

\* An error result.  That of a Bash call aborts the calls beside it.
ErrorResult(i) ==
  /\ Listens(i) /\ calls[i].stage \in {"running", "cancelled"}
  /\ calls' = [calls EXCEPT ![i].stage = "answered", ![i].results = Append(@, "error")]
  /\ executors' = [executors EXCEPT ![calls[i].exec].hasErrored =
                                       @ \/ calls[i].kind \in BashKinds]
  /\ UNCHANGED <<loops, due, phase, at, waitOn, abort, handed, told>>

\* The generator of the call is exhausted.
Ends(i) ==
  /\ calls[i].status = "executing" /\ calls[i].stage = "answered"
  /\ Complete(i, calls[i].results)
  /\ UNCHANGED <<loops, phase, at, waitOn, abort, handed, told>>

ToolStep(i) ==
  Cancelled(i) \/ Progress(i) \/ Result(i) \/ ErrorResult(i) \/ Ends(i)

-----------------------------------------------------------------------------
(* The processQueue loops. *)

\* The loop that has started call i goes on.
ResumeLoop(i) ==
  /\ i \in loops
  /\ \E j \in Ids \cup {0} :
       /\ LoopRuns(calls, calls[i].exec, i, j)
       /\ loops' = (loops \ {i}) \cup Suspended(j)
  /\ due' = Due(calls, due)
  /\ UNCHANGED <<executors, phase, at, waitOn, abort, handed, told>>

\* The loop that the completion of call i asks for begins.
FreshLoop(i) ==
  /\ i \in due
  /\ \E j \in Ids \cup {0} :
       /\ LoopRuns(calls, calls[i].exec, 0, j)
       /\ loops' = loops \cup Suspended(j)
  /\ due' = Due(calls, due \ {i})
  /\ UNCHANGED <<executors, phase, at, waitOn, abort, handed, told>>

-----------------------------------------------------------------------------
(* The query loop while the response streams. *)

NewExecutor == [discarded |-> FALSE, hasErrored |-> FALSE, context |-> <<>>]

NewCall(k) ==
  [exec |-> Cur, kind |-> k, stage |-> "idle",
   status |-> IF k \in UnknownKinds THEN "completed" ELSE "queued",
   results |-> IF k \in UnknownKinds THEN <<"error">> ELSE <<>>,
   progress |-> 0]

\* A message with a tool_use block arrives and is yielded: unless the turn is
\* aborted, addTool tracks the block and runs the queue, and the loop drains.
Receive(k) ==
  /\ phase = "stream" /\ Len(calls) < MaxCalls
  /\ abort = "none"
  /\ \E j \in Ids \cup {0, Len(calls) + 1} :
       /\ IF k \in UnknownKinds
          THEN j = 0 /\ calls' = Append(calls, NewCall(k))
          ELSE LoopRuns(Append(calls, NewCall(k)), Cur, 0, j)
       /\ loops' = loops \cup Suspended(j)
  /\ due' = Due(Append(calls, NewCall(k)), due)
  /\ phase' = "drain" /\ at' = 0
  /\ UNCHANGED <<executors, waitOn, abort, handed, told>>

\* A message without a tool_use block: the loop only drains.
ReceiveOther ==
  /\ phase = "stream" /\ abort = "none"
  /\ phase' = "drain" /\ at' = 0
  /\ UNCHANGED <<calls, executors, loops, due, waitOn, abort, handed, told>>

\* The attempt is given up for another, after a fallback of the stream or of the
\* model: its executor is discarded, its calls go on in the background.
FallBack ==
  /\ phase = "stream" /\ Cur < MaxAttempts /\ Len(calls) <= MaxGivenUp
  /\ executors' = Append([executors EXCEPT ![Cur].discarded = TRUE], NewExecutor)
  /\ UNCHANGED <<calls, loops, due, phase, at, waitOn, abort, handed, told>>

\* The request fails for good: the turn ends, its executor is left as it is.
StreamFails ==
  /\ phase = "stream"
  /\ phase' = "failed"
  /\ UNCHANGED <<calls, executors, loops, due, at, waitOn, abort, handed, told>>

\* Mutant: an aborted turn ends without asking for the remaining results.
StreamEndsAtOnce ==
  /\ phase = "stream"
  /\ phase' = IF abort = "none" /\ Mine # {} THEN "check" ELSE "done"
  /\ UNCHANGED <<calls, executors, loops, due, at, waitOn, abort, handed, told>>

\* The response ends: the loop goes on to the remaining results, aborted or not.
StreamEnds ==
  /\ phase = "stream"
  /\ phase' = IF abort = "none" /\ Mine = {} THEN "done" ELSE "check"
  /\ UNCHANGED <<calls, executors, loops, due, at, waitOn, abort, handed, told>>

\* The user's escape, a rejected permission, or a message that interrupts.
Abort ==
  /\ phase \notin {"done", "failed"} /\ abort = "none"
  /\ abort' \in AbortReasons
  /\ UNCHANGED <<calls, executors, loops, due, phase, at, waitOn, handed, told>>

-----------------------------------------------------------------------------
(* getRemainingResults and getCompletedResults. *)

\* The loop runs to its next await, in processQueue or behind it.
RunsQueue(i) ==
  /\ \E j \in Ids \cup {0} :
       /\ LoopRuns(calls, Cur, i, j)
       /\ phase' = IF j = 0 THEN "collect" ELSE "queue"
       /\ at' = j
  /\ due' = Due(calls, due)
  /\ UNCHANGED <<executors, loops, waitOn, abort, handed, told>>

Unfinished == \E i \in Mine : calls[i].status # "yielded"

CheckRemaining ==
  /\ phase = "check"
  /\ IF Unfinished THEN RunsQueue(0)
     ELSE /\ phase' = "last" /\ at' = 0
          /\ UNCHANGED <<calls, executors, loops, due, waitOn, abort, handed, told>>

QueueGoesOn == phase = "queue" /\ RunsQueue(at)

\* Mutant: any executing call holds back the results behind it.
BlocksAny(c) == c.status = "executing"

\* The next call at which getCompletedResults yields something or breaks off.
Blocks(c) == c.status = "executing" /\ ~IsSafe(c)

Stopovers ==
  {i \in Mine : /\ i > at
                /\ calls[i].progress > 0 \/ calls[i].status = "completed" \/ Blocks(calls[i])}

\* What is yielded for the remaining results carries the executor's context.
HandsContext ==
  handed' = IF phase = "drain" THEN handed ELSE executors[Cur].context

YieldProgress ==
  /\ phase \in {"drain", "collect", "last"} /\ Stopovers # {}
  /\ LET i == Min(Stopovers)
     IN /\ calls[i].progress > 0
        /\ calls' = [calls EXCEPT ![i].progress = @ - 1]
        /\ at' = i - 1
  /\ HandsContext
  /\ UNCHANGED <<executors, loops, due, phase, waitOn, abort, told>>

YieldResults ==
  /\ phase \in {"drain", "collect", "last"} /\ Stopovers # {}
  /\ LET i == Min(Stopovers)
     IN /\ calls[i].progress = 0 /\ calls[i].status = "completed"
        /\ calls' = [calls EXCEPT ![i].status = "yielded", ![i].results = <<>>]
        /\ at' = i
  /\ HandsContext
  /\ UNCHANGED <<executors, loops, due, phase, waitOn, abort, told>>

Executing == {i \in Mine : calls[i].status = "executing"}

\* Nothing is left to hand on: back to the stream, to the end of the turn, or,
\* among the remaining results, to a wait for the executing calls.
DrainEnds ==
  /\ phase \in {"drain", "collect", "last"}
  /\ \/ Stopovers = {}
     \/ /\ Stopovers # {}
        /\ calls[Min(Stopovers)].progress = 0 /\ Blocks(calls[Min(Stopovers)])
  /\ IF /\ phase = "collect" /\ Executing # {}
        /\ \A i \in Mine : calls[i].status # "completed" /\ calls[i].progress = 0
     THEN phase' = "wait" /\ waitOn' = Executing
     ELSE /\ phase' = CASE phase = "drain" -> "stream"
                        [] phase = "collect" -> "check"
                        [] phase = "last" -> "done"
          /\ UNCHANGED waitOn
  /\ at' = 0
  /\ UNCHANGED <<calls, executors, loops, due, abort, handed, told>>

\* One of the calls waited for has ended.
WakeUp ==
  /\ phase = "wait"
  /\ \E i \in waitOn : calls[i].status # "executing"
  /\ phase' = "check" /\ waitOn' = {}
  /\ UNCHANGED <<calls, executors, loops, due, at, abort, handed, told>>

QueryStep ==
  CheckRemaining \/ QueueGoesOn \/ YieldProgress \/ YieldResults \/ DrainEnds \/ WakeUp

-----------------------------------------------------------------------------

Init ==
  /\ calls = <<>> /\ executors = <<NewExecutor>>
  /\ loops = {} /\ due = {}
  /\ phase = "stream" /\ at = 0 /\ waitOn = {} /\ abort = "none"
  /\ handed = <<>> /\ told = 0

Next ==
  \/ \E k \in Kinds : Receive(k)
  \/ ReceiveOther \/ FallBack \/ StreamFails \/ StreamEnds \/ Abort
  \/ QueryStep
  \/ \E i \in Ids : ToolStep(i) \/ ResumeLoop(i) \/ FreshLoop(i)

\* A query loop that spins without leaving the microtasks keeps the event loop
\* from ever running the input and output the calls wait for.
EventLoopFree == phase \in {"stream", "wait", "done", "failed"}

\* The tools end, and nothing that can run is put off for ever.  The first message
\* of a call comes through the event loop, what follows it is at hand.
Fairness ==
  /\ WF_vars(QueryStep)
  /\ \A i \in 1 .. MaxCalls :
       /\ WF_vars(/\ i \in Ids
                  /\ calls[i].stage = "running" => EventLoopFree
                  /\ ToolStep(i))
       /\ WF_vars(i \in Ids /\ (ResumeLoop(i) \/ FreshLoop(i)))

Spec == Init /\ [][Next]_vars
FairSpec == Spec /\ Fairness

-----------------------------------------------------------------------------
(* Properties *)

TypeOK ==
  /\ calls \in Seq([exec: 1 .. MaxAttempts, kind: Kinds, stage: Stage, status: Status,
                    results: Seq(Message), progress: 0 .. MaxProgress])
  /\ Len(calls) <= MaxCalls
  /\ executors \in Seq([discarded: BOOLEAN, hasErrored: BOOLEAN, context: Seq(Ids)])
  /\ Len(executors) \in 1 .. MaxAttempts
  /\ loops \subseteq Ids /\ due \subseteq Ids
  /\ phase \in Phase /\ at \in Ids \cup {0} /\ waitOn \subseteq Ids
  /\ abort \in {"none"} \cup AbortReasons
  /\ handed \in Seq(Ids) /\ told \in 0 .. MaxProgress

\* The state is of its type.  A completed call has an answer, and when that is an error
\* of its own it is the only one: the cancellation it sets off beside it never adds a
\* second answer.  (thisToolErrored in executeTool)
ErrorAnswersOnce ==
  TypeOK /\ \A i \in Ids :
    /\ calls[i].status = "completed" => calls[i].results # <<>>
    /\ Errored(calls[i]) => Len(calls[i].results) = 1

\* A turn that ends by itself or by an abort has handed on the results of every
\* call it has tracked, with an answer in them.
\* (getRemainingResults, consumed on both paths of query.ts)
TurnReportsAll ==
  phase = "done" =>
    \A i \in Mine : calls[i].status = "yielded"

\* No tool begins its work once the turn is aborted, a Bash call beside it has
\* failed or its attempt has been given up, whichever await the queue was in.
\* (getAbortReason in executeTool and the signal check of runToolUse)
NoWorkAfterAbort ==
  [][\A i \in DOMAIN calls' :
       calls'[i].stage = "running" /\ (i \in Ids => calls[i].stage = "idle")
         => /\ abort = "none"
            /\ ~executors[calls'[i].exec].hasErrored
            /\ ~executors[calls'[i].exec].discarded]_vars

\* The calls as the contract sees them.
ScheduledCalls ==
  [i \in Ids |->
     [response |-> calls[i].exec, exclusive |-> ~IsSafe(calls[i]),
      stage |-> CASE calls[i].status = "queued" -> "waiting"
                  [] calls[i].status = "executing" -> "running"
                  [] calls[i].status = "completed" -> "finished"
                  [] calls[i].status = "yielded" -> "reported"]]

Schedule == INSTANCE ToolSchedule WITH calls <- ScheduledCalls

\* The executor implements the contract: exclusive calls run alone and in turn.
KeepsSchedule == Schedule!Spec

\* The remaining results come to an end: the turn is over once they are asked for.
\* (the comment on getRemainingResults, "Wait for remaining tools and yield their
\* results as they complete")
RemainingEnds == (phase = "check") ~> (phase = "done")
=============================================================================
