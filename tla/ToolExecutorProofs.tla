------------------------- MODULE ToolExecutorProofs -------------------------
(***************************************************************************)
(* Theorems of module ToolExecutor, for any kinds of call and any bounds:  *)
(* the executor implements the contract of module ToolSchedule, a call is  *)
(* answered once, a turn reports every call, and an aborted turn begins no *)
(* more work.                                                              *)
(*                                                                         *)
(* Why a call starts in turn although a suspended loop never looks again   *)
(* at the calls it has passed: whenever some call can be started, a queued *)
(* call before it can be started or stops the loop, so calls leave the     *)
(* queue in the order they came in.  A loop goes on behind a call that has *)
(* left the queue, hence nothing it has passed is still queued.            *)
(***************************************************************************)
EXTENDS ToolExecutor, SequenceTheorems, WellFoundedInduction, TLAPS

Call == [exec: 1 .. MaxAttempts, kind: Kinds, stage: Stage, status: Status,
         results: Seq(Message), progress: 0 .. MaxProgress]

Executor(n) == [discarded: BOOLEAN, hasErrored: BOOLEAN, context: Seq(1 .. n)]

\* Nothing keeps call i from its work: its turn goes on, nothing beside it has failed and
\* its attempt is not given up.
MayBegin(i) ==
  /\ abort = "none"
  /\ ~executors[calls'[i].exec].hasErrored /\ ~executors[calls'[i].exec].discarded

\* What the progress of one call says of its answers.
CallOK(c) ==
  /\ c.status = "queued" => c.stage = "idle" /\ c.results = <<>> /\ c.kind \notin UnknownKinds
  /\ c.status = "executing" <=> c.stage \in {"running", "cancelled", "answered"}
  /\ c.stage \in {"running", "cancelled"} => c.results = <<>>
  /\ c.stage = "answered" => Len(c.results) = 1
  /\ c.status = "completed" => c.results # <<>>
  /\ Errored(c) => Len(c.results) = 1

\* A call belongs to an attempt that has begun; its messages have been counted.
Counted == \A i \in Ids : calls[i].exec <= Cur /\ calls[i].progress <= told

\* Call i has left the queue, and was in it before.
Begun(i) == calls[i].status # "queued" /\ calls[i].kind \notin UnknownKinds

\* Calls leave the queue of their executor in the order in which they came in.
InOrder ==
  \A i, j \in Ids :
    j < i /\ calls[j].exec = calls[i].exec /\ Begun(i) => calls[j].status # "queued"

\* A suspended loop goes on behind a call that has left the queue.
LoopsBehind ==
  /\ \A i \in loops : Begun(i)
  /\ phase = "queue" => at \in Ids /\ Begun(at) /\ calls[at].exec = Cur

\* The query loop asks for the last results when every call is reported.
LastReported == phase \in {"last", "done"} => \A i \in Mine : calls[i].status = "yielded"

ExecutorInv ==
  /\ TypeOK
  /\ \A i \in Ids : CallOK(calls[i])
  /\ Counted /\ InOrder /\ LoopsBehind /\ LastReported

-----------------------------------------------------------------------------
(* Choosing a call.                                                        *)

LEMMA MinIsLeast ==
  ASSUME NEW S \in SUBSET Nat, S # {}
  PROVE  Min(S) \in S /\ \A y \in S : Min(S) <= y
<1>1. PICK x \in S : \A y \in S : ~(<<y, x>> \in OpToRel(<, Nat))
  BY NatLessThanWellFounded, WFMin
<1>2. ASSUME NEW y \in S PROVE ~(y < x)
  BY <1>1, Zenon DEF OpToRel
<1>3. \A y \in S : x <= y
  BY <1>2
<1> QED
  BY <1>3 DEF Min

\* Call j of cs is queued, every earlier call of its executor has left the queue, and
\* those that still execute share the session with it.
StartsInTurn(cs, j) ==
  /\ cs[j].status = "queued"
  /\ \A k \in Of(cs, cs[j].exec) :
       k < j => /\ cs[k].status # "queued"
                /\ cs[k].status = "executing" => IsSafe(cs[k]) /\ IsSafe(cs[j])

\* The call a loop chooses starts in turn when nothing the loop has passed is queued.
LEMMA ChosenStartsInTurn ==
  ASSUME NEW cs \in Seq(Call), NEW e, NEW i \in Nat,
         \A k \in Of(cs, e) : k <= i => cs[k].status # "queued",
         NEW j, j = NextToStart(cs, e, i), j # 0
  PROVE  j \in 1 .. Len(cs) /\ cs[j].exec = e /\ StartsInTurn(cs, j)
<1>1. DOMAIN cs = 1 .. Len(cs) /\ Len(cs) \in Nat
  BY LenProperties
<1>2. Stops(cs, e, i) \in SUBSET Nat
  BY <1>1 DEF Stops, Of
<1>3. Stops(cs, e, i) # {}
  BY DEF NextToStart
<1>4. j = Min(Stops(cs, e, i)) /\ CanExecute(cs, e, j)
  BY <1>3 DEF NextToStart
<1>5. j \in Stops(cs, e, i) /\ \A y \in Stops(cs, e, i) : j <= y
  BY <1>2, <1>3, <1>4, MinIsLeast
<1>6. j \in Of(cs, e) /\ cs[j].status = "queued"
  BY <1>5 DEF Stops
<1>7. j \in 1 .. Len(cs) /\ cs[j].exec = e
  BY <1>1, <1>6 DEF Of
<1>8. ASSUME NEW k \in Of(cs, e), k < j, cs[k].status = "executing"
      PROVE  IsSafe(cs[k]) /\ IsSafe(cs[j])
  BY <1>4, <1>8 DEF CanExecute
<1>9. ASSUME NEW k \in Of(cs, e), k < j PROVE cs[k].status # "queued"
  <2> SUFFICES ASSUME cs[k].status = "queued" PROVE FALSE
    OBVIOUS
  <2>1. k \in Nat /\ k \in 1 .. Len(cs)
    BY <1>1 DEF Of
  <2>2. k > i
    BY <2>1
  <2>3. k \notin Stops(cs, e, i)
    BY <1>5, <1>7, <1>9, <2>1
  <2>4. ~CanExecute(cs, e, k) /\ IsSafe(cs[k])
    BY <2>2, <2>3 DEF Stops
  <2>5. CanExecute(cs, e, k)
    BY <1>4, <2>4 DEF CanExecute
  <2> QED
    BY <2>4, <2>5
<1> QED
  BY <1>6, <1>7, <1>8, <1>9 DEF StartsInTurn

-----------------------------------------------------------------------------
(* What a step does to the calls.                                          *)

\* The status of call i stays, or goes one way: out of the queue in turn, from
\* executing to completed, from completed to yielded.
StatusStep(i) ==
  \/ calls'[i].status = calls[i].status
  \/ StartsInTurn(calls, i) /\ calls'[i].status \in {"executing", "completed"}
  \/ calls[i].status = "executing" /\ calls'[i].status = "completed"
  \/ calls[i].status = "completed" /\ calls'[i].status = "yielded"

\* The call that has just come in is queued, has started in turn, or has no tool.
NewStep(n) ==
  /\ calls'[n].exec = Cur
  /\ \/ calls'[n].status = "queued" /\ calls'[n].kind \notin UnknownKinds
     \/ /\ calls'[n].status \in {"executing", "completed"}
        /\ calls'[n].kind \notin UnknownKinds
        /\ \A k \in Mine : /\ calls[k].status # "queued"
                           /\ calls'[k] = calls[k]
                           /\ calls[k].status = "executing" => IsSafe(calls[k]) /\ IsSafe(calls'[n])
     \/ calls'[n].status = "completed" /\ calls'[n].kind \in UnknownKinds

CallsStep ==
  /\ calls' \in Seq(Call)
  /\ Len(calls') \in {Len(calls), Len(calls) + 1}
  /\ \A i \in Ids : /\ calls'[i].exec = calls[i].exec /\ calls'[i].kind = calls[i].kind
                    /\ StatusStep(i)
  /\ Len(calls') = Len(calls) + 1 => phase = "stream" /\ NewStep(Len(calls'))

LEMMA CallsTyped ==
  ASSUME TypeOK
  PROVE  /\ calls \in Seq(Call) /\ Len(calls) \in Nat /\ Ids = 1 .. Len(calls)
         /\ \A i \in Ids : calls[i] \in Call
<1>1. calls \in Seq(Call)
  BY DEF TypeOK, Call
<1> QED
  BY <1>1, LenProperties, ElementOfSeq DEF Ids

LEMMA ExecutorsTyped ==
  ASSUME TypeOK
  PROVE  /\ executors \in Seq(Executor(Len(calls)))
         /\ Cur \in 1 .. MaxAttempts /\ Cur \in Nat /\ DOMAIN executors = 1 .. Cur
         /\ \A e \in 1 .. Cur : executors[e] \in Executor(Len(calls))
<1>1. Ids = 1 .. Len(calls)
  BY CallsTyped
<1>2. executors \in Seq(Executor(Len(calls)))
  BY <1>1 DEF TypeOK, Executor
<1>3. Cur \in 1 .. MaxAttempts
  BY DEF TypeOK, Cur
<1> QED
  BY <1>2, <1>3, LenProperties, ElementOfSeq, BoundsAssumption DEF Cur

\* A step that gives call i the value c leaves every other call as it is.
LEMMA OneCallStep ==
  ASSUME TypeOK, NEW i \in Ids, NEW c \in Call, calls' = [calls EXCEPT ![i] = c]
  PROVE  /\ calls' \in Seq(Call) /\ Len(calls') = Len(calls) /\ Ids' = Ids
         /\ \A k \in Ids : calls'[k] = IF k = i THEN c ELSE calls[k]
<1>1. calls \in Seq(Call) /\ Ids = 1 .. Len(calls)
  BY CallsTyped
<1>2. calls' \in Seq(Call) /\ Len(calls') = Len(calls)
  BY <1>1, ExceptSeq
<1>3. \A k \in 1 .. Len(calls) : calls'[k] = IF k = i THEN c ELSE calls[k]
  BY <1>1, ExceptSeq
<1>4. DOMAIN calls' = 1 .. Len(calls')
  BY <1>2, LenProperties
<1> QED
  BY <1>1, <1>2, <1>3, <1>4 DEF Ids

\* A queued call that is started is over with a synthetic error, or executes; it begins
\* its work only if there is no reason to cancel it.
LEMMA StartedIs ==
  ASSUME NEW c \in Call, c.status = "queued", CallOK(c)
  PROVE  /\ Started(c) \in Call /\ CallOK(Started(c))
         /\ Started(c).exec = c.exec /\ Started(c).kind = c.kind
         /\ Started(c).progress = c.progress
         /\ Started(c).status \in {"executing", "completed"}
         /\ Started(c).stage = "running" => abort = "none" /\ AbortReason(c) = "none"
<1>1. c.stage = "idle" /\ c.results = <<>> /\ c.kind \notin UnknownKinds
  BY DEF CallOK
<1>2. CASE AbortReason(c) # "none"
  <2>1. Started(c) = [c EXCEPT !.status = "completed", !.stage = "over",
                               !.results = <<"synthetic">>]
    BY <1>2 DEF Started
  <2>2. <<"synthetic">> \in Seq(Message) /\ Len(<<"synthetic">>) = 1
        /\ <<"synthetic">> # <<>> /\ <<"synthetic">>[1] = "synthetic"
    BY DEF Message
  <2> QED
    BY <1>1, <2>1, <2>2 DEF Call, CallOK, Stage, Status, Errored
<1>3. CASE AbortReason(c) = "none"
  <2>1. Started(c) = [c EXCEPT !.status = "executing",
                               !.stage = IF abort = "none" THEN "running" ELSE "cancelled"]
    BY <1>3 DEF Started
  <2>2. /\ Started(c).exec = c.exec /\ Started(c).kind = c.kind
        /\ Started(c).results = c.results /\ Started(c).progress = c.progress
        /\ Started(c).status = "executing"
        /\ Started(c).stage = IF abort = "none" THEN "running" ELSE "cancelled"
    BY <2>1 DEF Call
  <2>3. Started(c) \in Call
    BY <2>1 DEF Call, Stage, Status
  <2>4. CallOK(Started(c))
    BY <1>1, <2>2, EmptySeq DEF CallOK, Errored
  <2> QED
    BY <1>3, <2>2, <2>3, <2>4
<1> QED
  BY <1>2, <1>3

\* A loop over the calls as they are starts one call in its turn, or none.
LEMMA LoopCalls ==
  ASSUME ExecutorInv, NEW e, NEW i \in Nat, NEW j, LoopRuns(calls, e, i, j),
         \A k \in Of(calls, e) : k <= i => calls[k].status # "queued"
  PROVE  /\ CallsStep /\ Len(calls') = Len(calls) /\ Ids' = Ids
         /\ \A k \in Ids : CallOK(calls'[k]) /\ calls'[k].progress = calls[k].progress
         /\ \A k \in Ids : calls'[k] = calls[k] \/ (k = j /\ calls'[k] = Started(calls[k]))
         /\ j # 0 => /\ j \in Ids /\ calls[j].exec = e /\ StartsInTurn(calls, j)
                     /\ calls'[j].status # "queued" /\ calls[j].kind \notin UnknownKinds
<1>1. /\ TypeOK /\ calls \in Seq(Call) /\ Ids = 1 .. Len(calls) /\ Len(calls) \in Nat
      /\ \A k \in Ids : calls[k] \in Call /\ CallOK(calls[k])
  BY CallsTyped DEF ExecutorInv
<1>2. CASE j = 0
  <2>1. calls' = calls
    BY <1>2 DEF LoopRuns
  <2>2. CallsStep
    BY <1>1, <2>1 DEF CallsStep, StatusStep
  <2> QED
    BY <1>1, <1>2, <2>1, <2>2 DEF Ids
<1>3. CASE j # 0
  <2>1. j \in Ids /\ calls[j].exec = e /\ StartsInTurn(calls, j)
    BY <1>1, <1>3, ChosenStartsInTurn DEF LoopRuns
  <2>2. calls[j].status = "queued" /\ calls[j].kind \notin UnknownKinds
    BY <1>1, <2>1 DEF StartsInTurn, CallOK
  <2>3. /\ Started(calls[j]) \in Call /\ CallOK(Started(calls[j]))
        /\ Started(calls[j]).exec = calls[j].exec /\ Started(calls[j]).kind = calls[j].kind
        /\ Started(calls[j]).progress = calls[j].progress
        /\ Started(calls[j]).status \in {"executing", "completed"}
    BY <1>1, <2>1, <2>2, StartedIs
  <2>4. calls' = [calls EXCEPT ![j] = Started(calls[j])]
    BY <1>3 DEF LoopRuns
  <2>5. /\ calls' \in Seq(Call) /\ Len(calls') = Len(calls) /\ Ids' = Ids
        /\ \A k \in Ids : calls'[k] = IF k = j THEN Started(calls[j]) ELSE calls[k]
    BY <1>1, <2>1, <2>3, <2>4, OneCallStep
  <2>6. CallsStep
    BY <1>1, <2>1, <2>3, <2>5 DEF CallsStep, StatusStep
  <2>7. calls'[j] = Started(calls[j]) /\ calls'[j].status # "queued"
    BY <2>1, <2>3, <2>5
  <2>8. \A k \in Ids : CallOK(calls'[k]) /\ calls'[k].progress = calls[k].progress
    BY <1>1, <2>3, <2>5
  <2> QED
    BY <2>1, <2>2, <2>5, <2>6, <2>7, <2>8
<1> QED
  BY <1>2, <1>3

\* A step that changes one call, and does not start it.
LEMMA OneCallKeeps ==
  ASSUME ExecutorInv, NEW i \in Ids, NEW c \in Call, calls' = [calls EXCEPT ![i] = c],
         c.exec = calls[i].exec, c.kind = calls[i].kind, CallOK(c),
         \/ c.status = calls[i].status
         \/ calls[i].status = "executing" /\ c.status = "completed"
         \/ calls[i].status = "completed" /\ c.status = "yielded"
  PROVE  /\ CallsStep /\ Len(calls') = Len(calls) /\ Ids' = Ids
         /\ \A k \in Ids : CallOK(calls'[k])
         /\ \A k \in Ids : calls'[k] = IF k = i THEN c ELSE calls[k]
<1>1. /\ TypeOK /\ calls \in Seq(Call) /\ Ids = 1 .. Len(calls) /\ Len(calls) \in Nat
      /\ \A k \in Ids : CallOK(calls[k])
  BY CallsTyped DEF ExecutorInv
<1>2. /\ calls' \in Seq(Call) /\ Len(calls') = Len(calls) /\ Ids' = Ids
      /\ \A k \in Ids : calls'[k] = IF k = i THEN c ELSE calls[k]
  BY <1>1, OneCallStep
<1>3. \A k \in Ids : StatusStep(k)
  BY <1>2 DEF StatusStep
<1>4. \A k \in Ids : calls'[k].exec = calls[k].exec /\ calls'[k].kind = calls[k].kind
  BY <1>2
<1>5. Len(calls') \in {Len(calls), Len(calls) + 1} /\ Len(calls') # Len(calls) + 1
  <2>1. Len(calls) \in Nat /\ Len(calls') = Len(calls)
    BY <1>1, <1>2
  <2> QED
    BY ONLY <2>1
<1>6. CallsStep
  BY <1>2, <1>3, <1>4, <1>5 DEF CallsStep
<1> QED
  BY <1>1, <1>2, <1>6

\* The answers of an executing call after one more message.
LEMMA OneMoreAnswer ==
  ASSUME NEW r \in Seq(Message), NEW m \in Message
  PROVE  /\ Append(r, m) \in Seq(Message) /\ Append(r, m) # <<>>
         /\ Len(Append(r, m)) = Len(r) + 1
         /\ r = <<>> => Len(Append(r, m)) = 1 /\ Append(r, m)[1] = m
         /\ Len(r) = 1 => Append(r, m)[1] = r[1] /\ r # <<>>
         /\ r = <<>> \/ Len(r) \in Nat \ {0}
<1> QED
  BY AppendProperties, EmptySeq

\* What a call does in the background: it is executing, and goes on or is completed.
LEMMA ToolCallIs ==
  ASSUME ExecutorInv, NEW i \in Ids, ToolStep(i)
  PROVE  /\ calls[i].status = "executing"
         /\ told' \in {told, told + 1}
         /\ \E c \in Call :
              /\ calls' = [calls EXCEPT ![i] = c]
              /\ c.exec = calls[i].exec /\ c.kind = calls[i].kind /\ CallOK(c)
              /\ c.status \in {"executing", "completed"}
              /\ c.progress <= calls[i].progress + (told' - told)
              /\ c.stage = "running" => calls[i].stage = "running"
<1>1. /\ TypeOK /\ calls \in Seq(Call) /\ Ids = 1 .. Len(calls) /\ Len(calls) \in Nat
      /\ \A k \in Ids : calls[k] \in Call /\ CallOK(calls[k])
  BY CallsTyped DEF ExecutorInv
<1>2. told \in Nat /\ told <= MaxProgress /\ MaxProgress \in Nat
  BY <1>1, BoundsAssumption DEF TypeOK
<1>3. calls[i].progress \in 0 .. MaxProgress /\ calls[i].progress <= told
  BY <1>1 DEF ExecutorInv, Counted, Call
<1> DEFINE d == calls[i]
<1>4. /\ d \in Call /\ CallOK(d) /\ DOMAIN calls = 1 .. Len(calls) /\ i \in 1 .. Len(calls)
  BY <1>1, LenProperties
<1>5. d.status = "executing"
  BY <1>4 DEF ToolStep, Cancelled, Progress, Result, ErrorResult, Ends, Listens, CallOK
<1>6. /\ d.results \in Seq(Message)
      /\ d.stage \in {"running", "cancelled"} => d.results = <<>>
      /\ d.stage = "answered" => Len(d.results) = 1
      /\ d.stage \in {"running", "cancelled", "answered"}
  BY <1>4, <1>5 DEF Call, CallOK
<1>7. d.results = <<>> \/ Len(d.results) = 1
  BY <1>6
<1>8. CASE Cancelled(i)
  <2> DEFINE r == Append(d.results, "synthetic")
             c == [d EXCEPT !.status = "completed", !.stage = "over", !.results = r]
  <2>1. calls' = [calls EXCEPT ![i] = c] /\ told' = told
    BY <1>4, <1>8 DEF Cancelled, Complete
  <2>2. /\ r \in Seq(Message) /\ r # <<>>
        /\ d.results = <<>> => r[1] = "synthetic"
        /\ Len(d.results) = 1 => r[1] = d.results[1] /\ d.results # <<>>
    BY <1>6, OneMoreAnswer, EmptySeq DEF Message
  <2>3. ~Errored(d)
    BY <1>8 DEF Cancelled, ThisToolErrored
  <2>4. r[1] # "error"
    BY <1>7, <2>2, <2>3 DEF Errored
  <2> HIDE DEF r
  <2>5. c \in Call
    BY <1>4, <2>2 DEF Call, Stage, Status
  <2>6. c.exec = d.exec /\ c.kind = d.kind /\ c.progress = d.progress
        /\ c.status = "completed" /\ c.stage = "over" /\ c.results = r
    BY <1>4 DEF Call
  <2> HIDE DEF c
  <2>7. CallOK(c)
    BY <2>2, <2>4, <2>6 DEF CallOK, Errored
  <2>8. c.progress <= d.progress + (told' - told)
    BY <1>2, <1>3, <2>1, <2>6
  <2> QED
    BY <1>5, <2>1, <2>5, <2>6, <2>7, <2>8
<1>9. CASE Ends(i)
  <2> DEFINE c == [d EXCEPT !.status = "completed", !.stage = "over", !.results = d.results]
  <2>1. calls' = [calls EXCEPT ![i] = c] /\ told' = told
    BY <1>4, <1>9 DEF Ends, Complete
  <2>2. d.results # <<>>
    <3>1. Len(d.results) = 1
      BY <1>6, <1>9 DEF Ends
    <3>2. Len(<<>>) = 0
      BY EmptySeq
    <3> QED
      BY <3>1, <3>2
  <2>5. c \in Call
    BY <1>4 DEF Call, Stage, Status
  <2>6. c.exec = d.exec /\ c.kind = d.kind /\ c.progress = d.progress
        /\ c.status = "completed" /\ c.stage = "over" /\ c.results = d.results
    BY <1>4 DEF Call
  <2> HIDE DEF c
  <2>7. CallOK(c)
    BY <1>4, <2>2, <2>6 DEF CallOK, Errored
  <2>8. c.progress <= d.progress + (told' - told)
    BY <1>2, <1>3, <2>1, <2>6
  <2> QED
    BY <1>5, <2>1, <2>5, <2>6, <2>7, <2>8
<1>10. CASE Progress(i)
  <2> DEFINE c == [d EXCEPT !.progress = d.progress + 1]
  <2>1. calls' = [calls EXCEPT ![i] = c] /\ told' = told + 1 /\ told < MaxProgress
    BY <1>4, <1>10 DEF Progress
  <2>4. d.progress + 1 \in 0 .. MaxProgress
    BY <1>2, <1>3, <2>1
  <2>5. c \in Call
    BY <1>4, <2>4 DEF Call
  <2>6. c.exec = d.exec /\ c.kind = d.kind /\ c.progress = d.progress + 1
        /\ c.status = d.status /\ c.stage = d.stage /\ c.results = d.results
    BY <1>4 DEF Call
  <2> HIDE DEF c
  <2>7. CallOK(c)
    BY <1>4, <2>6 DEF CallOK, Errored
  <2>8. c.progress <= d.progress + (told' - told)
    BY <1>2, <1>3, <2>1, <2>6
  <2> QED
    BY <1>5, <2>1, <2>5, <2>6, <2>7, <2>8
<1>11. ASSUME NEW m \in {"result", "error"}, d.stage \in {"running", "cancelled"},
              calls' = [calls EXCEPT ![i].stage = "answered",
                                     ![i].results = Append(@, m)],
              told' = told
       PROVE  \E c \in Call :
                /\ calls' = [calls EXCEPT ![i] = c]
                /\ c.exec = calls[i].exec /\ c.kind = calls[i].kind /\ CallOK(c)
                /\ c.status \in {"executing", "completed"}
                /\ c.progress <= calls[i].progress + (told' - told)
                /\ c.stage = "running" => calls[i].stage = "running"
  <2> DEFINE r == Append(d.results, m)
             c == [d EXCEPT !.stage = "answered", !.results = r]
  <2>1. calls' = [calls EXCEPT ![i] = c]
    BY <1>4, <1>11
  <2>2. r \in Seq(Message) /\ r # <<>> /\ Len(r) = 1
    BY <1>6, <1>11, OneMoreAnswer DEF Message
  <2> HIDE DEF r
  <2>5. c \in Call
    BY <1>4, <2>2 DEF Call, Stage
  <2>6. c.exec = d.exec /\ c.kind = d.kind /\ c.progress = d.progress
        /\ c.status = d.status /\ c.stage = "answered" /\ c.results = r
    BY <1>4 DEF Call
  <2> HIDE DEF c
  <2>7. CallOK(c)
    BY <1>5, <2>2, <2>6 DEF CallOK
  <2>8. c.progress <= d.progress + (told' - told)
    BY <1>2, <1>3, <1>11, <2>6
  <2> QED
    BY <1>5, <2>1, <2>5, <2>6, <2>7, <2>8
<1>12. CASE Result(i)
  BY <1>5, <1>11, <1>12 DEF Result
<1>13. CASE ErrorResult(i)
  BY <1>5, <1>11, <1>13 DEF ErrorResult
<1> QED
  BY <1>8, <1>9, <1>10, <1>12, <1>13 DEF ToolStep

LEMMA ToolCalls ==
  ASSUME ExecutorInv, NEW i \in Ids, ToolStep(i)
  PROVE  /\ CallsStep /\ Len(calls') = Len(calls) /\ Ids' = Ids
         /\ \A k \in Ids : CallOK(calls'[k])
         /\ \A k \in Ids : calls'[k].progress <= calls[k].progress + (told' - told)
         /\ \A k \in Ids : calls'[k].stage = "running" => calls[k].stage = "running"
<1>1. PICK c \in Call :
        /\ calls' = [calls EXCEPT ![i] = c]
        /\ c.exec = calls[i].exec /\ c.kind = calls[i].kind /\ CallOK(c)
        /\ c.status \in {"executing", "completed"}
        /\ c.progress <= calls[i].progress + (told' - told)
        /\ c.stage = "running" => calls[i].stage = "running"
  BY ToolCallIs
<1>2. calls[i].status = "executing" /\ told' \in {told, told + 1} /\ told \in Nat
  BY ToolCallIs, BoundsAssumption DEF ExecutorInv, TypeOK
<1>3. /\ CallsStep /\ Len(calls') = Len(calls) /\ Ids' = Ids
      /\ \A k \in Ids : CallOK(calls'[k])
      /\ \A k \in Ids : calls'[k] = IF k = i THEN c ELSE calls[k]
  BY <1>1, <1>2, OneCallKeeps
<1>4. \A k \in Ids : calls[k] \in Call
  BY CallsTyped DEF ExecutorInv
<1>5. \A k \in Ids : calls[k].progress \in Nat
  BY <1>4, BoundsAssumption DEF Call
<1>6. ASSUME NEW k \in Ids
      PROVE  calls'[k].progress <= calls[k].progress + (told' - told)
  <2>1. CASE k = i
    BY <1>1, <1>3, <2>1
  <2>2. CASE k # i
    BY <1>2, <1>3, <1>5, <2>2
  <2> QED
    BY <2>1, <2>2
<1>7. \A k \in Ids : calls'[k].stage = "running" => calls[k].stage = "running"
  BY <1>1, <1>3
<1> QED
  BY <1>3, <1>6, <1>7

\* A call is handed on: one of its progress messages, or its results.
LEMMA YieldCalls ==
  ASSUME ExecutorInv, YieldProgress \/ YieldResults
  PROVE  /\ CallsStep /\ Len(calls') = Len(calls) /\ Ids' = Ids
         /\ \A k \in Ids : CallOK(calls'[k])
         /\ \A k \in Ids : calls'[k].progress <= calls[k].progress
         /\ \A k \in Ids : calls'[k].stage = calls[k].stage
         /\ \A k \in Mine : calls[k].status = "yielded" => calls'[k].status = "yielded"
         /\ at' \in Ids \cup {0}
<1>1. /\ TypeOK /\ calls \in Seq(Call) /\ Ids = 1 .. Len(calls) /\ Len(calls) \in Nat
      /\ DOMAIN calls = 1 .. Len(calls)
      /\ \A k \in Ids : calls[k] \in Call /\ CallOK(calls[k])
  BY CallsTyped DEF ExecutorInv, Ids
<1>2. \A k \in Ids : calls[k].progress \in 0 .. MaxProgress
  BY <1>1 DEF Call
<1> DEFINE i == Min(Stopovers)
<1>3. Stopovers \in SUBSET Nat /\ Stopovers \subseteq Ids
  BY <1>1 DEF Stopovers, Mine, Of
<1>4. i \in Ids /\ i \in Stopovers
  BY <1>3, MinIsLeast DEF YieldProgress, YieldResults
<1> DEFINE d == calls[i]
<1>5. CASE YieldProgress
  <2> DEFINE c == [d EXCEPT !.progress = d.progress - 1]
  <2>1. calls' = [calls EXCEPT ![i] = c] /\ d.progress > 0 /\ at' = i - 1
    BY <1>1, <1>4, <1>5 DEF YieldProgress
  <2> HIDE DEF i
  <2>2. d.progress - 1 \in 0 .. MaxProgress /\ d.progress - 1 <= d.progress
    BY <1>2, <1>4, <2>1, BoundsAssumption
  <2>3. c \in Call
    BY <1>1, <1>4, <2>2 DEF Call
  <2>4. c.exec = d.exec /\ c.kind = d.kind /\ c.progress = d.progress - 1
        /\ c.status = d.status /\ c.stage = d.stage /\ c.results = d.results
    BY <1>1, <1>4 DEF Call
  <2> HIDE DEF c
  <2>5. CallOK(c)
    BY <1>1, <1>4, <2>4 DEF CallOK, Errored
  <2>6. /\ CallsStep /\ Len(calls') = Len(calls) /\ Ids' = Ids
        /\ \A k \in Ids : CallOK(calls'[k])
        /\ \A k \in Ids : calls'[k] = IF k = i THEN c ELSE calls[k]
    BY <1>4, <2>1, <2>3, <2>4, <2>5, OneCallKeeps
  <2>7. \A k \in Ids : calls'[k].progress <= calls[k].progress
    BY <1>2, <2>2, <2>4, <2>6, BoundsAssumption
  <2>8. \A k \in Ids : calls'[k].stage = calls[k].stage /\ calls'[k].status = calls[k].status
    BY <2>4, <2>6
  <2>9. at' \in Ids \cup {0}
    BY <1>1, <1>4, <2>1
  <2>10. \A k \in Mine : k \in Ids
    BY DEF Mine, Of, Ids
  <2> QED
    BY <2>6, <2>7, <2>8, <2>9, <2>10
<1>6. CASE YieldResults
  <2> DEFINE c == [d EXCEPT !.status = "yielded", !.results = <<>>]
  <2>1. calls' = [calls EXCEPT ![i] = c] /\ d.status = "completed" /\ at' = i
    BY <1>1, <1>4, <1>6 DEF YieldResults
  <2> HIDE DEF i
  <2>3. c \in Call
    BY <1>1, <1>4, EmptySeq DEF Call, Status
  <2>4. c.exec = d.exec /\ c.kind = d.kind /\ c.progress = d.progress
        /\ c.status = "yielded" /\ c.stage = d.stage /\ c.results = <<>>
    BY <1>1, <1>4 DEF Call
  <2> HIDE DEF c
  <2>5. CallOK(c)
    BY <1>1, <1>4, <2>1, <2>4 DEF CallOK, Errored
  <2>6. /\ CallsStep /\ Len(calls') = Len(calls) /\ Ids' = Ids
        /\ \A k \in Ids : CallOK(calls'[k])
        /\ \A k \in Ids : calls'[k] = IF k = i THEN c ELSE calls[k]
    BY <1>4, <2>1, <2>3, <2>4, <2>5, OneCallKeeps
  <2>7. \A k \in Ids : calls'[k].progress <= calls[k].progress
    BY <1>2, <2>4, <2>6, BoundsAssumption
  <2>8. /\ \A k \in Ids : calls'[k].stage = calls[k].stage
        /\ \A k \in Ids : calls[k].status = "yielded" => calls'[k].status = "yielded"
    BY <2>4, <2>6
  <2>9. at' \in Ids \cup {0}
    BY <1>4, <2>1
  <2>10. \A k \in Mine : k \in Ids
    BY DEF Mine, Of, Ids
  <2> QED
    BY <2>6, <2>7, <2>8, <2>9, <2>10
<1> QED
  BY <1>5, <1>6

\* A call comes in, and at most one call is started.
LEMMA ReceiveCalls ==
  ASSUME ExecutorInv, NEW kd \in Kinds, Receive(kd)
  PROVE  /\ CallsStep /\ Len(calls') = Len(calls) + 1
         /\ \A k \in Ids' : CallOK(calls'[k])
         /\ \A k \in Ids : calls'[k].progress = calls[k].progress
         /\ calls'[Len(calls')].exec = Cur /\ calls'[Len(calls')].progress = 0
         /\ \E j \in Ids' \cup {0} : loops' = loops \cup Suspended(j) /\ (j # 0 => Begun(j)')
         /\ \A k \in Ids' :
              calls'[k].stage = "running" => (k \in Ids /\ calls[k].stage = "running") \/ MayBegin(k)
<1> DEFINE n == Len(calls) + 1
           new == NewCall(kd)
           cs == Append(calls, new)
<1>1. /\ TypeOK /\ calls \in Seq(Call) /\ Ids = 1 .. Len(calls) /\ Len(calls) \in Nat
      /\ \A k \in Ids : calls[k] \in Call /\ CallOK(calls[k])
  BY CallsTyped DEF ExecutorInv
<1>2. /\ new \in Call /\ CallOK(new) /\ new.exec = Cur /\ new.progress = 0 /\ new.kind = kd
      /\ new.stage = "idle" /\ new.status = IF kd \in UnknownKinds THEN "completed" ELSE "queued"
  <2>1. Cur \in 1 .. MaxAttempts /\ 0 \in 0 .. MaxProgress
    BY <1>1, ExecutorsTyped, BoundsAssumption
  <2>2. <<"error">> \in Seq(Message) /\ <<>> \in Seq(Message) /\ Len(<<"error">>) = 1
        /\ <<"error">> # <<>>
    BY EmptySeq DEF Message
  <2>3. CASE kd \in UnknownKinds
    BY <2>1, <2>2, <2>3 DEF NewCall, Call, CallOK, Stage, Status
  <2>4. CASE kd \notin UnknownKinds
    BY <2>1, <2>2, <2>4 DEF NewCall, Call, CallOK, Stage, Status, Errored
  <2> QED
    BY <2>3, <2>4
<1> HIDE DEF new
<1>3. /\ cs \in Seq(Call) /\ Len(cs) = n /\ cs[n] = new
      /\ \A k \in Ids : cs[k] = calls[k]
  BY <1>1, <1>2, AppendProperties
<1>4. n \in Nat /\ n \notin Ids /\ 1 .. n = Ids \cup {n} /\ DOMAIN cs = 1 .. n
  BY <1>1, <1>3, LenProperties
<1> HIDE DEF cs
<1> USE DEF n
<1>5. PICK j : /\ IF kd \in UnknownKinds THEN j = 0 /\ calls' = cs
                   ELSE LoopRuns(cs, Cur, 0, j)
               /\ phase = "stream" /\ loops' = loops \cup Suspended(j)
  BY DEF Receive, cs, new
<1>6. /\ \A k \in 1 .. n : cs[k] \in Call /\ CallOK(cs[k])
      /\ phase = "stream"
  BY <1>1, <1>2, <1>3, <1>4, <1>5
<1>7. CASE j = 0
  <2>0. calls' = cs
    BY <1>5, <1>7 DEF LoopRuns
  <2>1. calls' \in Seq(Call) /\ Len(calls') = Len(calls) + 1 /\ Ids' = 1 .. n
        /\ Len(calls') = n
    BY <1>3, <1>4, <2>0 DEF Ids
  <2>2. \A k \in Ids : StatusStep(k) /\ calls'[k] = calls[k]
    BY <1>3, <2>0 DEF StatusStep
  <2>3. NewStep(n)
    BY <1>2, <1>3, <2>0 DEF NewStep
  <2>4. CallsStep
    BY <1>6, <2>1, <2>2, <2>3 DEF CallsStep
  <2>5. \A k \in Ids' : calls'[k].stage = "running" => k \in Ids /\ calls[k].stage = "running"
    BY <1>2, <1>3, <1>4, <2>0, <2>1
  <2> QED
    BY <1>2, <1>3, <1>5, <1>6, <1>7, <2>0, <2>1, <2>2, <2>4, <2>5
<1>8. CASE j # 0
  <2>1. /\ j = NextToStart(cs, Cur, 0) /\ j # 0 /\ kd \notin UnknownKinds
        /\ calls' = [cs EXCEPT ![j] = Started(cs[j])]
    BY <1>5, <1>8 DEF LoopRuns
  <2>2. \A k \in Of(cs, Cur) : k <= 0 => cs[k].status # "queued"
    BY <1>4 DEF Of
  <2>3. j \in 1 .. n /\ cs[j].exec = Cur /\ StartsInTurn(cs, j)
    BY <1>3, <2>1, <2>2, ChosenStartsInTurn
  <2> DEFINE st == Started(cs[j])
  <2>4. cs[j].status = "queued"
    BY <2>3 DEF StartsInTurn
  <2>5. /\ st \in Call /\ CallOK(st)
        /\ st.exec = Cur /\ st.kind = cs[j].kind
        /\ st.progress = cs[j].progress
        /\ st.status \in {"executing", "completed"}
        /\ st.stage = "running" => abort = "none" /\ AbortReason(cs[j]) = "none"
    BY <1>6, <2>3, <2>4, StartedIs
  <2> HIDE DEF st
  <2>6. /\ calls' \in Seq(Call) /\ Len(calls') = n
        /\ \A k \in 1 .. n : calls'[k] = IF k = j THEN st ELSE cs[k]
    <3>1. calls' = [cs EXCEPT ![j] = st]
      BY <2>1 DEF st
    <3> QED
      BY <1>3, <2>3, <2>5, <3>1, ExceptSeq
  <2>7. Ids' = 1 .. n
    BY <2>6, LenProperties DEF Ids
  <2>8. \A k \in Ids' : CallOK(calls'[k])
    BY <1>6, <2>5, <2>6, <2>7
  <2>9. \A k \in Ids : /\ calls'[k].exec = calls[k].exec /\ calls'[k].kind = calls[k].kind
                       /\ calls'[k].progress = calls[k].progress
    BY <1>3, <1>4, <2>3, <2>5, <2>6
  <2>10. calls'[n].exec = Cur /\ calls'[n].progress = 0 /\ calls'[n].kind = kd
    BY <1>2, <1>3, <1>4, <2>5, <2>6
  <2>11. Mine \subseteq Ids /\ \A k \in Mine : k \in Of(cs, Cur) /\ calls[k].exec = Cur
    BY <1>3, <1>4 DEF Mine, Of, Ids
  <2>12. ASSUME NEW k \in Ids PROVE StatusStep(k)
    <3>1. CASE k # j
      BY <1>3, <1>4, <2>6, <2>12, <3>1 DEF StatusStep
    <3>2. CASE k = j
      <4>1. calls[k].status = "queued" /\ calls[k].exec = Cur /\ cs[k] = calls[k]
        BY <1>3, <2>3, <2>4, <2>12, <3>2
      <4>2. ASSUME NEW q \in Of(calls, Cur), q < k
            PROVE  q \in Of(cs, Cur) /\ cs[q] = calls[q]
        BY <1>3, <2>11 DEF Mine
      <4>3. StartsInTurn(calls, k)
        BY <2>3, <3>2, <4>1, <4>2 DEF StartsInTurn
      <4> QED
        BY <1>4, <2>5, <2>6, <2>12, <3>2, <4>3 DEF StatusStep
    <3> QED
      BY <3>1, <3>2
  <2>13. NewStep(n)
    <3>1. CASE j # n
      BY <1>2, <1>3, <1>4, <2>1, <2>6, <2>10, <3>1 DEF NewStep
    <3>2. CASE j = n
      <4>1. ASSUME NEW k \in Mine
            PROVE  /\ calls[k].status # "queued" /\ calls'[k] = calls[k]
                   /\ calls[k].status = "executing" => IsSafe(calls[k]) /\ IsSafe(calls'[n])
        <5>1. k \in Ids /\ k < n /\ k \in Of(cs, cs[n].exec) /\ cs[k] = calls[k] /\ k # j
          BY <1>1, <1>3, <2>3, <2>11, <3>2
        <5>2. calls'[k] = calls[k]
          BY <1>4, <2>6, <5>1
        <5>3. /\ cs[k].status # "queued"
              /\ cs[k].status = "executing" => IsSafe(cs[k]) /\ IsSafe(cs[n])
          BY <2>3, <3>2, <5>1 DEF StartsInTurn
        <5>4. IsSafe(cs[n]) <=> IsSafe(calls'[n])
          BY <1>2, <1>3, <2>10 DEF IsSafe
        <5> QED
          BY <5>1, <5>2, <5>3, <5>4
      <4>2. calls'[n].status \in {"executing", "completed"}
        BY <1>4, <2>5, <2>6, <3>2
      <4> QED
        BY <2>1, <2>10, <4>1, <4>2 DEF NewStep
    <3> QED
      BY <3>1, <3>2
  <2>14. CallsStep
    <3>1. Len(calls') = Len(calls) + 1
      BY <2>6
    <3> QED
      BY <1>6, <2>6, <2>9, <2>12, <2>13, <3>1 DEF CallsStep
  <2>15. j \in Ids' /\ Begun(j)'
    <3>1. calls'[j] = st /\ cs[j].kind \notin UnknownKinds
      BY <1>6, <2>3, <2>4, <2>6 DEF CallOK
    <3> QED
      BY <2>3, <2>5, <2>7, <3>1 DEF Begun
  <2>16. ASSUME NEW k \in Ids', calls'[k].stage = "running"
         PROVE  (k \in Ids /\ calls[k].stage = "running") \/ MayBegin(k)
    <3>1. CASE k = j
      BY <2>3, <2>5, <2>6, <2>16, <3>1 DEF MayBegin, AbortReason
    <3>2. CASE k # j
      BY <1>2, <1>3, <1>4, <2>6, <2>7, <2>16, <3>2
    <3> QED
      BY <3>1, <3>2
  <2> QED
    BY <1>5, <2>6, <2>8, <2>9, <2>10, <2>14, <2>15, <2>16
<1> QED
  BY <1>7, <1>8

-----------------------------------------------------------------------------
(* The invariant.                                                          *)

LEMMA CountedStays ==
  ASSUME ExecutorInv, Cur' = Cur \/ Cur' = Cur + 1, told' = told \/ told' = told + 1, Ids' = Ids,
         \A k \in Ids : /\ calls'[k].exec = calls[k].exec
                        /\ calls'[k] \in Call
                        /\ calls'[k].progress <= calls[k].progress + (told' - told)
  PROVE  Counted'
<1>1. Cur \in Nat /\ told \in Nat
  BY ExecutorsTyped, BoundsAssumption DEF ExecutorInv, TypeOK
<1>2. \A k \in Ids : calls[k] \in Call /\ calls[k].exec <= Cur /\ calls[k].progress <= told
  BY CallsTyped DEF ExecutorInv, Counted
<1>3. \A k \in Ids : /\ calls[k].exec \in Nat /\ calls[k].progress \in Nat
                     /\ calls'[k].exec \in Nat /\ calls'[k].progress \in Nat
  BY <1>2, BoundsAssumption DEF Call
<1>4. ASSUME NEW k \in Ids PROVE calls'[k].exec <= Cur' /\ calls'[k].progress <= told'
  BY <1>1, <1>2, <1>3
<1> QED
  BY <1>4 DEF Counted

\* Where a loop of the executor goes on, nothing it has passed is queued.
LEMMA PassedAreStarted ==
  ASSUME ExecutorInv, NEW i \in Ids, Begun(i)
  PROVE  \A k \in Of(calls, calls[i].exec) : k <= i => calls[k].status # "queued"
<1>1. Ids = 1 .. Len(calls) /\ Len(calls) \in Nat
  BY CallsTyped DEF ExecutorInv
<1> SUFFICES ASSUME NEW k \in Of(calls, calls[i].exec), k <= i
             PROVE  calls[k].status # "queued"
  OBVIOUS
<1>2. k \in Ids /\ calls[k].exec = calls[i].exec
  BY DEF Of, Ids
<1> QED
  BY <1>1, <1>2 DEF ExecutorInv, InOrder, Begun

\* What each of the loops does to the calls.
LEMMA LoopSteps ==
  ASSUME ExecutorInv,
         \/ \E i \in Ids : ResumeLoop(i) \/ FreshLoop(i)
         \/ CheckRemaining /\ Unfinished
         \/ QueueGoesOn
  PROVE  \E e, j : \E i \in Nat :
           /\ LoopRuns(calls, e, i, j) /\ UNCHANGED <<executors, told, abort, waitOn, handed>>
           /\ \A k \in Of(calls, e) : k <= i => calls[k].status # "queued"
           /\ due' \subseteq due \cup Ids
           /\ \/ loops' \subseteq loops \cup Suspended(j) /\ UNCHANGED <<phase, at>>
              \/ /\ loops' = loops /\ e = Cur /\ at' = j
                 /\ phase' = IF j = 0 THEN "collect" ELSE "queue"
<1>1. Ids = 1 .. Len(calls) /\ Len(calls) \in Nat /\ 0 \in Nat
  BY CallsTyped DEF ExecutorInv
<1>2. \A e : \A k \in Of(calls, e) : k <= 0 => calls[k].status # "queued"
  BY <1>1 DEF Of, Ids
<1>3. ASSUME NEW i \in Ids, ResumeLoop(i)
      PROVE  \E j : /\ LoopRuns(calls, calls[i].exec, i, j)
                    /\ UNCHANGED <<executors, told, abort, waitOn, handed, phase, at>>
                    /\ \A k \in Of(calls, calls[i].exec) : k <= i => calls[k].status # "queued"
                    /\ due' \subseteq due \cup Ids /\ loops' \subseteq loops \cup Suspended(j)
                    /\ i \in Nat
  BY <1>1, <1>3, PassedAreStarted DEF ResumeLoop, ExecutorInv, LoopsBehind, Due, Ids
<1>4. ASSUME NEW i \in Ids, FreshLoop(i)
      PROVE  \E j : /\ LoopRuns(calls, calls[i].exec, 0, j)
                    /\ UNCHANGED <<executors, told, abort, waitOn, handed, phase, at>>
                    /\ due' \subseteq due \cup Ids /\ loops' \subseteq loops \cup Suspended(j)
  BY <1>4 DEF FreshLoop, Due, Ids
<1>5. ASSUME NEW i \in Nat, RunsQueue(i)
      PROVE  \E j : /\ LoopRuns(calls, Cur, i, j)
                    /\ UNCHANGED <<executors, told, abort, waitOn, handed, loops>>
                    /\ due' \subseteq due \cup Ids
                    /\ at' = j /\ phase' = IF j = 0 THEN "collect" ELSE "queue"
  BY <1>5 DEF RunsQueue, Due, Ids
<1>6. CASE \E i \in Ids : ResumeLoop(i)
  BY <1>3, <1>6
<1>7. CASE \E i \in Ids : FreshLoop(i)
  BY <1>1, <1>2, <1>4, <1>7
<1>8. CASE CheckRemaining /\ Unfinished
  BY <1>1, <1>2, <1>5, <1>8 DEF CheckRemaining
<1>9. CASE QueueGoesOn
  <2>1. at \in Ids /\ Begun(at) /\ calls[at].exec = Cur /\ RunsQueue(at)
    BY <1>9 DEF QueueGoesOn, ExecutorInv, LoopsBehind
  <2>2. \A k \in Of(calls, Cur) : k <= at => calls[k].status # "queued"
    BY <2>1, PassedAreStarted
  <2> QED
    BY <1>1, <1>5, <2>1, <2>2
<1> QED
  BY <1>6, <1>7, <1>8, <1>9

LEMMA LoopKeeps ==
  ASSUME ExecutorInv,
         \/ \E i \in Ids : ResumeLoop(i) \/ FreshLoop(i)
         \/ CheckRemaining /\ Unfinished
         \/ QueueGoesOn
  PROVE  /\ CallsStep /\ Len(calls') = Len(calls) /\ Ids' = Ids
         /\ \A k \in Ids : CallOK(calls'[k])
         /\ Counted' /\ LoopsBehind'
         /\ loops' \subseteq Ids /\ due' \subseteq Ids /\ at' \in Ids \cup {0} /\ phase' \in Phase
         /\ UNCHANGED <<executors, told, abort, waitOn, handed>>
         /\ phase' \in {"last", "done"} => phase' = phase
         /\ \A k \in Ids : calls'[k].stage = "running" => calls[k].stage = "running" \/ MayBegin(k)
<1>1. PICK e, j : \E i \in Nat :
        /\ LoopRuns(calls, e, i, j) /\ UNCHANGED <<executors, told, abort, waitOn, handed>>
        /\ \A k \in Of(calls, e) : k <= i => calls[k].status # "queued"
        /\ due' \subseteq due \cup Ids
        /\ \/ loops' \subseteq loops \cup Suspended(j) /\ UNCHANGED <<phase, at>>
           \/ /\ loops' = loops /\ e = Cur /\ at' = j
              /\ phase' = IF j = 0 THEN "collect" ELSE "queue"
  BY LoopSteps
<1>2. /\ CallsStep /\ Len(calls') = Len(calls) /\ Ids' = Ids
      /\ \A k \in Ids : CallOK(calls'[k]) /\ calls'[k].progress = calls[k].progress
      /\ \A k \in Ids : calls'[k] = calls[k] \/ (k = j /\ calls'[k] = Started(calls[k]))
      /\ j # 0 => /\ j \in Ids /\ calls[j].exec = e /\ StartsInTurn(calls, j)
                  /\ calls'[j].status # "queued" /\ calls[j].kind \notin UnknownKinds
  BY <1>1, LoopCalls
<1>3. /\ TypeOK /\ Ids = 1 .. Len(calls)
      /\ \A k \in Ids : calls[k] \in Call
  BY CallsTyped DEF ExecutorInv
<1>4. /\ executors' = executors /\ told' = told /\ abort' = abort /\ waitOn' = waitOn
      /\ handed' = handed /\ Cur' = Cur
  BY <1>1 DEF Cur
<1>5. \A k \in Ids : /\ calls'[k] \in Call /\ calls'[k].exec = calls[k].exec
                     /\ calls'[k].kind = calls[k].kind
  BY <1>2, <1>3, ElementOfSeq DEF CallsStep
<1>6. Counted'
  <2>1. told \in Nat
    BY <1>3, BoundsAssumption DEF TypeOK
  <2>2. \A k \in Ids : calls[k].progress \in Nat
    BY <1>3, BoundsAssumption DEF Call
  <2>3. \A k \in Ids : calls'[k].progress <= calls[k].progress + (told' - told)
    BY <1>2, <1>4, <2>1, <2>2
  <2> QED
    BY <1>2, <1>4, <1>5, <2>3, CountedStays
<1>7. \A i \in Ids : Begun(i) => Begun(i)'
  BY <1>2, <1>5 DEF Begun, CallsStep, StatusStep
<1>8. j # 0 => j \in Ids /\ Begun(j)'
  BY <1>2, <1>5 DEF Begun
<1>9. loops \subseteq Ids /\ due \subseteq Ids /\ at \in Ids \cup {0} /\ phase \in Phase
      /\ LoopsBehind
  BY <1>3 DEF TypeOK, ExecutorInv
<1>10. loops' \subseteq Ids /\ \A i \in loops' : Begun(i)'
  BY <1>1, <1>7, <1>8, <1>9 DEF Suspended, LoopsBehind
<1>11. at' \in Ids \cup {0} /\ phase' \in Phase /\ (phase' \in {"last", "done"} => phase' = phase)
  BY <1>1, <1>8, <1>9 DEF Phase
<1>12. ASSUME phase' = "queue"
       PROVE  at' \in Ids /\ Begun(at)' /\ calls'[at'].exec = Cur
  <2>1. CASE UNCHANGED <<phase, at>>
    <3>1. at' = at /\ phase = "queue"
      BY <1>12, <2>1
    <3>2. at \in Ids /\ Begun(at) /\ calls[at].exec = Cur
      BY <1>9, <3>1 DEF LoopsBehind
    <3>3. calls'[at].status # "queued" /\ calls'[at].kind \notin UnknownKinds
      BY <1>7, <3>2 DEF Begun
    <3> QED
      BY <1>5, <3>1, <3>2, <3>3 DEF Begun
  <2>2. CASE e = Cur /\ at' = j /\ phase' = IF j = 0 THEN "collect" ELSE "queue"
    <3>1. j # 0 /\ at' = j
      BY <1>12, <2>2
    <3>2. j \in Ids /\ calls'[j].exec = Cur /\ calls'[j].status # "queued"
          /\ calls'[j].kind \notin UnknownKinds
      BY <1>2, <1>5, <2>2, <3>1
    <3> QED
      BY <3>1, <3>2 DEF Begun
  <2> QED
    BY <1>1, <2>1, <2>2
<1>13. LoopsBehind'
  BY <1>2, <1>4, <1>10, <1>12 DEF LoopsBehind
<1>14. due' \subseteq Ids
  BY <1>1, <1>9
<1>15. ASSUME NEW k \in Ids, calls'[k].stage = "running", calls[k].stage # "running"
       PROVE  MayBegin(k)
  <2>1. k = j /\ j # 0 /\ calls'[k] = Started(calls[k]) /\ StartsInTurn(calls, k)
    BY <1>2, <1>3, <1>15, CallsTyped
  <2>2. calls[k].status = "queued" /\ CallOK(calls[k])
    BY <2>1 DEF StartsInTurn, ExecutorInv
  <2>3. abort = "none" /\ AbortReason(calls[k]) = "none"
    BY <1>3, <1>15, <2>1, <2>2, StartedIs
  <2> QED
    BY <1>5, <2>3 DEF MayBegin, AbortReason
<1> QED
  BY <1>2, <1>4, <1>6, <1>10, <1>11, <1>13, <1>14, <1>15

LEMMA InOrderStays ==
  ASSUME ExecutorInv, CallsStep
  PROVE  InOrder'
<1>1. /\ Ids = 1 .. Len(calls) /\ Len(calls) \in Nat /\ InOrder
      /\ Ids' = 1 .. Len(calls') /\ Len(calls') \in {Len(calls), Len(calls) + 1}
  BY CallsTyped, LenProperties DEF ExecutorInv, CallsStep, Ids
<1> SUFFICES ASSUME NEW i \in Ids', NEW j \in Ids', j < i,
                    calls'[j].exec = calls'[i].exec, Begun(i)'
             PROVE  calls'[j].status # "queued"
  BY DEF InOrder
<1>2. j \in Ids /\ (i \in Ids \/ (i = Len(calls') /\ Len(calls') = Len(calls) + 1))
  BY <1>1
<1>3. StatusStep(j) /\ calls'[j].exec = calls[j].exec
  BY <1>2 DEF CallsStep
<1>4. calls[j].status # "queued" => calls'[j].status # "queued"
  BY <1>3 DEF StatusStep
<1>5. CASE i \in Ids
  <2>1. /\ calls'[i].exec = calls[i].exec /\ calls'[i].kind = calls[i].kind /\ StatusStep(i)
    BY <1>5 DEF CallsStep
  <2>2. CASE Begun(i)
    BY <1>1, <1>2, <1>3, <1>4, <1>5, <2>1, <2>2 DEF InOrder
  <2>3. CASE ~Begun(i)
    <3>1. StartsInTurn(calls, i)
      BY <2>1, <2>3 DEF Begun, StatusStep
    <3>2. j \in Of(calls, calls[i].exec)
      BY <1>2, <1>3, <2>1 DEF Of, Ids
    <3> QED
      BY <1>4, <3>1, <3>2 DEF StartsInTurn
  <2> QED
    BY <2>2, <2>3
<1>6. CASE i = Len(calls') /\ Len(calls') = Len(calls) + 1
  <2>1. NewStep(i)
    BY <1>6 DEF CallsStep
  <2>2. j \in Mine
    BY <1>2, <1>3, <2>1 DEF NewStep, Mine, Of, Ids
  <2>3. calls'[i].status # "queued" /\ calls'[i].kind \notin UnknownKinds
    BY DEF Begun
  <2> QED
    BY <1>4, <2>1, <2>2, <2>3 DEF NewStep
<1> QED
  BY <1>2, <1>5, <1>6

\* What is reported stays reported.
LEMMA ReportedStays ==
  ASSUME ExecutorInv, CallsStep, Cur' = Cur, Len(calls') = Len(calls),
         \A i \in Mine : calls[i].status = "yielded"
  PROVE  \A i \in Mine' : calls'[i].status = "yielded"
<1>1. Ids = 1 .. Len(calls) /\ Ids' = 1 .. Len(calls')
  BY CallsTyped, LenProperties DEF ExecutorInv, CallsStep, Ids
<1> SUFFICES ASSUME NEW i \in Mine' PROVE calls'[i].status = "yielded"
  OBVIOUS
<1>2. i \in Ids' /\ calls'[i].exec = Cur'
  BY DEF Mine, Of, Ids
<1>3. i \in Ids /\ calls'[i].exec = calls[i].exec /\ StatusStep(i)
  BY <1>1, <1>2 DEF CallsStep
<1>4. i \in Mine
  BY <1>2, <1>3 DEF Mine, Of, Ids
<1> QED
  BY <1>3, <1>4 DEF StatusStep, StartsInTurn

\* A loop that is suspended stays behind a call that has left the queue.
LEMMA BehindStays ==
  ASSUME ExecutorInv, CallsStep, Ids \subseteq Ids',
         \A i \in loops' \ loops : i \in Ids' /\ Begun(i)',
         phase' = "queue" => phase = "queue" /\ at' = at /\ Cur' = Cur
  PROVE  LoopsBehind'
<1>1. \A i \in Ids : Begun(i) => Begun(i)' /\ calls'[i].exec = calls[i].exec
  BY DEF Begun, CallsStep, StatusStep
<1>2. loops \subseteq Ids /\ LoopsBehind
  BY DEF ExecutorInv, TypeOK
<1>3. \A i \in loops' : Begun(i)'
  BY <1>1, <1>2 DEF LoopsBehind
<1>4. ASSUME phase' = "queue" PROVE at' \in Ids' /\ Begun(at)' /\ calls'[at'].exec = Cur'
  <2>1. at' = at /\ at \in Ids /\ Begun(at) /\ calls[at].exec = Cur /\ Cur' = Cur
    BY <1>2, <1>4 DEF LoopsBehind
  <2>2. calls'[at].status # "queued" /\ calls'[at].kind \notin UnknownKinds
        /\ calls'[at].exec = calls[at].exec
    BY <1>1, <2>1 DEF Begun
  <2> QED
    BY <2>1, <2>2 DEF Begun
<1> QED
  BY <1>3, <1>4 DEF LoopsBehind

LEMMA ExecutorsGrow ==
  ASSUME NEW m \in Nat, NEW n \in Nat, m <= n
  PROVE  /\ \A s \in Seq(Executor(m)) : s \in Seq(Executor(n))
         /\ \A s \in Seq(1 .. m) : s \in Seq(1 .. n)
<1>1. 1 .. m \subseteq 1 .. n
  OBVIOUS
<1>2. Seq(1 .. m) \subseteq Seq(1 .. n)
  BY <1>1, SeqMonotonic
<1>3. Executor(m) \subseteq Executor(n)
  BY <1>2 DEF Executor
<1>4. Seq(Executor(m)) \subseteq Seq(Executor(n))
  BY <1>3, SeqMonotonic
<1> QED
  BY <1>2, <1>4

LEMMA UnchangedCalls ==
  ASSUME ExecutorInv, calls' = calls
  PROVE  /\ CallsStep /\ Len(calls') = Len(calls) /\ Ids' = Ids
         /\ \A k \in Ids : CallOK(calls'[k])
<1>1. /\ calls \in Seq(Call) /\ Len(calls) \in Nat /\ \A k \in Ids : CallOK(calls[k])
  BY CallsTyped DEF ExecutorInv
<1>2. Len(calls') = Len(calls) /\ Ids' = Ids
  BY DEF Ids
<1>3. \A k \in Ids : StatusStep(k)
  BY DEF StatusStep
<1> QED
  BY <1>1, <1>2, <1>3 DEF CallsStep

\* The type of the next state, in the terms of these proofs.
LEMMA NextTyped ==
  ASSUME calls' \in Seq(Call), Len(calls') <= MaxCalls,
         executors' \in Seq(Executor(Len(calls'))), Len(executors') \in 1 .. MaxAttempts,
         loops' \subseteq Ids', due' \subseteq Ids', phase' \in Phase,
         at' \in Ids' \cup {0}, waitOn' \subseteq Ids', abort' \in {"none"} \cup AbortReasons,
         handed' \in Seq(1 .. Len(calls')), told' \in 0 .. MaxProgress
  PROVE  TypeOK'
<1>1. Ids' = 1 .. Len(calls')
  BY LenProperties DEF Ids
<1> QED
  BY <1>1 DEF TypeOK, Call, Executor

\* The parts of the state a step may leave alone, in those terms.
LEMMA StateTyped ==
  ASSUME TypeOK
  PROVE  /\ Len(calls) <= MaxCalls /\ Len(executors) \in 1 .. MaxAttempts
         /\ loops \subseteq Ids /\ due \subseteq Ids /\ phase \in Phase
         /\ at \in Ids \cup {0} /\ waitOn \subseteq Ids /\ abort \in {"none"} \cup AbortReasons
         /\ handed \in Seq(1 .. Len(calls)) /\ told \in 0 .. MaxProgress
<1>1. Ids = 1 .. Len(calls)
  BY CallsTyped
<1> QED
  BY <1>1 DEF TypeOK

\* A call that ends leaves its context modifiers with its executor.
LEMMA ContextsTyped ==
  ASSUME TypeOK, NEW e \in 1 .. Cur, NEW c \in Seq(1 .. Len(calls)), NEW b \in BOOLEAN
  PROVE  /\ [executors EXCEPT ![e].context = c] \in Seq(Executor(Len(calls)))
         /\ Len([executors EXCEPT ![e].context = c]) = Cur
         /\ [executors EXCEPT ![e].hasErrored = b] \in Seq(Executor(Len(calls)))
         /\ Len([executors EXCEPT ![e].hasErrored = b]) = Cur
         /\ [executors EXCEPT ![e].discarded = b] \in Seq(Executor(Len(calls)))
         /\ Len([executors EXCEPT ![e].discarded = b]) = Cur
<1>1. /\ executors \in Seq(Executor(Len(calls))) /\ executors[e] \in Executor(Len(calls))
      /\ DOMAIN executors = 1 .. Cur
  BY ExecutorsTyped
<1> DEFINE x == executors[e]
           x1 == [x EXCEPT !.context = c]
           x2 == [x EXCEPT !.hasErrored = b]
           x3 == [x EXCEPT !.discarded = b]
<1>2. x1 \in Executor(Len(calls)) /\ x2 \in Executor(Len(calls)) /\ x3 \in Executor(Len(calls))
  BY <1>1 DEF Executor
<1>3. /\ [executors EXCEPT ![e].context = c] = [executors EXCEPT ![e] = x1]
      /\ [executors EXCEPT ![e].hasErrored = b] = [executors EXCEPT ![e] = x2]
      /\ [executors EXCEPT ![e].discarded = b] = [executors EXCEPT ![e] = x3]
  BY <1>1
<1> HIDE DEF x1, x2, x3
<1> QED
  BY <1>1, <1>2, <1>3, ExceptSeq DEF Cur

LEMMA ToolExecutors ==
  ASSUME ExecutorInv, NEW i \in Ids, ToolStep(i)
  PROVE  executors' \in Seq(Executor(Len(calls))) /\ Cur' = Cur
<1>1. /\ TypeOK /\ calls[i] \in Call /\ Counted /\ Ids = 1 .. Len(calls)
      /\ executors \in Seq(Executor(Len(calls))) /\ Cur \in Nat /\ DOMAIN executors = 1 .. Cur
      /\ \A e \in 1 .. Cur : executors[e] \in Executor(Len(calls))
  BY CallsTyped, ExecutorsTyped DEF ExecutorInv
<1> DEFINE e == calls[i].exec
<1>2. e \in 1 .. Cur
  BY <1>1, BoundsAssumption DEF Counted, Call
<1>3. executors[e] \in Executor(Len(calls))
  BY <1>1, <1>2
<1>4. /\ executors[e].context \in Seq(1 .. Len(calls)) /\ executors[e].hasErrored \in BOOLEAN
  BY <1>3 DEF Executor
<1>5. Append(executors[e].context, i) \in Seq(1 .. Len(calls))
  BY <1>1, <1>4, AppendProperties
<1>6. CASE Cancelled(i) \/ Ends(i)
  <2>1. PICK c \in Seq(1 .. Len(calls)) : executors' = [executors EXCEPT ![e].context = c]
    BY <1>1, <1>2, <1>4, <1>5, <1>6 DEF Cancelled, Ends, Complete
  <2> QED
    BY <1>1, <1>2, <2>1, ContextsTyped DEF Cur
<1>7. CASE ErrorResult(i)
  <2>1. PICK b \in BOOLEAN : executors' = [executors EXCEPT ![e].hasErrored = b]
    BY <1>1, <1>2, <1>4, <1>7 DEF ErrorResult
  <2>2. <<>> \in Seq(1 .. Len(calls))
    BY EmptySeq
  <2> QED
    BY <1>1, <1>2, <2>1, <2>2, ContextsTyped DEF Cur
<1>8. CASE Progress(i) \/ Result(i)
  BY <1>1, <1>8 DEF Progress, Result, Cur
<1> QED
  BY <1>6, <1>7, <1>8 DEF ToolStep

LEMMA ToolKeeps ==
  ASSUME ExecutorInv, NEW i \in Ids, ToolStep(i)
  PROVE  ExecutorInv'
<1>1. /\ CallsStep /\ Len(calls') = Len(calls) /\ Ids' = Ids
      /\ \A k \in Ids : CallOK(calls'[k])
      /\ \A k \in Ids : calls'[k].progress <= calls[k].progress + (told' - told)
  BY ToolCalls
<1>2. /\ TypeOK /\ LastReported /\ Ids = 1 .. Len(calls)
  BY CallsTyped DEF ExecutorInv
<1>3. executors' \in Seq(Executor(Len(calls))) /\ Cur' = Cur
  BY ToolExecutors
<1>4. /\ loops' = loops /\ at' = at /\ abort' = abort /\ handed' = handed
      /\ due' \subseteq due \cup {i} /\ waitOn' \subseteq waitOn
      /\ phase' = phase \/ phase' = "check"
      /\ told' = told \/ (told' = told + 1 /\ told < MaxProgress)
  BY DEF ToolStep, Cancelled, Progress, Result, ErrorResult, Ends, Complete
<1>5. told' \in 0 .. MaxProgress /\ phase' \in Phase
  BY <1>2, <1>4, BoundsAssumption, StateTyped DEF Phase
<1>6. TypeOK'
  <2>1. /\ Len(calls') <= MaxCalls /\ Len(executors') \in 1 .. MaxAttempts
        /\ loops' \subseteq Ids' /\ due' \subseteq Ids' /\ at' \in Ids' \cup {0}
        /\ waitOn' \subseteq Ids' /\ abort' \in {"none"} \cup AbortReasons
        /\ handed' \in Seq(1 .. Len(calls'))
    BY <1>1, <1>2, <1>3, <1>4, StateTyped DEF Cur
  <2>2. calls' \in Seq(Call) /\ executors' \in Seq(Executor(Len(calls')))
    BY <1>1, <1>3 DEF CallsStep
  <2> QED
    BY <1>5, <2>1, <2>2, NextTyped
<1>7. InOrder'
  BY <1>1, InOrderStays
<1>8. Counted'
  <2>1. \A k \in Ids : calls'[k] \in Call /\ calls'[k].exec = calls[k].exec
    BY <1>1, <1>2, ElementOfSeq DEF CallsStep
  <2> QED
    BY <1>1, <1>3, <1>4, <2>1, CountedStays
<1>9. LoopsBehind'
  BY <1>1, <1>3, <1>4, BehindStays
<1>10. LastReported'
  <2> SUFFICES ASSUME phase' \in {"last", "done"}
               PROVE  \A k \in Mine' : calls'[k].status = "yielded"
    BY DEF LastReported
  <2>1. phase \in {"last", "done"}
    BY <1>4
  <2> QED
    BY <1>1, <1>2, <1>3, <2>1, ReportedStays DEF LastReported
<1> QED
  BY <1>1, <1>6, <1>7, <1>8, <1>9, <1>10 DEF ExecutorInv

LEMMA LoopInv ==
  ASSUME ExecutorInv,
         \/ \E i \in Ids : ResumeLoop(i) \/ FreshLoop(i)
         \/ CheckRemaining /\ Unfinished
         \/ QueueGoesOn
  PROVE  ExecutorInv'
<1>1. /\ CallsStep /\ Len(calls') = Len(calls) /\ Ids' = Ids
      /\ \A k \in Ids : CallOK(calls'[k])
      /\ Counted' /\ LoopsBehind'
      /\ loops' \subseteq Ids /\ due' \subseteq Ids /\ at' \in Ids \cup {0} /\ phase' \in Phase
      /\ UNCHANGED <<executors, told, abort, waitOn, handed>>
      /\ phase' \in {"last", "done"} => phase' = phase
  BY LoopKeeps
<1>2. TypeOK /\ LastReported /\ Cur' = Cur /\ executors' = executors
  BY <1>1 DEF ExecutorInv, Cur
<1>3. TypeOK'
  <2>1. /\ Len(calls') <= MaxCalls /\ Len(executors') \in 1 .. MaxAttempts
        /\ waitOn' \subseteq Ids' /\ abort' \in {"none"} \cup AbortReasons
        /\ handed' \in Seq(1 .. Len(calls')) /\ told' \in 0 .. MaxProgress
    BY <1>1, <1>2, StateTyped
  <2>2. calls' \in Seq(Call) /\ executors' \in Seq(Executor(Len(calls')))
    BY <1>1, <1>2, ExecutorsTyped DEF CallsStep
  <2> QED
    BY <1>1, <2>1, <2>2, NextTyped
<1>4. InOrder'
  BY <1>1, InOrderStays
<1>5. LastReported'
  BY <1>1, <1>2, ReportedStays DEF LastReported
<1> QED
  BY <1>1, <1>3, <1>4, <1>5 DEF ExecutorInv

LEMMA YieldKeeps ==
  ASSUME ExecutorInv, YieldProgress \/ YieldResults
  PROVE  ExecutorInv'
<1>1. /\ CallsStep /\ Len(calls') = Len(calls) /\ Ids' = Ids
      /\ \A k \in Ids : CallOK(calls'[k])
      /\ \A k \in Ids : calls'[k].progress <= calls[k].progress
      /\ at' \in Ids \cup {0}
  BY YieldCalls
<1>2. /\ UNCHANGED <<executors, loops, due, phase, waitOn, abort, told>>
      /\ handed' \in {handed, executors[Cur].context} /\ phase # "queue"
  BY DEF YieldProgress, YieldResults, HandsContext
<1>3. TypeOK /\ LastReported /\ Cur' = Cur /\ executors' = executors
  BY <1>2 DEF ExecutorInv, Cur
<1>4. TypeOK'
  <2>1. handed' \in Seq(1 .. Len(calls))
    BY <1>2, <1>3, StateTyped, ExecutorsTyped DEF Executor
  <2>2. /\ Len(calls') <= MaxCalls /\ Len(executors') \in 1 .. MaxAttempts
        /\ loops' \subseteq Ids' /\ due' \subseteq Ids' /\ at' \in Ids' \cup {0}
        /\ waitOn' \subseteq Ids' /\ abort' \in {"none"} \cup AbortReasons
        /\ handed' \in Seq(1 .. Len(calls')) /\ told' \in 0 .. MaxProgress /\ phase' \in Phase
    BY <1>1, <1>2, <1>3, <2>1, StateTyped
  <2>3. calls' \in Seq(Call) /\ executors' \in Seq(Executor(Len(calls')))
    BY <1>1, <1>3, ExecutorsTyped DEF CallsStep
  <2> QED
    BY <2>2, <2>3, NextTyped
<1>5. InOrder'
  BY <1>1, InOrderStays
<1>6. Counted'
  <2>1. told \in Nat /\ told' = told /\ \A k \in Ids : calls[k] \in Call
    BY <1>2, <1>3, BoundsAssumption, StateTyped, CallsTyped
  <2>2. \A k \in Ids : calls'[k] \in Call /\ calls'[k].exec = calls[k].exec
    BY <1>1, <1>3, CallsTyped, ElementOfSeq DEF CallsStep
  <2>3. \A k \in Ids : calls[k].progress \in Nat /\ calls'[k].progress \in Nat
    BY <2>1, <2>2, BoundsAssumption DEF Call
  <2>4. \A k \in Ids : calls'[k].progress <= calls[k].progress + (told' - told)
    BY <1>1, <2>1, <2>3
  <2> QED
    BY <1>1, <1>3, <2>1, <2>2, <2>4, CountedStays
<1>7. LoopsBehind'
  BY <1>1, <1>2, <1>3, BehindStays
<1>8. LastReported'
  BY <1>1, <1>2, <1>3, ReportedStays DEF LastReported
<1> QED
  BY <1>1, <1>4, <1>5, <1>6, <1>7, <1>8 DEF ExecutorInv

LEMMA ReceiveKeeps ==
  ASSUME ExecutorInv, NEW kd \in Kinds, Receive(kd)
  PROVE  ExecutorInv'
<1>1. /\ CallsStep /\ Len(calls') = Len(calls) + 1
      /\ \A k \in Ids' : CallOK(calls'[k])
      /\ \A k \in Ids : calls'[k].progress = calls[k].progress
      /\ calls'[Len(calls')].exec = Cur /\ calls'[Len(calls')].progress = 0
  BY ReceiveCalls
<1>2. PICK j \in Ids' \cup {0} : loops' = loops \cup Suspended(j) /\ (j # 0 => Begun(j)')
  BY ReceiveCalls
<1>3. /\ UNCHANGED <<executors, waitOn, abort, handed, told>>
      /\ due' \subseteq due \cup DOMAIN Append(calls, NewCall(kd))
      /\ phase' = "drain" /\ at' = 0 /\ Len(calls) < MaxCalls
  BY DEF Receive, Due
<1>4. /\ TypeOK /\ Counted /\ Ids = 1 .. Len(calls) /\ Len(calls) \in Nat
      /\ executors' = executors /\ Cur' = Cur /\ told' = told
      /\ \A k \in Ids : calls[k] \in Call
  BY <1>3, CallsTyped DEF ExecutorInv, Cur
<1>5. calls' \in Seq(Call) /\ Ids' = 1 .. Len(calls) + 1 /\ Ids \subseteq Ids'
  BY <1>1, <1>4, LenProperties DEF CallsStep, Ids
<1>6. due' \subseteq Ids'
  <2>1. DOMAIN Append(calls, NewCall(kd)) = 1 .. Len(calls) + 1
    BY <1>4, CallsTyped
  <2> QED
    BY <1>3, <1>4, <1>5, <2>1, StateTyped
<1>7. TypeOK'
  <2>1. /\ executors \in Seq(Executor(Len(calls'))) /\ handed \in Seq(1 .. Len(calls'))
    BY <1>1, <1>4, ExecutorsTyped, StateTyped, ExecutorsGrow
  <2>2. Len(calls') <= MaxCalls
    BY <1>1, <1>3, <1>4, BoundsAssumption
  <2>3. /\ Len(executors') \in 1 .. MaxAttempts /\ loops' \subseteq Ids'
        /\ at' \in Ids' \cup {0} /\ waitOn' \subseteq Ids' /\ phase' \in Phase
        /\ abort' \in {"none"} \cup AbortReasons /\ told' \in 0 .. MaxProgress
    BY <1>2, <1>3, <1>4, <1>5, StateTyped DEF Suspended, Phase
  <2> QED
    BY <1>3, <1>5, <1>6, <2>1, <2>2, <2>3, NextTyped
<1>8. InOrder'
  BY <1>1, InOrderStays
<1>9. Counted'
  <2>1. told \in Nat /\ Cur \in Nat
    BY <1>4, StateTyped, ExecutorsTyped, BoundsAssumption
  <2>2. \A k \in Ids : calls'[k].exec <= Cur' /\ calls'[k].progress <= told'
    BY <1>1, <1>4 DEF Counted, CallsStep
  <2>3. calls'[Len(calls')].exec <= Cur' /\ calls'[Len(calls')].progress <= told'
    BY <1>1, <1>4, <2>1
  <2> QED
    BY <1>1, <1>4, <1>5, <2>2, <2>3 DEF Counted
<1>10. LoopsBehind'
  BY <1>1, <1>2, <1>3, <1>5, BehindStays DEF Suspended
<1>11. LastReported'
  BY <1>3 DEF LastReported
<1> QED
  BY <1>1, <1>7, <1>8, <1>9, <1>10, <1>11 DEF ExecutorInv

\* The steps of the query loop and of its surroundings that leave the calls alone.
LEMMA QuietKeeps ==
  ASSUME ExecutorInv,
         \/ ReceiveOther \/ StreamFails \/ StreamEnds \/ Abort \/ FallBack
         \/ CheckRemaining /\ ~Unfinished
         \/ DrainEnds \/ WakeUp \/ UNCHANGED vars
  PROVE  ExecutorInv'
<1>1. /\ TypeOK /\ Ids = 1 .. Len(calls) /\ LastReported /\ InOrder /\ Counted /\ LoopsBehind
      /\ \A k \in Ids : CallOK(calls[k])
  BY CallsTyped DEF ExecutorInv
<1>2. /\ calls' = calls /\ loops' = loops /\ due' = due /\ handed' = handed /\ told' = told
      /\ at' \in {at, 0} /\ waitOn' \subseteq Ids
      /\ abort' \in {"none"} \cup AbortReasons /\ phase' \in Phase
      /\ phase' = "queue" => phase = "queue" /\ at' = at /\ executors' = executors
  BY <1>1, StateTyped
  DEF ReceiveOther, StreamFails, StreamEnds, Abort, FallBack, CheckRemaining, DrainEnds, WakeUp,
      vars, Phase, Executing, Mine, Of, Ids
<1>3. /\ CallsStep /\ Len(calls') = Len(calls) /\ Ids' = Ids
      /\ \A k \in Ids : CallOK(calls'[k])
  BY <1>2, UnchangedCalls
<1>4. \/ executors' = executors
      \/ /\ FallBack
         /\ executors' \in Seq(Executor(Len(calls))) /\ Len(executors') = Cur + 1
         /\ Len(executors') \in 1 .. MaxAttempts /\ phase' = "stream"
  <2>1. CASE FallBack
    <3>1. executors' = Append([executors EXCEPT ![Cur].discarded = TRUE], NewExecutor)
          /\ Cur < MaxAttempts /\ phase' = "stream"
      BY <2>1 DEF FallBack
    <3>2. Cur \in 1 .. Cur /\ Cur \in Nat /\ <<>> \in Seq(1 .. Len(calls))
      BY <1>1, ExecutorsTyped, EmptySeq
    <3>3. /\ [executors EXCEPT ![Cur].discarded = TRUE] \in Seq(Executor(Len(calls)))
          /\ Len([executors EXCEPT ![Cur].discarded = TRUE]) = Cur
      BY <1>1, <3>2, ContextsTyped
    <3>4. NewExecutor \in Executor(Len(calls))
      BY <3>2 DEF NewExecutor, Executor
    <3>5. executors' \in Seq(Executor(Len(calls))) /\ Len(executors') = Cur + 1
      BY <3>1, <3>3, <3>4, AppendProperties
    <3> QED
      BY <2>1, <3>1, <3>2, <3>5, BoundsAssumption
  <2> QED
    BY <2>1
    DEF ReceiveOther, StreamFails, StreamEnds, Abort, CheckRemaining, DrainEnds, WakeUp, vars
<1>5. executors' = executors => Cur' = Cur
  BY DEF Cur
<1>6. Cur' = Cur \/ (Cur' = Cur + 1 /\ phase' = "stream")
  BY <1>4, <1>5 DEF Cur
<1>7. TypeOK'
  <2>1. executors' \in Seq(Executor(Len(calls'))) /\ Len(executors') \in 1 .. MaxAttempts
    BY <1>1, <1>2, <1>4, ExecutorsTyped, StateTyped DEF Cur
  <2>2. /\ Len(calls') <= MaxCalls /\ loops' \subseteq Ids' /\ due' \subseteq Ids'
        /\ at' \in Ids' \cup {0} /\ handed' \in Seq(1 .. Len(calls')) /\ told' \in 0 .. MaxProgress
    BY <1>1, <1>2, <1>3, StateTyped
  <2> QED
    BY <1>2, <1>3, <2>1, <2>2, NextTyped DEF CallsStep
<1>8. InOrder'
  BY <1>3, InOrderStays
<1>9. Counted'
  <2>1. Cur \in Nat /\ told \in Nat /\ \A k \in Ids : calls[k] \in Call
    BY <1>1, StateTyped, ExecutorsTyped, CallsTyped, BoundsAssumption
  <2>2. \A k \in Ids : calls[k].exec \in Nat
    BY <2>1, BoundsAssumption DEF Call
  <2> QED
    BY <1>1, <1>2, <1>3, <1>6, <2>1, <2>2 DEF Counted
<1>10. LoopsBehind'
  BY <1>2, <1>3, <1>5, BehindStays
<1>11. LastReported'
  <2> SUFFICES ASSUME phase' \in {"last", "done"}
               PROVE  \A k \in Mine' : calls'[k].status = "yielded"
    BY DEF LastReported
  <2>1. Cur' = Cur
    BY <1>6
  <2>2. Mine' = Mine
    BY <1>2, <2>1 DEF Mine
  <2>3. CASE phase \in {"last", "done"}
    BY <1>1, <1>2, <2>2, <2>3 DEF LastReported
  <2>4. CASE phase \notin {"last", "done"}
    <3>1. StreamEnds \/ (CheckRemaining /\ ~Unfinished)
      BY <2>4 DEF ReceiveOther, StreamFails, Abort, FallBack, DrainEnds, WakeUp, vars
    <3>2. \A k \in Mine : calls[k].status = "yielded"
      BY <3>1 DEF StreamEnds, Unfinished
    <3> QED
      BY <1>2, <2>2, <3>2
  <2> QED
    BY <2>3, <2>4
<1> QED
  BY <1>3, <1>7, <1>8, <1>9, <1>10, <1>11 DEF ExecutorInv

LEMMA InvInit == Init => ExecutorInv
<1> SUFFICES ASSUME Init PROVE ExecutorInv
  OBVIOUS
<1>1. /\ calls = <<>> /\ executors = <<NewExecutor>> /\ loops = {} /\ due = {}
      /\ phase = "stream" /\ at = 0 /\ waitOn = {} /\ abort = "none" /\ handed = <<>> /\ told = 0
  BY DEF Init
<1>2. calls \in Seq(Call) /\ Len(calls) = 0 /\ handed \in Seq(Ids)
  BY <1>1, EmptySeq
<1>3. Ids = {}
  BY <1>2, LenProperties DEF Ids
<1>4. executors \in Seq(Executor(0)) /\ Len(executors) = 1
  <2>1. NewExecutor \in Executor(0)
    BY EmptySeq DEF NewExecutor, Executor
  <2> QED
    BY <1>1, <2>1
<1>5. Ids = 1 .. 0
  BY <1>3
<1>6. TypeOK
  BY <1>1, <1>2, <1>3, <1>4, <1>5, BoundsAssumption DEF TypeOK, Call, Executor, Phase
<1> QED
  BY <1>1, <1>3, <1>6 DEF ExecutorInv, Counted, InOrder, LoopsBehind, LastReported

\* The invariant holds in every reachable state.
LEMMA ExecutorInvariant == Spec => []ExecutorInv
<1>1. Init => ExecutorInv
  BY InvInit
<1>2. ExecutorInv /\ [Next]_vars => ExecutorInv'
  <2> SUFFICES ASSUME ExecutorInv, [Next]_vars PROVE ExecutorInv'
    OBVIOUS
  <2>1. CASE \E k \in Kinds : Receive(k)
    BY <2>1, ReceiveKeeps
  <2>2. CASE \E i \in Ids : ToolStep(i) \/ ResumeLoop(i) \/ FreshLoop(i)
    BY <2>2, ToolKeeps, LoopInv
  <2>3. CASE QueryStep
    BY <2>3, LoopInv, YieldKeeps, QuietKeeps DEF QueryStep
  <2>4. CASE ReceiveOther \/ FallBack \/ StreamFails \/ StreamEnds \/ Abort \/ UNCHANGED vars
    BY <2>4, QuietKeeps
  <2> QED
    BY <2>1, <2>2, <2>3, <2>4 DEF Next
<1> QED
  BY <1>1, <1>2, PTL DEF Spec

-----------------------------------------------------------------------------
(* The theorems.                                                           *)

\* The state is of its type; a completed call has an answer, and an error of its own is
\* the only one.
THEOREM AnsweredOnce == Spec => []ErrorAnswersOnce
<1>1. ExecutorInv => ErrorAnswersOnce
  BY DEF ExecutorInv, CallOK, ErrorAnswersOnce
<1> QED
  BY <1>1, ExecutorInvariant, PTL

\* A turn that is over has handed on the results of every call of its attempt.
THEOREM AllReported == Spec => []TurnReportsAll
<1>1. ExecutorInv => TurnReportsAll
  BY DEF ExecutorInv, LastReported, TurnReportsAll
<1> QED
  BY <1>1, ExecutorInvariant, PTL

\* No call begins its work in an aborted turn, after a Bash call beside it has failed, or
\* in an attempt that has been given up.
THEOREM AbortStopsWork == Spec => NoWorkAfterAbort
<1> DEFINE A == \A i \in DOMAIN calls' :
                  calls'[i].stage = "running" /\ (i \in Ids => calls[i].stage = "idle")
                    => /\ abort = "none"
                       /\ ~executors[calls'[i].exec].hasErrored
                       /\ ~executors[calls'[i].exec].discarded
<1>1. ExecutorInv /\ [Next]_vars => [A]_vars
  <2> SUFFICES ASSUME ExecutorInv, Next, NEW i \in DOMAIN calls',
                      calls'[i].stage = "running", i \in Ids => calls[i].stage = "idle"
               PROVE  MayBegin(i)
    BY DEF MayBegin
  <2>1. i \in Ids'
    BY DEF Ids
  <2>2. ASSUME NEW kd \in Kinds, Receive(kd) PROVE MayBegin(i)
    BY <2>1, <2>2, ReceiveCalls
  <2>3. ASSUME NEW k \in Ids, ToolStep(k) PROVE MayBegin(i)
    BY <2>1, <2>3, ToolCalls
  <2>4. CASE \/ \E k \in Ids : ResumeLoop(k) \/ FreshLoop(k)
             \/ CheckRemaining /\ Unfinished
             \/ QueueGoesOn
    BY <2>1, <2>4, LoopKeeps
  <2>5. CASE YieldProgress \/ YieldResults
    BY <2>1, <2>5, YieldCalls
  <2>6. CASE calls' = calls
    BY <2>1, <2>6 DEF Ids
  <2> QED
    BY <2>2, <2>3, <2>4, <2>5, <2>6
    DEF Next, QueryStep, ReceiveOther, FallBack, StreamFails, StreamEnds, Abort, CheckRemaining,
        DrainEnds, WakeUp
<1>2. Spec => [][A]_vars
  BY <1>1, ExecutorInvariant, PTL DEF Spec
<1> QED
  BY <1>2 DEF NoWorkAfterAbort

-----------------------------------------------------------------------------
(* The refinement of the contract.                                         *)

\* The calls cs as the contract sees them.
Scheduled(cs) ==
  [i \in DOMAIN cs |->
     [response |-> cs[i].exec, exclusive |-> ~IsSafe(cs[i]),
      stage |-> CASE cs[i].status = "queued" -> "waiting"
                  [] cs[i].status = "executing" -> "running"
                  [] cs[i].status = "completed" -> "finished"
                  [] cs[i].status = "yielded" -> "reported"]]

LEMMA ScheduledIs ==
  ASSUME NEW cs \in Seq(Call)
  PROVE  /\ DOMAIN Scheduled(cs) = DOMAIN cs /\ Len(Scheduled(cs)) = Len(cs)
         /\ \A i \in DOMAIN cs :
              /\ Scheduled(cs)[i].response = cs[i].exec
              /\ Scheduled(cs)[i].exclusive = ~IsSafe(cs[i])
              /\ cs[i].status = "queued" => Scheduled(cs)[i].stage = "waiting"
              /\ cs[i].status = "executing" => Scheduled(cs)[i].stage = "running"
              /\ cs[i].status = "completed" => Scheduled(cs)[i].stage = "finished"
              /\ cs[i].status = "yielded" => Scheduled(cs)[i].stage = "reported"
<1>1. DOMAIN cs = 1 .. Len(cs) /\ Len(cs) \in Nat
  BY LenProperties
<1>2. DOMAIN Scheduled(cs) = DOMAIN cs
  BY DEF Scheduled
<1>3. Len(Scheduled(cs)) = Len(cs)
  BY <1>1 DEF Scheduled
<1> QED
  BY <1>2, <1>3 DEF Scheduled

LEMMA TheMapping ==
  /\ ScheduledCalls = Scheduled(calls)
  /\ ScheduledCalls' = Scheduled(calls')
<1> QED
  BY DEF ScheduledCalls, Scheduled, Ids

\* A call that starts in turn is in turn for the contract.
LEMMA InTurnForContract ==
  ASSUME ExecutorInv, NEW i \in Ids, StartsInTurn(calls, i)
  PROVE  Schedule!InTurn(ScheduledCalls, i)
<1>1. /\ calls \in Seq(Call) /\ Ids = 1 .. Len(calls) /\ Len(calls) \in Nat
      /\ \A k \in Ids : calls[k] \in Call
  BY CallsTyped DEF ExecutorInv
<1> SUFFICES ASSUME NEW j \in 1 .. i - 1,
                    ScheduledCalls[j].response = ScheduledCalls[i].response,
                    ScheduledCalls[j].exclusive \/ ScheduledCalls[i].exclusive
             PROVE  ScheduledCalls[j].stage \in {"finished", "reported"}
  BY DEF Schedule!InTurn, Schedule!Over
<1>2. j \in Ids /\ j < i
  BY <1>1
<1>3. calls[j].exec = calls[i].exec /\ (~IsSafe(calls[j]) \/ ~IsSafe(calls[i]))
  BY <1>1, <1>2, ScheduledIs, TheMapping DEF Ids
<1>4. j \in Of(calls, calls[i].exec)
  BY <1>2, <1>3 DEF Of, Ids
<1>5. calls[j].status # "queued" /\ calls[j].status # "executing"
  BY <1>2, <1>3, <1>4 DEF StartsInTurn
<1>6. calls[j].status \in {"completed", "yielded"}
  BY <1>1, <1>2, <1>5 DEF Call, Status
<1> QED
  BY <1>1, <1>2, <1>6, ScheduledIs, TheMapping DEF Ids

LEMMA ContractStep ==
  ASSUME ExecutorInv, CallsStep
  PROVE  Schedule!Next
<1>1. /\ calls \in Seq(Call) /\ Ids = 1 .. Len(calls) /\ Len(calls) \in Nat
      /\ \A k \in Ids : calls[k] \in Call
  BY CallsTyped DEF ExecutorInv
<1>2. /\ calls' \in Seq(Call) /\ Ids' = 1 .. Len(calls')
      /\ \A k \in Ids' : calls'[k] \in Call
  BY LenProperties, ElementOfSeq DEF CallsStep, Ids
<1> DEFINE sc == ScheduledCalls
           sn == ScheduledCalls'
<1>3. /\ DOMAIN sc = Ids /\ Len(sc) = Len(calls)
      /\ \A i \in Ids :
           /\ sc[i].response = calls[i].exec
           /\ sc[i].exclusive = ~IsSafe(calls[i])
           /\ calls[i].status = "queued" => sc[i].stage = "waiting"
           /\ calls[i].status = "executing" => sc[i].stage = "running"
           /\ calls[i].status = "completed" => sc[i].stage = "finished"
           /\ calls[i].status = "yielded" => sc[i].stage = "reported"
  BY <1>1, ScheduledIs, TheMapping DEF Ids
<1>4. /\ DOMAIN sn = Ids' /\ Len(sn) = Len(calls')
      /\ \A i \in Ids' :
           /\ sn[i].response = calls'[i].exec
           /\ sn[i].exclusive = ~IsSafe(calls'[i])
           /\ calls'[i].status = "queued" => sn[i].stage = "waiting"
           /\ calls'[i].status = "executing" => sn[i].stage = "running"
           /\ calls'[i].status = "completed" => sn[i].stage = "finished"
           /\ calls'[i].status = "yielded" => sn[i].stage = "reported"
  BY <1>2, ScheduledIs, TheMapping DEF Ids
<1>5. Len(sn) \in {Len(sc), Len(sc) + 1}
  BY <1>3, <1>4 DEF CallsStep
<1>6. ASSUME NEW i \in DOMAIN sn, i \in DOMAIN sc
      PROVE  /\ sn[i].response = sc[i].response /\ sn[i].exclusive = sc[i].exclusive
             /\ Schedule!Moves(i)
  <2>1. /\ i \in Ids /\ i \in Ids' /\ calls'[i].exec = calls[i].exec
        /\ calls'[i].kind = calls[i].kind /\ StatusStep(i)
    BY <1>3, <1>4, <1>6 DEF CallsStep
  <2>2. IsSafe(calls'[i]) <=> IsSafe(calls[i])
    BY <2>1 DEF IsSafe
  <2>3. sn[i].response = sc[i].response /\ sn[i].exclusive = sc[i].exclusive
    BY <1>3, <1>4, <2>1, <2>2
  <2>4. calls[i].status \in Status /\ calls'[i].status \in Status
    BY <1>1, <1>2, <2>1 DEF Call
  <2>5. CASE calls'[i].status = calls[i].status
    <3>1. sn[i].stage = sc[i].stage
      BY <1>3, <1>4, <2>1, <2>4, <2>5 DEF Status
    <3> QED
      BY <2>3, <3>1 DEF Schedule!Moves
  <2>6. CASE StartsInTurn(calls, i) /\ calls'[i].status \in {"executing", "completed"}
    <3>1. sc[i].stage = "waiting" /\ sn[i].stage \in {"running", "finished"}
      BY <1>3, <1>4, <2>1, <2>6 DEF StartsInTurn
    <3>2. Schedule!InTurn(sc, i)
      BY <2>1, <2>6, InTurnForContract
    <3> QED
      BY <2>3, <3>1, <3>2 DEF Schedule!Moves
  <2>7. CASE calls[i].status = "executing" /\ calls'[i].status = "completed"
    <3>1. sc[i].stage = "running" /\ sn[i].stage = "finished"
      BY <1>3, <1>4, <2>1, <2>7
    <3> QED
      BY <2>3, <3>1 DEF Schedule!Moves
  <2>8. CASE calls[i].status = "completed" /\ calls'[i].status = "yielded"
    <3>1. sc[i].stage = "finished" /\ sn[i].stage = "reported"
      BY <1>3, <1>4, <2>1, <2>8
    <3> QED
      BY <2>3, <3>1 DEF Schedule!Moves
  <2> QED
    BY <2>1, <2>5, <2>6, <2>7, <2>8 DEF StatusStep
<1>7. ASSUME NEW i \in DOMAIN sn, i \notin DOMAIN sc
      PROVE  Schedule!Arrives(i)
  <2>1. i \in Ids' /\ i = Len(calls') /\ Len(calls') = Len(calls) + 1 /\ NewStep(i)
        /\ Ids = 1 .. i - 1
    <3>1. i \in Ids' /\ i \notin Ids
      BY <1>3, <1>4, <1>7
    <3>2. Len(calls') \in {Len(calls), Len(calls) + 1}
      BY DEF CallsStep
    <3>3. i = Len(calls') /\ Len(calls') = Len(calls) + 1
      BY <1>1, <1>2, <3>1, <3>2
    <3> QED
      BY <1>1, <3>1, <3>3 DEF CallsStep
  <2>2. CASE calls'[i].status = "queued"
    BY <1>4, <2>1, <2>2 DEF Schedule!Arrives
  <2>3. CASE calls'[i].status = "completed" /\ calls'[i].kind \in UnknownKinds
    <3>1. sn[i].stage = "finished" /\ ~sn[i].exclusive
      BY <1>4, <2>1, <2>3, KindsAssumption DEF IsSafe
    <3> QED
      BY <3>1 DEF Schedule!Arrives
  <2>4. CASE /\ calls'[i].status \in {"executing", "completed"}
             /\ \A k \in Mine :
                  /\ calls[k].status # "queued" /\ calls'[k] = calls[k]
                  /\ calls[k].status = "executing" => IsSafe(calls[k]) /\ IsSafe(calls'[i])
    <3>1. sn[i].stage \in {"running", "finished"}
      BY <1>4, <2>1, <2>4
    <3>2. ASSUME NEW j \in 1 .. i - 1, sn[j].response = sn[i].response,
                 sn[j].exclusive \/ sn[i].exclusive
          PROVE  sn[j].stage \in {"finished", "reported"}
      <4>1. j \in Ids /\ j \in Ids'
        BY <1>2, <2>1, <3>2
      <4>2. calls'[j].exec = Cur /\ calls[j].exec = Cur
        BY <1>4, <2>1, <3>2, <4>1 DEF NewStep, CallsStep
      <4>3. j \in Mine
        BY <4>1, <4>2 DEF Mine, Of, Ids
      <4>4. ~IsSafe(calls'[j]) \/ ~IsSafe(calls'[i])
        BY <1>4, <2>1, <3>2, <4>1
      <4>5. calls'[j].status # "queued" /\ calls'[j].status # "executing"
        BY <2>4, <4>3, <4>4
      <4>6. calls'[j].status \in {"completed", "yielded"}
        BY <1>2, <4>1, <4>5 DEF Call, Status
      <4> QED
        BY <1>4, <4>1, <4>6
    <3>3. Schedule!InTurn(sn, i)
      BY <3>2 DEF Schedule!InTurn, Schedule!Over
    <3> QED
      BY <3>1, <3>3 DEF Schedule!Arrives
  <2> QED
    BY <2>1, <2>2, <2>3, <2>4 DEF NewStep
<1> QED
  BY <1>5, <1>6, <1>7 DEF Schedule!Next

\* The executor implements the contract of ToolSchedule: an exclusive call runs alone and
\* in its turn, others may overlap, and a call is reported once, after it is over.
THEOREM ImplementsSchedule == Spec => KeepsSchedule
<1>1. Init => Schedule!Init
  <2> SUFFICES ASSUME Init PROVE ScheduledCalls = <<>>
    BY DEF Schedule!Init
  <2>1. calls = <<>> /\ Ids = {}
    BY DEF Init, Ids
  <2> QED
    BY <2>1 DEF ScheduledCalls
<1>2. ExecutorInv /\ [Next]_vars => [Schedule!Next]_ScheduledCalls
  <2> SUFFICES ASSUME ExecutorInv, [Next]_vars PROVE [Schedule!Next]_ScheduledCalls
    OBVIOUS
  <2>1. CASE calls' = calls
    BY <2>1 DEF ScheduledCalls, Ids
  <2>2. CASE \E kd \in Kinds : Receive(kd)
    BY <2>2, ReceiveCalls, ContractStep
  <2>3. CASE \E k \in Ids : ToolStep(k)
    BY <2>3, ToolCalls, ContractStep
  <2>4. CASE \/ \E k \in Ids : ResumeLoop(k) \/ FreshLoop(k)
             \/ CheckRemaining /\ Unfinished
             \/ QueueGoesOn
    BY <2>4, LoopKeeps, ContractStep
  <2>5. CASE YieldProgress \/ YieldResults
    BY <2>5, YieldCalls, ContractStep
  <2> QED
    BY <2>1, <2>2, <2>3, <2>4, <2>5
    DEF Next, QueryStep, ReceiveOther, FallBack, StreamFails, StreamEnds, Abort, CheckRemaining,
        DrainEnds, WakeUp, vars
<1>3. Spec => Schedule!Spec
  BY <1>1, <1>2, ExecutorInvariant, PTL DEF Spec, Schedule!Spec
<1> QED
  BY <1>3 DEF KeepsSchedule
=============================================================================
