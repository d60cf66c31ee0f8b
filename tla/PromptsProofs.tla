---------------------------- MODULE PromptsProofs ----------------------------
(***************************************************************************)
(* Theorems of module Prompts, for every number of commands and of the     *)
(* user's acts.                                                            *)
(*                                                                         *)
(* The guard and the turns agree: a turn holds on to the generation it     *)
(* began with, and a cancelled one goes on for a while, so the invariant   *)
(* GuardInv says that the generations of the turns that query are distinct *)
(* and none is ahead of the guard's.                                       *)
(*                                                                         *)
(* What becomes of the commands: the invariant Good says where each one    *)
(* is, which turn is in control, and that what a query attaches is the     *)
(* command that waits in the queue under the same identifier.  What an     *)
(* action may do with the commands is said once, by MoveStep; a lemma for  *)
(* each action shows that it is such a step, and MovesKeep that such a     *)
(* step keeps the commands in their places.                                *)
(***************************************************************************)
EXTENDS Prompts, SequenceTheorems, WellFoundedInduction, TLAPS

IsTurn(r) == {"pc", "gen"} \subseteq DOMAIN r

\* The turns are a sequence of records that have a place and a generation.
Shaped ==
  /\ \E S : turns \in Seq(S)
  /\ \A t \in DOMAIN turns : IsTurn(turns[t])

Same(t) == turns'[t].pc = turns[t].pc /\ turns'[t].gen = turns[t].gen

GenerationsDistinct ==
  /\ \A t \in Querying : turns[t].gen \in Nat /\ turns[t].gen <= generation
  /\ \A t, u \in Querying : turns[t].gen = turns[u].gen => t = u

GuardInv ==
  /\ Shaped
  /\ status \in {"idle", "dispatching", "running"} /\ generation \in Nat
  /\ GenerationsDistinct
  /\ GuardAgrees

-----------------------------------------------------------------------------
(* Lemmas on what a step does to the turns. *)

\* Replacing a turn leaves a sequence of turns.
LEMMA ReplacedShaped ==
  ASSUME Shaped, NEW t \in DOMAIN turns, NEW r, IsTurn(r),
         turns' = [turns EXCEPT ![t] = r]
  PROVE  Shaped'
<1>1. PICK S : turns \in Seq(S)
  BY DEF Shaped
<1>2. turns \in Seq(S \cup {r}) /\ t \in 1 .. Len(turns)
  BY <1>1, SeqMonotonic, LenProperties
<1>3. turns' \in Seq(S \cup {r})
  BY <1>2, ExceptSeq
<1>4. \A u \in DOMAIN turns' : IsTurn(turns'[u])
  BY DEF Shaped
<1> QED
  BY <1>3, <1>4 DEF Shaped

\* A turn moves on, the others stay as they are.
LEMMA BecomesKeeps ==
  ASSUME Shaped, NEW t \in DOMAIN turns, NEW p, Becomes(t, p)
  PROVE  /\ Shaped' /\ DOMAIN turns' = DOMAIN turns
         /\ turns'[t].pc = p /\ turns'[t].gen = turns[t].gen
         /\ \A u \in DOMAIN turns \ {t} : Same(u)
<1> DEFINE r == [turns[t] EXCEPT !.pc = p]
<1>1. IsTurn(r) /\ r.pc = p /\ r.gen = turns[t].gen
  BY DEF Shaped, IsTurn
<1>2. turns' = [turns EXCEPT ![t] = r]
  BY DEF Becomes
<1> HIDE DEF r
<1>3. Shaped'
  BY <1>1, <1>2, ReplacedShaped
<1> QED
  BY <1>1, <1>2, <1>3 DEF Same

\* A new turn joins the others.
LEMMA AppendKeeps ==
  ASSUME Shaped, NEW r, IsTurn(r), turns' = Append(turns, r)
  PROVE  /\ Shaped' /\ Len(turns) + 1 \notin DOMAIN turns
         /\ DOMAIN turns' = DOMAIN turns \cup {Len(turns) + 1}
         /\ turns'[Len(turns) + 1] = r
         /\ \A u \in DOMAIN turns : turns'[u] = turns[u]
<1>1. PICK S : turns \in Seq(S)
  BY DEF Shaped
<1>2. turns \in Seq(S \cup {r})
  BY <1>1, SeqMonotonic
<1>3. /\ turns' \in Seq(S \cup {r}) /\ Len(turns') = Len(turns) + 1
      /\ \A u \in 1 .. Len(turns) : turns'[u] = turns[u]
      /\ turns'[Len(turns) + 1] = r
  BY <1>2, AppendProperties
<1>4. /\ DOMAIN turns = 1 .. Len(turns) /\ DOMAIN turns' = 1 .. Len(turns')
      /\ Len(turns) \in Nat
  BY <1>2, <1>3, LenProperties
<1>5. \A u \in DOMAIN turns' : u \in DOMAIN turns \/ u = Len(turns) + 1
  BY <1>3, <1>4
<1>6. \A u \in DOMAIN turns' : IsTurn(turns'[u])
  BY <1>3, <1>4, <1>5 DEF Shaped
<1>7. Shaped'
  BY <1>3, <1>6 DEF Shaped
<1> QED
  BY <1>3, <1>4, <1>7

\* Aborting a turn changes neither its place nor its generation.
LEMMA AbortKeeps ==
  ASSUME Shaped, NEW t, turns' = AbortOf(t)
  PROVE  Shaped' /\ DOMAIN turns' = DOMAIN turns /\ \A u \in DOMAIN turns : Same(u)
<1>1. CASE t \notin DOMAIN turns
  <2>1. PICK S : turns \in Seq(S)
    BY DEF Shaped
  <2>2. turns' = turns
    BY <1>1, <2>1, LenProperties DEF AbortOf
  <2> QED
    BY <2>2 DEF Shaped, Same
<1>2. CASE t \in DOMAIN turns
  <2> DEFINE r == [turns[t] EXCEPT !.aborted = TRUE]
  <2>1. IsTurn(r) /\ r.pc = turns[t].pc /\ r.gen = turns[t].gen
    BY <1>2 DEF Shaped, IsTurn
  <2>2. turns' = [turns EXCEPT ![t] = r]
    BY DEF AbortOf
  <2> HIDE DEF r
  <2>3. Shaped'
    BY <1>2, <2>1, <2>2, ReplacedShaped
  <2> QED
    BY <2>1, <2>2, <2>3 DEF Same
<1> QED
  BY <1>1, <1>2

-----------------------------------------------------------------------------
(* The guard along each kind of step.                                      *)

\* The step changes neither the guard nor the place of a turn.
LEMMA QuietStep ==
  ASSUME GuardInv, Shaped', DOMAIN turns' = DOMAIN turns,
         \A u \in DOMAIN turns : Same(u), UNCHANGED <<status, generation>>
  PROVE  GuardInv'
<1>1. Querying' = Querying /\ InInput' = InInput
  BY DEF Querying, InInput, Same
<1>2. \A u \in Querying : turns'[u].gen = turns[u].gen
  BY DEF Querying, Same
<1> QED
  BY <1>1, <1>2 DEF GuardInv, GuardAgrees, GenerationsDistinct

\* A turn moves between two places neither of which changes whether it queries.
LEMMA MovesStep ==
  ASSUME GuardInv, Shaped', NEW t \in DOMAIN turns, DOMAIN turns' = DOMAIN turns,
         turns'[t].gen = turns[t].gen, \A u \in DOMAIN turns \ {t} : Same(u),
         turns[t].pc \in {"query", "drain"} /\ turns'[t].pc \in {"query", "drain"},
         UNCHANGED <<status, generation>>
  PROVE  GuardInv'
<1>1. Querying' = Querying /\ InInput' = InInput
  BY DEF Querying, InInput, Same
<1>2. \A u \in Querying : turns'[u].gen = turns[u].gen
  BY DEF Querying, Same
<1> QED
  BY <1>1, <1>2 DEF GuardInv, GuardAgrees, GenerationsDistinct

\* A turn begins to process its input, with a reservation.
LEMMA BeginStep ==
  ASSUME GuardInv, ~IsActive, NEW cmds, Begin(cmds)
  PROVE  GuardInv'
<1> DEFINE r == [NoTurn EXCEPT !.cmds = cmds]
<1>1. IsTurn(r) /\ r.pc = "input"
  BY DEF NoTurn, IsTurn
<1>2. turns' = Append(turns, r) /\ Shaped
  BY DEF Begin, GuardInv
<1> HIDE DEF r
<1>3. /\ Shaped' /\ Len(turns) + 1 \notin DOMAIN turns
      /\ DOMAIN turns' = DOMAIN turns \cup {Len(turns) + 1}
      /\ turns'[Len(turns) + 1] = r
      /\ \A u \in DOMAIN turns : turns'[u] = turns[u]
  BY <1>1, <1>2, AppendKeeps
<1>4. Querying' = Querying /\ \A u \in Querying : turns'[u].gen = turns[u].gen
  BY <1>1, <1>3 DEF Querying
<1>5. Len(turns) + 1 \in InInput'
  BY <1>1, <1>3 DEF InInput
<1>6. status = "idle" /\ status' = "dispatching" /\ generation' = generation
  BY DEF Begin, Reserve, IsActive
<1>7. ~\E u \in Querying : turns[u].gen = generation
  BY <1>6 DEF GuardInv, GuardAgrees
<1> QED
  BY <1>3, <1>4, <1>5, <1>6, <1>7 DEF GuardInv, GuardAgrees, GenerationsDistinct

\* A turn that processes its input is over, and so is its reservation.
LEMMA InputOver ==
  ASSUME GuardInv, NEW t \in DOMAIN turns, turns[t].pc = "input", Becomes(t, "over"),
         \/ status' = CancelReservation(status) /\ generation' = generation
         \/ MayStart /\ status' = "idle" /\ generation' = generation + 1
  PROVE  GuardInv'
<1>1. /\ Shaped' /\ DOMAIN turns' = DOMAIN turns /\ turns'[t].pc = "over"
      /\ \A u \in DOMAIN turns \ {t} : Same(u)
  BY BecomesKeeps DEF GuardInv
<1>2. Querying' = Querying /\ \A u \in Querying : turns'[u].gen = turns[u].gen
  BY <1>1 DEF Querying, Same
<1>3. status' # "dispatching" /\ (status' = "running" <=> status = "running" /\ generation' = generation)
  BY DEF CancelReservation, MayStart, GuardInv
<1>4. generation' \in Nat /\ generation' >= generation /\ status' \in {"idle", "dispatching", "running"}
  BY DEF GuardInv, CancelReservation
<1>5. GenerationsDistinct'
  BY <1>2, <1>4 DEF GuardInv, GenerationsDistinct
<1>6. (\E u \in Querying : turns[u].gen = generation') => generation' = generation
  BY DEF GuardInv, GenerationsDistinct
<1>7. GuardAgrees'
  BY <1>2, <1>3, <1>6 DEF GuardInv, GuardAgrees
<1> QED
  BY <1>1, <1>4, <1>5, <1>7 DEF GuardInv

\* A turn begins to query, with the next generation.
LEMMA QueryStep ==
  ASSUME GuardInv, Shaped', NEW t \in DOMAIN turns', t \notin Querying,
         turns'[t].pc = "query", turns'[t].gen = generation + 1,
         DOMAIN turns' = DOMAIN turns \cup {t}, \A u \in DOMAIN turns \ {t} : Same(u),
         status' = "running", generation' = generation + 1
  PROVE  GuardInv'
<1>1. Querying' = Querying \cup {t}
  BY DEF Querying, Same
<1>2. \A u \in Querying : u # t /\ turns'[u].gen = turns[u].gen
  BY DEF Querying, Same
<1>3. \A u \in Querying : turns'[u].gen \in Nat /\ turns'[u].gen <= generation
  BY <1>2 DEF GuardInv, GenerationsDistinct
<1>4. generation \in Nat
  BY DEF GuardInv
<1>5. GenerationsDistinct'
  <2>1. \A u \in Querying' : turns'[u].gen \in Nat /\ turns'[u].gen <= generation'
    BY <1>1, <1>3, <1>4
  <2>2. \A u, v \in Querying' : turns'[u].gen = turns'[v].gen => u = v
    BY <1>1, <1>2, <1>3, <1>4 DEF GuardInv, GenerationsDistinct
  <2> QED
    BY <2>1, <2>2 DEF GenerationsDistinct
<1>6. GuardAgrees'
  BY <1>1 DEF GuardAgrees
<1> QED
  BY <1>4, <1>5, <1>6 DEF GuardInv

\* A query comes to its end.  A stale one finds another generation, and since the
\* generations are distinct it is not the one the guard is running for.
LEMMA EndStep ==
  ASSUME GuardInv, NEW t \in DOMAIN turns, QueryEnds(t)
  PROVE  GuardInv'
<1>1. turns[t].pc = "query" /\ Becomes(t, "over") /\ generation' = generation
  BY DEF QueryEnds
<1>2. /\ Shaped' /\ DOMAIN turns' = DOMAIN turns /\ turns'[t].pc = "over"
      /\ \A u \in DOMAIN turns \ {t} : Same(u)
  BY <1>1, BecomesKeeps DEF GuardInv
<1>3. Querying' = Querying \ {t} /\ \A u \in Querying' : turns'[u].gen = turns[u].gen
  BY <1>2 DEF Querying, Same
<1>4. InInput' = InInput
  BY <1>1, <1>2 DEF InInput, Same
<1>5. t \in Querying
  BY <1>1 DEF Querying
<1>6. GenerationsDistinct'
  BY <1>1, <1>3 DEF GuardInv, GenerationsDistinct
<1>7. CASE IsCurrent(t)
  <2>1. status' = "idle"
    BY <1>7 DEF QueryEnds
  <2>2. \A u \in Querying' : turns'[u].gen # generation
    BY <1>3, <1>5, <1>7 DEF IsCurrent, GuardInv, GenerationsDistinct
  <2> QED
    BY <1>1, <1>2, <1>6, <2>1, <2>2 DEF GuardInv, GuardAgrees
<1>8. CASE ~IsCurrent(t)
  <2>1. status' \in {status, CancelReservation(status)}
    BY <1>8 DEF QueryEnds
  <2>2. /\ status' = "running" <=> status = "running"
        /\ status' = "dispatching" => status = "dispatching"
        /\ status' \in {"idle", "dispatching", "running"}
    BY <2>1 DEF CancelReservation, GuardInv
  <2>3. status = "running" => turns[t].gen # generation
    BY <1>8 DEF IsCurrent
  <2>4. (\E u \in Querying' : turns'[u].gen = generation)
          <=> \E u \in Querying : turns[u].gen = generation
    BY <1>3, <1>5, <2>3 DEF GuardInv, GuardAgrees
  <2> QED
    BY <1>1, <1>2, <1>4, <1>6, <2>2, <2>4 DEF GuardInv, GuardAgrees
<1> QED
  BY <1>7, <1>8

\* The user cancels: the guard is released with a new generation, which no query has.
LEMMA CancelStep ==
  ASSUME GuardInv, Cancel
  PROVE  GuardInv'
<1>1. Shaped' /\ DOMAIN turns' = DOMAIN turns /\ \A u \in DOMAIN turns : Same(u)
  BY AbortKeeps DEF Cancel, GuardInv
<1>2. Querying' = Querying /\ \A u \in Querying : turns'[u].gen = turns[u].gen
  BY <1>1 DEF Querying, Same
<1>3. status' = "idle" /\ generation' = IF IsActive THEN generation + 1 ELSE generation
  BY DEF Cancel
<1>4. generation' \in Nat /\ generation' >= generation /\ generation \in Nat
  BY <1>3 DEF GuardInv
<1>5. \A u \in Querying : turns[u].gen # generation'
  BY <1>3 DEF GuardInv, GuardAgrees, GenerationsDistinct, IsActive
<1>6. GenerationsDistinct'
  BY <1>2, <1>4 DEF GuardInv, GenerationsDistinct
<1>7. GuardAgrees'
  BY <1>2, <1>3, <1>5 DEF GuardAgrees
<1> QED
  BY <1>1, <1>3, <1>4, <1>6, <1>7 DEF GuardInv

-----------------------------------------------------------------------------
(* The theorem.                                                            *)

LEMMA GuardInvInit == Init => GuardInv
<1> SUFFICES ASSUME Init PROVE GuardInv
  OBVIOUS
<1>1. turns = <<>> /\ DOMAIN turns = {}
  BY DEF Init
<1>2. turns \in Seq({})
  BY <1>1, EmptySeq
<1> QED
  BY <1>1, <1>2 DEF Init, GuardInv, Shaped, Querying, InInput, GuardAgrees, GenerationsDistinct

\* What arrives.
LEMMA ArrivalSteps ==
  ASSUME GuardInv, NEW kind \in Kinds, Submit(kind) \/ Notify(kind) \/ Incoming(kind)
  PROVE  GuardInv'
<1>1. CASE Submit(kind)
  <2>1. CASE ~IsActive /\ Begin(<<NewCommand(kind)>>)
    BY <2>1, BeginStep
  <2>2. CASE UNCHANGED <<turns, status, generation>>
    BY <2>2, QuietStep DEF GuardInv, Shaped, Same
  <2>3. CASE turns' = AbortOf(ctl) /\ UNCHANGED <<status, generation>>
    BY <2>3, AbortKeeps, QuietStep DEF GuardInv
  <2> QED
    BY <1>1, <2>1, <2>2, <2>3 DEF Submit
<1>2. CASE Notify(kind)
  BY <1>2, QuietStep DEF Notify, GuardInv, Shaped, Same
<1>3. CASE Incoming(kind)
  <2> DEFINE r == [NoTurn EXCEPT !.pc = "query", !.gen = generation']
  <2>1. IsTurn(r) /\ r.pc = "query" /\ r.gen = generation'
    BY DEF NoTurn, IsTurn
  <2>2. turns' = Append(turns, r) /\ status' = "running" /\ generation' = generation + 1
    BY <1>3 DEF Incoming
  <2> HIDE DEF r
  <2>3. /\ Shaped' /\ Len(turns) + 1 \notin DOMAIN turns
        /\ DOMAIN turns' = DOMAIN turns \cup {Len(turns) + 1}
        /\ turns'[Len(turns) + 1] = r
        /\ \A u \in DOMAIN turns : turns'[u] = turns[u]
    BY <2>1, <2>2, AppendKeeps DEF GuardInv
  <2> QED
    BY <2>1, <2>2, <2>3, QueryStep DEF Querying, Same
<1> QED
  BY <1>1, <1>2, <1>3

\* How a turn goes on.
LEMMA TurnSteps ==
  ASSUME GuardInv, NEW t \in DOMAIN turns,
         InputDone(t) \/ DrainBegins(t) \/ DrainEnds(t) \/ QueryEnds(t)
  PROVE  GuardInv'
<1>1. CASE FindsRunning(t)
  BY <1>1, InputOver DEF FindsRunning
<1>2. CASE StartsQuery(t)
  <2> DEFINE r == [turns[t] EXCEPT !.pc = "query", !.gen = generation + 1]
  <2>1. IsTurn(r) /\ r.pc = "query" /\ r.gen = generation + 1
    BY DEF GuardInv, Shaped, IsTurn
  <2>2. turns' = [turns EXCEPT ![t] = r] /\ turns[t].pc = "input"
    BY <1>2 DEF StartsQuery
  <2>3. status' = "running" /\ generation' = generation + 1
    BY <1>2 DEF StartsQuery
  <2> HIDE DEF r
  <2>4. Shaped' /\ DOMAIN turns' = DOMAIN turns
    BY <2>1, <2>2, ReplacedShaped DEF GuardInv
  <2> QED
    BY <2>1, <2>2, <2>3, <2>4, QueryStep DEF Querying, Same
<1>3. CASE AnswersLocally(t)
  BY <1>3, InputOver DEF AnswersLocally
<1>4. CASE LeavesNoMessage(t)
  BY <1>4, InputOver DEF LeavesNoMessage
<1>5. CASE InputThrows(t)
  BY <1>5, InputOver DEF InputThrows
<1>6. CASE DrainBegins(t)
  <2>1. PICK rank \in {1, 2} :
          turns' = [turns EXCEPT ![t].pc = "drain", ![t].snapshot = Snapshot(queue, rank)]
    BY <1>6 DEF DrainBegins
  <2> DEFINE r == [turns[t] EXCEPT !.pc = "drain", !.snapshot = Snapshot(queue, rank)]
  <2>2. IsTurn(r) /\ r.pc = "drain" /\ r.gen = turns[t].gen
    BY DEF GuardInv, Shaped, IsTurn
  <2>3. turns' = [turns EXCEPT ![t] = r] /\ turns[t].pc = "query"
    BY <1>6, <2>1 DEF DrainBegins
  <2> HIDE DEF r
  <2>4. Shaped' /\ DOMAIN turns' = DOMAIN turns
    BY <2>2, <2>3, ReplacedShaped DEF GuardInv
  <2> QED
    BY <1>6, <2>2, <2>3, <2>4, MovesStep DEF DrainBegins, Same
<1>7. CASE DrainEnds(t)
  <2>1. turns[t].pc = "drain" /\ Becomes(t, "query") /\ UNCHANGED <<status, generation>>
    BY <1>7 DEF DrainEnds
  <2> QED
    BY <2>1, BecomesKeeps, MovesStep DEF GuardInv
<1> QED
  BY <1>1, <1>2, <1>3, <1>4, <1>5, <1>6, <1>7, EndStep DEF InputDone

\* The effect of the queue, and what else the user does.
LEMMA OtherSteps ==
  ASSUME GuardInv,
         Process \/ Cancel \/ TakeBack \/ KillAgents \/ Background \/ AgentTakes
           \/ UNCHANGED vars
  PROVE  GuardInv'
<1>1. CASE Process
  <2>1. CASE UNCHANGED <<turns, status, generation>>
    BY <2>1, QuietStep DEF GuardInv, Shaped, Same
  <2>2. CASE ~IsActive /\ Begin(TakenBetween(queue))
    BY <2>2, BeginStep
  <2> QED
    BY <1>1, <2>1, <2>2 DEF Process
<1>2. CASE Background
  BY <1>2, AbortKeeps, QuietStep DEF Background, GuardInv
<1>3. CASE TakeBack \/ KillAgents \/ AgentTakes \/ UNCHANGED vars
  <2>1. UNCHANGED <<turns, status, generation>>
    BY <1>3 DEF TakeBack, KillAgents, AgentTakes, vars
  <2> QED
    BY <2>1, QuietStep DEF GuardInv, Shaped, Same
<1> QED
  BY <1>1, <1>2, <1>3, CancelStep

\* The guard is running exactly when the query of its generation is, and reserved only
\* while some turn processes its input, whatever is submitted, cancelled, killed and sent
\* to the background in whatever order.  (QueryGuard)
THEOREM GuardHolds == Spec => []GuardAgrees
<1>1. GuardInv /\ [Next]_vars => GuardInv'
  BY ArrivalSteps, TurnSteps, OtherSteps DEF Next
<1>2. GuardInv => GuardAgrees
  BY DEF GuardInv
<1> QED
  BY GuardInvInit, <1>1, <1>2, PTL DEF Spec

-----------------------------------------------------------------------------
(* The command queue.  What Only returns is shown along the prefixes of the *)
(* sequence, from the least prefix of which it would not hold.              *)

Further(q, S, f, n) ==
  IF n = 0 THEN <<>> ELSE IF q[n] \in S THEN Append(f[n - 1], q[n]) ELSE f[n - 1]

IsUpTo(q, S, f, m) == f = [n \in 0 .. m |-> Further(q, S, f, n)]

\* The function that Only defines by recursion exists.
LEMMA UpToExists ==
  ASSUME NEW q, NEW S, NEW m \in Nat
  PROVE  \E f : IsUpTo(q, S, f, m)
<1> DEFINE Bad == {n \in Nat : ~\E f : IsUpTo(q, S, f, n)}
<1>1. SUFFICES ASSUME Bad # {} PROVE FALSE
  OBVIOUS
<1>2. PICK n \in Bad : \A k \in Bad : ~(k < n)
  <2>1. \E n \in Bad : \A k \in Bad : ~(<<k, n>> \in OpToRel(<, Nat))
    BY <1>1, WFMin, NatLessThanWellFounded
  <2> QED
    BY <2>1, Zenon DEF OpToRel
<1>3. n \in Nat /\ ~\E f : IsUpTo(q, S, f, n)
  OBVIOUS
<1>4. CASE n = 0
  <2> DEFINE f == [k \in 0 .. 0 |-> <<>>]
  <2>1. IsUpTo(q, S, f, 0)
    BY DEF IsUpTo, Further
  <2> QED
    BY <1>3, <1>4, <2>1
<1>5. CASE n # 0
  <2>1. n - 1 \in Nat /\ n - 1 < n
    BY <1>3, <1>5
  <2>2. PICK g : IsUpTo(q, S, g, n - 1)
    BY <1>2, <2>1
  <2> DEFINE f == [k \in 0 .. n |-> IF k = n THEN Further(q, S, g, n) ELSE g[k]]
  <2>3. ASSUME NEW k \in 0 .. n PROVE f[k] = Further(q, S, f, k)
    <3>1. CASE k = n
      <4>1. f[n - 1] = g[n - 1]
        BY <1>3, <2>1
      <4> QED
        BY <1>3, <1>5, <3>1, <4>1 DEF Further
    <3>2. CASE k # n
      <4>1. k \in 0 .. n - 1 /\ f[k] = g[k]
        BY <1>3, <3>2
      <4>2. g[k] = Further(q, S, g, k)
        BY <2>2, <4>1 DEF IsUpTo
      <4>3. k # 0 => f[k - 1] = g[k - 1]
        BY <1>3, <4>1
      <4> HIDE DEF f
      <4> QED
        BY <4>1, <4>2, <4>3 DEF Further
    <3> QED
      BY <3>1, <3>2
  <2>4. IsUpTo(q, S, f, n)
    BY <2>3 DEF IsUpTo
  <2> QED
    BY <1>3, <2>4
<1> QED
  BY <1>4, <1>5

LEMMA OnlyDef ==
  ASSUME NEW q, NEW S, Len(q) \in Nat
  PROVE  \E f : IsUpTo(q, S, f, Len(q)) /\ Only(q, S) = f[Len(q)]
<1> DEFINE f == CHOOSE g : IsUpTo(q, S, g, Len(q))
<1>1. IsUpTo(q, S, f, Len(q))
  BY UpToExists
<1>2. Only(q, S) = f[Len(q)]
  BY DEF Only, IsUpTo, Further
<1> QED
  BY <1>1, <1>2

Unique(q) == \A i, j \in DOMAIN q : q[i].id = q[j].id => i = j

\* What a command appended to a sequence makes of it.
LEMMA Appended ==
  ASSUME NEW T, NEW q \in Seq(T), NEW c \in T
  PROVE  /\ Append(q, c) \in Seq(T) /\ Range(Append(q, c)) = Range(q) \cup {c}
         /\ Unique(q) /\ (\A d \in Range(q) : d.id # c.id) => Unique(Append(q, c))
<1>1. /\ Append(q, c) \in Seq(T) /\ Len(Append(q, c)) = Len(q) + 1 /\ Len(q) \in Nat
      /\ \A k \in 1 .. Len(q) : Append(q, c)[k] = q[k]
      /\ Append(q, c)[Len(q) + 1] = c
      /\ DOMAIN q = 1 .. Len(q) /\ DOMAIN Append(q, c) = 1 .. Len(q) + 1
  BY AppendProperties, LenProperties
<1>2. \A k \in DOMAIN Append(q, c) : k \in DOMAIN q \/ k = Len(q) + 1
  BY <1>1
<1>3. Range(Append(q, c)) = Range(q) \cup {c}
  <2>1. ASSUME NEW d \in Range(Append(q, c)) PROVE d \in Range(q) \cup {c}
    BY <1>1, <1>2 DEF Range
  <2>2. Range(q) \subseteq Range(Append(q, c))
    BY <1>1 DEF Range
  <2>3. c \in Range(Append(q, c))
    BY <1>1 DEF Range
  <2> QED
    BY <2>1, <2>2, <2>3
<1>4. Unique(q) /\ (\A d \in Range(q) : d.id # c.id) => Unique(Append(q, c))
  BY <1>1, <1>2 DEF Unique, Range
<1> QED
  BY <1>1, <1>3, <1>4

\* Only keeps the members that are asked for, and no two that were distinct become one.
LEMMA OnlyIs ==
  ASSUME NEW T, NEW q \in Seq(T), NEW S
  PROVE  /\ Only(q, S) \in Seq(T) /\ Range(Only(q, S)) = Range(q) \cap S
         /\ Unique(q) => Unique(Only(q, S))
<1> DEFINE Before(n) == {q[k] : k \in 1 .. n}
<1>1. Len(q) \in Nat /\ DOMAIN q = 1 .. Len(q) /\ Range(q) = Before(Len(q))
      /\ \A k \in 1 .. Len(q) : q[k] \in T
  BY LenProperties DEF Range
<1>2. PICK f : IsUpTo(q, S, f, Len(q)) /\ Only(q, S) = f[Len(q)]
  BY <1>1, OnlyDef
<1> DEFINE Fine(n) == /\ f[n] \in Seq(T) /\ Range(f[n]) = Before(n) \cap S
                      /\ Unique(q) => Unique(f[n])
           Bad == {n \in Nat : n <= Len(q) /\ ~Fine(n)}
<1>3. ASSUME Bad # {} PROVE FALSE
  <2>1. PICK n \in Bad : \A k \in Bad : ~(k < n)
    <3>1. \E n \in Bad : \A k \in Bad : ~(<<k, n>> \in OpToRel(<, Nat))
      BY <1>3, WFMin, NatLessThanWellFounded
    <3> QED
      BY <3>1, Zenon DEF OpToRel
  <2>2. n \in Nat /\ n <= Len(q) /\ ~Fine(n)
    OBVIOUS
  <2>3. f[n] = Further(q, S, f, n)
    BY <1>1, <1>2, <2>2 DEF IsUpTo
  <2>4. CASE n = 0
    <3>1. f[n] = <<>>
      BY <2>3, <2>4 DEF Further
    <3>2. Range(f[n]) = {} /\ Before(n) = {} /\ f[n] \in Seq(T) /\ Unique(f[n])
      BY <2>4, <3>1 DEF Range, Unique
    <3> QED
      BY <2>2, <3>2
  <2>5. CASE n # 0
    <3>1. n - 1 \in Nat /\ n - 1 <= Len(q) /\ n - 1 < n /\ n \in 1 .. Len(q)
      BY <1>1, <2>2, <2>5
    <3>2. Fine(n - 1)
      BY <2>1, <3>1
    <3>3. q[n] \in T /\ Before(n) = Before(n - 1) \cup {q[n]}
      BY <1>1, <3>1
    <3>4. CASE q[n] \in S
      <4>1. f[n] = Append(f[n - 1], q[n])
        BY <2>3, <2>5, <3>4 DEF Further
      <4>2. f[n] \in Seq(T) /\ Range(f[n]) = Range(f[n - 1]) \cup {q[n]}
        BY <3>2, <3>3, <4>1, Appended
      <4>3. ASSUME Unique(q) PROVE \A d \in Range(f[n - 1]) : d.id # q[n].id
        <5>1. \A k \in 1 .. n - 1 : q[k].id # q[n].id
          BY <1>1, <3>1, <4>3 DEF Unique
        <5> QED
          BY <3>2, <5>1
      <4>4. Unique(q) => Unique(f[n])
        BY <3>2, <3>3, <4>1, <4>3, Appended
      <4> QED
        BY <2>2, <3>2, <3>3, <3>4, <4>2, <4>4
    <3>5. CASE q[n] \notin S
      <4>1. f[n] = f[n - 1]
        BY <2>3, <2>5, <3>5 DEF Further
      <4> QED
        BY <2>2, <3>2, <3>3, <3>5, <4>1
    <3> QED
      BY <3>4, <3>5
  <2> QED
    BY <2>4, <2>5
<1>4. Fine(Len(q))
  <2> HIDE DEF Fine
  <2> QED
    BY <1>1, <1>3
<1> QED
  BY <1>1, <1>2, <1>4

\* A set of numbers that is not empty has a least one.
LEMMA LeastOf ==
  ASSUME NEW A \in SUBSET Nat, A # {}
  PROVE  \E n \in A : \A k \in A : n <= k
<1>1. PICK n \in A : \A k \in A : ~(<<k, n>> \in OpToRel(<, Nat))
  BY WFMin, NatLessThanWellFounded
<1>2. \A k \in A : ~(k < n)
  BY <1>1, Zenon DEF OpToRel
<1> QED
  BY <1>2

\* The command peek returns is one of the queue.
LEMMA BestIs ==
  ASSUME NEW T, NEW q \in Seq(T), Candidates(q) # {}
  PROVE  Best(q) \in Range(q)
<1> DEFINE First(i) == \A j \in Candidates(q) :
             Rank(q[i]) < Rank(q[j]) \/ (Rank(q[i]) = Rank(q[j]) /\ i <= j)
           Urgent == {i \in Candidates(q) : Rank(q[i]) = 1}
<1>1. Candidates(q) \subseteq DOMAIN q /\ DOMAIN q \subseteq Nat
  BY LenProperties DEF Candidates
<1>2. \A i \in DOMAIN q : Rank(q[i]) \in {1, 2}
  BY DEF Rank
<1>3. \E i \in Candidates(q) : First(i)
  <2>1. CASE Urgent # {}
    <3>1. PICK i \in Urgent : \A k \in Urgent : i <= k
      BY <1>1, <2>1, LeastOf
    <3> QED
      BY <1>1, <1>2, <3>1
  <2>2. CASE Urgent = {}
    <3>1. PICK i \in Candidates(q) : \A k \in Candidates(q) : i <= k
      BY <1>1, LeastOf
    <3> QED
      BY <1>1, <1>2, <2>2, <3>1
  <2> QED
    BY <2>1, <2>2
<1>4. Best(q) = q[CHOOSE i \in Candidates(q) : First(i)]
  BY DEF Best
<1> HIDE DEF First
<1> QED
  BY <1>1, <1>3, <1>4 DEF Range

\* What is taken between two turns is in the queue, once.
LEMMA TakenIs ==
  ASSUME NEW T, NEW q \in Seq(T), Unique(q)
  PROVE  /\ TakenBetween(q) \in Seq(T) /\ Range(TakenBetween(q)) \subseteq Range(q)
         /\ Unique(TakenBetween(q))
<1>1. CASE TakenBetween(q) = <<>>
  BY <1>1 DEF Unique, Range
<1>2. CASE Candidates(q) # {} /\ TakenBetween(q) = <<Best(q)>>
  <2>1. Best(q) \in Range(q) /\ Range(q) \subseteq T
    BY <1>2, BestIs, RangeOfSeq DEF Range
  <2> QED
    BY <1>2, <2>1 DEF Unique, Range
<1>3. ASSUME NEW S, TakenBetween(q) = Only(q, S)
      PROVE  /\ TakenBetween(q) \in Seq(T) /\ Range(TakenBetween(q)) \subseteq Range(q)
             /\ Unique(TakenBetween(q))
  BY <1>3, OnlyIs
<1> QED
  BY <1>1, <1>2, <1>3 DEF TakenBetween


-----------------------------------------------------------------------------
(* What becomes of the commands.                                           *)

Turn == [pc : {"input", "query", "drain", "over"}, cmds : Seq(Command), gen : Nat,
         aborted : BOOLEAN, snapshot : Seq(Command)]

Typed ==
  /\ queue \in Seq(Command) /\ turns \in Seq(Turn)
  /\ status \in {"idle", "dispatching", "running"} /\ generation \in Nat
  /\ ctl \in {0} \cup DOMAIN turns /\ made \in 0 .. MaxCommands
  /\ told \in [1 .. MaxCommands -> Nat] /\ settled \cup cleared \subseteq 1 .. made
  /\ holder \in {0} \cup DOMAIN turns /\ crossed \in BOOLEAN

Handed(t) == Ids(turns[t].cmds)
Attaching(t) == Ids(Inline(turns[t].snapshot))
Drains == {t \in DOMAIN turns : turns[t].pc = "drain"}

\* A command that a query was attaching when it was aborted may be told again.
Excused(i) ==
  crossed \/ \E t \in DOMAIN turns : turns[t].aborted /\ i \in Ids(turns[t].snapshot)

\* Nobody is left who could tell the command to the model.
Gone(i) ==
  /\ i \notin Ids(queue)
  /\ \A t \in InInput : i \notin Handed(t)
  /\ \A t \in Drains : i \notin Attaching(t)

\* Every identifier in use has been given out.
IdsFit ==
  /\ Ids(queue) \subseteq 1 .. made
  /\ \A t \in DOMAIN turns :
       Handed(t) \subseteq 1 .. made /\ Ids(turns[t].snapshot) \subseteq 1 .. made
  /\ \A i \in DOMAIN told : i > made => told[i] = 0

\* A command waits in the queue or in the hands of one turn, once.
OnePlace ==
  /\ Unique(queue) /\ \A t \in DOMAIN turns : Unique(turns[t].cmds)
  /\ \A t \in InInput : Handed(t) \cap Ids(queue) = {}
  /\ \A t, u \in InInput : t # u => Handed(t) \cap Handed(u) = {}

\* A turn that has not been aborted has the controller and the guard.
Controls(t) ==
  /\ t \in Querying => ctl = t /\ status = "running"
  /\ t \in InInput => ctl = t /\ status = "dispatching" /\ holder = t

InControl == crossed \/ \A t \in DOMAIN turns : turns[t].aborted \/ Controls(t)

\* What has been told to the model is nowhere to be told again; what a query attaches is
\* in no other turn's hands, and in the queue it is still the command of the snapshot, so
\* that the removal finds it.
ToldApart ==
  /\ \A i \in DOMAIN told : told[i] > 0 => Excused(i) \/ (told[i] = 1 /\ Gone(i))
  /\ \A t \in InInput, u \in Drains : \A i \in Handed(t) \cap Attaching(u) : Excused(i)
  /\ \A u \in Drains : \A c \in Range(queue), d \in Range(Inline(turns[u].snapshot)) :
       c.id = d.id => c = d \/ Excused(c.id)

Placed == IdsFit /\ OnePlace /\ ToldApart

-----------------------------------------------------------------------------
(* What a step may do with the commands: MoveStep says it once for all the *)
(* actions.                                                                *)

IsNew(i) == i = made + 1 /\ made' = made + 1

QueueGoes ==
  /\ Unique(queue')
  /\ \A c \in Range(queue') :
       \/ c \in Range(queue) \/ IsNew(c.id)
       \/ \E t \in InInput : t \notin InInput' /\ c.id \in Handed(t)

\* A turn keeps its commands, and begins to drain only what is in the queue.
TurnGoes(t) ==
  /\ turns'[t].cmds = turns[t].cmds
  /\ turns[t].aborted => turns'[t].aborted
  /\ turns'[t].pc = "input" => turns[t].pc = "input"
  /\ \/ turns'[t].snapshot = turns[t].snapshot /\ (turns'[t].pc = "drain" => turns[t].pc = "drain")
     \/ /\ ~turns[t].aborted /\ turns[t].pc = "query" /\ queue' = queue
        /\ Range(turns'[t].snapshot) \subseteq Range(queue)

\* A new turn takes its commands from the queue, or a new one, while nothing is active.
TurnComes(t) ==
  /\ turns'[t].pc # "drain" /\ turns'[t].snapshot = <<>> /\ ~IsActive
  /\ Unique(turns'[t].cmds)
  /\ \A i \in Ids(turns'[t].cmds) : (i \in Ids(queue) \/ IsNew(i)) /\ i \notin Ids(queue')

ToldGoes(i) ==
  told'[i] = told[i] \/ (i \in 1 .. made' /\ (Excused(i)' \/ (told'[i] = 1 /\ Gone(i)')))

MoveStep ==
  /\ made' \in {made, made + 1} /\ (crossed => crossed')
  /\ QueueGoes
  /\ DOMAIN turns \subseteq DOMAIN turns' /\ \A t \in DOMAIN turns : TurnGoes(t)
  /\ \A t \in DOMAIN turns' \ DOMAIN turns : TurnComes(t)
  /\ \A t, u \in DOMAIN turns' \ DOMAIN turns : t = u
  /\ \A i \in DOMAIN told : ToldGoes(i)

LEMMA InlineIs ==
  ASSUME NEW s \in Seq(Command)
  PROVE  /\ Inline(s) \in Seq(Command) /\ Range(Inline(s)) \subseteq Range(s)
         /\ Ids(Inline(s)) \subseteq Ids(s)
<1>1. /\ Inline(s) \in Seq(Command)
      /\ Range(Inline(s)) = Range(s) \cap {c \in Range(s) : Mode(c) # "bash"}
  BY OnlyIs DEF Inline
<1> QED
  BY <1>1 DEF Ids

\* The turns are of their type.
LEMMA TurnIs ==
  ASSUME NEW q \in Seq(Turn), NEW t \in DOMAIN q
  PROVE  /\ q[t] \in Turn /\ q[t].pc \in {"input", "query", "drain", "over"}
         /\ q[t].cmds \in Seq(Command) /\ q[t].gen \in Nat /\ q[t].aborted \in BOOLEAN
         /\ q[t].snapshot \in Seq(Command)
<1>1. q[t] \in Turn
  BY LenProperties
<1> QED
  BY <1>1 DEF Turn

\* What is excused stays so.
LEMMA ExcusedStays ==
  ASSUME MoveStep, NEW i, Excused(i)
  PROVE  Excused(i)'
  BY DEF MoveStep, Excused, TurnGoes

LEMMA MoveIds ==
  ASSUME Typed, Typed', IdsFit, MoveStep
  PROVE  IdsFit'
<1>1. made \in Nat /\ made' \in Nat /\ made' >= made /\ DOMAIN told = 1 .. MaxCommands
      /\ DOMAIN told' = 1 .. MaxCommands /\ (\A i : IsNew(i) => i \in 1 .. made')
      /\ 1 .. made \subseteq 1 .. made'
  BY DEF Typed, MoveStep, IsNew
<1>2. Ids(queue') \subseteq 1 .. made'
  <2>1. ASSUME NEW c \in Range(queue') PROVE c.id \in 1 .. made'
    BY <1>1 DEF MoveStep, QueueGoes, IdsFit, Ids, InInput
  <2> QED
    BY <2>1 DEF Ids
<1>3. ASSUME NEW t \in DOMAIN turns'
      PROVE  Ids(turns'[t].cmds) \subseteq 1 .. made' /\ Ids(turns'[t].snapshot) \subseteq 1 .. made'
  <2>1. CASE t \in DOMAIN turns
    <3>1. turns'[t].cmds = turns[t].cmds /\ Ids(turns[t].cmds) \subseteq 1 .. made'
      BY <1>1, <2>1 DEF MoveStep, TurnGoes, IdsFit, Handed
    <3>2. Ids(turns'[t].snapshot) \subseteq Ids(turns[t].snapshot) \cup Ids(queue)
      BY <2>1 DEF MoveStep, TurnGoes, Ids
    <3> QED
      BY <1>1, <2>1, <3>1, <3>2 DEF IdsFit
  <2>2. CASE t \notin DOMAIN turns
    <3>1. TurnComes(t)
      BY <2>2 DEF MoveStep
    <3>2. Ids(turns'[t].snapshot) = {}
      BY <3>1 DEF TurnComes, Ids, Range
    <3> QED
      BY <1>1, <3>1, <3>2 DEF TurnComes, IdsFit
  <2> QED
    BY <2>1, <2>2
<1>4. ASSUME NEW i \in DOMAIN told', i > made' PROVE told'[i] = 0
  <2>1. i \in DOMAIN told /\ i > made /\ i \notin 1 .. made'
    BY <1>1, <1>4
  <2> QED
    BY <2>1 DEF MoveStep, ToldGoes, IdsFit
<1> QED
  BY <1>2, <1>3, <1>4 DEF IdsFit, Handed

LEMMA MoveKeepsPlace ==
  ASSUME Typed, Typed', IdsFit, OnePlace, MoveStep
  PROVE  OnePlace'
<1>1. made \in Nat /\ \A i : IsNew(i) => i \notin 1 .. made
  BY DEF Typed, IsNew
<1>2. Unique(queue') /\ \A t \in DOMAIN turns' : Unique(turns'[t].cmds)
  BY DEF MoveStep, QueueGoes, TurnGoes, TurnComes, OnePlace
<1>3. ASSUME NEW t \in InInput', t \in DOMAIN turns
      PROVE  t \in InInput /\ turns'[t].cmds = turns[t].cmds
  BY <1>3 DEF InInput, MoveStep, TurnGoes
<1>4. ASSUME NEW t \in InInput', t \notin DOMAIN turns
      PROVE  TurnComes(t)
  BY <1>4 DEF InInput, MoveStep
<1>5. ASSUME NEW t \in InInput' PROVE Handed(t)' \cap Ids(queue') = {}
  <2>1. CASE t \in DOMAIN turns
    <3>1. t \in InInput /\ Handed(t)' = Handed(t)
      BY <1>3, <2>1 DEF Handed
    <3>2. ASSUME NEW c \in Range(queue') PROVE c.id \notin Handed(t)
      <4>1. CASE c \in Range(queue)
        BY <3>1, <4>1 DEF OnePlace, Ids
      <4>2. CASE IsNew(c.id)
        BY <1>1, <2>1, <4>2 DEF IdsFit
      <4>3. CASE \E u \in InInput : u \notin InInput' /\ c.id \in Handed(u)
        BY <3>1, <4>3 DEF OnePlace
      <4> QED
        BY <4>1, <4>2, <4>3 DEF MoveStep, QueueGoes
    <3> QED
      BY <3>1, <3>2 DEF Ids
  <2>2. CASE t \notin DOMAIN turns
    BY <1>4, <2>2 DEF TurnComes, Handed
  <2> QED
    BY <2>1, <2>2
<1>6. ASSUME NEW t \in InInput', NEW u \in InInput', t \in DOMAIN turns, u \notin DOMAIN turns
      PROVE  Handed(t)' \cap Handed(u)' = {}
  <2>1. t \in InInput /\ Handed(t)' = Handed(t)
    BY <1>3, <1>6 DEF Handed
  <2>2. \A i \in Handed(u)' : i \in Ids(queue) \/ IsNew(i)
    BY <1>4, <1>6 DEF TurnComes, Handed
  <2>3. Handed(t) \cap Ids(queue) = {} /\ Handed(t) \subseteq 1 .. made
    BY <1>6, <2>1 DEF OnePlace, IdsFit
  <2> QED
    BY <1>1, <2>1, <2>2, <2>3
<1>7. ASSUME NEW t \in InInput', NEW u \in InInput', t # u
      PROVE  Handed(t)' \cap Handed(u)' = {}
  <2>1. CASE t \in DOMAIN turns /\ u \in DOMAIN turns
    BY <1>3, <1>7, <2>1 DEF OnePlace, Handed
  <2>2. CASE t \notin DOMAIN turns /\ u \notin DOMAIN turns
    BY <1>7, <2>2 DEF MoveStep, InInput
  <2> QED
    BY <1>6, <2>1, <2>2
<1> QED
  BY <1>2, <1>5, <1>7 DEF OnePlace

LEMMA MoveKeepsApart ==
  ASSUME Typed, Typed', Placed, InControl, MoveStep
  PROVE  ToldApart'
<1>1. made \in Nat /\ (\A i : IsNew(i) => i \notin 1 .. made) /\ DOMAIN told' = DOMAIN told
  BY DEF Typed, IsNew
<1>2. ASSUME NEW u \in Drains'
      PROVE  /\ u \in DOMAIN turns /\ TurnGoes(u)
             /\ turns[u].snapshot \in Seq(Command) /\ turns'[u].snapshot \in Seq(Command)
  <2>1. u \in DOMAIN turns' /\ u \in DOMAIN turns /\ TurnGoes(u)
    BY DEF Drains, MoveStep, TurnComes
  <2> QED
    BY <2>1, TurnIs DEF Typed
<1> DEFINE Still(u) == u \in Drains /\ turns'[u].snapshot = turns[u].snapshot
           Begun(u) == /\ ~turns[u].aborted /\ u \in Querying /\ queue' = queue
                       /\ Range(turns'[u].snapshot) \subseteq Range(queue)
<1>3. ASSUME NEW u \in Drains' PROVE Still(u) \/ Begun(u)
  BY <1>2 DEF TurnGoes, Drains, Querying
<1>4. ASSUME NEW u \in Drains', Begun(u)
      PROVE  /\ \A d \in Range(Inline(turns'[u].snapshot)) : d \in Range(queue)
             /\ Attaching(u)' \subseteq Ids(queue)
  BY <1>2, <1>4, InlineIs DEF Attaching, Ids
<1>5. ASSUME NEW u \in Drains', Still(u)
      PROVE  Attaching(u)' = Attaching(u) /\ Attaching(u) \subseteq Ids(turns[u].snapshot)
             /\ Attaching(u) \subseteq 1 .. made
  <2>1. Attaching(u)' = Attaching(u) /\ Attaching(u) \subseteq Ids(turns[u].snapshot)
    BY <1>2, <1>5, InlineIs DEF Attaching
  <2> QED
    BY <1>2, <2>1 DEF Placed, IdsFit
<1>6. ASSUME NEW t \in InInput', t \in DOMAIN turns
      PROVE  t \in InInput /\ Handed(t)' = Handed(t)
  BY <1>6 DEF InInput, MoveStep, TurnGoes, Handed
<1>7. ASSUME NEW t \in InInput', t \notin DOMAIN turns
      PROVE  ~IsActive /\ \A i \in Handed(t)' : i \in Ids(queue) \/ IsNew(i)
  BY <1>7 DEF InInput, MoveStep, TurnComes, Handed
<1>8. ASSUME NEW i, Gone(i), i \in 1 .. made PROVE Gone(i)'
  <2>1. i \notin Ids(queue')
    BY <1>1, <1>8 DEF MoveStep, QueueGoes, Gone, Ids
  <2>2. ASSUME NEW t \in InInput' PROVE i \notin Handed(t)'
    BY <1>1, <1>6, <1>7, <1>8 DEF Gone
  <2>3. ASSUME NEW u \in Drains' PROVE i \notin Attaching(u)'
    BY <1>3, <1>4, <1>5, <1>8 DEF Gone
  <2> QED
    BY <2>1, <2>2, <2>3 DEF Gone
<1>9. ASSUME NEW i \in DOMAIN told', told'[i] > 0
      PROVE  Excused(i)' \/ (told'[i] = 1 /\ Gone(i)')
  <2>1. CASE told'[i] = told[i]
    <3>1. Excused(i) \/ (told[i] = 1 /\ Gone(i))
      BY <1>1, <1>9, <2>1 DEF Placed, ToldApart
    <3>2. i \in 1 .. made
      <4>1. i \in 1 .. MaxCommands /\ (i > made => told[i] = 0)
        BY <1>1 DEF Placed, IdsFit, Typed
      <4> QED
        BY <1>1, <1>9, <2>1, <4>1
    <3> QED
      BY <1>8, <2>1, <3>1, <3>2, ExcusedStays
  <2> QED
    BY <1>1, <2>1 DEF MoveStep, ToldGoes
<1>10. ASSUME NEW t \in InInput', NEW u \in Drains', NEW i \in Handed(t)' \cap Attaching(u)'
       PROVE  Excused(i)'
  <2>1. CASE t \in DOMAIN turns /\ Still(u)
    BY <1>5, <1>6, <2>1, ExcusedStays DEF Placed, ToldApart
  <2>2. CASE t \in DOMAIN turns /\ Begun(u)
    BY <1>4, <1>6, <2>2 DEF Placed, OnePlace
  <2>3. CASE t \notin DOMAIN turns
    <3>1. u \in Querying /\ status # "running" /\ u \in DOMAIN turns
      BY <1>2, <1>3, <1>7, <2>3 DEF Querying, Drains, IsActive
    <3>2. crossed \/ turns[u].aborted
      BY <3>1 DEF InControl, Controls
    <3>3. CASE crossed
      BY <3>3, ExcusedStays DEF Excused
    <3>4. CASE turns[u].aborted
      <4>1. i \in Ids(turns[u].snapshot)
        BY <1>3, <1>5, <3>4
      <4> QED
        BY <3>1, <3>4, <4>1, ExcusedStays DEF Excused
    <3> QED
      BY <3>2, <3>3, <3>4
  <2> QED
    BY <1>3, <2>1, <2>2, <2>3
<1>11. ASSUME NEW u \in Drains', NEW c \in Range(queue'), NEW d \in Range(Inline(turns'[u].snapshot)),
              c.id = d.id
       PROVE  c = d \/ Excused(c.id)'
  <2>1. CASE Begun(u)
    <3>1. d \in Range(queue') /\ Unique(queue')
      BY <1>4, <2>1 DEF MoveStep, QueueGoes
    <3> QED
      BY <1>11, <3>1 DEF Unique, Range
  <2>2. CASE Still(u)
    <3>1. d \in Range(Inline(turns[u].snapshot)) /\ d.id \in Attaching(u) /\ d.id \in 1 .. made
      BY <1>5, <2>2 DEF Attaching, Ids
    <3>2. CASE c \in Range(queue)
      BY <1>11, <2>2, <3>1, <3>2, ExcusedStays DEF Placed, ToldApart
    <3>3. CASE \E t \in InInput : c.id \in Handed(t)
      BY <1>11, <2>2, <3>1, <3>3, ExcusedStays DEF Placed, ToldApart
    <3>4. ~IsNew(c.id)
      BY <1>1, <1>11, <3>1
    <3> QED
      BY <3>2, <3>3, <3>4 DEF MoveStep, QueueGoes
  <2> QED
    BY <1>3, <2>1, <2>2
<1> QED
  BY <1>9, <1>10, <1>11 DEF ToldApart, Attaching

LEMMA MovesKeep ==
  ASSUME Typed, Typed', Placed, InControl, MoveStep
  PROVE  Placed'
  BY MoveIds, MoveKeepsPlace, MoveKeepsApart DEF Placed

-----------------------------------------------------------------------------
(* What the actions do to the turns and to the queue.                      *)

LEMMA ReplacedIs ==
  ASSUME Typed, NEW t \in DOMAIN turns, NEW r \in Turn, turns' = [turns EXCEPT ![t] = r]
  PROVE  /\ turns' \in Seq(Turn) /\ DOMAIN turns' = DOMAIN turns /\ turns'[t] = r
         /\ \A u \in DOMAIN turns \ {t} : turns'[u] = turns[u]
<1>1. turns \in Seq(Turn) /\ t \in 1 .. Len(turns)
  BY LenProperties DEF Typed
<1> QED
  BY <1>1, ExceptSeq

\* A turn as it is at another place.
At(t, p) == [turns[t] EXCEPT !.pc = p]

LEMMA BecomesIs ==
  ASSUME Typed, NEW t \in DOMAIN turns, NEW p \in {"input", "query", "drain", "over"},
         Becomes(t, p)
  PROVE  /\ turns' \in Seq(Turn) /\ DOMAIN turns' = DOMAIN turns
         /\ turns'[t].pc = p /\ turns'[t].cmds = turns[t].cmds
         /\ turns'[t].aborted = turns[t].aborted /\ turns'[t].snapshot = turns[t].snapshot
         /\ \A u \in DOMAIN turns \ {t} : turns'[u] = turns[u]
<1>1. turns[t] \in Turn
  BY TurnIs DEF Typed
<1>2. /\ At(t, p) \in Turn /\ At(t, p).pc = p /\ At(t, p).cmds = turns[t].cmds
      /\ At(t, p).aborted = turns[t].aborted /\ At(t, p).snapshot = turns[t].snapshot
  BY <1>1 DEF At, Turn
<1>3. turns' = [turns EXCEPT ![t] = At(t, p)]
  BY DEF Becomes, At
<1> QED
  BY <1>2, <1>3, ReplacedIs

LEMMA AbortedIs ==
  ASSUME Typed, turns' = turns \/ (ctl # 0 /\ turns' = AbortOf(ctl))
  PROVE  /\ turns' \in Seq(Turn) /\ DOMAIN turns' = DOMAIN turns
         /\ \A u \in DOMAIN turns :
              /\ turns'[u].pc = turns[u].pc /\ turns'[u].cmds = turns[u].cmds
              /\ turns'[u].snapshot = turns[u].snapshot
              /\ turns[u].aborted => turns'[u].aborted
<1>1. CASE turns' = turns
  BY <1>1 DEF Typed
<1>2. CASE ctl # 0 /\ turns' = AbortOf(ctl)
  <2> DEFINE r == [turns[ctl] EXCEPT !.aborted = TRUE]
  <2>1. ctl \in DOMAIN turns /\ turns[ctl] \in Turn
    BY <1>2, TurnIs DEF Typed
  <2>2. /\ r \in Turn /\ r.pc = turns[ctl].pc /\ r.cmds = turns[ctl].cmds
        /\ r.snapshot = turns[ctl].snapshot /\ r.aborted = TRUE
    BY <2>1 DEF Turn
  <2>3. turns' = [turns EXCEPT ![ctl] = r]
    BY <1>2 DEF AbortOf
  <2> HIDE DEF r
  <2> QED
    BY <2>1, <2>2, <2>3, ReplacedIs
<1> QED
  BY <1>1, <1>2

LEMMA JoinedIs ==
  ASSUME Typed, NEW r \in Turn, turns' = Append(turns, r)
  PROVE  /\ turns' \in Seq(Turn) /\ Len(turns) + 1 \notin DOMAIN turns
         /\ DOMAIN turns' = DOMAIN turns \cup {Len(turns) + 1}
         /\ turns'[Len(turns) + 1] = r
         /\ \A u \in DOMAIN turns : turns'[u] = turns[u]
<1>1. turns \in Seq(Turn)
  BY DEF Typed
<1>2. /\ turns' \in Seq(Turn) /\ Len(turns') = Len(turns) + 1 /\ Len(turns) \in Nat
      /\ \A u \in 1 .. Len(turns) : turns'[u] = turns[u]
      /\ turns'[Len(turns) + 1] = r
      /\ DOMAIN turns = 1 .. Len(turns) /\ DOMAIN turns' = 1 .. Len(turns')
  BY <1>1, AppendProperties, LenProperties
<1>3. DOMAIN turns' = DOMAIN turns \cup {Len(turns) + 1}
  BY <1>2
<1> QED
  BY <1>2, <1>3

LEMMA WithoutIs ==
  ASSUME NEW q \in Seq(Command), NEW taken
  PROVE  /\ Without(q, taken) \in Seq(Command)
         /\ Range(Without(q, taken)) = Range(q) \ Range(taken)
         /\ Unique(q) => Unique(Without(q, taken))
<1>1. /\ Without(q, taken) \in Seq(Command)
      /\ Range(Without(q, taken)) = Range(q) \cap (Range(q) \ Range(taken))
      /\ Unique(q) => Unique(Without(q, taken))
  BY OnlyIs DEF Without
<1> QED
  BY <1>1

-----------------------------------------------------------------------------
(* What each action keeps.                                                 *)

Accounted(i) ==
  \/ i \in Ids(queue) \/ told[i] > 0 \/ i \in settled \cup cleared
  \/ \E t \in InInput : i \in Handed(t)
  \/ \E t \in DOMAIN turns : \E c \in Range(turns[t].cmds) :
       c.id = i /\ IsMeta(c) /\ (turns[t].aborted \/ crossed)

Good == Typed /\ Placed /\ InControl /\ NothingLost
Kept == Typed' /\ MoveStep /\ InControl' /\ NothingLost'

LEMMA ToldSame ==
  ASSUME Typed, told' = told
  PROVE  \A i \in DOMAIN told : told'[i] >= told[i]
<1>1. \A i \in DOMAIN told : told[i] \in Nat
  BY DEF Typed
<1> QED
  BY <1>1

\* What is still accounted for when the queue's commands and those of the turns that have
\* processed their input are.
LEMMA StillAccounted ==
  ASSUME Good, Typed', MoveStep, settled \subseteq settled', cleared \subseteq cleared',
         \A i \in DOMAIN told : told'[i] >= told[i],
         \A i : IsNew(i) => Accounted(i)',
         \A i \in Ids(queue) : Accounted(i)',
         \A t \in InInput : t \notin InInput' => \A i \in Handed(t) : Accounted(i)'
  PROVE  NothingLost'
<1>1. SUFFICES ASSUME NEW i \in 1 .. made' PROVE Accounted(i)'
  BY DEF NothingLost, Accounted, Handed
<1>2. made \in Nat /\ DOMAIN told = 1 .. MaxCommands /\ DOMAIN told' = 1 .. MaxCommands
      /\ made <= MaxCommands /\ MaxCommands \in Nat
      /\ \A k \in 1 .. MaxCommands : told[k] \in Nat /\ told'[k] \in Nat
  BY PromptsAssumption DEF Good, Typed
<1>3. CASE i \in 1 .. made
  <2>1. \/ i \in Ids(queue) \/ told[i] > 0 \/ i \in settled \cup cleared
        \/ \E t \in InInput : i \in Handed(t)
        \/ \E t \in DOMAIN turns : \E c \in Range(turns[t].cmds) :
             c.id = i /\ IsMeta(c) /\ (turns[t].aborted \/ crossed)
    BY <1>3 DEF Good, NothingLost, Handed
  <2>2. CASE told[i] > 0
    <3>1. i \in DOMAIN told /\ told'[i] >= told[i]
      BY <1>2, <1>3
    <3> QED
      BY <1>2, <2>2, <3>1 DEF Accounted
  <2>3. CASE \E t \in InInput : i \in Handed(t)
    <3>1. PICK t \in InInput : i \in Handed(t)
      BY <2>3
    <3>2. CASE t \in InInput'
      <4>1. turns'[t].cmds = turns[t].cmds
        BY DEF MoveStep, TurnGoes, InInput
      <4> QED
        BY <3>1, <3>2, <4>1 DEF Accounted, Handed
    <3> QED
      BY <3>1, <3>2
  <2>4. CASE \E t \in DOMAIN turns : \E c \in Range(turns[t].cmds) :
               c.id = i /\ IsMeta(c) /\ (turns[t].aborted \/ crossed)
    <3>1. PICK t \in DOMAIN turns : \E c \in Range(turns[t].cmds) :
            c.id = i /\ IsMeta(c) /\ (turns[t].aborted \/ crossed)
      BY <2>4
    <3>2. t \in DOMAIN turns' /\ turns'[t].cmds = turns[t].cmds
          /\ (turns[t].aborted \/ crossed => turns'[t].aborted \/ crossed')
      BY DEF MoveStep, TurnGoes
    <3> QED
      BY <3>1, <3>2 DEF Accounted
  <2>5. CASE i \in settled \cup cleared
    BY <2>5 DEF Accounted
  <2> QED
    BY <2>1, <2>2, <2>3, <2>4, <2>5
<1>4. CASE i \notin 1 .. made
  <2>1. made' \in {made, made + 1}
    BY DEF MoveStep
  <2>2. i = made + 1 /\ made' = made + 1
    BY <1>2, <1>4, <2>1
  <2> QED
    BY <2>2 DEF IsNew
<1> QED
  BY <1>3, <1>4

\* The queue changes, and the turn in control may be aborted.
LEMMA QueueKept ==
  ASSUME Good, turns' = turns \/ (ctl # 0 /\ turns' = AbortOf(ctl)),
         UNCHANGED <<status, generation, ctl, told, holder, crossed>>,
         made' \in {made, made + 1}, made' <= MaxCommands,
         queue' \in Seq(Command), QueueGoes,
         settled \subseteq settled', cleared \subseteq cleared',
         settled' \cup cleared' \subseteq 1 .. made',
         \A i \in Ids(queue) : i \in Ids(queue') \/ i \in settled' \cup cleared',
         IsNew(made + 1) => made + 1 \in Ids(queue')
  PROVE  Kept
<1>1. /\ turns' \in Seq(Turn) /\ DOMAIN turns' = DOMAIN turns
      /\ \A u \in DOMAIN turns :
           /\ turns'[u].pc = turns[u].pc /\ turns'[u].cmds = turns[u].cmds
           /\ turns'[u].snapshot = turns[u].snapshot
           /\ turns[u].aborted => turns'[u].aborted
  BY AbortedIs DEF Good
<1>2. made' \in 0 .. MaxCommands
  BY PromptsAssumption DEF Good, Typed
<1>3. Typed'
  BY <1>1, <1>2 DEF Good, Typed
<1>4. MoveStep
  BY <1>1 DEF MoveStep, TurnGoes, ToldGoes
<1>5. InControl'
  BY <1>1 DEF Good, InControl, Controls, Querying, InInput
<1>6. NothingLost'
  <2>1. \A i \in Ids(queue) : Accounted(i)'
    BY DEF Accounted
  <2>2. \A i : IsNew(i) => Accounted(i)'
    BY DEF Accounted, IsNew
  <2>3. \A t \in InInput : t \in InInput'
    BY <1>1 DEF InInput
  <2>4. \A i \in DOMAIN told : told'[i] >= told[i]
    BY ToldSame DEF Good
  <2> QED
    BY <1>3, <1>4, <2>1, <2>2, <2>3, <2>4, StillAccounted
<1> QED
  BY <1>3, <1>4, <1>5, <1>6 DEF Kept

\* A new command joins the queue.
LEMMA EnqueueKept ==
  ASSUME Good, NEW c \in Command, c.id = made + 1, Enqueue(c),
         made < MaxCommands, made' = made + 1,
         turns' = turns \/ (ctl # 0 /\ turns' = AbortOf(ctl)),
         UNCHANGED <<status, generation, ctl, told, settled, cleared, holder, crossed>>
  PROVE  Kept
<1>1. queue' = Append(queue, c) /\ queue \in Seq(Command) /\ Unique(queue)
  BY DEF Enqueue, Queue, Good, Typed, Placed, OnePlace
<1>2. made \in Nat /\ MaxCommands \in Nat /\ settled \cup cleared \subseteq 1 .. made
  BY PromptsAssumption DEF Good, Typed
<1>3. \A d \in Range(queue) : d.id # c.id
  BY <1>2 DEF Good, Placed, IdsFit, Ids
<1>4. queue' \in Seq(Command) /\ Range(queue') = Range(queue) \cup {c} /\ Unique(queue')
  BY <1>1, <1>3, Appended
<1>5. QueueGoes
  BY <1>4 DEF QueueGoes, IsNew
<1>6. Ids(queue') = Ids(queue) \cup {made + 1}
  BY <1>4 DEF Ids
<1>7. settled' \cup cleared' \subseteq 1 .. made' /\ made' <= MaxCommands
  BY <1>2
<1> QED
  BY <1>4, <1>5, <1>6, <1>7, QueueKept

LEMMA NewCommandIs ==
  ASSUME Good, NEW kind \in AllKinds
  PROVE  NewCommand(kind) \in Command /\ NewCommand(kind).id = made + 1
  BY DEF NewCommand, Command, Good, Typed

\* A turn begins with commands that were in the queue, or with a new one.
LEMMA BeginKept ==
  ASSUME Good, ~IsActive, NEW cmds \in Seq(Command), Unique(cmds), Begin(cmds),
         made' \in {made, made + 1}, made' <= MaxCommands,
         queue' \in Seq(Command), Unique(queue'), Range(queue') \subseteq Range(queue),
         \A i \in Ids(cmds) : (i \in Ids(queue) \/ IsNew(i)) /\ i \notin Ids(queue'),
         \A i \in Ids(queue) : i \in Ids(queue') \/ i \in Ids(cmds),
         IsNew(made + 1) => made + 1 \in Ids(cmds)
  PROVE  Kept
<1> DEFINE r == [NoTurn EXCEPT !.cmds = cmds]
<1> PICK n : n = Len(turns) + 1
  OBVIOUS
<1>1. /\ r \in Turn /\ r.pc = "input" /\ r.cmds = cmds /\ r.snapshot = <<>>
      /\ r.aborted = FALSE
  <2>1. <<>> \in Seq(Command) /\ 0 \in Nat
    BY EmptySeq
  <2> QED
    BY <2>1 DEF NoTurn, Turn
<1>2. /\ turns' = Append(turns, r) /\ ctl' = n /\ Reserve(n)
      /\ UNCHANGED <<generation, told, settled, cleared, crossed>>
  BY DEF Begin
<1> HIDE DEF r
<1>3. /\ turns' \in Seq(Turn) /\ n \notin DOMAIN turns
      /\ DOMAIN turns' = DOMAIN turns \cup {n} /\ turns'[n] = r
      /\ \A u \in DOMAIN turns : turns'[u] = turns[u]
  BY <1>1, <1>2, JoinedIs DEF Good
<1>4. status = "idle" /\ status' = "dispatching" /\ holder' = n
  BY <1>2 DEF Reserve, IsActive
<1>5. made' \in 0 .. MaxCommands /\ settled \cup cleared \subseteq 1 .. made'
  BY PromptsAssumption DEF Good, Typed
<1>6. Typed'
  BY <1>2, <1>3, <1>4, <1>5 DEF Good, Typed
<1>7. MoveStep
  <2>1. QueueGoes
    BY DEF QueueGoes
  <2>2. \A t \in DOMAIN turns : TurnGoes(t)
    BY <1>3 DEF TurnGoes
  <2>3. TurnComes(n)
    BY <1>1, <1>3 DEF TurnComes
  <2>4. \A i \in DOMAIN told : ToldGoes(i)
    BY <1>2 DEF ToldGoes
  <2> QED
    BY <1>2, <1>3, <2>1, <2>2, <2>3, <2>4 DEF MoveStep
<1>8. InControl'
  <2>1. crossed \/ \A t \in DOMAIN turns : turns[t].aborted \/ t \notin Querying \cup InInput
    BY <1>4 DEF Good, InControl, Controls
  <2>2. n \in InInput' /\ n \notin Querying'
    BY <1>1, <1>3 DEF InInput, Querying
  <2>3. Controls(n)'
    BY <1>2, <1>4, <2>2 DEF Controls
  <2>4. ASSUME NEW t \in DOMAIN turns, t \notin Querying \cup InInput
        PROVE  Controls(t)'
    BY <1>3, <2>4 DEF Controls, Querying, InInput
  <2> QED
    BY <1>2, <1>3, <2>1, <2>3, <2>4 DEF InControl
<1>9. NothingLost'
  <2>1. n \in InInput' /\ Handed(n)' = Ids(cmds)
    BY <1>1, <1>3 DEF InInput, Handed
  <2>2. \A i \in Ids(cmds) : Accounted(i)'
    BY <2>1 DEF Accounted
  <2>3. \A i \in Ids(queue) : Accounted(i)'
    BY <2>2 DEF Accounted
  <2>4. \A t \in InInput : t \in InInput'
    BY <1>3 DEF InInput
  <2>5. \A i \in DOMAIN told : told'[i] >= told[i]
    BY <1>2, ToldSame DEF Good
  <2>6. \A i : IsNew(i) => Accounted(i)'
    BY <2>2 DEF IsNew
  <2> QED
    BY <1>2, <1>6, <1>7, <2>2, <2>3, <2>4, <2>5, <2>6, StillAccounted
<1> QED
  BY <1>6, <1>7, <1>8, <1>9 DEF Kept

\* A turn leaves its input, and the queue is as it was but for what arrives in it.
LEMMA LeavesKept ==
  ASSUME Good, NEW t \in InInput, NEW p \in {"over", "query"},
         turns' \in Seq(Turn), DOMAIN turns' = DOMAIN turns, turns'[t].pc = p,
         turns'[t].cmds = turns[t].cmds, turns'[t].aborted = turns[t].aborted,
         turns'[t].snapshot = turns[t].snapshot,
         \A u \in DOMAIN turns \ {t} : turns'[u] = turns[u],
         \A i \in DOMAIN told : ToldGoes(i), \A i \in DOMAIN told : told'[i] >= told[i],
         QueueGoes, \A c \in Range(queue) : c \in Range(queue'),
         settled \subseteq settled', cleared' = cleared, crossed => crossed', made' \in {made, made + 1},
         \A i \in Handed(t) : Accounted(i)', \A i : IsNew(i) => i \in Ids(queue'),
         Typed', InControl'
  PROVE  Kept
<1>1. MoveStep
  <2>1. \A u \in DOMAIN turns : TurnGoes(u)
    BY DEF TurnGoes, InInput
  <2> QED
    BY <2>1 DEF MoveStep
<1>2. \A i \in Ids(queue) : Accounted(i)'
  BY DEF Accounted, Ids
<1>3. \A u \in InInput : u \notin InInput' => u = t
  BY DEF InInput
<1>4. \A i : IsNew(i) => Accounted(i)'
  BY DEF Accounted
<1>5. NothingLost'
  BY <1>1, <1>2, <1>3, <1>4, StillAccounted
<1> QED
  BY <1>1, <1>5 DEF Kept

\* A turn that is not in the way of another leaves its input.
LEMMA InputControl ==
  ASSUME Good, NEW t \in InInput, DOMAIN turns' = DOMAIN turns, turns'[t].pc = "over",
         \A u \in DOMAIN turns \ {t} : turns'[u] = turns[u],
         \/ crossed'
         \/ /\ ~crossed /\ ~Intrudes(t) /\ holder' = holder
            /\ \/ status' = status /\ ctl' = ctl
               \/ status' = CancelReservation(status) /\ ctl' = ctl
               \/ status # "running" /\ ctl' = 0
               \/ ~Disarms(t) /\ ctl' = 0
  PROVE  InControl'
<1>1. SUFFICES ASSUME ~crossed', NEW u \in DOMAIN turns', ~turns'[u].aborted
               PROVE Controls(u)'
  BY DEF InControl
<1>2. CASE u = t
  BY <1>2 DEF Controls, Querying, InInput
<1>3. CASE u # t
  <2>1. u \in DOMAIN turns /\ turns'[u] = turns[u] /\ ~crossed
    BY <1>1, <1>3
  <2>2. Controls(u)
    BY <1>1, <2>1 DEF Good, InControl
  <2>3. u \notin InInput
    BY <1>1, <1>3, <2>2 DEF Controls, Intrudes
  <2>4. CASE u \in Querying
    <3>1. status = "running" /\ ctl = u
      BY <2>2, <2>4 DEF Controls
    <3>2. status' = "running" /\ ctl' = ctl
      BY <1>1, <1>3, <2>4, <3>1 DEF CancelReservation, Disarms, Good, Typed
    <3> QED
      BY <2>1, <2>3, <3>1, <3>2 DEF Controls, InInput
  <2>5. CASE u \notin Querying
    BY <2>1, <2>3, <2>5 DEF Controls, Querying, InInput
  <2> QED
    BY <2>4, <2>5
<1> QED
  BY <1>2, <1>3

LEMMA JoinedSeqs ==
  ASSUME NEW p \in Seq(Command), NEW q \in Seq(Command), Unique(p), Unique(q),
         Ids(p) \cap Ids(q) = {}
  PROVE  /\ p \o q \in Seq(Command) /\ Range(p \o q) = Range(p) \cup Range(q)
         /\ Unique(p \o q)
<1>1. /\ p \o q \in Seq(Command) /\ Len(p \o q) = Len(p) + Len(q)
      /\ Len(p) \in Nat /\ Len(q) \in Nat
      /\ DOMAIN p = 1 .. Len(p) /\ DOMAIN q = 1 .. Len(q)
      /\ DOMAIN (p \o q) = 1 .. Len(p) + Len(q)
      /\ \A k \in 1 .. Len(p) + Len(q) :
           (p \o q)[k] = IF k <= Len(p) THEN p[k] ELSE q[k - Len(p)]
  BY ConcatProperties, LenProperties
<1>2. \A k \in DOMAIN (p \o q) :
        \/ k \in DOMAIN p /\ (p \o q)[k] = p[k]
        \/ k - Len(p) \in DOMAIN q /\ (p \o q)[k] = q[k - Len(p)] /\ k \in Nat
  BY <1>1
<1>3. Range(p) \subseteq Range(p \o q)
  BY <1>1 DEF Range
<1>4. Range(q) \subseteq Range(p \o q)
  <2>1. ASSUME NEW k \in DOMAIN q PROVE q[k] \in Range(p \o q)
    <3>1. Len(p) + k \in DOMAIN (p \o q) /\ ~(Len(p) + k <= Len(p)) /\ (Len(p) + k) - Len(p) = k
      BY <1>1
    <3>2. (p \o q)[Len(p) + k] = q[k]
      BY <1>1, <3>1
    <3> QED
      BY <3>1, <3>2 DEF Range
  <2> QED
    BY <2>1 DEF Range
<1>5. Range(p \o q) \subseteq Range(p) \cup Range(q)
  BY <1>2 DEF Range
<1>6. Unique(p \o q)
  <2>1. SUFFICES ASSUME NEW j \in DOMAIN (p \o q), NEW k \in DOMAIN (p \o q),
                        (p \o q)[j].id = (p \o q)[k].id
                 PROVE j = k
    BY DEF Unique
  <2>2. \A m \in DOMAIN p, n \in DOMAIN q : p[m].id # q[n].id
    BY DEF Ids, Range
  <2>3. CASE j \in DOMAIN p /\ (p \o q)[j] = p[j]
    BY <1>2, <2>1, <2>2, <2>3 DEF Unique
  <2>4. CASE j - Len(p) \in DOMAIN q /\ (p \o q)[j] = q[j - Len(p)] /\ j \in Nat
    <3>1. k - Len(p) \in DOMAIN q /\ (p \o q)[k] = q[k - Len(p)] /\ k \in Nat
      BY <1>2, <2>1, <2>2, <2>4
    <3>2. j - Len(p) = k - Len(p)
      BY <2>1, <2>4, <3>1 DEF Unique
    <3> QED
      BY <1>1, <2>4, <3>1, <3>2
  <2> QED
    BY <1>2, <2>3, <2>4
<1> QED
  BY <1>1, <1>3, <1>4, <1>5, <1>6

LEMMA FindsRunningKept ==
  ASSUME Good, NEW t \in DOMAIN turns, FindsRunning(t)
  PROVE  Kept
<1>1. t \in InInput /\ status = "running" /\ status' = status
      /\ Becomes(t, "over") /\ queue' = queue \o PutBack(t)
      /\ UNCHANGED <<generation, ctl, made, told, settled, cleared, holder, crossed>>
  BY DEF FindsRunning, MayStart, CancelReservation, Queue, InInput
<1>2. /\ turns' \in Seq(Turn) /\ DOMAIN turns' = DOMAIN turns
      /\ turns'[t].pc = "over" /\ turns'[t].cmds = turns[t].cmds
      /\ turns'[t].aborted = turns[t].aborted /\ turns'[t].snapshot = turns[t].snapshot
      /\ \A u \in DOMAIN turns \ {t} : turns'[u] = turns[u]
  BY <1>1, BecomesIs DEF Good
<1> DEFINE shown == Only(turns[t].cmds, {c \in Range(turns[t].cmds) : ~IsMeta(c)})
           back == PutBack(t)
<1>3. /\ shown \in Seq(Command) /\ Unique(shown)
      /\ Range(shown) = {c \in Range(turns[t].cmds) : ~IsMeta(c)}
  <2>1. turns[t].cmds \in Seq(Command) /\ Unique(turns[t].cmds)
    BY TurnIs DEF Good, Typed, Placed, OnePlace
  <2>2. /\ shown \in Seq(Command) /\ (Unique(turns[t].cmds) => Unique(shown))
        /\ Range(shown) = Range(turns[t].cmds) \cap {c \in Range(turns[t].cmds) : ~IsMeta(c)}
    BY <2>1, OnlyIs
  <2> HIDE DEF shown
  <2> QED
    BY <2>1, <2>2
<1>4. back = [n \in DOMAIN shown |-> [id |-> shown[n].id, kind |-> "prompt"]]
  BY DEF PutBack
<1> HIDE DEF shown, back
<1>5. /\ back \in Seq(Command) /\ Unique(back) /\ DOMAIN back = DOMAIN shown
      /\ \A n \in DOMAIN back : back[n].id = shown[n].id
  <2>1. DOMAIN shown = 1 .. Len(shown) /\ Len(shown) \in Nat
        /\ \A n \in DOMAIN shown : shown[n] \in Command
    BY <1>3, LenProperties
  <2>2. \A n \in DOMAIN shown : [id |-> shown[n].id, kind |-> "prompt"] \in Command
    BY <2>1 DEF Command, AllKinds
  <2>3. back \in Seq(Command)
    BY <1>4, <2>1, <2>2, IsASeq
  <2> QED
    BY <1>3, <1>4, <2>3 DEF Unique
<1>6. Ids(back) = Ids(shown)
  BY <1>5 DEF Ids, Range
<1>7. Ids(back) \subseteq Handed(t)
  BY <1>3, <1>6 DEF Ids, Handed
<1>8. Ids(back) \cap Ids(queue) = {}
  BY <1>1, <1>7 DEF Good, Placed, OnePlace
<1>9. /\ queue' \in Seq(Command) /\ Range(queue') = Range(queue) \cup Range(back)
      /\ Unique(queue')
  BY <1>1, <1>5, <1>8, JoinedSeqs DEF Good, Typed, Placed, OnePlace, back
<1>10. t \notin InInput'
  BY <1>2 DEF InInput
<1>11. QueueGoes
  BY <1>1, <1>7, <1>9, <1>10 DEF QueueGoes, Ids
<1>12. Typed'
  BY <1>1, <1>2, <1>9 DEF Good, Typed
<1>13. InControl'
  BY <1>1, <1>2, InputControl DEF Intrudes
<1>14. ASSUME NEW i \in Handed(t) PROVE Accounted(i)'
  <2>1. PICK c \in Range(turns[t].cmds) : c.id = i
    BY DEF Handed, Ids
  <2>2. CASE IsMeta(c)
    <3>1. turns[t].aborted \/ crossed
      BY <1>1 DEF Good, InControl, Controls
    <3> QED
      BY <1>1, <1>2, <2>1, <2>2, <3>1 DEF Accounted
  <2>3. CASE ~IsMeta(c)
    <3>1. i \in Ids(back)
      BY <1>3, <1>6, <2>1, <2>3 DEF Ids
    <3> QED
      BY <1>9, <3>1 DEF Accounted, Ids
  <2> QED
    BY <2>2, <2>3
<1>15. \A i \in DOMAIN told : ToldGoes(i) /\ told'[i] >= told[i]
  BY <1>1, ToldSame DEF ToldGoes, Good
<1>16. ~\E i : IsNew(i)
  BY <1>1 DEF IsNew, Good, Typed
<1> QED
  BY <1>1, <1>2, <1>9, <1>11, <1>12, <1>13, <1>14, <1>15, <1>16, LeavesKept

LEMMA StartsQueryKept ==
  ASSUME Good, NEW t \in DOMAIN turns, StartsQuery(t)
  PROVE  Kept
<1>1. /\ t \in InInput /\ status # "running" /\ status' = "running"
      /\ generation' = generation + 1 /\ Tell(turns[t].cmds)
      /\ crossed' = (crossed \/ Intrudes(t))
      /\ UNCHANGED <<queue, ctl, made, settled, cleared, holder>>
  BY DEF StartsQuery, MayStart, InInput
<1> DEFINE r == [turns[t] EXCEPT !.pc = "query", !.gen = generation + 1]
<1>2. /\ r \in Turn /\ r.pc = "query" /\ r.cmds = turns[t].cmds
      /\ r.aborted = turns[t].aborted /\ r.snapshot = turns[t].snapshot
  <2>1. turns[t] \in Turn /\ generation + 1 \in Nat
    BY TurnIs DEF Good, Typed
  <2> QED
    BY <2>1 DEF Turn
<1>3. turns' = [turns EXCEPT ![t] = r]
  BY DEF StartsQuery
<1> HIDE DEF r
<1>4. /\ turns' \in Seq(Turn) /\ DOMAIN turns' = DOMAIN turns /\ turns'[t] = r
      /\ \A u \in DOMAIN turns \ {t} : turns'[u] = turns[u]
  BY <1>2, <1>3, ReplacedIs DEF Good
<1>5. /\ told' \in [1 .. MaxCommands -> Nat]
      /\ \A i \in DOMAIN told : told'[i] = IF i \in Handed(t) THEN told[i] + 1 ELSE told[i]
  BY <1>1 DEF Tell, Handed, Good, Typed
<1>6. Typed'
  <2>1. generation' \in Nat /\ crossed' \in BOOLEAN
    BY <1>1 DEF Good, Typed, Intrudes
  <2> QED
    BY <1>1, <1>4, <1>5, <2>1 DEF Good, Typed
<1>7. Handed(t) \subseteq 1 .. made /\ 1 .. made \subseteq DOMAIN told
  BY PromptsAssumption DEF Good, Placed, IdsFit, Typed
<1>8. InControl'
  <2>1. SUFFICES ASSUME ~crossed', NEW u \in DOMAIN turns', ~turns'[u].aborted
                 PROVE Controls(u)'
    BY DEF InControl
  <2>2. ~crossed /\ ~Intrudes(t)
    BY <1>1, <2>1
  <2>3. CASE u = t
    <3>1. ctl = t
      BY <1>1, <1>2, <1>4, <2>1, <2>2, <2>3 DEF Good, InControl, Controls
    <3> QED
      BY <1>1, <1>2, <1>4, <2>3, <3>1 DEF Controls, InInput
  <2>4. CASE u # t
    <3>1. Controls(u) /\ turns'[u] = turns[u] /\ u \in DOMAIN turns
      BY <1>4, <2>1, <2>2, <2>4 DEF Good, InControl
    <3>2. u \notin Querying /\ u \notin InInput
      BY <1>1, <2>2, <2>4, <3>1 DEF Controls, Intrudes
    <3> QED
      BY <3>1, <3>2 DEF Controls, Querying, InInput
  <2> QED
    BY <2>3, <2>4
<1>9. ASSUME NEW i \in DOMAIN told PROVE ToldGoes(i) /\ told'[i] >= told[i]
  <2>1. told[i] \in Nat
    BY DEF Good, Typed
  <2>2. CASE i \notin Handed(t)
    BY <1>5, <2>1, <2>2 DEF ToldGoes
  <2>3. CASE i \in Handed(t)
    <3>1. told'[i] = told[i] + 1 /\ i \in 1 .. made'
      BY <1>1, <1>5, <1>7, <2>3
    <3>2. \A u \in DOMAIN turns : turns'[u].aborted = turns[u].aborted
                                  /\ turns'[u].snapshot = turns[u].snapshot
                                  /\ turns'[u].cmds = turns[u].cmds
      BY <1>2, <1>4
    <3>3. Excused(i) => Excused(i)'
      BY <1>1, <1>4, <3>2 DEF Excused
    <3>4. CASE Excused(i)
      BY <2>1, <3>1, <3>3, <3>4 DEF ToldGoes
    <3>5. CASE ~Excused(i)
      <4>1. ~(told[i] > 0)
        BY <1>1, <2>3, <3>5 DEF Good, Placed, ToldApart, Gone
      <4>2. told'[i] = 1
        BY <2>1, <3>1, <4>1
      <4>3. i \notin Ids(queue')
        BY <1>1, <2>3 DEF Good, Placed, OnePlace
      <4>4. ASSUME NEW u \in InInput' PROVE i \notin Handed(u)'
        <5>1. u \in InInput /\ u # t /\ Handed(u)' = Handed(u)
          BY <1>2, <1>4 DEF InInput, Handed
        <5> QED
          BY <1>1, <2>3, <5>1 DEF Good, Placed, OnePlace
      <4>5. ASSUME NEW u \in Drains' PROVE i \notin Attaching(u)'
        <5>1. u \in Drains /\ Attaching(u)' = Attaching(u)
          BY <1>2, <1>4, <3>2 DEF Drains, Attaching
        <5> QED
          BY <1>1, <2>3, <3>5, <5>1 DEF Good, Placed, ToldApart
      <4>6. Gone(i)'
        BY <4>3, <4>4, <4>5 DEF Gone
      <4> QED
        BY <2>1, <3>1, <4>2, <4>6 DEF ToldGoes
    <3> QED
      BY <3>4, <3>5
  <2> QED
    BY <2>2, <2>3
<1>10. ASSUME NEW i \in Handed(t) PROVE Accounted(i)'
  <2>1. told'[i] = told[i] + 1 /\ told[i] \in Nat
    BY <1>5, <1>7 DEF Good, Typed
  <2> QED
    BY <2>1 DEF Accounted
<1>11. QueueGoes /\ ~\E i : IsNew(i)
  BY <1>1 DEF QueueGoes, IsNew, Good, Typed, Placed, OnePlace
<1> QED
  BY <1>1, <1>2, <1>4, <1>6, <1>8, <1>9, <1>10, <1>11, LeavesKept

\* The turn's commands are settled.
LEMMA SettlesKept ==
  ASSUME Good, NEW t \in DOMAIN turns,
         AnswersLocally(t) \/ LeavesNoMessage(t) \/ InputThrows(t)
  PROVE  Kept
<1>1. /\ t \in InInput /\ Becomes(t, "over") /\ settled' = settled \cup Handed(t)
      /\ UNCHANGED <<told, cleared, holder>>
  BY DEF AnswersLocally, LeavesNoMessage, InputThrows, InInput, Settle, Handed
<1>2. /\ turns' \in Seq(Turn) /\ DOMAIN turns' = DOMAIN turns
      /\ turns'[t].pc = "over" /\ turns'[t].cmds = turns[t].cmds
      /\ turns'[t].aborted = turns[t].aborted /\ turns'[t].snapshot = turns[t].snapshot
      /\ \A u \in DOMAIN turns \ {t} : turns'[u] = turns[u]
  BY <1>1, BecomesIs DEF Good
<1>3. /\ status' \in {"idle", "dispatching", "running"} /\ generation' \in Nat
      /\ ctl' \in {0, ctl} /\ crossed' \in BOOLEAN /\ (crossed => crossed')
  <2>1. CASE AnswersLocally(t)
    BY <2>1 DEF AnswersLocally, Good, Typed, Intrudes, Disarms
  <2>2. CASE LeavesNoMessage(t)
    BY <2>2 DEF LeavesNoMessage, CancelReservation, Good, Typed, Intrudes, Disarms
  <2>3. CASE InputThrows(t)
    BY <2>3 DEF InputThrows, CancelReservation, Good, Typed, Intrudes
  <2> QED
    BY <2>1, <2>2, <2>3
<1>4. InControl'
  <2>1. CASE AnswersLocally(t)
    <3>1. crossed' \/ (~crossed /\ ~Intrudes(t) /\ status # "running" /\ ctl' = 0)
      BY <2>1 DEF AnswersLocally, MayStart
    <3> QED
      BY <1>1, <1>2, <3>1, InputControl
  <2>2. CASE LeavesNoMessage(t)
    <3>1. crossed' \/ (~crossed /\ ~Intrudes(t) /\ ~Disarms(t) /\ ctl' = 0)
      BY <2>2 DEF LeavesNoMessage
    <3> QED
      BY <1>1, <1>2, <3>1, InputControl
  <2>3. CASE InputThrows(t)
    <3>1. crossed' \/ (~crossed /\ ~Intrudes(t) /\ status' = CancelReservation(status) /\ ctl' = ctl)
      BY <2>3 DEF InputThrows
    <3> QED
      BY <1>1, <1>2, <3>1, InputControl
  <2> QED
    BY <2>1, <2>2, <2>3
<1>5. /\ queue' \in Seq(Command) /\ QueueGoes /\ (\A c \in Range(queue) : c \in Range(queue'))
      /\ made' \in {made, made + 1} /\ made' <= MaxCommands
      /\ \A i : IsNew(i) => i \in Ids(queue')
  <2>1. CASE UNCHANGED <<queue, made>>
    BY <2>1 DEF QueueGoes, IsNew, Good, Typed, Placed, OnePlace
  <2>2. CASE made < MaxCommands /\ made' = made + 1 /\ Enqueue(NewCommand("prompt"))
    <3>1. NewCommand("prompt") \in Command /\ NewCommand("prompt").id = made + 1
      BY NewCommandIs DEF AllKinds
    <3>2. queue' = Append(queue, NewCommand("prompt"))
      BY <2>2 DEF Enqueue, Queue
    <3>3. made \in Nat /\ MaxCommands \in Nat
      BY PromptsAssumption DEF Good, Typed
    <3>4. \A d \in Range(queue) : d.id # NewCommand("prompt").id
      BY <3>1, <3>3 DEF Good, Placed, IdsFit, Ids
    <3>5. /\ queue' \in Seq(Command) /\ Unique(queue')
          /\ Range(queue') = Range(queue) \cup {NewCommand("prompt")}
      BY <3>1, <3>2, <3>4, Appended DEF Good, Typed, Placed, OnePlace
    <3>6. QueueGoes
      BY <2>2, <3>1, <3>5 DEF QueueGoes, IsNew
    <3>7. \A i : IsNew(i) => i \in Ids(queue')
      BY <3>1, <3>5 DEF IsNew, Ids
    <3> QED
      BY <2>2, <3>3, <3>5, <3>6, <3>7
  <2> QED
    BY <2>1, <2>2 DEF AnswersLocally, LeavesNoMessage, InputThrows, Chains
<1>6. Typed'
  <2>1. made' \in 0 .. MaxCommands /\ 1 .. made \subseteq 1 .. made'
    BY <1>5, PromptsAssumption DEF Good, Typed
  <2>2. settled' \cup cleared' \subseteq 1 .. made'
    BY <1>1, <2>1 DEF Good, Typed, Placed, IdsFit
  <2> QED
    BY <1>1, <1>2, <1>3, <1>5, <2>1, <2>2 DEF Good, Typed
<1>7. \A i \in DOMAIN told : ToldGoes(i) /\ told'[i] >= told[i]
  BY <1>1, ToldSame DEF ToldGoes, Good
<1>8. \A i \in Handed(t) : Accounted(i)'
  BY <1>1 DEF Accounted
<1> QED
  BY <1>1, <1>2, <1>3, <1>4, <1>5, <1>6, <1>7, <1>8, LeavesKept

\* Nothing changes but what the effect has seen and what the user has done.
LEMMA SameKept ==
  ASSUME Good, UNCHANGED <<queue, status, generation, turns, ctl, made, told, settled, cleared, holder, crossed>>
  PROVE  Kept
<1>1. QueueGoes /\ queue' \in Seq(Command)
  BY DEF QueueGoes, Good, Typed, Placed, OnePlace
<1>2. made' \in {made, made + 1} /\ made' <= MaxCommands /\ ~IsNew(made + 1)
      /\ settled' \cup cleared' \subseteq 1 .. made'
  BY PromptsAssumption DEF IsNew, Good, Typed
<1> QED
  BY <1>1, <1>2, QueueKept

LEMMA SubmitKept ==
  ASSUME Good, NEW kind, Submit(kind)
  PROVE  Kept
<1>1. /\ kind \in AllKinds /\ made < MaxCommands /\ made' = made + 1
      /\ made \in Nat /\ MaxCommands \in Nat
  BY PromptsAssumption DEF Submit, AllKinds, Good, Typed
<1>2. NewCommand(kind) \in Command /\ NewCommand(kind).id = made + 1
  BY <1>1, NewCommandIs
<1>3. CASE ~IsActive /\ Begin(<<NewCommand(kind)>>) /\ queue' = queue
  <2> DEFINE cmds == <<NewCommand(kind)>>
  <2>1. cmds \in Seq(Command) /\ Unique(cmds) /\ Ids(cmds) = {made + 1}
    BY <1>2 DEF Unique, Ids, Range
  <2>2. made + 1 \notin Ids(queue) /\ Unique(queue) /\ queue \in Seq(Command)
    BY <1>1 DEF Good, Typed, Placed, IdsFit, OnePlace
  <2> HIDE DEF cmds
  <2>3. Begin(cmds)
    BY <1>3 DEF cmds
  <2>4. \A i \in Ids(cmds) : (i \in Ids(queue) \/ IsNew(i)) /\ i \notin Ids(queue')
    BY <1>1, <1>3, <2>1, <2>2 DEF IsNew
  <2> QED
    BY <1>1, <1>3, <2>1, <2>2, <2>3, <2>4, BeginKept
<1>4. CASE /\ Enqueue(NewCommand(kind))
           /\ turns' = turns \/ (ctl # 0 /\ turns' = AbortOf(ctl))
           /\ UNCHANGED <<status, generation, ctl, acts, told, settled, cleared, holder, crossed>>
  BY <1>1, <1>2, <1>4, EnqueueKept
<1> QED
  BY <1>3, <1>4 DEF Submit

LEMMA NotifyKept ==
  ASSUME Good, NEW kind, Notify(kind)
  PROVE  Kept
<1>1. kind \in AllKinds
  BY DEF Notify, AllKinds
<1>2. NewCommand(kind) \in Command /\ NewCommand(kind).id = made + 1
  BY <1>1, NewCommandIs
<1> QED
  BY <1>2, EnqueueKept DEF Notify

LEMMA IncomingKept ==
  ASSUME Good, NEW kind, Incoming(kind)
  PROVE  Kept
<1>1. /\ made' = made + 1 /\ made < MaxCommands /\ made \in Nat /\ MaxCommands \in Nat
      /\ status = "idle" /\ status' = "running"
      /\ generation' = generation + 1 /\ told' = [told EXCEPT ![made'] = 1]
      /\ UNCHANGED <<queue, settled, cleared, holder, crossed>>
  BY PromptsAssumption DEF Incoming, IsActive, Good, Typed
<1> PICK n : n = Len(turns) + 1
  OBVIOUS
<1> DEFINE r == [NoTurn EXCEPT !.pc = "query", !.gen = generation']
<1>2. r \in Turn /\ r.pc = "query" /\ r.cmds = <<>> /\ r.snapshot = <<>>
  <2>1. <<>> \in Seq(Command) /\ generation' \in Nat
    BY <1>1, EmptySeq DEF Good, Typed
  <2> QED
    BY <2>1 DEF NoTurn, Turn
<1>3. turns' = Append(turns, r) /\ ctl' = n
  BY DEF Incoming
<1> HIDE DEF r
<1>4. /\ turns' \in Seq(Turn) /\ n \notin DOMAIN turns
      /\ DOMAIN turns' = DOMAIN turns \cup {n} /\ turns'[n] = r
      /\ \A u \in DOMAIN turns : turns'[u] = turns[u]
  BY <1>2, <1>3, JoinedIs DEF Good
<1>5. made' \in 1 .. MaxCommands /\ told \in [1 .. MaxCommands -> Nat]
  BY <1>1 DEF Good, Typed
<1>6. /\ told' \in [1 .. MaxCommands -> Nat] /\ told'[made'] = 1 /\ told[made'] = 0
      /\ \A i \in DOMAIN told : i = made' \/ told'[i] = told[i]
  <2>1. told[made'] = 0
    BY <1>1, <1>5 DEF Good, Placed, IdsFit
  <2> QED
    BY <1>1, <1>5, <2>1
<1>7. Typed'
  <2>1. generation' \in Nat /\ made' \in 0 .. MaxCommands /\ settled' \cup cleared' \subseteq 1 .. made'
    BY <1>1 DEF Good, Typed
  <2> QED
    BY <1>1, <1>3, <1>4, <1>6, <2>1 DEF Good, Typed
<1> PICK m : m = made'
  OBVIOUS
<1>8. Gone(m)'
  <2>1. m \notin 1 .. made
    BY <1>1
  <2>3. m \notin Ids(queue')
    BY <1>1, <2>1 DEF Good, Placed, IdsFit
  <2>4. ASSUME NEW u \in InInput' PROVE m \notin Handed(u)'
    <3>1. u \in DOMAIN turns /\ Handed(u)' = Handed(u)
      BY <1>2, <1>4 DEF InInput, Handed
    <3> QED
      BY <2>1, <3>1 DEF Good, Placed, IdsFit
  <2>5. ASSUME NEW u \in Drains' PROVE m \notin Attaching(u)'
    <3>1. u \in DOMAIN turns /\ Attaching(u)' = Attaching(u)
      BY <1>2, <1>4 DEF Drains, Attaching
    <3>2. Attaching(u) \subseteq Ids(turns[u].snapshot)
      BY <3>1, InlineIs, TurnIs DEF Attaching, Good, Typed
    <3> QED
      BY <2>1, <3>1, <3>2 DEF Good, Placed, IdsFit
  <2> QED
    BY <2>3, <2>4, <2>5 DEF Gone
<1>9. MoveStep
  <2>1. QueueGoes
    BY <1>1 DEF QueueGoes, Good, Placed, OnePlace
  <2>2. \A u \in DOMAIN turns : TurnGoes(u)
    BY <1>4 DEF TurnGoes
  <2>3. TurnComes(n)
    BY <1>1, <1>2, <1>4 DEF TurnComes, IsActive, Unique, Ids, Range
  <2>4. ASSUME NEW i \in DOMAIN told PROVE ToldGoes(i)
    <3>1. CASE i = m
      BY <1>1, <1>5, <1>6, <1>8, <3>1 DEF ToldGoes
    <3>2. CASE i # m
      BY <1>6, <3>2 DEF ToldGoes
    <3> QED
      BY <3>1, <3>2
  <2> QED
    BY <1>1, <1>4, <2>1, <2>2, <2>3, <2>4 DEF MoveStep
<1>10. InControl'
  <2>1. crossed \/ \A u \in DOMAIN turns : turns[u].aborted \/ u \notin Querying \cup InInput
    BY <1>1 DEF Good, InControl, Controls
  <2>2. Controls(n)'
    BY <1>1, <1>2, <1>3, <1>4 DEF Controls, InInput
  <2>3. ASSUME NEW u \in DOMAIN turns, u \notin Querying \cup InInput
        PROVE  Controls(u)'
    BY <1>4, <2>3 DEF Controls, Querying, InInput
  <2> QED
    BY <1>1, <1>4, <2>1, <2>2, <2>3 DEF InControl
<1>11. NothingLost'
  <2>1. \A i : IsNew(i) => Accounted(i)'
    BY <1>1, <1>6 DEF IsNew, Accounted
  <2>2. \A i \in Ids(queue) : Accounted(i)'
    BY <1>1 DEF Accounted
  <2>3. \A u \in InInput : u \in InInput'
    BY <1>4 DEF InInput
  <2>4. \A i \in DOMAIN told : told'[i] >= told[i]
    BY <1>5, <1>6
  <2> QED
    BY <1>1, <1>7, <1>9, <2>1, <2>2, <2>3, <2>4, StillAccounted
<1> QED
  BY <1>7, <1>9, <1>10, <1>11 DEF Kept

LEMMA ProcessKept ==
  ASSUME Good, Process
  PROVE  Kept
<1>1. CASE UNCHANGED <<queue, status, generation, turns, ctl, acts, told, settled, cleared, holder, crossed>>
  <2>1. made' = made
    BY DEF Process
  <2> QED
    BY <1>1, <2>1, SameKept
<1>2. CASE /\ ~IsActive /\ queue' = Without(queue, TakenBetween(queue)) /\ made' = made
           /\ Begin(TakenBetween(queue))
  <2> DEFINE cmds == TakenBetween(queue)
  <2>1. queue \in Seq(Command) /\ Unique(queue) /\ made \in Nat /\ made <= MaxCommands
    BY PromptsAssumption DEF Good, Typed, Placed, OnePlace
  <2>2. cmds \in Seq(Command) /\ Unique(cmds) /\ Range(cmds) \subseteq Range(queue)
    BY <2>1, TakenIs
  <2> HIDE DEF cmds
  <2>3. queue' = Without(queue, cmds) /\ Begin(cmds)
    BY <1>2 DEF cmds
  <2>4. queue' \in Seq(Command) /\ Unique(queue') /\ Range(queue') = Range(queue) \ Range(cmds)
    BY <2>1, <2>3, WithoutIs
  <2>5. \A i \in Ids(cmds) : i \in Ids(queue) /\ i \notin Ids(queue')
    <3>1. ASSUME NEW d \in Range(cmds) PROVE d.id \in Ids(queue) /\ d.id \notin Ids(queue')
      <4>1. d \in Range(queue)
        BY <2>2
      <4>2. ASSUME NEW c \in Range(queue'), c.id = d.id PROVE FALSE
        <5>1. c \in Range(queue) /\ c # d
          BY <2>4
        <5> QED
          BY <2>1, <4>1, <4>2, <5>1 DEF Unique, Range
      <4> QED
        BY <4>1, <4>2 DEF Ids
    <3> QED
      BY <3>1 DEF Ids
  <2>6. \A i \in Ids(queue) : i \in Ids(queue') \/ i \in Ids(cmds)
    BY <2>4 DEF Ids
  <2>7. ~IsNew(made + 1)
    BY <1>2, <2>1 DEF IsNew
  <2> QED
    BY <1>2, <2>1, <2>2, <2>3, <2>4, <2>5, <2>6, <2>7, BeginKept
<1> QED
  BY <1>1, <1>2 DEF Process

LEMMA DrainBeginsKept ==
  ASSUME Good, NEW t \in DOMAIN turns, DrainBegins(t)
  PROVE  Kept
<1>1. PICK rank \in {1, 2} :
        turns' = [turns EXCEPT ![t].pc = "drain", ![t].snapshot = Snapshot(queue, rank)]
  BY DEF DrainBegins
<1>2. /\ turns[t].pc = "query" /\ ~turns[t].aborted
      /\ UNCHANGED <<queue, status, generation, ctl, made, told, settled, cleared, holder, crossed>>
  BY DEF DrainBegins
<1> DEFINE s == Snapshot(queue, rank)
           r == [turns[t] EXCEPT !.pc = "drain", !.snapshot = s]
<1>3. s \in Seq(Command) /\ Range(s) \subseteq Range(queue)
  <2> DEFINE S == {c \in Range(queue) : ForMain(c) /\ ~IsSlash(c) /\ Rank(c) <= rank}
  <2>1. s = Only(queue, S)
    BY DEF Snapshot
  <2> HIDE DEF S, s
  <2> QED
    BY <2>1, OnlyIs DEF Good, Typed
<1>4. turns' = [turns EXCEPT ![t] = r]
  BY <1>1
<1> HIDE DEF s
<1>5. /\ r \in Turn /\ r.pc = "drain" /\ r.cmds = turns[t].cmds
      /\ r.aborted = turns[t].aborted /\ r.snapshot = s
  <2>1. turns[t] \in Turn
    BY TurnIs DEF Good, Typed
  <2> QED
    BY <1>3, <2>1 DEF Turn
<1> HIDE DEF r
<1>6. /\ turns' \in Seq(Turn) /\ DOMAIN turns' = DOMAIN turns /\ turns'[t] = r
      /\ \A u \in DOMAIN turns \ {t} : turns'[u] = turns[u]
  BY <1>4, <1>5, ReplacedIs DEF Good
<1>7. Typed'
  BY <1>2, <1>6 DEF Good, Typed
<1>8. MoveStep
  <2>1. QueueGoes
    BY <1>2 DEF QueueGoes, Good, Placed, OnePlace
  <2>2. TurnGoes(t)
    BY <1>2, <1>3, <1>5, <1>6 DEF TurnGoes
  <2>3. \A u \in DOMAIN turns \ {t} : TurnGoes(u)
    BY <1>6 DEF TurnGoes
  <2>4. \A i \in DOMAIN told : ToldGoes(i)
    BY <1>2 DEF ToldGoes
  <2> QED
    BY <1>2, <1>6, <2>1, <2>2, <2>3, <2>4 DEF MoveStep
<1>9. InControl'
  BY <1>2, <1>5, <1>6 DEF Good, InControl, Controls, Querying, InInput
<1>10. NothingLost'
  <2>1. \A u \in InInput : u \in InInput'
    BY <1>2, <1>6 DEF InInput
  <2>2. ~\E i : IsNew(i)
    BY <1>2 DEF IsNew, Good, Typed
  <2>3. \A i \in Ids(queue) : Accounted(i)'
    BY <1>2 DEF Accounted
  <2>4. \A i \in DOMAIN told : told'[i] >= told[i]
    BY <1>2, ToldSame DEF Good
  <2> QED
    BY <1>2, <1>7, <1>8, <2>1, <2>2, <2>3, <2>4, StillAccounted
<1> QED
  BY <1>7, <1>8, <1>9, <1>10 DEF Kept

\* The query has attached the commands.  Those it removes are the ones it told to the
\* model, since what is in the queue under their identifiers is what was in the snapshot.
LEMMA DrainEndsKept ==
  ASSUME Good, NEW t \in DOMAIN turns, DrainEnds(t)
  PROVE  Kept
<1> DEFINE taken == Inline(turns[t].snapshot)
<1>1. /\ turns[t].pc = "drain" /\ Becomes(t, "query") /\ Tell(taken)
      /\ queue' = Without(queue, taken)
      /\ UNCHANGED <<status, generation, ctl, made, settled, cleared, holder, crossed>>
  BY DEF DrainEnds, Queue, Consumed
<1>2. t \in Drains /\ Ids(taken) = Attaching(t) /\ Attaching(t) \subseteq Ids(turns[t].snapshot)
  BY <1>1, InlineIs, TurnIs DEF Drains, Attaching, Good, Typed
<1> HIDE DEF taken
<1>3. /\ turns' \in Seq(Turn) /\ DOMAIN turns' = DOMAIN turns
      /\ turns'[t].pc = "query" /\ turns'[t].cmds = turns[t].cmds
      /\ turns'[t].aborted = turns[t].aborted /\ turns'[t].snapshot = turns[t].snapshot
      /\ \A u \in DOMAIN turns \ {t} : turns'[u] = turns[u]
  BY <1>1, BecomesIs DEF Good
<1>4. /\ queue' \in Seq(Command) /\ Range(queue') = Range(queue) \ Range(taken)
      /\ Unique(queue')
  BY <1>1, WithoutIs DEF Good, Typed, Placed, OnePlace
<1>5. /\ told' \in [1 .. MaxCommands -> Nat]
      /\ \A i \in DOMAIN told : told'[i] = IF i \in Attaching(t) THEN told[i] + 1 ELSE told[i]
  BY <1>1, <1>2 DEF Tell, Good, Typed
<1>6. Typed'
  BY <1>1, <1>3, <1>4, <1>5 DEF Good, Typed
<1>7. Attaching(t) \subseteq 1 .. made /\ 1 .. made \subseteq DOMAIN told
  BY <1>2, PromptsAssumption DEF Good, Placed, IdsFit, Typed
<1>8. ASSUME NEW i \in DOMAIN told PROVE ToldGoes(i) /\ told'[i] >= told[i]
  <2>1. told[i] \in Nat
    BY DEF Good, Typed
  <2>2. CASE i \notin Attaching(t)
    BY <1>5, <2>1, <2>2 DEF ToldGoes
  <2>3. CASE i \in Attaching(t)
    <3>1. told'[i] = told[i] + 1 /\ i \in 1 .. made'
      BY <1>1, <1>5, <1>7, <2>3
    <3>2. \A u \in DOMAIN turns : turns'[u].aborted = turns[u].aborted
                                  /\ turns'[u].snapshot = turns[u].snapshot
                                  /\ turns'[u].cmds = turns[u].cmds
      BY <1>3
    <3>3. Excused(i) => Excused(i)'
      BY <1>1, <1>3, <3>2 DEF Excused
    <3>4. CASE Excused(i)
      BY <2>1, <3>1, <3>3, <3>4 DEF ToldGoes
    <3>5. CASE ~Excused(i)
      <4>1. ~(told[i] > 0)
        BY <1>2, <2>3, <3>5 DEF Good, Placed, ToldApart, Gone
      <4>2. told'[i] = 1
        BY <2>1, <3>1, <4>1
      <4>3. i \notin Ids(queue')
        <5>1. PICK d \in Range(taken) : d.id = i
          BY <1>2, <2>3 DEF Ids
        <5>2. ASSUME NEW c \in Range(queue'), c.id = i PROVE FALSE
          <6>1. c \in Range(queue) /\ c \notin Range(taken)
            BY <1>4
          <6>2. c = d \/ Excused(c.id)
            BY <1>2, <5>1, <5>2, <6>1 DEF Good, Placed, ToldApart, taken
          <6> QED
            BY <3>5, <5>1, <5>2, <6>1, <6>2
        <5> QED
          BY <5>2 DEF Ids
      <4>4. ASSUME NEW u \in InInput' PROVE i \notin Handed(u)'
        <5>1. u \in InInput /\ Handed(u)' = Handed(u)
          BY <1>3 DEF InInput, Handed
        <5> QED
          BY <1>2, <2>3, <3>5, <5>1 DEF Good, Placed, ToldApart
      <4>5. ASSUME NEW u \in Drains' PROVE i \notin Attaching(u)'
        <5>1. u \in Drains /\ u # t /\ Attaching(u)' = Attaching(u)
              /\ Attaching(u) \subseteq Ids(turns[u].snapshot)
          BY <1>3, <3>2, InlineIs, TurnIs DEF Drains, Attaching, Good, Typed
        <5>2. turns[t].aborted \/ turns[u].aborted \/ crossed
          <6>1. t \in Querying /\ u \in Querying
            BY <1>2, <5>1 DEF Drains, Querying
          <6> QED
            BY <5>1, <6>1 DEF Good, InControl, Controls, Querying
        <5>3. i \in Attaching(u) => Excused(i)
          BY <1>2, <2>3, <5>1, <5>2 DEF Excused, Drains
        <5> QED
          BY <3>5, <5>1, <5>3
      <4>6. Gone(i)'
        BY <4>3, <4>4, <4>5 DEF Gone
      <4> QED
        BY <2>1, <3>1, <4>2, <4>6 DEF ToldGoes
    <3> QED
      BY <3>4, <3>5
  <2> QED
    BY <2>2, <2>3
<1>9. MoveStep
  <2>1. QueueGoes
    BY <1>4 DEF QueueGoes
  <2>2. TurnGoes(t)
    BY <1>1, <1>3 DEF TurnGoes
  <2>3. \A u \in DOMAIN turns \ {t} : TurnGoes(u)
    BY <1>3 DEF TurnGoes
  <2> QED
    BY <1>1, <1>3, <1>8, <2>1, <2>2, <2>3 DEF MoveStep
<1>10. \A i \in Ids(queue) : Accounted(i)'
  <2>1. SUFFICES ASSUME NEW c \in Range(queue) PROVE Accounted(c.id)'
    <3>1. ASSUME NEW i \in Ids(queue) PROVE Accounted(i)'
      <4>1. PICK c \in Range(queue) : c.id = i
        BY DEF Ids
      <4> QED
        BY <2>1, <4>1
    <3> QED
      BY <3>1
  <2>2. CASE c \in Range(taken)
    <3>1. c.id \in Attaching(t) /\ told[c.id] \in Nat /\ c.id \in DOMAIN told
      <4>1. c.id \in Attaching(t)
        BY <1>2, <2>2 DEF Ids
      <4> QED
        BY <1>7, <4>1 DEF Good, Typed
    <3>2. told'[c.id] > 0
      BY <1>5, <3>1
    <3> QED
      BY <3>2 DEF Accounted
  <2>3. CASE c \notin Range(taken)
    BY <1>4, <2>3 DEF Accounted, Ids
  <2> QED
    BY <2>2, <2>3
<1>11. NothingLost'
  <2>1. \A u \in InInput : u \in InInput'
    BY <1>1, <1>3 DEF InInput
  <2>2. ~\E i : IsNew(i)
    BY <1>1 DEF IsNew, Good, Typed
  <2> QED
    BY <1>1, <1>6, <1>8, <1>9, <1>10, <2>1, <2>2, StillAccounted
<1>12. InControl'
  BY <1>1, <1>3 DEF Good, InControl, Controls, Querying, InInput
<1> QED
  BY <1>6, <1>9, <1>11, <1>12 DEF Kept

LEMMA QueryEndsKept ==
  ASSUME Good, NEW t \in DOMAIN turns, QueryEnds(t)
  PROVE  Kept
<1>1. /\ turns[t].pc = "query" /\ Becomes(t, "over")
      /\ UNCHANGED <<queue, generation, made, told, settled, cleared, holder>>
  BY DEF QueryEnds
<1>2. /\ turns' \in Seq(Turn) /\ DOMAIN turns' = DOMAIN turns
      /\ turns'[t].pc = "over" /\ turns'[t].cmds = turns[t].cmds
      /\ turns'[t].aborted = turns[t].aborted /\ turns'[t].snapshot = turns[t].snapshot
      /\ \A u \in DOMAIN turns \ {t} : turns'[u] = turns[u]
  BY <1>1, BecomesIs DEF Good
<1>3. /\ status' \in {"idle", "dispatching", "running"} /\ ctl' \in {0, ctl}
      /\ crossed' \in BOOLEAN /\ (crossed => crossed')
  <2>1. CASE IsCurrent(t)
    BY <2>1 DEF QueryEnds, Good, Typed, Disarms
  <2>2. CASE ~IsCurrent(t)
    BY <2>2 DEF QueryEnds, Good, Typed, CancelReservation, Intrudes
  <2> QED
    BY <2>1, <2>2
<1>4. Typed'
  BY <1>1, <1>2, <1>3 DEF Good, Typed
<1>5. MoveStep
  <2>1. QueueGoes
    BY <1>1 DEF QueueGoes, Good, Placed, OnePlace
  <2>2. TurnGoes(t)
    BY <1>1, <1>2 DEF TurnGoes
  <2>3. \A u \in DOMAIN turns \ {t} : TurnGoes(u)
    BY <1>2 DEF TurnGoes
  <2>4. \A i \in DOMAIN told : ToldGoes(i)
    BY <1>1 DEF ToldGoes
  <2> QED
    BY <1>1, <1>2, <1>3, <2>1, <2>2, <2>3, <2>4 DEF MoveStep
<1>6. InControl'
  <2>1. SUFFICES ASSUME ~crossed', NEW u \in DOMAIN turns', ~turns'[u].aborted
                 PROVE Controls(u)'
    BY DEF InControl
  <2>2. CASE u = t
    BY <1>2, <2>2 DEF Controls, Querying, InInput
  <2>3. CASE u # t
    <3>1. u \in DOMAIN turns /\ turns'[u] = turns[u] /\ Controls(u)
      BY <1>2, <1>3, <2>1, <2>3 DEF Good, InControl
    <3>2. CASE u \in Querying
      <4>1. status = "running" /\ ctl = u /\ ctl # 0
        BY <3>1, <3>2, LenProperties DEF Controls, Good, Typed
      <4>2. ~IsCurrent(t)
        BY <2>1, <2>3, <4>1 DEF QueryEnds, Disarms
      <4>3. status' = "running" /\ ctl' = ctl
        BY <4>1, <4>2 DEF QueryEnds, CancelReservation
      <4> QED
        BY <3>1, <3>2, <4>1, <4>3 DEF Controls, Querying, InInput
    <3>3. CASE u \in InInput
      <4>1. status = "dispatching" /\ ctl = u /\ holder = u
        BY <3>1, <3>3 DEF Controls
      <4>2. ~IsCurrent(t) /\ Intrudes(t)
        BY <2>3, <4>1 DEF IsCurrent, Intrudes
      <4>3. status' = "dispatching" /\ ctl' = ctl
        BY <2>1, <4>1, <4>2 DEF QueryEnds
      <4> QED
        BY <1>1, <3>1, <3>3, <4>1, <4>3 DEF Controls, Querying, InInput
    <3>4. CASE u \notin Querying /\ u \notin InInput
      BY <3>1, <3>4 DEF Controls, Querying, InInput
    <3> QED
      BY <3>2, <3>3, <3>4
  <2> QED
    BY <2>2, <2>3
<1>7. NothingLost'
  <2>1. \A u \in InInput : u \in InInput'
    BY <1>1, <1>2 DEF InInput
  <2>2. ~\E i : IsNew(i)
    BY <1>1 DEF IsNew, Good, Typed
  <2>3. \A i \in Ids(queue) : Accounted(i)'
    BY <1>1 DEF Accounted
  <2>4. \A i \in DOMAIN told : told'[i] >= told[i]
    BY <1>1, ToldSame DEF Good
  <2> QED
    BY <1>1, <1>4, <1>5, <2>1, <2>2, <2>3, <2>4, StillAccounted
<1> QED
  BY <1>4, <1>5, <1>6, <1>7 DEF Kept

LEMMA CancelKept ==
  ASSUME Good, Cancel
  PROVE  Kept
<1>1. /\ ctl \in DOMAIN turns /\ ~turns[ctl].aborted /\ turns' = AbortOf(ctl)
      /\ status' = "idle" /\ ctl' = 0 /\ generation' \in Nat
      /\ UNCHANGED <<queue, made, told, settled, cleared, holder, crossed>>
  BY DEF Cancel, Good, Typed
<1>2. /\ turns' \in Seq(Turn) /\ DOMAIN turns' = DOMAIN turns
      /\ \A u \in DOMAIN turns :
           /\ turns'[u].pc = turns[u].pc /\ turns'[u].cmds = turns[u].cmds
           /\ turns'[u].snapshot = turns[u].snapshot
           /\ turns[u].aborted => turns'[u].aborted
  BY AbortedIs DEF Cancel, Good
<1>3. Typed'
  BY <1>1, <1>2 DEF Good, Typed
<1>4. MoveStep
  <2>1. QueueGoes
    BY <1>1 DEF QueueGoes, Good, Placed, OnePlace
  <2>2. \A u \in DOMAIN turns : TurnGoes(u)
    BY <1>2 DEF TurnGoes
  <2> QED
    BY <1>1, <1>2, <2>1, <2>2 DEF MoveStep, ToldGoes
<1>5. turns'[ctl].aborted
  <2>1. turns[ctl] \in Turn
    BY <1>1, TurnIs DEF Good, Typed
  <2> QED
    BY <1>1, <2>1 DEF AbortOf, Turn
<1>6. InControl'
  <2>1. SUFFICES ASSUME ~crossed', NEW u \in DOMAIN turns', ~turns'[u].aborted
                 PROVE Controls(u)'
    BY DEF InControl
  <2>2. u \in DOMAIN turns /\ u # ctl /\ ~turns[u].aborted /\ ~crossed
    BY <1>1, <1>2, <1>5, <2>1
  <2>3. u \notin Querying /\ u \notin InInput
    BY <2>2 DEF Good, InControl, Controls
  <2> QED
    BY <1>2, <2>2, <2>3 DEF Controls, Querying, InInput
<1>7. NothingLost'
  <2>1. \A u \in InInput : u \in InInput'
    BY <1>2 DEF InInput
  <2>2. ~\E i : IsNew(i)
    BY <1>1 DEF IsNew, Good, Typed
  <2>3. \A i \in Ids(queue) : Accounted(i)'
    BY <1>1 DEF Accounted
  <2>4. \A i \in DOMAIN told : told'[i] >= told[i]
    BY <1>1, ToldSame DEF Good
  <2> QED
    BY <1>1, <1>3, <1>4, <2>1, <2>2, <2>3, <2>4, StillAccounted
<1> QED
  BY <1>3, <1>4, <1>6, <1>7 DEF Kept

\* Commands leave the queue and are settled.
LEMMA RemovalKept ==
  ASSUME Good, NEW taken, queue' = Without(queue, taken),
         Range(taken) \subseteq Range(queue), settled' = settled \cup Ids(taken),
         turns' = turns \/ (ctl # 0 /\ turns' = AbortOf(ctl)),
         UNCHANGED <<status, generation, ctl, made, told, cleared, holder, crossed>>
  PROVE  Kept
<1>1. /\ queue' \in Seq(Command) /\ Range(queue') = Range(queue) \ Range(taken)
      /\ Unique(queue')
  BY WithoutIs DEF Good, Typed, Placed, OnePlace
<1>2. QueueGoes
  BY <1>1 DEF QueueGoes
<1>3. \A i \in Ids(queue) : i \in Ids(queue') \/ i \in settled'
  BY <1>1 DEF Ids
<1>4. Ids(taken) \subseteq Ids(queue)
  BY DEF Ids
<1>5. /\ made' \in {made, made + 1} /\ made' <= MaxCommands /\ ~IsNew(made + 1)
      /\ settled \subseteq settled' /\ settled' \cup cleared' \subseteq 1 .. made'
  <2>1. /\ made' = made /\ made \in Nat /\ made <= MaxCommands /\ MaxCommands \in Nat
        /\ settled \cup cleared \subseteq 1 .. made /\ Ids(queue) \subseteq 1 .. made
    BY PromptsAssumption DEF Good, Typed, Placed, IdsFit
  <2>2. settled' \cup cleared' \subseteq 1 .. made
    BY <1>4, <2>1
  <2> QED
    BY <2>1, <2>2 DEF IsNew
<1> QED
  BY <1>1, <1>2, <1>3, <1>5, QueueKept

LEMMA UserKept ==
  ASSUME Good, TakeBack \/ KillAgents \/ Background \/ AgentTakes
  PROVE  Kept
<1>1. queue \in Seq(Command) /\ Unique(queue) /\ made \in Nat /\ MaxCommands \in Nat
      /\ Ids(queue) \cup settled \cup cleared \subseteq 1 .. made /\ made <= MaxCommands
  BY PromptsAssumption DEF Good, Typed, Placed, OnePlace, IdsFit
<1>2. CASE TakeBack
  <2>1. Range(EditableOf(queue)) \subseteq Range(queue)
    <3>1. EditableOf(queue) = Only(queue, {c \in Range(queue) : Editable(c)})
      BY DEF EditableOf
    <3> QED
      BY <1>1, <3>1, OnlyIs
  <2>2. /\ queue' = Without(queue, EditableOf(queue))
        /\ settled' = settled \cup Ids(EditableOf(queue)) /\ turns' = turns
        /\ UNCHANGED <<status, generation, ctl, made, told, cleared, holder, crossed>>
    BY <1>2 DEF TakeBack, Queue, Settle
  <2> QED
    BY <2>1, <2>2, RemovalKept
<1>3. CASE Background
  <2>1. Range(NotesOf(queue)) \subseteq Range(queue)
    <3>1. NotesOf(queue) = Only(queue, {c \in Range(queue) : Mode(c) = "task-notification"})
      BY DEF NotesOf
    <3> QED
      BY <1>1, <3>1, OnlyIs
  <2>2. /\ queue' = Without(queue, NotesOf(queue))
        /\ settled' = settled \cup Ids(NotesOf(queue)) /\ ctl # 0 /\ turns' = AbortOf(ctl)
        /\ UNCHANGED <<status, generation, ctl, made, told, cleared, holder, crossed>>
    BY <1>3 DEF Background, Queue, Settle
  <2> QED
    BY <2>1, <2>2, RemovalKept
<1>4. CASE KillAgents
  <2>1. NewCommand("note") \in Command /\ NewCommand("note").id = made + 1
    BY NewCommandIs DEF AllKinds
  <2>2. /\ made < MaxCommands /\ made' = made + 1 /\ cleared' = cleared \cup Ids(queue)
        /\ queue' = <<NewCommand("note")>> /\ turns' = turns
        /\ UNCHANGED <<status, generation, ctl, told, settled, holder, crossed>>
    BY <1>4 DEF KillAgents, Queue, Settle
  <2>3. queue' \in Seq(Command) /\ Range(queue') = {NewCommand("note")} /\ Unique(queue')
    BY <2>1, <2>2 DEF Range, Unique
  <2>4. QueueGoes /\ (IsNew(made + 1) => made + 1 \in Ids(queue'))
    BY <2>1, <2>2, <2>3 DEF QueueGoes, IsNew, Ids
  <2>5. settled' \cup cleared' \subseteq 1 .. made' /\ made' <= MaxCommands
    <3>1. 1 .. made \subseteq 1 .. made' /\ made' <= MaxCommands
      BY <1>1, <2>2
    <3> QED
      BY <1>1, <2>2, <3>1
  <2> QED
    BY <2>2, <2>3, <2>4, <2>5, QueueKept
<1>5. CASE AgentTakes
  <2> DEFINE S == {c \in Range(queue) : ForMain(c)}
             gone == {c.id : c \in {d \in Range(queue) : ~ForMain(d)}}
  <2>1. /\ queue' = Only(queue, S) /\ settled' = settled \cup gone
        /\ UNCHANGED <<status, generation, turns, ctl, made, told, cleared, holder, crossed>>
    BY <1>5 DEF AgentTakes, Queue
  <2>2. gone \subseteq Ids(queue) /\ \A c \in Range(queue) : c \in S \/ c.id \in gone
    BY DEF Ids
  <2>3. S \subseteq Range(queue)
    OBVIOUS
  <2> HIDE DEF S, gone
  <2>4. queue' \in Seq(Command) /\ Range(queue') = S /\ Unique(queue')
    <3>1. /\ queue' \in Seq(Command) /\ Range(queue') = Range(queue) \cap S
          /\ Unique(queue) => Unique(queue')
      BY <1>1, <2>1, OnlyIs
    <3> QED
      BY <1>1, <2>3, <3>1
  <2>5. QueueGoes /\ \A i \in Ids(queue) : i \in Ids(queue') \/ i \in settled'
    BY <2>1, <2>2, <2>3, <2>4 DEF QueueGoes, Ids
  <2>6. /\ made' \in {made, made + 1} /\ made' <= MaxCommands /\ ~IsNew(made + 1)
        /\ settled \subseteq settled' /\ settled' \cup cleared' \subseteq 1 .. made'
    <3>1. made' = made /\ ~IsNew(made + 1)
      BY <1>1, <2>1 DEF IsNew
    <3>2. settled' \cup cleared' \subseteq 1 .. made
      BY <1>1, <2>1, <2>2
    <3> QED
      BY <1>1, <2>1, <3>1, <3>2
  <2> QED
    BY <2>1, <2>4, <2>5, <2>6, QueueKept
<1> QED
  BY <1>2, <1>3, <1>4, <1>5

-----------------------------------------------------------------------------
(* The theorems.                                                           *)

LEMMA GoodInit == Init => Good
<1> SUFFICES ASSUME Init PROVE Good
  OBVIOUS
<1>1. queue = <<>> /\ turns = <<>> /\ DOMAIN turns = {} /\ Range(queue) = {} /\ made = 0
  BY DEF Init, Range
<1>2. queue \in Seq(Command) /\ turns \in Seq(Turn)
  BY <1>1, EmptySeq
<1>3. Typed
  <2>1. told \in [1 .. MaxCommands -> Nat] /\ made \in 0 .. MaxCommands
    BY <1>1, PromptsAssumption DEF Init
  <2> QED
    BY <1>1, <1>2, <2>1 DEF Init, Typed
<1>4. IdsFit /\ OnePlace
  BY <1>1 DEF Init, IdsFit, OnePlace, Unique, Ids, InInput
<1>5. ToldApart
  BY <1>1 DEF Init, ToldApart, Drains, InInput
<1>6. InControl /\ NothingLost
  BY <1>1 DEF InControl, NothingLost
<1> QED
  BY <1>3, <1>4, <1>5, <1>6 DEF Good, Placed

LEMMA GoodNext == Good /\ [Next]_vars => Good'
<1> SUFFICES ASSUME Good, [Next]_vars PROVE Good'
  OBVIOUS
<1>1. Kept
  <2>1. CASE \E kind \in Kinds : Submit(kind) \/ Notify(kind) \/ Incoming(kind)
    BY <2>1, SubmitKept, NotifyKept, IncomingKept
  <2>2. CASE \E t \in DOMAIN turns :
               InputDone(t) \/ DrainBegins(t) \/ DrainEnds(t) \/ QueryEnds(t)
    BY <2>2, FindsRunningKept, StartsQueryKept, SettlesKept, DrainBeginsKept, DrainEndsKept,
       QueryEndsKept DEF InputDone
  <2>3. CASE UNCHANGED vars
    BY <2>3, SameKept DEF vars
  <2> QED
    BY <2>1, <2>2, <2>3, ProcessKept, CancelKept, UserKept DEF Next
<1> QED
  BY <1>1, MovesKeep DEF Kept, Good

LEMMA GoodHolds == Spec => []Good
<1> QED
  BY GoodInit, GoodNext, PTL DEF Spec

\* The state is of its type, and a command is in one place: not twice in the queue, nor
\* in it and in the hands of a turn that has still to put it to the model, however the
\* turns take it, put it back and are cancelled.  (messageQueueManager.ts)
THEOREM CommandsInOnePlace == Spec => []TypeOK
<1>1. Good => TypeOK
  <2> SUFFICES ASSUME Good PROVE TypeOK
    OBVIOUS
  <2>1. Range(queue) \subseteq Command
    BY RangeOfSeq DEF Good, Typed, Range
  <2> QED
    BY <2>1 DEF Good, Typed, Placed, OnePlace, TypeOK, Unique, Handed
<1> QED
  BY GoodHolds, <1>1, PTL

\* A query that has not been aborted is the one the session's controller aborts, so there
\* is one at most; unless a turn that was cancelled has at its end released or taken over
\* the reservation of another turn, or cleared the controller of one.  (tryStart,
\* setAbortController, the finally of executeUserInput)
THEOREM OneQueryAtATime == Spec => []OneQuery
<1>1. Good => OneQuery
  BY DEF Good, InControl, Controls, OneQuery, Querying
<1> QED
  BY GoodHolds, <1>1, PTL

\* A command that has arrived is in the queue, in a turn's hands, told to the model,
\* answered or taken back, but for what was queued when the agents were killed, and for
\* what the program wrote whose turn was cancelled, or lost its reservation to one that
\* was, and finds another query running.  (the drains, what onQuery puts back,
\* clearCommandQueue)
THEOREM CommandsKept == Spec => []NothingLost
<1>1. Good => NothingLost
  BY DEF Good
<1> QED
  BY GoodHolds, <1>1, PTL

\* No command is told to the model twice, unless a query was aborted while it was
\* attaching it, or a cancelled turn has undone what was another's (as in
\* OneQueryAtATime).  (the removal behind the attachments in query.ts)
THEOREM CommandsToldOnce == Spec => []ToldOnce
<1>1. Good => ToldOnce
  <2> SUFFICES ASSUME Good, NEW i \in 1 .. made, told[i] > 1 PROVE Excused(i)
    BY DEF ToldOnce, Excused
  <2>1. i \in DOMAIN told /\ told[i] \in Nat
    BY PromptsAssumption DEF Good, Typed
  <2>2. told[i] > 0 /\ told[i] # 1
    BY <2>1
  <2> QED
    BY <2>1, <2>2 DEF Good, Placed, ToldApart
<1> QED
  BY GoodHolds, <1>1, PTL

=============================================================================
