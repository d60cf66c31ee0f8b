------------------------- MODULE RevisionTxProofs -------------------------
(***************************************************************************)
(* Two theorems of module RevisionTx, for every value of its constants:    *)
(* any number of sessions and readers, of records, of sources of a merge   *)
(* and of transactions under way.                                          *)
(*                                                                         *)
(* AtomicRevisions, a refinement.  An open transaction holds the           *)
(* statements one revision consists of on the rows of its snapshot         *)
(* (TxsOK), and no step of anyone gives a record another type, takes an    *)
(* entry from its log or brings a deleted one back (StoreStep).  A commit  *)
(* that serializes finds the rows it rewrites as it read them; so running  *)
(* its statements one after the other (After) is that revision on the      *)
(* store as it is now (CommitRevises).  A fork rewrites no row and needs   *)
(* only that its source is there, with the type it had.                    *)
(*                                                                         *)
(* RevisionExplained, an invariant of the readers.  The log is the last    *)
(* table they query and it only grows, so once the status is read the log  *)
(* of the record explains it (Explained), whatever commits in between.     *)
(***************************************************************************)
EXTENDS RevisionTx, ServiceProofs, SequenceTheorems, FiniteSetTheorems

-----------------------------------------------------------------------------
(* The statements of a transaction, one after the other.                   *)

Reached(s, calls, f, n) == IF n = 0 THEN s ELSE Executed(f[n - 1], calls[n])

IsCourse(s, calls, f, m) == f = [n \in 0 .. m |-> Reached(s, calls, f, n)]

\* The function that After defines by recursion exists.
LEMMA CourseExists ==
    ASSUME NEW s, NEW calls, NEW m \in Nat
    PROVE  \E f : IsCourse(s, calls, f, m)
<1> DEFINE Bad == {n \in Nat : ~\E f : IsCourse(s, calls, f, n)}
<1>1. SUFFICES ASSUME Bad # {} PROVE FALSE
  OBVIOUS
<1>2. PICK n \in Bad : \A k \in Bad : ~(k < n)
  <2>1. \E n \in Bad : \A k \in Bad : ~(<<k, n>> \in OpToRel(<, Nat))
    BY <1>1, WFMin, NatLessThanWellFounded
  <2> QED BY <2>1, Zenon DEF OpToRel
<1>3. n \in Nat /\ ~\E f : IsCourse(s, calls, f, n)
  OBVIOUS
<1>4. CASE n = 0
  <2> DEFINE f == [k \in 0 .. 0 |-> s]
  <2>1. IsCourse(s, calls, f, 0)
    BY DEF IsCourse, Reached
  <2> QED BY <1>3, <1>4, <2>1
<1>5. CASE n # 0
  <2>1. n - 1 \in Nat /\ n - 1 < n
    BY <1>3, <1>5
  <2>2. PICK g : IsCourse(s, calls, g, n - 1)
    BY <1>2, <2>1
  <2> DEFINE f == [k \in 0 .. n |-> IF k = n THEN Reached(s, calls, g, n) ELSE g[k]]
  <2>3. ASSUME NEW k \in 0 .. n PROVE f[k] = Reached(s, calls, f, k)
    <3>1. CASE k = n
      <4>1. f[n - 1] = g[n - 1]
        BY <1>3, <2>1
      <4> QED BY <1>3, <1>5, <3>1, <4>1 DEF Reached
    <3>2. CASE k # n
      <4>1. k \in 0 .. n - 1 /\ f[k] = g[k]
        BY <1>3, <3>2
      <4>2. g[k] = Reached(s, calls, g, k)
        BY <2>2, <4>1 DEF IsCourse
      <4>3. k # 0 => f[k - 1] = g[k - 1]
        BY <1>3, <4>1
      <4> HIDE DEF f
      <4> QED BY <4>1, <4>2, <4>3 DEF Reached
    <3> QED BY <3>1, <3>2
  <2>4. IsCourse(s, calls, f, n)
    BY <2>3 DEF IsCourse
  <2> QED BY <1>3, <2>4
<1> QED BY <1>4, <1>5

\* The stores between the statements.
Passes(s, calls, f) ==
    /\ f[0] = s /\ f[Len(calls)] = After(s, calls)
    /\ \A n \in 1 .. Len(calls) : f[n] = Executed(f[n - 1], calls[n])

\* They are what After ends with.
LEMMA AfterIs ==
    ASSUME NEW s, NEW calls, Len(calls) \in Nat
    PROVE  \E f : Passes(s, calls, f)
<1> DEFINE f == CHOOSE g : IsCourse(s, calls, g, Len(calls))
<1>1. IsCourse(s, calls, f, Len(calls))
  BY CourseExists
<1>2. After(s, calls) = f[Len(calls)]
  BY DEF After, IsCourse, Reached
<1> HIDE DEF f
<1>3. \A n \in 0 .. Len(calls) : f[n] = Reached(s, calls, f, n)
  BY <1>1 DEF IsCourse
<1>4. f[0] = s
  BY <1>3 DEF Reached
<1>5. ASSUME NEW n \in 1 .. Len(calls) PROVE f[n] = Executed(f[n - 1], calls[n])
  BY <1>3 DEF Reached
<1> QED BY <1>2, <1>4, <1>5 DEF Passes

\* What two statements do.
LEMMA AfterTwo ==
    ASSUME NEW s, NEW x, NEW y
    PROVE  After(s, <<x, y>>) = Executed(Executed(s, x), y)
<1> DEFINE q == <<x, y>>
<1>1. Len(q) = 2 /\ q[1] = x /\ q[2] = y
  OBVIOUS
<1> HIDE DEF q
<1>2. PICK f : Passes(s, q, f)
  <2>1. Len(q) \in Nat
    BY <1>1
  <2> QED BY <2>1, AfterIs
<1>3. f[1] = Executed(s, x) /\ f[2] = Executed(f[1], y)
  <2>1. f[1] = Executed(f[1 - 1], q[1]) /\ f[2] = Executed(f[2 - 1], q[2])
    BY <1>1, <1>2 DEF Passes
  <2>2. 1 - 1 = 0 /\ 2 - 1 = 1
    OBVIOUS
  <2> QED BY <1>1, <1>2, <2>1, <2>2 DEF Passes
<1> QED BY <1>1, <1>2, <1>3 DEF q, Passes

\* And three.
LEMMA AfterThree ==
    ASSUME NEW s, NEW x, NEW y, NEW z
    PROVE  After(s, <<x, y, z>>) = Executed(Executed(Executed(s, x), y), z)
<1> DEFINE q == <<x, y, z>>
<1>1. Len(q) = 3 /\ q[1] = x /\ q[2] = y /\ q[3] = z
  OBVIOUS
<1> HIDE DEF q
<1>2. PICK f : Passes(s, q, f)
  <2>1. Len(q) \in Nat
    BY <1>1
  <2> QED BY <2>1, AfterIs
<1>3. f[1] = Executed(s, x) /\ f[2] = Executed(f[1], y) /\ f[3] = Executed(f[2], z)
  <2>1. /\ f[1] = Executed(f[1 - 1], q[1]) /\ f[2] = Executed(f[2 - 1], q[2])
        /\ f[3] = Executed(f[3 - 1], q[3])
    BY <1>1, <1>2 DEF Passes
  <2>2. 1 - 1 = 0 /\ 2 - 1 = 1 /\ 3 - 1 = 2
    OBVIOUS
  <2> QED BY <1>1, <1>2, <2>1, <2>2 DEF Passes
<1> QED BY <1>1, <1>2, <1>3 DEF q, Passes

\* What each statement does.
LEMMA ExecutedIs ==
    ASSUME NEW s, NEW i, NEW x
    PROVE  /\ Executed(s, Update(i, x)) = UpdateRecord(s, i, x)
           /\ Executed(s, Audit(i, x)) = AddAuditEntry(s, i, x)
           /\ Executed(s, Relate(i, x)) = AddRelation(s, i, x)
           /\ Executed(s, Insert(i, x)) = CreateRecord(s, i, x)
BY DEF Executed, Update, Audit, Relate, Insert

\* Sequences of known length, put together.
LEMMA OneAndOne ==
    ASSUME NEW x, NEW y
    PROVE  <<x>> \o <<y>> = <<x, y>>
<1> PICK S : S = {x, y}
  OBVIOUS
<1>1. <<x>> \in Seq(S) /\ <<y>> \in Seq(S) /\ <<x, y>> \in Seq(S)
  OBVIOUS
<1>2. Len(<<x>>) = 1 /\ Len(<<y>>) = 1 /\ Len(<<x, y>>) = 2
  OBVIOUS
<1> DEFINE p == <<x>> \o <<y>>
<1>3. /\ p \in Seq(S) /\ Len(p) = 2
      /\ \A i \in 1 .. 2 : p[i] = IF i <= 1 THEN <<x>>[i] ELSE <<y>>[i - 1]
  BY <1>1, <1>2, ConcatProperties
<1> HIDE DEF p
<1>4. \A i \in 1 .. 2 : p[i] = <<x, y>>[i]
  BY <1>3
<1> QED BY <1>1, <1>2, <1>3, <1>4, SeqEqual DEF p

\* And of three.
LEMMA TwoAndOne ==
    ASSUME NEW x, NEW y, NEW z
    PROVE  <<x, y>> \o <<z>> = <<x, y, z>>
<1> PICK S : S = {x, y, z}
  OBVIOUS
<1>1. <<x, y>> \in Seq(S) /\ <<z>> \in Seq(S) /\ <<x, y, z>> \in Seq(S)
  OBVIOUS
<1>2. Len(<<x, y>>) = 2 /\ Len(<<z>>) = 1 /\ Len(<<x, y, z>>) = 3
  OBVIOUS
<1> DEFINE p == <<x, y>> \o <<z>>
<1>3. /\ p \in Seq(S) /\ Len(p) = 3
      /\ \A i \in 1 .. 3 : p[i] = IF i <= 2 THEN <<x, y>>[i] ELSE <<z>>[i - 2]
  BY <1>1, <1>2, ConcatProperties
<1> HIDE DEF p
<1>4. p[1] = x /\ p[2] = y /\ p[3] = z
  BY <1>3
<1>5. \A i \in 1 .. 3 : p[i] = <<x, y, z>>[i]
  BY <1>4
<1> QED BY <1>1, <1>2, <1>3, <1>5, SeqEqual DEF p

\* Executed on the rows as they were read, the statements of a revision are the revision.
LEMMA SupersedeAfter ==
    ASSUME NEW s, NEW b, NEW old, NEW new, NEW d, s[old] = b[old]
    PROVE  After(s, SupersedeCalls(b, old, new, d)) = SupersededStore(s, old, new, d)
BY AfterThree, ExecutedIs DEF SupersedeCalls, SupersededStore

\* So are those of a fork.
LEMMA ForkAfter ==
    ASSUME NEW s, NEW source, NEW new, NEW d
    PROVE  After(s, ForkCalls(source, new, d)) = ForkedStore(s, source, new, d)
BY AfterTwo, ExecutedIs DEF ForkCalls, ForkedStore

\* And of a retraction.
LEMMA RetractAfter ==
    ASSUME NEW s, NEW b, NEW i, s[i] = b[i]
    PROVE  After(s, RetractCalls(b, i)) = RetractedStore(s, i)
BY AfterTwo, ExecutedIs DEF RetractCalls, RetractedStore

\* What a contest consists of, with a reference and without.
LEMMA ContestCallsAre ==
    ASSUME NEW b, NEW i, NEW ref
    PROVE  /\ ref = NoId =>
                ContestCalls(b, i, ref) = <<Update(i, Contested(b[i])), Audit(i, "revise")>>
           /\ ref # NoId =>
                ContestCalls(b, i, ref) = <<Update(i, Contested(b[i])),
                                            Relate(i, Rel("contested_by", ref)),
                                            Audit(i, "revise")>>
<1> DEFINE u == Update(i, Contested(b[i]))
           r == Relate(i, Rel("contested_by", ref))
           a == Audit(i, "revise")
<1>1. CASE ref = NoId
  <2> HIDE DEF u, a
  <2>1. <<u>> \o <<>> = <<u>>
    OBVIOUS
  <2>2. <<u>> \o <<>> \o <<a>> = <<u, a>>
    BY <2>1, OneAndOne
  <2> QED BY <1>1, <2>2 DEF ContestCalls, u, a
<1>2. CASE ref # NoId
  <2> HIDE DEF u, r, a
  <2>1. <<u>> \o <<r>> = <<u, r>>
    BY OneAndOne
  <2>2. <<u>> \o <<r>> \o <<a>> = <<u, r, a>>
    BY <2>1, TwoAndOne
  <2> QED BY <1>2, <2>2 DEF ContestCalls, u, r, a
<1> QED BY <1>1, <1>2

\* Those of a contest are the contest, again on the rows as they were read.
LEMMA ContestAfter ==
    ASSUME NEW s, NEW b, NEW i, NEW ref, s[i] = b[i]
    PROVE  After(s, ContestCalls(b, i, ref)) = ContestedStore(s, i, ref)
<1>1. CASE ref = NoId
  BY <1>1, ContestCallsAre, AfterTwo, ExecutedIs DEF ContestedStore
<1>2. CASE ref # NoId
  BY <1>2, ContestCallsAre, AfterThree, ExecutedIs DEF ContestedStore
<1> QED BY <1>1, <1>2

\* Two of its statements.
LEMMA ContestCallsHave ==
    ASSUME NEW b, NEW i, NEW ref
    PROVE  /\ Update(i, Contested(b[i])) \in Range(ContestCalls(b, i, ref))
           /\ ref # NoId =>
                Relate(i, Rel("contested_by", ref)) \in Range(ContestCalls(b, i, ref))
<1>1. \A x, y : x \in Range(<<x, y>>)
  BY DEF Range
<1>2. \A x, y, z : x \in Range(<<x, y, z>>) /\ y \in Range(<<x, y, z>>)
  BY DEF Range
<1> QED BY <1>1, <1>2, ContestCallsAre

-----------------------------------------------------------------------------
(* Merge, whose statements are as many as its sources: first every source  *)
(* is marked as retracted, then every one gets its log entry.              *)

Marked(s, ids, n) ==
    [j \in Ids |-> IF \E k \in 1 .. n : ids[k] = j THEN Retracted(s[j]) ELSE s[j]]

Logged(s, ids, n) ==
    [j \in Ids |->
        IF \E k \in 1 .. n : ids[k] = j
        THEN [Retracted(s[j]) EXCEPT !.audit = s[j].audit \cup {"merge"}]
        ELSE Marked(s, ids, Len(ids))[j]]

\* The records to merge are in the store.
Sources(s, ids) ==
    /\ s \in StoreType /\ ids \in Seq(Ids)
    /\ \A k \in 1 .. Len(ids) : Exists(s, ids[k])

\* Each source has a place among them, and is a record of the store.
LEMMA SourceIs ==
    ASSUME NEW s, NEW ids, Sources(s, ids), NEW n \in 0 .. Len(ids) - 1
    PROVE  /\ Len(ids) \in Nat /\ n + 1 \in 1 .. Len(ids)
           /\ ids[n + 1] \in Ids /\ s[ids[n + 1]] \in Record
           /\ Retracted(s[ids[n + 1]]) \in Record
           /\ Retracted(s[ids[n + 1]]).audit = s[ids[n + 1]].audit
           /\ \A j : (\E k \in 1 .. n + 1 : ids[k] = j)
                       <=> (ids[n + 1] = j \/ \E k \in 1 .. n : ids[k] = j)
<1>1. Len(ids) \in Nat /\ n + 1 \in 1 .. Len(ids) /\ ids[n + 1] \in Ids
  BY LenProperties DEF Sources
<1>2. s[ids[n + 1]] \in Record
  BY <1>1, ExistsRecord DEF Sources
<1>3. Retracted(s[ids[n + 1]]) \in Record
  BY <1>2, RetractedType
<1>4. Retracted(s[ids[n + 1]]).audit = s[ids[n + 1]].audit
  BY <1>2 DEF Retracted, Record
<1>5. n \in Nat /\ \A k : k \in 1 .. n + 1 <=> k = n + 1 \/ k \in 1 .. n
  BY <1>1
<1> QED BY <1>1, <1>2, <1>3, <1>4, <1>5

\* One more source is marked.
LEMMA MarkedOn ==
    ASSUME NEW s, NEW ids, Sources(s, ids), NEW n \in 0 .. Len(ids) - 1
    PROVE  UpdateRecord(Marked(s, ids, n), ids[n + 1], Retracted(s[ids[n + 1]]))
             = Marked(s, ids, n + 1)
<1> DEFINE i == ids[n + 1]
           r == Retracted(s[i])
           m == Marked(s, ids, n)
<1>1. /\ i \in Ids /\ s[i] \in Record /\ r \in Record /\ r.audit = s[i].audit
      /\ \A j : (\E k \in 1 .. n + 1 : ids[k] = j) <=> (i = j \/ \E k \in 1 .. n : ids[k] = j)
  BY SourceIs
<1>2. m[i] \in {r, s[i]}
  BY <1>1 DEF Marked
<1>3. [r EXCEPT !.audit = m[i].audit] = r
  <2>1. m[i].audit = r.audit
    BY <1>1, <1>2
  <2> HIDE DEF r, m, i
  <2> QED BY <1>1, <2>1 DEF Record
<1>4. UpdateRecord(m, i, r) = [m EXCEPT ![i] = r]
  BY <1>3 DEF UpdateRecord
<1>5. \A j \in Ids : [m EXCEPT ![i] = r][j] = Marked(s, ids, n + 1)[j]
  BY <1>1 DEF Marked
<1>6. [m EXCEPT ![i] = r] = Marked(s, ids, n + 1)
  BY <1>5 DEF Marked
<1> QED BY <1>4, <1>6

\* One more source has its log entry.
LEMMA LoggedOn ==
    ASSUME NEW s, NEW ids, Sources(s, ids), NEW n \in 0 .. Len(ids) - 1
    PROVE  AddAuditEntry(Logged(s, ids, n), ids[n + 1], "merge") = Logged(s, ids, n + 1)
<1> DEFINE i == ids[n + 1]
           r == Retracted(s[i])
           g == [r EXCEPT !.audit = s[i].audit \cup {"merge"}]
           m == Logged(s, ids, n)
<1>1. /\ Len(ids) \in Nat /\ n + 1 \in 1 .. Len(ids)
      /\ i \in Ids /\ s[i] \in Record /\ r \in Record /\ r.audit = s[i].audit
      /\ \A j : (\E k \in 1 .. n + 1 : ids[k] = j) <=> (i = j \/ \E k \in 1 .. n : ids[k] = j)
  BY SourceIs
<1>2. Marked(s, ids, Len(ids))[i] = r
  BY <1>1 DEF Marked
<1>3. m[i] \in {r, g}
  BY <1>1, <1>2 DEF Logged
<1>4. [m[i] EXCEPT !.audit = m[i].audit \cup {"merge"}] = g
  <2>1. CASE m[i] = r
    BY <1>1, <2>1
  <2>2. CASE m[i] = g
    <3>1. g.audit = s[i].audit \cup {"merge"}
      BY <1>1 DEF Record
    <3>2. g.audit \cup {"merge"} = g.audit
      BY <3>1
    <3>3. [g EXCEPT !.audit = g.audit] = g
      OBVIOUS
    <3> HIDE DEF g, m, i
    <3> QED BY <2>2, <3>2, <3>3
  <2> QED BY <1>3, <2>1, <2>2
<1>5. AddAuditEntry(m, i, "merge") = [m EXCEPT ![i] = g]
  BY <1>4 DEF AddAuditEntry
<1>6. \A j \in Ids : [m EXCEPT ![i] = g][j] = Logged(s, ids, n + 1)[j]
  BY <1>1 DEF Logged
<1>7. [m EXCEPT ![i] = g] = Logged(s, ids, n + 1)
  BY <1>6 DEF Logged
<1> QED BY <1>5, <1>7

\* The statements of a merge by number, of which N is how many there are for each table.
InTurn(q, N, b, ids, new, d) ==
    /\ Len(q) = N + N + 1 /\ DOMAIN q = 1 .. N + N + 1
    /\ \A k \in 1 .. N : q[k] = Update(ids[k], Retracted(b[ids[k]]))
    /\ \A k \in 1 .. N : q[N + k] = Audit(ids[k], "merge")
    /\ q[N + N + 1] = Insert(new, Derived(d, "derived_from", Range(ids)))

\* The statements of a merge are in turn: a finite set of sources, in any order.
LEMMA MergeCallsAre ==
    ASSUME NEW b, NEW ids \in Seq(Ids), NEW new, NEW d
    PROVE  Len(ids) \in Nat /\ InTurn(MergeCalls(b, ids, new, d), Len(ids), b, ids, new, d)
<1> DEFINE N == Len(ids)
           q == MergeCalls(b, ids, new, d)
           u == [k \in DOMAIN ids |-> Update(ids[k], Retracted(b[ids[k]]))]
           a == [k \in DOMAIN ids |-> Audit(ids[k], "merge")]
           x == Insert(new, Derived(d, "derived_from", Range(ids)))
<1>1. N \in Nat /\ DOMAIN ids = 1 .. N
  BY LenProperties
<1> HIDE DEF N
<1>2. PICK S : S = {u[k] : k \in 1 .. N} \cup {a[k] : k \in 1 .. N} \cup {x}
  OBVIOUS
<1>3. u \in [1 .. N -> S] /\ a \in [1 .. N -> S] /\ x \in S
  BY <1>1, <1>2
<1>4. /\ \A k \in 1 .. N : u[k] = Update(ids[k], Retracted(b[ids[k]]))
      /\ \A k \in 1 .. N : a[k] = Audit(ids[k], "merge")
  BY <1>1
<1>5. q = u \o a \o <<x>>
  BY DEF MergeCalls
<1> HIDE DEF u, a, x, q
<1>6. u \in Seq(S) /\ a \in Seq(S) /\ <<x>> \in Seq(S)
  BY <1>1, <1>3, SeqDef
<1>7. Len(u) = N /\ Len(a) = N /\ Len(<<x>>) = 1 /\ <<x>>[1] = x
  <2>1. DOMAIN u = 1 .. N /\ DOMAIN a = 1 .. N
    BY <1>3
  <2>2. Len(u) \in Nat /\ DOMAIN u = 1 .. Len(u) /\ Len(a) \in Nat /\ DOMAIN a = 1 .. Len(a)
    BY <1>6, LenProperties
  <2> QED BY <1>1, <2>1, <2>2
<1> DEFINE p == u \o a
<1>8. /\ p \in Seq(S) /\ Len(p) = N + N
      /\ \A k \in 1 .. N + N : p[k] = IF k <= N THEN u[k] ELSE a[k - N]
  <2>1. /\ p \in Seq(S) /\ Len(p) = Len(u) + Len(a)
        /\ \A k \in 1 .. Len(u) + Len(a) :
             p[k] = IF k <= Len(u) THEN u[k] ELSE a[k - Len(u)]
    BY <1>6, ConcatProperties
  <2> HIDE DEF p
  <2> QED BY <1>7, <2>1
<1> HIDE DEF p
<1>9. /\ Len(q) = N + N + 1 /\ DOMAIN q = 1 .. N + N + 1
      /\ \A k \in 1 .. N + N + 1 : q[k] = IF k <= N + N THEN p[k] ELSE <<x>>[k - (N + N)]
  <2>1. q = p \o <<x>>
    BY <1>5 DEF p
  <2> DEFINE z == <<x>>
  <2>2. z \in Seq(S) /\ Len(z) = 1
    BY <1>6, <1>7
  <2> HIDE DEF z
  <2>3. /\ Len(p \o z) = Len(p) + Len(z) /\ p \o z \in Seq(S)
        /\ \A k \in 1 .. Len(p) + Len(z) :
             (p \o z)[k] = IF k <= Len(p) THEN p[k] ELSE z[k - Len(p)]
    <3>1. p \in Seq(S) /\ z \in Seq(S)
      BY <1>8, <2>2
    <3> QED BY <3>1, ConcatProperties
  <2>4. DOMAIN (p \o z) = 1 .. Len(p \o z)
    BY <2>3, LenProperties
  <2> QED BY <2>1, <2>2, <2>3, <2>4, <1>8 DEF z
<1>10. ASSUME NEW k \in 1 .. N PROVE q[k] = u[k] /\ q[N + k] = a[k]
  <2> DEFINE m == N + k
  <2>1. k \in 1 .. N + N /\ k \in 1 .. N + N + 1 /\ k <= N + N /\ k <= N
    BY <1>1
  <2>2. m \in 1 .. N + N /\ m \in 1 .. N + N + 1 /\ m <= N + N /\ ~(m <= N) /\ m - N = k
    BY <1>1
  <2>3. p[k] = u[k] /\ q[k] = p[k]
    BY <2>1, <1>8, <1>9
  <2> HIDE DEF m
  <2>4. p[m] = a[k] /\ q[m] = p[m]
    BY <2>2, <1>8, <1>9
  <2> QED BY <2>3, <2>4 DEF m
<1>11. q[N + N + 1] = x
  <2>1. N + N + 1 \in 1 .. N + N + 1 /\ ~(N + N + 1 <= N + N) /\ N + N + 1 - (N + N) = 1
    BY <1>1
  <2> QED BY <2>1, <1>7, <1>9
<1> QED BY <1>1, <1>4, <1>9, <1>10, <1>11 DEF x, q, N, InTurn

\* Where a property of the numbers up to m first fails, it does not follow from the one
\* before; so it does not fail.
LEMMA UpTo ==
    ASSUME NEW m \in Nat, NEW S, 0 \in S, \A n \in 0 .. m - 1 : n \in S => n + 1 \in S
    PROVE  \A n \in 0 .. m : n \in S
<1> DEFINE Bad == {n \in Nat : n <= m /\ n \notin S}
<1>1. ASSUME Bad # {} PROVE FALSE
  <2>1. PICK n \in Bad : \A k \in Bad : ~(k < n)
    <3>1. \E n \in Bad : \A k \in Bad : ~(<<k, n>> \in OpToRel(<, Nat))
      BY <1>1, WFMin, NatLessThanWellFounded
    <3> QED BY <3>1, Zenon DEF OpToRel
  <2>2. n \in Nat /\ n <= m /\ n \notin S
    OBVIOUS
  <2>3. n # 0
    BY <2>2
  <2>4. n - 1 \in Nat /\ n - 1 <= m /\ n - 1 < n /\ n - 1 \in 0 .. m - 1 /\ n - 1 + 1 = n
    BY <2>2, <2>3
  <2>5. n - 1 \in S
    BY <2>1, <2>4
  <2> QED BY <2>2, <2>4, <2>5
<1> QED BY <1>1

\* Executed on the rows as they were read, the statements of a merge are the merge.
LEMMA MergeAfter ==
    ASSUME NEW s, NEW b, NEW ids, Sources(s, ids), NEW new \in Ids, NEW d,
           \A k \in 1 .. Len(ids) : s[ids[k]] = b[ids[k]]
    PROVE  After(s, MergeCalls(b, ids, new, d)) = MergedStore(s, Range(ids), new, d)
<1> DEFINE N == Len(ids)
           q == MergeCalls(b, ids, new, d)
           x == Derived(d, "derived_from", Range(ids))
<1>1. ids \in Seq(Ids)
  BY DEF Sources
<1>2. /\ N \in Nat /\ Len(q) = N + N + 1
      /\ \A k \in 1 .. N : q[k] = Update(ids[k], Retracted(b[ids[k]]))
      /\ \A k \in 1 .. N : q[N + k] = Audit(ids[k], "merge")
      /\ q[N + N + 1] = Insert(new, x)
  <2>1. N \in Nat /\ InTurn(q, N, b, ids, new, d)
    BY <1>1, MergeCallsAre
  <2> HIDE DEF q, N
  <2> QED BY <2>1 DEF InTurn
<1> HIDE DEF q, x
<1>3. N + N + 1 \in Nat
  BY <1>2
<1>4. PICK f : Passes(s, q, f)
  BY <1>2, <1>3, AfterIs
<1>5. f[0] = s /\ f[N + N + 1] = After(s, q)
  BY <1>2, <1>4 DEF Passes
<1>6. ASSUME NEW n \in 0 .. N + N PROVE f[n + 1] = Executed(f[n], q[n + 1])
  <2>1. n + 1 \in 1 .. N + N + 1 /\ n + 1 - 1 = n
    BY <1>2
  <2> QED BY <1>2, <1>4, <2>1 DEF Passes
<1>7. f[N] = Marked(s, ids, N)
  <2> DEFINE S == {n \in Nat : f[n] = Marked(s, ids, n)}
  <2>1. f[0] = Marked(s, ids, 0)
    <3>1. s = [j \in Ids |-> s[j]]
      BY DEF Sources, StoreType
    <3>2. \A k : k \notin 1 .. 0
      OBVIOUS
    <3> QED BY <1>5, <3>1, <3>2 DEF Marked
  <2>2. ASSUME NEW n \in 0 .. N - 1, f[n] = Marked(s, ids, n)
        PROVE  f[n + 1] = Marked(s, ids, n + 1)
    <3>1. n \in 0 .. N + N /\ n + 1 \in 1 .. N
      BY <1>2
    <3>2. q[n + 1] = Update(ids[n + 1], Retracted(s[ids[n + 1]]))
      BY <1>2, <3>1
    <3>3. f[n + 1] = UpdateRecord(Marked(s, ids, n), ids[n + 1], Retracted(s[ids[n + 1]]))
      BY <1>6, <2>2, <3>1, <3>2, ExecutedIs
    <3> QED BY <3>3, MarkedOn
  <2>3. 0 \in S
    BY <2>1
  <2>4. \A n \in 0 .. N - 1 : n \in S => n + 1 \in S
    BY <1>2, <2>2
  <2> HIDE DEF S
  <2>5. \A n \in 0 .. N : n \in S
    BY <1>2, <2>3, <2>4, UpTo
  <2> QED BY <1>2, <2>5 DEF S
<1>8. f[N + N] = Logged(s, ids, N)
  <2> DEFINE S == {n \in Nat : f[N + n] = Logged(s, ids, n)}
  <2>1. f[N + 0] = Logged(s, ids, 0)
    <3>1. \A k : k \notin 1 .. 0
      OBVIOUS
    <3>2. Marked(s, ids, N) = [j \in Ids |-> Marked(s, ids, N)[j]]
      BY DEF Marked
    <3>3. N + 0 = N
      BY <1>2
    <3> QED BY <1>7, <3>1, <3>2, <3>3 DEF Logged
  <2>2. ASSUME NEW n \in 0 .. N - 1, f[N + n] = Logged(s, ids, n)
        PROVE  f[N + (n + 1)] = Logged(s, ids, n + 1)
    <3>1. N + n \in 0 .. N + N /\ n + 1 \in 1 .. N /\ N + (n + 1) = N + n + 1
      BY <1>2
    <3>2. q[N + n + 1] = Audit(ids[n + 1], "merge")
      BY <1>2, <3>1
    <3>3. f[N + n + 1] = AddAuditEntry(Logged(s, ids, n), ids[n + 1], "merge")
      BY <1>6, <2>2, <3>1, <3>2, ExecutedIs
    <3> QED BY <3>1, <3>3, LoggedOn
  <2>3. 0 \in S
    BY <2>1
  <2>4. \A n \in 0 .. N - 1 : n \in S => n + 1 \in S
    BY <1>2, <2>2
  <2> HIDE DEF S
  <2>5. \A n \in 0 .. N : n \in S
    BY <1>2, <2>3, <2>4, UpTo
  <2> QED BY <1>2, <2>5 DEF S
<1>9. f[N + N + 1] = CreateRecord(Logged(s, ids, N), new, x)
  <2>1. N + N \in 0 .. N + N
    BY <1>2
  <2> QED BY <1>2, <1>6, <1>8, <2>1, ExecutedIs
<1>10. Logged(s, ids, N)
        = [j \in Ids |-> IF j \in Range(ids)
                         THEN [Retracted(s[j]) EXCEPT !.audit = s[j].audit \cup {"merge"}]
                         ELSE s[j]]
  <2>1. DOMAIN ids = 1 .. N
    BY <1>1, LenProperties
  <2>2. \A j : j \in Range(ids) <=> \E k \in 1 .. N : ids[k] = j
    BY <2>1 DEF Range
  <2> HIDE DEF N
  <2> QED BY <2>2 DEF Logged, Marked, N
<1> QED BY <1>5, <1>9, <1>10 DEF MergedStore, q, x

-----------------------------------------------------------------------------
(* What a step of any service does to the committed rows.                  *)

\* A record that stands after the step is new, or it has kept its type and its log.
Lengthened ==
    \A i \in Ids : Exists(store', i) =>
        \/ i \notin used
        \/ /\ Exists(store, i) /\ store'[i].type = store[i].type
           /\ store[i].audit \subseteq store'[i].audit

StoreOK == StoreTypeOK /\ UsedCovers /\ RowsOK(store)

StoreStep == StoreOK' /\ used \subseteq used' /\ Lengthened

\* A revision is such a step.
LEMMA RevisionStep ==
    ASSUME StoreOK, RevisionNext
    PROVE  StoreStep
<1>1. StoreTypeOK' /\ RowsOK(store)'
  BY RevisionTypes, RevisionRows DEF StoreOK
<1>2. PICK N \in SUBSET (Ids \ used) : Grown(store, store', N) /\ used' = used \cup N
  BY RevisionEvolves DEF StoreOK, Evolves
<1>3. UsedCovers'
  BY <1>2 DEF StoreOK, UsedCovers, Live, Grown
<1>4. Lengthened
  BY <1>2 DEF Lengthened, Grown, SameContent
<1> QED BY <1>1, <1>2, <1>3, <1>4 DEF StoreOK, StoreStep

\* So is a creation by ingestion and a deletion by a sweep.
LEMMA OtherStep ==
    ASSUME StoreOK, OtherServices
    PROVE  StoreStep
<1> USE DEF StoreOK, StoreTypeOK
<1>1. ASSUME NEW i \in Ids, NEW d \in Drafts, HasEvidence(d.rec),
             Created(i, [d.rec EXCEPT !.audit = {"create"}])
      PROVE  StoreStep
  <2> DEFINE r == [d.rec EXCEPT !.audit = {"create"}]
  <2>1. r \in Record /\ RowOK(r)
    BY <1>1, RevisionAssumption
       DEF Draft, RowOK, Uncontested, HasEvidence, IsSemantic, Record, AuditAction
  <2>2. store' = CreateRecord(store, i, r) /\ used' = used \cup {i} /\ i \in Ids \ used
    BY <1>1 DEF Created, Unreserved
  <2> HIDE DEF r
  <2>3. StoreTypeOK' /\ RowsOK(store)'
    BY <2>1, <2>2, CreateRecordType, RowsExcept DEF CreateRecord
  <2>4. UsedCovers' /\ Lengthened
    BY <2>2 DEF UsedCovers, Live, Exists, CreateRecord, Lengthened, StoreType
  <2> QED BY <2>2, <2>3, <2>4 DEF StoreStep
<1>2. ASSUME NEW i \in Ids, Pruned(i)
      PROVE  StoreStep
  <2>1. store' = DeleteRecord(store, i) /\ used' = used
    BY <1>2 DEF Pruned
  <2>2. ASSUME NEW j \in Ids, Exists(store', j)
        PROVE  /\ Exists(store, j) /\ RowOK(store'[j])
               /\ store'[j].type = store[j].type /\ store'[j].audit = store[j].audit
    <3> DEFINE left == {rel \in store[j].relations : rel.target # i}
    <3>1. Exists(store, j) /\ store'[j] = [store[j] EXCEPT !.relations = left]
      BY <2>1, <2>2 DEF DeleteRecord, Exists
    <3>2. store[j] \in Record /\ RowOK(store[j])
      BY <3>1, ExistsRecord DEF RowsOK
    <3>3. left \subseteq store[j].relations
      OBVIOUS
    <3> HIDE DEF left
    <3> QED BY <3>1, <3>2, <3>3 DEF RowOK, Uncontested, Record
  <2>3. StoreTypeOK'
    BY <2>1, DeleteRecordType
  <2>4. RowsOK(store)' /\ UsedCovers' /\ Lengthened
    BY <2>1, <2>2 DEF RowsOK, UsedCovers, Live, Lengthened
  <2> QED BY <2>1, <2>3, <2>4 DEF StoreStep
<1> QED BY <1>1, <1>2 DEF OtherServices

-----------------------------------------------------------------------------
(* Open transactions.                                                      *)

Supersedes(t) ==
    \E old \in Ids, d \in Drafts :
        /\ t.new \in Ids /\ CanSupersede(t.base, old, d)
        /\ t.calls = SupersedeCalls(t.base, old, t.new, d)

Forks(t) ==
    \E source \in Ids, d \in Drafts :
        t.new \in Ids /\ CanFork(t.base, source, d) /\ t.calls = ForkCalls(source, t.new, d)

Merges(t) ==
    \E ids \in Seq(Ids), d \in Drafts :
        /\ t.new \in Ids /\ CanMerge(t.base, Range(ids), d)
        /\ t.calls = MergeCalls(t.base, ids, t.new, d)

Retracts(t) ==
    \E i \in Ids : t.new = NoId /\ Revisable(t.base, i) /\ t.calls = RetractCalls(t.base, i)

Contests(t) ==
    \E i \in Ids, ref \in Refs :
        t.new = NoId /\ Revisable(t.base, i) /\ t.calls = ContestCalls(t.base, i, ref)

\* A transaction is what one revision does on the snapshot it has read; its new id is
\* its own, and no record has come back under another type since.
Ours(t) ==
    /\ {"base", "new", "calls"} \subseteq DOMAIN t
    /\ t.base \in StoreType
    /\ Supersedes(t) \/ Forks(t) \/ Merges(t) \/ Retracts(t) \/ Contests(t)

Fits(t, s, u) ==
    /\ Ours(t)
    /\ t.new \in (Ids \ u) \cup {NoId}
    /\ \A i \in Ids : Exists(t.base, i) =>
         i \in u /\ (Exists(s, i) => s[i].type = t.base[i].type)

Opened == {c \in Sessions : txs[c] # NoTx}

TxsOK ==
    /\ DOMAIN txs = Sessions
    /\ \A c \in Opened : Fits(txs[c], store, used)
    /\ \A b, c \in Opened : b # c => txs[b].new = NoId \/ txs[b].new # txs[c].new

\* A commit finds what it refers to in the store, and the rows it rewrites as it read
\* them: so the revision of the snapshot is a revision of the store as it is now.
LEMMA CommitRevises ==
    ASSUME StoreOK, TxsOK, NEW c \in Sessions, Commit(c)
    PROVE  RevisionNext
<1> DEFINE t == txs[c]
<1>1. /\ Fits(t, store, used) /\ Serializable(c)
      /\ store' = After(store, t.calls) /\ used' = used \cup ({t.new} \ {NoId})
  BY DEF Commit, CommitIf, TxsOK, Opened
<1>2. /\ t.base \in StoreType /\ t.new \in (Ids \ used) \cup {NoId}
      /\ \A i \in Ids : Exists(t.base, i) /\ Exists(store, i) => store[i].type = t.base[i].type
      /\ store \in StoreType
  BY <1>1 DEF Fits, Ours, StoreOK, StoreTypeOK
<1>3. ASSUME NEW i, NEW r, Update(i, r) \in Range(t.calls)
      PROVE  Exists(store, i) /\ store[i] = t.base[i]
  BY <1>1, <1>3 DEF Serializable, Inserts, Update
<1>4. ASSUME NEW i, NEW a, Audit(i, a) \in Range(t.calls)
      PROVE  Exists(store, i)
  BY <1>1, <1>4 DEF Serializable, Inserts, Audit
<1>5. ASSUME NEW i, NEW rel, Relate(i, rel) \in Range(t.calls)
      PROVE  Exists(store, rel.target)
  BY <1>1, <1>5 DEF Serializable, Inserts, Relate
<1>6. t.new \in Ids => Fresh(t.new) /\ used' = used \cup {t.new}
  BY <1>1, <1>2, RecordStoreAssumption DEF Fresh
<1>7. t.new = NoId => UNCHANGED used
  BY <1>1
<1> HIDE DEF t
<1>8. CASE Supersedes(t)
  <2>1. PICK old \in Ids, d \in Drafts :
          /\ t.new \in Ids /\ CanSupersede(t.base, old, d)
          /\ t.calls = SupersedeCalls(t.base, old, t.new, d)
    BY <1>8 DEF Supersedes
  <2>2. Update(old, Superseded(t.base[old], t.new, d)) \in Range(t.calls)
    <3> DEFINE u == Update(old, Superseded(t.base[old], t.new, d))
    <3>1. \A x, y, z : x \in Range(<<x, y, z>>)
      BY DEF Range
    <3> QED BY <2>1, <3>1 DEF SupersedeCalls
  <2>3. Exists(store, old) /\ store[old] = t.base[old]
    BY <1>3, <2>2
  <2>4. CanSupersede(store, old, d)
    BY <2>1, <2>3 DEF CanSupersede, Revisable
  <2>5. store' = SupersededStore(store, old, t.new, d)
    BY <1>1, <2>1, <2>3, SupersedeAfter
  <2>6. Supersede(old, t.new, d)
    BY <1>6, <2>1, <2>4, <2>5 DEF Supersede
  <2> QED BY <2>1, <2>6 DEF RevisionNext
<1>9. CASE Forks(t)
  <2>1. PICK source \in Ids, d \in Drafts :
          t.new \in Ids /\ CanFork(t.base, source, d) /\ t.calls = ForkCalls(source, t.new, d)
    BY <1>9 DEF Forks
  <2>2. Audit(source, "fork") \in Range(t.calls)
    <3>1. \A x, y : x \in Range(<<x, y>>)
      BY DEF Range
    <3> QED BY <2>1, <3>1 DEF ForkCalls
  <2>3. Exists(store, source) /\ store[source].type = t.base[source].type
    BY <1>2, <1>4, <2>1, <2>2 DEF CanFork, Revisable
  <2>4. CanFork(store, source, d)
    BY <2>1, <2>3 DEF CanFork, Revisable
  <2>5. store' = ForkedStore(store, source, t.new, d)
    BY <1>1, <2>1, ForkAfter
  <2>6. Fork(source, t.new, d)
    BY <1>6, <2>1, <2>4, <2>5 DEF Fork
  <2> QED BY <2>1, <2>6 DEF RevisionNext
<1>10. CASE Merges(t)
  <2>1. PICK ids \in Seq(Ids), d \in Drafts :
          /\ t.new \in Ids /\ CanMerge(t.base, Range(ids), d)
          /\ t.calls = MergeCalls(t.base, ids, t.new, d)
    BY <1>10 DEF Merges
  <2> DEFINE N == Len(ids)
  <2>2. /\ N \in Nat /\ DOMAIN ids = 1 .. N /\ \A k \in 1 .. N : ids[k] \in Ids
        /\ InTurn(t.calls, N, t.base, ids, t.new, d)
    BY <2>1, MergeCallsAre, LenProperties
  <2> HIDE DEF N
  <2>3. ASSUME NEW k \in 1 .. N PROVE Exists(store, ids[k]) /\ store[ids[k]] = t.base[ids[k]]
    <3>1. t.calls[k] = Update(ids[k], Retracted(t.base[ids[k]]))
      BY <2>2 DEF InTurn
    <3>2. k \in DOMAIN t.calls
      BY <2>2 DEF InTurn
    <3> QED BY <1>3, <3>1, <3>2 DEF Range
  <2>4. Sources(store, ids)
    BY <1>2, <2>1, <2>3 DEF Sources, N
  <2>5. CanMerge(store, Range(ids), d)
    BY <2>1, <2>2, <2>3 DEF CanMerge, Range, Revisable
  <2>6. store' = MergedStore(store, Range(ids), t.new, d)
    <3>1. \A k \in 1 .. Len(ids) : store[ids[k]] = t.base[ids[k]]
      BY <2>3 DEF N
    <3> DEFINE b == t.base
               new == t.new
    <3>2. new \in Ids /\ \A k \in 1 .. Len(ids) : store[ids[k]] = b[ids[k]]
      BY <2>1, <3>1
    <3> HIDE DEF b, new
    <3>3. After(store, MergeCalls(b, ids, new, d)) = MergedStore(store, Range(ids), new, d)
      BY <2>4, <3>2, MergeAfter
    <3> QED BY <1>1, <2>1, <3>3 DEF b, new
  <2>7. Merge(Range(ids), t.new, d)
    BY <1>6, <2>1, <2>5, <2>6 DEF Merge
  <2>8. Range(ids) \in SUBSET Ids
    BY <2>2 DEF Range
  <2> QED BY <2>1, <2>7, <2>8 DEF RevisionNext
<1>11. CASE Retracts(t)
  <2>1. PICK i \in Ids :
          t.new = NoId /\ Revisable(t.base, i) /\ t.calls = RetractCalls(t.base, i)
    BY <1>11 DEF Retracts
  <2>2. Update(i, Retracted(t.base[i])) \in Range(t.calls)
    <3>1. \A x, y : x \in Range(<<x, y>>)
      BY DEF Range
    <3> QED BY <2>1, <3>1 DEF RetractCalls
  <2>3. Exists(store, i) /\ store[i] = t.base[i]
    BY <1>3, <2>2
  <2>4. store' = RetractedStore(store, i)
    BY <1>1, <2>1, <2>3, RetractAfter
  <2>5. Retract(i)
    BY <1>7, <2>1, <2>3, <2>4 DEF Retract, Revisable
  <2> QED BY <2>5 DEF RevisionNext
<1>12. CASE Contests(t)
  <2>1. PICK i \in Ids, ref \in Refs :
          t.new = NoId /\ Revisable(t.base, i) /\ t.calls = ContestCalls(t.base, i, ref)
    BY <1>12 DEF Contests
  <2>2. Update(i, Contested(t.base[i])) \in Range(t.calls)
    BY <2>1, ContestCallsHave
  <2>3. ref # NoId => Relate(i, Rel("contested_by", ref)) \in Range(t.calls)
    BY <2>1, ContestCallsHave
  <2>4. Exists(store, i) /\ store[i] = t.base[i]
    BY <1>3, <2>2
  <2>5. ref # NoId => Exists(store, ref)
    BY <1>5, <2>3 DEF Rel
  <2>6. store' = ContestedStore(store, i, ref)
    BY <1>1, <2>1, <2>4, ContestAfter
  <2>7. Contest(i, ref)
    BY <1>7, <2>1, <2>4, <2>5, <2>6 DEF Contest, CanContest, Revisable
  <2> QED BY <2>7 DEF RevisionNext
<1> QED BY <1>1, <1>8, <1>9, <1>10, <1>11, <1>12 DEF Fits, Ours

-----------------------------------------------------------------------------
(* The steps.                                                              *)

\* A step of the store leaves every open transaction fitting whose id it does not use.
LEMMA FitsOn ==
    ASSUME StoreStep, NEW t, Fits(t, store, used), t.new \in (Ids \ used') \cup {NoId}
    PROVE  Fits(t, store', used')
BY DEF StoreStep, Lengthened, Fits

\* Beginning a transaction.
LEMMA OpenKeeps ==
    ASSUME StoreOK, TxsOK, NEW c \in Sessions, NEW new, NEW calls, Open(c, new, calls),
           new \in Unreserved \cup {NoId},
           Ours([base |-> store, new |-> new, calls |-> calls, done |-> 0])
    PROVE  TxsOK'
<1> DEFINE t == [base |-> store, new |-> new, calls |-> calls, done |-> 0]
<1>1. /\ txs' = [txs EXCEPT ![c] = t] /\ UNCHANGED <<store, used>> /\ txs[c] = NoTx
      /\ DOMAIN txs = Sessions
  BY DEF Open, TxsOK
<1>2. Fits(t, store, used)
  BY DEF Fits, Unreserved, StoreOK, UsedCovers, Live
<1>3. t.new = new
  OBVIOUS
<1> HIDE DEF t
<1>4. /\ DOMAIN txs' = Sessions /\ txs'[c] = t
      /\ \A b \in Sessions \ {c} : txs'[b] = txs[b]
  BY <1>1
<1>5. ASSUME NEW b \in Opened' PROVE Fits(txs'[b], store', used')
  BY <1>1, <1>2, <1>4 DEF TxsOK, Opened
<1>6. ASSUME NEW b \in Opened, b # c PROVE new = NoId \/ txs[b].new # new
  BY <1>6 DEF Unreserved, Reserved, Opened
<1>7. ASSUME NEW a \in Opened', NEW b \in Opened', a # b
      PROVE  txs'[a].new = NoId \/ txs'[a].new # txs'[b].new
  <2>1. CASE a = c
    BY <2>1, <1>3, <1>4, <1>6, <1>7 DEF Opened
  <2>2. CASE b = c
    BY <2>2, <1>3, <1>4, <1>6, <1>7 DEF Opened
  <2>3. CASE a # c /\ b # c
    BY <2>3, <1>4, <1>7 DEF Opened, TxsOK
  <2> QED BY <2>1, <2>2, <2>3
<1> QED BY <1>4, <1>5, <1>7 DEF TxsOK

\* The five operations begin one.
LEMMA BeginKeeps ==
    ASSUME StoreOK, TxsOK, NEW c \in Sessions,
           \/ \E old \in Ids, new \in Unreserved, d \in Drafts :
                OpenSupersede(c, old, new, d) \/ OpenFork(c, old, new, d)
           \/ \E sources \in SUBSET Ids, new \in Unreserved, d \in Drafts :
                /\ IsFiniteSet(sources)
                /\ \E ids \in SetToSeqs(sources) : OpenMerge(c, ids, new, d)
           \/ \E i \in Ids : OpenRetract(c, i)
           \/ \E i \in Ids, ref \in Refs : OpenContest(c, i, ref)
    PROVE  TxsOK'
<1> DEFINE t(new, calls) == [base |-> store, new |-> new, calls |-> calls, done |-> 0]
<1>1. ASSUME NEW new, NEW calls
      PROVE  /\ {"base", "new", "calls"} \subseteq DOMAIN t(new, calls)
             /\ t(new, calls).base = store /\ t(new, calls).base \in StoreType
             /\ t(new, calls).new = new /\ t(new, calls).calls = calls
  BY DEF StoreOK, StoreTypeOK
<1>2. Unreserved \subseteq Ids
  BY DEF Unreserved
<1>3. ASSUME NEW old \in Ids, NEW new \in Unreserved, NEW d \in Drafts,
             OpenSupersede(c, old, new, d)
      PROVE  TxsOK'
  <2> DEFINE q == SupersedeCalls(store, old, new, d)
  <2>1. Supersedes(t(new, q))
    BY <1>1, <1>2, <1>3 DEF OpenSupersede, Supersedes
  <2>2. Ours(t(new, q))
    BY <1>1, <2>1 DEF Ours
  <2> HIDE DEF q
  <2> QED BY <1>3, <2>2, OpenKeeps DEF OpenSupersede, q
<1>4. ASSUME NEW old \in Ids, NEW new \in Unreserved, NEW d \in Drafts,
             OpenFork(c, old, new, d)
      PROVE  TxsOK'
  <2> DEFINE q == ForkCalls(old, new, d)
  <2>1. Forks(t(new, q))
    BY <1>1, <1>2, <1>4 DEF OpenFork, Forks
  <2>2. Ours(t(new, q))
    BY <1>1, <2>1 DEF Ours
  <2> HIDE DEF q
  <2> QED BY <1>4, <2>2, OpenKeeps DEF OpenFork, q
<1>5. ASSUME NEW sources \in SUBSET Ids, NEW new \in Unreserved, NEW d \in Drafts,
             IsFiniteSet(sources), NEW ids \in SetToSeqs(sources), OpenMerge(c, ids, new, d)
      PROVE  TxsOK'
  <2> DEFINE q == MergeCalls(store, ids, new, d)
  <2>1. ids \in Seq(Ids)
    <3>1. Cardinality(sources) \in Nat
      BY <1>5, FS_CardinalityType
    <3>2. ids \in [1 .. Cardinality(sources) -> Ids]
      BY DEF SetToSeqs
    <3> QED BY <3>1, <3>2, SeqDef
  <2>2. Merges(t(new, q))
    BY <1>1, <1>2, <1>5, <2>1 DEF OpenMerge, Merges
  <2>3. Ours(t(new, q))
    BY <1>1, <2>2 DEF Ours
  <2> HIDE DEF q
  <2> QED BY <1>5, <2>3, OpenKeeps DEF OpenMerge, q
<1>6. ASSUME NEW i \in Ids, OpenRetract(c, i)
      PROVE  TxsOK'
  <2> DEFINE q == RetractCalls(store, i)
  <2>1. Retracts(t(NoId, q))
    BY <1>1, <1>6 DEF OpenRetract, Retracts
  <2>2. Ours(t(NoId, q))
    BY <1>1, <2>1 DEF Ours
  <2> HIDE DEF q
  <2> QED BY <1>6, <2>2, OpenKeeps DEF OpenRetract, q
<1>7. ASSUME NEW i \in Ids, NEW ref \in Refs, OpenContest(c, i, ref)
      PROVE  TxsOK'
  <2> DEFINE q == ContestCalls(store, i, ref)
  <2>1. Contests(t(NoId, q))
    BY <1>1, <1>7 DEF OpenContest, Contests
  <2>2. Ours(t(NoId, q))
    BY <1>1, <2>1 DEF Ours
  <2> HIDE DEF q
  <2> QED BY <1>7, <2>2, OpenKeeps DEF OpenContest, q
<1> QED BY <1>3, <1>4, <1>5, <1>6, <1>7

\* A statement changes no more than how far the transaction is.
LEMMA ExecuteKeeps ==
    ASSUME TxsOK, NEW c \in Sessions, Execute(c)
    PROVE  TxsOK'
<1> DEFINE t == [txs[c] EXCEPT !.done = txs[c].done + 1]
<1>1. txs' = [txs EXCEPT ![c] = t] /\ UNCHANGED <<store, used>> /\ c \in Opened
  BY DEF Execute, Opened
<1>2. Fits(txs[c], store, used) /\ DOMAIN txs = Sessions
  BY <1>1 DEF TxsOK
<1>3. /\ DOMAIN t = DOMAIN txs[c]
      /\ t.base = txs[c].base /\ t.new = txs[c].new /\ t.calls = txs[c].calls
  BY <1>2 DEF Fits, Ours
<1> HIDE DEF t
<1>4. Fits(t, store, used)
  BY <1>2, <1>3 DEF Fits, Ours, Supersedes, Forks, Merges, Retracts, Contests
<1>5. /\ DOMAIN txs' = Sessions /\ txs'[c] = t
      /\ \A b \in Sessions \ {c} : txs'[b] = txs[b]
  BY <1>1, <1>2
<1>6. ASSUME NEW b \in Sessions
      PROVE  (b \in Opened' => b \in Opened) /\ (b \in Opened => txs'[b].new = txs[b].new)
  BY <1>1, <1>3, <1>5 DEF Opened
<1>7. ASSUME NEW b \in Opened' PROVE Fits(txs'[b], store', used')
  BY <1>1, <1>4, <1>5 DEF TxsOK, Opened
<1>8. ASSUME NEW a \in Opened', NEW b \in Opened', a # b
      PROVE  txs'[a].new = NoId \/ txs'[a].new # txs'[b].new
  BY <1>6, <1>8 DEF TxsOK, Opened
<1> QED BY <1>5, <1>7, <1>8 DEF TxsOK

\* A transaction that ends, with a step of the store or without, leaves the others.
LEMMA CloseKeeps ==
    ASSUME TxsOK, NEW c \in Sessions, txs' = [txs EXCEPT ![c] = NoTx], txs[c] # NoTx,
           \/ UNCHANGED <<store, used>>
           \/ StoreStep /\ used' = used \cup ({txs[c].new} \ {NoId})
    PROVE  TxsOK'
<1>1. /\ DOMAIN txs' = Sessions /\ c \in Opened /\ c \notin Opened'
      /\ \A b \in Opened' : b \in Opened /\ b # c /\ txs'[b] = txs[b]
  BY DEF TxsOK, Opened
<1>2. ASSUME NEW b \in Opened' PROVE Fits(txs'[b], store', used')
  <2>1. b \in Opened /\ b # c /\ txs'[b] = txs[b] /\ Fits(txs[b], store, used)
    BY <1>1 DEF TxsOK
  <2>2. txs[b].new \in (Ids \ used) \cup {NoId}
        /\ (txs[b].new = NoId \/ txs[b].new # txs[c].new)
    BY <1>1, <2>1 DEF TxsOK, Fits
  <2>3. CASE UNCHANGED <<store, used>>
    BY <2>1, <2>3
  <2>4. CASE StoreStep /\ used' = used \cup ({txs[c].new} \ {NoId})
    <3> DEFINE t == txs[b]
    <3>1. t.new \in (Ids \ used') \cup {NoId} /\ Fits(t, store, used)
      BY <2>1, <2>2, <2>4
    <3> HIDE DEF t
    <3>2. Fits(t, store', used')
      BY <2>4, <3>1, FitsOn
    <3> QED BY <2>1, <3>2 DEF t
  <2> QED BY <2>3, <2>4
<1>3. \A a, b \in Opened' : a # b => txs'[a].new = NoId \/ txs'[a].new # txs'[b].new
  BY <1>1 DEF TxsOK
<1> QED BY <1>1, <1>2, <1>3 DEF TxsOK

\* A step of another service uses no id that a transaction has reserved.
LEMMA OtherKeeps ==
    ASSUME StoreOK, TxsOK, OtherServices, UNCHANGED txs
    PROVE  TxsOK'
<1>1. StoreStep
  BY OtherStep
<1>2. used' = used \/ \E i \in Unreserved : used' = used \cup {i}
  BY DEF OtherServices, Created, Pruned
<1>3. ASSUME NEW b \in Opened PROVE Fits(txs[b], store', used')
  <2> DEFINE t == txs[b]
  <2>1. Fits(t, store, used) /\ t.new \in (Ids \ used) \cup {NoId} /\ t.new \notin Unreserved
    BY DEF TxsOK, Fits, Unreserved, Reserved, Opened
  <2>2. t.new \in (Ids \ used') \cup {NoId}
    BY <1>2, <2>1
  <2> HIDE DEF t
  <2>3. Fits(t, store', used')
    BY <1>1, <2>1, <2>2, FitsOn
  <2> QED BY <2>3 DEF t
<1>4. Opened' = Opened
  BY DEF Opened
<1> QED BY <1>3, <1>4 DEF TxsOK

TxInv == StoreOK /\ TxsOK

\* Every step keeps the invariant, and changes the store as a revision or another service does.
LEMMA TxStep ==
    ASSUME TxInv, [TxNext]_txVars
    PROVE  TxInv' /\ (RevisionNext \/ OtherServices \/ UNCHANGED <<store, used>>)
<1> USE DEF TxInv
<1>1. ASSUME UNCHANGED <<store, used>> PROVE StoreOK'
  BY <1>1 DEF StoreOK, StoreTypeOK, UsedCovers
<1>2. ASSUME NEW c \in Sessions, Commit(c)
      PROVE  TxInv' /\ RevisionNext
  <2>1. RevisionNext
    BY <1>2, CommitRevises
  <2>2. StoreStep
    BY <2>1, RevisionStep
  <2>3. /\ txs[c] # NoTx /\ txs' = [txs EXCEPT ![c] = NoTx]
        /\ used' = used \cup ({txs[c].new} \ {NoId})
    BY <1>2 DEF Commit, CommitIf
  <2>4. TxsOK'
    BY <2>2, <2>3, CloseKeeps
  <2> QED BY <2>1, <2>2, <2>4 DEF StoreStep
<1>3. ASSUME NEW c \in Sessions, SessionNext(c), ~Commit(c)
      PROVE  TxsOK' /\ UNCHANGED <<store, used>>
  <2>1. CASE Execute(c)
    BY <2>1, ExecuteKeeps DEF Execute
  <2>2. CASE Rollback(c)
    BY <2>2, CloseKeeps DEF Rollback
  <2>3. CASE ~Execute(c) /\ ~Rollback(c)
    <3>1. TxsOK'
      BY <1>3, <2>3, BeginKeeps DEF SessionNext
    <3>2. UNCHANGED <<store, used>>
      BY <1>3, <2>3 DEF SessionNext, OpenSupersede, OpenFork, OpenMerge, OpenRetract,
                        OpenContest, Open
    <3> QED BY <3>1, <3>2
  <2> QED BY <2>1, <2>2, <2>3
<1>4. ASSUME OtherServices, UNCHANGED txs
      PROVE  TxInv'
  BY <1>4, OtherStep, OtherKeeps DEF StoreStep
<1>5. ASSUME UNCHANGED <<store, used, txs>>
      PROVE  TxInv'
  BY <1>1, <1>5 DEF TxsOK, Opened
<1>6. ASSUME NEW c \in Readers, ReaderNext(c)
      PROVE  UNCHANGED <<store, used, txs>>
  BY <1>6 DEF ReaderNext, ReadStart, ReadTable, ReadEnd
<1> QED BY <1>1, <1>2, <1>3, <1>4, <1>5, <1>6 DEF TxNext, txVars

\* It holds at the start, when nothing is stored and nothing is open.
LEMMA TxInitInv == TxInit => TxInv
BY DEF TxInit, InitStore, TxInv, StoreOK, StoreTypeOK, StoreType, UsedCovers, Live, Exists,
       RowsOK, TxsOK, Opened

\* AtomicRevisions: to whoever looks only at the committed rows, every transaction of
\* the revision service is one revision of the rows as they are when it commits,
\* whatever committed since it began; begun, failed and rolled back ones never were.
THEOREM RevisionsAreAtomic == TxSpec => AtomicRevisions
<1>1. TxInit => TxInv
  BY TxInitInv
<1>2. TxInv /\ [TxNext]_txVars => TxInv'
  BY TxStep
<1>3. TxInv /\ [TxNext]_txVars => [RevisionNext \/ OtherServices]_<<store, used>>
  BY TxStep
<1>4. TxInit => InitStore
  BY DEF TxInit
<1> QED BY <1>1, <1>2, <1>3, <1>4, PTL DEF TxSpec, AtomicRevisions

-----------------------------------------------------------------------------
(* Reads.                                                                  *)

\* The log a explains the revision status x.
Explains(a, x) ==
    /\ x = "retracted" => a \cap {"revise", "merge", "delete"} # {}
    /\ x = "contested" => "revise" \in a

\* What a read that no deletion has overtaken knows, r being its record in the store:
\* the log there explains the status it has read, and so does the log it has read.
Explained(got, r) ==
    /\ Len(got) >= 3 => Explains(r.audit, got[3]["status"])
    /\ Len(got) >= 5 => Explains(got[5]["audit"], got[3]["status"])

ReadFits(r, s) ==
    /\ {"id", "got", "seen"} \subseteq DOMAIN r
    /\ r.id \in Ids /\ s[r.id] \in r.seen
    /\ \E S : r.got \in Seq(S)
    /\ NoRecord \notin r.seen => Explained(r.got, s[r.id])

ReadsOK ==
    /\ DOMAIN reads = Readers
    /\ \A c \in Readers : reads[c] # NoTx => ReadFits(reads[c], store)

\* The status is in the third of the five tables, the log in the last, each there only.
LEMMA TablesAre ==
    /\ Len(Tables) = 5 /\ DOMAIN Tables = 1 .. 5
    /\ "status" \in Tables[3] /\ "audit" \in Tables[5]
    /\ \A n \in 1 .. 5 : ("status" \in Tables[n] => n = 3) /\ ("audit" \in Tables[n] => n = 5)
<1>1. Len(Tables) = 5 /\ DOMAIN Tables = 1 .. 5
  BY DEF Tables
<1>2. \A n \in 1 .. 5 : n = 1 \/ n = 2 \/ n = 3 \/ n = 4 \/ n = 5
  OBVIOUS
<1>3. /\ "status" \notin Tables[1] /\ "status" \notin Tables[2] /\ "status" \in Tables[3]
      /\ "status" \notin Tables[4] /\ "status" \notin Tables[5]
  BY DEF Tables
<1>4. /\ "audit" \notin Tables[1] /\ "audit" \notin Tables[2] /\ "audit" \notin Tables[3]
      /\ "audit" \notin Tables[4] /\ "audit" \in Tables[5]
  BY DEF Tables
<1> QED BY <1>1, <1>2, <1>3, <1>4

\* Another version is seen; the log has only become longer.
LEMMA SeenOn ==
    ASSUME StoreOK, StoreStep, NEW r, ReadFits(r, store)
    PROVE  ReadFits([r EXCEPT !.seen = r.seen \cup {store'[r.id]}], store')
<1> DEFINE q == [r EXCEPT !.seen = r.seen \cup {store'[r.id]}]
<1>1. /\ DOMAIN q = DOMAIN r /\ q.id = r.id /\ q.got = r.got
      /\ q.seen = r.seen \cup {store'[r.id]}
  BY DEF ReadFits
<1> HIDE DEF q
<1>2. ASSUME NoRecord \notin q.seen
      PROVE  Explained(r.got, store'[r.id])
  <2>1. /\ NoRecord \notin r.seen /\ Exists(store', r.id) /\ Exists(store, r.id)
        /\ r.id \in used /\ r.id \in Ids
    BY <1>1, <1>2 DEF ReadFits, Exists, StoreOK, UsedCovers, Live
  <2>2. store[r.id].audit \subseteq store'[r.id].audit
    BY <2>1 DEF StoreStep, Lengthened
  <2>3. Explained(r.got, store[r.id])
    BY <2>1 DEF ReadFits
  <2> QED BY <2>2, <2>3 DEF Explained, Explains
<1>3. q.id \in Ids /\ store'[q.id] \in q.seen /\ \E S : q.got \in Seq(S)
  BY <1>1 DEF ReadFits
<1>4. {"id", "got", "seen"} \subseteq DOMAIN q
  BY <1>1 DEF ReadFits
<1> QED BY <1>1, <1>2, <1>3, <1>4 DEF ReadFits, q

\* The next table is read.
LEMMA TableOn ==
    ASSUME StoreOK, NEW r, ReadFits(r, store), Len(r.got) < Len(Tables),
           NEW q, q = [r EXCEPT !.got = Append(r.got, Columns(store[r.id], Len(r.got) + 1))]
    PROVE  ReadFits(q, store)
<1> DEFINE n == Len(r.got) + 1
           x == Columns(store[r.id], n)
<1>1. PICK S : r.got \in Seq(S)
  BY DEF ReadFits
<1>2. PICK T : T = S \cup {x}
  OBVIOUS
<1>3. r.got \in Seq(T) /\ x \in T /\ Len(r.got) \in Nat
  <2>1. DOMAIN r.got = 1 .. Len(r.got) /\ Len(r.got) \in Nat /\ r.got \in [1 .. Len(r.got) -> S]
    BY <1>1, LenProperties
  <2>2. r.got \in [1 .. Len(r.got) -> T]
    BY <1>2, <2>1
  <2> QED BY <1>2, <2>1, <2>2, SeqDef
<1>4. /\ DOMAIN q = DOMAIN r /\ q.id = r.id /\ q.seen = r.seen
      /\ q.got = Append(r.got, x)
  BY DEF ReadFits
<1>5. n \in 1 .. 5 /\ Len(r.got) = n - 1
  BY <1>3, TablesAre
<1> HIDE DEF x, n
<1>6. /\ q.got \in Seq(T) /\ Len(q.got) = n /\ q.got[n] = x
      /\ \A k \in 1 .. n - 1 : q.got[k] = r.got[k]
  BY <1>3, <1>4, <1>5, AppendProperties
<1>7. ASSUME NoRecord \notin r.seen
      PROVE  Explained(q.got, store[r.id])
  <2>1. /\ Explained(r.got, store[r.id])
        /\ Exists(store, r.id) /\ RowOK(store[r.id]) /\ store[r.id] \in Record
    BY <1>7, ExistsRecord DEF ReadFits, Exists, StoreOK, StoreTypeOK, RowsOK
  <2>2. x = [y \in Tables[n] |-> store[r.id][y]]
    BY <2>1 DEF x, Columns, Exists
  <2>3. CASE n < 3
    BY <1>5, <1>6, <2>3 DEF Explained
  <2>4. CASE n = 3
    <3>1. q.got[3]["status"] = store[r.id].status
      BY <1>6, <2>2, <2>4, TablesAre
    <3>2. Explains(store[r.id].audit, store[r.id].status)
      BY <2>1 DEF RowOK, Explains
    <3> QED BY <1>6, <2>4, <3>1, <3>2 DEF Explained
  <2>5. CASE n = 4
    <3>1. q.got[3] = r.got[3] /\ Len(r.got) >= 3
      BY <1>5, <1>6, <2>5
    <3> QED BY <1>6, <2>1, <2>5, <3>1 DEF Explained
  <2>6. CASE n = 5
    <3>1. q.got[3] = r.got[3] /\ Len(r.got) >= 3
      BY <1>5, <1>6, <2>6
    <3>2. q.got[5]["audit"] = store[r.id].audit
      BY <1>6, <2>2, <2>6, TablesAre
    <3>3. Explains(store[r.id].audit, q.got[3]["status"])
      BY <2>1, <3>1 DEF Explained
    <3> QED BY <1>6, <2>6, <3>2, <3>3 DEF Explained
  <2> QED BY <1>5, <2>3, <2>4, <2>5, <2>6
<1> QED BY <1>4, <1>6, <1>7 DEF ReadFits

\* Every step keeps what the reads know.
LEMMA ReadStep ==
    ASSUME TxInv, ReadsOK, [TxNext]_txVars
    PROVE  ReadsOK'
<1> USE DEF TxInv, ReadsOK
<1>1. ASSUME StoreStep \/ UNCHANGED <<store, used>>, Witnessed
      PROVE  ReadsOK'
  <2>1. DOMAIN reads' = Readers
    BY <1>1 DEF Witnessed
  <2>2. ASSUME NEW c \in Readers, reads'[c] # NoTx
        PROVE  ReadFits(reads'[c], store')
    <3> DEFINE r == reads[c]
    <3>1. r # NoTx /\ ReadFits(r, store)
          /\ reads'[c] = [r EXCEPT !.seen = r.seen \cup {store'[r.id]}]
      BY <1>1, <2>2 DEF Witnessed
    <3> HIDE DEF r
    <3>2. StoreStep
      BY <1>1 DEF StoreStep, StoreOK, StoreTypeOK, UsedCovers, Lengthened
    <3> QED BY <3>1, <3>2, SeenOn
  <2> QED BY <2>1, <2>2
<1>2. ASSUME NEW c \in Readers, NEW i \in Ids, ReadStart(c, i)
      PROVE  ReadsOK'
  <2> DEFINE q == [id |-> i, got |-> <<Columns(store[i], 1)>>, seen |-> {store[i]}]
  <2>1. ReadFits(q, store)
    <3>1. \E S : <<Columns(store[i], 1)>> \in Seq(S)
      <4> PICK S : S = {Columns(store[i], 1)}
        OBVIOUS
      <4> QED OBVIOUS
    <3>2. Len(q.got) = 1
      OBVIOUS
    <3>3. Explained(q.got, store[i])
      BY <3>2 DEF Explained
    <3> QED BY <3>1, <3>3 DEF ReadFits
  <2>2. reads' = [reads EXCEPT ![c] = q] /\ UNCHANGED store
    BY <1>2 DEF ReadStart
  <2> HIDE DEF q
  <2> QED BY <2>1, <2>2
<1>3. ASSUME NEW c \in Readers, ReadTable(c)
      PROVE  ReadsOK'
  <2> DEFINE r == reads[c]
             q == [r EXCEPT !.got = Append(r.got, Columns(store[r.id], Len(r.got) + 1))]
  <2>1. /\ ReadFits(r, store) /\ Len(r.got) < Len(Tables)
        /\ reads' = [reads EXCEPT ![c] = q] /\ UNCHANGED store
    BY <1>3 DEF ReadTable
  <2> HIDE DEF r
  <2>2. ReadFits(q, store)
    BY <2>1, TableOn
  <2> HIDE DEF q
  <2> QED BY <2>1, <2>2
<1>4. ASSUME NEW c \in Readers, ReadEnd(c)
      PROVE  ReadsOK'
  BY <1>4 DEF ReadEnd
<1>5. ASSUME UNCHANGED txVars
      PROVE  ReadsOK'
  BY <1>5 DEF txVars
<1>6. StoreStep \/ UNCHANGED <<store, used>>
  BY TxStep, RevisionStep, OtherStep
<1> QED BY <1>1, <1>2, <1>3, <1>4, <1>5, <1>6 DEF TxNext, ReaderNext

\* RevisionExplained: GetRecord reads five tables outside any transaction, so its answer
\* may mix versions of the record; still, if it shows a retraction or a contest, it
\* shows the log entry of the revision that did it.
THEOREM RevisionsExplained == TxSpec => []RevisionExplained
<1>1. TxInit => TxInv /\ ReadsOK
  BY TxInitInv DEF TxInit, ReadsOK
<1>2. TxInv /\ ReadsOK /\ [TxNext]_txVars => (TxInv /\ ReadsOK)'
  BY TxStep, ReadStep
<1>3. TxInv /\ ReadsOK => RevisionExplained
  <2> SUFFICES ASSUME ReadsOK, NEW c \in Readers, ReadComplete(c), NoRecord \notin reads[c].seen
               PROVE  Explains(Shown(c, "audit"), Shown(c, "status"))
    BY DEF RevisionExplained, Explains
  <2>1. Len(reads[c].got) = 5 /\ Explained(reads[c].got, store[reads[c].id])
    BY TablesAre DEF ReadsOK, ReadComplete, ReadFits
  <2>2. Shown(c, "status") = reads[c].got[3]["status"]
    BY TablesAre DEF Shown
  <2>3. Shown(c, "audit") = reads[c].got[5]["audit"]
    BY TablesAre DEF Shown
  <2> QED BY <2>1, <2>2, <2>3 DEF Explained
<1> QED BY <1>1, <1>2, <1>3, PTL DEF TxSpec
=============================================================================
