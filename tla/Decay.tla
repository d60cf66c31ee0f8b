------------------------------- MODULE Decay -------------------------------
(***************************************************************************)
(* The decay service and its scheduler (src/membrain/pkg/decay).  A sweep  *)
(* lists the records once, decays the listed ones one transaction at a     *)
(* time, lists again and deletes the faded ones one transaction at a time. *)
(* Between any two of these steps every other service may run, and with    *)
(* the Postgres backend so may the sweep of another daemon: what a sweep   *)
(* acts on is a list that may be stale.                                    *)
(***************************************************************************)
EXTENDS RecordStore

CONSTANTS
    Daemons,      \* membraned processes sharing the store
    Rated,        \* the records clients reinforce and penalize
    Penalties,    \* the amounts clients penalize by
    MaxFaults     \* how many sweeps an outside error may break off

VARIABLES
    sweeps,       \* per daemon: the phase of its sweep and the ids left in it
    faults        \* sweeps broken off by an outside error so far

ASSUME DecayAssumption ==
    /\ Rated \subseteq Ids
    /\ Penalties \subseteq Salience
    /\ MaxFaults \in Nat

SweepType == [phase : {"idle", "decay", "prune"}, todo : SUBSET Ids]

SweepsTypeOK ==
    /\ sweeps \in [Daemons -> SweepType]
    /\ faults \in 0 .. MaxFaults

IdleSweep == [phase |-> "idle", todo |-> {}]

InitSweeps == sweeps = [d \in Daemons |-> IdleSweep] /\ faults = 0

-----------------------------------------------------------------------------
\* Exponential with the elapsed time left open: any value between nothing
\* and the current one, raised to the floor.  A half-life of zero or an
\* elapsed time of zero keeps the value (still raised to the floor).
Exponential(current, floor) == {AtLeast(v, floor) : v \in 0 .. current}

\* The values ApplyDecay may store: zero once a maximum age has passed, zero
\* if it was zero already, the decay curve otherwise.
DecayedTo(r) ==
    (IF r.ages THEN {0} ELSE {})
        \cup (IF r.salience = 0 THEN {0} ELSE Exponential(r.salience, r.floor))

\* Records Prune deletes: at or below their floor and close to zero (< 0.001,
\* less than one unit).
PrunableAnyPolicy(r) == ~r.pinned /\ r.salience = 0   \* wrong: policy ignored
Prunable(r) ==
    /\ ~r.pinned
    /\ r.policy = "auto_prune"
    /\ r.salience <= r.floor
    /\ r.salience = 0

\* ApplyDecay, one transaction.
DecayedStore(s, i, v) == AddAuditEntry(UpdateSalience(s, i, v), i, "decay")

\* Reinforce, one transaction.  It does not ask whether the record was
\* retracted.
ReinforcedFreely(r) == [r EXCEPT !.salience = r.salience + r.gain]   \* wrong: no cap
Reinforced(r) == [r EXCEPT !.salience = AtMost(r.salience + r.gain, MaxSalience)]

Reinforce(i) ==
    /\ Exists(store, i)
    /\ store' = AddAuditEntry(UpdateRecord(store, i, Reinforced(store[i])),
                              i, "reinforce")
    /\ UNCHANGED <<used, sweeps, faults>>

\* Penalize, one transaction.
Penalized(r, amount) == AtLeast(r.salience - amount, r.floor)

Penalize(i, amount) ==
    /\ Exists(store, i)
    /\ store' = AddAuditEntry(
                    UpdateSalience(store, i, Penalized(store[i], amount)),
                    i, "decay")
    /\ UNCHANGED <<used, sweeps, faults>>

-----------------------------------------------------------------------------
\* A tick: ApplyDecayAll lists the records and keeps the ones not pinned.
SweepStart(d) ==
    /\ sweeps[d].phase = "idle"
    /\ sweeps' = [sweeps EXCEPT ![d] =
           [phase |-> "decay", todo |-> {i \in Live(store) : ~store[i].pinned}]]
    /\ UNCHANGED <<store, used, faults>>

SweepDecay(d) ==
    /\ sweeps[d].phase = "decay"
    /\ \E i \in sweeps[d].todo :
         /\ Exists(store, i)
         /\ \E v \in DecayedTo(store[i]) : store' = DecayedStore(store, i, v)
         /\ sweeps' = [sweeps EXCEPT ![d].todo = sweeps[d].todo \ {i}]
    /\ UNCHANGED <<used, faults>>

\* Wrong: only records strictly below their floor.
SweepListBelow(d) ==
    /\ sweeps[d].phase = "decay"
    /\ sweeps[d].todo = {}
    /\ sweeps' = [sweeps EXCEPT ![d] =
           [phase |-> "prune",
            todo |-> {i \in Live(store) : store[i].salience < store[i].floor}]]
    /\ UNCHANGED <<store, used, faults>>

\* Every record decayed: Prune lists the records and keeps the prunable ones.
SweepList(d) ==
    /\ sweeps[d].phase = "decay"
    /\ sweeps[d].todo = {}
    /\ sweeps' = [sweeps EXCEPT ![d] =
           [phase |-> "prune", todo |-> {i \in Live(store) : Prunable(store[i])}]]
    /\ UNCHANGED <<store, used, faults>>

\* deletePruned, one transaction: the audit entry it adds goes with the
\* record.  It does not look at the record again.
SweepPrune(d) ==
    /\ sweeps[d].phase = "prune"
    /\ \E i \in sweeps[d].todo :
         /\ Exists(store, i)
         /\ store' = DeleteRecord(AddAuditEntry(store, i, "delete"), i)
         /\ sweeps' = [sweeps EXCEPT ![d].todo = sweeps[d].todo \ {i}]
    /\ UNCHANGED <<used, faults>>

SweepEnd(d) ==
    /\ sweeps[d].phase = "prune"
    /\ sweeps[d].todo = {}
    /\ sweeps' = [sweeps EXCEPT ![d] = IdleSweep]
    /\ UNCHANGED <<store, used, faults>>

\* A listed record is gone: ErrNotFound breaks the sweep off, and with it the
\* prune phase that was to follow.
SweepNotFound(d) ==
    /\ \E i \in sweeps[d].todo : ~Exists(store, i)
    /\ sweeps' = [sweeps EXCEPT ![d] = IdleSweep]
    /\ UNCHANGED <<store, used, faults>>

\* A transaction fails (busy database, lost connection): the same, with the
\* records decayed or pruned before it left as they are.
SweepFault(d) ==
    /\ sweeps[d].phase # "idle"
    /\ faults < MaxFaults
    /\ faults' = faults + 1
    /\ sweeps' = [sweeps EXCEPT ![d] = IdleSweep]
    /\ UNCHANGED <<store, used>>

SweepNext(d) ==
    \/ SweepStart(d)
    \/ SweepDecay(d)
    \/ SweepList(d)
    \/ SweepPrune(d)
    \/ SweepEnd(d)
    \/ SweepNotFound(d)
    \/ SweepFault(d)

DecayNext ==
    \/ \E i \in Rated : Reinforce(i)
    \/ \E i \in Rated, amount \in Penalties : Penalize(i, amount)
    \/ \E d \in Daemons : SweepNext(d)
=============================================================================
