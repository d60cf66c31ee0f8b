--------------------------- MODULE TaskListProofs ---------------------------
(***************************************************************************)
(* Theorems of module TaskList, for any number of agents, calls and kills. *)
(*                                                                         *)
(* UpdatesNeverLost: an update reads the task under its lock, so what it   *)
(* writes over can only have changed if somebody writes a task file        *)
(* without that lock.  createTask does: it holds the lock of the list      *)
(* instead.  The invariant, UpdateInv, says that whoever is past its read  *)
(* holds the lock, and that a file that is being created for the first     *)
(* time is nobody's update yet.                                            *)
(*                                                                         *)
(* LocksReturned: an agent is at one of the places of its call, holds the  *)
(* locks of that place and no other (Fits).                                *)
(*                                                                         *)
(* IdsStayDistinct: an id that was given is remembered by the mark or by a *)
(* file that is not below it, and whoever is about to number a task or to  *)
(* clear the list has counted them all; while the mark is empty, because   *)
(* it is being written, the file of the highest is still there (Numbered). *)
(*                                                                         *)
(* ClaimedByOne: a task is its claimant's own in every copy that will be   *)
(* written, and no update that is under way takes it from him (Claimed):   *)
(* no claim is under way beside a call that sets an owner it decided on    *)
(* from an old copy (KeptApart).                                           *)
(*                                                                         *)
(* BlocksMatch: one relation between the tasks agrees with all that can be *)
(* read or is about to be written, and with all that is still to be set;   *)
(* the calls that change it are alone, and a file that cannot be read is   *)
(* being written; while the list is cleared, what is left of it says       *)
(* nothing, and once it is empty no pair is left (LinkInv).                *)
(***************************************************************************)
EXTENDS TaskList, SequenceTheorems, WellFoundedInduction, TLAPS

IsCall(c) == {"pc", "id"} \subseteq DOMAIN c
IsUpdate(u) == {"pc", "id", "task"} \subseteq DOMAIN u

Shaped ==
  /\ DOMAIN call = Agents /\ \A a \in Agents : IsCall(call[a])
  /\ DOMAIN update = Agents /\ \A a \in Agents : IsUpdate(update[a])
  /\ DOMAIN files \subseteq Ids /\ DOMAIN taskLock = Ids /\ given \in [Ids -> Nat]

\* An update past its lock, and a claim up to its update, hold the lock of the task.
LocksHeld ==
  \A a \in Agents :
    /\ update[a].pc \in {"read", "truncate", "write"} =>
         update[a].id \in Ids /\ Holds(a, update[a].id)
    /\ call[a].pc \in {"owner", "blockers"} => call[a].id \in Ids /\ Holds(a, call[a].id)

\* An agent that is in an update is in no other place of its call.
OnePlace == \A a \in Agents : update[a].pc # "idle" => call[a].pc = "updates"

\* An agent has read the task of its update and is going to write it.
Working(a) == update[a].pc \in {"truncate", "write"}

\* The file of a task that is created under an id that was never given before cannot be
\* read yet, nobody updates it, and nobody else creates it.
FillsAlone ==
  \A b \in Agents :
    call[b].pc = "fill" =>
      /\ call[b].id \in Ids /\ given[call[b].id] >= 1
      /\ given[call[b].id] <= 1 =>
           /\ call[b].id \notin Readable
           /\ \A a \in Agents : Working(a) => update[a].id # call[b].id
           /\ \A c \in Agents : call[c].pc = "fill" /\ call[c].id = call[b].id => c = b

\* An id that has not been given yet has no file and no update.
NewUnused ==
  \A i \in Ids :
    given[i] = 0 => i \notin DOMAIN files /\ \A a \in Agents : Working(a) => update[a].id # i

\* What an update has read is what the file says, until it is opened to be written; then
\* it cannot be read.
Copied(a) ==
  update[a].id \in Readable =>
    /\ update[a].pc = "truncate" =>
         files[update[a].id] = update[a].task \/ given[update[a].id] > 1
    /\ update[a].pc = "write" => given[update[a].id] > 1

Merges == \A a \in Agents : Copied(a)

UpdateInv == Shaped /\ LocksHeld /\ OnePlace /\ FillsAlone /\ NewUnused /\ Merges

-----------------------------------------------------------------------------
(* The steps that do not write.                                            *)

\* A step that at most removes files, and goes on to a place where the lock it needs is
\* held, where no file is filled and no copy of a task is about to be written.
LEMMA KeepsStep ==
  ASSUME UpdateInv, NEW a \in Agents, Shaped', UNCHANGED given,
         \A b \in Agents \ {a} : call'[b] = call[b] /\ update'[b] = update[b],
         \A b \in Agents \ {a}, i \in Ids : taskLock[i] = b => taskLock'[i] = b,
         update'[a].pc = "read" => update'[a].id \in Ids /\ taskLock'[update'[a].id] = a,
         call'[a].pc \in {"owner", "blockers"} =>
           call'[a].id \in Ids /\ taskLock'[call'[a].id] = a,
         update'[a].pc # "idle" => call'[a].pc = "updates",
         update'[a].pc \notin {"truncate", "write"}, call'[a].pc # "fill",
         DOMAIN files' \subseteq DOMAIN files,
         \A i \in DOMAIN files' : files'[i] = files[i]
  PROVE  UpdateInv'
<1> USE DEF UpdateInv
<1>1. Readable' \subseteq Readable
  BY DEF Readable
<1>2. LocksHeld'
  <2> SUFFICES ASSUME NEW b \in Agents
               PROVE  /\ update'[b].pc \in {"read", "truncate", "write"} =>
                           update'[b].id \in Ids /\ taskLock'[update'[b].id] = b
                      /\ call'[b].pc \in {"owner", "blockers"} =>
                           call'[b].id \in Ids /\ taskLock'[call'[b].id] = b
    BY DEF LocksHeld, Holds
  <2>1. CASE b = a
    BY <2>1
  <2>2. CASE b # a
    BY <2>2 DEF LocksHeld, Holds
  <2> QED
    BY <2>1, <2>2
<1>3. OnePlace'
  BY DEF OnePlace
<1>4. \A b \in Agents : /\ call'[b].pc = "fill" => b # a /\ call'[b] = call[b]
                        /\ Working(b)' => b # a /\ update'[b] = update[b] /\ Working(b)
  BY DEF Working
<1>5. FillsAlone'
  BY <1>1, <1>4 DEF FillsAlone, Working
<1>6. NewUnused'
  BY <1>4 DEF NewUnused, Working
<1>7. Merges'
  <2> SUFFICES ASSUME NEW b \in Agents, Working(b)', update'[b].id \in Readable'
               PROVE  Copied(b)'
    BY DEF Merges, Copied, Working
  <2>1. update'[b] = update[b] /\ files'[update[b].id] = files[update[b].id]
    BY <1>4 DEF Readable
  <2>2. update[b].id \in Readable /\ Copied(b)
    BY <1>1, <2>1 DEF Merges
  <2> QED
    BY <2>1, <2>2 DEF Copied
<1> QED
  BY <1>2, <1>3, <1>5, <1>6, <1>7

\* A step outside an update that goes on to such a place.
LEMMA QuietStep ==
  ASSUME UpdateInv, NEW a \in Agents, update[a] = NoUpdate, NEW r, IsCall(r),
         call' = [call EXCEPT ![a] = r], r.pc \notin {"owner", "blockers", "fill"},
         UNCHANGED <<update, taskLock, given>>, DOMAIN files' \subseteq DOMAIN files,
         \A i \in DOMAIN files' : files'[i] = files[i]
  PROVE  UpdateInv'
<1>1. /\ DOMAIN call' = Agents /\ call'[a] = r
      /\ \A b \in Agents \ {a} : call'[b] = call[b]
  BY DEF UpdateInv, Shaped
<1>2. Shaped'
  BY <1>1 DEF UpdateInv, Shaped
<1>3. update'[a].pc = "idle"
  BY DEF NoUpdate
<1> QED
  BY <1>1, <1>2, <1>3, KeepsStep

-----------------------------------------------------------------------------
(* The steps that write.                                                   *)

\* createTask opens the file of a new id.
LEMMA CreateStep ==
  ASSUME UpdateInv, NEW a \in Agents, CreateFile(a), update[a] = NoUpdate
  PROVE  UpdateInv'
<1> DEFINE n == NextId(call[a])
<1> USE DEF UpdateInv
<1>1. /\ n \in Ids /\ given' = [given EXCEPT ![n] = @ + 1]
      /\ Write(n, Torn)
      /\ call' = [call EXCEPT ![a].id = n, ![a].pc = "fill"]
      /\ UNCHANGED <<update, taskLock>>
  BY DEF CreateFile
<1> HIDE DEF n
<1>2. /\ DOMAIN files' = DOMAIN files \cup {n} /\ files'[n] = Torn
      /\ \A i \in DOMAIN files \ {n} : files'[i] = files[i]
  BY <1>1 DEF Write
<1>3. /\ call'[a].pc = "fill" /\ call'[a].id = n /\ IsCall(call'[a]) /\ DOMAIN call' = Agents
      /\ \A b \in Agents \ {a} : call'[b] = call[b]
  BY <1>1 DEF Shaped, IsCall
<1>4. /\ given' \in [Ids -> Nat] /\ given'[n] = given[n] + 1 /\ given[n] \in Nat
      /\ \A i \in Ids \ {n} : given'[i] = given[i] /\ given[i] \in Nat
  BY <1>1 DEF Shaped
<1>5. Shaped'
  BY <1>1, <1>2, <1>3, <1>4 DEF Shaped
<1>6. Readable' = Readable \ {n} /\ \A i \in Readable' : files'[i] = files[i]
  BY <1>2 DEF Readable
<1>7. LocksHeld'
  BY <1>1, <1>3 DEF LocksHeld, Holds
<1>11. OnePlace'
  BY <1>1, <1>3 DEF OnePlace, NoUpdate
<1>8. FillsAlone'
  <2> SUFFICES ASSUME NEW b \in Agents, call'[b].pc = "fill"
               PROVE  /\ call'[b].id \in Ids /\ given'[call'[b].id] >= 1
                      /\ given'[call'[b].id] <= 1 =>
                           /\ call'[b].id \notin Readable'
                           /\ \A d \in Agents : Working(d)' => update'[d].id # call'[b].id
                           /\ \A c \in Agents : call'[c].pc = "fill" /\ call'[c].id = call'[b].id
                                                  => c = b
    BY DEF FillsAlone
  <2>1. CASE b = a
    <3>1. \A c \in Agents \ {a} : call'[c].pc = "fill" /\ call'[c].id = n => given[n] >= 1
      BY <1>3 DEF FillsAlone
    <3>2. given[n] = 0 => \A d \in Agents : Working(d) => update[d].id # n
      BY <1>1 DEF NewUnused
    <3> QED
      BY <1>1, <1>3, <1>4, <1>6, <2>1, <3>1, <3>2 DEF Working
  <2>2. CASE b # a /\ call[b].id = n
    BY <1>3, <1>4, <2>2 DEF FillsAlone
  <2>3. CASE b # a /\ call[b].id # n
    <3>1. call'[b] = call[b] /\ call[b].pc = "fill" /\ given'[call[b].id] = given[call[b].id]
      BY <1>3, <1>4, <2>3 DEF FillsAlone
    <3> QED
      BY <1>1, <1>3, <1>6, <2>3, <3>1 DEF FillsAlone, Working
  <2> QED
    BY <2>1, <2>2, <2>3
<1>9. NewUnused'
  BY <1>1, <1>2, <1>4 DEF NewUnused, Working
<1>10. Merges'
  <2> SUFFICES ASSUME NEW b \in Agents, update'[b].id \in Readable' PROVE Copied(b)'
    BY DEF Merges, Copied
  <2>1. update'[b] = update[b] /\ update[b].id \in Readable \ {n} /\ update[b].id \in Ids
    BY <1>1, <1>6 DEF Readable, Shaped
  <2>2. Copied(b) /\ files'[update[b].id] = files[update[b].id]
        /\ given'[update[b].id] = given[update[b].id]
    BY <1>1, <1>4, <1>6, <2>1 DEF Merges
  <2> QED
    BY <2>1, <2>2 DEF Copied
<1> QED
  BY <1>5, <1>7, <1>8, <1>9, <1>10, <1>11

\* createTask fills the file it has opened.
LEMMA FillStep ==
  ASSUME UpdateInv, NEW a \in Agents, FillFile(a), update[a] = NoUpdate
  PROVE  UpdateInv'
<1> DEFINE n == call[a].id
<1> USE DEF UpdateInv
<1>1. /\ call[a].pc = "fill" /\ Write(n, NewTask) /\ call' = [call EXCEPT ![a] = NoCall]
      /\ UNCHANGED <<update, taskLock, given>>
  BY DEF FillFile, Ends
<1>2. n \in Ids /\ given[n] >= 1 /\ given[n] \in Nat
  BY <1>1 DEF FillsAlone, Shaped
<1>3. given[n] <= 1 =>
        /\ \A b \in Agents : Working(b) => update[b].id # n
        /\ \A c \in Agents : call[c].pc = "fill" /\ call[c].id = n => c = a
  BY <1>1 DEF FillsAlone
<1> HIDE DEF n
<1>4. /\ DOMAIN files' = DOMAIN files \cup {n}
      /\ \A i \in DOMAIN files \ {n} : files'[i] = files[i]
  BY <1>1 DEF Write
<1>5. /\ call'[a] = NoCall /\ DOMAIN call' = Agents
      /\ \A b \in Agents \ {a} : call'[b] = call[b]
  BY <1>1 DEF Shaped
<1>6. IsCall(NoCall) /\ NoCall.pc = "idle"
  BY DEF NoCall, IsCall
<1>7. Shaped'
  BY <1>1, <1>2, <1>4, <1>5, <1>6 DEF Shaped
<1>8. LocksHeld'
  BY <1>1, <1>5, <1>6 DEF LocksHeld, Holds
<1>13. OnePlace'
  BY <1>1, <1>5 DEF OnePlace, NoUpdate
<1>9. Readable' \subseteq Readable \cup {n}
      /\ \A i \in Readable' \ {n} : i \in Readable /\ files'[i] = files[i]
  BY <1>4 DEF Readable
<1>10. FillsAlone'
  <2> SUFFICES ASSUME NEW b \in Agents, call'[b].pc = "fill"
               PROVE  /\ call'[b].id \in Ids /\ given'[call'[b].id] >= 1
                      /\ given'[call'[b].id] <= 1 =>
                           /\ call'[b].id \notin Readable'
                           /\ \A d \in Agents : Working(d)' => update'[d].id # call'[b].id
                           /\ \A c \in Agents : call'[c].pc = "fill" /\ call'[c].id = call'[b].id
                                                  => c = b
    BY DEF FillsAlone
  <2>1. b # a /\ call'[b] = call[b] /\ call[b].pc = "fill"
    BY <1>5, <1>6
  <2>2. given[call[b].id] <= 1 => call[b].id # n
    BY <1>3, <2>1
  <2>3. \A c \in Agents : call'[c].pc = "fill" => c # a /\ call'[c] = call[c]
    BY <1>5, <1>6
  <2> QED
    BY <1>1, <1>9, <2>1, <2>2, <2>3 DEF FillsAlone, Working
<1>11. NewUnused'
  BY <1>1, <1>2, <1>4 DEF NewUnused, Working
<1>12. Merges'
  <2> SUFFICES ASSUME NEW b \in Agents, Working(b), update[b].id \in Readable' PROVE Copied(b)'
    BY <1>1 DEF Merges, Copied, Working
  <2>1. CASE update[b].id = n
    BY <1>1, <1>2, <1>3, <2>1 DEF Copied
  <2>2. CASE update[b].id # n
    <3>1. update[b].id \in Readable /\ files'[update[b].id] = files[update[b].id] /\ Copied(b)
      BY <1>9, <2>2 DEF Merges
    <3> QED
      BY <1>1, <3>1 DEF Copied
  <2> QED
    BY <2>1, <2>2
<1> QED
  BY <1>7, <1>8, <1>10, <1>11, <1>12, <1>13

\* updateTaskUnsafe has read the task.
LEMMA ReadStep ==
  ASSUME UpdateInv, NEW a \in Agents, ReadToUpdate(a), update[a].id \in Readable
  PROVE  UpdateInv'
<1> DEFINE n == update[a].id
<1> USE DEF UpdateInv
<1>1. /\ update[a].pc = "read" /\ UNCHANGED <<files, given, taskLock, call>>
      /\ update' = [update EXCEPT ![a].pc = "truncate", ![a].task = files[n]]
  BY DEF ReadToUpdate, ReadAgain
<1>2. /\ DOMAIN update' = Agents /\ IsUpdate(update'[a])
      /\ update'[a].pc = "truncate" /\ update'[a].task = files[n] /\ update'[a].id = n
      /\ \A b \in Agents \ {a} : update'[b] = update[b]
  BY <1>1 DEF Shaped, IsUpdate
<1>3. n \in Ids /\ Holds(a, n) /\ n \in Readable
  BY <1>1 DEF LocksHeld
<1> HIDE DEF n
<1>4. Readable' = Readable /\ n \in DOMAIN files
  BY <1>1, <1>3 DEF Readable
<1>5. Shaped'
  BY <1>1, <1>2 DEF Shaped
<1>6. LocksHeld'
  BY <1>1, <1>2, <1>3 DEF LocksHeld, Holds
<1>7. OnePlace'
  BY <1>1, <1>2 DEF OnePlace
<1>8. FillsAlone'
  BY <1>1, <1>2, <1>3, <1>4 DEF FillsAlone, Working
<1>9. NewUnused'
  BY <1>1, <1>2, <1>4 DEF NewUnused, Working
<1>10. Merges'
  BY <1>1, <1>2, <1>4 DEF Merges, Copied
<1> QED
  BY <1>5, <1>6, <1>7, <1>8, <1>9, <1>10

\* writeFile opens the file of the task it updates.
LEMMA TruncateStep ==
  ASSUME UpdateInv, NEW a \in Agents, TruncateToUpdate(a)
  PROVE  UpdateInv'
<1> DEFINE n == update[a].id
<1> USE DEF UpdateInv
<1>1. /\ update[a].pc = "truncate" /\ Write(n, Torn) /\ UNCHANGED <<given, taskLock, call>>
      /\ update' = [update EXCEPT ![a].pc = "write"]
  BY DEF TruncateToUpdate
<1>2. /\ DOMAIN update' = Agents /\ IsUpdate(update'[a])
      /\ update'[a].pc = "write" /\ update'[a].id = n
      /\ \A b \in Agents \ {a} : update'[b] = update[b]
  BY <1>1 DEF Shaped, IsUpdate
<1>3. n \in Ids /\ Holds(a, n) /\ given[n] # 0
  BY <1>1 DEF LocksHeld, NewUnused, Working
<1> HIDE DEF n
<1>4. /\ DOMAIN files' = DOMAIN files \cup {n} /\ files'[n] = Torn
      /\ \A i \in DOMAIN files \ {n} : files'[i] = files[i]
  BY <1>1 DEF Write
<1>5. Readable' = Readable \ {n} /\ \A i \in Readable' : files'[i] = files[i]
  BY <1>4 DEF Readable
<1>6. \A b \in Agents : update'[b].id = update[b].id /\ (Working(b)' => Working(b))
  BY <1>1, <1>2 DEF Working
<1>7. Shaped'
  BY <1>1, <1>2, <1>3, <1>4 DEF Shaped
<1>8. LocksHeld'
  BY <1>1, <1>2, <1>3 DEF LocksHeld, Holds
<1>9. OnePlace'
  BY <1>1, <1>2 DEF OnePlace
<1>10. FillsAlone'
  BY <1>1, <1>5, <1>6 DEF FillsAlone
<1>11. NewUnused'
  BY <1>1, <1>3, <1>4, <1>6 DEF NewUnused
<1>12. Merges'
  <2> SUFFICES ASSUME NEW b \in Agents, update'[b].id \in Readable' PROVE Copied(b)'
    BY DEF Merges, Copied
  <2>1. update'[b] = update[b] /\ Copied(b) /\ update[b].id \in Readable
    BY <1>2, <1>5 DEF Merges
  <2>2. files'[update[b].id] = files[update[b].id] /\ given' = given
    BY <1>1, <1>5, <2>1
  <2> QED
    BY <2>1, <2>2 DEF Copied
<1> QED
  BY <1>7, <1>8, <1>9, <1>10, <1>11, <1>12

\* The update is written: nobody else is about to write this task.
LEMMA WriteStep ==
  ASSUME UpdateInv, NEW a \in Agents, WriteUpdate(a)
  PROVE  UpdateInv'
<1> DEFINE n == update[a].id
           content == Over(update[a].fields, update[a].task)
<1> USE DEF UpdateInv
<1>1. /\ update[a].pc = "write" /\ Write(n, content) /\ UNCHANGED <<given, call>>
      /\ update' = [update EXCEPT ![a] = NoUpdate]
      /\ taskLock' = [taskLock EXCEPT ![n] = IF @ = a THEN NoOne ELSE @]
  BY DEF WriteUpdate, UpdateEnds, Free
<1>2. n \in Ids /\ taskLock[n] = a /\ given[n] # 0
  BY <1>1 DEF LocksHeld, NewUnused, Working, Holds
<1>3. \A b \in Agents : call[b].pc = "fill" /\ given[call[b].id] <= 1 => call[b].id # n
  BY <1>1 DEF FillsAlone, Working
<1>4. \A b \in Agents \ {a} : Working(b) => update[b].id # n
  BY <1>2 DEF LocksHeld, Working, Holds
<1> HIDE DEF n, content
<1>5. /\ DOMAIN update' = Agents /\ update'[a] = NoUpdate
      /\ \A b \in Agents \ {a} : update'[b] = update[b]
  BY <1>1 DEF Shaped
<1>6. IsUpdate(NoUpdate) /\ NoUpdate.pc = "idle"
  BY DEF NoUpdate, IsUpdate
<1>7. /\ DOMAIN files' = DOMAIN files \cup {n}
      /\ \A i \in DOMAIN files \ {n} : files'[i] = files[i]
  BY <1>1 DEF Write
<1>8. \A i \in Readable' \ {n} : i \in Readable /\ files'[i] = files[i]
  BY <1>7 DEF Readable
<1>9. \A b \in Agents : Working(b)' => b # a /\ update'[b] = update[b] /\ Working(b)
  BY <1>5, <1>6 DEF Working
<1>10. Shaped'
  BY <1>1, <1>2, <1>5, <1>6, <1>7 DEF Shaped
<1>11. \A b \in Agents \ {a}, i \in Ids : taskLock[i] = b => taskLock'[i] = b
  BY <1>1 DEF Shaped
<1>12. LocksHeld'
  <2>1. call[a].pc \notin {"owner", "blockers"}
    BY <1>1 DEF OnePlace
  <2> QED
    BY <1>1, <1>5, <1>6, <1>11, <2>1 DEF LocksHeld, Holds
<1>13. OnePlace'
  BY <1>1, <1>5, <1>6 DEF OnePlace
<1>14. FillsAlone'
  BY <1>1, <1>3, <1>8, <1>9 DEF FillsAlone
<1>15. NewUnused'
  BY <1>1, <1>2, <1>7, <1>9 DEF NewUnused
<1>16. Merges'
  <2> SUFFICES ASSUME NEW b \in Agents, Working(b)', update'[b].id \in Readable' PROVE Copied(b)'
    BY DEF Merges, Copied, Working
  <2>1. update'[b] = update[b] /\ update[b].id # n /\ Copied(b)
    BY <1>4, <1>9 DEF Merges
  <2> QED
    BY <1>1, <1>8, <2>1 DEF Copied
<1> QED
  BY <1>10, <1>12, <1>13, <1>14, <1>15, <1>16

-----------------------------------------------------------------------------
(* The steps of an update that do not write.                               *)

LEMMA CheckStep ==
  ASSUME UpdateInv, NEW a \in Agents, CheckTask(a)
  PROVE  UpdateInv'
<1>1. /\ update[a].pc = "check" /\ UNCHANGED <<files, taskLock, call, given>>
      /\ \/ update' = [update EXCEPT ![a].pc = "lock", ![a].task = ReadAgain(a)]
         \/ update' = [update EXCEPT ![a] = NoUpdate]
  BY DEF CheckTask, UpdateEnds
<1>2. /\ DOMAIN update' = Agents /\ \A b \in Agents \ {a} : update'[b] = update[b]
      /\ IsUpdate(update'[a]) /\ update'[a].pc \in {"lock", "idle"}
  BY <1>1 DEF UpdateInv, Shaped, IsUpdate, NoUpdate
<1>3. Shaped'
  BY <1>1, <1>2 DEF UpdateInv, Shaped
<1>4. call[a].pc = "updates"
  BY <1>1 DEF UpdateInv, OnePlace
<1> QED
  BY <1>1, <1>2, <1>3, <1>4, KeepsStep

LEMMA LockStep ==
  ASSUME UpdateInv, NEW a \in Agents, LockToUpdate(a)
  PROVE  UpdateInv'
<1>1. /\ update[a].pc = "lock" /\ call[a].pc = "updates" /\ UNCHANGED <<files, given>>
      /\ DOMAIN call = Agents /\ DOMAIN update = Agents /\ DOMAIN taskLock = Ids
      /\ IsCall(call[a]) /\ IsUpdate(update[a])
  BY DEF LockToUpdate, UpdateInv, OnePlace, Shaped
<1>2. CASE update[a].id \in DOMAIN files
  <2>1. /\ taskLock[update[a].id] = NoOne /\ UNCHANGED call
        /\ taskLock' = [taskLock EXCEPT ![update[a].id] = a]
        /\ update' = [update EXCEPT ![a].pc = "read"] /\ update[a].id \in Ids
    BY <1>2 DEF LockToUpdate, UpdateInv, Shaped
  <2>2. /\ DOMAIN update' = Agents /\ \A b \in Agents \ {a} : update'[b] = update[b]
        /\ IsUpdate(update'[a]) /\ update'[a].pc = "read" /\ update'[a].id = update[a].id
    BY <1>1, <2>1 DEF IsUpdate
  <2>3. /\ DOMAIN taskLock' = Ids /\ taskLock'[update[a].id] = a
        /\ \A b \in Agents, i \in Ids : taskLock[i] = b => taskLock'[i] = b
    BY <1>1, <2>1, TaskListAssumption
  <2>4. Shaped'
    BY <1>1, <2>1, <2>2, <2>3 DEF UpdateInv, Shaped
  <2> QED
    BY <1>1, <2>1, <2>2, <2>3, <2>4, KeepsStep
<1>3. CASE update[a].id \notin DOMAIN files
  <2>1. /\ update' = [update EXCEPT ![a] = NoUpdate] /\ call' = [call EXCEPT ![a] = NoCall]
        /\ UNCHANGED taskLock
    BY <1>3 DEF LockToUpdate, UpdateEnds, Ends
  <2>2. /\ DOMAIN update' = Agents /\ update'[a] = NoUpdate
        /\ DOMAIN call' = Agents /\ call'[a] = NoCall
        /\ \A b \in Agents \ {a} : update'[b] = update[b] /\ call'[b] = call[b]
    BY <1>1, <2>1
  <2>3. /\ IsUpdate(NoUpdate) /\ IsCall(NoCall)
        /\ NoUpdate.pc = "idle" /\ NoCall.pc = "idle"
    BY DEF NoUpdate, NoCall, IsUpdate, IsCall
  <2>4. Shaped'
    BY <1>1, <2>1, <2>2, <2>3 DEF UpdateInv, Shaped
  <2> QED
    BY <1>1, <2>1, <2>2, <2>3, <2>4, KeepsStep
<1> QED
  BY <1>2, <1>3

\* The task has gone, and the lock with it.
LEMMA VanishedStep ==
  ASSUME UpdateInv, NEW a \in Agents, ReadToUpdate(a), update[a].id \notin Readable
  PROVE  UpdateInv'
<1>1. /\ update[a].pc = "read" /\ call[a].pc = "updates" /\ UNCHANGED <<files, given, call>>
      /\ update' = [update EXCEPT ![a] = NoUpdate] /\ Free(a, update[a].id)
  BY DEF ReadToUpdate, UpdateEnds, UpdateInv, OnePlace
<1>2. /\ DOMAIN update' = Agents /\ update'[a] = NoUpdate
      /\ \A b \in Agents \ {a} : update'[b] = update[b]
      /\ DOMAIN taskLock' = Ids
      /\ \A b \in Agents \ {a}, i \in Ids : taskLock[i] = b => taskLock'[i] = b
  BY <1>1 DEF UpdateInv, Shaped, Free
<1>3. IsUpdate(NoUpdate) /\ NoUpdate.pc = "idle"
  BY DEF NoUpdate, IsUpdate
<1>4. Shaped'
  BY <1>1, <1>2, <1>3 DEF UpdateInv, Shaped
<1> QED
  BY <1>1, <1>2, <1>3, <1>4, KeepsStep

LEMMA NextStep ==
  ASSUME UpdateInv, NEW a \in Agents, NextUpdate(a)
  PROVE  UpdateInv'
<1>1. /\ call[a].pc = "updates" /\ update[a] = NoUpdate /\ UNCHANGED <<files, given, taskLock>>
      /\ DOMAIN call = Agents /\ DOMAIN update = Agents /\ IsCall(call[a])
  BY DEF NextUpdate, UpdateInv, Shaped
<1>2. CASE call[a].todo = <<>>
  <2>1. call' = [call EXCEPT ![a] = NoCall] /\ UNCHANGED update
    BY <1>2 DEF NextUpdate, Ends
  <2>2. IsCall(NoCall) /\ NoCall.pc = "idle"
    BY DEF NoCall, IsCall
  <2> QED
    BY <1>1, <2>1, <2>2, QuietStep
<1>3. CASE call[a].todo # <<>>
  <2>1. /\ update' = [update EXCEPT ![a] = Begun(Head(call[a].todo), "check")]
        /\ call' = [call EXCEPT ![a].todo = Tail(@)]
    BY <1>3 DEF NextUpdate
  <2>2. /\ DOMAIN update' = Agents /\ \A b \in Agents \ {a} : update'[b] = update[b]
        /\ IsUpdate(update'[a]) /\ update'[a].pc = "check"
    BY <1>1, <2>1 DEF Begun, NoUpdate, IsUpdate
  <2>3. /\ DOMAIN call' = Agents /\ \A b \in Agents \ {a} : call'[b] = call[b]
        /\ IsCall(call'[a]) /\ call'[a].pc = "updates"
    BY <1>1, <2>1 DEF IsCall
  <2>4. Shaped'
    BY <1>1, <2>2, <2>3 DEF UpdateInv, Shaped
  <2> QED
    BY <1>1, <2>2, <2>3, <2>4, KeepsStep
<1> QED
  BY <1>2, <1>3

LEMMA UpdateSteps ==
  ASSUME UpdateInv, NEW a \in Agents, UpdateStep(a)
  PROVE  UpdateInv'
BY CheckStep, LockStep, ReadStep, VanishedStep, TruncateStep, WriteStep, NextStep
   DEF UpdateStep

-----------------------------------------------------------------------------
(* The steps of a claim.                                                   *)

LEMMA ClaimLockStep ==
  ASSUME UpdateInv, NEW a \in Agents, LockToClaim(a), update[a] = NoUpdate
  PROVE  UpdateInv'
<1>1. /\ UNCHANGED <<files, update, given>> /\ update[a].pc = "idle"
      /\ DOMAIN call = Agents /\ DOMAIN taskLock = Ids /\ IsCall(call[a])
  <2>1. UNCHANGED <<files, update, given>>
    BY DEF LockToClaim
  <2> QED
    BY <2>1 DEF UpdateInv, Shaped, NoUpdate
<1>2. CASE call[a].id \in DOMAIN files
  <2>1. /\ taskLock[call[a].id] = NoOne /\ call[a].id \in Ids
        /\ taskLock' = [taskLock EXCEPT ![call[a].id] = a]
        /\ call' = [call EXCEPT ![a].pc = "owner"]
    BY <1>2 DEF LockToClaim, Goes, UpdateInv, Shaped
  <2>2. /\ DOMAIN call' = Agents /\ \A b \in Agents \ {a} : call'[b] = call[b]
        /\ IsCall(call'[a]) /\ call'[a].pc = "owner" /\ call'[a].id = call[a].id
    BY <1>1, <2>1 DEF IsCall
  <2>3. /\ DOMAIN taskLock' = Ids /\ taskLock'[call[a].id] = a
        /\ \A b \in Agents, i \in Ids : taskLock[i] = b => taskLock'[i] = b
    BY <1>1, <2>1, TaskListAssumption
  <2>4. Shaped'
    BY <1>1, <2>2, <2>3 DEF UpdateInv, Shaped
  <2> QED
    BY <1>1, <2>1, <2>2, <2>3, <2>4, KeepsStep
<1>3. CASE call[a].id \notin DOMAIN files
  <2>1. call' = [call EXCEPT ![a] = NoCall] /\ UNCHANGED taskLock
    BY <1>3 DEF LockToClaim, Ends
  <2>2. IsCall(NoCall) /\ NoCall.pc = "idle"
    BY DEF NoCall, IsCall
  <2> QED
    BY <1>1, <2>1, <2>2, QuietStep
<1> QED
  BY <1>2, <1>3

\* The claim is given up, and its lock with it.
LEMMA GiveUpStep ==
  ASSUME UpdateInv, NEW a \in Agents, update[a] = NoUpdate, Ends(a), Free(a, call[a].id),
         UNCHANGED <<files, update, given>>
  PROVE  UpdateInv'
<1>1. /\ DOMAIN call' = Agents /\ call'[a] = NoCall /\ update[a].pc = "idle"
      /\ \A b \in Agents \ {a} : call'[b] = call[b]
      /\ DOMAIN taskLock' = Ids
      /\ \A b \in Agents \ {a}, i \in Ids : taskLock[i] = b => taskLock'[i] = b
  BY DEF UpdateInv, Shaped, Free, Ends, NoUpdate
<1>2. IsCall(NoCall) /\ NoCall.pc = "idle"
  BY DEF NoCall, IsCall
<1>3. Shaped'
  BY <1>1, <1>2 DEF UpdateInv, Shaped
<1> QED
  BY <1>1, <1>2, <1>3, KeepsStep

LEMMA OwnerStep ==
  ASSUME UpdateInv, NEW a \in Agents, CheckOwner(a), update[a] = NoUpdate
  PROVE  UpdateInv'
<1>1. /\ UNCHANGED <<files, update, given>> /\ update[a].pc = "idle"
      /\ DOMAIN call = Agents /\ IsCall(call[a])
      /\ call[a].id \in Ids /\ taskLock[call[a].id] = a
  BY DEF CheckOwner, UpdateInv, Shaped, LocksHeld, Holds, NoUpdate
<1>2. CASE /\ call' = [call EXCEPT ![a].pc = "blockers",
                                   ![a].blockers = files[call[a].id].blockedBy]
           /\ UNCHANGED taskLock
  <2>1. /\ DOMAIN call' = Agents /\ \A b \in Agents \ {a} : call'[b] = call[b]
        /\ IsCall(call'[a]) /\ call'[a].pc = "blockers" /\ call'[a].id = call[a].id
    BY <1>1, <1>2 DEF IsCall
  <2>2. Shaped'
    BY <1>1, <1>2, <2>1 DEF UpdateInv, Shaped
  <2> QED
    BY <1>1, <1>2, <2>1, <2>2, KeepsStep
<1>3. CASE Ends(a) /\ Free(a, call[a].id)
  BY <1>1, <1>3, GiveUpStep
<1> QED
  BY <1>2, <1>3 DEF CheckOwner

LEMMA BlockersStep ==
  ASSUME UpdateInv, NEW a \in Agents, CheckBlockers(a), update[a] = NoUpdate
  PROVE  UpdateInv'
<1> DEFINE first == UpdateOf(call[a].id, [owner |-> a])
           rest == <<UpdateOf(call[a].id, [status |-> "in_progress"])>>
<1>1. /\ UNCHANGED <<files, given>>
      /\ DOMAIN call = Agents /\ DOMAIN update = Agents /\ IsCall(call[a])
      /\ call[a].id \in Ids /\ taskLock[call[a].id] = a
  BY DEF CheckBlockers, UpdateInv, Shaped, LocksHeld, Holds
<1>2. CASE Ends(a) /\ Free(a, call[a].id) /\ UNCHANGED update
  BY <1>1, <1>2, GiveUpStep
<1>3. CASE /\ update' = [update EXCEPT ![a] = Begun(first, ClaimUpdates)]
           /\ Updates(a, rest) /\ UNCHANGED taskLock
  <2>1. /\ DOMAIN update' = Agents /\ \A b \in Agents \ {a} : update'[b] = update[b]
        /\ update'[a] = Begun(first, "read")
    BY <1>1, <1>3 DEF ClaimUpdates
  <2>2. /\ Begun(first, "read").pc = "read" /\ Begun(first, "read").id = call[a].id
        /\ IsUpdate(Begun(first, "read"))
    BY DEF Begun, NoUpdate, IsUpdate, UpdateOf
  <2>3. /\ DOMAIN call' = Agents /\ \A b \in Agents \ {a} : call'[b] = call[b]
        /\ IsCall(call'[a]) /\ call'[a].pc = "updates"
    <3> HIDE DEF rest
    <3>1. call' = [call EXCEPT ![a].pc = "updates", ![a].todo = rest]
      BY <1>3 DEF Updates
    <3> QED
      BY <1>1, <3>1 DEF IsCall
  <2>4. Shaped'
    BY <1>1, <1>3, <2>1, <2>2, <2>3 DEF UpdateInv, Shaped
  <2> QED
    BY <1>1, <1>3, <2>1, <2>2, <2>3, <2>4, KeepsStep
<1> QED
  BY <1>2, <1>3 DEF CheckBlockers

LEMMA ClaimSteps ==
  ASSUME UpdateInv, NEW a \in Agents, ClaimStep(a), update[a] = NoUpdate
  PROVE  UpdateInv'
<1>1. IsCall(call[a]) /\ IsCall(NoCall) /\ NoCall.pc = "idle"
  BY DEF UpdateInv, Shaped, NoCall, IsCall
<1>2. CASE ListToClaim(a)
  <2>1. CASE Ends(a)
    BY <1>1, <1>2, <2>1, QuietStep DEF Ends, ListToClaim
  <2>2. CASE \E i \in Available : call' = [call EXCEPT ![a].id = i, ![a].pc = "exists"]
    <3>1. PICK i \in Available : call' = [call EXCEPT ![a].id = i, ![a].pc = "exists"]
      BY <2>2
    <3> DEFINE r == [call[a] EXCEPT !.id = i, !.pc = "exists"]
    <3>2. IsCall(r) /\ r.pc = "exists" /\ call' = [call EXCEPT ![a] = r]
      BY <1>1, <3>1 DEF IsCall, UpdateInv, Shaped
    <3> QED
      BY <1>2, <3>2, QuietStep DEF ListToClaim
  <2> QED
    BY <1>2, <2>1, <2>2 DEF ListToClaim
<1>3. CASE CheckExists(a)
  <2> DEFINE r == [call[a] EXCEPT !.pc = "task lock"]
  <2>1. IsCall(r) /\ r.pc = "task lock"
    BY <1>1 DEF IsCall
  <2>2. call' = [call EXCEPT ![a] = r] \/ call' = [call EXCEPT ![a] = NoCall]
    BY <1>3 DEF CheckExists, Goes, Ends
  <2> QED
    BY <1>1, <1>3, <2>1, <2>2, QuietStep DEF CheckExists
<1> QED
  BY <1>2, <1>3, ClaimLockStep, OwnerStep, BlockersStep DEF ClaimStep

-----------------------------------------------------------------------------
(* The other steps.                                                        *)

\* Agent a goes on to a place of its call that needs no lock and fills no file.
Moves(a) ==
  /\ DOMAIN call' = Agents /\ \A b \in Agents \ {a} : call'[b] = call[b]
  /\ IsCall(call'[a]) /\ call'[a].pc \notin {"owner", "blockers", "fill"}

LEMMA MovesStep ==
  ASSUME UpdateInv, NEW a \in Agents, update[a] = NoUpdate, Moves(a),
         UNCHANGED <<update, taskLock, given>>, DOMAIN files' \subseteq DOMAIN files,
         \A i \in DOMAIN files' : files'[i] = files[i]
  PROVE  UpdateInv'
<1>1. Shaped'
  BY DEF UpdateInv, Shaped, Moves
<1>2. update'[a].pc = "idle"
  BY DEF NoUpdate
<1> QED
  BY <1>1, <1>2, KeepsStep DEF Moves

\* The forms such a step takes in the actions.
LEMMA EndsMoves ==
  ASSUME UpdateInv, NEW a \in Agents, Ends(a)
  PROVE  Moves(a)
<1>1. IsCall(NoCall) /\ NoCall.pc = "idle"
  BY DEF NoCall, IsCall
<1> QED
  BY <1>1 DEF Ends, Moves, UpdateInv, Shaped

LEMMA GoesMoves ==
  ASSUME UpdateInv, NEW a \in Agents, NEW pc, pc \notin {"owner", "blockers", "fill"},
         Goes(a, pc)
  PROVE  Moves(a)
<1>1. IsCall(call[a]) /\ DOMAIN call = Agents
  BY DEF UpdateInv, Shaped
<1> QED
  BY <1>1 DEF Goes, Moves, IsCall

LEMMA RaisesMoves ==
  ASSUME UpdateInv, NEW a \in Agents, NEW pc, NEW high,
         pc \notin {"owner", "blockers", "fill"},
         call' = [call EXCEPT ![a].high = high, ![a].pc = pc]
  PROVE  Moves(a)
<1>1. IsCall(call[a]) /\ DOMAIN call = Agents
  BY DEF UpdateInv, Shaped
<1> QED
  BY <1>1 DEF Moves, IsCall

LEMMA UpdatesMoves ==
  ASSUME UpdateInv, NEW a \in Agents, NEW todo, Updates(a, todo)
  PROVE  Moves(a)
<1>1. IsCall(call[a]) /\ DOMAIN call = Agents
  BY DEF UpdateInv, Shaped
<1> QED
  BY <1>1 DEF Updates, Moves, IsCall

LEMMA NumberingSteps ==
  ASSUME UpdateInv, NEW a \in Agents, NumberingStep(a), update[a] = NoUpdate
  PROVE  UpdateInv'
<1>1. CASE LockList(a)
  BY <1>1, GoesMoves, MovesStep DEF LockList
<1>2. CASE ReadFiles(a)
  <2> DEFINE high == IF call[a].pc = "files" THEN Highest ELSE Max({call[a].high, Highest})
             pc == CASE call[a].pc = "files only" -> "create"
                     [] call[a].pc = "files" /\ call[a].kind = "create" -> "mark"
                     [] call[a].pc = "files" /\ Highest > 0 -> "mark"
                     [] OTHER -> "unlink all"
  <2>1. call' = [call EXCEPT ![a].high = high, ![a].pc = pc]
    BY <1>2 DEF ReadFiles
  <2>2. pc \in {"create", "mark", "unlink all"}
    OBVIOUS
  <2> HIDE DEF high, pc
  <2>3. Moves(a)
    BY <2>1, <2>2, RaisesMoves
  <2> QED
    BY <1>2, <2>3, MovesStep DEF ReadFiles
<1>3. CASE MarkFirst(a)
  <2>1. /\ call' = [call EXCEPT ![a].high = mark, ![a].pc = "files only"]
        /\ "files only" \notin {"owner", "blockers", "fill"}
    BY <1>3 DEF MarkFirst
  <2>2. Moves(a)
    BY <2>1, RaisesMoves
  <2> QED
    BY <1>3, <2>2, MovesStep DEF MarkFirst
<1>4. CASE ReadMark(a)
  <2> DEFINE high == IF call[a].kind = "create" THEN Max({call[a].high, mark}) ELSE call[a].high
             pc == CASE call[a].kind = "create" -> "create"
                     [] call[a].kind # "create" /\ call[a].high > mark -> "raise"
                     [] call[a].kind = "delete" /\ call[a].high <= mark -> "unlink"
                     [] OTHER -> "unlink all"
  <2>1. call' = [call EXCEPT ![a].high = high, ![a].pc = pc]
    BY <1>4 DEF ReadMark
  <2>2. pc \in {"create", "raise", "unlink", "unlink all"}
    OBVIOUS
  <2> HIDE DEF high, pc
  <2>3. Moves(a)
    BY <2>1, <2>2, RaisesMoves
  <2> QED
    BY <1>4, <2>3, MovesStep DEF ReadMark
<1>5. CASE EmptyMark(a)
  <2>1. Moves(a)
    BY <1>5, GoesMoves DEF EmptyMark
  <2> QED
    BY <1>5, <2>1, MovesStep DEF EmptyMark
<1>6. CASE WriteMark(a)
  <2>1. Moves(a)
    BY <1>6, GoesMoves DEF WriteMark
  <2> QED
    BY <1>6, <2>1, MovesStep DEF WriteMark
<1>8. CASE ListToUnlink(a) \/ UnlinkNext(a)
  <2>1. call[a].pc \in {"unlink all", "unlink each"} /\ UNCHANGED <<update, taskLock, given>>
        /\ \/ \E left : call' = [call EXCEPT ![a].left = left, ![a].pc = "unlink each"]
           \/ \E left : call' = [call EXCEPT ![a].left = left] /\ call[a].pc = "unlink each"
    BY <1>8 DEF ListToUnlink, UnlinkNext
  <2>2. Moves(a)
    <3>1. IsCall(call[a]) /\ DOMAIN call = Agents
      BY DEF UpdateInv, Shaped
    <3> QED
      BY <2>1, <3>1 DEF Moves, IsCall
  <2>3. DOMAIN files' \subseteq DOMAIN files /\ \A i \in DOMAIN files' : files'[i] = files[i]
    BY <1>8 DEF ListToUnlink, UnlinkNext
  <2> QED
    BY <2>1, <2>2, <2>3, MovesStep
<1>9. CASE EndReset(a)
  <2>1. Moves(a)
    BY <1>9, EndsMoves DEF EndReset
  <2> QED
    BY <1>9, <2>1, MovesStep DEF EndReset
<1>7. CASE CheckAllDone(a)
  <2>1. Moves(a)
    BY <1>7, GoesMoves, EndsMoves DEF CheckAllDone
  <2> QED
    BY <1>7, <2>1, MovesStep DEF CheckAllDone
<1> QED
  BY <1>1, <1>2, <1>3, <1>4, <1>5, <1>6, <1>7, <1>8, <1>9, CreateStep, FillStep
     DEF NumberingStep

LEMMA UnlockedSteps ==
  ASSUME UpdateInv, NEW a \in Agents, UnlockedStep(a), update[a] = NoUpdate
  PROVE  UpdateInv'
<1>1. CASE ReadToSet(a)
  <2>1. Moves(a)
    BY <1>1, UpdatesMoves, EndsMoves DEF ReadToSet
  <2> QED
    BY <1>1, <2>1, MovesStep DEF ReadToSet
<1>2. CASE ReadToDelete(a)
  <2>0. "mark" \notin {"owner", "blockers", "fill"}
    OBVIOUS
  <2>1. call' = [call EXCEPT ![a].high = call[a].id, ![a].pc = "mark"] => Moves(a)
    BY <2>0, RaisesMoves
  <2>2. Moves(a)
    BY <1>2, <2>1, EndsMoves DEF ReadToDelete
  <2> QED
    BY <1>2, <2>2, MovesStep DEF ReadToDelete
<1>3. CASE UnlinkTask(a)
  <2>1. Moves(a)
    BY <1>3, GoesMoves, EndsMoves DEF UnlinkTask
  <2> QED
    BY <1>3, <2>1, MovesStep DEF UnlinkTask
<1>4. CASE ListReferences(a)
  <2>1. Moves(a)
    BY <1>4, UpdatesMoves DEF ListReferences
  <2> QED
    BY <1>4, <2>1, MovesStep DEF ListReferences
<1>5. CASE ReadToBlock(a)
  <2>1. Moves(a)
    BY <1>5, UpdatesMoves, EndsMoves DEF ReadToBlock
  <2> QED
    BY <1>5, <2>1, MovesStep DEF ReadToBlock
<1>6. CASE ListToUnassign(a)
  <2>1. Moves(a)
    BY <1>6, UpdatesMoves DEF ListToUnassign
  <2> QED
    BY <1>6, <2>1, MovesStep DEF ListToUnassign
<1> QED
  BY <1>1, <1>2, <1>3, <1>4, <1>5, <1>6 DEF UnlockedStep

\* An agent makes a call.
LEMMA MakesCallStep ==
  ASSUME UpdateInv, NEW a \in Agents, MakesCall(a)
  PROVE  UpdateInv'
<1>1. PICK kind, i, j, other : Begin(a, kind, i, j, other) /\ kind \in AllKinds
  BY TaskListAssumption DEF MakesCall, AllKinds
<1> DEFINE r == [NoCall EXCEPT !.kind = kind, !.pc = Entry(kind), !.id = i, !.high = j,
                               !.other = other]
<1>2. /\ call[a] = NoCall /\ call' = [call EXCEPT ![a] = r]
      /\ UNCHANGED <<files, taskLock, update, given>>
  BY <1>1 DEF Begin
<1>3. Entry(kind) \notin {"owner", "blockers", "fill"}
  BY <1>1 DEF Entry, AllKinds
<1>4. IsCall(r) /\ r.pc = Entry(kind)
  BY DEF NoCall, IsCall
<1> HIDE DEF r
<1>5. Moves(a)
  BY <1>2, <1>3, <1>4 DEF Moves, UpdateInv, Shaped
<1>6. Shaped'
  BY <1>2, <1>5 DEF UpdateInv, Shaped, Moves
<1>7. update[a].pc = "idle"
  BY <1>2 DEF UpdateInv, OnePlace, NoCall
<1> QED
  BY <1>2, <1>5, <1>6, <1>7, KeepsStep DEF Moves

\* An agent is killed: the locks of the others stay.
LEMMA KillStep ==
  ASSUME UpdateInv, NEW a \in Agents, Kill(a)
  PROVE  UpdateInv'
<1>1. /\ Ends(a) /\ update' = [update EXCEPT ![a] = NoUpdate] /\ UNCHANGED <<files, given>>
      /\ taskLock' = [i \in Ids |-> IF taskLock[i] = a THEN NoOne ELSE taskLock[i]]
  BY DEF Kill, Ends, Holds
<1>2. Moves(a) /\ IsUpdate(NoUpdate) /\ NoUpdate.pc = "idle"
  BY <1>1, EndsMoves DEF NoUpdate, IsUpdate
<1>3. /\ DOMAIN update' = Agents /\ update'[a] = NoUpdate
      /\ \A b \in Agents \ {a} : update'[b] = update[b]
  BY <1>1 DEF UpdateInv, Shaped
<1>4. /\ DOMAIN taskLock' = Ids
      /\ \A b \in Agents \ {a}, i \in Ids : taskLock[i] = b => taskLock'[i] = b
  BY <1>1
<1>5. Shaped'
  BY <1>1, <1>2, <1>3, <1>4 DEF UpdateInv, Shaped, Moves
<1> QED
  BY <1>1, <1>2, <1>3, <1>4, <1>5, KeepsStep DEF Moves

-----------------------------------------------------------------------------

LEMMA InitUpdate == Init => UpdateInv
<1> SUFFICES ASSUME Init PROVE UpdateInv
  OBVIOUS
<1>1. /\ DOMAIN call = Agents /\ \A a \in Agents : call[a] = NoCall
      /\ DOMAIN update = Agents /\ \A a \in Agents : update[a] = NoUpdate
      /\ DOMAIN files = 1 .. InitialTasks /\ DOMAIN taskLock = Ids
  BY DEF Init
<1>2. IsCall(NoCall) /\ NoCall.pc = "idle" /\ IsUpdate(NoUpdate) /\ NoUpdate.pc = "idle"
  BY DEF NoCall, NoUpdate, IsCall, IsUpdate
<1>3. /\ given \in [Ids -> Nat] /\ 1 .. InitialTasks \subseteq Ids
      /\ \A i \in Ids : given[i] = 0 => i \notin 1 .. InitialTasks
  BY TaskListAssumption DEF Init, Ids
<1> QED
  BY <1>1, <1>2, <1>3
     DEF UpdateInv, Shaped, LocksHeld, OnePlace, FillsAlone, NewUnused, Merges, Copied, Working

LEMMA NextKeeps == UpdateInv /\ [Next]_vars => UpdateInv'
<1> SUFFICES ASSUME UpdateInv, [Next]_vars PROVE UpdateInv'
  OBVIOUS
<1>1. CASE UNCHANGED vars
  BY <1>1 DEF vars, UpdateInv, Shaped, LocksHeld, OnePlace, FillsAlone, NewUnused,
              Merges, Copied, Working, Holds, Readable
<1>2. ASSUME NEW a \in Agents, AgentStep(a) PROVE UpdateInv'
  BY <1>2, UpdateSteps, NumberingSteps, ClaimSteps, UnlockedSteps DEF AgentStep
<1> QED
  BY <1>1, <1>2, MakesCallStep, KillStep DEF Next

LEMMA InvMerges == UpdateInv => UpdatesMerge
<1> SUFFICES ASSUME UpdateInv, NEW a \in Agents, Working(a), given[update[a].id] <= 1
             PROVE  /\ update[a].pc = "truncate" /\ update[a].id \in Readable =>
                         files[update[a].id] = update[a].task
                    /\ update[a].pc = "write" => update[a].id \notin Readable
                    /\ \A b \in Agents \ {a} :
                         /\ ~(call[b].pc = "fill" /\ call[b].id = update[a].id)
                         /\ ~(update[b].pc \in {"truncate", "write"}
                              /\ update[b].id = update[a].id)
  BY DEF UpdatesMerge, Working
<1>1. update[a].id \in Ids /\ taskLock[update[a].id] = a /\ given[update[a].id] \in Nat
  BY DEF UpdateInv, LocksHeld, Working, Holds, Shaped
<1>2. ~(given[update[a].id] > 1)
  BY <1>1
<1>3. /\ update[a].pc = "truncate" /\ update[a].id \in Readable =>
           files[update[a].id] = update[a].task
      /\ update[a].pc = "write" => update[a].id \notin Readable
  BY <1>2 DEF UpdateInv, Merges, Copied
<1>4. ASSUME NEW b \in Agents \ {a}
      PROVE  /\ ~(call[b].pc = "fill" /\ call[b].id = update[a].id)
             /\ ~(update[b].pc \in {"truncate", "write"} /\ update[b].id = update[a].id)
  <2>1. ~(call[b].pc = "fill" /\ call[b].id = update[a].id)
    BY DEF UpdateInv, FillsAlone
  <2>2. ~(update[b].pc \in {"truncate", "write"} /\ update[b].id = update[a].id)
    BY <1>1 DEF UpdateInv, LocksHeld, Holds
  <2> QED
    BY <2>1, <2>2
<1> QED
  BY <1>3, <1>4

\* For any number of agents, calls and kills, an update has its task to itself from the
\* read under the lock to the write, as long as the id was given to one task only: the
\* file says what it has read and nobody else is about to write it, so the fields it is
\* not given are not lost to it.  (updateTaskUnsafe under the task's lock)
THEOREM UpdatesNeverLost == Spec => []UpdatesMerge
<1> QED
  BY InvMerges, InitUpdate, NextKeeps, PTL DEF Spec

-----------------------------------------------------------------------------
(* Numbers and listings.                                                   *)

\* A set of numbers that is not empty has a least one.
LEMMA LeastOf ==
  ASSUME NEW A \in SUBSET Nat, A # {}
  PROVE  \E n \in A : \A k \in A : n <= k
<1>1. PICK n \in A : \A k \in A : ~(<<k, n>> \in OpToRel(<, Nat))
  BY WFMin, NatLessThanWellFounded
<1>2. \A k \in A : ~(k < n)
  BY <1>1, Zenon DEF OpToRel
<1> QED
  BY <1>2

\* The greatest of numbers that have a bound, which is the least of the bounds.
LEMMA GreatestIs ==
  ASSUME NEW S \in SUBSET Nat, NEW N \in Nat, \A x \in S : x <= N
  PROVE  Max(S \cup {0}) \in S \cup {0} /\ \A x \in S : x <= Max(S \cup {0})
<1> DEFINE T == S \cup {0}
           Bounds == {n \in Nat : \A x \in T : x <= n}
<1>1. N \in Bounds
  OBVIOUS
<1>2. PICK n \in Bounds : \A k \in Bounds : n <= k
  BY <1>1, LeastOf
<1>3. n \in T
  <2>1. SUFFICES ASSUME n \notin T PROVE FALSE
    OBVIOUS
  <2>2. n \in Nat /\ 0 < n /\ \A x \in T : x \in Nat /\ x <= n /\ x # n
    BY <1>2, <2>1
  <2>3. n - 1 \in Nat /\ \A x \in T : x <= n - 1
    BY <2>2
  <2>4. n - 1 \in Bounds
    BY <2>3
  <2> QED
    BY <1>2, <2>2, <2>4
<1>4. \E m \in T : \A x \in T : m >= x
  BY <1>2, <1>3
<1>5. Max(T) \in T /\ \A x \in T : Max(T) >= x
  BY <1>4 DEF Max
<1> QED
  BY <1>5

LEMMA MaxOfTwo ==
  ASSUME NEW x \in Nat, NEW y \in Nat
  PROVE  Max({x, y}) \in {x, y} /\ x <= Max({x, y}) /\ y <= Max({x, y})
<1>1. \E m \in {x, y} : \A z \in {x, y} : m >= z
  OBVIOUS
<1>2. Max({x, y}) \in {x, y} /\ \A z \in {x, y} : Max({x, y}) >= z
  BY <1>1 DEF Max
<1> QED
  BY <1>2

-----------------------------------------------------------------------------
(* The types.                                                              *)

\* Fields of a task to set.
IsFields(f) ==
  /\ DOMAIN f \subseteq {"owner", "status", "blocks", "blockedBy"}
  /\ "owner" \in DOMAIN f => f["owner"] \in Owner
  /\ "status" \in DOMAIN f => f["status"] \in TaskStatus
  /\ "blocks" \in DOMAIN f => f["blocks"] \subseteq Ids
  /\ "blockedBy" \in DOMAIN f => f["blockedBy"] \subseteq Ids

IsEntry(e) == {"id", "fields"} \subseteq DOMAIN e /\ e.id \in Ids /\ IsFields(e.fields)
IsTodo(q) == \E S : q \in Seq(S) /\ \A e \in S : IsEntry(e)

\* The places a call of each kind goes through.
Places(kind) ==
  CASE kind = "create" -> {"list lock", "files", "files only", "mark", "create", "fill"}
    [] kind = "reset" -> {"list lock", "files", "mark", "raise", "write mark", "unlink all",
                          "unlink each"}
    [] kind = "hide" -> {"all done", "list lock", "files", "mark", "raise", "write mark",
                         "unlink all", "unlink each"}
    [] kind = "claim" -> {"claim next", "exists", "task lock", "owner", "blockers", "updates"}
    [] kind \in {"start", "complete"} -> {"read", "updates"}
    [] kind = "delete" -> {"delete", "mark", "raise", "write mark", "unlink",
                           "list references", "updates"}
    [] kind = "block" -> {"read both", "updates"}
    [] kind = "unassign" -> {"list open", "updates"}
    [] kind = "none" -> {"idle"}

CallFits(c) ==
  /\ {"kind", "id", "other", "pc", "high", "blockers", "left", "todo"} \subseteq DOMAIN c
  /\ c.kind \in AllKinds \cup {"none"} /\ c.pc \in Places(c.kind)
  /\ c.id \in Ids \cup {0} /\ c.high \in Ids \cup {0} /\ c.other \in Owner
  /\ c.kind \in {"start", "complete", "delete", "block"} => c.id \in Ids
  /\ c.pc \in {"exists", "task lock", "owner", "blockers", "fill"} => c.id \in Ids
  /\ IsTodo(c.todo)
  /\ c.kind = "none" => c = NoCall

UpdateFits(u) ==
  /\ {"id", "pc", "fields", "task"} \subseteq DOMAIN u
  /\ u.task \in Task /\ u.id \in Ids \cup {0}
  /\ \/ u = NoUpdate
     \/ u.pc \in {"check", "lock", "read", "truncate", "write"} /\ u.id \in Ids /\ IsFields(u.fields)

\* The places where a call holds the lock of the list.
InList(c) ==
  \/ c.pc \in {"files", "files only", "create", "fill", "unlink all", "unlink each"}
  \/ c.pc \in {"mark", "raise", "write mark"} /\ c.kind # "delete"

HasTask(c, u, i) ==
  \/ u.pc \in {"read", "truncate", "write"} /\ u.id = i
  \/ c.pc \in {"owner", "blockers"} /\ c.id = i

\* An agent is in the places of its call, and holds the locks of its place and no other.
AgentFits(a) ==
  /\ CallFits(call[a]) /\ UpdateFits(update[a])
  /\ listLock = a <=> InList(call[a])
  /\ \A i \in Ids : taskLock[i] = a <=> HasTask(call[a], update[a], i)
  /\ update[a].pc # "idle" => call[a].pc = "updates"

Typed ==
  /\ DOMAIN files \subseteq Ids /\ \A i \in DOMAIN files : files[i] = Torn \/ files[i] \in Task
  /\ mark \in Ids \cup {0} /\ listLock \in Owner /\ taskLock \in [Ids -> Owner]
  /\ DOMAIN call = Agents /\ DOMAIN update = Agents
  /\ gone \subseteq Agents /\ made \in 0 .. MaxCalls /\ given \in [Ids -> Nat]
  /\ claimant \in [Ids -> Owner] /\ overlap \in BOOLEAN
  /\ raced \in BOOLEAN

Fits == Typed /\ \A a \in Agents : AgentFits(a)

LEMMA NoCallFits ==
  /\ CallFits(NoCall) /\ NoCall.pc = "idle" /\ ~InList(NoCall) /\ NoCall.kind = "none"
  /\ UpdateFits(NoUpdate) /\ NoUpdate.pc = "idle"
<1>1. <<>> \in Seq({})
  BY EmptySeq
<1>2. IsTodo(<<>>)
  <2>1. \A e \in {} : IsEntry(e)
    OBVIOUS
  <2>2. PICK S : S = {}
    OBVIOUS
  <2>3. <<>> \in Seq(S) /\ \A e \in S : IsEntry(e)
    BY <1>1, <2>1, <2>2
  <2> QED
    BY <2>3 DEF IsTodo
<1>3. CallFits(NoCall) /\ NoCall.pc = "idle" /\ ~InList(NoCall) /\ NoCall.kind = "none"
  BY <1>2 DEF CallFits, NoCall, Places, InList, Owner
<1>4. NewTask \in Task
  BY DEF NewTask, Task, Owner, TaskStatus
<1> QED
  BY <1>3, <1>4 DEF UpdateFits, NoUpdate

\* A step of agent a leaves the calls of the others alone, or their updates.
CallOf(a) == DOMAIN call' = Agents /\ \A b \in Agents \ {a} : call'[b] = call[b]
UpdateOfOne(a) == DOMAIN update' = Agents /\ \A b \in Agents \ {a} : update'[b] = update[b]

\* It leaves them the locks they hold.
LocksOf(a) ==
  /\ \A b \in Agents \ {a} : listLock' = b <=> listLock = b
  /\ \A b \in Agents \ {a}, i \in Ids : taskLock'[i] = b <=> taskLock[i] = b

LEMMA OneFits ==
  ASSUME Fits, Typed', NEW a \in Agents, CallOf(a), UpdateOfOne(a), LocksOf(a), AgentFits(a)'
  PROVE  Fits'
<1>1. ASSUME NEW b \in Agents PROVE AgentFits(b)'
  <2>1. CASE b = a
    BY <2>1
  <2>2. CASE b # a
    BY <2>2 DEF Fits, CallOf, UpdateOfOne, LocksOf, AgentFits
  <2> QED
    BY <2>1, <2>2
<1> QED
  BY <1>1 DEF Fits

\* A step outside an update that holds the same lock of the list before and after, and
\* the lock of no task.
LEMMA CallFitsOn ==
  ASSUME Fits, Typed', NEW a \in Agents, update[a] = NoUpdate, CallOf(a), CallFits(call'[a]),
         InList(call'[a]) <=> InList(call[a]), call[a].pc \notin {"owner", "blockers"},
         call'[a].pc \notin {"owner", "blockers"}, UNCHANGED <<update, listLock, taskLock>>
  PROVE  Fits'
<1>1. update[a].pc = "idle" /\ DOMAIN update = Agents /\ AgentFits(a)
  BY NoCallFits DEF Fits, Typed
<1>2. UpdateOfOne(a) /\ LocksOf(a)
  BY <1>1 DEF UpdateOfOne, LocksOf
<1>3. AgentFits(a)'
  BY <1>1 DEF AgentFits, HasTask
<1> QED
  BY <1>2, <1>3, OneFits

\* A step that takes or releases the lock of the list.
LEMMA ListFitsOn ==
  ASSUME Fits, Typed', NEW a \in Agents, update[a] = NoUpdate, CallOf(a), CallFits(call'[a]),
         call[a].pc \notin {"owner", "blockers"}, call'[a].pc \notin {"owner", "blockers"},
         listLock' = a <=> InList(call'[a]), \A b \in Agents \ {a} : listLock' = b <=> listLock = b,
         UNCHANGED <<update, taskLock>>
  PROVE  Fits'
<1>1. update[a].pc = "idle" /\ DOMAIN update = Agents /\ AgentFits(a)
  BY NoCallFits DEF Fits, Typed
<1>2. UpdateOfOne(a) /\ LocksOf(a)
  BY <1>1 DEF UpdateOfOne, LocksOf
<1>3. AgentFits(a)'
  BY <1>1 DEF AgentFits, HasTask
<1> QED
  BY <1>2, <1>3, OneFits

-----------------------------------------------------------------------------
(* The forms a step of a call takes.                                       *)

LEMMA EndsFits ==
  ASSUME Fits, NEW a \in Agents, call' = [call EXCEPT ![a] = NoCall]
  PROVE  CallOf(a) /\ call'[a] = NoCall /\ CallFits(call'[a])
BY NoCallFits DEF Fits, Typed, CallOf

\* The places at which a call knows its task.
AtTask == {"exists", "task lock", "owner", "blockers", "fill"}

LEMMA GoesFits ==
  ASSUME Fits, NEW a \in Agents, call[a].kind # "none", NEW pc \in Places(call[a].kind),
         pc \in AtTask => call[a].id \in Ids, call' = [call EXCEPT ![a].pc = pc]
  PROVE  /\ CallOf(a) /\ CallFits(call'[a]) /\ call'[a].pc = pc
         /\ call'[a].kind = call[a].kind /\ call'[a].id = call[a].id
         /\ call'[a].high = call[a].high /\ call'[a].todo = call[a].todo
<1>1. DOMAIN call = Agents /\ CallFits(call[a])
  BY DEF Fits, Typed, AgentFits
<1>2. /\ CallOf(a) /\ DOMAIN call'[a] = DOMAIN call[a] /\ call'[a].pc = pc
      /\ call'[a].kind = call[a].kind /\ call'[a].id = call[a].id /\ call'[a].high = call[a].high
      /\ call'[a].todo = call[a].todo /\ call'[a].other = call[a].other
  BY <1>1 DEF CallFits, CallOf
<1>3. CallFits(call'[a])
  BY <1>1, <1>2 DEF CallFits, AtTask
<1> QED
  BY <1>2, <1>3

Raises(a, high, pc) == call' = [call EXCEPT ![a].high = high, ![a].pc = pc]

LEMMA RaisesFits ==
  ASSUME Fits, NEW a \in Agents, call[a].kind # "none", NEW pc \in Places(call[a].kind),
         pc \notin AtTask, NEW high \in Ids \cup {0}, Raises(a, high, pc)
  PROVE  /\ CallOf(a) /\ CallFits(call'[a]) /\ call'[a].pc = pc
         /\ call'[a].kind = call[a].kind /\ call'[a].id = call[a].id
         /\ call'[a].high = high /\ call'[a].todo = call[a].todo
<1>1. DOMAIN call = Agents /\ CallFits(call[a])
  BY DEF Fits, Typed, AgentFits
<1>2. /\ CallOf(a) /\ DOMAIN call'[a] = DOMAIN call[a] /\ call'[a].pc = pc
      /\ call'[a].kind = call[a].kind /\ call'[a].id = call[a].id /\ call'[a].high = high
      /\ call'[a].todo = call[a].todo /\ call'[a].other = call[a].other
  BY <1>1 DEF CallFits, CallOf, Raises
<1>3. CallFits(call'[a])
  BY <1>1, <1>2 DEF CallFits, AtTask
<1> QED
  BY <1>2, <1>3

LEMMA NamesFits ==
  ASSUME Fits, NEW a \in Agents, call[a].kind # "none", NEW pc \in Places(call[a].kind),
         NEW id \in Ids,
         call' = [call EXCEPT ![a].id = id, ![a].pc = pc]
  PROVE  /\ CallOf(a) /\ CallFits(call'[a]) /\ call'[a].pc = pc
         /\ call'[a].kind = call[a].kind /\ call'[a].id = id
         /\ call'[a].high = call[a].high /\ call'[a].todo = call[a].todo
<1>1. DOMAIN call = Agents /\ CallFits(call[a])
  BY DEF Fits, Typed, AgentFits
<1>2. /\ CallOf(a) /\ DOMAIN call'[a] = DOMAIN call[a] /\ call'[a].pc = pc
      /\ call'[a].kind = call[a].kind /\ call'[a].id = id /\ call'[a].high = call[a].high
      /\ call'[a].todo = call[a].todo /\ call'[a].other = call[a].other
  BY <1>1 DEF CallFits, CallOf
<1>3. CallFits(call'[a])
  BY <1>1, <1>2 DEF CallFits, AtTask
<1> QED
  BY <1>2, <1>3

LEMMA UpdatesFits ==
  ASSUME Fits, NEW a \in Agents, call[a].kind # "none", "updates" \in Places(call[a].kind),
         NEW todo, IsTodo(todo), Updates(a, todo)
  PROVE  /\ CallOf(a) /\ CallFits(call'[a]) /\ call'[a].pc = "updates"
         /\ call'[a].kind = call[a].kind /\ call'[a].todo = todo /\ call'[a].other = call[a].other
<1>1. DOMAIN call = Agents /\ CallFits(call[a])
  BY DEF Fits, Typed, AgentFits
<1>2. /\ CallOf(a) /\ DOMAIN call'[a] = DOMAIN call[a] /\ call'[a].pc = "updates"
      /\ call'[a].kind = call[a].kind /\ call'[a].id = call[a].id /\ call'[a].high = call[a].high
      /\ call'[a].todo = todo /\ call'[a].other = call[a].other
  BY <1>1 DEF CallFits, CallOf, Updates
<1>3. CallFits(call'[a])
  BY <1>1, <1>2 DEF CallFits
<1> QED
  BY <1>2, <1>3

LEMMA Numbers ==
  ASSUME Fits
  PROVE  /\ Highest \in Ids \cup {0} /\ \A i \in DOMAIN files : i <= Highest
         /\ Highest \in DOMAIN files \cup {0}
         /\ \A x, y \in Ids \cup {0} : Max({x, y}) \in Ids \cup {0}
         /\ Ids \cup {0} \subseteq Nat
<1>1. Ids \cup {0} \subseteq Nat
  BY TaskListAssumption DEF Ids
<1>2. DOMAIN files \subseteq Ids /\ DOMAIN files \in SUBSET Nat
  BY <1>1 DEF Fits, Typed
<1>3. \A x \in DOMAIN files : x <= InitialTasks + MaxCalls
  BY <1>2 DEF Ids
<1>4. InitialTasks + MaxCalls \in Nat
  BY TaskListAssumption
<1>5. Highest \in DOMAIN files \cup {0} /\ \A i \in DOMAIN files : i <= Highest
  BY <1>2, <1>3, <1>4, GreatestIs DEF Highest
<1>6. ASSUME NEW x \in Ids \cup {0}, NEW y \in Ids \cup {0} PROVE Max({x, y}) \in Ids \cup {0}
  <2>1. x \in Nat /\ y \in Nat
    BY <1>1
  <2> QED
    BY <2>1, MaxOfTwo
<1> QED
  BY <1>1, <1>2, <1>5, <1>6

\* What a numbering step finds: the place tells the kinds of call.
LEMMA PlaceKinds ==
  ASSUME NEW c, CallFits(c)
  PROVE  /\ c.pc = "list lock" => c.kind \in {"create", "reset", "hide"}
         /\ c.pc = "files" => c.kind \in {"create", "reset", "hide"}
         /\ c.pc \in {"files only", "create", "fill"} => c.kind = "create"
         /\ c.pc = "mark" => c.kind \in {"create", "reset", "hide", "delete"}
         /\ c.pc \in {"raise", "write mark"} => c.kind \in {"reset", "hide", "delete"}
         /\ c.pc \in {"unlink all", "unlink each"} => c.kind \in {"reset", "hide"}
         /\ c.pc = "all done" => c.kind = "hide"
         /\ c.pc \in {"claim next", "exists", "task lock", "owner", "blockers"} => c.kind = "claim"
         /\ c.pc = "read" => c.kind \in {"start", "complete"}
         /\ c.pc \in {"delete", "unlink", "list references"} => c.kind = "delete"
         /\ c.pc = "read both" => c.kind = "block"
         /\ c.pc = "list open" => c.kind = "unassign"
         /\ c.pc = "updates" =>
              c.kind \in {"claim", "start", "complete", "delete", "block", "unassign"}
<1>1. c.pc \in Places(c.kind) /\ c.kind \in AllKinds \cup {"none"}
  BY DEF CallFits
<1> QED
  BY <1>1 DEF Places, AllKinds

LEMMA KindPlaces ==
  /\ {"files", "files only", "mark", "create", "fill"} \subseteq Places("create")
  /\ {"list lock", "files", "mark", "raise", "write mark", "unlink all", "unlink each"}
       \subseteq Places("reset")
  /\ {"list lock", "files", "mark", "raise", "write mark", "unlink all", "unlink each"}
       \subseteq Places("hide")
  /\ {"mark", "raise", "write mark", "unlink", "list references", "updates"}
       \subseteq Places("delete")
  /\ {"exists", "task lock", "owner", "blockers", "updates"} \subseteq Places("claim")
  /\ "updates" \in Places("start") /\ "updates" \in Places("complete")
  /\ "updates" \in Places("block") /\ "updates" \in Places("unassign")
BY DEF Places

\* Writing a task file keeps the files well-formed.
LEMMA WriteTyped ==
  ASSUME Fits, NEW i \in Ids, NEW content, content = Torn \/ content \in Task,
         Write(i, content)
  PROVE  DOMAIN files' \subseteq Ids /\ \A j \in DOMAIN files' : files'[j] = Torn \/ files'[j] \in Task
BY DEF Write, Fits, Typed

-----------------------------------------------------------------------------
(* The numbering steps, each with what it does to the call.                *)

LEMMA LockListFits ==
  ASSUME Fits, NEW a \in Agents, LockList(a), update[a] = NoUpdate
  PROVE  /\ Fits' /\ CallOf(a)
         /\ call'[a].pc = "files" /\ call'[a].kind = call[a].kind
<1>1. /\ call[a].pc = "list lock" /\ call' = [call EXCEPT ![a].pc = "files"]
      /\ listLock = NoOne /\ listLock' = a
      /\ UNCHANGED <<files, mark, taskLock, update, gone, made, given, claimant, overlap, raced>>
  BY DEF LockList, Goes
<1>2. call[a].kind \in {"create", "reset", "hide"}
  BY <1>1, PlaceKinds DEF Fits, AgentFits
<1>3. "files" \in Places(call[a].kind) /\ "files" \notin AtTask /\ call[a].kind # "none"
  BY <1>2, KindPlaces DEF AtTask
<1>4. CallOf(a) /\ CallFits(call'[a]) /\ call'[a].pc = "files" /\ call'[a].kind = call[a].kind
  BY <1>1, <1>3, GoesFits
<1>5. Typed' /\ NoOne \notin Agents
  BY <1>1, <1>4, TaskListAssumption DEF Fits, Typed, Owner, CallOf
<1>6. InList(call'[a])
  BY <1>4 DEF InList
<1>7. \A b \in Agents \ {a} : listLock' = b <=> listLock = b
  BY <1>1, <1>5
<1> QED
  BY <1>1, <1>4, <1>5, <1>6, <1>7, ListFitsOn

LEMMA ReadFilesFits ==
  ASSUME Fits, NEW a \in Agents, ReadFiles(a), update[a] = NoUpdate
  PROVE  /\ Fits' /\ CallOf(a)
         /\ call'[a].kind = call[a].kind
         /\ call'[a].high = IF call[a].pc = "files" THEN Highest ELSE Max({call[a].high, Highest})
         /\ call[a].pc = "files only" => call'[a].pc = "create"
         /\ call[a].pc = "files" /\ call[a].kind = "create" => call'[a].pc = "mark"
         /\ call[a].pc = "files" /\ call[a].kind # "create" =>
              call'[a].pc = IF Highest > 0 THEN "mark" ELSE "unlink all"
<1> DEFINE high == IF call[a].pc = "files" THEN Highest ELSE Max({call[a].high, Highest})
           pc == CASE call[a].pc = "files only" -> "create"
                   [] call[a].pc = "files" /\ call[a].kind = "create" -> "mark"
                   [] call[a].pc = "files" /\ Highest > 0 -> "mark"
                   [] OTHER -> "unlink all"
<1>1. /\ call[a].pc \in {"files", "files only"}
      /\ call' = [call EXCEPT ![a].high = high, ![a].pc = pc]
      /\ UNCHANGED <<files, mark, listLock, taskLock, update, gone, made, given, claimant, overlap, raced>>
  BY DEF ReadFiles
<1>2. /\ CallFits(call[a]) /\ call[a].kind \in {"create", "reset", "hide"}
      /\ call[a].pc = "files only" => call[a].kind = "create"
  <2>1. CallFits(call[a])
    BY DEF Fits, AgentFits
  <2> QED
    BY <1>1, <2>1, PlaceKinds
<1>3. high \in Ids \cup {0}
  BY <1>2, Numbers DEF CallFits
<1>4. /\ call[a].pc = "files only" => pc = "create"
      /\ call[a].pc = "files" /\ call[a].kind = "create" => pc = "mark"
      /\ call[a].pc = "files" /\ call[a].kind # "create" =>
           pc = IF Highest > 0 THEN "mark" ELSE "unlink all"
  OBVIOUS
<1>5. pc \in Places(call[a].kind) /\ pc \in {"create", "mark", "unlink all"}
  BY <1>1, <1>2, <1>4, KindPlaces
<1> HIDE DEF high, pc
<1>6. pc \notin AtTask /\ call[a].kind # "none"
  BY <1>2, <1>5 DEF AtTask
<1>7. /\ CallOf(a) /\ CallFits(call'[a]) /\ call'[a].pc = pc /\ call'[a].kind = call[a].kind
      /\ call'[a].high = high
  <2>1. Raises(a, high, pc)
    BY <1>1 DEF Raises
  <2> QED
    BY <1>3, <1>5, <1>6, <2>1, RaisesFits
<1>8. Typed'
  BY <1>1, <1>7 DEF Fits, Typed, CallOf
<1>9. InList(call'[a]) /\ InList(call[a])
  BY <1>1, <1>2, <1>5, <1>7 DEF InList
<1>10. Fits'
  BY <1>1, <1>5, <1>7, <1>8, <1>9, CallFitsOn
<1> QED
  BY <1>4, <1>7, <1>10 DEF high

LEMMA MarkFirstFits ==
  ASSUME Fits, NEW a \in Agents, MarkFirst(a), update[a] = NoUpdate
  PROVE  /\ Fits' /\ CallOf(a) /\ call'[a].pc = "files only" /\ call'[a].kind = call[a].kind
         /\ call'[a].high = mark
<1> DEFINE pc == "files only"
           high == mark
<1>1. /\ call[a].pc = "files" /\ call[a].kind = "create"
      /\ call' = [call EXCEPT ![a].high = high, ![a].pc = pc]
      /\ UNCHANGED <<files, mark, listLock, taskLock, update, gone, made, given, claimant, overlap, raced>>
  BY DEF MarkFirst
<1>2. pc \in Places(call[a].kind) /\ pc \notin AtTask
      /\ call[a].kind # "none" /\ high \in Ids \cup {0}
  BY <1>1, KindPlaces DEF AtTask, Fits, Typed
<1>3. pc = "files only" /\ high = mark
  OBVIOUS
<1> HIDE DEF pc, high
<1>4. /\ CallOf(a) /\ CallFits(call'[a]) /\ call'[a].pc = pc
      /\ call'[a].kind = call[a].kind /\ call'[a].high = high
  <2>1. Raises(a, high, pc)
    BY <1>1 DEF Raises
  <2> QED
    BY <1>2, <2>1, RaisesFits
<1>5. Typed'
  BY <1>1, <1>4 DEF Fits, Typed, CallOf
<1>6. InList(call'[a]) /\ InList(call[a])
  BY <1>1, <1>3, <1>4 DEF InList
<1> QED
  BY <1>1, <1>3, <1>4, <1>5, <1>6, CallFitsOn

LEMMA ReadMarkFits ==
  ASSUME Fits, NEW a \in Agents, ReadMark(a), update[a] = NoUpdate
  PROVE  /\ Fits' /\ CallOf(a)
         /\ call'[a].kind = call[a].kind /\ call'[a].id = call[a].id
         /\ call[a].kind = "create" =>
              call'[a].pc = "create" /\ call'[a].high = Max({call[a].high, mark})
         /\ call[a].kind # "create" => call'[a].high = call[a].high
         /\ call[a].kind # "create" /\ call[a].high > mark => call'[a].pc = "raise"
         /\ call[a].kind # "create" /\ ~(call[a].high > mark) =>
              call'[a].pc = IF call[a].kind = "delete" THEN "unlink" ELSE "unlink all"
<1> DEFINE high == IF call[a].kind = "create" THEN Max({call[a].high, mark}) ELSE call[a].high
           pc == CASE call[a].kind = "create" -> "create"
                   [] call[a].kind # "create" /\ call[a].high > mark -> "raise"
                   [] call[a].kind = "delete" /\ call[a].high <= mark -> "unlink"
                   [] OTHER -> "unlink all"
<1>1. /\ call[a].pc = "mark" /\ call' = [call EXCEPT ![a].high = high, ![a].pc = pc]
      /\ UNCHANGED <<files, mark, listLock, taskLock, update, gone, made, given, claimant, overlap, raced>>
  BY DEF ReadMark
<1>2. CallFits(call[a]) /\ call[a].kind \in {"create", "reset", "hide", "delete"}
  BY <1>1, PlaceKinds DEF Fits, AgentFits
<1>3. call[a].high \in Ids \cup {0} /\ mark \in Ids \cup {0}
  BY <1>2 DEF CallFits, Fits, Typed
<1>4. call[a].high \in Nat /\ mark \in Nat /\ high \in Ids \cup {0}
  BY <1>3, Numbers
<1>5. call[a].high <= mark <=> ~(call[a].high > mark)
  BY <1>4
<1>6. /\ call[a].kind = "create" => pc = "create"
      /\ call[a].kind # "create" /\ call[a].high > mark => pc = "raise"
      /\ call[a].kind # "create" /\ ~(call[a].high > mark) =>
           pc = IF call[a].kind = "delete" THEN "unlink" ELSE "unlink all"
  BY <1>5
<1>7. /\ call[a].kind = "create" => high = Max({call[a].high, mark})
      /\ call[a].kind # "create" => high = call[a].high
  OBVIOUS
<1> HIDE DEF high, pc
<1>8. pc \in Places(call[a].kind) /\ pc \in {"create", "raise", "unlink", "unlink all"}
  BY <1>2, <1>6, KindPlaces
<1>9. pc \notin AtTask /\ call[a].kind # "none"
  BY <1>2, <1>8 DEF AtTask
<1>10. /\ CallOf(a) /\ CallFits(call'[a]) /\ call'[a].pc = pc /\ call'[a].kind = call[a].kind
       /\ call'[a].high = high /\ call'[a].id = call[a].id
  <2>1. Raises(a, high, pc)
    BY <1>1 DEF Raises
  <2> QED
    BY <1>4, <1>8, <1>9, <2>1, RaisesFits
<1>11. Typed'
  BY <1>1, <1>10 DEF Fits, Typed, CallOf
<1>12. InList(call'[a]) <=> InList(call[a])
  BY <1>1, <1>2, <1>6, <1>10 DEF InList
<1>13. Fits'
  BY <1>1, <1>8, <1>10, <1>11, <1>12, CallFitsOn
<1> QED
  BY <1>6, <1>7, <1>10, <1>13

LEMMA EmptyMarkFits ==
  ASSUME Fits, NEW a \in Agents, EmptyMark(a), update[a] = NoUpdate
  PROVE  /\ Fits' /\ CallOf(a)
         /\ call'[a].kind = call[a].kind /\ call'[a].id = call[a].id
         /\ call'[a].high = call[a].high
         /\ call'[a].pc = "write mark"
<1> DEFINE pc == "write mark"
<1>1. /\ call[a].pc = "raise" /\ call' = [call EXCEPT ![a].pc = pc] /\ mark' = 0
      /\ UNCHANGED <<files, listLock, taskLock, update, gone, made, given, claimant, overlap, raced>>
  BY DEF EmptyMark, Goes
<1>2. CallFits(call[a]) /\ call[a].kind \in {"reset", "hide", "delete"}
  BY <1>1, PlaceKinds DEF Fits, AgentFits
<1>4. pc \in Places(call[a].kind) /\ pc = "write mark"
  BY <1>2, KindPlaces
<1>5. pc \notin AtTask /\ call[a].kind # "none"
  BY <1>2, <1>4 DEF AtTask
<1> HIDE DEF pc
<1>6. /\ CallOf(a) /\ CallFits(call'[a]) /\ call'[a].pc = pc /\ call'[a].kind = call[a].kind
      /\ call'[a].high = call[a].high /\ call'[a].id = call[a].id
  BY <1>1, <1>4, <1>5, GoesFits
<1>7. Typed'
  BY <1>1, <1>2, <1>6 DEF Fits, Typed, CallOf, CallFits
<1>8. InList(call'[a]) <=> InList(call[a])
  BY <1>1, <1>2, <1>4, <1>6 DEF InList
<1>9. Fits'
  BY <1>1, <1>4, <1>6, <1>7, <1>8, CallFitsOn
<1> QED
  BY <1>6, <1>9 DEF pc

LEMMA WriteMarkFits ==
  ASSUME Fits, NEW a \in Agents, WriteMark(a), update[a] = NoUpdate
  PROVE  /\ Fits' /\ CallOf(a)
         /\ call'[a].kind = call[a].kind /\ call'[a].id = call[a].id
         /\ call'[a].high = call[a].high
         /\ call'[a].pc = IF call[a].kind = "delete" THEN "unlink" ELSE "unlink all"
<1> DEFINE pc == IF call[a].kind = "delete" THEN "unlink" ELSE "unlink all"
<1>1. /\ call[a].pc = "write mark" /\ call' = [call EXCEPT ![a].pc = pc] /\ mark' = call[a].high
      /\ UNCHANGED <<files, listLock, taskLock, update, gone, made, given, claimant, overlap, raced>>
  BY DEF WriteMark, Goes
<1>2. CallFits(call[a]) /\ call[a].kind \in {"reset", "hide", "delete"}
  BY <1>1, PlaceKinds DEF Fits, AgentFits
<1>3. call[a].kind = "delete" <=> pc = "unlink"
  OBVIOUS
<1>4. pc \in Places(call[a].kind) /\ pc \in {"unlink", "unlink all"}
  BY <1>2, KindPlaces
<1>5. pc \notin AtTask /\ call[a].kind # "none"
  BY <1>2, <1>4 DEF AtTask
<1> HIDE DEF pc
<1>6. /\ CallOf(a) /\ CallFits(call'[a]) /\ call'[a].pc = pc /\ call'[a].kind = call[a].kind
      /\ call'[a].high = call[a].high /\ call'[a].id = call[a].id
  BY <1>1, <1>4, <1>5, GoesFits
<1>7. Typed'
  BY <1>1, <1>2, <1>6 DEF Fits, Typed, CallOf, CallFits
<1>8. InList(call'[a]) <=> InList(call[a])
  BY <1>1, <1>2, <1>3, <1>4, <1>6 DEF InList
<1>9. Fits'
  BY <1>1, <1>4, <1>6, <1>7, <1>8, CallFitsOn
<1> QED
  BY <1>6, <1>9 DEF pc

LEMMA CreateFileFits ==
  ASSUME Fits, NEW a \in Agents, CreateFile(a), update[a] = NoUpdate
  PROVE  /\ Fits' /\ CallOf(a)
         /\ call'[a].pc = "fill" /\ call'[a].kind = call[a].kind
         /\ call'[a].id = NextId(call[a]) /\ call'[a].id \in Ids
<1> DEFINE n == NextId(call[a])
           pc == "fill"
<1>1. /\ call[a].pc = "create" /\ n \in Ids /\ Write(n, Torn)
      /\ given' = [given EXCEPT ![n] = @ + 1]
      /\ UNCHANGED <<mark, listLock, taskLock, update, gone, made, claimant, overlap, raced>>
  BY DEF CreateFile
<1>2. call' = [call EXCEPT ![a].id = n, ![a].pc = pc]
  BY DEF CreateFile
<1> HIDE DEF n
<1>3. call[a].kind = "create"
  <2>1. CallFits(call[a]) /\ call[a].pc = "create"
    BY <1>1 DEF Fits, AgentFits
  <2> QED
    BY <2>1, PlaceKinds
<1>4. pc \in Places(call[a].kind) /\ call[a].kind # "none"
  BY <1>3, KindPlaces
<1>5. pc = "fill"
  OBVIOUS
<1> HIDE DEF pc
<1>6. /\ CallOf(a) /\ CallFits(call'[a]) /\ call'[a].pc = pc /\ call'[a].kind = call[a].kind
      /\ call'[a].id = n
  BY <1>1, <1>2, <1>4, NamesFits
<1>7. /\ DOMAIN files' \subseteq Ids
      /\ \A i \in DOMAIN files' : files'[i] = Torn \/ files'[i] \in Task
  BY <1>1, WriteTyped
<1>8. given' \in [Ids -> Nat]
  BY <1>1 DEF Fits, Typed
<1>9. Typed'
  BY <1>1, <1>6, <1>7, <1>8 DEF Fits, Typed, CallOf
<1>10. InList(call'[a]) /\ InList(call[a])
  BY <1>1, <1>5, <1>6 DEF InList
<1>11. Fits'
  BY <1>1, <1>5, <1>6, <1>9, <1>10, CallFitsOn
<1> QED
  BY <1>1, <1>5, <1>6, <1>11 DEF n

LEMMA FillFileFits ==
  ASSUME Fits, NEW a \in Agents, FillFile(a), update[a] = NoUpdate
  PROVE  Fits' /\ CallOf(a) /\ call'[a] = NoCall
<1> DEFINE n == call[a].id
<1>1. /\ call[a].pc = "fill" /\ Write(n, NewTask) /\ claimant' = [claimant EXCEPT ![n] = NoOne]
      /\ listLock' = NoOne /\ call' = [call EXCEPT ![a] = NoCall]
      /\ UNCHANGED <<mark, taskLock, update, gone, made, given, overlap, raced>>
  BY DEF FillFile, Ends
<1>2. n \in Ids /\ listLock = a
  BY <1>1 DEF Fits, AgentFits, CallFits, InList
<1>3. NewTask \in Task
  BY DEF NewTask, Task, Owner, TaskStatus
<1> HIDE DEF n
<1>4. /\ DOMAIN files' \subseteq Ids
      /\ \A i \in DOMAIN files' : files'[i] = Torn \/ files'[i] \in Task
  BY <1>1, <1>2, <1>3, WriteTyped
<1>5. claimant' \in [Ids -> Owner]
  BY <1>1, <1>2 DEF Fits, Typed, Owner
<1>6. CallOf(a) /\ call'[a] = NoCall /\ CallFits(call'[a])
  BY <1>1, EndsFits
<1>7. Typed'
  BY <1>1, <1>4, <1>5, <1>6 DEF Fits, Typed, Owner, CallOf
<1>8. NoOne \notin Agents /\ NoCall.pc = "idle" /\ ~InList(NoCall)
  BY TaskListAssumption, NoCallFits
<1>9. /\ listLock' = a <=> InList(call'[a])
      /\ \A b \in Agents \ {a} : listLock' = b <=> listLock = b
  BY <1>1, <1>2, <1>6, <1>8
<1> QED
  BY <1>1, <1>6, <1>7, <1>8, <1>9, ListFitsOn

\* A step that goes on with the files to remove.
LEMMA UnlinksFits ==
  ASSUME Fits, NEW a \in Agents, call[a].kind \in {"reset", "hide"}, NEW left,
         \/ call' = [call EXCEPT ![a].left = left, ![a].pc = "unlink each"]
         \/ call' = [call EXCEPT ![a].left = left] /\ call[a].pc = "unlink each"
  PROVE  /\ CallOf(a) /\ CallFits(call'[a]) /\ call'[a].pc = "unlink each"
         /\ call'[a].kind = call[a].kind /\ call'[a].left = left
<1>1. DOMAIN call = Agents /\ CallFits(call[a])
  BY DEF Fits, Typed, AgentFits
<1>2. /\ CallOf(a) /\ DOMAIN call'[a] = DOMAIN call[a] /\ call'[a].pc = "unlink each"
      /\ call'[a].kind = call[a].kind /\ call'[a].id = call[a].id /\ call'[a].high = call[a].high
      /\ call'[a].todo = call[a].todo /\ call'[a].other = call[a].other /\ call'[a].left = left
  <2>1. CASE call' = [call EXCEPT ![a].left = left, ![a].pc = "unlink each"]
    BY <1>1, <2>1 DEF CallFits, CallOf
  <2>2. CASE call' = [call EXCEPT ![a].left = left] /\ call[a].pc = "unlink each"
    BY <1>1, <2>2 DEF CallFits, CallOf
  <2> QED
    BY <2>1, <2>2
<1>3. "unlink each" \in Places(call[a].kind)
  BY KindPlaces
<1>4. CallFits(call'[a])
  BY <1>1, <1>2, <1>3 DEF CallFits
<1> QED
  BY <1>2, <1>4

LEMMA ListToUnlinkFits ==
  ASSUME Fits, NEW a \in Agents, ListToUnlink(a), update[a] = NoUpdate
  PROVE  /\ Fits' /\ CallOf(a) /\ call'[a].pc = "unlink each" /\ call'[a].kind = call[a].kind
         /\ call'[a].left = DOMAIN files
<1> DEFINE left == DOMAIN files
<1>1. /\ call[a].pc = "unlink all"
      /\ call' = [call EXCEPT ![a].left = left, ![a].pc = "unlink each"]
      /\ UNCHANGED <<files, mark, listLock, taskLock, update, gone, made, given, claimant,
                     overlap, raced>>
  BY DEF ListToUnlink
<1>2. call[a].kind \in {"reset", "hide"}
  BY <1>1, PlaceKinds DEF Fits, AgentFits
<1> HIDE DEF left
<1>3. /\ CallOf(a) /\ CallFits(call'[a]) /\ call'[a].pc = "unlink each"
      /\ call'[a].kind = call[a].kind /\ call'[a].left = left
  BY <1>1, <1>2, UnlinksFits
<1>4. Typed'
  BY <1>1, <1>3 DEF Fits, Typed, CallOf
<1>5. InList(call'[a]) /\ InList(call[a])
  BY <1>1, <1>3 DEF InList
<1>6. Fits'
  BY <1>1, <1>3, <1>4, <1>5, CallFitsOn
<1> QED
  BY <1>3, <1>6 DEF left

LEMMA UnlinkNextFits ==
  ASSUME Fits, NEW a \in Agents, UnlinkNext(a), update[a] = NoUpdate
  PROVE  /\ Fits' /\ CallOf(a) /\ call'[a].pc = "unlink each" /\ call'[a].kind = call[a].kind
         /\ call[a].pc = "unlink each"
         /\ \E i : DOMAIN files' = DOMAIN files \ {i} /\ call'[a].left = call[a].left \ {i}
         /\ \A i \in DOMAIN files' : i \in DOMAIN files /\ files'[i] = files[i]
<1>1. PICK i \in call[a].left :
        /\ files' = [j \in DOMAIN files \ {i} |-> files[j]]
        /\ call' = [call EXCEPT ![a].left = @ \ {i}]
  BY DEF UnlinkNext
<1> DEFINE left == call[a].left \ {i}
<1>2. /\ call[a].pc = "unlink each" /\ call' = [call EXCEPT ![a].left = left]
      /\ UNCHANGED <<mark, listLock, taskLock, update, gone, made, given, claimant, overlap,
                     raced>>
  BY <1>1 DEF UnlinkNext
<1>3. call[a].kind \in {"reset", "hide"}
  BY <1>2, PlaceKinds DEF Fits, AgentFits
<1> HIDE DEF left
<1>4. /\ CallOf(a) /\ CallFits(call'[a]) /\ call'[a].pc = "unlink each"
      /\ call'[a].kind = call[a].kind /\ call'[a].left = left
  BY <1>2, <1>3, UnlinksFits
<1>5. DOMAIN files' = DOMAIN files \ {i} /\ \A j \in DOMAIN files' : files'[j] = files[j]
  BY <1>1
<1>6. Typed'
  BY <1>2, <1>4, <1>5 DEF Fits, Typed, CallOf
<1>7. InList(call'[a]) /\ InList(call[a])
  BY <1>2, <1>4 DEF InList
<1>8. Fits'
  BY <1>2, <1>4, <1>6, <1>7, CallFitsOn
<1>9. \A j \in DOMAIN files' : j \in DOMAIN files /\ files'[j] = files[j]
  BY <1>5
<1> QED
  BY <1>2, <1>4, <1>5, <1>8, <1>9 DEF left

LEMMA EndResetFits ==
  ASSUME Fits, NEW a \in Agents, EndReset(a), update[a] = NoUpdate
  PROVE  Fits' /\ CallOf(a) /\ call'[a] = NoCall
<1>1. /\ call[a].pc = "unlink each" /\ listLock' = NoOne
      /\ call' = [call EXCEPT ![a] = NoCall]
      /\ UNCHANGED <<files, mark, taskLock, update, gone, made, given, claimant, overlap, raced>>
  BY DEF EndReset, Ends
<1>2. listLock = a
  BY <1>1 DEF Fits, AgentFits, InList
<1>3. CallOf(a) /\ call'[a] = NoCall /\ CallFits(call'[a])
  BY <1>1, EndsFits
<1>4. Typed'
  BY <1>1, <1>3 DEF Fits, Typed, Owner, CallOf
<1>5. NoOne \notin Agents /\ NoCall.pc = "idle" /\ ~InList(NoCall)
  BY TaskListAssumption, NoCallFits
<1>6. /\ listLock' = a <=> InList(call'[a])
      /\ \A b \in Agents \ {a} : listLock' = b <=> listLock = b
  BY <1>1, <1>2, <1>3, <1>5
<1> QED
  BY <1>1, <1>3, <1>4, <1>5, <1>6, ListFitsOn

LEMMA CheckAllDoneFits ==
  ASSUME Fits, NEW a \in Agents, CheckAllDone(a), update[a] = NoUpdate
  PROVE  /\ Fits' /\ CallOf(a)
         /\ call'[a] = NoCall \/ (call'[a].pc = "list lock" /\ call'[a].kind = call[a].kind)
<1> DEFINE pc == "list lock"
<1>1. /\ call[a].pc = "all done"
      /\ UNCHANGED <<files, mark, listLock, taskLock, update, gone, made, given, claimant, overlap, raced>>
  BY DEF CheckAllDone
<1>2. call[a].kind = "hide"
  BY <1>1, PlaceKinds DEF Fits, AgentFits
<1>3. pc \in Places(call[a].kind) /\ pc \notin AtTask /\ call[a].kind # "none"
  BY <1>2, KindPlaces DEF AtTask
<1>4. pc = "list lock"
  OBVIOUS
<1>5. call' = [call EXCEPT ![a].pc = pc] \/ call' = [call EXCEPT ![a] = NoCall]
  BY DEF CheckAllDone, Goes, Ends
<1> HIDE DEF pc
<1>8. /\ CallOf(a) /\ CallFits(call'[a])
      /\ call'[a] = NoCall \/ (call'[a].pc = pc /\ call'[a].kind = call[a].kind)
  <2>1. CASE call' = [call EXCEPT ![a].pc = pc]
    BY <1>3, <2>1, GoesFits
  <2>2. CASE call' = [call EXCEPT ![a] = NoCall]
    BY <2>2, EndsFits
  <2> QED
    BY <1>5, <2>1, <2>2
<1>9. Typed'
  BY <1>1, <1>8 DEF Fits, Typed, CallOf
<1>10. ~InList(call'[a]) /\ ~InList(call[a]) /\ call'[a].pc \notin {"owner", "blockers"}
  BY <1>1, <1>4, <1>8, NoCallFits DEF InList
<1> QED
  BY <1>1, <1>4, <1>8, <1>9, <1>10, CallFitsOn

-----------------------------------------------------------------------------
(* The locks of the tasks.                                                 *)

\* A step at which agent a takes or releases the lock of a task, or neither.
LEMMA TaskFitsOn ==
  ASSUME Fits, Typed', NEW a \in Agents, CallOf(a), UpdateOfOne(a), CallFits(call'[a]),
         UpdateFits(update'[a]), UNCHANGED listLock, InList(call'[a]) <=> InList(call[a]),
         \A b \in Agents \ {a}, i \in Ids : taskLock'[i] = b <=> taskLock[i] = b,
         \A i \in Ids : taskLock'[i] = a <=> HasTask(call'[a], update'[a], i),
         update'[a].pc # "idle" => call'[a].pc = "updates"
  PROVE  Fits'
<1>1. LocksOf(a)
  BY DEF LocksOf
<1>2. AgentFits(a)'
  BY DEF AgentFits, Fits
<1> QED
  BY <1>1, <1>2, OneFits

LEMMA FreeLocks ==
  ASSUME Fits, NEW a \in Agents, NEW i \in Ids, Free(a, i)
  PROVE  /\ taskLock' \in [Ids -> Owner]
         /\ \A b \in Agents \ {a}, j \in Ids : taskLock'[j] = b <=> taskLock[j] = b
         /\ \A j \in Ids : taskLock'[j] = a <=> taskLock[j] = a /\ j # i
<1>1. taskLock \in [Ids -> Owner] /\ NoOne \notin Agents /\ NoOne \in Owner
  BY TaskListAssumption DEF Fits, Typed, Owner
<1>2. taskLock' = [taskLock EXCEPT ![i] = IF @ = a THEN NoOne ELSE @]
  BY DEF Free
<1>3. /\ taskLock'[i] = IF taskLock[i] = a THEN NoOne ELSE taskLock[i]
      /\ \A j \in Ids \ {i} : taskLock'[j] = taskLock[j]
      /\ taskLock' \in [Ids -> Owner]
  BY <1>1, <1>2
<1> QED
  BY <1>1, <1>3

LEMMA TakesLock ==
  ASSUME Fits, NEW a \in Agents, NEW i \in Ids, taskLock[i] = NoOne,
         taskLock' = [taskLock EXCEPT ![i] = a]
  PROVE  /\ taskLock' \in [Ids -> Owner]
         /\ \A b \in Agents \ {a}, j \in Ids : taskLock'[j] = b <=> taskLock[j] = b
         /\ \A j \in Ids : taskLock'[j] = a <=> taskLock[j] = a \/ j = i
<1>1. taskLock \in [Ids -> Owner] /\ NoOne \notin Agents /\ a \in Owner
  BY TaskListAssumption DEF Fits, Typed, Owner
<1>2. /\ taskLock'[i] = a /\ \A j \in Ids \ {i} : taskLock'[j] = taskLock[j]
      /\ taskLock' \in [Ids -> Owner]
  BY <1>1
<1> QED
  BY <1>1, <1>2

-----------------------------------------------------------------------------
(* The steps of a claim.                                                   *)

LEMMA ListToClaimFits ==
  ASSUME Fits, NEW a \in Agents, ListToClaim(a), update[a] = NoUpdate
  PROVE  /\ Fits' /\ CallOf(a)
         /\ call'[a] = NoCall \/ (call'[a].pc = "exists" /\ call'[a].kind = call[a].kind
                                  /\ call'[a].todo = call[a].todo)
<1> DEFINE pc == "exists"
<1>1. /\ call[a].pc = "claim next"
      /\ UNCHANGED <<files, mark, listLock, taskLock, update, gone, made, given, claimant, overlap, raced>>
  BY DEF ListToClaim
<1>2. call[a].kind = "claim"
  <2>1. CallFits(call[a])
    BY DEF Fits, AgentFits
  <2> QED
    BY <1>1, <2>1, PlaceKinds
<1>3. pc \in Places(call[a].kind) /\ call[a].kind # "none"
  BY <1>2, KindPlaces
<1>4. pc = "exists"
  OBVIOUS
<1>5. \/ \E i \in Available : call' = [call EXCEPT ![a].id = i, ![a].pc = pc]
      \/ call' = [call EXCEPT ![a] = NoCall]
  BY DEF ListToClaim, Ends
<1> HIDE DEF pc
<1>6. Available \subseteq Ids
  BY DEF Available, Readable, Fits, Typed
<1>7. /\ CallOf(a) /\ CallFits(call'[a])
      /\ call'[a] = NoCall \/ (call'[a].pc = pc /\ call'[a].kind = call[a].kind
                               /\ call'[a].todo = call[a].todo)
  <2>1. CASE \E i \in Available : call' = [call EXCEPT ![a].id = i, ![a].pc = pc]
    <3>1. PICK i \in Ids : call' = [call EXCEPT ![a].id = i, ![a].pc = pc]
      BY <1>6, <2>1
    <3> QED
      BY <1>3, <3>1, NamesFits
  <2>2. CASE call' = [call EXCEPT ![a] = NoCall]
    BY <2>2, EndsFits
  <2> QED
    BY <1>5, <2>1, <2>2
<1>8. Typed'
  BY <1>1, <1>7 DEF Fits, Typed, CallOf
<1>9. ~InList(call'[a]) /\ ~InList(call[a]) /\ call'[a].pc \notin {"owner", "blockers"}
  BY <1>1, <1>4, <1>7, NoCallFits DEF InList
<1> QED
  BY <1>1, <1>4, <1>7, <1>8, <1>9, CallFitsOn

LEMMA CheckExistsFits ==
  ASSUME Fits, NEW a \in Agents, CheckExists(a), update[a] = NoUpdate
  PROVE  /\ Fits' /\ CallOf(a)
         /\ call'[a] = NoCall \/ (call'[a].pc = "task lock" /\ call'[a].kind = call[a].kind
                                  /\ call'[a].todo = call[a].todo)
<1> DEFINE pc == "task lock"
<1>1. /\ call[a].pc = "exists"
      /\ UNCHANGED <<files, mark, listLock, taskLock, update, gone, made, given, claimant, overlap, raced>>
  BY DEF CheckExists
<1>2. call[a].kind = "claim" /\ call[a].id \in Ids
  BY <1>1, PlaceKinds DEF Fits, AgentFits, CallFits
<1>3. pc \in Places(call[a].kind) /\ call[a].kind # "none"
  BY <1>2, KindPlaces
<1>4. pc = "task lock"
  OBVIOUS
<1>5. call' = [call EXCEPT ![a].pc = pc] \/ call' = [call EXCEPT ![a] = NoCall]
  BY DEF CheckExists, Goes, Ends
<1> HIDE DEF pc
<1>6. /\ CallOf(a) /\ CallFits(call'[a])
      /\ call'[a] = NoCall \/ (call'[a].pc = pc /\ call'[a].kind = call[a].kind
                               /\ call'[a].todo = call[a].todo)
  <2>1. CASE call' = [call EXCEPT ![a].pc = pc]
    <3>1. call[a].id \in Ids
      BY <1>2
    <3> QED
      BY <1>3, <2>1, <3>1, GoesFits
  <2>2. CASE call' = [call EXCEPT ![a] = NoCall]
    BY <2>2, EndsFits
  <2> QED
    BY <1>5, <2>1, <2>2
<1>7. Typed'
  BY <1>1, <1>6 DEF Fits, Typed, CallOf
<1>8. ~InList(call'[a]) /\ ~InList(call[a]) /\ call'[a].pc \notin {"owner", "blockers"}
  BY <1>1, <1>4, <1>6, NoCallFits DEF InList
<1> QED
  BY <1>1, <1>4, <1>6, <1>7, <1>8, CallFitsOn

LEMMA LockToClaimFits ==
  ASSUME Fits, NEW a \in Agents, LockToClaim(a), update[a] = NoUpdate
  PROVE  /\ Fits' /\ CallOf(a)
         /\ call'[a] = NoCall \/ (call'[a].pc = "owner" /\ call'[a].kind = call[a].kind
                                  /\ call'[a].todo = call[a].todo)
<1> DEFINE pc == "owner"
           n == call[a].id
<1>1. /\ call[a].pc = "task lock"
      /\ UNCHANGED <<files, mark, listLock, update, gone, made, given, claimant, overlap, raced>>
  BY DEF LockToClaim
<1>2. n \in Ids
  BY <1>1 DEF Fits, AgentFits, CallFits
<1>3. call[a].kind = "claim"
  <2>1. CallFits(call[a]) /\ call[a].pc = "task lock"
    BY <1>1 DEF Fits, AgentFits
  <2> QED
    BY <2>1, PlaceKinds
<1>4. pc \in Places(call[a].kind) /\ call[a].kind # "none"
  BY <1>3, KindPlaces
<1>5. pc = "owner"
  OBVIOUS
<1>6. UpdateOfOne(a) /\ update'[a] = NoUpdate /\ UpdateFits(update'[a]) /\ update'[a].pc = "idle"
  BY <1>1, NoCallFits DEF UpdateOfOne, Fits, Typed
<1>7. \A i \in Ids : taskLock[i] # a
  <2>1. \A i \in Ids : taskLock[i] = a <=> HasTask(call[a], update[a], i)
    BY DEF Fits, AgentFits
  <2> QED
    BY <1>1, <1>6, <2>1 DEF HasTask
<1>8. \/ call' = [call EXCEPT ![a].pc = pc] /\ taskLock[n] = NoOne
         /\ taskLock' = [taskLock EXCEPT ![n] = a]
      \/ call' = [call EXCEPT ![a] = NoCall] /\ UNCHANGED taskLock
  BY DEF LockToClaim, Goes, Ends
<1> HIDE DEF pc
<1>9. CASE /\ call' = [call EXCEPT ![a].pc = pc] /\ taskLock[n] = NoOne
           /\ taskLock' = [taskLock EXCEPT ![n] = a]
  <2>1. /\ CallOf(a) /\ CallFits(call'[a]) /\ call'[a].pc = pc /\ call'[a].kind = call[a].kind
        /\ call'[a].id = n /\ call'[a].todo = call[a].todo
    <3>1. call' = [call EXCEPT ![a].pc = pc]
      BY <1>9
    <3> QED
      BY <1>2, <1>4, <3>1, GoesFits
  <2> HIDE DEF n
  <2>2. /\ taskLock' \in [Ids -> Owner]
        /\ \A b \in Agents \ {a}, j \in Ids : taskLock'[j] = b <=> taskLock[j] = b
        /\ \A j \in Ids : taskLock'[j] = a <=> taskLock[j] = a \/ j = n
    BY <1>2, <1>9, TakesLock
  <2>3. Typed'
    BY <1>1, <2>1, <2>2 DEF Fits, Typed, CallOf
  <2>4. ~InList(call'[a]) /\ ~InList(call[a])
    BY <1>1, <1>5, <2>1 DEF InList
  <2>5. \A j \in Ids : taskLock'[j] = a <=> HasTask(call'[a], update'[a], j)
    BY <1>5, <1>6, <1>7, <2>1, <2>2 DEF HasTask
  <2>6. Fits'
    BY <1>1, <1>6, <2>1, <2>2, <2>3, <2>4, <2>5, TaskFitsOn
  <2> QED
    BY <1>5, <2>1, <2>6
<1>10. CASE call' = [call EXCEPT ![a] = NoCall] /\ UNCHANGED taskLock
  <2>1. CallOf(a) /\ CallFits(call'[a]) /\ call'[a] = NoCall
    BY <1>10, EndsFits
  <2>2. Typed'
    BY <1>1, <1>10, <2>1 DEF Fits, Typed, CallOf
  <2>3. ~InList(call'[a]) /\ ~InList(call[a]) /\ call'[a].pc \notin {"owner", "blockers"}
    BY <1>1, <2>1, NoCallFits DEF InList
  <2> QED
    BY <1>1, <1>10, <2>1, <2>2, <2>3, CallFitsOn
<1> QED
  BY <1>8, <1>9, <1>10

\* The call is over, and the lock it held is free.
LEMMA GivesUpFits ==
  ASSUME Fits, NEW a \in Agents, update[a] = NoUpdate, call[a].pc \in {"owner", "blockers"},
         Ends(a), Free(a, call[a].id),
         UNCHANGED <<files, mark, listLock, update, gone, made, given, claimant, overlap, raced>>
  PROVE  Fits' /\ CallOf(a) /\ call'[a] = NoCall
<1>1. CallOf(a) /\ CallFits(call'[a]) /\ call'[a] = NoCall
  BY EndsFits DEF Ends
<1>2. call[a].id \in Ids
  BY DEF Fits, AgentFits, CallFits
<1>3. /\ taskLock' \in [Ids -> Owner]
      /\ \A b \in Agents \ {a}, j \in Ids : taskLock'[j] = b <=> taskLock[j] = b
      /\ \A j \in Ids : taskLock'[j] = a <=> taskLock[j] = a /\ j # call[a].id
  BY <1>2, FreeLocks
<1>4. UpdateOfOne(a) /\ update'[a] = NoUpdate /\ UpdateFits(update'[a]) /\ update'[a].pc = "idle"
  BY NoCallFits DEF UpdateOfOne, Fits, Typed
<1>5. \A j \in Ids : taskLock'[j] # a
  <2>1. \A i \in Ids : taskLock[i] = a <=> HasTask(call[a], update[a], i)
    BY DEF Fits, AgentFits
  <2> QED
    BY <1>3, <1>4, <2>1 DEF HasTask
<1>6. Typed'
  BY <1>1, <1>3 DEF Fits, Typed, CallOf
<1>7. ~InList(call'[a]) /\ ~InList(call[a])
  BY <1>1, NoCallFits DEF InList
<1>8. \A j \in Ids : taskLock'[j] = a <=> HasTask(call'[a], update'[a], j)
  BY <1>1, <1>4, <1>5, NoCallFits DEF HasTask
<1> QED
  BY <1>1, <1>3, <1>4, <1>6, <1>7, <1>8, TaskFitsOn

LEMMA CheckOwnerFits ==
  ASSUME Fits, NEW a \in Agents, CheckOwner(a), update[a] = NoUpdate
  PROVE  /\ Fits' /\ CallOf(a)
         /\ \/ call'[a] = NoCall
            \/ /\ call'[a].pc = "blockers" /\ call'[a].kind = call[a].kind
               /\ call'[a].id = call[a].id /\ call'[a].todo = call[a].todo
               /\ call[a].id \in Readable /\ Claimable(a, files[call[a].id])
<1>1. /\ call[a].pc = "owner"
      /\ UNCHANGED <<files, mark, listLock, update, gone, made, given, claimant, overlap, raced>>
  BY DEF CheckOwner
<1>2. CASE call[a].id \in Readable /\ Claimable(a, files[call[a].id])
  <2>1. /\ call' = [call EXCEPT ![a].pc = "blockers", ![a].blockers = files[call[a].id].blockedBy]
        /\ UNCHANGED taskLock
    BY <1>2 DEF CheckOwner
  <2>2. DOMAIN call = Agents /\ CallFits(call[a]) /\ call[a].id \in Ids
    BY <1>1 DEF Fits, Typed, AgentFits, CallFits
  <2>3. call[a].kind = "claim" /\ "blockers" \in Places("claim")
    BY <1>1, <2>2, PlaceKinds, KindPlaces
  <2>4. /\ CallOf(a) /\ DOMAIN call'[a] = DOMAIN call[a] /\ call'[a].pc = "blockers"
        /\ call'[a].kind = call[a].kind /\ call'[a].id = call[a].id
        /\ call'[a].high = call[a].high /\ call'[a].todo = call[a].todo
        /\ call'[a].other = call[a].other
    BY <2>1, <2>2 DEF CallFits, CallOf
  <2>5. CallFits(call'[a])
    BY <2>2, <2>3, <2>4 DEF CallFits
  <2>6. Typed'
    BY <1>1, <2>1, <2>4 DEF Fits, Typed, CallOf
  <2>7. UpdateOfOne(a) /\ update'[a] = NoUpdate /\ UpdateFits(update'[a]) /\ update'[a].pc = "idle"
    BY <1>1, NoCallFits DEF UpdateOfOne, Fits, Typed
  <2>8. ~InList(call'[a]) /\ ~InList(call[a])
    BY <1>1, <2>4 DEF InList
  <2>9. \A j \in Ids : taskLock'[j] = a <=> HasTask(call'[a], update'[a], j)
    <3>1. \A i \in Ids : taskLock[i] = a <=> HasTask(call[a], update[a], i)
      BY DEF Fits, AgentFits
    <3> QED
      BY <1>1, <2>1, <2>4, <2>7, <3>1 DEF HasTask
  <2>10. Fits'
    BY <1>1, <2>1, <2>4, <2>5, <2>6, <2>7, <2>8, <2>9, TaskFitsOn
  <2> QED
    BY <1>2, <2>4, <2>10
<1>3. CASE ~(call[a].id \in Readable /\ Claimable(a, files[call[a].id]))
  <2>1. Ends(a) /\ Free(a, call[a].id)
    BY <1>3 DEF CheckOwner
  <2> QED
    BY <1>1, <2>1, GivesUpFits
<1> QED
  BY <1>2, <1>3

\* Lists of updates of at most two tasks.
LEMMA TodoIs ==
  /\ IsTodo(<<>>)
  /\ \A e : IsEntry(e) => IsTodo(<<e>>)
  /\ \A e, f : IsEntry(e) /\ IsEntry(f) => IsTodo(<<e, f>>)
<1>1. IsTodo(<<>>)
  BY NoCallFits DEF CallFits, NoCall
<1>2. ASSUME NEW e, IsEntry(e) PROVE IsTodo(<<e>>)
  <2>1. PICK S : S = {e}
    OBVIOUS
  <2>2. <<e>> \in Seq(S) /\ \A x \in S : IsEntry(x)
    BY <1>2, <2>1
  <2> QED
    BY <2>2 DEF IsTodo
<1>3. ASSUME NEW e, NEW f, IsEntry(e), IsEntry(f) PROVE IsTodo(<<e, f>>)
  <2>1. PICK S : S = {e, f}
    OBVIOUS
  <2>2. <<e, f>> \in Seq(S) /\ \A x \in S : IsEntry(x)
    BY <1>3, <2>1
  <2> QED
    BY <2>2 DEF IsTodo
<1> QED
  BY <1>1, <1>2, <1>3

LEMMA CheckBlockersFits ==
  ASSUME Fits, NEW a \in Agents, CheckBlockers(a), update[a] = NoUpdate
  PROVE  /\ Fits' /\ CallOf(a) /\ UpdateOfOne(a)
         /\ \/ call'[a] = NoCall /\ update'[a] = NoUpdate
            \/ /\ call'[a].pc = "updates" /\ call'[a].kind = call[a].kind
               /\ call'[a].todo = <<UpdateOf(call[a].id, [status |-> "in_progress"])>>
               /\ update'[a].pc = "read" /\ update'[a].id = call[a].id
               /\ update'[a].fields = [owner |-> a]
<1> DEFINE first == UpdateOf(call[a].id, [owner |-> a])
           todo == <<UpdateOf(call[a].id, [status |-> "in_progress"])>>
           u == Begun(first, "read")
<1>1. /\ call[a].pc = "blockers"
      /\ UNCHANGED <<files, mark, listLock, gone, made, given, claimant, overlap, raced>>
  BY DEF CheckBlockers
<1>2. CASE call[a].blockers \cap Unresolved # {}
  <2>1. Ends(a) /\ Free(a, call[a].id) /\ UNCHANGED update
    BY <1>2 DEF CheckBlockers
  <2>2. UpdateOfOne(a) /\ update'[a] = NoUpdate
    BY <2>1 DEF UpdateOfOne, Fits, Typed
  <2> QED
    BY <1>1, <2>1, <2>2, GivesUpFits
<1>3. CASE call[a].blockers \cap Unresolved = {}
  <2>1. update' = [update EXCEPT ![a] = u] /\ Updates(a, todo) /\ UNCHANGED taskLock
    BY <1>3 DEF CheckBlockers, ClaimUpdates
  <2>2. call[a].id \in Ids
    BY <1>1 DEF Fits, AgentFits, CallFits
  <2>3. call[a].kind = "claim"
    <3>1. CallFits(call[a])
      BY DEF Fits, AgentFits
    <3> QED
      BY <1>1, <3>1, PlaceKinds
  <2>4. "updates" \in Places(call[a].kind) /\ call[a].kind # "none"
    BY <2>3, KindPlaces
  <2>5. IsTodo(todo)
    <3>1. IsFields([status |-> "in_progress"])
      BY DEF IsFields, TaskStatus
    <3>2. IsEntry(UpdateOf(call[a].id, [status |-> "in_progress"]))
      BY <2>2, <3>1 DEF IsEntry, UpdateOf
    <3> QED
      BY <3>2, TodoIs
  <2>6. /\ u.pc = "read" /\ u.id = call[a].id /\ u.fields = [owner |-> a] /\ u.task = NewTask
        /\ {"id", "pc", "fields", "task"} \subseteq DOMAIN u
    BY DEF Begun, NoUpdate, UpdateOf
  <2>7. IsFields([owner |-> a]) /\ NewTask \in Task
    BY DEF IsFields, Owner, NewTask, Task, TaskStatus
  <2> HIDE DEF todo, u
  <2>8. UpdateFits(u)
    BY <2>2, <2>6, <2>7 DEF UpdateFits
  <2>9. UpdateOfOne(a) /\ update'[a] = u
    BY <2>1 DEF UpdateOfOne, Fits, Typed
  <2>10. /\ CallOf(a) /\ CallFits(call'[a]) /\ call'[a].pc = "updates"
         /\ call'[a].kind = call[a].kind /\ call'[a].todo = todo
    BY <2>1, <2>4, <2>5, UpdatesFits
  <2>11. Typed'
    BY <1>1, <2>1, <2>9, <2>10 DEF Fits, Typed, CallOf, UpdateOfOne
  <2>12. ~InList(call'[a]) /\ ~InList(call[a])
    BY <1>1, <2>10 DEF InList
  <2>13. \A j \in Ids : taskLock'[j] = a <=> HasTask(call'[a], update'[a], j)
    <3>1. \A i \in Ids : taskLock[i] = a <=> HasTask(call[a], update[a], i)
      BY DEF Fits, AgentFits
    <3>2. update[a].pc = "idle"
      BY NoCallFits
    <3> QED
      BY <1>1, <2>1, <2>6, <2>9, <2>10, <3>1, <3>2 DEF HasTask
  <2>14. Fits'
    BY <1>1, <2>1, <2>8, <2>9, <2>10, <2>11, <2>12, <2>13, TaskFitsOn
  <2> QED
    BY <2>6, <2>9, <2>10, <2>14 DEF todo
<1> QED
  BY <1>2, <1>3

-----------------------------------------------------------------------------
(* Listings.  What InOrder returns is shown along the ids, from the least  *)
(* one at which it would not hold.                                         *)

Listed(ids, f, n) ==
  IF n = 0 THEN <<>> ELSE IF n \in ids THEN Append(f[n - 1], n) ELSE f[n - 1]

IsListing(ids, f, m) == f = [n \in 0 .. m |-> Listed(ids, f, n)]

\* The function that InOrder defines by recursion exists.
LEMMA ListingExists ==
  ASSUME NEW ids, NEW m \in Nat
  PROVE  \E f : IsListing(ids, f, m)
<1> DEFINE Bad == {n \in Nat : ~\E f : IsListing(ids, f, n)}
<1>1. SUFFICES ASSUME Bad # {} PROVE FALSE
  OBVIOUS
<1>2. PICK n \in Bad : \A k \in Bad : n <= k
  <2>1. Bad \in SUBSET Nat
    OBVIOUS
  <2> HIDE DEF Bad
  <2> QED
    BY <1>1, <2>1, LeastOf
<1>3. n \in Nat /\ ~\E f : IsListing(ids, f, n)
  OBVIOUS
<1>4. CASE n = 0
  <2> DEFINE f == [k \in 0 .. 0 |-> <<>>]
  <2>1. IsListing(ids, f, 0)
    BY DEF IsListing, Listed
  <2> QED
    BY <1>3, <1>4, <2>1
<1>5. CASE n # 0
  <2>1. n - 1 \in Nat /\ n - 1 < n
    BY <1>3, <1>5
  <2>2. PICK g : IsListing(ids, g, n - 1)
    BY <1>2, <2>1
  <2> DEFINE f == [k \in 0 .. n |-> IF k = n THEN Listed(ids, g, n) ELSE g[k]]
  <2>3. ASSUME NEW k \in 0 .. n PROVE f[k] = Listed(ids, f, k)
    <3>1. CASE k = n
      <4>1. f[n - 1] = g[n - 1]
        BY <1>3, <2>1
      <4> QED
        BY <1>3, <1>5, <3>1, <4>1 DEF Listed
    <3>2. CASE k # n
      <4>1. k \in 0 .. n - 1 /\ f[k] = g[k]
        BY <1>3, <3>2
      <4>2. g[k] = Listed(ids, g, k)
        BY <2>2, <4>1 DEF IsListing
      <4>3. k # 0 => f[k - 1] = g[k - 1]
        BY <1>3, <4>1
      <4> HIDE DEF f
      <4> QED
        BY <4>1, <4>2, <4>3 DEF Listed
    <3> QED
      BY <3>1, <3>2
  <2>4. IsListing(ids, f, n)
    BY <2>3 DEF IsListing
  <2> QED
    BY <1>3, <2>4
<1> QED
  BY <1>4, <1>5

\* A listing shows the ids that are asked for.
LEMMA InOrderIs ==
  ASSUME NEW ids
  PROVE  InOrder(ids) \in Seq(ids)
<1> DEFINE m == InitialTasks + MaxCalls
<1>1. m \in Nat
  BY TaskListAssumption
<1>2. PICK f : IsListing(ids, f, m) /\ InOrder(ids) = f[m]
  <2> DEFINE g == CHOOSE h : IsListing(ids, h, m)
  <2>1. IsListing(ids, g, m)
    BY <1>1, ListingExists
  <2>2. InOrder(ids) = g[m]
    BY DEF InOrder, IsListing, Listed
  <2> QED
    BY <2>1, <2>2
<1> HIDE DEF m
<1> DEFINE Bad == {n \in Nat : n <= m /\ f[n] \notin Seq(ids)}
<1>3. ASSUME Bad # {} PROVE FALSE
  <2>1. PICK n \in Bad : \A k \in Bad : n <= k
    <3>1. Bad \in SUBSET Nat
      OBVIOUS
    <3> HIDE DEF Bad
    <3> QED
      BY <1>3, <3>1, LeastOf
  <2>2. n \in Nat /\ n <= m /\ f[n] \notin Seq(ids)
    OBVIOUS
  <2>3. f[n] = Listed(ids, f, n)
    BY <1>1, <1>2, <2>2 DEF IsListing
  <2>4. CASE n = 0
    BY <2>2, <2>3, <2>4, EmptySeq DEF Listed
  <2>5. CASE n # 0
    <3>1. n - 1 \in Nat /\ n - 1 <= m /\ n - 1 < n
      BY <1>1, <2>2, <2>5
    <3>2. f[n - 1] \in Seq(ids)
      BY <2>1, <3>1
    <3>3. n \in ids => Append(f[n - 1], n) \in Seq(ids)
      BY <3>2, AppendProperties
    <3> QED
      BY <2>2, <2>3, <2>5, <3>2, <3>3 DEF Listed
  <2> QED
    BY <2>4, <2>5
<1>4. f[m] \in Seq(ids)
  BY <1>1, <1>3
<1> QED
  BY <1>2, <1>4

\* What is made of each id of a listing.
LEMMA ListTodo ==
  ASSUME NEW ids, NEW todo, todo = [n \in DOMAIN InOrder(ids) |-> todo[n]],
         \A n \in DOMAIN InOrder(ids) : InOrder(ids)[n] \in ids => IsEntry(todo[n])
  PROVE  IsTodo(todo)
<1> DEFINE q == InOrder(ids)
<1>1. q \in Seq(ids)
  BY InOrderIs
<1> HIDE DEF q
<1>2. DOMAIN q = 1 .. Len(q) /\ Len(q) \in Nat /\ \A n \in 1 .. Len(q) : q[n] \in ids
  BY <1>1, LenProperties
<1>3. /\ todo = [n \in DOMAIN q |-> todo[n]]
      /\ \A n \in DOMAIN q : q[n] \in ids => IsEntry(todo[n])
  BY DEF q
<1>4. PICK S : S = {todo[n] : n \in 1 .. Len(q)}
  OBVIOUS
<1>5. todo \in [1 .. Len(q) -> S]
  BY <1>2, <1>3, <1>4
<1>6. todo \in Seq(S)
  BY <1>2, <1>5, SeqDef
<1>7. \A e \in S : IsEntry(e)
  BY <1>2, <1>3, <1>4
<1> QED
  BY <1>6, <1>7 DEF IsTodo

\* What is left of a list of updates, and the one that comes next.
LEMMA TodoOn ==
  ASSUME NEW q, IsTodo(q), q # <<>>
  PROVE  /\ IsEntry(Head(q)) /\ IsTodo(Tail(q)) /\ Head(q) = q[1] /\ 1 \in DOMAIN q
         /\ \A n \in DOMAIN Tail(q) : n + 1 \in DOMAIN q /\ Tail(q)[n] = q[n + 1]
<1>1. PICK S : q \in Seq(S) /\ \A e \in S : IsEntry(e)
  BY DEF IsTodo
<1>2. Head(q) \in S /\ Tail(q) \in Seq(S)
  BY <1>1, HeadTailProperties
<1>3. /\ Len(q) \in Nat /\ DOMAIN q = 1 .. Len(q) /\ DOMAIN Tail(q) = 1 .. Len(q) - 1
      /\ Len(q) # 0
  <2>1. Len(Tail(q)) = Len(q) - 1 /\ Len(Tail(q)) \in Nat
    BY <1>1, <1>2, HeadTailProperties, LenProperties
  <2>2. DOMAIN Tail(q) = 1 .. Len(Tail(q)) /\ DOMAIN q = 1 .. Len(q) /\ Len(q) \in Nat
    BY <1>1, <1>2, LenProperties
  <2>3. Len(q) # 0
    BY <1>1, EmptySeq
  <2> QED
    BY <2>1, <2>2, <2>3
<1>4. \A n \in 1 .. Len(q) - 1 : Tail(q)[n] = q[n + 1]
  BY <1>1, HeadTailProperties
<1>5. Head(q) = q[1]
  BY <1>1
<1>6. IsTodo(Tail(q)) /\ IsEntry(Head(q))
  BY <1>1, <1>2 DEF IsTodo
<1>7. 1 \in DOMAIN q /\ \A n \in DOMAIN Tail(q) : n + 1 \in DOMAIN q
  BY <1>3
<1> QED
  BY <1>3, <1>4, <1>5, <1>6, <1>7

-----------------------------------------------------------------------------
(* The steps without a lock.                                               *)

\* The fields a TaskUpdate sets, and when it sets the owner.
LEMMA FieldsAre ==
  ASSUME NEW a \in Agents, NEW t
  PROVE  /\ IsFields(FieldsToSet(a, t))
         /\ "owner" \in DOMAIN FieldsToSet(a, t) =>
              FieldsToSet(a, t)["owner"] = a /\ t.owner = NoOne /\ call[a].kind = "start"
<1> DEFINE status == IF call[a].kind = "complete" THEN "completed" ELSE "in_progress"
           s == IF status = t.status THEN <<>> ELSE [status |-> status]
           o == IF call[a].kind = "start" /\ t.owner = NoOne THEN [owner |-> a] ELSE <<>>
<1>1. status \in TaskStatus
  BY DEF TaskStatus
<1>2. DOMAIN <<>> = {}
  OBVIOUS
<1>3. DOMAIN s \subseteq {"status"} /\ ("status" \in DOMAIN s => s["status"] \in TaskStatus)
  <2> HIDE DEF status
  <2> QED
    BY <1>1, <1>2
<1>4. /\ DOMAIN o \subseteq {"owner"}
      /\ "owner" \in DOMAIN o => o["owner"] = a /\ t.owner = NoOne /\ call[a].kind = "start"
  BY <1>2
<1>5. FieldsToSet(a, t) = [x \in DOMAIN s \cup DOMAIN o |-> IF x \in DOMAIN s THEN s[x] ELSE o[x]]
  BY DEF FieldsToSet, Over
<1> HIDE DEF s, o
<1> DEFINE f == FieldsToSet(a, t)
<1>6. /\ DOMAIN f = DOMAIN s \cup DOMAIN o
      /\ "status" \in DOMAIN f => f["status"] = s["status"] /\ "status" \in DOMAIN s
      /\ "owner" \in DOMAIN f => f["owner"] = o["owner"] /\ "owner" \in DOMAIN o
  BY <1>3, <1>4, <1>5
<1> HIDE DEF f
<1>7. IsFields(f)
  BY <1>3, <1>4, <1>6 DEF IsFields, Owner
<1> QED
  BY <1>4, <1>6, <1>7 DEF f

\* The owners a call goes on to set are those of tasks it has just read.
SetsOwners(a) ==
  \A n \in DOMAIN call'[a].todo :
    LET e == call'[a].todo[n]
    IN  "owner" \in DOMAIN e.fields =>
          /\ e.id \in Readable
          /\ \/ /\ call[a].kind = "start" /\ e.fields["owner"] = a
                /\ files[e.id].owner = NoOne
             \/ /\ call[a].kind = "unassign" /\ e.fields["owner"] = NoOne
                /\ files[e.id].owner = call[a].other

\* The step of a call that goes on to its updates.
LEMMA UpdatesFitOn ==
  ASSUME Fits, NEW a \in Agents, update[a] = NoUpdate, "updates" \in Places(call[a].kind),
         call[a].pc \in {"read", "list references", "read both", "list open"},
         NEW todo, IsTodo(todo), Updates(a, todo),
         UNCHANGED <<files, mark, listLock, taskLock, update, gone, made, given, claimant, overlap, raced>>
  PROVE  /\ Fits' /\ CallOf(a) /\ call'[a].pc = "updates" /\ call'[a].kind = call[a].kind
         /\ call'[a].todo = todo /\ call'[a].other = call[a].other
<1>1. call[a].kind # "none"
  BY PlaceKinds DEF Fits, AgentFits
<1>2. /\ CallOf(a) /\ CallFits(call'[a]) /\ call'[a].pc = "updates"
      /\ call'[a].kind = call[a].kind /\ call'[a].todo = todo /\ call'[a].other = call[a].other
  BY <1>1, UpdatesFits
<1>3. Typed'
  BY <1>2 DEF Fits, Typed, CallOf
<1>4. ~InList(call'[a]) /\ ~InList(call[a])
  BY <1>2 DEF InList
<1> QED
  BY <1>2, <1>3, <1>4, CallFitsOn

\* The step of a call that ends outside any lock.
LEMMA EndsFitOn ==
  ASSUME Fits, NEW a \in Agents, update[a] = NoUpdate, Ends(a), ~InList(call[a]),
         call[a].pc \notin {"owner", "blockers"}, Typed',
         UNCHANGED <<update, listLock, taskLock>>
  PROVE  Fits' /\ CallOf(a) /\ call'[a] = NoCall
<1>1. CallOf(a) /\ CallFits(call'[a]) /\ call'[a] = NoCall
  BY EndsFits DEF Ends
<1>2. ~InList(call'[a]) /\ call'[a].pc \notin {"owner", "blockers"}
  BY <1>1, NoCallFits
<1> QED
  BY <1>1, <1>2, CallFitsOn

LEMMA ReadToSetFits ==
  ASSUME Fits, NEW a \in Agents, ReadToSet(a), update[a] = NoUpdate
  PROVE  /\ Fits' /\ CallOf(a)
         /\ call'[a] = NoCall \/ (call'[a].pc = "updates" /\ call'[a].kind = call[a].kind
                                  /\ call'[a].other = call[a].other /\ SetsOwners(a))
<1> DEFINE i == call[a].id
<1>1. /\ call[a].pc = "read"
      /\ UNCHANGED <<files, mark, listLock, taskLock, update, gone, made, given, claimant, overlap, raced>>
  BY DEF ReadToSet
<1>2. CallFits(call[a]) /\ call[a].kind \in {"start", "complete"}
  <2>1. CallFits(call[a])
    BY DEF Fits, AgentFits
  <2> QED
    BY <1>1, <2>1, PlaceKinds
<1>3. i \in Ids /\ "updates" \in Places(call[a].kind) /\ ~InList(call[a])
  BY <1>1, <1>2, KindPlaces DEF CallFits, InList
<1>4. \/ i \in Readable /\ Updates(a, <<UpdateOf(i, FieldsToSet(a, files[i]))>>)
      \/ Ends(a)
  BY DEF ReadToSet
<1> HIDE DEF i
<1>5. CASE i \in Readable /\ Updates(a, <<UpdateOf(i, FieldsToSet(a, files[i]))>>)
  <2> DEFINE f == FieldsToSet(a, files[i])
             e == UpdateOf(i, f)
             todo == <<e>>
  <2>1. /\ IsFields(f)
        /\ "owner" \in DOMAIN f => f["owner"] = a /\ files[i].owner = NoOne /\ call[a].kind = "start"
    BY FieldsAre
  <2> HIDE DEF f
  <2>2. e.id = i /\ e.fields = f /\ IsEntry(e)
    BY <1>3, <2>1 DEF IsEntry, UpdateOf
  <2> HIDE DEF e
  <2>3. IsTodo(todo) /\ DOMAIN todo = {1} /\ todo[1] = e
    BY <2>2, TodoIs
  <2>4. Updates(a, todo)
    BY <1>5 DEF e, f
  <2> HIDE DEF todo
  <2>5. /\ Fits' /\ CallOf(a) /\ call'[a].pc = "updates" /\ call'[a].kind = call[a].kind
        /\ call'[a].todo = todo /\ call'[a].other = call[a].other
    BY <1>1, <1>3, <2>3, <2>4, UpdatesFitOn
  <2>6. SetsOwners(a)
    BY <1>5, <2>1, <2>2, <2>3, <2>5 DEF SetsOwners
  <2> QED
    BY <2>5, <2>6
<1>6. CASE Ends(a)
  <2>1. Typed'
    BY <1>1, <1>6, EndsFits DEF Fits, Typed, CallOf, Ends
  <2> QED
    BY <1>1, <1>3, <1>6, <2>1, EndsFitOn
<1> QED
  BY <1>4, <1>5, <1>6

LEMMA ReadToDeleteFits ==
  ASSUME Fits, NEW a \in Agents, ReadToDelete(a), update[a] = NoUpdate
  PROVE  /\ Fits' /\ CallOf(a)
         /\ call'[a] = NoCall \/ (call'[a].pc = "mark" /\ call'[a].kind = "delete"
                                  /\ call'[a].high = call[a].id /\ call'[a].id = call[a].id
                                  /\ call'[a].todo = call[a].todo)
<1> DEFINE pc == "mark"
           high == call[a].id
<1>1. /\ call[a].pc = "delete"
      /\ UNCHANGED <<files, mark, listLock, taskLock, update, gone, made, given, claimant, overlap, raced>>
  BY DEF ReadToDelete
<1>2. CallFits(call[a]) /\ call[a].kind = "delete"
  <2>1. CallFits(call[a])
    BY DEF Fits, AgentFits
  <2> QED
    BY <1>1, <2>1, PlaceKinds
<1>3. /\ high \in Ids \cup {0} /\ pc \in Places(call[a].kind) /\ pc \notin AtTask
      /\ call[a].kind # "none"
  BY <1>2, KindPlaces DEF CallFits, AtTask
<1>4. Raises(a, high, pc) \/ Ends(a)
  BY DEF ReadToDelete, Raises
<1>5. pc = "mark" /\ high = call[a].id /\ ~InList(call[a])
  BY <1>1 DEF InList
<1> HIDE DEF pc, high
<1>6. CASE Raises(a, high, pc)
  <2>1. /\ CallOf(a) /\ CallFits(call'[a]) /\ call'[a].pc = pc /\ call'[a].kind = call[a].kind
        /\ call'[a].id = call[a].id /\ call'[a].high = high /\ call'[a].todo = call[a].todo
    BY <1>3, <1>6, RaisesFits
  <2>2. Typed'
    BY <1>1, <2>1 DEF Fits, Typed, CallOf
  <2>3. ~InList(call'[a])
    BY <1>2, <1>5, <2>1 DEF InList
  <2>4. Fits'
    BY <1>1, <1>5, <2>1, <2>2, <2>3, CallFitsOn
  <2> QED
    BY <1>2, <1>5, <2>1, <2>4
<1>7. CASE Ends(a)
  <2>1. Typed'
    BY <1>1, <1>7, EndsFits DEF Fits, Typed, CallOf, Ends
  <2> QED
    BY <1>1, <1>5, <1>7, <2>1, EndsFitOn
<1> QED
  BY <1>4, <1>6, <1>7

LEMMA UnlinkTaskFits ==
  ASSUME Fits, NEW a \in Agents, UnlinkTask(a), update[a] = NoUpdate
  PROVE  /\ Fits' /\ CallOf(a)
         /\ call'[a] = NoCall \/ (call'[a].pc = "list references" /\ call'[a].kind = "delete"
                                  /\ call'[a].todo = call[a].todo)
<1> DEFINE pc == "list references"
<1>1. /\ call[a].pc = "unlink" /\ files' = [i \in DOMAIN files \ {call[a].id} |-> files[i]]
      /\ UNCHANGED <<mark, listLock, taskLock, update, gone, made, given, claimant, overlap, raced>>
  BY DEF UnlinkTask
<1>2. CallFits(call[a]) /\ call[a].kind = "delete"
  <2>1. CallFits(call[a]) /\ call[a].pc = "unlink"
    BY <1>1 DEF Fits, AgentFits
  <2> QED
    BY <2>1, PlaceKinds
<1>3. pc \in Places(call[a].kind) /\ pc \notin AtTask /\ call[a].kind # "none"
  BY <1>2, KindPlaces DEF AtTask
<1>4. call' = [call EXCEPT ![a].pc = pc] \/ Ends(a)
  BY DEF UnlinkTask, Goes
<1>5. pc = "list references" /\ ~InList(call[a])
  BY <1>1 DEF InList
<1>6. DOMAIN files' \subseteq Ids /\ \A i \in DOMAIN files' : files'[i] = Torn \/ files'[i] \in Task
  BY <1>1 DEF Fits, Typed
<1> HIDE DEF pc
<1>7. CASE call' = [call EXCEPT ![a].pc = pc]
  <2>1. /\ CallOf(a) /\ CallFits(call'[a]) /\ call'[a].pc = pc /\ call'[a].kind = call[a].kind
        /\ call'[a].todo = call[a].todo
    BY <1>3, <1>7, GoesFits
  <2>2. Typed'
    BY <1>1, <1>6, <2>1 DEF Fits, Typed, CallOf
  <2>3. ~InList(call'[a])
    BY <1>5, <2>1 DEF InList
  <2>4. Fits'
    BY <1>1, <1>5, <2>1, <2>2, <2>3, CallFitsOn
  <2> QED
    BY <1>2, <1>5, <2>1, <2>4
<1>8. CASE Ends(a)
  <2>1. Typed'
    BY <1>1, <1>6, <1>8, EndsFits DEF Fits, Typed, CallOf, Ends
  <2> QED
    BY <1>1, <1>5, <1>8, <2>1, EndsFitOn
<1> QED
  BY <1>4, <1>7, <1>8

LEMMA ListReferencesFits ==
  ASSUME Fits, NEW a \in Agents, ListReferences(a), update[a] = NoUpdate
  PROVE  /\ Fits' /\ CallOf(a) /\ call'[a].pc = "updates" /\ call'[a].kind = call[a].kind
         /\ call'[a].other = call[a].other /\ SetsOwners(a)
<1> DEFINE i == call[a].id
           refer == {j \in Readable : i \in files[j].blocks \cup files[j].blockedBy}
           entry(j) == UpdateOf(j, Without(files[j], i))
           q == InOrder(refer)
           todo == [n \in DOMAIN q |-> entry(q[n])]
<1>1. /\ call[a].pc = "list references" /\ Updates(a, todo)
      /\ UNCHANGED <<files, mark, listLock, taskLock, update, gone, made, given, claimant, overlap, raced>>
  BY DEF ListReferences
<1>2. CallFits(call[a]) /\ call[a].kind = "delete"
  <2>1. CallFits(call[a]) /\ call[a].pc = "list references"
    BY <1>1 DEF Fits, AgentFits
  <2> QED
    BY <2>1, PlaceKinds
<1>3. "updates" \in Places(call[a].kind)
  BY <1>2, KindPlaces
<1> HIDE DEF i
<1>4. ASSUME NEW j \in refer
      PROVE  IsEntry(entry(j)) /\ entry(j).fields = Without(files[j], i)
             /\ "owner" \notin DOMAIN entry(j).fields
  <2>1. j \in Ids /\ files[j] \in Task
    BY DEF Readable, Fits, Typed
  <2>2. files[j].blocks \subseteq Ids /\ files[j].blockedBy \subseteq Ids
    BY <2>1 DEF Task
  <2>3. /\ DOMAIN Without(files[j], i) = {"blocks", "blockedBy"}
        /\ Without(files[j], i)["blocks"] = files[j].blocks \ {i}
        /\ Without(files[j], i)["blockedBy"] = files[j].blockedBy \ {i}
    BY DEF Without
  <2>4. IsFields(Without(files[j], i))
    BY <2>2, <2>3 DEF IsFields
  <2> QED
    BY <2>1, <2>3, <2>4 DEF IsEntry, UpdateOf
<1>5. q \in Seq(refer)
  BY InOrderIs
<1>6. \A n \in DOMAIN q : q[n] \in refer
  <2> HIDE DEF q, refer
  <2> QED
    BY <1>5, LenProperties
<1>7. IsTodo(todo) /\ \A n \in DOMAIN todo : "owner" \notin DOMAIN todo[n].fields
  <2>1. \A n \in DOMAIN q : IsEntry(todo[n]) /\ "owner" \notin DOMAIN todo[n].fields
    BY <1>4, <1>6
  <2>2. todo = [n \in DOMAIN InOrder(refer) |-> todo[n]] /\ DOMAIN todo = DOMAIN q
    OBVIOUS
  <2>3. \A n \in DOMAIN InOrder(refer) : IsEntry(todo[n])
    BY <2>1
  <2> HIDE DEF todo
  <2>4. IsTodo(todo)
    <3> HIDE DEF refer
    <3> QED
      BY <2>2, <2>3, ListTodo
  <2> QED
    BY <2>1, <2>2, <2>4
<1> HIDE DEF todo
<1>8. /\ Fits' /\ CallOf(a) /\ call'[a].pc = "updates" /\ call'[a].kind = call[a].kind
      /\ call'[a].todo = todo /\ call'[a].other = call[a].other
  BY <1>1, <1>3, <1>7, UpdatesFitOn
<1>9. SetsOwners(a)
  BY <1>7, <1>8 DEF SetsOwners
<1> QED
  BY <1>8, <1>9, Zenon

LEMMA ListToUnassignFits ==
  ASSUME Fits, NEW a \in Agents, ListToUnassign(a), update[a] = NoUpdate
  PROVE  /\ Fits' /\ CallOf(a) /\ call'[a].pc = "updates" /\ call'[a].kind = call[a].kind
         /\ call'[a].other = call[a].other /\ SetsOwners(a)
<1> DEFINE open == {i \in Unresolved : files[i].owner = call[a].other}
           fields == [owner |-> NoOne, status |-> "pending"]
           q == InOrder(open)
           todo == [n \in DOMAIN q |-> UpdateOf(q[n], fields)]
<1>1. /\ call[a].pc = "list open" /\ Updates(a, todo)
      /\ UNCHANGED <<files, mark, listLock, taskLock, update, gone, made, given, claimant, overlap, raced>>
  BY DEF ListToUnassign
<1>2. CallFits(call[a]) /\ call[a].kind = "unassign"
  <2>1. CallFits(call[a]) /\ call[a].pc = "list open"
    BY <1>1 DEF Fits, AgentFits
  <2> QED
    BY <2>1, PlaceKinds
<1>3. "updates" \in Places(call[a].kind)
  BY <1>2, KindPlaces
<1>4. IsFields(fields) /\ fields["owner"] = NoOne
  BY DEF IsFields, Owner, TaskStatus
<1>5. \A j \in open : j \in Readable /\ j \in Ids /\ files[j].owner = call[a].other
  BY DEF Unresolved, Readable, Fits, Typed
<1>6. q \in Seq(open)
  BY InOrderIs
<1>7. \A n \in DOMAIN q : q[n] \in open
  <2> HIDE DEF q, open
  <2> QED
    BY <1>6, LenProperties
<1> HIDE DEF fields
<1>8. /\ IsTodo(todo)
      /\ \A n \in DOMAIN todo : /\ todo[n].fields = fields /\ todo[n].id \in Readable
                                /\ files[todo[n].id].owner = call[a].other
  <2>1. \A n \in DOMAIN q : /\ IsEntry(todo[n]) /\ todo[n].fields = fields
                            /\ todo[n].id = q[n]
    BY <1>4, <1>5, <1>7 DEF IsEntry, UpdateOf
  <2>2. todo = [n \in DOMAIN InOrder(open) |-> todo[n]] /\ DOMAIN todo = DOMAIN q
    OBVIOUS
  <2>3. \A n \in DOMAIN InOrder(open) : IsEntry(todo[n])
    BY <2>1
  <2> HIDE DEF todo
  <2>4. IsTodo(todo)
    <3> HIDE DEF open
    <3> QED
      BY <2>2, <2>3, ListTodo
  <2> QED
    BY <1>5, <1>7, <2>1, <2>2, <2>4
<1> HIDE DEF todo
<1>9. /\ Fits' /\ CallOf(a) /\ call'[a].pc = "updates" /\ call'[a].kind = call[a].kind
      /\ call'[a].todo = todo /\ call'[a].other = call[a].other
  BY <1>1, <1>3, <1>8, UpdatesFitOn
<1>10. SetsOwners(a)
  BY <1>2, <1>4, <1>8, <1>9 DEF SetsOwners
<1> QED
  BY <1>9, <1>10

LEMMA ReadToBlockFits ==
  ASSUME Fits, NEW a \in Agents, ReadToBlock(a), update[a] = NoUpdate
  PROVE  /\ Fits' /\ CallOf(a)
         /\ call'[a] = NoCall \/ (call'[a].pc = "updates" /\ call'[a].kind = call[a].kind
                                  /\ call'[a].other = call[a].other /\ SetsOwners(a))
<1> DEFINE from == call[a].id
           to == call[a].high
           e == UpdateOf(from, [blocks |-> files[from].blocks \cup {to}])
           d == UpdateOf(to, [blockedBy |-> files[to].blockedBy \cup {from}])
           todo == (IF to \in files[from].blocks THEN <<>> ELSE <<e>>) \o
                   (IF from \in files[to].blockedBy THEN <<>> ELSE <<d>>)
<1>1. /\ call[a].pc = "read both"
      /\ UNCHANGED <<files, mark, listLock, taskLock, update, gone, made, given, claimant, overlap, raced>>
  BY DEF ReadToBlock
<1>2. CallFits(call[a]) /\ call[a].kind = "block"
  <2>1. CallFits(call[a]) /\ call[a].pc = "read both"
    BY <1>1 DEF Fits, AgentFits
  <2> QED
    BY <2>1, PlaceKinds
<1>3. "updates" \in Places(call[a].kind) /\ ~InList(call[a])
  BY <1>1, <1>2, KindPlaces DEF InList
<1>4. (from \in Readable /\ to \in Readable /\ Updates(a, todo)) \/ Ends(a)
  BY DEF ReadToBlock
<1> HIDE DEF from, to
<1>5. CASE from \in Readable /\ to \in Readable /\ Updates(a, todo)
  <2>1. /\ from \in Ids /\ to \in Ids
        /\ files[from].blocks \subseteq Ids /\ files[to].blockedBy \subseteq Ids
    <3>1. from \in Ids /\ to \in Ids /\ files[from] \in Task /\ files[to] \in Task
      BY <1>5 DEF Readable, Fits, Typed
    <3> QED
      BY <3>1 DEF Task
  <2>2. /\ IsFields([blocks |-> files[from].blocks \cup {to}])
        /\ IsFields([blockedBy |-> files[to].blockedBy \cup {from}])
    BY <2>1 DEF IsFields
  <2>3. /\ IsEntry(e) /\ "owner" \notin DOMAIN e.fields
        /\ IsEntry(d) /\ "owner" \notin DOMAIN d.fields
    BY <2>1, <2>2 DEF IsEntry, UpdateOf
  <2> HIDE DEF e, d
  <2>4. PICK S : S = {e, d}
    OBVIOUS
  <2>5. todo \in Seq(S)
    <3>1. <<>> \in Seq(S) /\ <<e>> \in Seq(S) /\ <<d>> \in Seq(S)
      BY <2>4
    <3> QED
      BY <3>1, ConcatProperties
  <2> HIDE DEF todo
  <2>6. IsTodo(todo) /\ \A n \in DOMAIN todo : todo[n] \in {e, d}
    <3>1. \A x \in S : IsEntry(x)
      BY <2>3, <2>4
    <3>2. IsTodo(todo)
      BY <2>5, <3>1 DEF IsTodo
    <3> QED
      BY <2>4, <2>5, <3>2, LenProperties
  <2>7. /\ Fits' /\ CallOf(a) /\ call'[a].pc = "updates" /\ call'[a].kind = call[a].kind
        /\ call'[a].todo = todo /\ call'[a].other = call[a].other
    BY <1>1, <1>3, <1>5, <2>6, UpdatesFitOn
  <2>8. SetsOwners(a)
    BY <2>3, <2>6, <2>7 DEF SetsOwners
  <2> QED
    BY <2>7, <2>8
<1>6. CASE Ends(a)
  <2>1. Typed'
    BY <1>1, <1>6, EndsFits DEF Fits, Typed, CallOf, Ends
  <2> QED
    BY <1>1, <1>3, <1>6, <2>1, EndsFitOn
<1> QED
  BY <1>4, <1>5, <1>6

-----------------------------------------------------------------------------
(* The steps of an update.                                                 *)

\* A step of an update in a call that goes on.
LEMMA UpdateFitsOn ==
  ASSUME Fits, Typed', NEW a \in Agents, call[a].pc = "updates", UpdateOfOne(a),
         UpdateFits(update'[a]), UNCHANGED <<call, listLock>>,
         \A b \in Agents \ {a}, i \in Ids : taskLock'[i] = b <=> taskLock[i] = b,
         \A i \in Ids : taskLock'[i] = a <=>
           update'[a].pc \in {"read", "truncate", "write"} /\ update'[a].id = i
  PROVE  Fits'
<1>1. CallOf(a) /\ CallFits(call'[a]) /\ call'[a].pc = "updates"
  BY DEF CallOf, Fits, Typed, AgentFits
<1>2. \A i \in Ids : taskLock'[i] = a <=> HasTask(call'[a], update'[a], i)
  BY <1>1 DEF HasTask
<1>3. InList(call'[a]) <=> InList(call[a])
  OBVIOUS
<1> QED
  BY <1>1, <1>2, <1>3, TaskFitsOn

\* The update an agent is in.
LEMMA InUpdate ==
  ASSUME Fits, NEW a \in Agents, update[a].pc # "idle"
  PROVE  /\ DOMAIN update = Agents /\ update[a].id \in Ids /\ IsFields(update[a].fields)
         /\ {"id", "pc", "fields", "task"} \subseteq DOMAIN update[a] /\ update[a].task \in Task
         /\ call[a].pc = "updates" /\ CallFits(call[a])
         /\ \A i \in Ids : taskLock[i] = a <=>
              update[a].pc \in {"read", "truncate", "write"} /\ update[a].id = i
<1>1. UpdateFits(update[a]) /\ update[a] # NoUpdate
  BY NoCallFits DEF Fits, AgentFits
<1>2. DOMAIN update = Agents /\ call[a].pc = "updates" /\ CallFits(call[a])
      /\ \A i \in Ids : taskLock[i] = a <=> HasTask(call[a], update[a], i)
  BY DEF Fits, Typed, AgentFits
<1> QED
  BY <1>1, <1>2 DEF UpdateFits, HasTask

LEMMA UpdateEndsIs ==
  ASSUME Fits, NEW a \in Agents, UpdateEnds(a)
  PROVE  UpdateOfOne(a) /\ update'[a] = NoUpdate /\ UpdateFits(update'[a])
         /\ update'[a].pc = "idle"
BY NoCallFits DEF UpdateEnds, UpdateOfOne, Fits, Typed

LEMMA CheckTaskFits ==
  ASSUME Fits, NEW a \in Agents, CheckTask(a)
  PROVE  /\ Fits' /\ UpdateOfOne(a)
         /\ update'[a] = NoUpdate \/ (update'[a].pc = "lock" /\ update'[a].id = update[a].id
                                      /\ update'[a].fields = update[a].fields)
<1>1. /\ update[a].pc = "check"
      /\ UNCHANGED <<files, mark, listLock, taskLock, call, gone, made, given, claimant, overlap, raced>>
  BY DEF CheckTask
<1>2. update[a].pc # "idle"
  BY <1>1
<1>3. /\ DOMAIN update = Agents /\ update[a].id \in Ids /\ IsFields(update[a].fields)
      /\ {"id", "pc", "fields", "task"} \subseteq DOMAIN update[a] /\ update[a].task \in Task
      /\ call[a].pc = "updates"
      /\ \A i \in Ids : taskLock[i] = a <=>
           update[a].pc \in {"read", "truncate", "write"} /\ update[a].id = i
  BY <1>2, InUpdate
<1>4. CASE update[a].id \in Readable
  <2>1. update' = [update EXCEPT ![a].pc = "lock", ![a].task = files[update[a].id]]
    BY <1>4 DEF CheckTask, ReadAgain
  <2>2. files[update[a].id] \in Task
    BY <1>4 DEF Readable, Fits, Typed
  <2>3. /\ UpdateOfOne(a) /\ update'[a].pc = "lock" /\ update'[a].id = update[a].id
        /\ update'[a].fields = update[a].fields /\ DOMAIN update'[a] = DOMAIN update[a]
        /\ update'[a].task = files[update[a].id]
    BY <1>3, <2>1 DEF UpdateOfOne
  <2>4. UpdateFits(update'[a])
    BY <1>3, <2>2, <2>3 DEF UpdateFits
  <2>5. Typed'
    BY <1>1, <2>3 DEF Fits, Typed, UpdateOfOne
  <2>6. Fits'
    BY <1>1, <1>3, <2>3, <2>4, <2>5, UpdateFitsOn
  <2> QED
    BY <2>3, <2>6
<1>5. CASE update[a].id \notin Readable
  <2>1. UpdateEnds(a)
    BY <1>5 DEF CheckTask
  <2>2. /\ UpdateOfOne(a) /\ update'[a] = NoUpdate /\ UpdateFits(update'[a])
        /\ update'[a].pc = "idle"
    BY <2>1, UpdateEndsIs
  <2>3. Typed'
    BY <1>1, <2>2 DEF Fits, Typed, UpdateOfOne
  <2>4. Fits'
    BY <1>1, <1>3, <2>2, <2>3, UpdateFitsOn
  <2> QED
    BY <2>2, <2>4
<1> QED
  BY <1>4, <1>5

LEMMA LockToUpdateFits ==
  ASSUME Fits, NEW a \in Agents, LockToUpdate(a)
  PROVE  /\ Fits' /\ UpdateOfOne(a) /\ CallOf(a)
         /\ \/ update'[a] = NoUpdate /\ call'[a] = NoCall
            \/ update'[a].pc = "read" /\ update'[a].id = update[a].id
               /\ update'[a].fields = update[a].fields /\ UNCHANGED call
<1> DEFINE n == update[a].id
<1>1. /\ update[a].pc = "lock"
      /\ UNCHANGED <<files, mark, listLock, gone, made, given, claimant, overlap, raced>>
  BY DEF LockToUpdate
<1>2. update[a].pc # "idle"
  BY <1>1
<1>3. /\ DOMAIN update = Agents /\ n \in Ids /\ IsFields(update[a].fields)
      /\ {"id", "pc", "fields", "task"} \subseteq DOMAIN update[a] /\ update[a].task \in Task
      /\ call[a].pc = "updates" /\ CallFits(call[a])
      /\ \A i \in Ids : taskLock[i] = a <=>
           update[a].pc \in {"read", "truncate", "write"} /\ update[a].id = i
  BY <1>2, InUpdate
<1>4. CASE n \in DOMAIN files
  <2>1. /\ taskLock[n] = NoOne /\ taskLock' = [taskLock EXCEPT ![n] = a]
        /\ update' = [update EXCEPT ![a].pc = "read"] /\ UNCHANGED call
    BY <1>4 DEF LockToUpdate
  <2>2. /\ UpdateOfOne(a) /\ update'[a].pc = "read" /\ update'[a].id = n
        /\ update'[a].fields = update[a].fields /\ DOMAIN update'[a] = DOMAIN update[a]
        /\ update'[a].task = update[a].task
    BY <1>3, <2>1 DEF UpdateOfOne
  <2>3. UpdateFits(update'[a])
    BY <1>3, <2>2 DEF UpdateFits
  <2> HIDE DEF n
  <2>4. /\ taskLock' \in [Ids -> Owner]
        /\ \A b \in Agents \ {a}, j \in Ids : taskLock'[j] = b <=> taskLock[j] = b
        /\ \A j \in Ids : taskLock'[j] = a <=> taskLock[j] = a \/ j = n
    BY <1>3, <2>1, TakesLock
  <2>5. \A i \in Ids : taskLock'[i] = a <=>
          update'[a].pc \in {"read", "truncate", "write"} /\ update'[a].id = i
    BY <1>1, <1>3, <2>2, <2>4
  <2>6. Typed'
    BY <1>1, <2>1, <2>2, <2>4 DEF Fits, Typed, UpdateOfOne
  <2>7. Fits'
    BY <1>1, <1>3, <2>1, <2>2, <2>3, <2>4, <2>5, <2>6, UpdateFitsOn
  <2>8. CallOf(a)
    BY <2>1 DEF CallOf, Fits, Typed
  <2> QED
    BY <2>1, <2>2, <2>7, <2>8 DEF n
<1>5. CASE n \notin DOMAIN files
  <2>1. UpdateEnds(a) /\ Ends(a) /\ UNCHANGED taskLock
    BY <1>5 DEF LockToUpdate
  <2>2. /\ UpdateOfOne(a) /\ update'[a] = NoUpdate /\ UpdateFits(update'[a])
        /\ update'[a].pc = "idle"
    BY <2>1, UpdateEndsIs
  <2>3. CallOf(a) /\ call'[a] = NoCall /\ CallFits(call'[a])
    BY <2>1, EndsFits DEF Ends
  <2>4. Typed'
    BY <1>1, <2>1, <2>2, <2>3 DEF Fits, Typed, UpdateOfOne, CallOf
  <2>5. ~InList(call'[a]) /\ ~InList(call[a]) /\ call'[a].pc = "idle"
    BY <1>3, <2>3, NoCallFits DEF InList
  <2>6. \A i \in Ids : taskLock'[i] = a <=> HasTask(call'[a], update'[a], i)
    BY <1>1, <1>3, <2>1, <2>2, <2>5 DEF HasTask
  <2>7. Fits'
    BY <1>1, <2>1, <2>2, <2>3, <2>4, <2>5, <2>6, TaskFitsOn
  <2> QED
    BY <2>2, <2>3, <2>7
<1> QED
  BY <1>4, <1>5

LEMMA ReadToUpdateFits ==
  ASSUME Fits, NEW a \in Agents, ReadToUpdate(a)
  PROVE  /\ Fits' /\ UpdateOfOne(a)
         /\ \/ update'[a] = NoUpdate
            \/ /\ update'[a].pc = "truncate" /\ update'[a].id = update[a].id
               /\ update'[a].fields = update[a].fields /\ update[a].id \in Readable
               /\ update'[a].task = files[update[a].id]
<1> DEFINE n == update[a].id
<1>1. /\ update[a].pc = "read"
      /\ UNCHANGED <<files, mark, listLock, call, gone, made, given, claimant, overlap, raced>>
  BY DEF ReadToUpdate
<1>2. update[a].pc # "idle"
  BY <1>1
<1>3. /\ DOMAIN update = Agents /\ n \in Ids /\ IsFields(update[a].fields)
      /\ {"id", "pc", "fields", "task"} \subseteq DOMAIN update[a] /\ update[a].task \in Task
      /\ call[a].pc = "updates"
      /\ \A i \in Ids : taskLock[i] = a <=>
           update[a].pc \in {"read", "truncate", "write"} /\ update[a].id = i
  BY <1>2, InUpdate
<1>4. CASE n \in Readable
  <2>1. /\ update' = [update EXCEPT ![a].pc = "truncate", ![a].task = files[n]]
        /\ UNCHANGED taskLock
    BY <1>4 DEF ReadToUpdate, ReadAgain
  <2>2. files[n] \in Task
    BY <1>4 DEF Readable, Fits, Typed
  <2>3. /\ UpdateOfOne(a) /\ update'[a].pc = "truncate" /\ update'[a].id = n
        /\ update'[a].fields = update[a].fields /\ DOMAIN update'[a] = DOMAIN update[a]
        /\ update'[a].task = files[n]
    BY <1>3, <2>1 DEF UpdateOfOne
  <2>4. UpdateFits(update'[a])
    BY <1>3, <2>2, <2>3 DEF UpdateFits
  <2>5. Typed'
    BY <1>1, <2>1, <2>3 DEF Fits, Typed, UpdateOfOne
  <2>6. \A i \in Ids : taskLock'[i] = a <=>
          update'[a].pc \in {"read", "truncate", "write"} /\ update'[a].id = i
    BY <1>1, <1>3, <2>1, <2>3
  <2>7. Fits'
    BY <1>1, <1>3, <2>1, <2>3, <2>4, <2>5, <2>6, UpdateFitsOn
  <2> QED
    BY <1>4, <2>3, <2>7
<1>5. CASE n \notin Readable
  <2>1. UpdateEnds(a) /\ Free(a, n)
    BY <1>5 DEF ReadToUpdate
  <2>2. /\ UpdateOfOne(a) /\ update'[a] = NoUpdate /\ UpdateFits(update'[a])
        /\ update'[a].pc = "idle"
    BY <2>1, UpdateEndsIs
  <2> HIDE DEF n
  <2>3. /\ taskLock' \in [Ids -> Owner]
        /\ \A b \in Agents \ {a}, j \in Ids : taskLock'[j] = b <=> taskLock[j] = b
        /\ \A j \in Ids : taskLock'[j] = a <=> taskLock[j] = a /\ j # n
    BY <1>3, <2>1, FreeLocks
  <2>4. Typed'
    BY <1>1, <2>2, <2>3 DEF Fits, Typed, UpdateOfOne
  <2>5. \A i \in Ids : taskLock'[i] = a <=>
          update'[a].pc \in {"read", "truncate", "write"} /\ update'[a].id = i
    BY <1>3, <2>2, <2>3 DEF n
  <2>6. Fits'
    BY <1>1, <1>3, <2>2, <2>3, <2>4, <2>5, UpdateFitsOn
  <2> QED
    BY <2>2, <2>6
<1> QED
  BY <1>4, <1>5

LEMMA TruncateFits ==
  ASSUME Fits, NEW a \in Agents, TruncateToUpdate(a)
  PROVE  /\ Fits' /\ UpdateOfOne(a)
         /\ update'[a].pc = "write" /\ update'[a].id = update[a].id
         /\ update'[a].fields = update[a].fields /\ update'[a].task = update[a].task
<1> DEFINE n == update[a].id
<1>1. /\ update[a].pc = "truncate" /\ Write(n, Torn) /\ update' = [update EXCEPT ![a].pc = "write"]
      /\ UNCHANGED <<mark, listLock, taskLock, call, gone, made, given, claimant, overlap, raced>>
  BY DEF TruncateToUpdate
<1>2. update[a].pc # "idle"
  BY <1>1
<1>3. /\ DOMAIN update = Agents /\ n \in Ids /\ IsFields(update[a].fields)
      /\ {"id", "pc", "fields", "task"} \subseteq DOMAIN update[a] /\ update[a].task \in Task
      /\ call[a].pc = "updates"
      /\ \A i \in Ids : taskLock[i] = a <=>
           update[a].pc \in {"read", "truncate", "write"} /\ update[a].id = i
  BY <1>2, InUpdate
<1>4. /\ UpdateOfOne(a) /\ update'[a].pc = "write" /\ update'[a].id = n
      /\ update'[a].fields = update[a].fields /\ DOMAIN update'[a] = DOMAIN update[a]
      /\ update'[a].task = update[a].task
  BY <1>1, <1>3 DEF UpdateOfOne
<1>5. UpdateFits(update'[a])
  BY <1>3, <1>4 DEF UpdateFits
<1>6. \A i \in Ids : taskLock'[i] = a <=>
        update'[a].pc \in {"read", "truncate", "write"} /\ update'[a].id = i
  BY <1>1, <1>3, <1>4
<1>7. /\ DOMAIN files' \subseteq Ids
      /\ \A j \in DOMAIN files' : files'[j] = Torn \/ files'[j] \in Task
  <2> HIDE DEF n
  <2> QED
    BY <1>1, <1>3, WriteTyped
<1>8. Typed'
  BY <1>1, <1>4, <1>7 DEF Fits, Typed, UpdateOfOne
<1>9. Fits'
  BY <1>1, <1>3, <1>4, <1>5, <1>6, <1>8, UpdateFitsOn
<1> QED
  BY <1>4, <1>9

LEMMA OverTask ==
  ASSUME NEW t \in Task, NEW f, IsFields(f)
  PROVE  Over(f, t) \in Task /\ Over(f, t).owner = IF "owner" \in DOMAIN f THEN f["owner"] ELSE t.owner
<1>1. DOMAIN t = {"owner", "status", "blocks", "blockedBy"}
      /\ t.owner \in Owner /\ t.status \in TaskStatus /\ t.blocks \subseteq Ids
      /\ t.blockedBy \subseteq Ids
  BY DEF Task
<1> DEFINE r == Over(f, t)
<1>2. r = [x \in {"owner", "status", "blocks", "blockedBy"} |-> IF x \in DOMAIN f THEN f[x] ELSE t[x]]
  <2>1. DOMAIN f \cup DOMAIN t = {"owner", "status", "blocks", "blockedBy"}
    BY <1>1 DEF IsFields
  <2> QED
    BY <2>1 DEF Over
<1> HIDE DEF r
<1>3. /\ r.owner = IF "owner" \in DOMAIN f THEN f["owner"] ELSE t.owner
      /\ r.status = IF "status" \in DOMAIN f THEN f["status"] ELSE t.status
      /\ r.blocks = IF "blocks" \in DOMAIN f THEN f["blocks"] ELSE t.blocks
      /\ r.blockedBy = IF "blockedBy" \in DOMAIN f THEN f["blockedBy"] ELSE t.blockedBy
  BY <1>2
<1>4. r.owner \in Owner /\ r.status \in TaskStatus /\ r.blocks \subseteq Ids /\ r.blockedBy \subseteq Ids
  BY <1>1, <1>3 DEF IsFields
<1>5. r = [owner |-> r.owner, status |-> r.status, blocks |-> r.blocks, blockedBy |-> r.blockedBy]
  BY <1>2
<1>6. r \in Task
  BY <1>4, <1>5 DEF Task
<1> QED
  BY <1>3, <1>6 DEF r

LEMMA WriteUpdateFits ==
  ASSUME Fits, NEW a \in Agents, WriteUpdate(a)
  PROVE  Fits' /\ UpdateOfOne(a) /\ update'[a] = NoUpdate
<1> DEFINE n == update[a].id
           content == Over(update[a].fields, update[a].task)
           who == ClaimantAfter(a, call[a])
<1>1. /\ update[a].pc = "write" /\ Write(n, content) /\ claimant' = [claimant EXCEPT ![n] = who]
      /\ UpdateEnds(a) /\ Free(a, n)
      /\ UNCHANGED <<mark, listLock, call, gone, made, given, overlap, raced>>
  BY DEF WriteUpdate
<1>2. update[a].pc # "idle"
  BY <1>1
<1>3. /\ n \in Ids /\ IsFields(update[a].fields) /\ update[a].task \in Task
      /\ call[a].pc = "updates"
      /\ \A i \in Ids : taskLock[i] = a <=>
           update[a].pc \in {"read", "truncate", "write"} /\ update[a].id = i
  BY <1>2, InUpdate
<1>4. content \in Task
  BY <1>3, OverTask
<1>5. who \in Owner
  <2>1. claimant[n] \in Owner
    BY <1>3 DEF Fits, Typed
  <2> QED
    BY <2>1 DEF ClaimantAfter, Owner
<1> HIDE DEF n, content, who
<1>6. /\ UpdateOfOne(a) /\ update'[a] = NoUpdate /\ UpdateFits(update'[a])
      /\ update'[a].pc = "idle"
  BY <1>1, UpdateEndsIs
<1>7. /\ taskLock' \in [Ids -> Owner]
      /\ \A b \in Agents \ {a}, j \in Ids : taskLock'[j] = b <=> taskLock[j] = b
      /\ \A j \in Ids : taskLock'[j] = a <=> taskLock[j] = a /\ j # n
  BY <1>1, <1>3, FreeLocks
<1>8. \A i \in Ids : taskLock'[i] = a <=>
        update'[a].pc \in {"read", "truncate", "write"} /\ update'[a].id = i
  BY <1>3, <1>6, <1>7 DEF n
<1>9. /\ DOMAIN files' \subseteq Ids
      /\ \A j \in DOMAIN files' : files'[j] = Torn \/ files'[j] \in Task
  BY <1>1, <1>3, <1>4, WriteTyped
<1>10. claimant' \in [Ids -> Owner]
  BY <1>1, <1>5 DEF Fits, Typed
<1>11. Typed'
  BY <1>1, <1>6, <1>7, <1>9, <1>10 DEF Fits, Typed, UpdateOfOne
<1>12. Fits'
  BY <1>1, <1>3, <1>6, <1>7, <1>8, <1>11, UpdateFitsOn
<1> QED
  BY <1>6, <1>12

LEMMA NextUpdateFits ==
  ASSUME Fits, NEW a \in Agents, NextUpdate(a)
  PROVE  /\ Fits' /\ UpdateOfOne(a) /\ CallOf(a)
         /\ \/ call'[a] = NoCall /\ update'[a] = NoUpdate
            \/ /\ update'[a].pc = "check" /\ 1 \in DOMAIN call[a].todo
               /\ update'[a].id = call[a].todo[1].id
               /\ update'[a].fields = call[a].todo[1].fields
               /\ call'[a].kind = call[a].kind /\ call'[a].other = call[a].other
               /\ call'[a].pc = "updates"
               /\ \A n \in DOMAIN call'[a].todo : n + 1 \in DOMAIN call[a].todo
                                                  /\ call'[a].todo[n] = call[a].todo[n + 1]
<1>1. /\ call[a].pc = "updates" /\ update[a] = NoUpdate
      /\ UNCHANGED <<files, mark, listLock, taskLock, gone, made, given, claimant, overlap, raced>>
  BY DEF NextUpdate
<1>2. /\ DOMAIN call = Agents /\ DOMAIN update = Agents /\ CallFits(call[a])
      /\ \A i \in Ids : taskLock[i] = a <=> HasTask(call[a], update[a], i)
  BY DEF Fits, Typed, AgentFits
<1>3. ~InList(call[a]) /\ update[a].pc = "idle"
  BY <1>1, NoCallFits DEF InList
<1>4. \A i \in Ids : taskLock'[i] # a
  BY <1>1, <1>2, <1>3 DEF HasTask
<1>5. CASE call[a].todo = <<>>
  <2>1. Ends(a) /\ UNCHANGED update
    BY <1>5 DEF NextUpdate
  <2>2. Typed'
    BY <1>1, <2>1, EndsFits DEF Fits, Typed, CallOf, Ends
  <2>3. Fits' /\ CallOf(a) /\ call'[a] = NoCall
    BY <1>1, <1>3, <2>1, <2>2, EndsFitOn
  <2>4. UpdateOfOne(a) /\ update'[a] = NoUpdate
    BY <1>1, <1>2, <2>1 DEF UpdateOfOne
  <2> QED
    BY <2>3, <2>4
<1>6. CASE call[a].todo # <<>>
  <2> DEFINE e == Head(call[a].todo)
             u == Begun(e, "check")
             rest == Tail(call[a].todo)
  <2>1. /\ update' = [update EXCEPT ![a] = u]
        /\ call' = [call EXCEPT ![a].todo = rest]
    BY <1>6 DEF NextUpdate
  <2>2. /\ IsEntry(e) /\ IsTodo(rest) /\ e = call[a].todo[1] /\ 1 \in DOMAIN call[a].todo
        /\ \A n \in DOMAIN rest : n + 1 \in DOMAIN call[a].todo /\ rest[n] = call[a].todo[n + 1]
    <3>1. IsTodo(call[a].todo)
      BY <1>2 DEF CallFits
    <3> QED
      BY <1>6, <3>1, TodoOn
  <2> HIDE DEF e, rest
  <2>3. /\ u.pc = "check" /\ u.id = e.id /\ u.fields = e.fields /\ u.task = NewTask
        /\ {"id", "pc", "fields", "task"} \subseteq DOMAIN u
    BY DEF Begun, NoUpdate
  <2> HIDE DEF u
  <2>4. UpdateFits(u)
    <3>1. NewTask \in Task
      BY NoCallFits DEF UpdateFits, NoUpdate
    <3> QED
      BY <2>2, <2>3, <3>1 DEF UpdateFits, IsEntry
  <2>5. UpdateOfOne(a) /\ update'[a] = u
    BY <1>2, <2>1 DEF UpdateOfOne
  <2>6. /\ CallOf(a) /\ DOMAIN call'[a] = DOMAIN call[a] /\ call'[a].pc = call[a].pc
        /\ call'[a].kind = call[a].kind /\ call'[a].id = call[a].id
        /\ call'[a].high = call[a].high /\ call'[a].todo = rest /\ call'[a].other = call[a].other
    BY <1>2, <2>1 DEF CallFits, CallOf
  <2>7. call[a].kind # "none"
    BY <1>1, <1>2, PlaceKinds
  <2>8. CallFits(call'[a])
    BY <1>1, <1>2, <2>2, <2>6, <2>7 DEF CallFits
  <2>9. Typed'
    BY <1>1, <2>5, <2>6 DEF Fits, Typed, CallOf, UpdateOfOne
  <2>10. ~InList(call'[a]) /\ call'[a].pc = "updates"
    BY <1>1, <2>6 DEF InList
  <2>11. \A i \in Ids : taskLock'[i] = a <=> HasTask(call'[a], update'[a], i)
    BY <1>4, <2>3, <2>5, <2>10 DEF HasTask
  <2>12. Fits'
    BY <1>1, <1>3, <2>4, <2>5, <2>6, <2>8, <2>9, <2>10, <2>11, TaskFitsOn
  <2> QED
    BY <2>2, <2>3, <2>5, <2>6, <2>10, <2>12
<1> QED
  BY <1>5, <1>6

-----------------------------------------------------------------------------
(* A call is made; an agent is killed.                                     *)

LEMMA MakesCallFits ==
  ASSUME Fits, NEW a \in Agents, MakesCall(a)
  PROVE  /\ Fits' /\ CallOf(a) /\ call[a] = NoCall /\ update[a] = NoUpdate
         /\ UNCHANGED <<files, mark, listLock, taskLock, update, gone, given, claimant>>
         /\ call'[a].kind \in AllKinds /\ call'[a].pc = Entry(call'[a].kind)
         /\ call'[a].todo = <<>>
         /\ overlap' = (overlap \/ \E b \in Agents \ {a} :
                                     call[b] # NoCall /\ ~Serialised(call'[a].kind, call[b].kind))
         /\ raced' = (raced \/ \E b \in Agents \ {a} :
                                 call[b] # NoCall /\ Races(call'[a].kind, call[b].kind))
<1>1. \E kind \in AllKinds, i \in Ids \cup {0}, j \in Ids \cup {0}, other \in Owner :
        /\ Begin(a, kind, i, j, other)
        /\ kind \in {"start", "complete", "delete", "block"} => i \in Ids
  <2>1. DOMAIN files \subseteq Ids /\ gone \subseteq Agents /\ Kinds \subseteq AllKinds
    BY TaskListAssumption DEF Fits, Typed
  <2>2. CASE \E kind \in Kinds \cap {"create", "claim", "reset", "hide"} : Begin(a, kind, 0, 0, NoOne)
    BY <2>1, <2>2 DEF Owner
  <2>3. CASE \E kind \in Kinds \cap {"start", "complete", "delete"}, i \in DOMAIN files :
               Begin(a, kind, i, 0, NoOne)
    BY <2>1, <2>3 DEF Owner
  <2>4. CASE "block" \in Kinds /\ \E i, j \in DOMAIN files : i # j /\ Begin(a, "block", i, j, NoOne)
    BY <2>1, <2>4 DEF Owner
  <2>5. CASE "unassign" \in Kinds /\ \E b \in gone : Begin(a, "unassign", 0, 0, b)
    BY <2>1, <2>5 DEF Owner
  <2> QED
    BY <2>2, <2>3, <2>4, <2>5 DEF MakesCall
<1>2. PICK kind \in AllKinds, i \in Ids \cup {0}, j \in Ids \cup {0}, other \in Owner :
        /\ Begin(a, kind, i, j, other)
        /\ kind \in {"start", "complete", "delete", "block"} => i \in Ids
  BY <1>1
<1> DEFINE r == [NoCall EXCEPT !.kind = kind, !.pc = Entry(kind), !.id = i, !.high = j,
                               !.other = other]
<1>3. /\ call[a] = NoCall /\ made < MaxCalls /\ made' = made + 1
      /\ call' = [call EXCEPT ![a] = r]
      /\ overlap' = (overlap \/ \E b \in Agents \ {a} :
                                  call[b] # NoCall /\ ~Serialised(kind, call[b].kind))
      /\ raced' = (raced \/ \E b \in Agents \ {a} :
                              call[b] # NoCall /\ Races(kind, call[b].kind))
      /\ UNCHANGED <<files, mark, listLock, taskLock, update, gone, given, claimant>>
  BY <1>2 DEF Begin
<1>4. /\ r.kind = kind /\ r.pc = Entry(kind) /\ r.id = i /\ r.high = j /\ r.other = other
      /\ r.todo = <<>>
      /\ {"kind", "id", "other", "pc", "high", "blockers", "left", "todo"} \subseteq DOMAIN r
  BY DEF NoCall
<1> HIDE DEF r
<1>5. /\ Entry(kind) \in Places(kind) /\ kind # "none"
      /\ Entry(kind) \in {"list lock", "all done", "claim next", "read", "delete", "read both",
                          "list open"}
  BY DEF Entry, Places, AllKinds
<1>6. CallFits(r)
  BY <1>2, <1>4, <1>5, TodoIs DEF CallFits
<1>7. CallOf(a) /\ call'[a] = r
  BY <1>3 DEF CallOf, Fits, Typed
<1>8. update[a] = NoUpdate
  <2>1. AgentFits(a) /\ NoCall.pc = "idle"
    BY NoCallFits DEF Fits
  <2>2. update[a].pc = "idle"
    BY <1>3, <2>1 DEF AgentFits
  <2> QED
    BY <2>1, <2>2 DEF AgentFits, UpdateFits
<1>9. /\ made' \in 0 .. MaxCalls /\ overlap' \in BOOLEAN /\ raced' \in BOOLEAN
  BY <1>3, TaskListAssumption DEF Fits, Typed
<1>10. Typed'
  BY <1>3, <1>7, <1>9 DEF Fits, Typed, CallOf
<1>11. ~InList(call'[a]) /\ ~InList(call[a])
  BY <1>3, <1>4, <1>5, <1>7, NoCallFits DEF InList
<1>12. call[a].pc \notin {"owner", "blockers"} /\ call'[a].pc \notin {"owner", "blockers"}
  BY <1>3, <1>4, <1>5, <1>7, NoCallFits
<1>13. Fits'
  BY <1>3, <1>6, <1>7, <1>8, <1>10, <1>11, <1>12, CallFitsOn
<1> QED
  BY <1>3, <1>4, <1>7, <1>8, <1>13

LEMMA KillFits ==
  ASSUME Fits, NEW a \in Agents, Kill(a)
  PROVE  /\ Fits' /\ CallOf(a) /\ call'[a] = NoCall /\ UpdateOfOne(a) /\ update'[a] = NoUpdate
<1>1. /\ gone' = gone \cup {a} /\ call' = [call EXCEPT ![a] = NoCall]
      /\ update' = [update EXCEPT ![a] = NoUpdate]
      /\ listLock' = IF listLock = a THEN NoOne ELSE listLock
      /\ taskLock' = [i \in Ids |-> IF taskLock[i] = a THEN NoOne ELSE taskLock[i]]
      /\ UNCHANGED <<files, mark, made, given, claimant, overlap, raced>>
  BY DEF Kill, Holds
<1>2. NoOne \notin Agents
  BY TaskListAssumption
<1>3. /\ CallOf(a) /\ call'[a] = NoCall /\ CallFits(call'[a])
      /\ UpdateOfOne(a) /\ update'[a] = NoUpdate /\ UpdateFits(update'[a])
      /\ update'[a].pc = "idle" /\ call'[a].pc = "idle" /\ ~InList(call'[a])
  <2>1. CallOf(a) /\ call'[a] = NoCall /\ CallFits(call'[a])
    BY <1>1, EndsFits
  <2> QED
    BY <1>1, <2>1, NoCallFits DEF UpdateOfOne, Fits, Typed
<1>4. taskLock' \in [Ids -> Owner] /\ listLock' \in Owner
  BY <1>1 DEF Fits, Typed, Owner
<1>5. /\ listLock' # a /\ \A b \in Agents \ {a} : listLock' = b <=> listLock = b
      /\ \A i \in Ids : taskLock'[i] # a
      /\ \A b \in Agents \ {a}, i \in Ids : taskLock'[i] = b <=> taskLock[i] = b
  BY <1>1, <1>2
<1>6. Typed'
  BY <1>1, <1>3, <1>4 DEF Fits, Typed, CallOf, UpdateOfOne
<1>7. LocksOf(a)
  BY <1>5 DEF LocksOf
<1>8. AgentFits(a)'
  BY <1>3, <1>5 DEF AgentFits, HasTask
<1>9. Fits'
  BY <1>3, <1>6, <1>7, <1>8, OneFits
<1> QED
  BY <1>3, <1>9

LEMMA FitsInit == Init => Fits
<1> SUFFICES ASSUME Init PROVE Fits
  OBVIOUS
<1>1. /\ DOMAIN files = 1 .. InitialTasks /\ \A i \in DOMAIN files : files[i] = NewTask
      /\ mark = 0 /\ listLock = NoOne /\ taskLock = [i \in Ids |-> NoOne]
      /\ DOMAIN call = Agents /\ DOMAIN update = Agents
      /\ \A a \in Agents : call[a] = NoCall /\ update[a] = NoUpdate
      /\ gone = {} /\ made = 0 /\ claimant = [i \in Ids |-> NoOne] /\ overlap = FALSE
      /\ raced = FALSE
      /\ given = [i \in Ids |-> IF i <= InitialTasks THEN 1 ELSE 0]
  BY DEF Init
<1>2. 1 .. InitialTasks \subseteq Ids /\ MaxCalls \in Nat /\ NoOne \notin Agents
  BY TaskListAssumption DEF Ids
<1>3. NewTask \in Task
  BY NoCallFits DEF UpdateFits, NoUpdate
<1>4. given \in [Ids -> Nat]
  BY <1>1
<1>5. Typed
  <2>1. /\ DOMAIN files \subseteq Ids /\ \A i \in DOMAIN files : files[i] = Torn \/ files[i] \in Task
    BY <1>1, <1>2, <1>3
  <2>2. /\ listLock \in Owner /\ taskLock \in [Ids -> Owner] /\ claimant \in [Ids -> Owner]
    BY <1>1 DEF Owner
  <2>3. mark \in Ids \cup {0} /\ gone \subseteq Agents /\ overlap \in BOOLEAN
        /\ raced \in BOOLEAN
    BY <1>1
  <2>4. made \in 0 .. MaxCalls
    BY <1>1, <1>2
  <2> QED
    BY <1>1, <1>4, <2>1, <2>2, <2>3, <2>4 DEF Typed
<1>6. ASSUME NEW a \in Agents PROVE AgentFits(a)
  <2>1. \A i \in Ids : taskLock[i] # a
    BY <1>1, <1>2
  <2> QED
    BY <1>1, <1>2, <2>1, NoCallFits DEF AgentFits, HasTask
<1> QED
  BY <1>5, <1>6 DEF Fits

LEMMA FitsNext == Fits /\ [Next]_vars => Fits'
<1> SUFFICES ASSUME Fits, [Next]_vars PROVE Fits'
  OBVIOUS
<1>1. CASE UNCHANGED vars
  <2>1. /\ UNCHANGED <<files, mark, listLock, taskLock, gone, made, given, claimant, overlap, raced>>
        /\ call' = call /\ update' = update
    BY <1>1 DEF vars
  <2>2. Typed'
    BY <2>1 DEF Fits, Typed
  <2> QED
    BY <2>1, <2>2 DEF Fits, AgentFits
<1>2. ASSUME NEW a \in Agents, UpdateStep(a) PROVE Fits'
  BY <1>2, CheckTaskFits, LockToUpdateFits, ReadToUpdateFits, TruncateFits, WriteUpdateFits,
     NextUpdateFits DEF UpdateStep
<1>3. ASSUME NEW a \in Agents, update[a] = NoUpdate, NumberingStep(a) PROVE Fits'
  BY <1>3, LockListFits, ReadFilesFits, MarkFirstFits, ReadMarkFits, EmptyMarkFits,
     WriteMarkFits, CreateFileFits, FillFileFits, ListToUnlinkFits, UnlinkNextFits, EndResetFits,
     CheckAllDoneFits DEF NumberingStep
<1>4. ASSUME NEW a \in Agents, update[a] = NoUpdate, ClaimStep(a) PROVE Fits'
  BY <1>4, ListToClaimFits, CheckExistsFits, LockToClaimFits, CheckOwnerFits, CheckBlockersFits
     DEF ClaimStep
<1>5. ASSUME NEW a \in Agents, update[a] = NoUpdate, UnlockedStep(a) PROVE Fits'
  BY <1>5, ReadToSetFits, ReadToDeleteFits, UnlinkTaskFits, ListReferencesFits, ReadToBlockFits,
     ListToUnassignFits DEF UnlockedStep
<1> QED
  BY <1>1, <1>2, <1>3, <1>4, <1>5, MakesCallFits, KillFits DEF Next, AgentStep

LEMMA FitsTypeOK == Fits => TypeOK
<1> SUFFICES ASSUME Fits PROVE TypeOK
  OBVIOUS
<1>1. \A a \in Agents : AgentFits(a)
  BY DEF Fits
<1>2. ASSUME NEW a \in Agents
      PROVE  /\ call[a].kind \in AllKinds \cup {"none"} /\ call[a].id \in Ids \cup {0}
             /\ update[a].id \in Ids \cup {0} /\ update[a].task \in Task
             /\ call[a] = NoCall =>
                  listLock # a /\ update[a] = NoUpdate /\ \A i \in Ids : ~Holds(a, i)
  <2>1. AgentFits(a) /\ NoCall.pc = "idle" /\ ~InList(NoCall)
    BY <1>1, NoCallFits
  <2>2. call[a] = NoCall => update[a].pc = "idle"
    BY <2>1 DEF AgentFits
  <2>3. update[a].pc = "idle" => update[a] = NoUpdate
    BY <2>1 DEF AgentFits, UpdateFits
  <2> QED
    BY <2>1, <2>2, <2>3 DEF AgentFits, CallFits, UpdateFits, HasTask, Holds
<1> QED
  BY <1>2 DEF TypeOK, Fits, Typed

\* The state is of its type, and whoever holds a lock is in a call, for any number of
\* agents, calls and kills: no early return keeps a lock.
THEOREM LocksReturned == Spec => []TypeOK
BY FitsInit, FitsNext, FitsTypeOK, PTL DEF Spec

-----------------------------------------------------------------------------
(* The numbering of tasks, as long as no two calls have met that no lock   *)
(* keeps apart.                                                            *)

\* The calls under way may meet.
Serial ==
  \A a, b \in Agents :
    a # b /\ call[a].kind # "none" /\ call[b].kind # "none" => Serialised(call[a].kind, call[b].kind)

\* An id that was given is remembered: by the mark, or by a file of that id or above.
Remembered ==
  \A i \in Ids : given[i] >= 1 => i <= mark \/ \E j \in DOMAIN files : i <= j

OnceGiven == \A i \in Ids : given[i] <= 1

\* What a call knows of the ids that were given, g, of the mark, m, and of the tasks
\* that have a file, d.  While the mark is empty, the file of the highest remembers it.
NumberFits(c, g, m, d) ==
  /\ c.pc = "mark" /\ c.kind # "delete" =>
       \A i \in Ids : g[i] >= 1 => i <= m \/ i <= c.high
  /\ c.pc \in {"raise", "write mark"} /\ c.kind # "delete" =>
       \A i \in Ids : g[i] >= 1 => i <= c.high
  /\ c.pc \in {"raise", "write mark"} => c.high > m
  /\ c.pc \in {"mark", "raise", "write mark"} /\ c.kind # "create" => c.high \in d
  /\ c.pc = "files only" => m <= c.high
  /\ c.pc = "create" => \A i \in Ids : g[i] >= 1 => i <= c.high
  /\ c.pc \in {"unlink all", "unlink each"} => \A i \in Ids : g[i] >= 1 => i <= m
  /\ c.pc \in {"mark", "raise", "write mark"} /\ c.kind = "delete" => c.high = c.id
  /\ c.pc = "unlink" => c.id <= m

Numbering ==
  Serial /\ OnceGiven /\ Remembered /\ \A a \in Agents : NumberFits(call[a], given, mark, DOMAIN files)

Numbered == overlap \/ Numbering

\* The places at which a call knows something of the numbers.
Counting == {"files only", "mark", "raise", "write mark", "create", "unlink all", "unlink each",
             "unlink"}

LEMMA NotCounting ==
  ASSUME NEW c, c.pc \notin Counting, NEW g, NEW m, NEW d
  PROVE  NumberFits(c, g, m, d)
BY DEF NumberFits, Counting

LEMMA MoreFiles ==
  ASSUME NEW c, NEW g, NEW m, NEW d, NEW e, NumberFits(c, g, m, d), d \subseteq e
  PROVE  NumberFits(c, g, m, e)
BY DEF NumberFits

LEMMA SerialOn ==
  ASSUME Serial, NEW a \in Agents, CallOf(a), call'[a].kind \in {call[a].kind, "none"}
  PROVE  Serial'
<1> SUFFICES ASSUME NEW b \in Agents, NEW c \in Agents, b # c,
                    call'[b].kind # "none", call'[c].kind # "none"
             PROVE  Serialised(call'[b].kind, call'[c].kind)
  BY DEF Serial
<1>1. call'[b].kind = call[b].kind /\ call'[c].kind = call[c].kind
  BY DEF CallOf
<1> QED
  BY <1>1 DEF Serial

\* A step that leaves the numbers alone and removes no file.
LEMMA CountsOn ==
  ASSUME Numbered, NEW a \in Agents, CallOf(a), call'[a].kind \in {call[a].kind, "none"},
         UNCHANGED <<mark, given, overlap>>, DOMAIN files \subseteq DOMAIN files',
         Numbering => NumberFits(call'[a], given, mark, DOMAIN files)
  PROVE  Numbered'
<1> SUFFICES ASSUME ~overlap PROVE Numbering'
  BY DEF Numbered
<1>1. Numbering
  BY DEF Numbered
<1>2. Serial'
  BY <1>1, SerialOn DEF Numbering
<1>3. \A b \in Agents : NumberFits(call'[b], given, mark, DOMAIN files)
  BY <1>1 DEF Numbering, CallOf
<1>4. \A b \in Agents : NumberFits(call'[b], given, mark, DOMAIN files')
  BY <1>3, MoreFiles
<1>5. OnceGiven' /\ Remembered'
  BY <1>1 DEF Numbering, OnceGiven, Remembered
<1> QED
  BY <1>2, <1>4, <1>5 DEF Numbering

\* Whoever changes the numbers is alone with them.
LEMMA CountsAlone ==
  ASSUME Fits, Numbering, NEW a \in Agents, NEW b \in Agents \ {a},
         InList(call[a]) \/ call[a].kind = "delete"
  PROVE  call[b].pc \notin Counting
<1>1. /\ CallFits(call[a]) /\ CallFits(call[b])
      /\ listLock = a <=> InList(call[a])
      /\ listLock = b <=> InList(call[b])
  BY DEF Fits, AgentFits
<1>2. call[a].kind # "none"
  BY <1>1, NoCallFits DEF CallFits
<1>3. call[b].kind # "none" => Serialised(call[a].kind, call[b].kind)
  BY <1>2 DEF Numbering, Serial
<1>4. call[b].kind # "delete"
  BY <1>3 DEF Serialised
<1>5. CASE InList(call[a])
  <2>1. ~InList(call[b])
    BY <1>1, <1>5
  <2> SUFFICES ASSUME call[b].pc \in Counting PROVE FALSE
    OBVIOUS
  <2>2. call[b].pc = "unlink"
    BY <1>4, <2>1 DEF InList, Counting
  <2> QED
    BY <1>1, <1>4, <2>2, PlaceKinds
<1>6. CASE call[a].kind = "delete"
  <2>1. call[b].kind = "none"
    BY <1>3, <1>6 DEF Serialised
  <2> QED
    BY <1>1, <2>1, NoCallFits DEF CallFits, Counting
<1> QED
  BY <1>5, <1>6

-----------------------------------------------------------------------------

LEMMA LockListCounts ==
  ASSUME Fits, Numbered, NEW a \in Agents, LockList(a), update[a] = NoUpdate
  PROVE  Numbered'
<1>1. CallOf(a) /\ call'[a].pc = "files" /\ call'[a].kind = call[a].kind
  BY LockListFits
<1>2. UNCHANGED <<files, mark, given, overlap>>
  BY DEF LockList
<1>3. NumberFits(call'[a], given, mark, DOMAIN files)
  BY <1>1, NotCounting DEF Counting
<1> QED
  BY <1>1, <1>2, <1>3, CountsOn

LEMMA ReadFilesCounts ==
  ASSUME Fits, Numbered, NEW a \in Agents, ReadFiles(a), update[a] = NoUpdate
  PROVE  Numbered'
<1>1. /\ CallOf(a) /\ call'[a].kind = call[a].kind
      /\ call'[a].high = IF call[a].pc = "files" THEN Highest ELSE Max({call[a].high, Highest})
      /\ call[a].pc = "files only" => call'[a].pc = "create"
      /\ call[a].pc = "files" /\ call[a].kind = "create" => call'[a].pc = "mark"
      /\ call[a].pc = "files" /\ call[a].kind # "create" =>
           call'[a].pc = IF Highest > 0 THEN "mark" ELSE "unlink all"
  BY ReadFilesFits
<1>2. call[a].pc \in {"files", "files only"} /\ UNCHANGED <<files, mark, given, overlap>>
  BY DEF ReadFiles
<1>3. /\ Highest \in Nat /\ (\A i \in DOMAIN files : i <= Highest)
      /\ (\A i \in Ids : i \in Nat /\ i # 0)
      /\ call[a].high \in Nat /\ mark \in Nat /\ (\A i \in DOMAIN files : i \in Ids)
  <2>1. /\ Highest \in Ids \cup {0} /\ \A i \in DOMAIN files : i <= Highest
        /\ Ids \cup {0} \subseteq Nat
    BY Numbers
  <2>2. call[a].high \in Ids \cup {0} /\ mark \in Ids \cup {0} /\ DOMAIN files \subseteq Ids
    BY DEF Fits, Typed, AgentFits, CallFits
  <2>3. \A i \in Ids : i # 0
    BY TaskListAssumption DEF Ids
  <2> QED
    BY <2>1, <2>2, <2>3
<1> DEFINE high == call'[a].high
<1>7. /\ call[a].pc = "files" => high = Highest
      /\ call[a].pc = "files only" => high = Max({call[a].high, Highest})
  BY <1>1
<1> HIDE DEF high
<1>4. /\ high \in Nat /\ Highest <= high
      /\ call[a].pc = "files only" => call[a].high <= high
  <2>1. CASE call[a].pc = "files"
    <3>1. high = Highest
      BY <1>7, <2>1
    <3>2. Highest \in Nat /\ Highest <= Highest
      BY <1>3
    <3> QED
      BY <2>1, <3>1, <3>2
  <2>2. CASE call[a].pc = "files only"
    <3>1. high = Max({call[a].high, Highest})
      BY <1>7, <2>2
    <3> QED
      BY <1>3, <3>1, MaxOfTwo
  <2> QED
    BY <1>2, <2>1, <2>2
<1>5. call[a].kind # "delete"
  <2>1. CallFits(call[a])
    BY DEF Fits, AgentFits
  <2> QED
    BY <1>2, <2>1, PlaceKinds
<1>6. ASSUME Numbering PROVE NumberFits(call'[a], given, mark, DOMAIN files)
  <2>1. \A i \in Ids : given[i] >= 1 => i <= mark \/ i <= Highest
    BY <1>3, <1>6 DEF Numbering, Remembered
  <2> high \in Nat /\ Highest <= high
    BY <1>4
  <2>2. \A i \in Ids : given[i] >= 1 => i <= mark \/ i <= high
    BY <1>3, <2>1
  <2>3. CASE call[a].pc = "files only"
    <3>1. mark <= call[a].high
      BY <1>6, <2>3 DEF Numbering, NumberFits
    <3>2. call[a].high <= high
      BY <1>4, <2>3
    <3>3. \A i \in Ids : given[i] >= 1 => i <= high
      BY <1>3, <2>2, <3>1, <3>2
    <3> QED
      BY <1>1, <2>3, <3>3 DEF NumberFits, high
  <2>4. CASE call'[a].pc = "mark"
    <3>1. ASSUME call[a].kind # "create" PROVE high \in DOMAIN files
      <4>1. call[a].pc = "files" /\ Highest > 0
        BY <1>1, <1>2, <2>4, <3>1
      <4> QED
        BY <1>3, <1>7, <4>1, Numbers
    <3> QED
      BY <1>1, <1>5, <2>2, <2>4, <3>1 DEF NumberFits, high
  <2>5. CASE call'[a].pc = "unlink all"
    <3>1. Highest = 0
      <4>1. ~(Highest > 0)
        BY <1>1, <1>2, <2>5
      <4> QED
        BY <1>3, <4>1
    <3>2. ASSUME NEW i \in Ids, given[i] >= 1 PROVE i <= mark
      <4>1. i <= mark \/ i <= 0
        BY <2>1, <3>1, <3>2
      <4> QED
        BY <1>3, <4>1
    <3> QED
      BY <2>5, <3>2 DEF NumberFits
  <2> QED
    BY <1>1, <1>2, <2>3, <2>4, <2>5
<1> QED
  BY <1>1, <1>2, <1>6, CountsOn

LEMMA MarkFirstCounts ==
  ASSUME Fits, Numbered, NEW a \in Agents, MarkFirst(a), update[a] = NoUpdate
  PROVE  Numbered'
<1>1. CallOf(a) /\ call'[a].pc = "files only" /\ call'[a].kind = call[a].kind /\ call'[a].high = mark
  BY MarkFirstFits
<1>2. UNCHANGED <<files, mark, given, overlap>>
  BY DEF MarkFirst
<1>3. mark \in Nat /\ call'[a].high \in Nat
  <2>1. mark \in Ids \cup {0} /\ call'[a].high \in Ids \cup {0}
    BY MarkFirstFits DEF Fits, Typed, AgentFits, CallFits
  <2> QED
    BY <2>1, Numbers
<1>4. mark <= call'[a].high
  <2>1. call'[a].high = mark
    BY <1>1
  <2> QED
    BY <1>3, <2>1
<1>5. NumberFits(call'[a], given, mark, DOMAIN files)
  BY <1>1, <1>4 DEF NumberFits
<1> QED
  BY <1>1, <1>2, <1>5, CountsOn

LEMMA ReadMarkCounts ==
  ASSUME Fits, Numbered, NEW a \in Agents, ReadMark(a), update[a] = NoUpdate
  PROVE  Numbered'
<1>1. /\ CallOf(a) /\ call'[a].kind = call[a].kind /\ call'[a].id = call[a].id
      /\ call[a].kind = "create" =>
           call'[a].pc = "create" /\ call'[a].high = Max({call[a].high, mark})
      /\ call[a].kind # "create" => call'[a].high = call[a].high
      /\ call[a].kind # "create" /\ call[a].high > mark => call'[a].pc = "raise"
      /\ call[a].kind # "create" /\ ~(call[a].high > mark) =>
           call'[a].pc = IF call[a].kind = "delete" THEN "unlink" ELSE "unlink all"
  BY ReadMarkFits
<1>2. call[a].pc = "mark" /\ UNCHANGED <<files, mark, given, overlap>>
  BY DEF ReadMark
<1>3. call[a].high \in Nat /\ mark \in Nat /\ Ids \subseteq Nat
  <2>1. call[a].high \in Ids \cup {0} /\ mark \in Ids \cup {0}
    BY DEF Fits, Typed, AgentFits, CallFits
  <2> QED
    BY <2>1, Numbers
<1>4. ASSUME Numbering PROVE NumberFits(call'[a], given, mark, DOMAIN files)
  <2>1. NumberFits(call[a], given, mark, DOMAIN files)
    BY <1>4 DEF Numbering
  <2>2. CASE call[a].kind = "create"
    <3>1. mark <= call'[a].high /\ call[a].high <= call'[a].high /\ call'[a].high \in Nat
      BY <1>1, <1>3, <2>2, MaxOfTwo
    <3>2. \A i \in Ids : given[i] >= 1 => i <= mark \/ i <= call[a].high
      BY <1>2, <2>1, <2>2 DEF NumberFits
    <3>3. \A i \in Ids : given[i] >= 1 => i <= call'[a].high
      BY <1>3, <3>1, <3>2
    <3> QED
      BY <1>1, <2>2, <3>3 DEF NumberFits
  <2>3. CASE call[a].kind # "create" /\ call[a].high > mark
    <3>1. call[a].high \in DOMAIN files
      BY <1>2, <2>1, <2>3 DEF NumberFits
    <3>2. ASSUME call[a].kind # "delete" PROVE \A i \in Ids : given[i] >= 1 => i <= call[a].high
      <4>1. \A i \in Ids : given[i] >= 1 => i <= mark \/ i <= call[a].high
        BY <1>2, <2>1, <3>2 DEF NumberFits
      <4>2. ASSUME NEW i \in Ids, given[i] >= 1 PROVE i <= call[a].high
        <5>1. i \in Nat /\ (i <= mark \/ i <= call[a].high)
          BY <1>3, <4>1, <4>2
        <5>2. call[a].high > mark
          BY <2>3
        <5> QED
          BY <1>3, <5>1, <5>2
      <4> QED
        BY <4>2
    <3>3. call[a].kind = "delete" => call[a].high = call[a].id
      BY <1>2, <2>1 DEF NumberFits
    <3> QED
      BY <1>1, <2>3, <3>1, <3>2, <3>3 DEF NumberFits
  <2>4. CASE call[a].kind = "delete" /\ ~(call[a].high > mark)
    <3>1. call[a].id <= mark
      BY <1>2, <1>3, <2>1, <2>4 DEF NumberFits
    <3> QED
      BY <1>1, <2>4, <3>1 DEF NumberFits
  <2>5. CASE call[a].kind \notin {"create", "delete"} /\ ~(call[a].high > mark)
    <3>1. \A i \in Ids : given[i] >= 1 => i <= mark \/ i <= call[a].high
      BY <1>2, <2>1, <2>5 DEF NumberFits
    <3>2. \A i \in Ids : given[i] >= 1 => i <= mark
      BY <1>3, <2>5, <3>1
    <3> QED
      BY <1>1, <2>5, <3>2 DEF NumberFits
  <2> QED
    BY <2>2, <2>3, <2>4, <2>5
<1> QED
  BY <1>1, <1>2, <1>4, CountsOn

\* While the mark is empty, the file of the highest task is still there.
LEMMA EmptyMarkCounts ==
  ASSUME Fits, Numbered, NEW a \in Agents, EmptyMark(a), update[a] = NoUpdate
  PROVE  Numbered'
<1>1. /\ CallOf(a) /\ call'[a].kind = call[a].kind /\ call'[a].id = call[a].id
      /\ call'[a].high = call[a].high /\ call'[a].pc = "write mark"
  BY EmptyMarkFits
<1>2. call[a].pc = "raise" /\ mark' = 0 /\ UNCHANGED <<files, given, overlap>>
  BY DEF EmptyMark
<1>3. /\ call[a].high \in Nat /\ mark \in Nat /\ (\A i \in Ids : i \in Nat /\ i # 0)
      /\ call[a].kind # "create"
  <2>1. call[a].high \in Ids \cup {0} /\ mark \in Ids \cup {0} /\ CallFits(call[a])
    BY DEF Fits, Typed, AgentFits, CallFits
  <2>2. \A i \in Ids : i # 0
    BY TaskListAssumption DEF Ids
  <2>3. call[a].kind # "create"
    BY <1>2, <2>1, PlaceKinds
  <2> QED
    BY <2>1, <2>2, <2>3, Numbers
<1> SUFFICES ASSUME ~overlap PROVE Numbering'
  BY <1>2 DEF Numbered
<1>4. Numbering /\ NumberFits(call[a], given, mark, DOMAIN files)
  BY DEF Numbered, Numbering
<1>5. call[a].high > mark /\ call[a].high \in DOMAIN files
  BY <1>2, <1>3, <1>4 DEF NumberFits
<1>6. Serial'
  BY <1>1, <1>4, SerialOn DEF Numbering
<1>7. OnceGiven' /\ Remembered'
  <2>1. ASSUME NEW i \in Ids, given[i] >= 1 PROVE \E j \in DOMAIN files : i <= j
    <3>1. i <= mark \/ \E j \in DOMAIN files : i <= j
      BY <1>4, <2>1 DEF Numbering, Remembered
    <3>2. ASSUME i <= mark PROVE i <= call[a].high
      BY <1>3, <1>5, <3>2
    <3> QED
      BY <1>5, <3>1, <3>2
  <2> QED
    BY <1>2, <1>4, <2>1 DEF Numbering, OnceGiven, Remembered
<1>8. \A b \in Agents \ {a} : NumberFits(call'[b], given', mark', DOMAIN files')
  <2>1. \A b \in Agents \ {a} : call[b].pc \notin Counting
    BY <1>2, <1>4, CountsAlone DEF InList
  <2> QED
    BY <1>1, <2>1, NotCounting DEF CallOf
<1>9. NumberFits(call'[a], given', mark', DOMAIN files')
  <2>1. call[a].high > 0
    BY <1>3, <1>5
  <2>2. /\ call[a].kind # "delete" => \A i \in Ids : given[i] >= 1 => i <= call[a].high
        /\ call[a].kind = "delete" => call[a].high = call[a].id
    BY <1>2, <1>4 DEF NumberFits
  <2> QED
    BY <1>1, <1>2, <1>5, <2>1, <2>2 DEF NumberFits
<1> QED
  BY <1>6, <1>7, <1>8, <1>9 DEF Numbering

LEMMA WriteMarkCounts ==
  ASSUME Fits, Numbered, NEW a \in Agents, WriteMark(a), update[a] = NoUpdate
  PROVE  Numbered'
<1>1. /\ CallOf(a) /\ call'[a].kind = call[a].kind /\ call'[a].id = call[a].id
      /\ call'[a].high = call[a].high
      /\ call'[a].pc = IF call[a].kind = "delete" THEN "unlink" ELSE "unlink all"
  BY WriteMarkFits
<1>2. call[a].pc = "write mark" /\ mark' = call[a].high /\ UNCHANGED <<files, given, overlap>>
  BY DEF WriteMark
<1>3. call[a].high \in Nat /\ mark \in Nat /\ Ids \subseteq Nat /\ DOMAIN files \subseteq Nat
  <2>1. /\ call[a].high \in Ids \cup {0} /\ mark \in Ids \cup {0}
        /\ DOMAIN files \subseteq Ids
    BY DEF Fits, Typed, AgentFits, CallFits
  <2> QED
    BY <2>1, Numbers
<1> SUFFICES ASSUME ~overlap PROVE Numbering'
  BY <1>2 DEF Numbered
<1>4. Numbering /\ NumberFits(call[a], given, mark, DOMAIN files)
  BY DEF Numbered, Numbering
<1>5. call[a].high > mark
  BY <1>2, <1>4 DEF NumberFits
<1>6. Serial'
  BY <1>1, <1>4, SerialOn DEF Numbering
<1>7. OnceGiven' /\ Remembered'
  <2>1. ASSUME NEW i \in Ids, i <= mark PROVE i <= call[a].high
    BY <1>3, <1>5, <2>1
  <2> QED
    BY <1>2, <1>4, <2>1 DEF Numbering, OnceGiven, Remembered
<1>8. \A b \in Agents \ {a} : NumberFits(call'[b], given', mark', DOMAIN files')
  <2>1. \A b \in Agents \ {a} : call[b].pc \notin Counting
    BY <1>2, <1>4, CountsAlone DEF InList
  <2> QED
    BY <1>1, <2>1, NotCounting DEF CallOf
<1>9. NumberFits(call'[a], given', mark', DOMAIN files')
  <2>1. CASE call[a].kind = "delete"
    <3>1. call[a].high = call[a].id
      BY <1>2, <1>4, <2>1 DEF NumberFits
    <3>2. call'[a].pc = "unlink" /\ call'[a].id <= mark'
      <4>1. call[a].high <= call[a].high
        BY <1>3
      <4> QED
        BY <1>1, <1>2, <2>1, <3>1, <4>1
    <3> QED
      BY <3>2 DEF NumberFits
  <2>2. CASE call[a].kind # "delete"
    <3>1. \A i \in Ids : given[i] >= 1 => i <= call[a].high
      BY <1>2, <1>4, <2>2 DEF NumberFits
    <3> QED
      BY <1>1, <1>2, <2>2, <3>1 DEF NumberFits
  <2> QED
    BY <2>1, <2>2
<1> QED
  BY <1>6, <1>7, <1>8, <1>9 DEF Numbering

LEMMA CreateFileCounts ==
  ASSUME Fits, Numbered, NEW a \in Agents, CreateFile(a), update[a] = NoUpdate
  PROVE  Numbered'
<1> DEFINE n == NextId(call[a])
<1>1. CallOf(a) /\ call'[a].pc = "fill" /\ call'[a].kind = call[a].kind
  BY CreateFileFits
<1>2. /\ call[a].pc = "create" /\ n \in Ids /\ Write(n, Torn)
      /\ given' = [given EXCEPT ![n] = @ + 1] /\ UNCHANGED <<mark, overlap>>
  BY DEF CreateFile
<1>3. n = call[a].high + 1 /\ call[a].high \in Nat
  BY Numbers DEF NextId, Fits, AgentFits, CallFits
<1> HIDE DEF n
<1>4. given \in [Ids -> Nat] /\ \A i \in Ids : i \in Nat
  BY Numbers DEF Fits, Typed
<1>5. DOMAIN files' = DOMAIN files \cup {n}
  BY <1>2 DEF Write
<1> SUFFICES ASSUME ~overlap PROVE Numbering'
  BY <1>2 DEF Numbered
<1>6. Numbering /\ NumberFits(call[a], given, mark, DOMAIN files)
  BY DEF Numbered, Numbering
<1>7. Serial'
  BY <1>1, <1>6, SerialOn DEF Numbering
<1>8. given[n] = 0
  <2>1. \A i \in Ids : given[i] >= 1 => i <= call[a].high
    BY <1>2, <1>6 DEF NumberFits
  <2>2. ~(n <= call[a].high) /\ given[n] \in Nat
    BY <1>2, <1>3, <1>4
  <2>3. ~(given[n] >= 1)
    BY <1>2, <2>1, <2>2
  <2> QED
    BY <2>2, <2>3
<1>9. given'[n] = 1 /\ \A i \in Ids \ {n} : given'[i] = given[i]
  BY <1>2, <1>4, <1>8
<1>10. OnceGiven'
  <2>1. ASSUME NEW i \in Ids PROVE given'[i] <= 1
    <3>1. given[i] <= 1
      BY <1>6 DEF Numbering, OnceGiven
    <3> QED
      BY <1>9, <3>1
  <2> QED
    BY <2>1 DEF OnceGiven
<1>11. Remembered'
  <2> SUFFICES ASSUME NEW i \in Ids, given'[i] >= 1
               PROVE  i <= mark \/ \E j \in DOMAIN files' : i <= j
    BY <1>2 DEF Remembered
  <2>1. CASE i = n
    <3>1. i <= n /\ n \in DOMAIN files'
      BY <1>4, <1>5, <2>1
    <3> QED
      BY <3>1
  <2>2. CASE i # n
    <3>1. i <= mark \/ \E j \in DOMAIN files : i <= j
      BY <1>6, <1>9, <2>2 DEF Numbering, Remembered
    <3> QED
      BY <1>5, <3>1
  <2> QED
    BY <2>1, <2>2
<1>12. \A b \in Agents : NumberFits(call'[b], given', mark', DOMAIN files')
  <2>1. \A b \in Agents \ {a} : call[b].pc \notin Counting
    BY <1>2, <1>6, CountsAlone DEF InList
  <2>2. \A b \in Agents : call'[b].pc \notin Counting
    BY <1>1, <2>1 DEF CallOf, Counting
  <2> QED
    BY <2>2, NotCounting
<1> QED
  BY <1>7, <1>10, <1>11, <1>12 DEF Numbering

LEMMA ListToUnlinkCounts ==
  ASSUME Fits, Numbered, NEW a \in Agents, ListToUnlink(a), update[a] = NoUpdate
  PROVE  Numbered'
<1>1. CallOf(a) /\ call'[a].pc = "unlink each" /\ call'[a].kind = call[a].kind
  BY ListToUnlinkFits
<1>2. call[a].pc = "unlink all" /\ UNCHANGED <<files, mark, given, overlap>>
  BY DEF ListToUnlink
<1>3. Numbering => NumberFits(call'[a], given, mark, DOMAIN files)
  BY <1>1, <1>2 DEF Numbering, NumberFits
<1> QED
  BY <1>1, <1>2, <1>3, CountsOn

LEMMA UnlinkNextCounts ==
  ASSUME Fits, Numbered, NEW a \in Agents, UnlinkNext(a), update[a] = NoUpdate
  PROVE  Numbered'
<1>1. CallOf(a) /\ call'[a].pc = "unlink each" /\ call'[a].kind = call[a].kind
  BY UnlinkNextFits
<1>2. call[a].pc = "unlink each" /\ UNCHANGED <<mark, given, overlap>>
  BY DEF UnlinkNext
<1> SUFFICES ASSUME ~overlap PROVE Numbering'
  BY <1>2 DEF Numbered
<1>3. Numbering /\ NumberFits(call[a], given, mark, DOMAIN files)
  BY DEF Numbered, Numbering
<1>4. Serial'
  BY <1>1, <1>3, SerialOn DEF Numbering
<1>5. \A i \in Ids : given[i] >= 1 => i <= mark
  BY <1>2, <1>3 DEF NumberFits
<1>6. OnceGiven' /\ Remembered'
  BY <1>2, <1>3, <1>5 DEF Numbering, OnceGiven, Remembered
<1>7. NumberFits(call'[a], given, mark, DOMAIN files')
  BY <1>1, <1>5 DEF NumberFits
<1>8. \A b \in Agents \ {a} : NumberFits(call'[b], given, mark, DOMAIN files')
  <2>1. \A b \in Agents \ {a} : call[b].pc \notin Counting
    BY <1>2, <1>3, CountsAlone DEF InList
  <2> QED
    BY <1>1, <2>1, NotCounting DEF CallOf
<1> QED
  BY <1>2, <1>4, <1>6, <1>7, <1>8 DEF Numbering

LEMMA EndResetCounts ==
  ASSUME Fits, Numbered, NEW a \in Agents, EndReset(a), update[a] = NoUpdate
  PROVE  Numbered'
<1>1. CallOf(a) /\ call'[a] = NoCall
  BY EndResetFits
<1>2. UNCHANGED <<files, mark, given, overlap>>
  BY DEF EndReset
<1>3. call'[a].kind = "none" /\ NumberFits(call'[a], given, mark, DOMAIN files)
  <2>1. call'[a].kind = "none" /\ call'[a].pc \notin Counting
    BY <1>1, NoCallFits DEF Counting
  <2> QED
    BY <2>1, NotCounting
<1> QED
  BY <1>1, <1>2, <1>3, CountsOn

LEMMA UnlinkTaskCounts ==
  ASSUME Fits, Numbered, NEW a \in Agents, UnlinkTask(a), update[a] = NoUpdate
  PROVE  Numbered'
<1>1. /\ CallOf(a)
      /\ call'[a] = NoCall \/ (call'[a].pc = "list references" /\ call'[a].kind = "delete")
  BY UnlinkTaskFits
<1>2. /\ call[a].pc = "unlink" /\ DOMAIN files' = DOMAIN files \ {call[a].id}
      /\ UNCHANGED <<mark, given, overlap>>
  BY DEF UnlinkTask
<1> SUFFICES ASSUME ~overlap PROVE Numbering'
  BY <1>2 DEF Numbered
<1>3. Numbering /\ NumberFits(call[a], given, mark, DOMAIN files)
  BY DEF Numbered, Numbering
<1>4. call'[a].kind \in {call[a].kind, "none"} /\ call'[a].pc \notin Counting
  <2>1. CallFits(call[a])
    BY DEF Fits, AgentFits
  <2>2. call[a].kind = "delete"
    BY <1>2, <2>1, PlaceKinds
  <2> QED
    BY <1>1, <2>2, NoCallFits DEF Counting
<1>5. Serial'
  BY <1>1, <1>3, <1>4, SerialOn DEF Numbering
<1>6. call[a].id <= mark
  BY <1>2, <1>3 DEF NumberFits
<1>7. /\ (\A i \in Ids : i \in Nat) /\ DOMAIN files \subseteq Ids /\ mark \in Nat
      /\ call[a].id \in Nat
  <2>1. DOMAIN files \subseteq Ids /\ mark \in Ids \cup {0} /\ call[a].id \in Ids \cup {0}
    BY DEF Fits, Typed, AgentFits, CallFits
  <2> QED
    BY <2>1, Numbers
<1>8. Remembered'
  <2> SUFFICES ASSUME NEW i \in Ids, given[i] >= 1
               PROVE  i <= mark \/ \E j \in DOMAIN files' : i <= j
    BY <1>2 DEF Remembered
  <2>1. CASE i <= mark
    BY <2>1
  <2>2. CASE \E j \in DOMAIN files : i <= j
    <3>1. PICK j \in DOMAIN files : i <= j
      BY <2>2
    <3>2. CASE j = call[a].id
      <4>1. i <= mark
        BY <1>6, <1>7, <3>1, <3>2
      <4> QED
        BY <4>1
    <3>3. CASE j # call[a].id
      BY <1>2, <3>1, <3>3
    <3> QED
      BY <3>2, <3>3
  <2> QED
    BY <1>3, <2>1, <2>2 DEF Numbering, Remembered
<1>9. OnceGiven'
  BY <1>2, <1>3 DEF Numbering, OnceGiven
<1>10. \A b \in Agents : NumberFits(call'[b], given, mark, DOMAIN files')
  <2>1. CallFits(call[a])
    BY DEF Fits, AgentFits
  <2>2. call[a].kind = "delete"
    BY <1>2, <2>1, PlaceKinds
  <2>3. \A b \in Agents : call'[b].pc \notin Counting
    BY <1>1, <1>3, <1>4, <2>2, CountsAlone DEF CallOf
  <2> QED
    BY <2>3, NotCounting
<1> QED
  BY <1>2, <1>5, <1>8, <1>9, <1>10 DEF Numbering

-----------------------------------------------------------------------------

\* A step that leaves the numbers alone and goes on to a place that knows nothing of them.
LEMMA OtherCounts ==
  ASSUME Numbered, NEW a \in Agents, CallOf(a), call'[a].kind \in {call[a].kind, "none"},
         call'[a].pc \notin Counting, UNCHANGED <<mark, given, overlap>>,
         DOMAIN files \subseteq DOMAIN files'
  PROVE  Numbered'
BY NotCounting, CountsOn

LEMMA NoneCounts == NoCall.kind = "none" /\ NoCall.pc \notin Counting /\ "updates" \notin Counting
BY NoCallFits DEF Counting

LEMMA NumberingCounts ==
  ASSUME Fits, Numbered, NEW a \in Agents, NumberingStep(a), update[a] = NoUpdate
  PROVE  Numbered'
<1>1. CASE FillFile(a)
  <2>1. CallOf(a) /\ call'[a] = NoCall
    BY <1>1, FillFileFits
  <2>2. UNCHANGED <<mark, given, overlap>> /\ DOMAIN files \subseteq DOMAIN files'
    BY <1>1 DEF FillFile, Write
  <2> QED
    BY <2>1, <2>2, NoneCounts, OtherCounts
<1>2. CASE CheckAllDone(a)
  <2>1. /\ CallOf(a)
        /\ call'[a] = NoCall \/ (call'[a].pc = "list lock" /\ call'[a].kind = call[a].kind)
    BY <1>2, CheckAllDoneFits
  <2>2. UNCHANGED <<files, mark, given, overlap>>
    BY <1>2 DEF CheckAllDone
  <2>3. call'[a].pc \notin Counting /\ call'[a].kind \in {call[a].kind, "none"}
    BY <2>1, NoneCounts DEF Counting
  <2> QED
    BY <2>1, <2>2, <2>3, OtherCounts
<1> QED
  BY <1>1, <1>2, LockListCounts, ReadFilesCounts, MarkFirstCounts, ReadMarkCounts,
     EmptyMarkCounts, WriteMarkCounts, CreateFileCounts, ListToUnlinkCounts, UnlinkNextCounts,
     EndResetCounts DEF NumberingStep

LEMMA ClaimCounts ==
  ASSUME Fits, Numbered, NEW a \in Agents, ClaimStep(a), update[a] = NoUpdate
  PROVE  Numbered'
<1>1. UNCHANGED <<files, mark, given, overlap>>
  BY DEF ClaimStep, ListToClaim, CheckExists, LockToClaim, CheckOwner, CheckBlockers
<1>2. /\ CallOf(a)
      /\ call'[a] = NoCall
         \/ (call'[a].pc \in {"exists", "task lock", "owner", "blockers", "updates"}
             /\ call'[a].kind = call[a].kind)
  <2>1. CASE ListToClaim(a) \/ CheckExists(a)
    BY <2>1, ListToClaimFits, CheckExistsFits
  <2>2. CASE LockToClaim(a) \/ CheckOwner(a)
    BY <2>2, LockToClaimFits, CheckOwnerFits
  <2>3. CASE CheckBlockers(a)
    BY <2>3, CheckBlockersFits
  <2> QED
    BY <2>1, <2>2, <2>3 DEF ClaimStep
<1>3. call'[a].pc \notin Counting /\ call'[a].kind \in {call[a].kind, "none"}
  BY <1>2, NoneCounts DEF Counting
<1> QED
  BY <1>1, <1>2, <1>3, OtherCounts

LEMMA UnlockedCounts ==
  ASSUME Fits, Numbered, NEW a \in Agents, UnlockedStep(a), update[a] = NoUpdate
  PROVE  Numbered'
<1>1. CASE ReadToDelete(a)
  <2>1. /\ CallOf(a)
        /\ call'[a] = NoCall \/ (call'[a].pc = "mark" /\ call'[a].kind = "delete"
                                 /\ call'[a].high = call[a].id /\ call'[a].id = call[a].id)
    BY <1>1, ReadToDeleteFits
  <2>2. /\ UNCHANGED <<files, mark, given, overlap>> /\ call[a].pc = "delete"
        /\ call[a].id \in Readable \/ call' = [call EXCEPT ![a] = NoCall]
    BY <1>1 DEF ReadToDelete, Ends
  <2>3. call[a].kind = "delete"
    <3>1. CallFits(call[a])
      BY DEF Fits, AgentFits
    <3> QED
      BY <2>2, <3>1, PlaceKinds
  <2>4. CASE call'[a] = NoCall
    BY <2>1, <2>2, <2>4, NoneCounts, OtherCounts
  <2>5. CASE call'[a].pc = "mark" /\ call'[a].kind = "delete" /\ call'[a].high = call'[a].id
    <3>1. call'[a].id = call[a].id
      BY <2>1, <2>5, NoCallFits
    <3>2. call[a].id \in DOMAIN files
      BY <2>2, <2>5, NoCallFits DEF Readable, Fits, Typed
    <3>3. NumberFits(call'[a], given, mark, DOMAIN files)
      BY <2>5, <3>1, <3>2 DEF NumberFits
    <3> QED
      BY <2>1, <2>2, <2>3, <2>5, <3>3, CountsOn
  <2> QED
    BY <2>1, <2>4, <2>5
<1>2. CASE ReadToSet(a) \/ ListReferences(a) \/ ReadToBlock(a) \/ ListToUnassign(a)
  <2>1. UNCHANGED <<files, mark, given, overlap>>
    BY <1>2 DEF ReadToSet, ListReferences, ReadToBlock, ListToUnassign
  <2>2. /\ CallOf(a)
        /\ call'[a] = NoCall \/ (call'[a].pc = "updates" /\ call'[a].kind = call[a].kind)
    BY <1>2, ReadToSetFits, ListReferencesFits, ReadToBlockFits, ListToUnassignFits
  <2>3. call'[a].pc \notin Counting /\ call'[a].kind \in {call[a].kind, "none"}
    BY <2>2, NoneCounts
  <2> QED
    BY <2>1, <2>2, <2>3, OtherCounts, Zenon
<1> QED
  BY <1>1, <1>2, UnlinkTaskCounts DEF UnlockedStep

LEMMA UpdateCounts ==
  ASSUME Fits, Numbered, NEW a \in Agents, UpdateStep(a)
  PROVE  Numbered'
<1>1. UNCHANGED <<mark, given, overlap>> /\ DOMAIN files \subseteq DOMAIN files'
  BY DEF UpdateStep, CheckTask, LockToUpdate, ReadToUpdate, TruncateToUpdate, WriteUpdate,
         NextUpdate, Write
<1>2. call[a].pc = "updates" /\ CallOf(a)
      /\ (call'[a] = NoCall \/ (call'[a].pc = "updates" /\ call'[a].kind = call[a].kind))
  <2>1. CASE CheckTask(a) \/ ReadToUpdate(a) \/ TruncateToUpdate(a) \/ WriteUpdate(a)
    <3>1. call' = call /\ update[a].pc # "idle"
      BY <2>1 DEF CheckTask, ReadToUpdate, TruncateToUpdate, WriteUpdate
    <3>2. call[a].pc = "updates"
      BY <3>1, InUpdate
    <3> QED
      BY <3>1, <3>2 DEF CallOf, Fits, Typed
  <2>2. CASE LockToUpdate(a)
    <3>1. update[a].pc # "idle"
      BY <2>2 DEF LockToUpdate
    <3>2. call[a].pc = "updates"
      BY <3>1, InUpdate
    <3> QED
      BY <2>2, <3>2, LockToUpdateFits
  <2>3. CASE NextUpdate(a)
    <3>1. call[a].pc = "updates"
      BY <2>3 DEF NextUpdate
    <3> QED
      BY <2>3, <3>1, NextUpdateFits
  <2> QED
    BY <2>1, <2>2, <2>3 DEF UpdateStep
<1>3. call'[a].pc \notin Counting /\ call'[a].kind \in {call[a].kind, "none"}
  BY <1>2, NoneCounts
<1> QED
  BY <1>1, <1>2, <1>3, OtherCounts

LEMMA MakesCallCounts ==
  ASSUME Fits, Numbered, NEW a \in Agents, MakesCall(a)
  PROVE  Numbered'
<1>1. /\ CallOf(a) /\ call[a] = NoCall /\ UNCHANGED <<files, mark, given>>
      /\ call'[a].kind \in AllKinds /\ call'[a].pc = Entry(call'[a].kind)
      /\ overlap' = (overlap \/ \E b \in Agents \ {a} :
                                  call[b] # NoCall /\ ~Serialised(call'[a].kind, call[b].kind))
  BY MakesCallFits
<1> SUFFICES ASSUME ~overlap' PROVE Numbering'
  BY DEF Numbered
<1>2. ~overlap /\ \A b \in Agents \ {a} : call[b] # NoCall => Serialised(call'[a].kind, call[b].kind)
  BY <1>1
<1>3. Numbering
  BY <1>2 DEF Numbered
<1>4. Serial'
  <2> SUFFICES ASSUME NEW b \in Agents, NEW c \in Agents, b # c,
                      call'[b].kind # "none", call'[c].kind # "none"
               PROVE  Serialised(call'[b].kind, call'[c].kind)
    BY DEF Serial
  <2>1. \A d \in Agents \ {a} : call'[d] = call[d] /\ (call[d].kind # "none" => call[d] # NoCall)
    BY <1>1, NoneCounts DEF CallOf
  <2>2. CASE b = a
    BY <1>2, <2>1, <2>2
  <2>3. CASE c = a
    <3>1. Serialised(call'[c].kind, call'[b].kind)
      BY <1>2, <2>1, <2>3
    <3> QED
      BY <3>1 DEF Serialised
  <2>4. CASE b # a /\ c # a
    BY <1>3, <2>1, <2>4 DEF Numbering, Serial
  <2> QED
    BY <2>2, <2>3, <2>4
<1>5. call'[a].pc \notin Counting
  BY <1>1 DEF Entry, AllKinds, Counting
<1>6. \A b \in Agents : NumberFits(call'[b], given, mark, DOMAIN files)
  BY <1>1, <1>3, <1>5, NotCounting DEF CallOf, Numbering
<1>7. OnceGiven' /\ Remembered'
  BY <1>1, <1>3 DEF Numbering, OnceGiven, Remembered
<1> QED
  BY <1>1, <1>4, <1>6, <1>7 DEF Numbering

LEMMA NumberedInit == Init => Numbered
<1> SUFFICES ASSUME Init PROVE Numbering
  BY DEF Numbered
<1>1. /\ \A a \in Agents : call[a] = NoCall
      /\ DOMAIN files = 1 .. InitialTasks /\ mark = 0
      /\ \A i \in Ids : given[i] = IF i <= InitialTasks THEN 1 ELSE 0
  BY DEF Init
<1>2. Serial /\ \A a \in Agents : NumberFits(call[a], given, mark, DOMAIN files)
  BY <1>1, NoneCounts, NotCounting DEF Serial
<1>3. OnceGiven
  BY <1>1 DEF OnceGiven
<1>4. Remembered
  <2> SUFFICES ASSUME NEW i \in Ids, given[i] >= 1 PROVE \E j \in DOMAIN files : i <= j
    BY DEF Remembered
  <2>1. i \in Nat /\ 1 <= i /\ i <= InitialTasks
    BY <1>1, TaskListAssumption DEF Ids
  <2>2. i \in DOMAIN files /\ i <= i
    BY <1>1, <2>1, TaskListAssumption
  <2> QED
    BY <2>2
<1> QED
  BY <1>2, <1>3, <1>4 DEF Numbering

LEMMA NumberedNext == Fits /\ Numbered /\ [Next]_vars => Numbered'
<1> SUFFICES ASSUME Fits, Numbered, [Next]_vars PROVE Numbered'
  OBVIOUS
<1>1. CASE UNCHANGED vars
  <2>1. UNCHANGED <<files, mark, call, given, overlap>>
    BY <1>1 DEF vars
  <2> QED
    BY <2>1 DEF Numbered, Numbering, Serial, OnceGiven, Remembered
<1>2. ASSUME NEW a \in Agents, Kill(a) PROVE Numbered'
  <2>1. CallOf(a) /\ call'[a] = NoCall
    BY <1>2, KillFits
  <2>2. UNCHANGED <<files, mark, given, overlap>>
    BY <1>2 DEF Kill
  <2> QED
    BY <2>1, <2>2, NoneCounts, OtherCounts
<1> QED
  BY <1>1, <1>2, UpdateCounts, NumberingCounts, ClaimCounts, UnlockedCounts, MakesCallCounts
     DEF Next, AgentStep

\* A new task never gets the id of an earlier one, for any number of agents, calls and
\* kills, as long as no two calls have met that no lock keeps apart.
\* (the comments on the high water mark, "to prevent ID reuse")
THEOREM IdsStayDistinct == Spec => []IdsNeverReused
<1>1. Numbered => IdsNeverReused
  BY DEF Numbered, Numbering, OnceGiven, IdsNeverReused
<1> QED
  BY <1>1, FitsInit, FitsNext, NumberedInit, NumberedNext, PTL DEF Spec

-----------------------------------------------------------------------------
(* The claims, as long as no claim has met a call that sets an owner       *)
(* without looking again.                                                  *)

\* No claim is under way together with a start or an unassign.
Apart == \A a, b \in Agents : a # b => ~Races(call[a].kind, call[b].kind)

KeptApart == raced \/ Apart

\* A call under way stays of its kind until it is over.
LEMMA KindStays ==
  ASSUME Fits, NEW a \in Agents, AgentStep(a) \/ Kill(a)
  PROVE  CallOf(a) /\ call'[a].kind \in {call[a].kind, "none"} /\ raced' = raced
<1>1. NoCall.kind = "none" /\ CallFits(call[a])
  BY NoCallFits DEF Fits, AgentFits
<1>2. CASE Kill(a)
  BY <1>1, <1>2, KillFits DEF Kill
<1>3. CASE UpdateStep(a)
  <2>1. raced' = raced
    BY <1>3 DEF UpdateStep, CheckTask, LockToUpdate, ReadToUpdate, TruncateToUpdate, WriteUpdate,
                NextUpdate
  <2>2. CASE CheckTask(a) \/ ReadToUpdate(a) \/ TruncateToUpdate(a) \/ WriteUpdate(a)
    <3>1. call' = call
      BY <2>2 DEF CheckTask, ReadToUpdate, TruncateToUpdate, WriteUpdate
    <3> QED
      BY <2>1, <3>1 DEF CallOf, Fits, Typed
  <2>3. CASE LockToUpdate(a) \/ NextUpdate(a)
    BY <1>1, <2>1, <2>3, LockToUpdateFits, NextUpdateFits
  <2> QED
    BY <1>3, <2>2, <2>3 DEF UpdateStep
<1>4. CASE NumberingStep(a) /\ update[a] = NoUpdate
  <2>1. raced' = raced
    BY <1>4 DEF NumberingStep, LockList, ReadFiles, MarkFirst, ReadMark, EmptyMark, WriteMark,
                CreateFile, FillFile, ListToUnlink, UnlinkNext, EndReset, CheckAllDone
  <2>2. CASE LockList(a) \/ ReadFiles(a) \/ MarkFirst(a) \/ ReadMark(a)
    BY <1>4, <2>1, <2>2, LockListFits, ReadFilesFits, MarkFirstFits, ReadMarkFits
  <2>3. CASE EmptyMark(a) \/ WriteMark(a) \/ CreateFile(a) \/ FillFile(a)
    BY <1>1, <1>4, <2>1, <2>3, EmptyMarkFits, WriteMarkFits, CreateFileFits, FillFileFits
  <2>4. CASE ListToUnlink(a) \/ UnlinkNext(a) \/ EndReset(a) \/ CheckAllDone(a)
    BY <1>1, <1>4, <2>1, <2>4, ListToUnlinkFits, UnlinkNextFits, EndResetFits, CheckAllDoneFits
  <2> QED
    BY <1>4, <2>2, <2>3, <2>4 DEF NumberingStep
<1>5. CASE ClaimStep(a) /\ update[a] = NoUpdate
  <2>1. raced' = raced
    BY <1>5 DEF ClaimStep, ListToClaim, CheckExists, LockToClaim, CheckOwner, CheckBlockers
  <2>2. CASE ListToClaim(a) \/ CheckExists(a)
    BY <1>1, <1>5, <2>1, <2>2, ListToClaimFits, CheckExistsFits
  <2>3. CASE LockToClaim(a) \/ CheckOwner(a)
    BY <1>1, <1>5, <2>1, <2>3, LockToClaimFits, CheckOwnerFits
  <2>4. CASE CheckBlockers(a)
    BY <1>1, <1>5, <2>1, <2>4, CheckBlockersFits
  <2> QED
    BY <1>5, <2>2, <2>3, <2>4 DEF ClaimStep
<1>6. CASE UnlockedStep(a) /\ update[a] = NoUpdate
  <2>1. raced' = raced
    BY <1>6 DEF UnlockedStep, ReadToSet, ReadToDelete, UnlinkTask, ListReferences, ReadToBlock,
                ListToUnassign
  <2>2. CASE ReadToDelete(a) \/ UnlinkTask(a)
    <3>1. call[a].pc \in {"delete", "unlink"}
      BY <2>2 DEF ReadToDelete, UnlinkTask
    <3>2. call[a].kind = "delete"
      BY <1>1, <3>1, PlaceKinds
    <3> QED
      BY <1>1, <1>6, <2>1, <2>2, <3>2, ReadToDeleteFits, UnlinkTaskFits
  <2>3. CASE ReadToSet(a) \/ ListReferences(a) \/ ReadToBlock(a) \/ ListToUnassign(a)
    <3>1. CallOf(a) /\ (call'[a] = NoCall \/ call'[a].kind = call[a].kind)
      BY <1>6, <2>3, ReadToSetFits, ListReferencesFits, ReadToBlockFits, ListToUnassignFits
    <3> QED
      BY <1>1, <2>1, <3>1
  <2> QED
    BY <1>6, <2>2, <2>3 DEF UnlockedStep
<1> QED
  BY <1>2, <1>3, <1>4, <1>5, <1>6 DEF AgentStep

LEMMA ApartInit == Init => KeptApart
BY NoCallFits DEF Init, KeptApart, Apart, Races

LEMMA ApartNext == Fits /\ KeptApart /\ [Next]_vars => KeptApart'
<1> SUFFICES ASSUME Fits, KeptApart, [Next]_vars, ~raced' PROVE Apart'
  BY DEF KeptApart
<1>1. CASE UNCHANGED vars
  BY <1>1 DEF vars, KeptApart, Apart
<1>2. ASSUME NEW a \in Agents, AgentStep(a) \/ Kill(a) PROVE Apart'
  <2>1. CallOf(a) /\ call'[a].kind \in {call[a].kind, "none"} /\ raced' = raced
    BY <1>2, KindStays
  <2>2. Apart
    BY <2>1 DEF KeptApart
  <2>3. \A b \in Agents : call'[b].kind \in {call[b].kind, "none"}
    BY <2>1 DEF CallOf
  <2> QED
    BY <2>2, <2>3 DEF Apart, Races
<1>3. ASSUME NEW a \in Agents, MakesCall(a) PROVE Apart'
  <2>1. /\ CallOf(a)
        /\ raced' = (raced \/ \E b \in Agents \ {a} :
                                 call[b] # NoCall /\ Races(call'[a].kind, call[b].kind))
    BY <1>3, MakesCallFits
  <2>2. Apart /\ \A b \in Agents \ {a} : call[b] # NoCall => ~Races(call'[a].kind, call[b].kind)
    BY <2>1 DEF KeptApart
  <2>3. ASSUME NEW b \in Agents \ {a}
        PROVE  ~Races(call'[a].kind, call'[b].kind) /\ ~Races(call'[b].kind, call'[a].kind)
    <3>1. call'[b] = call[b]
      BY <2>1 DEF CallOf
    <3>2. CASE call[b] = NoCall
      BY <3>1, <3>2, NoCallFits DEF Races
    <3>3. CASE call[b] # NoCall
      BY <2>2, <3>1, <3>3 DEF Races
    <3> QED
      BY <3>2, <3>3
  <2>4. ASSUME NEW b \in Agents \ {a}, NEW c \in Agents \ {a}, b # c
        PROVE  ~Races(call'[b].kind, call'[c].kind)
    BY <2>1, <2>2, <2>4 DEF CallOf, Apart
  <2> QED
    BY <2>3, <2>4 DEF Apart
<1> QED
  BY <1>1, <1>2, <1>3 DEF Next

-----------------------------------------------------------------------------

\* An update that sets the owner of task i, by call c of agent a: g is who claims.
OwnerFits(a, c, i, f, g) ==
  "owner" \in DOMAIN f =>
    \/ c.kind = "claim" /\ f["owner"] = a /\ g[i] \in {NoOne, a}
    \/ c.kind = "start" /\ f["owner"] = a /\ g[i] = NoOne
    \/ c.kind = "unassign" /\ f["owner"] = NoOne /\ g[i] \in {NoOne, c.other}

\* What a call knows of the claims: its copy of the task is one of its claimant, and what
\* it sets as the owner takes no task from another claimant.  A claim sets the owner
\* under the lock it took to look at the owner.
ClaimFits(a, c, u, g) ==
  /\ c.pc = "blockers" => g[c.id] \in {NoOne, a}
  /\ u.pc \in {"truncate", "write"} => g[u.id] \in {NoOne, u.task.owner}
  /\ u.pc # "idle" => OwnerFits(a, c, u.id, u.fields, g)
  /\ c.kind = "claim" /\ u.pc \in {"check", "lock"} => "owner" \notin DOMAIN u.fields
  /\ c.pc = "updates" =>
       \A n \in DOMAIN c.todo :
         /\ OwnerFits(a, c, c.todo[n].id, c.todo[n].fields, g)
         /\ c.kind = "claim" => "owner" \notin DOMAIN c.todo[n].fields

\* A task is its claimant's own.
ClaimantOwns == \A i \in Readable : claimant[i] \in {NoOne, files[i].owner}

Claims == ClaimantOwns /\ \A a \in Agents : ClaimFits(a, call[a], update[a], claimant)

Claimed == raced \/ Claims

LEMMA NoClaim ==
  ASSUME NEW a, NEW c, NEW u, c.pc \notin {"blockers", "updates"}, u.pc = "idle", NEW g
  PROVE  ClaimFits(a, c, u, g)
BY DEF ClaimFits

\* A call that knows of the claims still does when some of them are taken back.
LEMMA ClaimsTakenBack ==
  ASSUME NEW a \in Agents, NEW c, CallFits(c), NEW u, UpdateFits(u), NEW g, NEW h,
         \A i \in Ids : h[i] \in {g[i], NoOne},
         ClaimFits(a, c, u, g), u.pc # "idle" => u.id \in Ids
  PROVE  ClaimFits(a, c, u, h)
<1>1. \A i \in Ids : \A f : OwnerFits(a, c, i, f, g) => OwnerFits(a, c, i, f, h)
  BY DEF OwnerFits
<1>2. c.pc = "blockers" => h[c.id] \in {NoOne, a}
  BY DEF ClaimFits, CallFits
<1>3. u.pc \in {"truncate", "write"} => h[u.id] \in {NoOne, u.task.owner}
  BY DEF ClaimFits
<1>4. u.pc # "idle" => OwnerFits(a, c, u.id, u.fields, h)
  BY <1>1 DEF ClaimFits
<1>5. ASSUME c.pc = "updates", NEW n \in DOMAIN c.todo
      PROVE  OwnerFits(a, c, c.todo[n].id, c.todo[n].fields, h)
  <2>1. c.todo[n].id \in Ids
    <3>1. PICK S : c.todo \in Seq(S) /\ \A e \in S : IsEntry(e)
      BY DEF CallFits, IsTodo
    <3>2. c.todo[n] \in S
      BY <1>5, <3>1, LenProperties
    <3> QED
      BY <3>1, <3>2 DEF IsEntry
  <2> QED
    BY <1>1, <1>5, <2>1 DEF ClaimFits
<1> QED
  BY <1>2, <1>3, <1>4, <1>5 DEF ClaimFits

\* A step that claims nothing, and after which a task is still its claimant's.
LEMMA ClaimsOnWith ==
  ASSUME Fits, Claimed, NEW a \in Agents, CallOf(a), UpdateOfOne(a), raced' \/ ~raced,
         \A i \in Ids : claimant'[i] \in {claimant[i], NoOne}, Claims => ClaimantOwns',
         Claims => ClaimFits(a, call'[a], update'[a], claimant')
  PROVE  Claimed'
<1> SUFFICES ASSUME ~raced' PROVE Claims'
  BY DEF Claimed
<1>1. Claims
  BY DEF Claimed
<1>2. ASSUME NEW b \in Agents \ {a} PROVE ClaimFits(b, call'[b], update'[b], claimant')
  <2>1. CallFits(call[b]) /\ UpdateFits(update[b]) /\ (update[b].pc # "idle" => update[b].id \in Ids)
    BY InUpdate DEF Fits, AgentFits
  <2>2. ClaimFits(b, call[b], update[b], claimant')
    BY <1>1, <2>1, ClaimsTakenBack DEF Claims
  <2> QED
    BY <1>2, <2>2 DEF CallOf, UpdateOfOne
<1> QED
  BY <1>1, <1>2 DEF Claims

\* Such a step that writes no file but one whose task nobody claims.
LEMMA ClaimsOn ==
  ASSUME Fits, Claimed, NEW a \in Agents, CallOf(a), UpdateOfOne(a), raced' \/ ~raced,
         \A i \in Ids : claimant'[i] \in {claimant[i], NoOne},
         \A i \in Readable' : claimant'[i] = NoOne \/ (i \in Readable /\ files'[i] = files[i]),
         Claims => ClaimFits(a, call'[a], update'[a], claimant')
  PROVE  Claimed'
<1>1. ASSUME Claims PROVE ClaimantOwns'
  <2> SUFFICES ASSUME NEW i \in Readable' PROVE claimant'[i] \in {NoOne, files'[i].owner}
    BY DEF ClaimantOwns
  <2>1. CASE claimant'[i] = NoOne
    BY <2>1
  <2>2. CASE i \in Readable /\ files'[i] = files[i]
    <3>1. i \in Ids
      BY <2>2 DEF Readable, Fits, Typed
    <3> QED
      BY <1>1, <2>2, <3>1 DEF Claims, ClaimantOwns
  <2> QED
    BY <2>1, <2>2
<1> QED
  BY <1>1, ClaimsOnWith

\* Such a step that leaves the files and the claims alone.
LEMMA ClaimsStay ==
  ASSUME Fits, Claimed, NEW a \in Agents, CallOf(a), UpdateOfOne(a),
         UNCHANGED <<files, claimant>>, raced' \/ ~raced,
         Claims => ClaimFits(a, call'[a], update'[a], claimant)
  PROVE  Claimed'
<1>1. \A i \in Readable' : i \in Readable /\ files'[i] = files[i]
  BY DEF Readable
<1>2. \A i \in Ids : claimant'[i] \in {claimant[i], NoOne}
  OBVIOUS
<1>3. Claims => ClaimFits(a, call'[a], update'[a], claimant')
  OBVIOUS
<1> QED
  BY <1>1, <1>2, <1>3, ClaimsOn

LEMMA IdleUpdate ==
  ASSUME Fits, NEW a \in Agents, update[a] = NoUpdate, UNCHANGED update
  PROVE  UpdateOfOne(a) /\ update'[a].pc = "idle"
BY NoCallFits DEF UpdateOfOne, Fits, Typed

LEMMA NoneClaims == NoCall.pc \notin {"blockers", "updates"}
BY NoCallFits

-----------------------------------------------------------------------------

LEMMA NumberingClaims ==
  ASSUME Fits, Claimed, NEW a \in Agents, NumberingStep(a), update[a] = NoUpdate
  PROVE  Claimed'
<1>1. UNCHANGED <<update, raced>>
  BY DEF NumberingStep, LockList, ReadFiles, MarkFirst, ReadMark, EmptyMark, WriteMark,
         CreateFile, FillFile, ListToUnlink, UnlinkNext, EndReset, CheckAllDone
<1>2. UpdateOfOne(a) /\ update'[a].pc = "idle"
  BY <1>1, IdleUpdate
<1>3. CallOf(a)
  BY LockListFits, ReadFilesFits, MarkFirstFits, ReadMarkFits, EmptyMarkFits, WriteMarkFits,
     CreateFileFits, FillFileFits, ListToUnlinkFits, UnlinkNextFits, EndResetFits,
     CheckAllDoneFits DEF NumberingStep
<1>4. call'[a].pc \notin {"blockers", "updates"}
  <2>1. CASE ReadMark(a)
    <3>1. /\ call[a].kind = "create" => call'[a].pc = "create"
          /\ call[a].kind # "create" /\ call[a].high > mark => call'[a].pc = "raise"
          /\ call[a].kind # "create" /\ ~(call[a].high > mark) =>
               call'[a].pc = IF call[a].kind = "delete" THEN "unlink" ELSE "unlink all"
      BY <2>1, ReadMarkFits
    <3>2. call'[a].pc \in {"create", "raise", "unlink", "unlink all"}
      BY <3>1
    <3> QED
      BY <3>2
  <2>2. CASE ReadFiles(a)
    <3>1. /\ call[a].pc = "files only" => call'[a].pc = "create"
          /\ call[a].pc = "files" /\ call[a].kind = "create" => call'[a].pc = "mark"
          /\ call[a].pc = "files" /\ call[a].kind # "create" =>
               call'[a].pc = IF Highest > 0 THEN "mark" ELSE "unlink all"
      BY <2>2, ReadFilesFits
    <3>2. call[a].pc \in {"files", "files only"}
      BY <2>2 DEF ReadFiles
    <3>3. call'[a].pc \in {"create", "mark", "unlink all"}
      BY <3>1, <3>2
    <3> QED
      BY <3>3
  <2>3. CASE WriteMark(a)
    <3>1. call'[a].pc = IF call[a].kind = "delete" THEN "unlink" ELSE "unlink all"
      BY <2>3, WriteMarkFits
    <3> QED
      BY <3>1
  <2>4. CASE LockList(a) \/ MarkFirst(a) \/ EmptyMark(a) \/ CreateFile(a) \/ FillFile(a)
    BY <2>4, NoneClaims, LockListFits, MarkFirstFits, EmptyMarkFits, CreateFileFits, FillFileFits
  <2>5. CASE ListToUnlink(a) \/ UnlinkNext(a) \/ EndReset(a) \/ CheckAllDone(a)
    BY <2>5, NoneClaims, ListToUnlinkFits, UnlinkNextFits, EndResetFits, CheckAllDoneFits
  <2> QED
    BY <2>1, <2>2, <2>3, <2>4, <2>5 DEF NumberingStep
<1>5. ClaimFits(a, call'[a], update'[a], claimant')
  BY <1>2, <1>4, NoClaim
<1>6. CASE FillFile(a)
  <2>1. Write(call[a].id, NewTask) /\ claimant' = [claimant EXCEPT ![call[a].id] = NoOne]
    BY <1>6 DEF FillFile
  <2>2. claimant \in [Ids -> Owner] /\ DOMAIN files' \subseteq Ids
    BY <1>6, FillFileFits DEF Fits, Typed
  <2>3. \A i \in Ids : claimant'[i] \in {claimant[i], NoOne}
    BY <2>1, <2>2
  <2>4. \A i \in Readable' : claimant'[i] = NoOne \/ (i \in Readable /\ files'[i] = files[i])
    <3> SUFFICES ASSUME NEW i \in Readable'
                 PROVE  claimant'[i] = NoOne \/ (i \in Readable /\ files'[i] = files[i])
      OBVIOUS
    <3>1. i \in Ids /\ i \in DOMAIN files' /\ files'[i] # Torn
      BY <2>2 DEF Readable
    <3>2. CASE i = call[a].id
      BY <2>1, <2>2, <3>1, <3>2
    <3>3. CASE i # call[a].id
      BY <2>1, <3>1, <3>3 DEF Write, Readable
    <3> QED
      BY <3>2, <3>3
  <2> QED
    BY <1>1, <1>2, <1>3, <1>5, <2>3, <2>4, ClaimsOn
<1>7. CASE ~FillFile(a)
  <2>1. claimant' = claimant
    BY <1>7 DEF NumberingStep, LockList, ReadFiles, MarkFirst, ReadMark, EmptyMark, WriteMark,
                CreateFile, ListToUnlink, UnlinkNext, EndReset, CheckAllDone
  <2>2. \A i \in Readable' : i \in Readable /\ files'[i] = files[i]
    <3>1. CASE CreateFile(a)
      BY <3>1 DEF CreateFile, Write, Readable
    <3>2. CASE UnlinkNext(a)
      <4>1. \A i \in DOMAIN files' : i \in DOMAIN files /\ files'[i] = files[i]
        BY <3>2, UnlinkNextFits
      <4> QED
        BY <4>1 DEF Readable
    <3>3. CASE UNCHANGED files
      BY <3>3 DEF Readable
    <3> QED
      BY <1>7, <3>1, <3>2, <3>3
      DEF NumberingStep, LockList, ReadFiles, MarkFirst, ReadMark, EmptyMark, WriteMark,
          ListToUnlink, EndReset, CheckAllDone
  <2>3. \A i \in Ids : claimant'[i] \in {claimant[i], NoOne}
    BY <2>1
  <2> QED
    BY <1>1, <1>2, <1>3, <1>5, <2>2, <2>3, ClaimsOn
<1> QED
  BY <1>6, <1>7

LEMMA ClaimClaims ==
  ASSUME Fits, Claimed, NEW a \in Agents, ClaimStep(a), update[a] = NoUpdate
  PROVE  Claimed'
<1>1. UNCHANGED <<files, claimant, raced>>
  BY DEF ClaimStep, ListToClaim, CheckExists, LockToClaim, CheckOwner, CheckBlockers
<1>2. CASE ListToClaim(a) \/ CheckExists(a) \/ LockToClaim(a)
  <2>1. UNCHANGED update
    BY <1>2 DEF ListToClaim, CheckExists, LockToClaim
  <2>2. UpdateOfOne(a) /\ update'[a].pc = "idle"
    BY <2>1, IdleUpdate
  <2>3. /\ CallOf(a)
        /\ call'[a] = NoCall \/ call'[a].pc \in {"exists", "task lock", "owner"}
    BY <1>2, ListToClaimFits, CheckExistsFits, LockToClaimFits
  <2>4. ClaimFits(a, call'[a], update'[a], claimant)
    BY <2>2, <2>3, NoneClaims, NoClaim
  <2> QED
    BY <1>1, <2>2, <2>3, <2>4, ClaimsStay
<1>3. CASE CheckOwner(a)
  <2>1. /\ CallOf(a)
        /\ \/ call'[a] = NoCall
           \/ /\ call'[a].pc = "blockers" /\ call'[a].id = call[a].id
              /\ call[a].id \in Readable /\ Claimable(a, files[call[a].id])
    BY <1>3, CheckOwnerFits
  <2>2. UNCHANGED update
    BY <1>3 DEF CheckOwner
  <2>3. UpdateOfOne(a) /\ update'[a].pc = "idle"
    BY <2>2, IdleUpdate
  <2>4. ASSUME Claims PROVE ClaimFits(a, call'[a], update'[a], claimant)
    <3>1. CASE call'[a] = NoCall
      BY <2>3, <3>1, NoneClaims, NoClaim
    <3>2. CASE call'[a].pc = "blockers" /\ call'[a].id = call[a].id
               /\ call[a].id \in Readable /\ Claimable(a, files[call[a].id])
      <4>1. claimant[call[a].id] \in {NoOne, a}
        BY <2>4, <3>2 DEF Claims, ClaimantOwns, Claimable
      <4> QED
        BY <2>3, <3>2, <4>1 DEF ClaimFits
    <3> QED
      BY <2>1, <3>1, <3>2
  <2> QED
    BY <1>1, <2>1, <2>3, <2>4, ClaimsStay
<1>4. CASE CheckBlockers(a)
  <2> DEFINE second == UpdateOf(call[a].id, [status |-> "in_progress"])
  <2>1. /\ CallOf(a) /\ UpdateOfOne(a)
        /\ \/ call'[a] = NoCall /\ update'[a] = NoUpdate
           \/ /\ call'[a].pc = "updates" /\ call'[a].kind = call[a].kind
              /\ call'[a].todo = <<second>>
              /\ update'[a].pc = "read" /\ update'[a].id = call[a].id
              /\ update'[a].fields = [owner |-> a]
    BY <1>4, CheckBlockersFits
  <2>2. call[a].pc = "blockers" /\ call[a].kind = "claim"
    <3>1. CallFits(call[a]) /\ call[a].pc = "blockers"
      BY <1>4 DEF Fits, AgentFits, CheckBlockers
    <3> QED
      BY <3>1, PlaceKinds
  <2>3. ASSUME Claims PROVE ClaimFits(a, call'[a], update'[a], claimant)
    <3>1. CASE call'[a] = NoCall /\ update'[a] = NoUpdate
      BY <3>1, NoneClaims, NoCallFits, NoClaim
    <3>2. CASE /\ call'[a].pc = "updates" /\ call'[a].kind = call[a].kind
               /\ call'[a].todo = <<second>>
               /\ update'[a].pc = "read" /\ update'[a].id = call[a].id
               /\ update'[a].fields = [owner |-> a]
      <4>1. claimant[call[a].id] \in {NoOne, a}
        BY <2>2, <2>3 DEF Claims, ClaimFits
      <4>2. OwnerFits(a, call'[a], update'[a].id, update'[a].fields, claimant)
        BY <2>2, <3>2, <4>1 DEF OwnerFits
      <4>3. "owner" \notin DOMAIN second.fields
        BY DEF UpdateOf
      <4> HIDE DEF second
      <4>4. \A n \in DOMAIN call'[a].todo : call'[a].todo[n] = second
        BY <3>2
      <4>5. \A n \in DOMAIN call'[a].todo :
              /\ OwnerFits(a, call'[a], call'[a].todo[n].id, call'[a].todo[n].fields, claimant)
              /\ "owner" \notin DOMAIN call'[a].todo[n].fields
        BY <4>3, <4>4 DEF OwnerFits
      <4> QED
        BY <3>2, <4>2, <4>5 DEF ClaimFits
    <3> QED
      BY <2>1, <3>1, <3>2
  <2> QED
    BY <1>1, <2>1, <2>3, ClaimsStay
<1> QED
  BY <1>2, <1>3, <1>4 DEF ClaimStep

LEMMA UnlockedClaims ==
  ASSUME Fits, Claimed, NEW a \in Agents, UnlockedStep(a), update[a] = NoUpdate
  PROVE  Claimed'
<1>1. UNCHANGED <<claimant, raced, update>>
  BY DEF UnlockedStep, ReadToSet, ReadToDelete, UnlinkTask, ListReferences, ReadToBlock,
         ListToUnassign
<1>2. UpdateOfOne(a) /\ update'[a].pc = "idle"
  BY <1>1, IdleUpdate
<1>3. CASE ReadToDelete(a)
  <2>1. CallOf(a) /\ (call'[a] = NoCall \/ call'[a].pc = "mark") /\ files' = files
    BY <1>3, ReadToDeleteFits DEF ReadToDelete
  <2>2. ClaimFits(a, call'[a], update'[a], claimant)
    BY <1>2, <2>1, NoneClaims, NoClaim
  <2> QED
    BY <1>1, <1>2, <2>1, <2>2, ClaimsStay
<1>4. CASE UnlinkTask(a)
  <2>1. CallOf(a) /\ (call'[a] = NoCall \/ call'[a].pc = "list references")
    BY <1>4, UnlinkTaskFits
  <2>2. \A i \in Readable' : i \in Readable /\ files'[i] = files[i]
    BY <1>4 DEF UnlinkTask, Readable
  <2>3. ClaimFits(a, call'[a], update'[a], claimant')
    BY <1>2, <2>1, NoneClaims, NoClaim
  <2>4. \A i \in Ids : claimant'[i] \in {claimant[i], NoOne}
    BY <1>1
  <2> QED
    BY <1>1, <1>2, <2>1, <2>2, <2>3, <2>4, ClaimsOn
<1>5. CASE ReadToSet(a) \/ ListReferences(a) \/ ReadToBlock(a) \/ ListToUnassign(a)
  <2>1. /\ CallOf(a)
        /\ call'[a] = NoCall \/ (call'[a].pc = "updates" /\ call'[a].kind = call[a].kind
                                 /\ call'[a].other = call[a].other /\ SetsOwners(a))
    <3>1. CASE ReadToSet(a) \/ ListReferences(a)
      BY <3>1, ReadToSetFits, ListReferencesFits
    <3>2. CASE ReadToBlock(a) \/ ListToUnassign(a)
      BY <3>2, ReadToBlockFits, ListToUnassignFits, Zenon
    <3> QED
      BY <1>5, <3>1, <3>2
  <2>2. files' = files
    BY <1>5 DEF ReadToSet, ListReferences, ReadToBlock, ListToUnassign
  <2>3. ASSUME Claims PROVE ClaimFits(a, call'[a], update'[a], claimant)
    <3>1. CASE call'[a] = NoCall
      BY <1>2, <3>1, NoneClaims, NoClaim
    <3>2. CASE call'[a].pc = "updates" /\ call'[a].kind = call[a].kind
               /\ call'[a].other = call[a].other /\ SetsOwners(a)
      <4>1. ASSUME NEW n \in DOMAIN call'[a].todo
            PROVE  /\ OwnerFits(a, call'[a], call'[a].todo[n].id, call'[a].todo[n].fields, claimant)
                   /\ call'[a].kind = "claim" => "owner" \notin DOMAIN call'[a].todo[n].fields
        <5> DEFINE e == call'[a].todo[n]
        <5>1. "owner" \in DOMAIN e.fields =>
                /\ e.id \in Readable
                /\ \/ /\ call[a].kind = "start" /\ e.fields["owner"] = a
                      /\ files[e.id].owner = NoOne
                   \/ /\ call[a].kind = "unassign" /\ e.fields["owner"] = NoOne
                      /\ files[e.id].owner = call[a].other
          BY <3>2, <4>1 DEF SetsOwners
        <5> HIDE DEF e
        <5>2. e.id \in Readable => claimant[e.id] \in {NoOne, files[e.id].owner}
          BY <2>3 DEF Claims, ClaimantOwns
        <5>3. OwnerFits(a, call'[a], e.id, e.fields, claimant)
              /\ (call'[a].kind = "claim" => "owner" \notin DOMAIN e.fields)
          BY <3>2, <5>1, <5>2 DEF OwnerFits
        <5> QED
          BY <5>3 DEF e
      <4> QED
        BY <1>2, <3>2, <4>1 DEF ClaimFits
    <3> QED
      BY <2>1, <3>1, <3>2
  <2> QED
    BY <1>1, <1>2, <2>1, <2>2, <2>3, ClaimsStay
<1> QED
  BY <1>3, <1>4, <1>5, Zenon DEF UnlockedStep

\* An update that goes on sets what it was to set, or is over.
LEMMA UpdateGoesOn ==
  ASSUME NEW a, NEW c, c.pc = "updates", NEW u, NEW v, NEW g, ClaimFits(a, c, u, g),
         v.pc # "idle" => /\ u.pc # "idle" /\ v.id = u.id /\ v.fields = u.fields
                          /\ v.pc \in {"check", "lock"} => u.pc \in {"check", "lock"},
         v.pc \in {"truncate", "write"} => g[v.id] \in {NoOne, v.task.owner}
  PROVE  ClaimFits(a, c, v, g)
BY DEF ClaimFits

LEMMA CheckTaskClaims ==
  ASSUME Fits, Claimed, NEW a \in Agents, CheckTask(a)
  PROVE  Claimed'
<1>1. /\ UpdateOfOne(a)
      /\ update'[a] = NoUpdate \/ (update'[a].pc = "lock" /\ update'[a].id = update[a].id
                                   /\ update'[a].fields = update[a].fields)
  BY CheckTaskFits
<1>2. update[a].pc = "check" /\ call' = call /\ UNCHANGED <<files, claimant, raced>>
  BY DEF CheckTask
<1>3. call[a].pc = "updates" /\ CallOf(a) /\ NoUpdate.pc = "idle"
  BY <1>2, InUpdate, NoCallFits DEF CallOf, Fits, Typed
<1>4. Claims => ClaimFits(a, call[a], update'[a], claimant)
  BY <1>1, <1>2, <1>3, UpdateGoesOn DEF Claims
<1> QED
  BY <1>1, <1>2, <1>3, <1>4, ClaimsStay

LEMMA LockToUpdateClaims ==
  ASSUME Fits, Claimed, NEW a \in Agents, LockToUpdate(a)
  PROVE  Claimed'
<1>1. /\ UpdateOfOne(a) /\ CallOf(a)
      /\ \/ update'[a] = NoUpdate /\ call'[a] = NoCall
         \/ update'[a].pc = "read" /\ update'[a].id = update[a].id
            /\ update'[a].fields = update[a].fields /\ UNCHANGED call
  BY LockToUpdateFits
<1>2. update[a].pc = "lock" /\ UNCHANGED <<files, claimant, raced>>
  BY DEF LockToUpdate
<1>3. call[a].pc = "updates" /\ NoUpdate.pc = "idle"
  BY <1>2, InUpdate, NoCallFits
<1>4. CASE update'[a] = NoUpdate /\ call'[a] = NoCall
  <2>1. ClaimFits(a, call'[a], update'[a], claimant)
    BY <1>3, <1>4, NoneClaims, NoClaim
  <2> QED
    BY <1>1, <1>2, <2>1, ClaimsStay
<1>5. CASE update'[a].pc = "read" /\ update'[a].id = update[a].id
           /\ update'[a].fields = update[a].fields /\ call' = call
  <2>1. Claims => ClaimFits(a, call[a], update'[a], claimant)
    BY <1>2, <1>3, <1>5, UpdateGoesOn DEF Claims
  <2> QED
    BY <1>1, <1>2, <1>5, <2>1, ClaimsStay
<1> QED
  BY <1>1, <1>4, <1>5

LEMMA ReadToUpdateClaims ==
  ASSUME Fits, Claimed, NEW a \in Agents, ReadToUpdate(a)
  PROVE  Claimed'
<1>1. /\ UpdateOfOne(a)
      /\ \/ update'[a] = NoUpdate
         \/ /\ update'[a].pc = "truncate" /\ update'[a].id = update[a].id
            /\ update'[a].fields = update[a].fields /\ update[a].id \in Readable
            /\ update'[a].task = files[update[a].id]
  BY ReadToUpdateFits
<1>2. update[a].pc = "read" /\ call' = call /\ UNCHANGED <<files, claimant, raced>>
  BY DEF ReadToUpdate
<1>3. call[a].pc = "updates" /\ CallOf(a) /\ NoUpdate.pc = "idle"
  BY <1>2, InUpdate, NoCallFits DEF CallOf, Fits, Typed
<1>4. ASSUME Claims PROVE ClaimFits(a, call[a], update'[a], claimant)
  <2>1. CASE update'[a] = NoUpdate
    BY <1>3, <1>4, <2>1, UpdateGoesOn DEF Claims
  <2>2. CASE /\ update'[a].pc = "truncate" /\ update'[a].id = update[a].id
             /\ update'[a].fields = update[a].fields /\ update[a].id \in Readable
             /\ update'[a].task = files[update[a].id]
    <3>1. claimant[update'[a].id] \in {NoOne, update'[a].task.owner}
      BY <1>4, <2>2 DEF Claims, ClaimantOwns
    <3> QED
      BY <1>2, <1>3, <1>4, <2>2, <3>1, UpdateGoesOn DEF Claims
  <2> QED
    BY <1>1, <2>1, <2>2
<1> QED
  BY <1>1, <1>2, <1>3, <1>4, ClaimsStay

LEMMA TruncateClaims ==
  ASSUME Fits, Claimed, NEW a \in Agents, TruncateToUpdate(a)
  PROVE  Claimed'
<1>1. /\ UpdateOfOne(a)
      /\ update'[a].pc = "write" /\ update'[a].id = update[a].id
      /\ update'[a].fields = update[a].fields /\ update'[a].task = update[a].task
  BY TruncateFits
<1>2. /\ update[a].pc = "truncate" /\ Write(update[a].id, Torn) /\ call' = call
      /\ UNCHANGED <<claimant, raced>>
  BY DEF TruncateToUpdate
<1>3. call[a].pc = "updates" /\ CallOf(a)
  BY <1>2, InUpdate DEF CallOf, Fits, Typed
<1>4. ASSUME Claims PROVE ClaimFits(a, call'[a], update'[a], claimant')
  <2>1. claimant[update'[a].id] \in {NoOne, update'[a].task.owner}
    BY <1>1, <1>2, <1>4 DEF Claims, ClaimFits
  <2>2. ClaimFits(a, call[a], update'[a], claimant)
    BY <1>1, <1>2, <1>3, <1>4, <2>1, UpdateGoesOn DEF Claims
  <2> QED
    BY <1>2, <2>2
<1>5. \A i \in Readable' : i \in Readable /\ files'[i] = files[i]
  BY <1>2 DEF Write, Readable
<1>6. \A i \in Ids : claimant'[i] \in {claimant[i], NoOne}
  BY <1>2
<1> QED
  BY <1>1, <1>2, <1>3, <1>4, <1>5, <1>6, ClaimsOn

\* What another agent knows of the claims when agent a, who holds the lock of task n,
\* claims it.
LEMMA OthersFit ==
  ASSUME Fits, Claims, Apart, NEW a \in Agents, NEW n \in Ids, taskLock[n] = a,
         call[a].kind = "claim", NEW b \in Agents \ {a}, NEW g,
         \A i \in Ids \ {n} : g[i] = claimant[i]
  PROVE  ClaimFits(b, call[b], update[b], g)
<1> DEFINE c == call[b]
           u == update[b]
<1>1. CallFits(c) /\ (u.pc # "idle" => u.id \in Ids) /\ ClaimFits(b, c, u, claimant)
  BY InUpdate DEF Fits, AgentFits, Claims
<1>2. ~HasTask(c, u, n)
  BY DEF Fits, AgentFits
<1>3. c.kind \notin {"start", "unassign"}
  BY DEF Apart, Races
<1> HIDE DEF c, u
<1>4. c.pc = "blockers" => g[c.id] \in {NoOne, b}
  <2> SUFFICES ASSUME c.pc = "blockers" PROVE g[c.id] \in {NoOne, b}
    OBVIOUS
  <2>1. c.id \in Ids /\ c.id # n
    BY <1>1, <1>2 DEF CallFits, HasTask
  <2> QED
    BY <1>1, <2>1 DEF ClaimFits
<1>5. u.pc \in {"truncate", "write"} => g[u.id] \in {NoOne, u.task.owner}
  <2> SUFFICES ASSUME u.pc \in {"truncate", "write"} PROVE g[u.id] \in {NoOne, u.task.owner}
    OBVIOUS
  <2>1. u.id \in Ids /\ u.id # n
    BY <1>1, <1>2 DEF HasTask
  <2> QED
    BY <1>1, <2>1 DEF ClaimFits
<1>6. u.pc # "idle" => OwnerFits(b, c, u.id, u.fields, g)
  <2> SUFFICES ASSUME u.pc # "idle", "owner" \in DOMAIN u.fields
               PROVE  OwnerFits(b, c, u.id, u.fields, g)
    BY DEF OwnerFits
  <2>1. OwnerFits(b, c, u.id, u.fields, claimant)
    BY <1>1 DEF ClaimFits
  <2>2. c.kind = "claim"
    BY <1>3, <2>1 DEF OwnerFits
  <2>3. u.pc \in {"read", "truncate", "write"}
    <3>1. u.pc \notin {"check", "lock"}
      BY <1>1, <2>2 DEF ClaimFits
    <3>2. UpdateFits(u)
      BY DEF Fits, AgentFits, u
    <3> QED
      BY <3>1, <3>2, NoCallFits DEF UpdateFits
  <2>4. u.id \in Ids /\ u.id # n
    BY <1>1, <1>2, <2>3 DEF HasTask
  <2> QED
    BY <2>1, <2>4 DEF OwnerFits
<1>7. ASSUME c.pc = "updates", NEW k \in DOMAIN c.todo
      PROVE  /\ OwnerFits(b, c, c.todo[k].id, c.todo[k].fields, g)
             /\ c.kind = "claim" => "owner" \notin DOMAIN c.todo[k].fields
  <2>1. /\ OwnerFits(b, c, c.todo[k].id, c.todo[k].fields, claimant)
        /\ c.kind = "claim" => "owner" \notin DOMAIN c.todo[k].fields
    BY <1>1, <1>7 DEF ClaimFits
  <2>2. "owner" \notin DOMAIN c.todo[k].fields
    BY <1>3, <2>1 DEF OwnerFits
  <2> QED
    BY <2>1, <2>2 DEF OwnerFits
<1>8. c.kind = "claim" /\ u.pc \in {"check", "lock"} => "owner" \notin DOMAIN u.fields
  BY <1>1 DEF ClaimFits
<1>9. ClaimFits(b, c, u, g)
  BY <1>4, <1>5, <1>6, <1>7, <1>8 DEF ClaimFits
<1> QED
  BY <1>9 DEF c, u

\* The update that writes: what it does to the task's claimant.
LEMMA WriteUpdateIs ==
  ASSUME Fits, NEW a \in Agents, WriteUpdate(a)
  PROVE  LET n == update[a].id
             f == update[a].fields
         IN /\ n \in Ids /\ taskLock[n] = a /\ update[a].pc = "write" /\ call[a].pc = "updates"
            /\ call' = call /\ overlap' = overlap /\ raced' = raced
            /\ \A i \in Ids \ {n} : claimant'[i] = claimant[i]
            /\ \A i \in Readable' \ {n} : i \in Readable /\ files'[i] = files[i]
            /\ claimant'[n] = CASE call[a].kind = "claim" /\ "owner" \in DOMAIN f -> a
                                [] call[a].kind = "unassign" /\ claimant[n] = call[a].other -> NoOne
                                [] OTHER -> claimant[n]
            /\ n \in DOMAIN files'
            /\ files'[n].owner = IF "owner" \in DOMAIN f THEN f["owner"] ELSE update[a].task.owner
<1> DEFINE n == update[a].id
           f == update[a].fields
           content == Over(f, update[a].task)
           who == ClaimantAfter(a, call[a])
<1>1. /\ update[a].pc = "write" /\ Write(n, content) /\ claimant' = [claimant EXCEPT ![n] = who]
      /\ UNCHANGED <<call, overlap, raced>>
  BY DEF WriteUpdate
<1>2. update[a].pc # "idle"
  BY <1>1
<1>3. /\ n \in Ids /\ IsFields(f) /\ update[a].task \in Task
      /\ call[a].pc = "updates"
      /\ \A i \in Ids : taskLock[i] = a <=>
           update[a].pc \in {"read", "truncate", "write"} /\ update[a].id = i
  BY <1>2, InUpdate
<1>4. taskLock[n] = a
  BY <1>1, <1>3
<1>5. content.owner = IF "owner" \in DOMAIN f THEN f["owner"] ELSE update[a].task.owner
  BY <1>3, OverTask
<1>6. who = CASE call[a].kind = "claim" /\ "owner" \in DOMAIN f -> a
              [] call[a].kind = "unassign" /\ claimant[n] = call[a].other -> NoOne
              [] OTHER -> claimant[n]
  BY DEF ClaimantAfter
<1> HIDE DEF n, f, content, who
<1>7. /\ n \in DOMAIN files' /\ files'[n] = content
      /\ \A i \in DOMAIN files' \ {n} : i \in DOMAIN files /\ files'[i] = files[i]
  BY <1>1 DEF Write
<1>8. claimant'[n] = who /\ \A i \in Ids \ {n} : claimant'[i] = claimant[i]
  BY <1>1, <1>3 DEF Fits, Typed
<1>9. \A i \in Readable' \ {n} : i \in Readable /\ files'[i] = files[i]
  BY <1>7 DEF Readable
<1> QED
  BY <1>1, <1>3, <1>4, <1>5, <1>6, <1>7, <1>8, <1>9 DEF n, f

LEMMA WriteUpdateClaims ==
  ASSUME Fits, KeptApart, Claimed, NEW a \in Agents, WriteUpdate(a)
  PROVE  Claimed'
<1> DEFINE n == update[a].id
           f == update[a].fields
<1>1. /\ n \in Ids /\ taskLock[n] = a /\ update[a].pc = "write" /\ call[a].pc = "updates"
      /\ call' = call /\ raced' = raced
      /\ \A i \in Ids \ {n} : claimant'[i] = claimant[i]
      /\ \A i \in Readable' \ {n} : i \in Readable /\ files'[i] = files[i]
      /\ n \in DOMAIN files'
  BY WriteUpdateIs
<1>2. claimant'[n] = CASE call[a].kind = "claim" /\ "owner" \in DOMAIN f -> a
                       [] call[a].kind = "unassign" /\ claimant[n] = call[a].other -> NoOne
                       [] OTHER -> claimant[n]
  BY WriteUpdateIs
<1>3. files'[n].owner = IF "owner" \in DOMAIN f THEN f["owner"] ELSE update[a].task.owner
  BY WriteUpdateIs
<1>4. UpdateOfOne(a) /\ update'[a] = NoUpdate /\ NoUpdate.pc = "idle"
  BY WriteUpdateFits, NoCallFits
<1>5. CallOf(a) /\ (\A i \in Readable : i \in Ids) /\ (\A i \in Readable' : i \in Ids)
  BY <1>1, WriteUpdateFits DEF CallOf, Fits, Typed, Readable
<1> HIDE DEF n, f
<1> SUFFICES ASSUME ~raced PROVE Claimed'
  BY <1>1 DEF Claimed
<1>6. /\ Claims /\ Apart
      /\ claimant[n] \in {NoOne, update[a].task.owner}
      /\ OwnerFits(a, call[a], n, f, claimant)
      /\ ClaimFits(a, call[a], update[a], claimant)
  <2>1. Claims /\ Apart /\ ClaimFits(a, call[a], update[a], claimant)
    BY DEF Claimed, KeptApart, Claims
  <2> QED
    BY <1>1, <2>1 DEF ClaimFits, n, f
<1>7. ASSUME claimant'[n] \in {NoOne, files'[n].owner} PROVE ClaimantOwns'
  <2> SUFFICES ASSUME NEW i \in Readable' PROVE claimant'[i] \in {NoOne, files'[i].owner}
    BY DEF ClaimantOwns
  <2>1. CASE i = n
    BY <1>7, <2>1
  <2>2. CASE i # n
    <3>1. i \in Ids /\ claimant'[i] = claimant[i] /\ i \in Readable /\ files'[i] = files[i]
      BY <1>1, <1>5, <2>2
    <3> QED
      BY <1>6, <3>1 DEF Claims, ClaimantOwns
  <2> QED
    BY <2>1, <2>2
<1>8. CASE call[a].kind = "claim" /\ "owner" \in DOMAIN f
  <2>1. f["owner"] = a
    BY <1>6, <1>8 DEF OwnerFits
  <2>2. claimant'[n] = a /\ files'[n].owner = a
    BY <1>2, <1>3, <1>8, <2>1
  <2>3. ClaimantOwns'
    BY <1>7, <2>2
  <2>4. ASSUME NEW b \in Agents \ {a} PROVE ClaimFits(b, call'[b], update'[b], claimant')
    <3>1. ClaimFits(b, call[b], update[b], claimant')
      BY <1>1, <1>6, <1>8, OthersFit
    <3> QED
      BY <1>1, <1>4, <3>1 DEF UpdateOfOne
  <2>5. ClaimFits(a, call'[a], update'[a], claimant')
    <3>1. \A k \in DOMAIN call[a].todo : "owner" \notin DOMAIN call[a].todo[k].fields
      BY <1>1, <1>6, <1>8 DEF ClaimFits
    <3> QED
      BY <1>1, <1>4, <3>1 DEF ClaimFits, OwnerFits
  <2>6. Claims'
    BY <2>3, <2>4, <2>5 DEF Claims
  <2> QED
    BY <2>6 DEF Claimed
<1>9. CASE ~(call[a].kind = "claim" /\ "owner" \in DOMAIN f)
  <2>1. claimant'[n] \in {claimant[n], NoOne}
    BY <1>2, <1>9
  <2>2. \A i \in Ids : claimant'[i] \in {claimant[i], NoOne}
    BY <1>1, <2>1
  <2>3. claimant'[n] \in {NoOne, files'[n].owner}
    <3>1. CASE "owner" \notin DOMAIN f
      BY <1>3, <1>6, <2>1, <3>1
    <3>2. CASE "owner" \in DOMAIN f
      <4>1. CASE call[a].kind = "start" /\ claimant[n] = NoOne
        BY <2>1, <4>1
      <4>2. CASE call[a].kind = "unassign" /\ claimant[n] \in {NoOne, call[a].other}
        BY <1>2, <4>2
      <4> QED
        BY <1>6, <1>9, <3>2, <4>1, <4>2 DEF OwnerFits
    <3> QED
      BY <3>1, <3>2
  <2>4. ClaimFits(a, call[a], update[a], claimant')
    <3>1. CallFits(call[a]) /\ UpdateFits(update[a]) /\ update[a].id \in Ids
      BY <1>1 DEF Fits, AgentFits, n
    <3> QED
      BY <1>6, <2>2, <3>1, ClaimsTakenBack
  <2>5. ClaimFits(a, call'[a], update'[a], claimant')
    BY <1>1, <1>4, <2>4, UpdateGoesOn
  <2> QED
    BY <1>1, <1>4, <1>5, <1>7, <2>2, <2>3, <2>5, ClaimsOnWith
<1> QED
  BY <1>8, <1>9

LEMMA NextUpdateClaims ==
  ASSUME Fits, Claimed, NEW a \in Agents, NextUpdate(a)
  PROVE  Claimed'
<1>1. /\ UpdateOfOne(a) /\ CallOf(a)
      /\ \/ call'[a] = NoCall /\ update'[a] = NoUpdate
         \/ /\ update'[a].pc = "check" /\ 1 \in DOMAIN call[a].todo
            /\ update'[a].id = call[a].todo[1].id
            /\ update'[a].fields = call[a].todo[1].fields
            /\ call'[a].kind = call[a].kind /\ call'[a].other = call[a].other
            /\ call'[a].pc = "updates"
            /\ \A n \in DOMAIN call'[a].todo : n + 1 \in DOMAIN call[a].todo
                                               /\ call'[a].todo[n] = call[a].todo[n + 1]
  BY NextUpdateFits
<1>2. call[a].pc = "updates" /\ UNCHANGED <<files, claimant, raced>>
  BY DEF NextUpdate
<1>3. ASSUME Claims PROVE ClaimFits(a, call'[a], update'[a], claimant)
  <2>1. CASE call'[a] = NoCall /\ update'[a] = NoUpdate
    BY <2>1, NoneClaims, NoCallFits, NoClaim
  <2>2. CASE /\ update'[a].pc = "check" /\ 1 \in DOMAIN call[a].todo
             /\ update'[a].id = call[a].todo[1].id
             /\ update'[a].fields = call[a].todo[1].fields
             /\ call'[a].kind = call[a].kind /\ call'[a].other = call[a].other
             /\ call'[a].pc = "updates"
             /\ \A n \in DOMAIN call'[a].todo : n + 1 \in DOMAIN call[a].todo
                                                /\ call'[a].todo[n] = call[a].todo[n + 1]
    <3>1. \A n \in DOMAIN call[a].todo :
            /\ OwnerFits(a, call[a], call[a].todo[n].id, call[a].todo[n].fields, claimant)
            /\ call[a].kind = "claim" => "owner" \notin DOMAIN call[a].todo[n].fields
      BY <1>2, <1>3 DEF Claims, ClaimFits
    <3>2. \A i : \A g : OwnerFits(a, call[a], i, g, claimant) => OwnerFits(a, call'[a], i, g, claimant)
      BY <2>2 DEF OwnerFits
    <3>3. \A n \in DOMAIN call'[a].todo :
            /\ OwnerFits(a, call'[a], call'[a].todo[n].id, call'[a].todo[n].fields, claimant)
            /\ call'[a].kind = "claim" => "owner" \notin DOMAIN call'[a].todo[n].fields
      BY <2>2, <3>1, <3>2
    <3>4. /\ OwnerFits(a, call'[a], update'[a].id, update'[a].fields, claimant)
          /\ call'[a].kind = "claim" => "owner" \notin DOMAIN update'[a].fields
      BY <2>2, <3>1, <3>2
    <3> QED
      BY <2>2, <3>3, <3>4 DEF ClaimFits
  <2> QED
    BY <1>1, <2>1, <2>2
<1> QED
  BY <1>1, <1>2, <1>3, ClaimsStay

-----------------------------------------------------------------------------

LEMMA MakesCallClaims ==
  ASSUME Fits, Claimed, NEW a \in Agents, MakesCall(a)
  PROVE  Claimed'
<1>1. /\ CallOf(a) /\ update[a] = NoUpdate /\ UNCHANGED <<files, update, claimant>>
      /\ call'[a].kind \in AllKinds /\ call'[a].pc = Entry(call'[a].kind)
      /\ raced' \/ ~raced
  BY MakesCallFits
<1>2. UpdateOfOne(a) /\ update'[a].pc = "idle"
  BY <1>1, IdleUpdate
<1>3. call'[a].pc \notin {"blockers", "updates"}
  BY <1>1 DEF Entry, AllKinds
<1>4. ClaimFits(a, call'[a], update'[a], claimant)
  BY <1>2, <1>3, NoClaim
<1> QED
  BY <1>1, <1>2, <1>4, ClaimsStay

LEMMA ClaimedInit == Init => Claimed
<1> SUFFICES ASSUME Init PROVE Claims
  BY DEF Claimed
<1>1. /\ \A a \in Agents : call[a] = NoCall /\ update[a] = NoUpdate
      /\ DOMAIN files = 1 .. InitialTasks /\ claimant = [i \in Ids |-> NoOne]
  BY DEF Init
<1>2. \A a \in Agents : ClaimFits(a, call[a], update[a], claimant)
  BY <1>1, NoneClaims, NoCallFits, NoClaim
<1>3. ClaimantOwns
  <2>1. \A i \in Readable : i \in Ids
    BY <1>1, TaskListAssumption DEF Readable, Ids
  <2> QED
    BY <1>1, <2>1 DEF ClaimantOwns
<1> QED
  BY <1>2, <1>3 DEF Claims

LEMMA ClaimedNext == Fits /\ KeptApart /\ Claimed /\ [Next]_vars => Claimed'
<1> SUFFICES ASSUME Fits, KeptApart, Claimed, [Next]_vars PROVE Claimed'
  OBVIOUS
<1>1. CASE UNCHANGED vars
  <2>1. UNCHANGED <<files, call, update, claimant, raced>>
    BY <1>1 DEF vars
  <2> QED
    BY <2>1 DEF Claimed, Claims, ClaimantOwns, Readable
<1>2. ASSUME NEW a \in Agents, Kill(a) PROVE Claimed'
  <2>1. CallOf(a) /\ call'[a] = NoCall /\ UpdateOfOne(a) /\ update'[a] = NoUpdate
    BY <1>2, KillFits
  <2>2. UNCHANGED <<files, claimant, raced>>
    BY <1>2 DEF Kill
  <2>3. ClaimFits(a, call'[a], update'[a], claimant)
    BY <2>1, NoneClaims, NoCallFits, NoClaim
  <2> QED
    BY <2>1, <2>2, <2>3, ClaimsStay
<1>3. ASSUME NEW a \in Agents, UpdateStep(a) PROVE Claimed'
  BY <1>3, CheckTaskClaims, LockToUpdateClaims, ReadToUpdateClaims, TruncateClaims,
     WriteUpdateClaims, NextUpdateClaims DEF UpdateStep
<1> QED
  BY <1>1, <1>2, <1>3, NumberingClaims, ClaimClaims, UnlockedClaims, MakesCallClaims
     DEF Next, AgentStep

\* A step claims no task that another has claimed.
LEMMA ClaimStepOnce ==
  ASSUME Fits, Claimed, [Next]_vars, NEW i \in Ids, claimant'[i] # claimant[i],
         claimant'[i] # NoOne, ~raced
  PROVE  claimant[i] = NoOne
<1>1. \E a \in Agents : WriteUpdate(a) \/ FillFile(a)
  <2>1. claimant' # claimant
    OBVIOUS
  <2>2. PICK a \in Agents : AgentStep(a) \/ MakesCall(a) \/ Kill(a)
    BY <2>1 DEF Next, vars
  <2>3. AgentStep(a)
    BY <2>1, <2>2 DEF MakesCall, Begin, Kill
  <2>4. CASE UpdateStep(a)
    BY <2>1, <2>4 DEF UpdateStep, CheckTask, LockToUpdate, ReadToUpdate, TruncateToUpdate,
                      NextUpdate
  <2>5. CASE NumberingStep(a)
    <3>1. ~LockList(a) /\ ~ReadFiles(a) /\ ~MarkFirst(a) /\ ~ReadMark(a)
      BY <2>1 DEF LockList, ReadFiles, MarkFirst, ReadMark
    <3>2. ~EmptyMark(a) /\ ~WriteMark(a) /\ ~CreateFile(a) /\ ~CheckAllDone(a)
      BY <2>1 DEF EmptyMark, WriteMark, CreateFile, CheckAllDone
    <3>3. ~ListToUnlink(a) /\ ~UnlinkNext(a) /\ ~EndReset(a)
      BY <2>1 DEF ListToUnlink, UnlinkNext, EndReset
    <3> QED
      BY <2>5, <3>1, <3>2, <3>3 DEF NumberingStep
  <2>6. CASE ClaimStep(a) \/ UnlockedStep(a)
    BY <2>1, <2>6 DEF ClaimStep, ListToClaim, CheckExists, LockToClaim, CheckOwner,
                      CheckBlockers, UnlockedStep, ReadToSet, ReadToDelete, UnlinkTask,
                      ListReferences, ReadToBlock, ListToUnassign
  <2> QED
    BY <2>3, <2>4, <2>5, <2>6 DEF AgentStep
<1>2. ASSUME NEW a \in Agents, FillFile(a) PROVE FALSE
  <2>1. claimant' = [claimant EXCEPT ![call[a].id] = NoOne]
    BY <1>2 DEF FillFile
  <2> QED
    BY <2>1 DEF Fits, Typed
<1>3. ASSUME NEW a \in Agents, WriteUpdate(a) PROVE claimant[i] = NoOne
  <2> DEFINE n == update[a].id
             f == update[a].fields
  <2>1. /\ update[a].pc = "write"
        /\ \A j \in Ids \ {n} : claimant'[j] = claimant[j]
        /\ claimant'[n] = CASE call[a].kind = "claim" /\ "owner" \in DOMAIN f -> a
                            [] call[a].kind = "unassign" /\ claimant[n] = call[a].other -> NoOne
                            [] OTHER -> claimant[n]
    BY <1>3, WriteUpdateIs
  <2>2. ClaimFits(a, call[a], update[a], claimant)
    BY DEF Claimed, Claims
  <2>3. OwnerFits(a, call[a], n, f, claimant)
    BY <2>1, <2>2 DEF ClaimFits
  <2> HIDE DEF n, f
  <2>4. i = n
    BY <2>1
  <2>5. claimant'[n] = a /\ call[a].kind = "claim" /\ "owner" \in DOMAIN f
    BY <2>1, <2>4
  <2> QED
    BY <2>3, <2>4, <2>5 DEF OwnerFits
<1> QED
  BY <1>1, <1>2, <1>3

\* No two agents claim the same task, for any number of agents, calls and kills: not
\* while the first lives, and not before its claim is taken back once it is gone.  This
\* holds whatever creates, completes, blocks, deletes and resets cross the claims, and as
\* long as no claim has been under way together with a start or an unassign, which write
\* the owner they decided on before the lock.  (claimTask)
THEOREM ClaimedByOne == Spec => ClaimedOnce
<1>1. Fits /\ Claimed /\ [Next]_vars =>
        [\A i \in Ids : claimant'[i] # claimant[i] /\ claimant'[i] # NoOne =>
           raced \/ claimant[i] = NoOne]_vars
  <2>1. ASSUME Fits, Claimed, [Next]_vars
        PROVE  \A i \in Ids : claimant'[i] # claimant[i] /\ claimant'[i] # NoOne =>
                 raced \/ claimant[i] = NoOne
    BY <2>1, ClaimStepOnce
  <2> QED
    BY <2>1
<1> QED
  BY <1>1, FitsInit, FitsNext, ApartInit, ApartNext, ClaimedInit, ClaimedNext, PTL
     DEF Spec, ClaimedOnce

-----------------------------------------------------------------------------
(* What links tasks, and what an agent is still going to do about it.      *)

\* The fields that link a task to others.
Linking == {"blocks", "blockedBy"}

\* An agent in call c and update u is going to set field f of task i to S.
Sets(c, u, i, f, S) ==
  \/ u.pc # "idle" /\ u.id = i /\ f \in DOMAIN u.fields /\ u.fields[f] = S
  \/ /\ c.pc = "updates"
     /\ \E n \in DOMAIN c.todo :
          c.todo[n].id = i /\ f \in DOMAIN c.todo[n].fields /\ c.todo[n].fields[f] = S

\* Calls that link tasks set one of these fields with each update, the others never do.
Linker(kind) == kind \in {"delete", "block"}
FieldsFit(kind, fields) == Linker(kind) <=> DOMAIN fields \cap Linking # {}

SetsFit(c, u) ==
  /\ u.pc # "idle" => FieldsFit(c.kind, u.fields)
  /\ c.pc = "updates" => \A n \in DOMAIN c.todo : FieldsFit(c.kind, c.todo[n].fields)

LinkFields == \A a \in Agents : SetsFit(call[a], update[a])

LEMMA NothingSet ==
  ASSUME NEW c, c.pc # "updates", NEW u, u.pc = "idle"
  PROVE  SetsFit(c, u) /\ \A i, f, S : ~Sets(c, u, i, f, S)
BY DEF SetsFit, Sets

\* Who does not link sets no link.
LEMMA NoLinkSet ==
  ASSUME NEW c, NEW u, SetsFit(c, u), ~Linker(c.kind)
  PROVE  \A i, f, S : f \in Linking => ~Sets(c, u, i, f, S)
<1> SUFFICES ASSUME NEW i, NEW f \in Linking, NEW S, Sets(c, u, i, f, S) PROVE FALSE
  OBVIOUS
<1>1. CASE u.pc # "idle" /\ f \in DOMAIN u.fields
  BY <1>1 DEF SetsFit, FieldsFit
<1>2. CASE c.pc = "updates" /\ \E n \in DOMAIN c.todo : f \in DOMAIN c.todo[n].fields
  BY <1>2 DEF SetsFit, FieldsFit
<1> QED BY <1>1, <1>2 DEF Sets

LEMMA UpdatesTodo ==
  ASSUME Fits, NEW a \in Agents, NEW todo, Updates(a, todo)
  PROVE  /\ CallOf(a) /\ call'[a].pc = "updates" /\ call'[a].todo = todo
         /\ call'[a].kind = call[a].kind /\ call'[a].id = call[a].id
         /\ call'[a].high = call[a].high
<1>1. CallFits(call[a]) /\ DOMAIN call = Agents
  BY DEF Fits, AgentFits, Typed
<1> QED BY <1>1 DEF Updates, CallOf, CallFits

LEMMA IdleWithoutUpdate == NoUpdate.pc = "idle" /\ NoCall.pc = "idle" /\ NoCall.kind = "none"
BY NoCallFits

LEMMA LinkFieldsOn ==
  ASSUME LinkFields, NEW a \in Agents, CallOf(a), UpdateOfOne(a), SetsFit(call'[a], update'[a])
  PROVE  LinkFields'
BY DEF LinkFields, CallOf, UpdateOfOne

\* The steps outside an update that do not go on to updates.
LEMMA OutsideSets ==
  ASSUME Fits, LinkFields, NEW a \in Agents, CallOf(a), update[a] = NoUpdate, UNCHANGED update,
         call'[a].pc # "updates"
  PROVE  LinkFields'
<1>1. UpdateOfOne(a) /\ update'[a].pc = "idle"
  BY IdleWithoutUpdate DEF UpdateOfOne, Fits, Typed
<1> QED BY <1>1, NothingSet, LinkFieldsOn

LEMMA NumberingSets ==
  ASSUME Fits, LinkFields, NEW a \in Agents, NumberingStep(a), update[a] = NoUpdate
  PROVE  LinkFields'
<1>1. UNCHANGED update
  BY DEF NumberingStep, LockList, ReadFiles, MarkFirst, ReadMark, EmptyMark, WriteMark,
         CreateFile, FillFile, ListToUnlink, UnlinkNext, EndReset, CheckAllDone
<1>2. CallFits(call[a])
  BY DEF Fits, AgentFits
<1>3. CallOf(a) /\ call'[a].pc # "updates"
  <2>1. CASE LockList(a)
    BY <2>1, LockListFits
  <2>2. CASE ReadFiles(a)
    <3>1. call[a].pc \in {"files", "files only"}
      BY <2>2 DEF ReadFiles
    <3> QED BY <2>2, <3>1, ReadFilesFits
  <2>3. CASE MarkFirst(a)
    BY <2>3, MarkFirstFits
  <2>4. CASE ReadMark(a)
    BY <2>4, ReadMarkFits
  <2>5. CASE EmptyMark(a) \/ WriteMark(a)
    BY <2>5, EmptyMarkFits, WriteMarkFits
  <2>6. CASE CreateFile(a)
    BY <2>6, CreateFileFits
  <2>7. CASE FillFile(a)
    BY <2>7, FillFileFits, IdleWithoutUpdate
  <2>8. CASE ListToUnlink(a) \/ UnlinkNext(a) \/ EndReset(a)
    BY <2>8, ListToUnlinkFits, UnlinkNextFits, EndResetFits, IdleWithoutUpdate
  <2>9. CASE CheckAllDone(a)
    BY <2>9, CheckAllDoneFits, IdleWithoutUpdate
  <2> QED BY <2>1, <2>2, <2>3, <2>4, <2>5, <2>6, <2>7, <2>8, <2>9 DEF NumberingStep
<1> QED BY <1>1, <1>3, OutsideSets

LEMMA ClaimSets ==
  ASSUME Fits, LinkFields, NEW a \in Agents, ClaimStep(a), update[a] = NoUpdate
  PROVE  LinkFields'
<1>1. CASE CheckBlockers(a)
  <2>1. /\ CallOf(a) /\ UpdateOfOne(a)
        /\ \/ call'[a] = NoCall /\ update'[a] = NoUpdate
           \/ /\ call'[a].pc = "updates" /\ call'[a].kind = call[a].kind
              /\ call'[a].todo = <<UpdateOf(call[a].id, [status |-> "in_progress"])>>
              /\ update'[a].pc = "read" /\ update'[a].id = call[a].id
              /\ update'[a].fields = [owner |-> a]
    BY <1>1, CheckBlockersFits
  <2>2. CASE call'[a] = NoCall /\ update'[a] = NoUpdate
    BY <2>1, <2>2, IdleWithoutUpdate, NothingSet, LinkFieldsOn
  <2>3. CASE /\ call'[a].pc = "updates" /\ call'[a].kind = call[a].kind
             /\ call'[a].todo = <<UpdateOf(call[a].id, [status |-> "in_progress"])>>
             /\ update'[a].fields = [owner |-> a]
    <3>1. call[a].kind = "claim"
      <4>1. CallFits(call[a]) /\ call[a].pc = "blockers"
        BY <1>1 DEF Fits, AgentFits, CheckBlockers
      <4> QED BY <4>1, PlaceKinds
    <3>2. FieldsFit("claim", [owner |-> a]) /\ FieldsFit("claim", [status |-> "in_progress"])
      BY DEF FieldsFit, Linking, Linker
    <3>3. \A n \in DOMAIN call'[a].todo : call'[a].todo[n].fields = [status |-> "in_progress"]
      BY <2>3 DEF UpdateOf
    <3>4. SetsFit(call'[a], update'[a])
      BY <2>3, <3>1, <3>2, <3>3 DEF SetsFit
    <3> QED BY <2>1, <3>4, LinkFieldsOn
  <2> QED BY <2>1, <2>2, <2>3
<1>2. CASE ListToClaim(a) \/ CheckExists(a) \/ LockToClaim(a) \/ CheckOwner(a)
  <2>1. UNCHANGED update
    BY <1>2 DEF ListToClaim, CheckExists, LockToClaim, CheckOwner
  <2>2. CallOf(a) /\ (call'[a] = NoCall \/ call'[a].pc \in {"exists", "task lock", "owner", "blockers"})
    BY <1>2, ListToClaimFits, CheckExistsFits, LockToClaimFits, CheckOwnerFits
  <2>3. call'[a].pc # "updates"
    BY <2>2, IdleWithoutUpdate
  <2> QED BY <2>1, <2>2, <2>3, OutsideSets
<1> QED BY <1>1, <1>2 DEF ClaimStep

\* A TaskUpdate sets no links.
LEMMA FieldsToSetFit ==
  ASSUME NEW a \in Agents, NEW t
  PROVE  DOMAIN FieldsToSet(a, t) \subseteq {"owner", "status"}
<1> DEFINE status == IF call[a].kind = "complete" THEN "completed" ELSE "in_progress"
           s == IF status = t.status THEN <<>> ELSE [status |-> status]
           o == IF call[a].kind = "start" /\ t.owner = NoOne THEN [owner |-> a] ELSE <<>>
<1>1. DOMAIN <<>> = {}
  OBVIOUS
<1>2. DOMAIN s \subseteq {"status"}
  <2> HIDE DEF status
  <2> QED BY <1>1
<1>3. DOMAIN o \subseteq {"owner"}
  BY <1>1
<1>4. FieldsToSet(a, t) = [x \in DOMAIN s \cup DOMAIN o |-> IF x \in DOMAIN s THEN s[x] ELSE o[x]]
  BY DEF FieldsToSet, Over
<1> HIDE DEF s, o
<1> QED BY <1>2, <1>3, <1>4

\* What is made of the ids of a listing.
LEMMA ListedAll ==
  ASSUME NEW ids
  PROVE  \A n \in DOMAIN InOrder(ids) : InOrder(ids)[n] \in ids
<1>1. InOrder(ids) \in Seq(ids)
  BY InOrderIs
<1> QED BY <1>1, LenProperties

LEMMA UpdatesSet ==
  ASSUME Fits, LinkFields, NEW a \in Agents, NEW todo, Updates(a, todo), update[a] = NoUpdate,
         UNCHANGED update, \A n \in DOMAIN todo : FieldsFit(call[a].kind, todo[n].fields)
  PROVE  LinkFields'
<1>1. CallOf(a) /\ call'[a].todo = todo /\ call'[a].kind = call[a].kind
  BY UpdatesTodo
<1>2. UpdateOfOne(a) /\ update'[a].pc = "idle"
  BY IdleWithoutUpdate DEF UpdateOfOne, Fits, Typed
<1> QED BY <1>1, <1>2, LinkFieldsOn DEF SetsFit

LEMMA UnlockedSets ==
  ASSUME Fits, LinkFields, NEW a \in Agents, UnlockedStep(a), update[a] = NoUpdate
  PROVE  LinkFields'
<1>0. UNCHANGED update
  BY DEF UnlockedStep, ReadToSet, ReadToDelete, UnlinkTask, ListReferences, ReadToBlock,
         ListToUnassign
<1>1. CallFits(call[a])
  BY DEF Fits, AgentFits
<1>2. ASSUME Ends(a) PROVE LinkFields'
  <2>1. CallOf(a) /\ call'[a] = NoCall
    BY <1>2, EndsFits DEF Ends
  <2> QED BY <1>0, <2>1, IdleWithoutUpdate, OutsideSets
<1>3. CASE ReadToSet(a)
  <2> DEFINE t == files[call[a].id]
             todo == <<UpdateOf(call[a].id, FieldsToSet(a, t))>>
  <2>1. call[a].pc = "read" /\ (Updates(a, todo) \/ Ends(a))
    BY <1>3 DEF ReadToSet
  <2>2. ~Linker(call[a].kind)
    BY <1>1, <2>1, PlaceKinds DEF Linker
  <2>3. \A n \in DOMAIN todo : todo[n].fields = FieldsToSet(a, t)
    BY DEF UpdateOf
  <2>4. FieldsFit(call[a].kind, FieldsToSet(a, t))
    BY <2>2, FieldsToSetFit DEF FieldsFit, Linking
  <2>5. \A n \in DOMAIN todo : FieldsFit(call[a].kind, todo[n].fields)
    BY <2>3, <2>4
  <2> HIDE DEF todo
  <2> QED BY <1>0, <1>2, <2>1, <2>5, UpdatesSet
<1>4. CASE ReadToDelete(a) \/ UnlinkTask(a)
  <2>1. CallOf(a) /\ (call'[a] = NoCall \/ call'[a].pc \in {"mark", "list references"})
    BY <1>4, ReadToDeleteFits, UnlinkTaskFits
  <2>2. call'[a].pc # "updates"
    BY <2>1, IdleWithoutUpdate
  <2> QED BY <1>0, <2>1, <2>2, OutsideSets
<1>5. CASE ListReferences(a)
  <2> DEFINE i == call[a].id
             refer == {j \in Readable : i \in files[j].blocks \cup files[j].blockedBy}
             todo == [n \in DOMAIN InOrder(refer) |->
                        UpdateOf(InOrder(refer)[n], Without(files[InOrder(refer)[n]], i))]
  <2>1. call[a].pc = "list references" /\ Updates(a, todo)
    BY <1>5 DEF ListReferences
  <2>2. Linker(call[a].kind)
    BY <1>1, <2>1, PlaceKinds DEF Linker
  <2>3. \A n \in DOMAIN todo : FieldsFit(call[a].kind, todo[n].fields)
    BY <2>2 DEF UpdateOf, Without, FieldsFit, Linking
  <2> HIDE DEF todo
  <2> QED BY <1>0, <2>1, <2>3, UpdatesSet
<1>6. CASE ReadToBlock(a)
  <2> DEFINE from == call[a].id
             to == call[a].high
             e == UpdateOf(from, [blocks |-> files[from].blocks \cup {to}])
             d == UpdateOf(to, [blockedBy |-> files[to].blockedBy \cup {from}])
             todo == (IF to \in files[from].blocks THEN <<>> ELSE <<e>>) \o
                     (IF from \in files[to].blockedBy THEN <<>> ELSE <<d>>)
  <2>1. call[a].pc = "read both" /\ (Updates(a, todo) \/ Ends(a))
    BY <1>6 DEF ReadToBlock
  <2>2. Linker(call[a].kind)
    BY <1>1, <2>1, PlaceKinds DEF Linker
  <2>3. FieldsFit(call[a].kind, e.fields) /\ FieldsFit(call[a].kind, d.fields)
    BY <2>2 DEF UpdateOf, FieldsFit, Linking
  <2> HIDE DEF e, d
  <2>4. \A n \in DOMAIN todo : todo[n] \in {e, d}
    OBVIOUS
  <2> HIDE DEF todo
  <2>5. \A n \in DOMAIN todo : FieldsFit(call[a].kind, todo[n].fields)
    BY <2>3, <2>4
  <2> QED BY <1>0, <1>2, <2>1, <2>5, UpdatesSet
<1>7. CASE ListToUnassign(a)
  <2> DEFINE open == {i \in Unresolved : files[i].owner = call[a].other}
             todo == [n \in DOMAIN InOrder(open) |->
                        UpdateOf(InOrder(open)[n], [owner |-> NoOne, status |-> "pending"])]
  <2>1. call[a].pc = "list open" /\ Updates(a, todo)
    BY <1>7 DEF ListToUnassign
  <2>2. ~Linker(call[a].kind)
    BY <1>1, <2>1, PlaceKinds DEF Linker
  <2>3. \A n \in DOMAIN todo : FieldsFit(call[a].kind, todo[n].fields)
    BY <2>2 DEF UpdateOf, FieldsFit, Linking
  <2> HIDE DEF todo
  <2> QED BY <1>0, <2>1, <2>3, UpdatesSet
<1> QED BY <1>3, <1>4, <1>5, <1>6, <1>7 DEF UnlockedStep

\* An update sets the fields it was given.
LEMMA UpdateSets ==
  ASSUME Fits, LinkFields, NEW a \in Agents, UpdateStep(a)
  PROVE  LinkFields'
<1>0. SetsFit(call[a], update[a])
  BY DEF LinkFields
<1>1. ASSUME call' = call, call[a].pc = "updates", UpdateOfOne(a),
             update'[a] = NoUpdate \/ (update[a].pc # "idle" /\ update'[a].fields = update[a].fields)
      PROVE  LinkFields'
  <2>1. CallOf(a)
    BY <1>1 DEF CallOf, Fits, Typed
  <2>2. SetsFit(call'[a], update'[a])
    BY <1>0, <1>1, IdleWithoutUpdate DEF SetsFit
  <2> QED BY <1>1, <2>1, <2>2, LinkFieldsOn
<1>2. CASE CheckTask(a) \/ ReadToUpdate(a) \/ TruncateToUpdate(a) \/ WriteUpdate(a)
  <2>1. call' = call /\ update[a].pc # "idle"
    BY <1>2 DEF CheckTask, ReadToUpdate, TruncateToUpdate, WriteUpdate
  <2>2. call[a].pc = "updates"
    BY <2>1, InUpdate
  <2>3. UpdateOfOne(a) /\ (update'[a] = NoUpdate \/ update'[a].fields = update[a].fields)
    BY <1>2, CheckTaskFits, ReadToUpdateFits, TruncateFits, WriteUpdateFits
  <2> QED BY <1>1, <2>1, <2>2, <2>3
<1>3. CASE LockToUpdate(a)
  <2>1. update[a].pc # "idle"
    BY <1>3 DEF LockToUpdate
  <2>2. call[a].pc = "updates"
    BY <2>1, InUpdate
  <2>3. /\ UpdateOfOne(a) /\ CallOf(a)
        /\ \/ update'[a] = NoUpdate /\ call'[a] = NoCall
           \/ update'[a].fields = update[a].fields /\ UNCHANGED call
    BY <1>3, LockToUpdateFits
  <2>4. CASE update'[a] = NoUpdate /\ call'[a] = NoCall
    BY <2>3, <2>4, IdleWithoutUpdate, NothingSet, LinkFieldsOn
  <2> QED BY <1>1, <2>1, <2>2, <2>3, <2>4
<1>4. CASE NextUpdate(a)
  <2>1. /\ UpdateOfOne(a) /\ CallOf(a)
        /\ \/ call'[a] = NoCall /\ update'[a] = NoUpdate
           \/ /\ 1 \in DOMAIN call[a].todo /\ update'[a].fields = call[a].todo[1].fields
              /\ call'[a].kind = call[a].kind
              /\ \A n \in DOMAIN call'[a].todo : n + 1 \in DOMAIN call[a].todo
                                                 /\ call'[a].todo[n] = call[a].todo[n + 1]
    BY <1>4, NextUpdateFits
  <2>2. call[a].pc = "updates"
    BY <1>4 DEF NextUpdate
  <2>3. \A n \in DOMAIN call[a].todo : FieldsFit(call[a].kind, call[a].todo[n].fields)
    BY <1>0, <2>2 DEF SetsFit
  <2>4. CASE call'[a] = NoCall /\ update'[a] = NoUpdate
    BY <2>1, <2>4, IdleWithoutUpdate, NothingSet, LinkFieldsOn
  <2>5. CASE /\ 1 \in DOMAIN call[a].todo /\ update'[a].fields = call[a].todo[1].fields
             /\ call'[a].kind = call[a].kind
             /\ \A n \in DOMAIN call'[a].todo : n + 1 \in DOMAIN call[a].todo
                                                /\ call'[a].todo[n] = call[a].todo[n + 1]
    <3>1. SetsFit(call'[a], update'[a])
      BY <2>3, <2>5 DEF SetsFit
    <3> QED BY <2>1, <3>1, LinkFieldsOn
  <2> QED BY <2>1, <2>4, <2>5
<1> QED BY <1>2, <1>3, <1>4 DEF UpdateStep

LEMMA LinkFieldsNext == Fits /\ LinkFields /\ [Next]_vars => LinkFields'
<1> SUFFICES ASSUME Fits, LinkFields, [Next]_vars PROVE LinkFields'
  OBVIOUS
<1>1. CASE UNCHANGED vars
  BY <1>1 DEF vars, LinkFields
<1>2. ASSUME NEW a \in Agents, MakesCall(a) PROVE LinkFields'
  <2>1. /\ CallOf(a) /\ update[a] = NoUpdate /\ UNCHANGED update
        /\ call'[a].kind \in AllKinds /\ call'[a].pc = Entry(call'[a].kind)
    BY <1>2, MakesCallFits
  <2>2. call'[a].pc # "updates"
    BY <2>1 DEF Entry, AllKinds
  <2> QED BY <2>1, <2>2, OutsideSets
<1>3. ASSUME NEW a \in Agents, Kill(a) PROVE LinkFields'
  <2>1. CallOf(a) /\ call'[a] = NoCall /\ UpdateOfOne(a) /\ update'[a] = NoUpdate
    BY <1>3, KillFits
  <2> QED BY <2>1, IdleWithoutUpdate, NothingSet, LinkFieldsOn
<1> QED
  BY <1>1, <1>2, <1>3, UpdateSets, NumberingSets, ClaimSets, UnlockedSets DEF Next, AgentStep

-----------------------------------------------------------------------------
(* A file that cannot be read is being written.                            *)

\* An agent in call c and update u is about to write task i as a whole.
Fills(c, u, i) == \/ u.pc = "write" /\ u.id = i
                  \/ c.pc = "fill" /\ c.id = i

TornWritten ==
  \A i \in DOMAIN files : files[i] = Torn => \E a \in Agents : Fills(call[a], update[a], i)

TornInv == gone = {} => TornWritten

\* What a step may do to the torn files.
LEMMA TornOn ==
  ASSUME TornWritten, NEW a \in Agents, CallOf(a), UpdateOfOne(a),
         \A i \in DOMAIN files' : files'[i] = Torn =>
           \/ Fills(call'[a], update'[a], i)
           \/ i \in DOMAIN files /\ files[i] = Torn /\ ~Fills(call[a], update[a], i)
  PROVE  TornWritten'
<1> SUFFICES ASSUME NEW i \in DOMAIN files', files'[i] = Torn
             PROVE  \E b \in Agents : Fills(call'[b], update'[b], i)
  BY DEF TornWritten
<1>1. CASE Fills(call'[a], update'[a], i)
  BY <1>1
<1>2. CASE i \in DOMAIN files /\ files[i] = Torn /\ ~Fills(call[a], update[a], i)
  <2>1. PICK b \in Agents : Fills(call[b], update[b], i)
    BY <1>2 DEF TornWritten
  <2>2. b # a
    BY <1>2, <2>1
  <2>3. call'[b] = call[b] /\ update'[b] = update[b]
    BY <2>2 DEF CallOf, UpdateOfOne
  <2> QED BY <2>1, <2>3
<1> QED BY <1>1, <1>2

LEMMA NothingFilled ==
  ASSUME NEW c, c.pc # "fill", NEW u, u.pc # "write"
  PROVE  \A i : ~Fills(c, u, i)
BY DEF Fills

\* A step of an agent that was not about to write, and leaves the files alone.
LEMMA TornStays ==
  ASSUME TornWritten, NEW a \in Agents, CallOf(a), UpdateOfOne(a), UNCHANGED files,
         call[a].pc # "fill", update[a].pc # "write"
  PROVE  TornWritten'
BY NothingFilled, TornOn

LEMMA OneUpdate ==
  ASSUME Fits, NEW a \in Agents, UNCHANGED update
  PROVE  UpdateOfOne(a)
BY DEF UpdateOfOne, Fits, Typed

\* A content that is written is no torn one.
LEMMA TornByWrite ==
  ASSUME Fits, TornWritten, NEW a \in Agents, CallOf(a), UpdateOfOne(a), NEW n,
         NEW t \in Task, Write(n, t), \A i : Fills(call[a], update[a], i) => i = n
  PROVE  TornWritten'
<1>1. \A i \in DOMAIN files' : i = n \/ (i \in DOMAIN files /\ files'[i] = files[i])
  BY DEF Write
<1>2. n \in DOMAIN files' => files'[n] # Torn
  BY TornAssumption DEF Write
<1> QED BY <1>1, <1>2, TornOn

LEMMA NumberingTorn ==
  ASSUME Fits, TornWritten, NEW a \in Agents, NumberingStep(a), update[a] = NoUpdate
  PROVE  TornWritten'
<1>1. UpdateOfOne(a) /\ update[a].pc = "idle"
  <2>1. UNCHANGED update
    BY DEF NumberingStep, LockList, ReadFiles, MarkFirst, ReadMark, EmptyMark, WriteMark,
           CreateFile, FillFile, ListToUnlink, UnlinkNext, EndReset, CheckAllDone
  <2> QED BY <2>1, OneUpdate, IdleWithoutUpdate
<1>2. CASE \/ LockList(a) \/ ReadFiles(a) \/ MarkFirst(a) \/ ReadMark(a) \/ EmptyMark(a)
           \/ WriteMark(a) \/ ListToUnlink(a) \/ EndReset(a) \/ CheckAllDone(a)
  <2>1. call[a].pc # "fill" /\ UNCHANGED files
    BY <1>2 DEF LockList, ReadFiles, MarkFirst, ReadMark, EmptyMark, WriteMark, ListToUnlink,
                EndReset, CheckAllDone
  <2>2. CallOf(a)
    BY <1>2, LockListFits, ReadFilesFits, MarkFirstFits, ReadMarkFits, EmptyMarkFits,
       WriteMarkFits, ListToUnlinkFits, EndResetFits, CheckAllDoneFits
  <2> QED BY <1>1, <2>1, <2>2, TornStays
<1>3. CASE CreateFile(a)
  <2>1. /\ CallOf(a) /\ call'[a].pc = "fill" /\ call'[a].id = NextId(call[a])
    BY <1>3, CreateFileFits
  <2>2. call[a].pc = "create" /\ Write(NextId(call[a]), Torn)
    BY <1>3 DEF CreateFile
  <2>3. \A i : ~Fills(call[a], update[a], i)
    BY <1>1, <2>2, NothingFilled
  <2>4. \A i \in DOMAIN files' : i = NextId(call[a]) \/ (i \in DOMAIN files /\ files'[i] = files[i])
    BY <2>2 DEF Write
  <2>5. Fills(call'[a], update'[a], NextId(call[a]))
    BY <2>1 DEF Fills
  <2> QED BY <1>1, <2>1, <2>3, <2>4, <2>5, TornOn
<1>4. CASE FillFile(a)
  <2>1. CallOf(a)
    BY <1>4, FillFileFits
  <2>2. Write(call[a].id, NewTask)
    BY <1>4 DEF FillFile
  <2>3. \A i : Fills(call[a], update[a], i) => i = call[a].id
    BY <1>1 DEF Fills
  <2>4. NewTask \in Task
    BY DEF NewTask, Task, Owner, TaskStatus
  <2> QED BY <1>1, <2>1, <2>2, <2>3, <2>4, TornByWrite
<1>5. CASE UnlinkNext(a)
  <2>1. /\ CallOf(a) /\ call[a].pc = "unlink each"
        /\ \A i \in DOMAIN files' : i \in DOMAIN files /\ files'[i] = files[i]
    BY <1>5, UnlinkNextFits
  <2> QED BY <1>1, <2>1, NothingFilled, TornOn
<1> QED BY <1>2, <1>3, <1>4, <1>5 DEF NumberingStep

LEMMA OtherTorn ==
  ASSUME Fits, TornWritten, NEW a \in Agents, ClaimStep(a) \/ UnlockedStep(a), update[a] = NoUpdate
  PROVE  TornWritten'
<1>1. update[a].pc = "idle"
  BY IdleWithoutUpdate
<1>2. CASE UnlinkTask(a)
  <2>1. CallOf(a)
    BY <1>2, UnlinkTaskFits
  <2>2. UpdateOfOne(a) /\ call[a].pc # "fill"
    BY <1>2, OneUpdate DEF UnlinkTask
  <2>3. \A i \in DOMAIN files' : i \in DOMAIN files /\ files'[i] = files[i]
    BY <1>2 DEF UnlinkTask
  <2> QED BY <1>1, <2>1, <2>2, <2>3, NothingFilled, TornOn
<1>3. CASE CheckBlockers(a)
  <2>1. CallOf(a) /\ UpdateOfOne(a)
    BY <1>3, CheckBlockersFits
  <2>2. UNCHANGED files /\ call[a].pc # "fill"
    BY <1>3 DEF CheckBlockers
  <2> QED BY <1>1, <2>1, <2>2, TornStays
<1>4. CASE \/ ListToClaim(a) \/ CheckExists(a) \/ LockToClaim(a) \/ CheckOwner(a)
           \/ ReadToSet(a) \/ ReadToDelete(a) \/ ListReferences(a) \/ ReadToBlock(a)
           \/ ListToUnassign(a)
  <2>1. UNCHANGED <<files, update>> /\ call[a].pc # "fill"
    BY <1>4 DEF ListToClaim, CheckExists, LockToClaim, CheckOwner, ReadToSet, ReadToDelete,
                ListReferences, ReadToBlock, ListToUnassign
  <2>2. CallOf(a)
    BY <1>4, ListToClaimFits, CheckExistsFits, LockToClaimFits, CheckOwnerFits, ReadToSetFits,
       ReadToDeleteFits, ListReferencesFits, ReadToBlockFits, ListToUnassignFits
  <2> QED BY <1>1, <2>1, <2>2, OneUpdate, TornStays
<1> QED BY <1>2, <1>3, <1>4 DEF ClaimStep, UnlockedStep

LEMMA UpdateTorn ==
  ASSUME Fits, TornWritten, NEW a \in Agents, UpdateStep(a)
  PROVE  TornWritten'
<1>1. CASE CheckTask(a) \/ ReadToUpdate(a)
  <2>1. UNCHANGED <<files, call>> /\ update[a].pc \in {"check", "read"}
    BY <1>1 DEF CheckTask, ReadToUpdate
  <2>2. CallOf(a) /\ UpdateOfOne(a) /\ call[a].pc # "fill"
    BY <1>1, <2>1, CheckTaskFits, ReadToUpdateFits, InUpdate DEF CallOf, Fits, Typed
  <2> QED BY <2>1, <2>2, TornStays
<1>2. CASE LockToUpdate(a)
  <2>1. UNCHANGED files /\ update[a].pc = "lock"
    BY <1>2 DEF LockToUpdate
  <2>2. CallOf(a) /\ UpdateOfOne(a) /\ call[a].pc # "fill"
    BY <1>2, <2>1, LockToUpdateFits, InUpdate
  <2> QED BY <2>1, <2>2, TornStays
<1>3. CASE NextUpdate(a)
  <2>1. UNCHANGED files /\ call[a].pc = "updates" /\ update[a] = NoUpdate
    BY <1>3 DEF NextUpdate
  <2>2. CallOf(a) /\ UpdateOfOne(a)
    BY <1>3, NextUpdateFits
  <2> QED BY <2>1, <2>2, IdleWithoutUpdate, TornStays
<1>4. CASE TruncateToUpdate(a)
  <2>1. /\ UpdateOfOne(a) /\ update'[a].pc = "write" /\ update'[a].id = update[a].id
    BY <1>4, TruncateFits
  <2>2. /\ update[a].pc = "truncate" /\ call' = call /\ Write(update[a].id, Torn)
    BY <1>4 DEF TruncateToUpdate
  <2>3. CallOf(a) /\ call[a].pc # "fill"
    BY <2>2, InUpdate DEF CallOf, Fits, Typed
  <2>4. \A i \in DOMAIN files' : i = update[a].id \/ (i \in DOMAIN files /\ files'[i] = files[i])
    BY <2>2 DEF Write
  <2>5. Fills(call'[a], update'[a], update[a].id)
    BY <2>1 DEF Fills
  <2> QED BY <2>1, <2>2, <2>3, <2>4, <2>5, NothingFilled, TornOn
<1>5. CASE WriteUpdate(a)
  <2>1. UpdateOfOne(a)
    BY <1>5, WriteUpdateFits
  <2>2. /\ update[a].pc = "write" /\ call' = call
        /\ Write(update[a].id, Over(update[a].fields, update[a].task))
    BY <1>5 DEF WriteUpdate
  <2>3. /\ CallOf(a) /\ call[a].pc # "fill" /\ IsFields(update[a].fields)
        /\ update[a].task \in Task
    BY <2>2, InUpdate DEF CallOf, Fits, Typed
  <2>4. Over(update[a].fields, update[a].task) \in Task
    BY <2>3, OverTask
  <2>5. \A i : Fills(call[a], update[a], i) => i = update[a].id
    BY <2>3 DEF Fills
  <2> QED BY <2>1, <2>2, <2>3, <2>4, <2>5, TornByWrite
<1> QED BY <1>1, <1>2, <1>3, <1>4, <1>5 DEF UpdateStep

LEMMA TornNext == Fits /\ TornInv /\ [Next]_vars => TornInv'
<1> SUFFICES ASSUME Fits, TornInv, [Next]_vars PROVE TornInv'
  OBVIOUS
<1>1. CASE UNCHANGED vars
  BY <1>1 DEF vars, TornInv, TornWritten
<1>2. ASSUME NEW a \in Agents, MakesCall(a) PROVE TornInv'
  <2>1. /\ CallOf(a) /\ call[a] = NoCall /\ update[a] = NoUpdate /\ UNCHANGED <<files, update, gone>>
    BY <1>2, MakesCallFits
  <2> QED BY <2>1, OneUpdate, IdleWithoutUpdate, TornStays DEF TornInv
<1>3. ASSUME NEW a \in Agents, Kill(a) PROVE TornInv'
  BY <1>3 DEF Kill, TornInv
<1>4. ASSUME NEW a \in Agents, AgentStep(a) PROVE TornInv'
  <2>1. UNCHANGED gone
    BY <1>4 DEF AgentStep, UpdateStep, CheckTask, LockToUpdate, ReadToUpdate, TruncateToUpdate,
       WriteUpdate, NextUpdate, NumberingStep, LockList, ReadFiles, MarkFirst, ReadMark, EmptyMark,
       WriteMark, CreateFile, FillFile, ListToUnlink, UnlinkNext, EndReset, CheckAllDone, ClaimStep,
       ListToClaim, CheckExists, LockToClaim, CheckOwner, CheckBlockers, UnlockedStep, ReadToSet, ReadToDelete, UnlinkTask,
       ListReferences, ReadToBlock, ListToUnassign
  <2> QED BY <1>4, <2>1, UpdateTorn, NumberingTorn, OtherTorn DEF AgentStep, TornInv
<1> QED BY <1>1, <1>2, <1>3, <1>4 DEF Next

-----------------------------------------------------------------------------
(* One relation that all contents of the files, and all that is still to   *)
(* be set, agree with.                                                     *)

\* Agent with call c and update u holds t as the content of task i.
Holding(c, u, i, t) ==
  \/ u.pc \in {"truncate", "write"} /\ u.id = i /\ t = u.task
  \/ c.pc = "fill" /\ c.id = i /\ t = NewTask

ToSet(i, f, S) == \E a \in Agents : Sets(call[a], update[a], i, f, S)

Shows(i, t) == \/ i \in Readable /\ t = files[i]
               \/ \E a \in Agents : Holding(call[a], update[a], i, t)

\* A task was deleted, and the references to it have not been listed yet.
Forgets(c, i) == c.pc = "list references" /\ c.id = i
Dangling(i) == \E a \in Agents : Forgets(call[a], i)

\* Relation R, of pairs of which the first blocks the second, read from task i.
Linked(R, f, i, j) == IF f = "blocks" THEN <<i, j>> \in R ELSE <<j, i>> \in R

Means(R, i, f, S) == \A j \in Ids : Dangling(j) \/ (j \in S <=> Linked(R, f, i, j))

LinksAre(R) ==
  /\ R \subseteq (DOMAIN files) \X (DOMAIN files)
  /\ \A i : Dangling(i) => i \notin DOMAIN files
  /\ \A i, f, S : f \in Linking /\ ToSet(i, f, S) => i \in DOMAIN files /\ Means(R, i, f, S)
  /\ \A i, f, t : f \in Linking /\ Shows(i, t) =>
       i \in DOMAIN files /\ ((\E S : ToSet(i, f, S)) \/ Means(R, i, f, t[f]))

\* The list is being cleared, file after file.
Clears(c) == c.pc = "unlink each"
Clearing == \E a \in Agents : Clears(call[a])

\* While it is, what is left of it says nothing.
LinksFit == gone = {} /\ ~overlap /\ ~Clearing => \E R : LinksAre(R)

\* What is still there has been listed.
ListedToClear ==
  overlap \/ \A a \in Agents : Clears(call[a]) => DOMAIN files \subseteq call[a].left

LinkInv == LinkFields /\ TornInv /\ ListedToClear /\ LinksFit

\* What leaves the relation as it is.
LEMMA LinksStay ==
  ASSUME NEW R, LinksAre(R), DOMAIN files' = DOMAIN files, \A i : Dangling(i)' <=> Dangling(i),
         \A i, f, S : f \in Linking => (ToSet(i, f, S)' <=> ToSet(i, f, S)),
         \A i, t : Shows(i, t)' => Shows(i, t)
  PROVE  LinksAre(R)'
<1>1. R \subseteq (DOMAIN files') \X (DOMAIN files')
  BY DEF LinksAre
<1>2. \A i, f, S : Means(R, i, f, S) => Means(R, i, f, S)'
  BY DEF Means
<1>3. ASSUME NEW i, NEW f, NEW S, f \in Linking, ToSet(i, f, S)'
      PROVE  i \in DOMAIN files' /\ Means(R, i, f, S)'
  BY <1>2, <1>3 DEF LinksAre
<1>4. ASSUME NEW i, NEW f, NEW t, f \in Linking, Shows(i, t)'
      PROVE  i \in DOMAIN files' /\ ((\E S : ToSet(i, f, S)') \/ Means(R, i, f, t[f])')
  <2>1. i \in DOMAIN files /\ ((\E S : ToSet(i, f, S)) \/ Means(R, i, f, t[f]))
    BY <1>4 DEF LinksAre
  <2>2. CASE \E S : ToSet(i, f, S)
    BY <1>4, <2>1, <2>2
  <2>3. CASE Means(R, i, f, t[f])
    BY <1>2, <2>1, <2>3
  <2> QED BY <2>1, <2>2, <2>3
<1>5. \A i : Dangling(i)' => i \notin DOMAIN files'
  BY DEF LinksAre
<1> QED BY <1>1, <1>3, <1>4, <1>5 DEF LinksAre

\* One agent's step in these terms.
SameSets(a) ==
  \A i, f, S : f \in Linking =>
    (Sets(call'[a], update'[a], i, f, S) <=> Sets(call[a], update[a], i, f, S))

LEMMA SetsStay ==
  ASSUME NEW a \in Agents, CallOf(a), UpdateOfOne(a), SameSets(a)
  PROVE  \A i, f, S : f \in Linking => (ToSet(i, f, S)' <=> ToSet(i, f, S))
<1> SUFFICES ASSUME NEW i, NEW f \in Linking, NEW S PROVE ToSet(i, f, S)' <=> ToSet(i, f, S)
  OBVIOUS
<1>1. \A b \in Agents : Sets(call'[b], update'[b], i, f, S) <=> Sets(call[b], update[b], i, f, S)
  BY DEF SameSets, CallOf, UpdateOfOne
<1> QED BY <1>1 DEF ToSet

\* What an agent shows after its step was shown before.
LEMMA ShowsStay ==
  ASSUME NEW a \in Agents, CallOf(a), UpdateOfOne(a),
         \A i \in Readable' : Shows(i, files'[i]),
         \A i, t : Holding(call'[a], update'[a], i, t) => Shows(i, t)
  PROVE  \A i, t : Shows(i, t)' => Shows(i, t)
<1> SUFFICES ASSUME NEW i, NEW t, Shows(i, t)' PROVE Shows(i, t)
  OBVIOUS
<1>1. CASE i \in Readable' /\ t = files'[i]
  BY <1>1
<1>2. ASSUME NEW b \in Agents, Holding(call'[b], update'[b], i, t) PROVE Shows(i, t)
  <2>1. CASE b = a
    BY <1>2, <2>1
  <2>2. CASE b # a
    <3>1. Holding(call[b], update[b], i, t)
      BY <1>2, <2>2 DEF CallOf, UpdateOfOne
    <3> QED BY <3>1 DEF Shows
  <2> QED BY <2>1, <2>2
<1> QED BY <1>1, <1>2 DEF Shows

LEMMA DanglingStays ==
  ASSUME NEW a \in Agents, CallOf(a), \A i : ~Forgets(call[a], i) /\ ~Forgets(call'[a], i)
  PROVE  \A i : Dangling(i)' <=> Dangling(i)
<1>1. \A b \in Agents : \A i : Forgets(call'[b], i) <=> Forgets(call[b], i)
  BY DEF CallOf
<1> QED BY <1>1 DEF Dangling

LEMMA OneLinks ==
  ASSUME NEW R, LinksAre(R), NEW a \in Agents, CallOf(a), UpdateOfOne(a), SameSets(a),
         DOMAIN files' = DOMAIN files,
         \A i \in Readable' : Shows(i, files'[i]),
         \A i, t : Holding(call'[a], update'[a], i, t) => Shows(i, t),
         \A i : ~Forgets(call[a], i) /\ ~Forgets(call'[a], i)
  PROVE  LinksAre(R)'
BY SetsStay, ShowsStay, DanglingStays, LinksStay

\* An agent with nothing to set, no content and no task to forget.
Quiet(c, u) ==
  /\ \A i, f, S : f \in Linking => ~Sets(c, u, i, f, S)
  /\ \A i, t : ~Holding(c, u, i, t)
  /\ \A i : ~Forgets(c, i)

LEMMA QuietPlace ==
  ASSUME NEW c, c.pc \notin {"updates", "fill", "list references"}, NEW u, u.pc = "idle"
  PROVE  Quiet(c, u)
BY NothingSet DEF Quiet, Holding, Forgets

LEMMA QuietUpdates ==
  ASSUME NEW c, c.pc = "updates", NEW u, u.pc \notin {"truncate", "write"}, SetsFit(c, u),
         ~Linker(c.kind)
  PROVE  Quiet(c, u)
BY NoLinkSet DEF Quiet, Holding, Forgets

LEMMA QuietLinks ==
  ASSUME NEW R, LinksAre(R), NEW a \in Agents, CallOf(a), UpdateOfOne(a), UNCHANGED files,
         Quiet(call[a], update[a]), Quiet(call'[a], update'[a])
  PROVE  LinksAre(R)'
<1>1. SameSets(a) /\ (\A i, t : Holding(call'[a], update'[a], i, t) => Shows(i, t))
      /\ \A i : ~Forgets(call[a], i) /\ ~Forgets(call'[a], i)
  BY DEF Quiet, SameSets
<1>2. \A i \in Readable' : Shows(i, files'[i])
  BY DEF Readable, Shows
<1> QED BY <1>1, <1>2, OneLinks

-----------------------------------------------------------------------------
(* What it comes to when no call is under way.                             *)

LEMMA BothFields == "blocks" \in Linking /\ "blockedBy" \in Linking
BY DEF Linking

LEMMA LinkInvAgrees ==
  ASSUME Fits, LinkInv
  PROVE  BlocksAgree
<1> SUFFICES ASSUME \A a \in Agents : call[a] = NoCall, gone = {}, ~overlap,
                    NEW i \in DOMAIN files
             PROVE  /\ \A j \in files[i].blocks : j \in DOMAIN files /\ i \in files[j].blockedBy
                    /\ \A j \in files[i].blockedBy : j \in DOMAIN files /\ i \in files[j].blocks
  BY DEF BlocksAgree
<1>1. \A a \in Agents : call[a].pc = "idle" /\ update[a].pc = "idle"
  BY IdleWithoutUpdate DEF Fits, AgentFits
<1>2. \A a \in Agents : Quiet(call[a], update[a])
  BY <1>1, QuietPlace
<1>3. (\A j : ~Dangling(j)) /\ \A j, f, S : f \in Linking => ~ToSet(j, f, S)
  BY <1>2 DEF Quiet, Dangling, ToSet
<1>4. DOMAIN files = Readable
  <2>1. \A a \in Agents, j \in DOMAIN files : ~Fills(call[a], update[a], j)
    BY <1>1, NothingFilled
  <2> QED BY <2>1 DEF LinkInv, TornInv, TornWritten, Readable
<1>5. PICK R : LinksAre(R)
  BY <1>1 DEF LinkInv, LinksFit, Clearing, Clears
<1>6. \A j \in DOMAIN files, f \in Linking : \A k \in Ids : k \in files[j][f] <=> Linked(R, f, j, k)
  <2> SUFFICES ASSUME NEW j \in DOMAIN files, NEW f \in Linking
               PROVE  \A k \in Ids : k \in files[j][f] <=> Linked(R, f, j, k)
    OBVIOUS
  <2>1. Shows(j, files[j])
    BY <1>4 DEF Shows
  <2>2. Means(R, j, f, files[j][f])
    BY <1>3, <1>5, <2>1 DEF LinksAre
  <2> QED BY <1>3, <2>2 DEF Means
<1>7. \A j, k : <<j, k>> \in R => j \in DOMAIN files /\ k \in DOMAIN files
  BY <1>5 DEF LinksAre
<1>8. \A j \in DOMAIN files : files[j].blocks \subseteq Ids /\ files[j].blockedBy \subseteq Ids /\ j \in Ids
  BY <1>4 DEF Fits, Typed, Readable, Task
<1>9. \A j \in DOMAIN files, k \in Ids : k \in files[j].blocks <=> <<j, k>> \in R
  BY <1>6, BothFields DEF Linked
<1>10. \A j \in DOMAIN files, k \in Ids : k \in files[j].blockedBy <=> <<k, j>> \in R
  BY <1>6, BothFields DEF Linked
<1>11. ASSUME NEW j \in files[i].blocks PROVE j \in DOMAIN files /\ i \in files[j].blockedBy
  <2>1. j \in Ids /\ <<i, j>> \in R
    BY <1>8, <1>9
  <2> QED BY <1>7, <1>8, <1>10, <2>1
<1>12. ASSUME NEW j \in files[i].blockedBy PROVE j \in DOMAIN files /\ i \in files[j].blocks
  <2>1. j \in Ids /\ <<j, i>> \in R
    BY <1>8, <1>10
  <2> QED BY <1>7, <1>8, <1>9, <2>1
<1> QED BY <1>11, <1>12

-----------------------------------------------------------------------------
(* Clearing the list.                                                      *)

\* What makes a file anew.
LEMMA FilesGrow ==
  ASSUME Fits, NEW a \in Agents, AgentStep(a)
  PROVE  DOMAIN files' \subseteq DOMAIN files \/ call[a].pc \in {"create", "fill", "updates"}
<1>1. CASE UpdateStep(a)
  <2>1. call[a].pc = "updates" \/ UNCHANGED files
    BY <1>1, InUpdate DEF UpdateStep, CheckTask, LockToUpdate, ReadToUpdate, TruncateToUpdate,
       WriteUpdate, NextUpdate
  <2> QED BY <2>1
<1>2. CASE NumberingStep(a) /\ update[a] = NoUpdate
  <2>1. CASE CreateFile(a) \/ FillFile(a)
    BY <2>1 DEF CreateFile, FillFile
  <2>2. CASE UnlinkNext(a)
    <3>1. \A i \in DOMAIN files' : i \in DOMAIN files /\ files'[i] = files[i]
      BY <1>2, <2>2, UnlinkNextFits
    <3> QED BY <3>1
  <2>3. CASE UNCHANGED files
    BY <2>3
  <2> QED BY <1>2, <2>1, <2>2, <2>3
          DEF NumberingStep, LockList, ReadFiles, MarkFirst, ReadMark, EmptyMark, WriteMark,
              ListToUnlink, EndReset, CheckAllDone
<1>3. CASE ClaimStep(a)
  BY <1>3 DEF ClaimStep, ListToClaim, CheckExists, LockToClaim, CheckOwner, CheckBlockers
<1>4. CASE UnlockedStep(a)
  BY <1>4 DEF UnlockedStep, ReadToSet, ReadToDelete, UnlinkTask, ListReferences, ReadToBlock,
              ListToUnassign
<1> QED BY <1>1, <1>2, <1>3, <1>4 DEF AgentStep

\* Who is clearing after a step has listed the files by it, or was clearing already.
LEMMA ClearsBy ==
  ASSUME Fits, NEW a \in Agents, AgentStep(a), Clears(call'[a])
  PROVE  ListToUnlink(a) \/ UnlinkNext(a)
<1>1. call'[a].pc = "unlink each" /\ NoCall.pc = "idle" /\ CallFits(call[a])
  BY IdleWithoutUpdate DEF Clears, Fits, AgentFits
<1>2. CASE UpdateStep(a)
  <2>1. CASE CheckTask(a) \/ ReadToUpdate(a) \/ TruncateToUpdate(a) \/ WriteUpdate(a)
    <3>1. call' = call /\ update[a].pc # "idle"
      BY <2>1 DEF CheckTask, ReadToUpdate, TruncateToUpdate, WriteUpdate
    <3> QED BY <1>1, <3>1, InUpdate
  <2>2. CASE LockToUpdate(a)
    <3>1. update[a].pc # "idle"
      BY <2>2 DEF LockToUpdate
    <3>2. call[a].pc = "updates"
      BY <3>1, InUpdate
    <3> QED BY <1>1, <2>2, <3>2, LockToUpdateFits
  <2>3. CASE NextUpdate(a)
    BY <1>1, <2>3, NextUpdateFits
  <2> QED BY <1>2, <2>1, <2>2, <2>3 DEF UpdateStep
<1>3. CASE NumberingStep(a) /\ update[a] = NoUpdate
  <2>1. CASE ReadMark(a)
    <3>1. /\ call[a].kind = "create" => call'[a].pc = "create"
          /\ call[a].kind # "create" /\ call[a].high > mark => call'[a].pc = "raise"
          /\ call[a].kind # "create" /\ ~(call[a].high > mark) =>
               call'[a].pc = IF call[a].kind = "delete" THEN "unlink" ELSE "unlink all"
      BY <1>3, <2>1, ReadMarkFits
    <3> QED BY <1>1, <3>1
  <2>2. CASE ReadFiles(a)
    <3>1. /\ call[a].pc = "files only" => call'[a].pc = "create"
          /\ call[a].pc = "files" /\ call[a].kind = "create" => call'[a].pc = "mark"
          /\ call[a].pc = "files" /\ call[a].kind # "create" =>
               call'[a].pc = IF Highest > 0 THEN "mark" ELSE "unlink all"
      BY <1>3, <2>2, ReadFilesFits
    <3>2. call[a].pc \in {"files", "files only"}
      BY <2>2 DEF ReadFiles
    <3> QED BY <1>1, <3>1, <3>2
  <2>3. CASE WriteMark(a)
    <3>1. call'[a].pc = IF call[a].kind = "delete" THEN "unlink" ELSE "unlink all"
      BY <1>3, <2>3, WriteMarkFits
    <3> QED BY <1>1, <3>1
  <2>4. CASE \/ LockList(a) \/ MarkFirst(a) \/ EmptyMark(a) \/ CreateFile(a) \/ FillFile(a)
             \/ EndReset(a) \/ CheckAllDone(a)
    BY <1>1, <1>3, <2>4, LockListFits, MarkFirstFits, EmptyMarkFits, CreateFileFits, FillFileFits,
       EndResetFits, CheckAllDoneFits
  <2> QED BY <1>3, <2>1, <2>2, <2>3, <2>4 DEF NumberingStep
<1>4. CASE ClaimStep(a) /\ update[a] = NoUpdate
  <2>1. CASE ListToClaim(a) \/ CheckExists(a)
    BY <1>1, <1>4, <2>1, ListToClaimFits, CheckExistsFits
  <2>2. CASE LockToClaim(a) \/ CheckOwner(a)
    BY <1>1, <1>4, <2>2, LockToClaimFits, CheckOwnerFits
  <2>3. CASE CheckBlockers(a)
    BY <1>1, <1>4, <2>3, CheckBlockersFits
  <2> QED BY <1>4, <2>1, <2>2, <2>3 DEF ClaimStep
<1>5. CASE UnlockedStep(a) /\ update[a] = NoUpdate
  <2>1. CASE ReadToDelete(a) \/ UnlinkTask(a)
    BY <1>1, <1>5, <2>1, ReadToDeleteFits, UnlinkTaskFits
  <2>2. CASE ReadToSet(a) \/ ListReferences(a) \/ ReadToBlock(a) \/ ListToUnassign(a)
    <3>1. call'[a] = NoCall \/ call'[a].pc = "updates"
      BY <1>5, <2>2, ReadToSetFits, ListReferencesFits, ReadToBlockFits, ListToUnassignFits
    <3> QED BY <1>1, <3>1
  <2> QED BY <1>5, <2>1, <2>2 DEF UnlockedStep
<1> QED BY <1>2, <1>3, <1>4, <1>5 DEF AgentStep

\* Nobody else writes a file while the list is cleared.
LEMMA ClearsAlone ==
  ASSUME Fits, Numbered, ~overlap, NEW a \in Agents, Clears(call[a]), NEW b \in Agents \ {a}
  PROVE  call[b].pc \notin {"create", "fill", "updates", "list references", "unlink each"}
<1>1. /\ CallFits(call[a]) /\ CallFits(call[b])
      /\ listLock = a <=> InList(call[a])
      /\ listLock = b <=> InList(call[b])
  BY DEF Fits, AgentFits
<1>2. call[a].pc = "unlink each"
  BY DEF Clears
<1>3. call[a].kind \in {"reset", "hide"}
  BY <1>1, <1>2, PlaceKinds
<1>4. call[b].kind \in {"create", "reset", "none"}
  <2>1. Serial
    BY DEF Numbered, Numbering
  <2> QED BY <1>3, <2>1 DEF Serial, Serialised
<1>5. ~InList(call[b])
  BY <1>1, <1>2 DEF InList
<1>6. call[b].pc \notin {"updates", "list references"}
  BY <1>1, <1>4, PlaceKinds
<1> QED BY <1>5, <1>6 DEF InList

LEMMA ClearNext == Fits /\ Numbered /\ ListedToClear /\ [Next]_vars => ListedToClear'
<1> SUFFICES ASSUME Fits, Numbered, ListedToClear, [Next]_vars, ~overlap',
                    NEW a \in Agents, Clears(call'[a])
             PROVE  DOMAIN files' \subseteq call'[a].left
  BY DEF ListedToClear
<1>1. ~overlap
  <2>1. CASE UNCHANGED vars
    BY <2>1 DEF vars
  <2>2. ASSUME NEW b \in Agents, MakesCall(b) PROVE ~overlap
    BY <2>2, MakesCallFits
  <2>3. ASSUME NEW b \in Agents, Kill(b) PROVE ~overlap
    BY <2>3 DEF Kill
  <2>4. ASSUME NEW b \in Agents, AgentStep(b) PROVE ~overlap
    BY <2>4 DEF AgentStep, UpdateStep, CheckTask, LockToUpdate, ReadToUpdate, TruncateToUpdate,
       WriteUpdate, NextUpdate, NumberingStep, LockList, ReadFiles, MarkFirst, ReadMark, EmptyMark,
       WriteMark, CreateFile, FillFile, ListToUnlink, UnlinkNext, EndReset, CheckAllDone, ClaimStep,
       ListToClaim, CheckExists, LockToClaim, CheckOwner, CheckBlockers, UnlockedStep, ReadToSet,
       ReadToDelete, UnlinkTask, ListReferences, ReadToBlock, ListToUnassign
  <2> QED BY <2>1, <2>2, <2>3, <2>4 DEF Next
<1>2. \A b \in Agents : Clears(call[b]) => DOMAIN files \subseteq call[b].left
  BY <1>1 DEF ListedToClear
<1>3. CASE UNCHANGED vars
  BY <1>2, <1>3 DEF vars
<1>4. ASSUME NEW b \in Agents, MakesCall(b) PROVE DOMAIN files' \subseteq call'[a].left
  <2>1. /\ CallOf(b) /\ files' = files /\ call'[b].kind \in AllKinds
        /\ call'[b].pc = Entry(call'[b].kind)
    BY <1>4, MakesCallFits
  <2>2. ~Clears(call'[b])
    BY <2>1 DEF Entry, AllKinds, Clears
  <2> QED BY <1>2, <2>1, <2>2 DEF CallOf
<1>5. ASSUME NEW b \in Agents, Kill(b) PROVE DOMAIN files' \subseteq call'[a].left
  <2>1. CallOf(b) /\ call'[b] = NoCall /\ files' = files
    BY <1>5, KillFits DEF Kill
  <2>2. ~Clears(call'[b])
    BY <2>1, IdleWithoutUpdate DEF Clears
  <2> QED BY <1>2, <2>1, <2>2 DEF CallOf
<1>6. ASSUME NEW b \in Agents, AgentStep(b) PROVE DOMAIN files' \subseteq call'[a].left
  <2>1. CASE b = a
    <3>1. ListToUnlink(a) \/ UnlinkNext(a)
      BY <1>6, <2>1, ClearsBy
    <3>2. update[a] = NoUpdate
      <4>1. call[a].pc # "updates" /\ UpdateFits(update[a])
            /\ (update[a].pc # "idle" => call[a].pc = "updates")
        BY <3>1 DEF ListToUnlink, UnlinkNext, Fits, AgentFits
      <4> QED BY <4>1 DEF UpdateFits
    <3>3. CASE ListToUnlink(a)
      <4>1. call'[a].left = DOMAIN files
        BY <3>2, <3>3, ListToUnlinkFits
      <4>2. files' = files
        BY <3>3 DEF ListToUnlink
      <4> QED BY <4>1, <4>2
    <3>4. CASE UnlinkNext(a)
      <4>1. /\ call[a].pc = "unlink each"
            /\ \E i : DOMAIN files' = DOMAIN files \ {i} /\ call'[a].left = call[a].left \ {i}
        BY <3>2, <3>4, UnlinkNextFits
      <4> QED BY <1>2, <4>1 DEF Clears
    <3> QED BY <3>1, <3>3, <3>4
  <2>2. CASE b # a
    <3>1. call'[a] = call[a]
      BY <1>6, <2>2, KindStays DEF CallOf
    <3>2. call[b].pc \notin {"create", "fill", "updates"}
      BY <1>1, <2>2, <3>1, ClearsAlone
    <3>3. DOMAIN files' \subseteq DOMAIN files
      BY <1>6, <3>2, FilesGrow
    <3> QED BY <1>2, <3>1, <3>3
  <2> QED BY <2>1, <2>2
<1> QED BY <1>3, <1>4, <1>5, <1>6 DEF Next

-----------------------------------------------------------------------------
(* The steps of an update.                                                 *)

\* A call that may meet no other is alone.
LEMMA LinksAlone ==
  ASSUME Fits, Numbered, ~overlap, NEW a \in Agents, NEW b \in Agents \ {a},
         Linker(call[a].kind) \/ call[a].kind \in {"hide", "start", "unassign"}
  PROVE  Quiet(call[b], update[b]) /\ \A i : ~Fills(call[b], update[b], i)
<1>1. call[b].kind = "none"
  <2>1. Serial /\ call[a].kind # "none"
    BY DEF Numbered, Numbering, Linker
  <2>2. call[b].kind # "none" => Serialised(call[a].kind, call[b].kind)
    BY <2>1 DEF Serial
  <2> QED BY <2>2 DEF Serialised, Linker
<1>2. CallFits(call[b]) /\ (update[b].pc # "idle" => call[b].pc = "updates")
  BY DEF Fits, AgentFits
<1>3. call[b].pc = "idle" /\ update[b].pc = "idle"
  BY <1>1, <1>2, IdleWithoutUpdate DEF CallFits
<1> QED BY <1>3, QuietPlace, NothingFilled

\* It finds every file readable, as long as it does not write itself.
LEMMA AloneReads ==
  ASSUME Fits, Numbered, LinkInv, ~overlap, gone = {}, NEW a \in Agents, Linker(call[a].kind),
         call[a].pc # "fill", update[a].pc # "write"
  PROVE  DOMAIN files = Readable
<1>1. \A b \in Agents : \A i : ~Fills(call[b], update[b], i)
  BY LinksAlone, NothingFilled
<1> QED BY <1>1 DEF LinkInv, TornInv, TornWritten, Readable

\* An update that sets a field of links.
LEMMA SetsLink ==
  ASSUME LinkFields, NEW a \in Agents, update[a].pc # "idle", Linker(call[a].kind)
  PROVE  \E f \in Linking : \E S : ToSet(update[a].id, f, S)
<1>1. FieldsFit(call[a].kind, update[a].fields)
  BY DEF LinkFields, SetsFit
<1>2. PICK f \in Linking : f \in DOMAIN update[a].fields
  BY <1>1 DEF FieldsFit
<1>3. Sets(call[a], update[a], update[a].id, f, update[a].fields[f])
  BY <1>2 DEF Sets
<1>4. ToSet(update[a].id, f, update[a].fields[f])
  BY <1>3 DEF ToSet
<1> QED BY <1>4

\* Only an update without links finds its task gone or torn.
LEMMA VanishedNoLink ==
  ASSUME Fits, Numbered, LinkInv, ~overlap, gone = {}, NEW R, LinksAre(R), NEW a \in Agents,
         update[a].pc \in {"check", "lock", "read"}, update[a].id \notin Readable
  PROVE  ~Linker(call[a].kind)
<1> SUFFICES ASSUME Linker(call[a].kind) PROVE FALSE
  OBVIOUS
<1>1. call[a].pc = "updates"
  BY InUpdate
<1>2. DOMAIN files = Readable
  BY <1>1, AloneReads
<1>3. PICK f \in Linking : \E S : ToSet(update[a].id, f, S)
  BY SetsLink DEF LinkInv
<1>4. update[a].id \in DOMAIN files
  BY <1>3 DEF LinksAre
<1> QED BY <1>2, <1>4

\* The update it gives up leaves the links alone.
LEMMA GivesUpLinks ==
  ASSUME Fits, Numbered, LinkInv, ~overlap, gone = {}, NEW R, LinksAre(R), NEW a \in Agents,
         update[a].pc \in {"check", "lock", "read"}, update[a].id \notin Readable,
         CallOf(a), UpdateOfOne(a), UNCHANGED files, update'[a] = NoUpdate,
         call'[a] = NoCall \/ call'[a] = call[a]
  PROVE  LinksAre(R)'
<1>1. ~Linker(call[a].kind)
  BY VanishedNoLink
<1>2. call[a].pc = "updates" /\ SetsFit(call[a], update[a])
  BY InUpdate DEF LinkInv, LinkFields
<1>3. Quiet(call[a], update[a])
  BY <1>1, <1>2, QuietUpdates
<1>4. SetsFit(call[a], NoUpdate)
  BY <1>2, IdleWithoutUpdate DEF SetsFit
<1>5. Quiet(call'[a], update'[a])
  <2>1. CASE call'[a] = NoCall
    BY <2>1, IdleWithoutUpdate, QuietPlace
  <2>2. CASE call'[a] = call[a]
    BY <1>1, <1>2, <1>4, <2>2, IdleWithoutUpdate, QuietUpdates
  <2> QED BY <2>1, <2>2
<1> QED BY <1>3, <1>5, QuietLinks

\* The update that goes on.
LEMMA GoesOnLinks ==
  ASSUME Fits, NEW R, LinksAre(R), NEW a \in Agents,
         update[a].pc # "idle", UpdateOfOne(a), UNCHANGED call,
         update'[a].pc # "idle", update'[a].id = update[a].id,
         update'[a].fields = update[a].fields,
         update'[a].pc \in {"truncate", "write"} => Shows(update[a].id, update'[a].task),
         DOMAIN files' = DOMAIN files, \A i \in Readable' : Shows(i, files'[i])
  PROVE  LinksAre(R)'
<1>1. CallOf(a) /\ call[a].pc = "updates"
  BY InUpdate DEF CallOf, Fits, Typed
<1>2. SameSets(a)
  BY DEF SameSets, Sets
<1>3. \A i, t : Holding(call'[a], update'[a], i, t) => Shows(i, t)
  BY <1>1 DEF Holding
<1>4. \A i : ~Forgets(call[a], i) /\ ~Forgets(call'[a], i)
  BY <1>1 DEF Forgets
<1> QED BY <1>1, <1>2, <1>3, <1>4, OneLinks

LEMMA ReadableShown == \A i \in Readable : Shows(i, files[i])
BY DEF Shows

LEMMA FilesShown ==
  ASSUME UNCHANGED files
  PROVE  DOMAIN files' = DOMAIN files /\ \A i \in Readable' : Shows(i, files'[i])
BY DEF Readable, Shows

LEMMA CheckTaskLinks ==
  ASSUME Fits, Numbered, LinkInv, ~overlap, gone = {}, NEW R, LinksAre(R), NEW a \in Agents,
         CheckTask(a)
  PROVE  LinksAre(R)'
<1>1. update[a].pc = "check" /\ UNCHANGED <<files, call>>
  BY DEF CheckTask
<1>2. /\ UpdateOfOne(a)
      /\ update'[a] = NoUpdate \/ (update'[a].pc = "lock" /\ update'[a].id = update[a].id
                                   /\ update'[a].fields = update[a].fields)
  BY CheckTaskFits
<1>3. CASE update[a].id \in Readable
  <2>1. update'[a].pc = "lock" /\ update'[a].id = update[a].id
        /\ update'[a].fields = update[a].fields
    <3>1. update' = [update EXCEPT ![a].pc = "lock", ![a].task = ReadAgain(a)]
      BY <1>3 DEF CheckTask
    <3>2. DOMAIN update = Agents /\ {"id", "pc", "fields", "task"} \subseteq DOMAIN update[a]
      BY <1>1, InUpdate
    <3> QED BY <3>1, <3>2
  <2> QED BY <1>1, <1>2, <2>1, FilesShown, GoesOnLinks
<1>4. CASE update[a].id \notin Readable
  <2>1. update'[a] = NoUpdate
    BY <1>4, UpdateEndsIs DEF CheckTask
  <2>2. CallOf(a)
    BY <1>1 DEF CallOf, Fits, Typed
  <2> QED BY <1>1, <1>2, <1>4, <2>1, <2>2, GivesUpLinks
<1> QED BY <1>3, <1>4

LEMMA LockToUpdateLinks ==
  ASSUME Fits, Numbered, LinkInv, ~overlap, gone = {}, NEW R, LinksAre(R), NEW a \in Agents,
         LockToUpdate(a)
  PROVE  LinksAre(R)'
<1>1. update[a].pc = "lock" /\ UNCHANGED files
  BY DEF LockToUpdate
<1>2. /\ UpdateOfOne(a) /\ CallOf(a)
      /\ \/ update'[a] = NoUpdate /\ call'[a] = NoCall
         \/ update'[a].pc = "read" /\ update'[a].id = update[a].id
            /\ update'[a].fields = update[a].fields /\ UNCHANGED call
  BY LockToUpdateFits
<1>3. CASE update[a].id \in DOMAIN files
  <2>1. update'[a].pc = "read" /\ update'[a].id = update[a].id
        /\ update'[a].fields = update[a].fields /\ UNCHANGED call
    <3>1. update' = [update EXCEPT ![a].pc = "read"] /\ UNCHANGED call
      BY <1>3 DEF LockToUpdate
    <3>2. DOMAIN update = Agents /\ {"id", "pc", "fields", "task"} \subseteq DOMAIN update[a]
      BY <1>1, InUpdate
    <3> QED BY <3>1, <3>2
  <2> QED BY <1>1, <1>2, <2>1, FilesShown, GoesOnLinks
<1>4. CASE update[a].id \notin DOMAIN files
  <2>1. UpdateEnds(a) /\ Ends(a)
    BY <1>4 DEF LockToUpdate
  <2>2. update'[a] = NoUpdate /\ call'[a] = NoCall
    BY <2>1, UpdateEndsIs, EndsFits DEF Ends
  <2>3. update[a].id \notin Readable
    BY <1>4 DEF Readable
  <2> QED BY <1>1, <1>2, <2>2, <2>3, GivesUpLinks
<1> QED BY <1>3, <1>4

LEMMA ReadToUpdateLinks ==
  ASSUME Fits, Numbered, LinkInv, ~overlap, gone = {}, NEW R, LinksAre(R), NEW a \in Agents,
         ReadToUpdate(a)
  PROVE  LinksAre(R)'
<1>1. update[a].pc = "read" /\ UNCHANGED <<files, call>>
  BY DEF ReadToUpdate
<1>2. /\ UpdateOfOne(a)
      /\ \/ update'[a] = NoUpdate
         \/ /\ update'[a].pc = "truncate" /\ update'[a].id = update[a].id
            /\ update'[a].fields = update[a].fields /\ update[a].id \in Readable
            /\ update'[a].task = files[update[a].id]
  BY ReadToUpdateFits
<1>3. CASE update'[a] # NoUpdate
  <2>1. Shows(update[a].id, update'[a].task)
    BY <1>2, <1>3, ReadableShown
  <2> QED BY <1>1, <1>2, <1>3, <2>1, FilesShown, GoesOnLinks
<1>4. CASE update'[a] = NoUpdate
  <2>1. update[a].id \notin Readable
    <3> SUFFICES ASSUME update[a].id \in Readable PROVE FALSE
      OBVIOUS
    <3>1. update' = [update EXCEPT ![a].pc = "truncate", ![a].task = ReadAgain(a)]
      BY DEF ReadToUpdate
    <3>2. DOMAIN update = Agents /\ {"id", "pc", "fields", "task"} \subseteq DOMAIN update[a]
      BY <1>1, InUpdate
    <3>3. update'[a].pc = "truncate"
      BY <3>1, <3>2
    <3> QED BY <1>4, <3>3, IdleWithoutUpdate
  <2>2. CallOf(a)
    BY <1>1 DEF CallOf, Fits, Typed
  <2> QED BY <1>1, <1>2, <1>4, <2>1, <2>2, GivesUpLinks
<1> QED BY <1>3, <1>4

LEMMA TruncateLinks ==
  ASSUME Fits, NEW R, LinksAre(R), NEW a \in Agents, TruncateToUpdate(a)
  PROVE  LinksAre(R)'
<1>1. /\ update[a].pc = "truncate" /\ Write(update[a].id, Torn) /\ UNCHANGED call
  BY DEF TruncateToUpdate
<1>2. /\ UpdateOfOne(a) /\ update'[a].pc = "write" /\ update'[a].id = update[a].id
      /\ update'[a].fields = update[a].fields /\ update'[a].task = update[a].task
  BY TruncateFits
<1>3. Shows(update[a].id, update[a].task)
  BY <1>1 DEF Shows, Holding
<1>4. DOMAIN files' = DOMAIN files
  <2>1. update[a].id \in DOMAIN files
    BY <1>3, BothFields DEF LinksAre
  <2> QED BY <1>1, <2>1 DEF Write
<1>5. \A i \in Readable' : i \in Readable /\ files'[i] = files[i]
  BY <1>1 DEF Write, Readable
<1>6. \A i \in Readable' : Shows(i, files'[i])
  BY <1>5, ReadableShown
<1> QED BY <1>1, <1>2, <1>3, <1>4, <1>6, GoesOnLinks

\* The next update of a call sets what the call was to set.
LEMMA NextUpdateLinks ==
  ASSUME Fits, NEW R, LinksAre(R), NEW a \in Agents, NextUpdate(a)
  PROVE  LinksAre(R)'
<1>1. call[a].pc = "updates" /\ update[a] = NoUpdate /\ UNCHANGED files
  BY DEF NextUpdate
<1>2. update[a].pc = "idle" /\ NoUpdate.pc = "idle" /\ NoCall.pc = "idle"
  BY <1>1, IdleWithoutUpdate
<1>3. UpdateOfOne(a) /\ CallOf(a)
  BY NextUpdateFits
<1>4. \A i : ~Forgets(call[a], i)
  BY <1>1 DEF Forgets
<1>5. CASE call[a].todo = <<>>
  <2>1. Ends(a) /\ UNCHANGED update
    BY <1>5 DEF NextUpdate
  <2>2. call'[a] = NoCall /\ update'[a] = NoUpdate
    BY <1>1, <2>1, EndsFits DEF Ends
  <2>3. \A n : n \notin DOMAIN call[a].todo
    BY <1>5
  <2>4. Quiet(call'[a], update'[a])
    BY <1>2, <2>2, QuietPlace
  <2>5. Quiet(call[a], update[a])
    BY <1>1, <1>2, <2>3 DEF Quiet, Sets, Holding, Forgets
  <2> QED BY <1>1, <1>3, <2>4, <2>5, QuietLinks
<1>6. CASE call[a].todo # <<>>
  <2> DEFINE q == call[a].todo
             e == Head(q)
             u == Begun(e, "check")
  <2>1. /\ update' = [update EXCEPT ![a] = u]
        /\ call' = [call EXCEPT ![a].todo = Tail(@)]
    BY <1>6 DEF NextUpdate
  <2>2. CallFits(call[a]) /\ DOMAIN call = Agents /\ DOMAIN update = Agents
    BY DEF Fits, AgentFits, Typed
  <2>3. u.pc = "check" /\ u.id = e.id /\ u.fields = e.fields
    BY DEF Begun, NoUpdate
  <2> HIDE DEF u
  <2>4. call'[a].pc = "updates" /\ call'[a].todo = Tail(q) /\ update'[a] = u
    BY <1>1, <2>1, <2>2 DEF CallFits
  <2>5. IsTodo(q)
    BY <2>2 DEF CallFits
  <2>6. /\ e = q[1] /\ 1 \in DOMAIN q /\ Len(q) \in Nat
        /\ DOMAIN q = 1 .. Len(q) /\ DOMAIN Tail(q) = 1 .. Len(q) - 1
        /\ \A n \in 1 .. Len(q) - 1 : Tail(q)[n] = q[n + 1]
    <3>1. PICK T : q \in Seq(T)
      BY <2>5 DEF IsTodo
    <3>2. /\ Len(q) \in Nat /\ DOMAIN q = 1 .. Len(q) /\ Len(q) # 0
      BY <1>6, <3>1, LenProperties, EmptySeq
    <3>3. /\ Tail(q) \in Seq(T) /\ Len(Tail(q)) = Len(q) - 1
          /\ \A n \in 1 .. Len(q) - 1 : Tail(q)[n] = q[n + 1]
      BY <1>6, <3>1, HeadTailProperties
    <3>4. DOMAIN Tail(q) = 1 .. Len(q) - 1
      BY <3>1, <3>3, LenProperties
    <3>5. e = q[1]
      BY <3>1
    <3> QED BY <3>2, <3>3, <3>4, <3>5
  <2> HIDE DEF q, e
  <2>7. ASSUME NEW i, NEW f, NEW S
        PROVE  Sets(call'[a], update'[a], i, f, S) <=> Sets(call[a], update[a], i, f, S)
    <3> DEFINE Is(x) == x.id = i /\ f \in DOMAIN x.fields /\ x.fields[f] = S
    <3>1. Sets(call[a], update[a], i, f, S) <=> \E n \in DOMAIN q : Is(q[n])
      BY <1>1, <1>2 DEF Sets, q
    <3>2. Sets(call'[a], update'[a], i, f, S) <=> Is(e) \/ \E n \in DOMAIN Tail(q) : Is(Tail(q)[n])
      BY <2>3, <2>4 DEF Sets
    <3> HIDE DEF Is
    <3>3. ASSUME NEW n \in DOMAIN q, Is(q[n])
          PROVE  Is(e) \/ \E m \in DOMAIN Tail(q) : Is(Tail(q)[m])
      <4>1. CASE n = 1
        BY <2>6, <3>3, <4>1
      <4>2. CASE n # 1
        <5>1. n - 1 \in DOMAIN Tail(q) /\ Tail(q)[n - 1] = q[n]
          BY <2>6, <4>2
        <5> QED BY <3>3, <5>1
      <4> QED BY <4>1, <4>2
    <3>4. ASSUME NEW m \in DOMAIN Tail(q), Is(Tail(q)[m]) PROVE \E n \in DOMAIN q : Is(q[n])
      <4>1. m + 1 \in DOMAIN q /\ q[m + 1] = Tail(q)[m]
        BY <2>6
      <4> QED BY <3>4, <4>1
    <3>5. Is(e) => \E n \in DOMAIN q : Is(q[n])
      BY <2>6
    <3> QED BY <3>1, <3>2, <3>3, <3>4, <3>5
  <2>8. SameSets(a)
    BY <2>7 DEF SameSets
  <2>9. \A i, t : ~Holding(call'[a], update'[a], i, t)
    BY <2>3, <2>4 DEF Holding
  <2>10. \A i : ~Forgets(call'[a], i)
    BY <2>4 DEF Forgets
  <2> QED BY <1>1, <1>3, <1>4, <2>8, <2>9, <2>10, FilesShown, OneLinks
<1> QED BY <1>5, <1>6

\* The links of a task with some of its fields set anew.
LEMMA OverLinks ==
  ASSUME NEW t \in Task, NEW fields, IsFields(fields), NEW f \in Linking
  PROVE  Over(fields, t)[f] = IF f \in DOMAIN fields THEN fields[f] ELSE t[f]
<1>1. DOMAIN t = {"owner", "status", "blocks", "blockedBy"}
  BY DEF Task
<1>2. f \in DOMAIN fields \cup DOMAIN t
  BY <1>1 DEF Linking
<1> QED BY <1>2 DEF Over

\* The update that writes has set what it was to set.
LEMMA WriteUpdateLinks ==
  ASSUME Fits, Numbered, LinkInv, ~overlap, NEW R, LinksAre(R), NEW a \in Agents,
         WriteUpdate(a)
  PROVE  LinksAre(R)'
<1> DEFINE u == update[a]
           n == u.id
           t == Over(u.fields, u.task)
<1>1. /\ u.pc = "write" /\ Write(n, t) /\ UNCHANGED call
  BY DEF WriteUpdate
<1>2. UpdateOfOne(a) /\ update'[a] = NoUpdate /\ update'[a].pc = "idle"
  BY WriteUpdateFits, IdleWithoutUpdate
<1>3. /\ n \in Ids /\ IsFields(u.fields) /\ u.task \in Task /\ call[a].pc = "updates"
  BY <1>1, InUpdate
<1>4. CallOf(a)
  BY <1>1 DEF CallOf, Fits, Typed
<1>5. \A f \in Linking : t[f] = IF f \in DOMAIN u.fields THEN u.fields[f] ELSE u.task[f]
  BY <1>3, OverLinks
<1>6. Shows(n, u.task)
  BY <1>1 DEF Shows, Holding
<1> HIDE DEF t
<1>7. n \in DOMAIN files
  BY <1>6, BothFields DEF LinksAre
<1>8. /\ DOMAIN files' = DOMAIN files /\ files'[n] = t
      /\ \A i \in DOMAIN files \ {n} : files'[i] = files[i]
  BY <1>1, <1>7 DEF Write
<1> DEFINE Sat(i, f, S) == i = n /\ f \in DOMAIN u.fields /\ S = u.fields[f]
<1>9. ASSUME NEW i, NEW f, NEW S
      PROVE  /\ Sets(call'[a], update'[a], i, f, S) => Sets(call[a], update[a], i, f, S)
             /\ Sets(call[a], update[a], i, f, S) =>
                  Sat(i, f, S) \/ Sets(call'[a], update'[a], i, f, S)
  BY <1>1, <1>2, <1>3 DEF Sets
<1> HIDE DEF Sat
<1>10. ASSUME NEW i, NEW f, NEW S
       PROVE  /\ ToSet(i, f, S)' => ToSet(i, f, S)
              /\ ToSet(i, f, S) => Sat(i, f, S) \/ ToSet(i, f, S)'
  <2>1. \A b \in Agents : /\ Sets(call'[b], update'[b], i, f, S) => Sets(call[b], update[b], i, f, S)
                          /\ Sets(call[b], update[b], i, f, S) =>
                               Sat(i, f, S) \/ Sets(call'[b], update'[b], i, f, S)
    BY <1>2, <1>4, <1>9 DEF CallOf, UpdateOfOne
  <2> QED BY <2>1 DEF ToSet
<1>11. ASSUME NEW i, NEW f, NEW S PROVE Means(R, i, f, S)' <=> Means(R, i, f, S)
  BY <1>1 DEF Means, Dangling
<1>12. ASSUME NEW i, NEW x, Shows(i, x)'
       PROVE  (i = n /\ x = t) \/ (Shows(i, x) /\ (i # n \/ \E b \in Agents \ {a} :
                                                             Holding(call[b], update[b], i, x)))
  <2>1. CASE i \in Readable' /\ x = files'[i]
    BY <1>8, <2>1 DEF Readable, Shows
  <2>2. ASSUME NEW b \in Agents, Holding(call'[b], update'[b], i, x)
        PROVE  Shows(i, x) /\ \E d \in Agents \ {a} : Holding(call[d], update[d], i, x)
    <3>1. b # a
      BY <1>1, <1>2, <1>3, <2>2 DEF Holding
    <3>2. Holding(call[b], update[b], i, x)
      BY <1>2, <1>4, <2>2, <3>1 DEF CallOf, UpdateOfOne
    <3> QED BY <3>1, <3>2 DEF Shows
  <2> QED BY <1>12, <2>1, <2>2 DEF Shows
<1>13. ASSUME NEW i, NEW f, NEW S, f \in Linking, ToSet(i, f, S)'
       PROVE  i \in DOMAIN files' /\ Means(R, i, f, S)'
  <2>1. ToSet(i, f, S)
    BY <1>10, <1>13
  <2>2. i \in DOMAIN files /\ Means(R, i, f, S)
    BY <1>13, <2>1 DEF LinksAre
  <2> QED BY <1>8, <1>11, <2>2
<1>14. ASSUME NEW i, NEW f, NEW x, f \in Linking, Shows(i, x)'
       PROVE  i \in DOMAIN files' /\ ((\E S : ToSet(i, f, S)') \/ Means(R, i, f, x[f])')
  <2>1. CASE i = n /\ f \in DOMAIN u.fields
    <3>1. Linker(call[a].kind)
      <4>1. FieldsFit(call[a].kind, u.fields)
        BY <1>1 DEF LinkInv, LinkFields, SetsFit
      <4> QED BY <1>14, <2>1, <4>1 DEF FieldsFit
    <3>2. \A b \in Agents \ {a} : ~Holding(call[b], update[b], i, x)
      BY <3>1, LinksAlone DEF Quiet
    <3>3. x = t
      BY <1>12, <1>14, <2>1, <3>2
    <3>4. ToSet(n, f, u.fields[f])
      <4>1. Sets(call[a], update[a], n, f, u.fields[f])
        BY <1>1, <2>1 DEF Sets
      <4> QED BY <4>1 DEF ToSet
    <3>5. Means(R, n, f, u.fields[f])
      BY <1>14, <3>4 DEF LinksAre
    <3>6. x[f] = u.fields[f]
      BY <1>5, <1>14, <2>1, <3>3
    <3> QED BY <1>7, <1>8, <1>11, <2>1, <3>5, <3>6
  <2>2. CASE ~(i = n /\ f \in DOMAIN u.fields)
    <3>1. \A S : ~Sat(i, f, S)
      BY <2>2 DEF Sat
    <3>2. PICK y : Shows(i, y) /\ y[f] = x[f]
      <4>1. CASE i = n /\ x = t
        <5>1. x[f] = u.task[f]
          BY <1>5, <1>14, <2>2, <4>1
        <5> QED BY <1>6, <4>1, <5>1
      <4>2. CASE Shows(i, x)
        BY <4>2
      <4> QED BY <1>12, <1>14, <4>1, <4>2
    <3>3. i \in DOMAIN files /\ ((\E S : ToSet(i, f, S)) \/ Means(R, i, f, x[f]))
      <4>1. i \in DOMAIN files /\ ((\E S : ToSet(i, f, S)) \/ Means(R, i, f, y[f]))
        BY <1>14, <3>2 DEF LinksAre
      <4> QED BY <3>2, <4>1
    <3>4. CASE \E S : ToSet(i, f, S)
      <4>1. PICK S : ToSet(i, f, S)
        BY <3>4
      <4>2. ToSet(i, f, S)'
        BY <1>10, <3>1, <4>1
      <4> QED BY <1>8, <3>3, <4>2
    <3>5. CASE Means(R, i, f, x[f])
      BY <1>8, <1>11, <3>3, <3>5
    <3> QED BY <3>3, <3>4, <3>5
  <2> QED BY <2>1, <2>2
<1>15. R \subseteq (DOMAIN files') \X (DOMAIN files')
  BY <1>8 DEF LinksAre
<1>16. \A i : Dangling(i)' => i \notin DOMAIN files'
  BY <1>1, <1>8 DEF LinksAre, Dangling
<1> QED BY <1>13, <1>14, <1>15, <1>16 DEF LinksAre

-----------------------------------------------------------------------------
(* The steps that leave the links alone.                                   *)

Elsewhere == {"updates", "fill", "list references"}

LEMMA OutsideLinks ==
  ASSUME Fits, NEW R, LinksAre(R), NEW a \in Agents, CallOf(a), update[a] = NoUpdate,
         UNCHANGED <<files, update>>, call[a].pc \notin Elsewhere, call'[a].pc \notin Elsewhere
  PROVE  LinksAre(R)'
<1>1. UpdateOfOne(a) /\ update[a].pc = "idle" /\ update'[a].pc = "idle"
  BY OneUpdate, IdleWithoutUpdate
<1>2. Quiet(call[a], update[a]) /\ Quiet(call'[a], update'[a])
  BY <1>1, QuietPlace DEF Elsewhere
<1> QED BY <1>1, <1>2, QuietLinks

\* A call that goes on to updates without links.
LEMMA OtherUpdatesLinks ==
  ASSUME Fits, LinkFields', NEW R, LinksAre(R), NEW a \in Agents, CallOf(a), UpdateOfOne(a),
         update[a] = NoUpdate, UNCHANGED files, call[a].pc \notin Elsewhere,
         call'[a].pc = "updates", ~Linker(call'[a].kind), update'[a].pc \notin {"truncate", "write"}
  PROVE  LinksAre(R)'
<1>1. Quiet(call[a], update[a])
  BY IdleWithoutUpdate, QuietPlace DEF Elsewhere
<1>2. SetsFit(call'[a], update'[a])
  BY DEF LinkFields
<1>3. Quiet(call'[a], update'[a])
  BY <1>2, QuietUpdates
<1> QED BY <1>1, <1>3, QuietLinks

LEMMA NoCallElsewhere == NoCall.pc \notin Elsewhere
BY IdleWithoutUpdate DEF Elsewhere

LEMMA ClaimLinks ==
  ASSUME Fits, LinkFields', NEW R, LinksAre(R), NEW a \in Agents, ClaimStep(a), update[a] = NoUpdate
  PROVE  LinksAre(R)'
<1>1. CASE CheckBlockers(a)
  <2>1. /\ CallOf(a) /\ UpdateOfOne(a)
        /\ \/ call'[a] = NoCall /\ update'[a] = NoUpdate
           \/ /\ call'[a].pc = "updates" /\ call'[a].kind = call[a].kind
              /\ update'[a].pc = "read"
    BY <1>1, CheckBlockersFits
  <2>2. call[a].pc = "blockers" /\ UNCHANGED files
    BY <1>1 DEF CheckBlockers
  <2>3. call[a].pc \notin Elsewhere
    BY <2>2 DEF Elsewhere
  <2>4. CASE call'[a] = NoCall /\ update'[a] = NoUpdate
    <3>1. Quiet(call[a], update[a]) /\ Quiet(call'[a], update'[a])
      BY <2>2, <2>4, IdleWithoutUpdate, QuietPlace
    <3> QED BY <2>1, <2>2, <3>1, QuietLinks
  <2>5. CASE call'[a].pc = "updates" /\ call'[a].kind = call[a].kind /\ update'[a].pc = "read"
    <3>1. ~Linker(call'[a].kind)
      <4>1. CallFits(call[a])
        BY DEF Fits, AgentFits
      <4> QED BY <2>2, <2>5, <4>1, PlaceKinds DEF Linker
    <3> QED BY <2>1, <2>2, <2>3, <2>5, <3>1, OtherUpdatesLinks
  <2> QED BY <2>1, <2>4, <2>5
<1>2. CASE ListToClaim(a) \/ CheckExists(a) \/ LockToClaim(a) \/ CheckOwner(a)
  <2>1. UNCHANGED <<files, update>>
        /\ call[a].pc \in {"claim next", "exists", "task lock", "owner"}
    BY <1>2 DEF ListToClaim, CheckExists, LockToClaim, CheckOwner
  <2>2. CallOf(a) /\ (call'[a] = NoCall \/ call'[a].pc \in {"exists", "task lock", "owner", "blockers"})
    BY <1>2, ListToClaimFits, CheckExistsFits, LockToClaimFits, CheckOwnerFits
  <2>3. call[a].pc \notin Elsewhere /\ call'[a].pc \notin Elsewhere
    BY <2>1, <2>2, NoCallElsewhere DEF Elsewhere
  <2> QED BY <2>1, <2>2, <2>3, OutsideLinks
<1> QED BY <1>1, <1>2 DEF ClaimStep

\* The file of a new task has no links, and nobody links to it.
LEMMA CreateFileLinks ==
  ASSUME Fits, UpdateInv, Numbered, ~overlap, NEW R, LinksAre(R), NEW a \in Agents, CreateFile(a),
         update[a] = NoUpdate
  PROVE  LinksAre(R)'
<1> DEFINE n == NextId(call[a])
<1>1. CallOf(a) /\ call'[a].pc = "fill" /\ call'[a].id = n
  BY CreateFileFits
<1>2. call[a].pc = "create" /\ n \in Ids /\ Write(n, Torn) /\ UNCHANGED update
  BY DEF CreateFile
<1>3. UpdateOfOne(a) /\ update[a].pc = "idle" /\ update'[a].pc = "idle"
  BY <1>2, OneUpdate, IdleWithoutUpdate
<1>4. n \notin DOMAIN files
  <2>1. n = call[a].high + 1 /\ call[a].high \in Nat /\ given[n] \in Nat /\ n \in Nat
    BY <1>2, Numbers DEF NextId, Fits, AgentFits, CallFits, Typed
  <2>2. \A i \in Ids : given[i] >= 1 => i <= call[a].high
    BY <1>2 DEF Numbered, Numbering, NumberFits
  <2> HIDE DEF n
  <2>3. ~(n <= call[a].high)
    BY <2>1
  <2>4. given[n] = 0
    BY <1>2, <2>1, <2>2, <2>3
  <2> QED BY <1>2, <2>4 DEF UpdateInv, NewUnused
<1> HIDE DEF n
<1>5. DOMAIN files' = DOMAIN files \cup {n} /\ \A i \in Readable' : i \in Readable /\ files'[i] = files[i]
  BY <1>2 DEF Write, Readable
<1>6. \A i, f, S : f \in Linking => (ToSet(i, f, S)' <=> ToSet(i, f, S))
  <2>1. SameSets(a)
    BY <1>1, <1>2, <1>3, NothingSet DEF SameSets
  <2> QED BY <1>1, <1>3, <2>1, SetsStay
<1>7. \A i : Dangling(i)' <=> Dangling(i)
  BY <1>1, <1>2, DanglingStays DEF Forgets
<1>8. ASSUME NEW i, NEW f, NEW S PROVE Means(R, i, f, S)' <=> Means(R, i, f, S)
  BY <1>7 DEF Means
<1>9. ASSUME NEW i, NEW t, Shows(i, t)' PROVE Shows(i, t) \/ (i = n /\ t = NewTask)
  <2>1. CASE i \in Readable' /\ t = files'[i]
    BY <1>5, <2>1 DEF Shows
  <2>2. ASSUME NEW b \in Agents, Holding(call'[b], update'[b], i, t)
        PROVE  Shows(i, t) \/ (i = n /\ t = NewTask)
    <3>1. CASE b = a
      BY <1>1, <1>3, <2>2, <3>1 DEF Holding
    <3>2. CASE b # a
      <4>1. Holding(call[b], update[b], i, t)
        BY <1>1, <1>3, <2>2, <3>2 DEF CallOf, UpdateOfOne
      <4> QED BY <4>1 DEF Shows
    <3> QED BY <3>1, <3>2
  <2> QED BY <1>9, <2>1, <2>2 DEF Shows
<1>10. ASSUME NEW i, NEW f, NEW t, f \in Linking, Shows(i, t)'
       PROVE  i \in DOMAIN files' /\ ((\E S : ToSet(i, f, S)') \/ Means(R, i, f, t[f])')
  <2>1. CASE Shows(i, t)
    <3>1. i \in DOMAIN files /\ ((\E S : ToSet(i, f, S)) \/ Means(R, i, f, t[f]))
      BY <1>10, <2>1 DEF LinksAre
    <3>2. CASE \E S : ToSet(i, f, S)
      <4>1. PICK S : ToSet(i, f, S)
        BY <3>2
      <4> QED BY <1>5, <1>6, <1>10, <3>1, <4>1
    <3>3. CASE Means(R, i, f, t[f])
      BY <1>5, <1>8, <3>1, <3>3
    <3> QED BY <3>1, <3>2, <3>3
  <2>2. CASE i = n /\ t = NewTask
    <3>1. t[f] = {}
      BY <1>10, <2>2 DEF NewTask, Linking
    <3>2. \A j : <<n, j>> \notin R /\ <<j, n>> \notin R
      BY <1>4 DEF LinksAre
    <3>3. Means(R, i, f, t[f])
      BY <2>2, <3>1, <3>2 DEF Means, Linked
    <3> QED BY <1>5, <1>8, <2>2, <3>3
  <2> QED BY <1>9, <1>10, <2>1, <2>2
<1>11. R \subseteq (DOMAIN files') \X (DOMAIN files')
  BY <1>5 DEF LinksAre
<1>12. ASSUME NEW i, NEW f, NEW S, f \in Linking, ToSet(i, f, S)'
       PROVE  i \in DOMAIN files' /\ Means(R, i, f, S)'
  <2>1. i \in DOMAIN files /\ Means(R, i, f, S)
    BY <1>6, <1>12 DEF LinksAre
  <2> QED BY <1>5, <1>8, <2>1
<1>13. \A i : ~Dangling(i)
  <2>1. \A b \in Agents \ {a} : call[b].kind # "delete"
    <3>1. call[a].kind = "create" /\ Serial
      <4>1. CallFits(call[a])
        BY DEF Fits, AgentFits
      <4> QED BY <1>2, <4>1, PlaceKinds DEF Numbered, Numbering
    <3> QED BY <3>1 DEF Serial, Serialised
  <2>2. \A b \in Agents : CallFits(call[b])
    BY DEF Fits, AgentFits
  <2>3. \A b \in Agents : call[b].pc # "list references"
    BY <1>2, <2>1, <2>2, PlaceKinds
  <2> QED BY <2>3 DEF Dangling, Forgets
<1> QED BY <1>7, <1>10, <1>11, <1>12, <1>13 DEF LinksAre

LEMMA FillFileLinks ==
  ASSUME Fits, NEW R, LinksAre(R), NEW a \in Agents, FillFile(a), update[a] = NoUpdate
  PROVE  LinksAre(R)'
<1>1. call[a].pc = "fill" /\ Write(call[a].id, NewTask) /\ UNCHANGED update
  BY DEF FillFile
<1>2. CallOf(a) /\ call'[a] = NoCall
  BY FillFileFits
<1>3. UpdateOfOne(a) /\ update[a].pc = "idle" /\ update'[a].pc = "idle" /\ call'[a].pc = "idle"
  BY <1>1, <1>2, OneUpdate, IdleWithoutUpdate
<1>4. Shows(call[a].id, NewTask)
  BY <1>1 DEF Shows, Holding
<1>5. call[a].id \in DOMAIN files
  BY <1>4, BothFields DEF LinksAre
<1>6. DOMAIN files' = DOMAIN files
  BY <1>1, <1>5 DEF Write
<1>7. \A i \in Readable' : Shows(i, files'[i])
  <2>1. \A i \in Readable' : (i = call[a].id /\ files'[i] = NewTask)
                             \/ (i \in Readable /\ files'[i] = files[i])
    BY <1>1 DEF Write, Readable
  <2> QED BY <1>4, <2>1, ReadableShown
<1>8. SameSets(a)
  BY <1>1, <1>3, NothingSet DEF SameSets
<1>9. Quiet(call'[a], update'[a])
  BY <1>3, QuietPlace
<1>10. \A i : ~Forgets(call[a], i) /\ ~Forgets(call'[a], i)
  BY <1>1, <1>3 DEF Forgets
<1> QED BY <1>2, <1>3, <1>6, <1>7, <1>8, <1>9, <1>10, OneLinks DEF Quiet

\* Once all tasks are cleared, there are no links, and nobody is about to set any.
LEMMA EndResetLinks ==
  ASSUME Fits, Numbered, ListedToClear, ~overlap, NEW a \in Agents, EndReset(a), update[a] = NoUpdate
  PROVE  \E R : LinksAre(R)'
<1>1. Clears(call[a]) /\ call[a].left = {} /\ UNCHANGED <<files, update>>
  BY DEF EndReset, Clears
<1>2. DOMAIN files' = {}
  BY <1>1 DEF ListedToClear
<1>3. CallOf(a) /\ call'[a] = NoCall
  BY EndResetFits
<1>4. ASSUME NEW b \in Agents PROVE Quiet(call'[b], update'[b])
  <2>1. CASE b = a
    BY <1>1, <1>3, <2>1, IdleWithoutUpdate, QuietPlace
  <2>2. CASE b # a
    <3>1. update[b].pc # "idle" => call[b].pc = "updates"
      BY DEF Fits, AgentFits
    <3>2. call[b].pc \notin {"fill", "updates", "list references"}
      BY <1>1, <2>2, ClearsAlone
    <3>3. Quiet(call[b], update[b])
      BY <3>1, <3>2, QuietPlace
    <3> QED BY <1>1, <1>3, <2>2, <3>3 DEF CallOf
  <2> QED BY <2>1, <2>2
<1>5. \A i, f, S : f \in Linking => ~ToSet(i, f, S)'
  BY <1>4 DEF ToSet, Quiet
<1>6. \A i, t : ~Shows(i, t)'
  BY <1>2, <1>4 DEF Shows, Quiet, Readable
<1>7. LinksAre({})'
  BY <1>2, <1>5, <1>6 DEF LinksAre
<1> QED BY <1>7

LEMMA NumberingLinks ==
  ASSUME Fits, UpdateInv, Numbered, ~overlap, NEW R, LinksAre(R), NEW a \in Agents,
         NumberingStep(a), update[a] = NoUpdate, ~Clears(call[a]), ~Clears(call'[a])
  PROVE  LinksAre(R)'
<1>1. CASE \/ LockList(a) \/ ReadFiles(a) \/ MarkFirst(a) \/ ReadMark(a) \/ EmptyMark(a)
           \/ WriteMark(a) \/ CheckAllDone(a)
  <2>1. /\ UNCHANGED <<files, update>>
        /\ call[a].pc \in {"list lock", "files", "files only", "mark", "raise", "write mark",
                           "all done"}
    BY <1>1 DEF LockList, ReadFiles, MarkFirst, ReadMark, EmptyMark, WriteMark, CheckAllDone
  <2>2. call[a].pc \notin Elsewhere
    BY <2>1 DEF Elsewhere
  <2>3. CallOf(a) /\ call'[a].pc \notin Elsewhere
    <3>1. CASE LockList(a)
      BY <3>1, LockListFits DEF Elsewhere
    <3>2. CASE ReadFiles(a)
      <4>1. call[a].pc \in {"files", "files only"}
        BY <3>2 DEF ReadFiles
      <4> QED BY <3>2, <4>1, ReadFilesFits DEF Elsewhere
    <3>3. CASE MarkFirst(a)
      BY <3>3, MarkFirstFits DEF Elsewhere
    <3>4. CASE ReadMark(a)
      BY <3>4, ReadMarkFits DEF Elsewhere
    <3>5. CASE EmptyMark(a) \/ WriteMark(a)
      BY <3>5, EmptyMarkFits, WriteMarkFits DEF Elsewhere
    <3>6. CASE CheckAllDone(a)
      BY <3>6, CheckAllDoneFits, NoCallElsewhere DEF Elsewhere
    <3> QED BY <1>1, <3>1, <3>2, <3>3, <3>4, <3>5, <3>6
  <2> QED BY <2>1, <2>2, <2>3, OutsideLinks
<1>2. CASE CreateFile(a)
  BY <1>2, CreateFileLinks
<1>3. CASE FillFile(a)
  BY <1>3, FillFileLinks
<1>4. CASE ListToUnlink(a) \/ UnlinkNext(a) \/ EndReset(a)
  BY <1>4, ListToUnlinkFits DEF UnlinkNext, EndReset, Clears
<1> QED BY <1>1, <1>2, <1>3, <1>4 DEF NumberingStep

-----------------------------------------------------------------------------
(* deleteTask and blockTask.                                               *)

\* A listing shows every id it is of.
LEMMA InOrderAll ==
  ASSUME NEW ids, ids \subseteq Ids, NEW i \in ids
  PROVE  \E k \in DOMAIN InOrder(ids) : InOrder(ids)[k] = i
<1> DEFINE m == InitialTasks + MaxCalls
           Shown(q) == \E k \in DOMAIN q : q[k] = i
<1>1. m \in Nat
  BY TaskListAssumption
<1>2. PICK f : IsListing(ids, f, m) /\ InOrder(ids) = f[m]
  <2> DEFINE g == CHOOSE h : IsListing(ids, h, m)
  <2>1. IsListing(ids, g, m)
    BY <1>1, ListingExists
  <2>2. InOrder(ids) = g[m]
    BY DEF InOrder, IsListing, Listed
  <2> QED BY <2>1, <2>2
<1>3. i \in Nat /\ 1 <= i /\ i <= m
  BY <1>1 DEF Ids
<1> HIDE DEF m
<1> DEFINE Bad == {n \in Nat : n <= m /\ ~(f[n] \in Seq(ids) /\ (i <= n => Shown(f[n])))}
<1>4. ASSUME Bad # {} PROVE FALSE
  <2>1. PICK n \in Bad : \A k \in Bad : n <= k
    <3>1. Bad \in SUBSET Nat
      OBVIOUS
    <3> HIDE DEF Bad
    <3> QED BY <1>4, <3>1, LeastOf
  <2>2. n \in Nat /\ n <= m /\ ~(f[n] \in Seq(ids) /\ (i <= n => Shown(f[n])))
    OBVIOUS
  <2>3. f[n] = Listed(ids, f, n)
    BY <1>1, <1>2, <2>2 DEF IsListing
  <2>4. CASE n = 0
    <3>1. f[n] = <<>> /\ ~(i <= n)
      BY <1>3, <2>3, <2>4 DEF Listed
    <3> QED BY <2>2, <3>1, EmptySeq
  <2>5. CASE n # 0
    <3> DEFINE q == f[n - 1]
    <3>1. n - 1 \in Nat /\ n - 1 <= m /\ n - 1 < n
      BY <1>1, <2>2, <2>5
    <3>2. q \in Seq(ids) /\ (i <= n - 1 => Shown(q))
      BY <2>1, <3>1
    <3>3. f[n] = IF n \in ids THEN Append(q, n) ELSE q
      BY <2>3, <2>5 DEF Listed
    <3> HIDE DEF q, Bad
    <3>4. CASE n \notin ids
      <4>1. i <= n => i <= n - 1
        BY <1>3, <2>2, <3>4
      <4> QED BY <2>2, <3>2, <3>3, <3>4, <4>1
    <3>5. CASE n \in ids
      <4>1. f[n] = Append(q, n)
        BY <3>3, <3>5
      <4>2. /\ Append(q, n) \in Seq(ids) /\ Len(Append(q, n)) = Len(q) + 1 /\ Len(q) \in Nat
            /\ DOMAIN q = 1 .. Len(q)
            /\ \A k \in 1 .. Len(q) : Append(q, n)[k] = q[k]
            /\ Append(q, n)[Len(q) + 1] = n
        BY <3>2, <3>5, AppendProperties, LenProperties
      <4>3. DOMAIN Append(q, n) = 1 .. Len(q) + 1
        BY <4>2, LenProperties
      <4>4. ASSUME i <= n PROVE Shown(Append(q, n))
        <5>1. CASE i = n
          <6>1. Len(q) + 1 \in DOMAIN Append(q, n) /\ Append(q, n)[Len(q) + 1] = i
            BY <4>2, <4>3, <5>1
          <6> QED BY <6>1
        <5>2. CASE i # n
          <6>1. i <= n - 1
            BY <1>3, <2>2, <4>4, <5>2
          <6>2. PICK k \in DOMAIN q : q[k] = i
            BY <3>2, <6>1
          <6>3. k \in DOMAIN Append(q, n) /\ Append(q, n)[k] = i
            BY <4>2, <4>3, <6>2
          <6> QED BY <6>3
        <5> QED BY <5>1, <5>2
      <4> QED BY <2>2, <4>1, <4>2, <4>4
    <3> QED BY <3>4, <3>5
  <2> QED BY <2>4, <2>5
<1>5. Shown(f[m])
  <2>1. m \notin Bad
    BY <1>4
  <2> QED BY <1>1, <1>3, <2>1
<1> QED BY <1>2, <1>5

\* A call that links tasks and is at its own steps, outside an update: what is shown are
\* the files, and nobody else is to set anything.
LEMMA AloneShows ==
  ASSUME Fits, Numbered, LinkInv, ~overlap, gone = {}, NEW a \in Agents, Linker(call[a].kind),
         update[a] = NoUpdate, call[a].pc \notin {"updates", "fill"}
  PROVE  /\ DOMAIN files = Readable
         /\ \A i, t : Shows(i, t) <=> i \in DOMAIN files /\ t = files[i]
         /\ \A i, f, S : f \in Linking => ~ToSet(i, f, S)
         /\ \A i : Dangling(i) <=> Forgets(call[a], i)
<1>1. update[a].pc = "idle"
  BY IdleWithoutUpdate
<1>2. DOMAIN files = Readable
  BY <1>1, AloneReads
<1>3. \A b \in Agents \ {a} : Quiet(call[b], update[b])
  BY LinksAlone
<1>4. \A b \in Agents : \A i, t : ~Holding(call[b], update[b], i, t)
  BY <1>1, <1>3 DEF Quiet, Holding
<1>5. \A i, t : Shows(i, t) <=> i \in DOMAIN files /\ t = files[i]
  BY <1>2, <1>4 DEF Shows
<1>6. \A b \in Agents : \A i, f, S : f \in Linking => ~Sets(call[b], update[b], i, f, S)
  BY <1>1, <1>3, NothingSet DEF Quiet
<1>7. \A i : Dangling(i) <=> Forgets(call[a], i)
  BY <1>3 DEF Dangling, Quiet
<1> QED BY <1>2, <1>5, <1>6, <1>7 DEF ToSet

\* What it shows after a step outside an update.
LEMMA AloneShowsThen ==
  ASSUME Fits, Numbered, ~overlap, NEW a \in Agents, Linker(call[a].kind),
         CallOf(a), update[a] = NoUpdate, UNCHANGED update, call'[a].pc # "fill"
  PROVE  /\ \A i, t : Shows(i, t)' => i \in DOMAIN files' /\ t = files'[i]
         /\ \A i, f, S : f \in Linking =>
              (ToSet(i, f, S)' <=> Sets(call'[a], update'[a], i, f, S))
         /\ \A i : Dangling(i)' <=> Forgets(call'[a], i)
<1>1. update'[a].pc = "idle"
  BY IdleWithoutUpdate
<1>2. \A b \in Agents \ {a} : Quiet(call'[b], update'[b])
  BY LinksAlone DEF CallOf
<1>3. \A b \in Agents : \A i, t : ~Holding(call'[b], update'[b], i, t)
  BY <1>1, <1>2 DEF Quiet, Holding
<1>4. \A i, t : Shows(i, t)' => i \in DOMAIN files' /\ t = files'[i]
  BY <1>3 DEF Shows, Readable
<1>5. \A i : Dangling(i)' <=> Forgets(call'[a], i)
  BY <1>2 DEF Dangling, Quiet
<1>6. \A i, f, S : f \in Linking => (ToSet(i, f, S)' <=> Sets(call'[a], update'[a], i, f, S))
  BY <1>2 DEF ToSet, Quiet
<1> QED BY <1>4, <1>5, <1>6

\* The links of a task that is deleted go with it, on the other side with the references.
LEMMA UnlinkTaskLinks ==
  ASSUME Fits, Numbered, LinkInv, ~overlap, gone = {}, NEW R, LinksAre(R), NEW a \in Agents,
         UnlinkTask(a), update[a] = NoUpdate
  PROVE  \E Q : LinksAre(Q)'
<1> DEFINE i == call[a].id
<1> PICK Q : Q = R \cap ((DOMAIN files') \X (DOMAIN files'))
  OBVIOUS
<1>1. /\ call[a].pc = "unlink" /\ UNCHANGED update
      /\ files' = [j \in DOMAIN files \ {i} |-> files[j]]
      /\ IF i \in DOMAIN files THEN Goes(a, "list references") ELSE Ends(a)
  BY DEF UnlinkTask
<1>2. CallFits(call[a]) /\ DOMAIN call = Agents
  BY DEF Fits, AgentFits, Typed
<1>3. Linker(call[a].kind)
  BY <1>1, <1>2, PlaceKinds DEF Linker
<1>4. /\ CallOf(a) /\ call'[a].pc \notin {"updates", "fill"}
      /\ i \in DOMAIN files => call'[a].pc = "list references" /\ call'[a].id = i
      /\ i \notin DOMAIN files => call'[a].pc = "idle"
  <2>1. CASE i \in DOMAIN files
    <3>1. call' = [call EXCEPT ![a].pc = "list references"]
      BY <1>1, <2>1 DEF Goes
    <3>2. CallOf(a) /\ call'[a].pc = "list references" /\ call'[a].id = i
      BY <1>2, <3>1 DEF CallOf, CallFits
    <3> QED BY <2>1, <3>2
  <2>2. CASE i \notin DOMAIN files
    <3>1. CallOf(a) /\ call'[a] = NoCall
      BY <1>1, <2>2, EndsFits DEF Ends
    <3> QED BY <2>2, <3>1, IdleWithoutUpdate
  <2> QED BY <2>1, <2>2
<1> HIDE DEF i
<1>5. DOMAIN files' = DOMAIN files \ {i} /\ \A j \in DOMAIN files' : files'[j] = files[j]
  BY <1>1
<1>6. /\ \A j, t : Shows(j, t) <=> j \in DOMAIN files /\ t = files[j]
      /\ \A j, f, S : f \in Linking => ~ToSet(j, f, S)
      /\ \A j : ~Dangling(j)
  BY <1>1, <1>3, AloneShows DEF Forgets
<1>7. /\ \A j, t : Shows(j, t)' => j \in DOMAIN files' /\ t = files'[j]
      /\ \A j, f, S : f \in Linking => ~ToSet(j, f, S)'
      /\ \A j : Dangling(j)' <=> Forgets(call'[a], j)
  <2>1. \A j, f, S : ~Sets(call'[a], update'[a], j, f, S)
    BY <1>1, <1>4, IdleWithoutUpdate, NothingSet
  <2> QED BY <1>1, <1>3, <1>4, <2>1, AloneShowsThen
<1>8. \A j : Dangling(j)' <=> j = i /\ i \in DOMAIN files
  BY <1>4, <1>7 DEF Forgets
<1>9. ASSUME NEW j, NEW f, NEW t, f \in Linking, Shows(j, t)'
      PROVE  j \in DOMAIN files' /\ Means(Q, j, f, t[f])'
  <2>1. j \in DOMAIN files' /\ j \in DOMAIN files /\ t = files[j]
    BY <1>5, <1>7, <1>9
  <2>2. Means(R, j, f, t[f])
    BY <1>6, <1>9, <2>1 DEF LinksAre
  <2>3. ASSUME NEW k \in Ids PROVE Dangling(k)' \/ (k \in t[f] <=> Linked(Q, f, j, k))
    <3>1. k \in t[f] <=> Linked(R, f, j, k)
      BY <1>6, <2>2 DEF Means
    <3>2. CASE k \in DOMAIN files'
      BY <2>1, <3>1, <3>2 DEF Linked
    <3>3. CASE k \notin DOMAIN files
      <4>1. ~Linked(R, f, j, k) /\ ~Linked(Q, f, j, k)
        BY <3>3 DEF LinksAre, Linked
      <4> QED BY <3>1, <4>1
    <3>4. CASE k = i /\ i \in DOMAIN files
      BY <1>8, <3>4
    <3> QED BY <1>5, <3>2, <3>3, <3>4
  <2> QED BY <2>1, <2>3 DEF Means
<1>10. LinksAre(Q)'
  <2>1. \A j : Dangling(j)' => j \notin DOMAIN files'
    BY <1>5, <1>8
  <2>2. Q \subseteq (DOMAIN files') \X (DOMAIN files')
    OBVIOUS
  <2> QED BY <1>7, <1>9, <2>1, <2>2 DEF LinksAre
<1> QED BY <1>10

\* Without: what is left of the links of a task.
LEMMA WithoutLinks ==
  ASSUME NEW t, NEW i, NEW f \in Linking
  PROVE  f \in DOMAIN Without(t, i) /\ Without(t, i)[f] = t[f] \ {i}
BY DEF Without, Linking

\* Each task that refers to the deleted one is going to forget it.
LEMMA ListReferencesLinks ==
  ASSUME Fits, Numbered, LinkInv, ~overlap, gone = {}, NEW R, LinksAre(R), NEW a \in Agents,
         ListReferences(a), update[a] = NoUpdate
  PROVE  LinksAre(R)'
<1> DEFINE i == call[a].id
           refer == {j \in Readable : i \in files[j].blocks \cup files[j].blockedBy}
           q == InOrder(refer)
           entry(j) == UpdateOf(j, Without(files[j], i))
           todo == [n \in DOMAIN q |-> entry(q[n])]
<1>1. /\ call[a].pc = "list references" /\ Updates(a, todo) /\ UNCHANGED <<files, update>>
  BY DEF ListReferences
<1>2. CallFits(call[a])
  BY DEF Fits, AgentFits
<1>3. Linker(call[a].kind)
  BY <1>1, <1>2, PlaceKinds DEF Linker
<1>4. CallOf(a) /\ call'[a].pc = "updates" /\ call'[a].todo = todo
  <2> HIDE DEF todo
  <2> QED BY <1>1, UpdatesTodo
<1>5. (\A n \in DOMAIN q : q[n] \in refer) /\ \A j \in refer : \E n \in DOMAIN q : q[n] = j
  <2>1. refer \subseteq Ids
    BY DEF Readable, Fits, Typed
  <2> HIDE DEF refer
  <2> QED BY <2>1, ListedAll, InOrderAll
<1>6. \A j, f, S : f \in Linking =>
        (Sets(call'[a], update'[a], j, f, S) <=> j \in refer /\ S = files[j][f] \ {i})
  <2> SUFFICES ASSUME NEW j, NEW f \in Linking, NEW S
               PROVE  Sets(call'[a], update'[a], j, f, S) <=> j \in refer /\ S = files[j][f] \ {i}
    OBVIOUS
  <2>1. update'[a].pc = "idle"
    BY <1>1, IdleWithoutUpdate
  <2>2. \A n \in DOMAIN q : todo[n].id = q[n] /\ f \in DOMAIN todo[n].fields
                            /\ todo[n].fields[f] = files[q[n]][f] \ {i}
    <3>1. \A n \in DOMAIN q : todo[n].id = q[n] /\ todo[n].fields = Without(files[q[n]], i)
      BY DEF UpdateOf
    <3> HIDE DEF todo, q
    <3> QED BY <3>1, WithoutLinks
  <2>3. DOMAIN todo = DOMAIN q
    OBVIOUS
  <2> HIDE DEF todo, q, refer, i
  <2>4. Sets(call'[a], update'[a], j, f, S) <=>
          \E n \in DOMAIN q : q[n] = j /\ S = files[q[n]][f] \ {i}
    BY <1>4, <2>1, <2>2, <2>3 DEF Sets
  <2> QED BY <1>5, <2>4
<1> HIDE DEF q, todo
<1>7. /\ DOMAIN files = Readable
      /\ \A j, t : Shows(j, t) <=> j \in DOMAIN files /\ t = files[j]
      /\ \A j, f, S : f \in Linking => ~ToSet(j, f, S)
      /\ \A j : Dangling(j) <=> j = i
  BY <1>1, <1>3, AloneShows DEF Forgets
<1>8. /\ \A j, t : Shows(j, t)' => j \in DOMAIN files' /\ t = files'[j]
      /\ \A j, f, S : f \in Linking =>
           (ToSet(j, f, S)' <=> Sets(call'[a], update'[a], j, f, S))
      /\ \A j : ~Dangling(j)'
  BY <1>1, <1>3, <1>4, AloneShowsThen DEF Forgets
<1>9. i \notin DOMAIN files /\ \A k : <<i, k>> \notin R /\ <<k, i>> \notin R
  BY <1>7 DEF LinksAre
<1>10. ASSUME NEW j \in DOMAIN files, NEW f \in Linking, NEW S, S = files[j][f] \ {i}
       PROVE  Means(R, j, f, S)'
  <2>1. Means(R, j, f, files[j][f])
    BY <1>7 DEF LinksAre
  <2>2. \A k \in Ids : k = i \/ (k \in files[j][f] <=> Linked(R, f, j, k))
    BY <1>7, <2>1 DEF Means
  <2>3. ~Linked(R, f, j, i)
    BY <1>9 DEF Linked
  <2>4. \A k \in Ids : k \in S <=> Linked(R, f, j, k)
    BY <1>10, <2>2, <2>3
  <2> QED BY <2>4 DEF Means
<1>11. ASSUME NEW j, NEW f, NEW S, f \in Linking, ToSet(j, f, S)'
       PROVE  j \in DOMAIN files' /\ Means(R, j, f, S)'
  <2>1. j \in DOMAIN files /\ S = files[j][f] \ {i}
    BY <1>6, <1>7, <1>8, <1>11
  <2> QED BY <1>1, <1>10, <1>11, <2>1
<1>12. ASSUME NEW j, NEW f, NEW t, f \in Linking, Shows(j, t)'
       PROVE  j \in DOMAIN files' /\ ((\E S : ToSet(j, f, S)') \/ Means(R, j, f, t[f])')
  <2>1. j \in DOMAIN files' /\ j \in DOMAIN files /\ t = files[j]
    BY <1>1, <1>8, <1>12
  <2>2. CASE j \in refer
    <3>1. PICK S : S = files[j][f] \ {i}
      OBVIOUS
    <3>2. ToSet(j, f, S)'
      BY <1>6, <1>8, <1>12, <2>2, <3>1
    <3> QED BY <2>1, <3>2
  <2>3. CASE j \notin refer
    <3>1. i \notin files[j].blocks /\ i \notin files[j].blockedBy
      BY <1>7, <2>1, <2>3
    <3>2. t[f] = files[j][f] \ {i}
      BY <1>12, <2>1, <3>1 DEF Linking
    <3> QED BY <1>10, <1>12, <2>1, <3>2
  <2> QED BY <2>2, <2>3
<1>13. R \subseteq (DOMAIN files') \X (DOMAIN files')
  BY <1>1 DEF LinksAre
<1> QED BY <1>8, <1>11, <1>12, <1>13 DEF LinksAre

\* The updates blockTask goes on to: one for each task that does not show the link yet.
LEMMA EitherEntry ==
  ASSUME NEW A \in BOOLEAN, NEW B \in BOOLEAN, NEW e, NEW d, NEW todo,
         todo = (IF A THEN <<>> ELSE <<e>>) \o (IF B THEN <<>> ELSE <<d>>)
  PROVE  \A z : (\E n \in DOMAIN todo : todo[n] = z) <=> (z = e /\ ~A) \/ (z = d /\ ~B)
<1>1. CASE A /\ B
  <2>1. todo = <<>> /\ DOMAIN todo = {}
    BY <1>1
  <2> QED BY <1>1, <2>1
<1>2. CASE A /\ ~B
  <2>1. DOMAIN todo = {1} /\ todo[1] = d
    BY <1>2
  <2> QED BY <1>2, <2>1
<1>3. CASE ~A /\ B
  <2>1. DOMAIN todo = {1} /\ todo[1] = e
    BY <1>3
  <2> QED BY <1>3, <2>1
<1>4. CASE ~A /\ ~B
  <2>1. DOMAIN todo = {1, 2} /\ todo[1] = e /\ todo[2] = d
    BY <1>4
  <2> QED BY <1>4, <2>1
<1> QED BY <1>1, <1>2, <1>3, <1>4

\* blockTask links its two tasks.
LEMMA ReadToBlockLinks ==
  ASSUME Fits, Numbered, LinkInv, ~overlap, gone = {}, NEW R, LinksAre(R), NEW a \in Agents,
         ReadToBlock(a), update[a] = NoUpdate
  PROVE  \E Q : LinksAre(Q)'
<1> DEFINE from == call[a].id
           to == call[a].high
           x == files[from].blocks
           y == files[to].blockedBy
           e == UpdateOf(from, [blocks |-> x \cup {to}])
           d == UpdateOf(to, [blockedBy |-> y \cup {from}])
           todo == (IF to \in x THEN <<>> ELSE <<e>>) \o (IF from \in y THEN <<>> ELSE <<d>>)
<1> PICK Q : Q = R \cup {<<from, to>>}
  OBVIOUS
<1>1. /\ call[a].pc = "read both" /\ UNCHANGED <<files, update>>
      /\ (from \in Readable /\ to \in Readable /\ Updates(a, todo)) \/ Ends(a)
  BY DEF ReadToBlock
<1>2. CallFits(call[a])
  BY DEF Fits, AgentFits
<1>3. Linker(call[a].kind)
  BY <1>1, <1>2, PlaceKinds DEF Linker
<1>4. CASE Ends(a)
  <2>1. CallOf(a) /\ call'[a] = NoCall
    BY <1>4, EndsFits DEF Ends
  <2>2. call[a].pc \notin Elsewhere /\ call'[a].pc \notin Elsewhere
    BY <1>1, <2>1, NoCallElsewhere DEF Elsewhere
  <2>3. LinksAre(R)'
    BY <1>1, <2>1, <2>2, OutsideLinks
  <2> QED BY <2>3
<1>5. CASE from \in Readable /\ to \in Readable /\ Updates(a, todo)
  <2>1. CallOf(a) /\ call'[a].pc = "updates" /\ call'[a].todo = todo
    <3> HIDE DEF todo
    <3> QED BY <1>5, UpdatesTodo
  <2>2. from \in DOMAIN files /\ to \in DOMAIN files /\ from \in Ids /\ to \in Ids
    BY <1>5 DEF Readable, Fits, Typed
  <2>3. /\ e.id = from /\ DOMAIN e.fields = {"blocks"} /\ e.fields["blocks"] = x \cup {to}
        /\ d.id = to /\ DOMAIN d.fields = {"blockedBy"} /\ d.fields["blockedBy"] = y \cup {from}
    BY DEF UpdateOf
  <2> HIDE DEF e, d
  <2>4. \A z : (\E n \in DOMAIN todo : todo[n] = z) <=> (z = e /\ to \notin x) \/ (z = d /\ from \notin y)
    BY EitherEntry
  <2> HIDE DEF todo
  <2>5. \A j, f, S : Sets(call'[a], update'[a], j, f, S) <=>
          \/ j = from /\ f = "blocks" /\ S = x \cup {to} /\ to \notin x
          \/ j = to /\ f = "blockedBy" /\ S = y \cup {from} /\ from \notin y
    <3>1. update'[a].pc = "idle"
      BY <1>1, IdleWithoutUpdate
    <3>2. ASSUME NEW j, NEW f, NEW S
          PROVE  Sets(call'[a], update'[a], j, f, S) <=>
                   \E z : /\ \E n \in DOMAIN todo : todo[n] = z
                          /\ z.id = j /\ f \in DOMAIN z.fields /\ z.fields[f] = S
      BY <2>1, <3>1 DEF Sets
    <3> HIDE DEF x, y, from, to
    <3>3. ASSUME NEW j, NEW f, NEW S
          PROVE  Sets(call'[a], update'[a], j, f, S) <=>
                   \/ to \notin x /\ e.id = j /\ f \in DOMAIN e.fields /\ e.fields[f] = S
                   \/ from \notin y /\ d.id = j /\ f \in DOMAIN d.fields /\ d.fields[f] = S
      BY <2>4, <3>2
    <3>4. ASSUME NEW j, NEW f, NEW S
          PROVE  Sets(call'[a], update'[a], j, f, S) <=>
                   \/ to \notin x /\ from = j /\ f = "blocks" /\ x \cup {to} = S
                   \/ from \notin y /\ to = j /\ f = "blockedBy" /\ y \cup {from} = S
      <4> DEFINE A == f \in DOMAIN e.fields /\ e.fields[f] = S
                 B == f \in DOMAIN d.fields /\ d.fields[f] = S
      <4>1. A <=> f = "blocks" /\ S = x \cup {to}
        BY <2>3
      <4>2. B <=> f = "blockedBy" /\ S = y \cup {from}
        BY <2>3
      <4>3. e.id = from /\ d.id = to
        BY <2>3
      <4>4. Sets(call'[a], update'[a], j, f, S) <=>
              (to \notin x /\ e.id = j /\ A) \/ (from \notin y /\ d.id = j /\ B)
        BY <3>3
      <4> HIDE DEF A, B
      <4> QED BY <4>1, <4>2, <4>3, <4>4
    <3> QED BY <3>4
  <2> HIDE DEF x, y
  <2>6. /\ DOMAIN files = Readable
        /\ \A j, t : Shows(j, t) <=> j \in DOMAIN files /\ t = files[j]
        /\ \A j, f, S : f \in Linking => ~ToSet(j, f, S)
        /\ \A j : ~Dangling(j)
    BY <1>1, <1>3, AloneShows DEF Forgets
  <2>7. /\ \A j, t : Shows(j, t)' => j \in DOMAIN files' /\ t = files'[j]
        /\ \A j, f, S : f \in Linking =>
             (ToSet(j, f, S)' <=> Sets(call'[a], update'[a], j, f, S))
        /\ \A j : ~Dangling(j)'
    BY <1>1, <1>3, <2>1, AloneShowsThen DEF Forgets
  <2> HIDE DEF from, to
  <2>8. ASSUME NEW j \in DOMAIN files, NEW f \in Linking, NEW k \in Ids
        PROVE  k \in files[j][f] <=> Linked(R, f, j, k)
    BY <2>6 DEF LinksAre, Means
  <2>9. x = files[from]["blocks"] /\ y = files[to]["blockedBy"]
    BY DEF x, y
  <2>10. ASSUME NEW j, NEW f, NEW k
         PROVE  Linked(Q, f, j, k) <=>
                  \/ Linked(R, f, j, k)
                  \/ f = "blocks" /\ j = from /\ k = to
                  \/ f # "blocks" /\ j = to /\ k = from
    BY DEF Linked
  <2>11. ASSUME NEW j, NEW f, NEW S, f \in Linking, ToSet(j, f, S)'
         PROVE  j \in DOMAIN files' /\ Means(Q, j, f, S)'
    <3>1. \/ j = from /\ f = "blocks" /\ S = x \cup {to}
          \/ j = to /\ f = "blockedBy" /\ S = y \cup {from}
      BY <2>5, <2>7, <2>11
    <3>2. j \in DOMAIN files
      BY <2>2, <3>1
    <3>3. ASSUME NEW k \in Ids PROVE k \in S <=> Linked(Q, f, j, k)
      <4>1. k \in files[j][f] <=> Linked(R, f, j, k)
        BY <2>8, <2>11, <3>2
      <4>2. CASE j = from /\ f = "blocks" /\ S = x \cup {to}
        BY <2>9, <2>10, <4>1, <4>2
      <4>3. CASE j = to /\ f = "blockedBy" /\ S = y \cup {from}
        BY <2>9, <2>10, <4>1, <4>3
      <4> QED BY <3>1, <4>2, <4>3
    <3> QED BY <1>1, <3>2, <3>3 DEF Means
  <2>12. ASSUME NEW j, NEW f, NEW t, f \in Linking, Shows(j, t)'
         PROVE  j \in DOMAIN files' /\ ((\E S : ToSet(j, f, S)') \/ Means(Q, j, f, t[f])')
    <3>1. j \in DOMAIN files' /\ j \in DOMAIN files /\ t = files[j]
      BY <1>1, <2>7, <2>12
    <3>2. CASE j = from /\ f = "blocks" /\ to \notin x
      <4>1. PICK S : S = x \cup {to}
        OBVIOUS
      <4>2. ToSet(j, f, S)'
        BY <2>5, <2>7, <2>12, <3>2, <4>1
      <4> QED BY <3>1, <4>2
    <3>3. CASE j = to /\ f = "blockedBy" /\ from \notin y
      <4>1. PICK S : S = y \cup {from}
        OBVIOUS
      <4>2. ToSet(j, f, S)'
        BY <2>5, <2>7, <2>12, <3>3, <4>1
      <4> QED BY <3>1, <4>2
    <3>4. CASE /\ ~(j = from /\ f = "blocks" /\ to \notin x)
               /\ ~(j = to /\ f = "blockedBy" /\ from \notin y)
      <4>1. ASSUME NEW k \in Ids PROVE k \in t[f] <=> Linked(Q, f, j, k)
        <5>1. k \in t[f] <=> Linked(R, f, j, k)
          BY <2>8, <2>12, <3>1
        <5>2. f = "blocks" \/ f = "blockedBy"
          BY <2>12 DEF Linking
        <5>3. CASE f = "blocks" /\ j = from /\ k = to
          BY <2>9, <2>10, <3>1, <3>4, <5>3
        <5>4. CASE f = "blockedBy" /\ j = to /\ k = from
          BY <2>9, <2>10, <3>1, <3>4, <5>4
        <5> QED BY <2>10, <5>1, <5>2, <5>3, <5>4
      <4> QED BY <3>1, <4>1 DEF Means
    <3> QED BY <3>2, <3>3, <3>4
  <2>13. Q \subseteq (DOMAIN files') \X (DOMAIN files')
    <3>1. R \subseteq (DOMAIN files) \X (DOMAIN files) /\ files' = files
      BY <1>1 DEF LinksAre
    <3>2. <<from, to>> \in (DOMAIN files) \X (DOMAIN files)
      BY <2>2
    <3>3. Q \subseteq (DOMAIN files) \X (DOMAIN files)
      BY <3>1, <3>2
    <3> QED BY <3>1, <3>3
  <2>14. LinksAre(Q)'
    BY <2>7, <2>11, <2>12, <2>13 DEF LinksAre
  <2> QED BY <2>14
<1> QED BY <1>1, <1>4, <1>5

LEMMA UnlockedLinks ==
  ASSUME Fits, Numbered, LinkInv, LinkFields', ~overlap, gone = {}, NEW R, LinksAre(R),
         NEW a \in Agents, UnlockedStep(a), update[a] = NoUpdate
  PROVE  \E Q : LinksAre(Q)'
<1>1. CallFits(call[a])
  BY DEF Fits, AgentFits
<1>2. CASE ReadToSet(a) \/ ListToUnassign(a)
  <2>1. UNCHANGED <<files, update>> /\ call[a].pc \in {"read", "list open"}
    BY <1>2 DEF ReadToSet, ListToUnassign
  <2>2. /\ CallOf(a)
        /\ \/ call'[a] = NoCall
           \/ call'[a].pc = "updates" /\ call'[a].kind = call[a].kind
    BY <1>2, ReadToSetFits, ListToUnassignFits
  <2>3. call[a].pc \notin Elsewhere
    BY <2>1 DEF Elsewhere
  <2>4. CASE call'[a] = NoCall
    <3>1. LinksAre(R)'
      BY <2>1, <2>2, <2>3, <2>4, NoCallElsewhere, OutsideLinks
    <3> QED BY <3>1
  <2>5. CASE call'[a].pc = "updates" /\ call'[a].kind = call[a].kind
    <3>1. ~Linker(call'[a].kind)
      BY <1>1, <2>1, <2>5, PlaceKinds DEF Linker
    <3>2. UpdateOfOne(a) /\ update'[a].pc = "idle"
      BY <2>1, OneUpdate, IdleWithoutUpdate
    <3>3. LinksAre(R)'
      BY <2>1, <2>2, <2>3, <2>5, <3>1, <3>2, OtherUpdatesLinks
    <3> QED BY <3>3
  <2> QED BY <2>2, <2>4, <2>5
<1>3. CASE ReadToDelete(a)
  <2>1. UNCHANGED <<files, update>> /\ call[a].pc = "delete"
    BY <1>3 DEF ReadToDelete
  <2>2. CallOf(a) /\ (call'[a] = NoCall \/ call'[a].pc = "mark")
    BY <1>3, ReadToDeleteFits
  <2>3. call[a].pc \notin Elsewhere /\ call'[a].pc \notin Elsewhere
    BY <2>1, <2>2, NoCallElsewhere DEF Elsewhere
  <2>4. LinksAre(R)'
    BY <2>1, <2>2, <2>3, OutsideLinks
  <2> QED BY <2>4
<1>4. CASE UnlinkTask(a)
  BY <1>4, UnlinkTaskLinks
<1>5. CASE ListReferences(a)
  <2>1. LinksAre(R)'
    BY <1>5, ListReferencesLinks
  <2> QED BY <2>1
<1>6. CASE ReadToBlock(a)
  BY <1>6, ReadToBlockLinks
<1> QED BY <1>2, <1>3, <1>4, <1>5, <1>6 DEF UnlockedStep

LEMMA UpdateLinks ==
  ASSUME Fits, Numbered, LinkInv, ~overlap, gone = {}, NEW R, LinksAre(R),
         NEW a \in Agents, UpdateStep(a)
  PROVE  LinksAre(R)'
BY CheckTaskLinks, LockToUpdateLinks, ReadToUpdateLinks, TruncateLinks, WriteUpdateLinks,
   NextUpdateLinks DEF UpdateStep

\* A call that begins is at a place without links.
LEMMA MakesCallLinks ==
  ASSUME Fits, NEW R, LinksAre(R), NEW a \in Agents, MakesCall(a)
  PROVE  LinksAre(R)'
<1>1. /\ CallOf(a) /\ call[a] = NoCall /\ update[a] = NoUpdate /\ UNCHANGED <<files, update>>
      /\ call'[a].kind \in AllKinds /\ call'[a].pc = Entry(call'[a].kind)
  BY MakesCallFits
<1>2. call[a].pc \notin Elsewhere /\ call'[a].pc \notin Elsewhere
  BY <1>1, NoCallElsewhere DEF Entry, AllKinds, Elsewhere
<1> QED BY <1>1, <1>2, OutsideLinks

\* Only a call that is made can be an overlap, and only a kill leaves somebody gone.
LEMMA GoneStays ==
  ASSUME Fits, [Next]_vars, gone' = {}, ~overlap'
  PROVE  gone = {} /\ ~overlap
<1>1. CASE UNCHANGED vars
  BY <1>1 DEF vars
<1>2. ASSUME NEW a \in Agents, MakesCall(a) PROVE gone = {} /\ ~overlap
  <2>1. UNCHANGED gone /\ (overlap => overlap')
    BY <1>2, MakesCallFits
  <2> QED BY <2>1
<1>3. ASSUME NEW a \in Agents, Kill(a) PROVE FALSE
  BY <1>3 DEF Kill
<1>4. ASSUME NEW a \in Agents, AgentStep(a) PROVE gone = {} /\ ~overlap
  <2>1. UNCHANGED <<gone, overlap>>
    BY <1>4 DEF AgentStep, UpdateStep, CheckTask, LockToUpdate, ReadToUpdate, TruncateToUpdate,
       WriteUpdate, NextUpdate, NumberingStep, LockList, ReadFiles, MarkFirst, ReadMark, EmptyMark,
       WriteMark, CreateFile, FillFile, ListToUnlink, UnlinkNext, EndReset, CheckAllDone, ClaimStep,
       ListToClaim, CheckExists, LockToClaim, CheckOwner, CheckBlockers, UnlockedStep, ReadToSet, ReadToDelete, UnlinkTask,
       ListReferences, ReadToBlock, ListToUnassign
  <2> QED BY <2>1
<1> QED BY <1>1, <1>2, <1>3, <1>4 DEF Next

LEMMA LinksNext == Fits /\ Numbered /\ UpdateInv /\ LinkInv /\ [Next]_vars => LinkInv'
<1> SUFFICES ASSUME Fits, Numbered, UpdateInv, LinkInv, [Next]_vars PROVE LinkInv'
  OBVIOUS
<1>1. LinkFields' /\ TornInv' /\ ListedToClear'
  BY LinkFieldsNext, TornNext, ClearNext DEF LinkInv
<1>2. ASSUME gone' = {}, ~overlap', ~Clearing', ~Clearing PROVE \E Q : LinksAre(Q)'
  <2>1. gone = {} /\ ~overlap
    BY <1>2, GoneStays
  <2>2. PICK R : LinksAre(R)
    BY <1>2, <2>1 DEF LinkInv, LinksFit
  <2>3. CASE UNCHANGED vars
    <3>1. LinksAre(R)'
      BY <2>2, <2>3 DEF vars, LinksAre, Means, Dangling, ToSet, Shows, Readable
    <3> QED BY <3>1
  <2>4. ASSUME NEW a \in Agents, MakesCall(a) PROVE LinksAre(R)'
    BY <2>2, <2>4, MakesCallLinks
  <2>5. ASSUME NEW a \in Agents, Kill(a) PROVE FALSE
    BY <1>2, <2>5 DEF Kill
  <2>6. ASSUME NEW a \in Agents, AgentStep(a) PROVE \E Q : LinksAre(Q)'
    <3>1. CASE UpdateStep(a)
      <4>1. LinksAre(R)'
        BY <2>1, <2>2, <3>1, UpdateLinks
      <4> QED BY <4>1
    <3>2. CASE update[a] = NoUpdate /\ NumberingStep(a)
      <4>1. LinksAre(R)'
        BY <1>2, <2>1, <2>2, <3>2, NumberingLinks DEF Clearing
      <4> QED BY <4>1
    <3>3. CASE update[a] = NoUpdate /\ ClaimStep(a)
      <4>1. LinksAre(R)'
        BY <1>1, <2>2, <3>3, ClaimLinks
      <4> QED BY <4>1
    <3>4. CASE update[a] = NoUpdate /\ UnlockedStep(a)
      BY <1>1, <2>1, <2>2, <3>4, UnlockedLinks
    <3> QED BY <2>6, <3>1, <3>2, <3>3, <3>4 DEF AgentStep
  <2>7. UNCHANGED vars \/ \E a \in Agents : MakesCall(a) \/ Kill(a) \/ AgentStep(a)
    BY DEF Next
  <2>8. ASSUME NEW a \in Agents, MakesCall(a) PROVE \E Q : LinksAre(Q)'
    <3>1. LinksAre(R)'
      BY <2>4, <2>8
    <3> QED BY <3>1
  <2> QED BY <2>3, <2>5, <2>6, <2>7, <2>8
<1>3. ASSUME gone' = {}, ~overlap', ~Clearing', Clearing PROVE \E Q : LinksAre(Q)'
  <2>1. ~overlap
    BY <1>3, GoneStays
  <2>2. PICK a \in Agents : Clears(call[a])
    BY <1>3 DEF Clearing
  <2>3. ~Clears(call'[a])
    BY <1>3 DEF Clearing
  <2>4. call[a] # NoCall /\ a \notin gone'
    BY <1>3, <2>2, IdleWithoutUpdate DEF Clears
  <2>5. EndReset(a) /\ update[a] = NoUpdate
    <3>1. call' # call
      BY <2>2, <2>3
    <3>2. PICK b \in Agents : AgentStep(b) \/ MakesCall(b) \/ Kill(b)
      BY <3>1 DEF Next, vars
    <3>3. b = a
      <4>1. CallOf(b)
        BY <3>2, KindStays, MakesCallFits
      <4> QED BY <2>2, <2>3, <4>1 DEF CallOf
    <3>4. AgentStep(a)
      BY <2>4, <3>2, <3>3, MakesCallFits DEF Kill
    <3>5. ~(update[a].pc # "idle") /\ UpdateFits(update[a]) /\ call[a].pc = "unlink each"
      BY <2>2 DEF Fits, AgentFits, Clears
    <3>6. ~UpdateStep(a)
      BY <3>5 DEF UpdateStep, CheckTask, LockToUpdate, ReadToUpdate, TruncateToUpdate, WriteUpdate,
         NextUpdate
    <3>7. ~ClaimStep(a) /\ ~UnlockedStep(a)
      BY <3>5 DEF ClaimStep, ListToClaim, CheckExists, LockToClaim, CheckOwner, CheckBlockers,
         UnlockedStep, ReadToSet, ReadToDelete, UnlinkTask, ListReferences, ReadToBlock, ListToUnassign
    <3>8. NumberingStep(a) /\ update[a] = NoUpdate
      BY <3>4, <3>6, <3>7 DEF AgentStep
    <3>9. ~UnlinkNext(a)
      BY <2>3, <3>8, UnlinkNextFits DEF Clears
    <3> QED BY <3>5, <3>8, <3>9
            DEF NumberingStep, LockList, ReadFiles, MarkFirst, ReadMark, EmptyMark, WriteMark,
                CreateFile, FillFile, ListToUnlink, CheckAllDone
  <2> QED BY <2>1, <2>5, EndResetLinks DEF LinkInv
<1>4. LinksFit'
  BY <1>2, <1>3 DEF LinksFit
<1> QED BY <1>1, <1>4 DEF LinkInv

LEMMA LinkInit == Init => LinkInv
<1> SUFFICES ASSUME Init PROVE LinkInv
  OBVIOUS
<1>1. /\ \A a \in Agents : call[a].pc = "idle" /\ update[a].pc = "idle"
      /\ \A i \in DOMAIN files : files[i] = NewTask
  BY IdleWithoutUpdate DEF Init
<1>2. \A a \in Agents : SetsFit(call[a], update[a]) /\ Quiet(call[a], update[a])
  BY <1>1, NothingSet, QuietPlace
<1>3. NewTask.blocks = {} /\ NewTask.blockedBy = {} /\ NewTask # Torn
  <2>1. NewTask \in Task
    BY DEF NewTask, Task, Owner, TaskStatus
  <2> QED BY <2>1, TornAssumption DEF NewTask
<1>4. LinkFields /\ TornInv /\ ListedToClear
  BY <1>1, <1>2, <1>3 DEF LinkFields, TornInv, TornWritten, ListedToClear, Clears
<1>5. LinksAre({})
  <2>1. /\ \A i : ~Dangling(i)
        /\ \A i, f, S : f \in Linking => ~ToSet(i, f, S)
        /\ \A i, t : Shows(i, t) => i \in DOMAIN files /\ t = NewTask
    BY <1>1, <1>2 DEF Quiet, Dangling, ToSet, Shows, Readable
  <2>2. \A i, f : f \in Linking => Means({}, i, f, NewTask[f])
    BY <1>3 DEF Means, Linked, Linking
  <2> QED BY <2>1, <2>2 DEF LinksAre
<1> QED BY <1>4, <1>5 DEF LinkInv, LinksFit

\* When no call is under way, a task is blocked by exactly those that say they block it,
\* for any number of agents and calls, unless an agent was killed half way or two calls
\* have met that no lock keeps apart.  (blockTask and the references of deleteTask)
THEOREM BlocksMatch == Spec => []BlocksAgree
<1> QED
  BY FitsInit, FitsNext, NumberedInit, NumberedNext, InitUpdate, NextKeeps, LinkInit, LinksNext,
     LinkInvAgrees, PTL DEF Spec
=============================================================================
