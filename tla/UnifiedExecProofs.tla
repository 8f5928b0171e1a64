--------------------------- MODULE UnifiedExecProofs ---------------------------
(***************************************************************************)
(* The background processes for any number of calls and ids and any limits. *)
(* Two calls share an id only after terminate_all_processes forgot it under *)
(* one of them (Claims): that is what the table, the reserved ids and the   *)
(* handles of the model rest on.  That the table stays within its limit     *)
(* rests on the order of the last uses (Ages).                              *)
(***************************************************************************)
EXTENDS UnifiedExec, FiniteSetTheorems, TLAPS

(* The id was forgotten while a call held it. *)
Forgotten(i) == \E e \in cleared : holds[e] = i

(* A call that has begun holds an id, for good. *)
Begun ==
    /\ \A c \in Calls : pc[c] # "idle" => holds[c] \in Ids
    /\ \A c \in cleared : pc[c] # "idle"

(* A process is stored under the id of the call that opened it. *)
StoredUnderOwnId ==
    \A i \in DOMAIN table :
        holds[table[i]] = i /\ pc[table[i]] \in {"warning", "done", "cancelled"}

(* An id in use is reserved, and by one user, unless it was forgotten. *)
Claims ==
    /\ \A c \in Calls : NeedsId(c) => holds[c] \in reserved \/ Forgotten(holds[c])
    /\ \A i \in DOMAIN table : i \in reserved \/ Forgotten(i)
    /\ \A c, d \in Calls :
        c # d /\ NeedsId(c) /\ (NeedsId(d) \/ d \in Stored) /\ holds[c] = holds[d] =>
            Forgotten(holds[c])

(* A reserved id without an entry is needed by a call, or was lost by one. *)
IdsHeld ==
    \A i \in reserved :
        \/ i \in DOMAIN table
        \/ \E c \in Calls : holds[c] = i /\ (NeedsId(c) \/ pc[c] \in {"leaked", "cancelled"})

(* The end is reported by a call that is done, or left to its watcher. *)
EndsOnce ==
    \A c \in Calls :
        IF pc[c] = "done"
          THEN \/ ends[c] = 1 /\ watcher[c] # "waiting" /\ proc[c] = "over"
               \/ ends[c] = 0 /\ watcher[c] = "waiting"
          ELSE ends[c] = 0 /\ watcher[c] = "none"

(* Whoever may still store a process under the id that write_stdin reads took  *)
(* the id late, or shares it since it was forgotten.                           *)
PollHasId ==
    poll # NoPoll =>
        \A c \in Calls : NeedsId(c) /\ holds[c] = poll.id => c \in late \/ Forgotten(poll.id)

(* A process that was stored and runs is in the table under its id. *)
InTable ==
    \A c \in Calls :
        proc[c] = "running" /\ pc[c] \in {"warning", "done"} =>
            \/ holds[c] \in DOMAIN table /\ table[holds[c]] = c
            \/ Forgotten(holds[c])

IInv ==
    /\ TypeOK /\ Begun
    /\ StoredUnderOwnId /\ Claims /\ IdsHeld /\ InTable
    /\ EndsOnce
    /\ PollHasId /\ PollSameProcess

IdInv == Begun /\ StoredUnderOwnId /\ Claims /\ IdsHeld /\ InTable
PollInv == PollHasId /\ PollSameProcess

USE ConstantsAssumption
--------------------------------------------------------------------------------
(* The entries of a table without one id. *)
LEMMA WithoutEntries ==
  ASSUME NEW i
  PROVE  /\ DOMAIN Without(i) = DOMAIN table \ {i}
         /\ \A j \in DOMAIN table \ {i} : Without(i)[j] = table[j]
         /\ Range(Without(i)) \subseteq Stored
<1>1. /\ DOMAIN Without(i) = DOMAIN table \ {i}
      /\ \A j \in DOMAIN table \ {i} : Without(i)[j] = table[j]
  BY DEF Without, Restrict
<1> QED
  BY <1>1 DEF Range, Stored

(* The entries of a table with a new process, which may have pruned others. *)
LEMMA WithEntries ==
  ASSUME NEW c
  PROVE  /\ DOMAIN With(c) = Kept \cup {holds[c]} /\ Kept \subseteq DOMAIN table
         /\ With(c)[holds[c]] = c
         /\ \A j \in Kept \ {holds[c]} : With(c)[j] = table[j]
         /\ \A j \in DOMAIN table \ Kept : table[j] \in Pruned
         /\ Range(With(c)) \subseteq Stored \cup {c}
<1>1. /\ DOMAIN With(c) = Kept \cup {holds[c]} /\ Kept \subseteq DOMAIN table
      /\ With(c)[holds[c]] = c
      /\ \A j \in Kept \ {holds[c]} : With(c)[j] = table[j]
      /\ \A j \in DOMAIN table \ Kept : table[j] \in Pruned
  BY DEF With, Kept
<1> QED
  BY <1>1 DEF Range, Stored

(* A table without entries. *)
LEMMA EmptyTable == DOMAIN << >> = {} /\ Range(<< >>) = {}
<1>1. DOMAIN << >> = {}
  OBVIOUS
<1> QED
  BY <1>1 DEF Range

(* Processes only end. *)
LEMMA OverEnds ==
  ASSUME TypeOK, NEW S, proc' = Over(S)
  PROVE  /\ proc' \in [Calls -> {"none", "running", "over"}]
         /\ \A c \in Calls : /\ proc[c] = "over" \/ c \in S => proc'[c] = "over"
                             /\ proc'[c] # "over" => proc'[c] = proc[c]
  BY DEF Over, TypeOK

(* What it means to be stored. *)
LEMMA StoredHere ==
  ASSUME TypeOK, StoredUnderOwnId, NEW c \in Stored
  PROVE  /\ c \in Calls /\ holds[c] \in DOMAIN table /\ table[holds[c]] = c
         /\ pc[c] \in {"warning", "done", "cancelled"} /\ ~ NeedsId(c)
  BY DEF TypeOK, StoredUnderOwnId, Stored, Range, NeedsId, InFlight

(* The initial state satisfies the inductive invariant. *)
LEMMA InitIInv == Init => IInv
<1> SUFFICES ASSUME Init PROVE IInv
  OBVIOUS
<1>1. DOMAIN table = {} /\ Stored = {}
  BY EmptyTable DEF Init, Stored
<1>2. TypeOK
  BY <1>1 DEF Init, TypeOK, Places, NoPoll
<1>3. IdInv
  BY <1>1 DEF Init, IdInv, Begun, StoredUnderOwnId, Claims, IdsHeld, InTable, NeedsId,
     InFlight
<1>4. EndsOnce /\ PollInv
  BY DEF Init, EndsOnce, PollInv, PollHasId, PollSameProcess
<1> QED
  BY <1>2, <1>3, <1>4 DEF IInv, IdInv, PollInv
--------------------------------------------------------------------------------
(* The types are preserved. *)
LEMMA NextTypeOK ==
  ASSUME IInv, Next
  PROVE  TypeOK'
<1> USE DEF IInv
<1>1. ASSUME NEW c \in Calls, NEW i \in Ids, Allocate(c, i) \/ AllocateLate(c, i)
      PROVE  TypeOK'
  BY <1>1 DEF Allocate, AllocateLate, TakeId, TypeOK, Places, Stored
<1>2. ASSUME NEW c \in Calls, GiveUp(c) \/ ReportExit(c) PROVE TypeOK'
  <2>1. DOMAIN table' \subseteq Ids /\ Stored' \subseteq Calls /\ reserved' \subseteq Ids
    <3>1. /\ table' = Without(holds[c]) /\ Stored' = Range(Without(holds[c]))
          /\ reserved' \subseteq reserved
      BY <1>2 DEF GiveUp, ReportExit, Forget, Stored
    <3>2. DOMAIN table' \subseteq DOMAIN table /\ Stored' \subseteq Stored
      BY <3>1, WithoutEntries
    <3> QED
      BY <3>1, <3>2 DEF TypeOK
  <2>2. proc' \in [Calls -> {"none", "running", "over"}]
    BY <1>2, OverEnds DEF GiveUp, ReportExit
  <2>3. ends' \in [Calls -> Nat] /\ pc' \in [Calls -> Places]
    BY <1>2 DEF GiveUp, ReportExit, TypeOK, Places
  <2> QED
    BY <1>2, <2>1, <2>2, <2>3 DEF GiveUp, ReportExit, Unlock, TypeOK
<1>3. ASSUME NEW c \in Calls, InterceptFails(c) \/ Open(c) \/ StartWatcher(c) \/ Cancel(c)
      PROVE  TypeOK'
  BY <1>3 DEF InterceptFails, Open, StartWatcher, Cancel, Unlock, locks, TypeOK, Places, Stored
<1>4. ASSUME NEW c \in Calls, Touch(c) = older' PROVE older' \subseteq Calls \X Calls
  BY <1>4 DEF Touch, Used, TypeOK
<1>5. ASSUME NEW c \in Calls, Begin(c) PROVE TypeOK'
  BY <1>4, <1>5 DEF Begin, locks, TypeOK, Places, Stored
<1>6. ASSUME NEW c \in Calls, Store(c) PROVE TypeOK'
  <2>1. holds[c] \in Ids
    BY <1>6 DEF Store, Begun
  <2>2. DOMAIN table' \subseteq Ids /\ Stored' \subseteq Calls /\ reserved' \subseteq Ids
    <3>1. table' = With(c) /\ Stored' = Range(With(c)) /\ reserved' \subseteq reserved
      BY <1>6 DEF Store, Stored
    <3>2. Kept \cup {holds[c]} \subseteq Ids
      BY <2>1, WithEntries DEF TypeOK
    <3>3. DOMAIN table' = Kept \cup {holds[c]} /\ Stored' \subseteq Stored \cup {c}
      BY <3>1, WithEntries
    <3> QED
      BY <3>1, <3>2, <3>3 DEF TypeOK
  <2>3. proc' \in [Calls -> {"none", "running", "over"}]
    BY <1>6, OverEnds DEF Store
  <2>4. /\ pc' \in [Calls -> Places]
        /\ watcher' \in [Calls -> {"none", "waiting", "finished"}]
    BY <1>6 DEF Store, TypeOK, Places
  <2>5. readers' \subseteq Calls /\ late' \subseteq Calls
    BY <1>6 DEF Store, Unlock, locks, TypeOK
  <2> QED
    BY <1>6, <2>2, <2>3, <2>4, <2>5 DEF Store, TypeOK
<1>7. ASSUME NEW c \in Calls, Exit(c) \/ Watch(c) PROVE TypeOK'
  BY <1>7 DEF Exit, Watch, locks, TypeOK, Stored
<1>8. ASSUME NEW i \in Ids, PollStart(i) PROVE TypeOK'
  <2>1. table[i] \in Calls
    BY <1>8 DEF PollStart, TypeOK, Stored, Range
  <2> QED
    BY <1>4, <1>8, <2>1 DEF PollStart, locks, TypeOK, Stored
<1>9. ASSUME NEW i, Refresh(i)
      PROVE  DOMAIN table' \subseteq Ids /\ Stored' \subseteq Calls /\ reserved' \subseteq Ids
  <2>1. CASE UNCHANGED <<reserved, table>>
    BY <2>1 DEF TypeOK, Stored
  <2>2. CASE Forget(i)
    <3>1. /\ Stored' = Range(Without(i)) /\ table' = Without(i)
          /\ reserved' \subseteq reserved
      BY <2>2 DEF Forget, Stored
    <3>2. DOMAIN table' \subseteq DOMAIN table /\ Stored' \subseteq Stored
      BY ONLY <3>1, WithoutEntries
    <3> QED
      BY <3>1, <3>2 DEF TypeOK
  <2> QED
    BY <1>9, <2>1, <2>2 DEF Refresh
<1>10. ASSUME PollRefresh \/ PollCancel \/ NextRequest PROVE TypeOK'
  <2>1. DOMAIN table' \subseteq Ids /\ Stored' \subseteq Calls /\ reserved' \subseteq Ids
    <3>1. CASE PollRefresh
      BY <1>9, <3>1 DEF PollRefresh
    <3>2. CASE PollCancel \/ NextRequest
      BY <3>2 DEF PollCancel, NextRequest, TypeOK, Stored
    <3> QED
      BY <1>10, <3>1, <3>2
  <2>2. /\ readers' \subseteq Calls /\ late' = {} /\ poll' = NoPoll
        /\ UNCHANGED <<pc, holds, older, proc, watcher, ends, cleared>>
    BY <1>10 DEF PollRefresh, PollCancel, NextRequest, EndPoll, TypeOK
  <2> QED
    BY <2>1, <2>2 DEF TypeOK, NoPoll
<1>12. ASSUME NEW i \in Ids, AbortedPoll(i) PROVE TypeOK'
  <2>1. DOMAIN table' \subseteq Ids /\ Stored' \subseteq Calls /\ reserved' \subseteq Ids
    <3>1. Refresh(i) \/ UNCHANGED <<reserved, table>>
      BY <1>12 DEF AbortedPoll
    <3> QED
      BY <1>9, <3>1 DEF TypeOK, Stored
  <2>2. older' \subseteq Calls \X Calls
    <3>1. table[i] \in Calls
      BY <1>12 DEF AbortedPoll, TypeOK, Stored, Range
    <3>2. older' = Touch(table[i]) \/ older' = older
      BY <1>12 DEF AbortedPoll
    <3> QED
      BY <1>4, <3>1, <3>2 DEF TypeOK
  <2> QED
    BY <1>12, <2>1, <2>2 DEF AbortedPoll, locks, TypeOK
<1>11. ASSUME TerminateAll PROVE TypeOK'
  <2>1. DOMAIN table' = {} /\ Stored' = {}
    BY <1>11, EmptyTable DEF TerminateAll, Stored
  <2>2. proc' \in [Calls -> {"none", "running", "over"}]
    BY <1>11, OverEnds DEF TerminateAll
  <2> QED
    BY <1>11, <2>1, <2>2 DEF TerminateAll, locks, TypeOK
<1> QED
  BY <1>1, <1>2, <1>3, <1>5, <1>6, <1>7, <1>8, <1>10, <1>11, <1>12 DEF Next, ExecStep

(* Of each process one end is reported. *)
LEMMA NextEnds ==
  ASSUME IInv, Next
  PROVE  EndsOnce'
<1> USE DEF IInv
<1>1. ASSUME NEW c \in Calls, NEW i \in Ids, Allocate(c, i) \/ AllocateLate(c, i)
      PROVE  EndsOnce'
  BY <1>1 DEF Allocate, AllocateLate, TakeId, EndsOnce, TypeOK
<1>2. ASSUME NEW c \in Calls, GiveUp(c) \/ ReportExit(c) PROVE EndsOnce'
  <2>1. \A d \in Calls : proc[d] = "over" => proc'[d] = "over"
    BY <1>2, OverEnds DEF GiveUp, ReportExit
  <2> QED
    BY <1>2, <2>1 DEF GiveUp, ReportExit, EndsOnce, TypeOK
<1>3. ASSUME NEW c \in Calls,
             \/ InterceptFails(c) \/ Open(c) \/ Begin(c) \/ StartWatcher(c) \/ Cancel(c)
             \/ Exit(c) \/ Watch(c)
      PROVE  EndsOnce'
  BY <1>3 DEF InterceptFails, Open, Begin, StartWatcher, Cancel, InFlight, Exit, Watch,
     EndsOnce, TypeOK
<1>4. ASSUME NEW c \in Calls, Store(c) PROVE EndsOnce'
  <2>1. \A d \in Calls : proc[d] = "over" => proc'[d] = "over"
    BY <1>4, OverEnds DEF Store
  <2> QED
    <3>1. CASE pc' = [pc EXCEPT ![c] = "warning"] /\ watcher' = watcher
      BY <1>4, <2>1, <3>1 DEF Store, EndsOnce, TypeOK
    <3>2. CASE /\ pc' = [pc EXCEPT ![c] = "done"]
               /\ watcher' = [watcher EXCEPT ![c] = "waiting"]
      BY <1>4, <2>1, <3>2 DEF Store, EndsOnce, TypeOK
    <3> QED
      BY <1>4, <3>1, <3>2 DEF Store
<1>5. ASSUME NEW i \in Ids, PollStart(i) \/ AbortedPoll(i) PROVE EndsOnce'
  BY <1>5 DEF PollStart, AbortedPoll, EndsOnce
<1>6. ASSUME PollRefresh \/ PollCancel \/ NextRequest PROVE EndsOnce'
  BY <1>6 DEF PollRefresh, PollCancel, NextRequest, EndsOnce
<1>7. ASSUME TerminateAll PROVE EndsOnce'
  <2>1. \A d \in Calls : proc[d] = "over" => proc'[d] = "over"
    BY <1>7, OverEnds DEF TerminateAll
  <2> QED
    BY <1>7, <2>1 DEF TerminateAll, EndsOnce
<1> QED
  BY <1>1, <1>2, <1>3, <1>4, <1>5, <1>6, <1>7 DEF Next, ExecStep

--------------------------------------------------------------------------------
(* An id stays forgotten. *)
LEMMA StaysForgotten ==
  ASSUME IInv, Next, NEW i, Forgotten(i)
  PROVE  Forgotten(i)'
<1>1. PICK e \in cleared : holds[e] = i /\ e \in Calls /\ pc[e] # "idle"
  BY DEF Forgotten, IInv, Begun, TypeOK
<1>2. e \in cleared' /\ holds'[e] = holds[e]
  BY <1>1 DEF IInv, TypeOK, Next, ExecStep, Allocate, AllocateLate, TakeId, GiveUp,
     InterceptFails, Open, Begin, ReportExit, Store, StartWatcher, Cancel, Exit, Watch,
     PollStart, PollRefresh, PollCancel, AbortedPoll, NextRequest, TerminateAll
<1> QED
  BY <1>1, <1>2 DEF Forgotten

(* Calls go on from a place, and keep their id. *)
LEMMA NextBegun ==
  ASSUME IInv, Next
  PROVE  Begun'
<1> USE DEF IInv, Begun
<1>1. ASSUME NEW c \in Calls, NEW i \in Ids, Allocate(c, i) \/ AllocateLate(c, i)
      PROVE  Begun'
  BY <1>1 DEF Allocate, AllocateLate, TakeId, TypeOK
<1>2. ASSUME NEW c \in Calls, ExecStep(c) PROVE Begun'
  BY <1>2 DEF ExecStep, GiveUp, InterceptFails, Open, Begin, ReportExit, Store,
     StartWatcher, Cancel, InFlight, TypeOK
<1>3. ASSUME NEW c \in Calls, Exit(c) \/ Watch(c) PROVE Begun'
  BY <1>3 DEF Exit, Watch
<1>4. ASSUME NEW i \in Ids, PollStart(i) \/ AbortedPoll(i) PROVE Begun'
  BY <1>4 DEF PollStart, AbortedPoll
<1>5. ASSUME PollRefresh \/ PollCancel \/ NextRequest \/ TerminateAll PROVE Begun'
  BY <1>5 DEF PollRefresh, PollCancel, NextRequest, TerminateAll, InFlight
<1> QED
  BY <1>1, <1>2, <1>3, <1>4, <1>5 DEF Next

IdParts == StoredUnderOwnId /\ Claims /\ IdsHeld /\ InTable

(* Steps that leave the ids and the table alone. *)
LEMMA QuietIds ==
  ASSUME IInv, UNCHANGED <<holds, reserved, table, cleared>>,
         \A d \in Calls :
            /\ proc'[d] = "running" /\ pc'[d] \in {"warning", "done"} =>
                   proc[d] = "running" /\ pc[d] \in {"warning", "done"}
            /\ pc[d] \in {"warning", "done", "cancelled"} =>
                   pc'[d] \in {"warning", "done", "cancelled"}
            /\ NeedsId(d)' => NeedsId(d)
            /\ NeedsId(d) => NeedsId(d)' \/ pc'[d] \in {"leaked", "cancelled"}
            /\ pc[d] \in {"leaked", "cancelled"} => pc'[d] \in {"leaked", "cancelled"}
  PROVE  IdParts'
<1> USE DEF IInv
<1>1. Stored' = Stored /\ \A i : Forgotten(i)' <=> Forgotten(i)
  BY DEF Stored, Forgotten
<1>2. StoredUnderOwnId'
  BY StoredHere DEF StoredUnderOwnId, TypeOK, Stored, Range
<1>3. Claims'
  BY <1>1 DEF Claims
<1>4. IdsHeld'
  BY <1>1 DEF IdsHeld
<1>5. InTable'
  BY <1>1 DEF InTable
<1> QED
  BY <1>2, <1>3, <1>4, <1>5 DEF IdParts

(* A new call takes an id that is not reserved. *)
LEMMA AllocateIds ==
  ASSUME IInv, NEW c \in Calls, NEW i \in Ids, Allocate(c, i) \/ AllocateLate(c, i)
  PROVE  IdParts'
<1> USE DEF IInv
<1>1. /\ pc[c] = "idle" /\ i \notin reserved /\ reserved' = reserved \cup {i}
      /\ holds' = [holds EXCEPT ![c] = i] /\ pc' = [pc EXCEPT ![c] = "reserved"]
      /\ UNCHANGED <<table, proc, cleared>> /\ Stored' = Stored
  BY DEF Allocate, AllocateLate, TakeId, Stored
<1>2. \A j : Forgotten(j) => Forgotten(j)'
  BY StaysForgotten DEF Next
<1>3. c \notin Stored
  BY <1>1, StoredHere
<1>4. /\ holds'[c] = i /\ NeedsId(c)'
      /\ \A d \in Calls \ {c} :
            holds'[d] = holds[d] /\ pc'[d] = pc[d] /\ (NeedsId(d)' <=> NeedsId(d))
  BY <1>1 DEF TypeOK, NeedsId, InFlight
<1>5. StoredUnderOwnId'
  BY <1>1, <1>3, <1>4 DEF StoredUnderOwnId, Stored, Range, TypeOK
<1>6. Claims'
  <2>1. ASSUME NEW d \in Calls \ {c}, NeedsId(d) \/ d \in Stored, holds[d] = i
        PROVE  Forgotten(i)
    BY <1>1, <2>1, StoredHere DEF Claims
  <2> QED
    BY <1>1, <1>2, <1>3, <1>4, <2>1 DEF Claims
<1>7. IdsHeld'
  <2>1. ~ NeedsId(c) /\ pc[c] \notin {"leaked", "cancelled"}
    BY <1>1 DEF NeedsId, InFlight
  <2>2. ASSUME NEW j \in reserved', j \notin DOMAIN table'
        PROVE  \E d \in Calls :
                 holds'[d] = j /\ (NeedsId(d)' \/ pc'[d] \in {"leaked", "cancelled"})
    <3>1. CASE j = i
      BY <1>4, <3>1
    <3>2. CASE j \in reserved
      BY <1>1, <1>4, <2>1, <2>2, <3>2 DEF IdsHeld
    <3> QED
      BY <1>1, <3>1, <3>2
  <2> QED
    BY ONLY <2>2 DEF IdsHeld
<1>8. InTable'
  BY <1>1, <1>2, <1>4 DEF InTable
<1> QED
  BY <1>5, <1>6, <1>7, <1>8 DEF IdParts

(* An id is released: only forgotten ids had another user. *)
LEMMA ReleaseIds ==
  ASSUME IInv, Next, NEW c \in Calls, GiveUp(c) \/ ReportExit(c)
  PROVE  IdParts'
<1> USE DEF IInv
<1> DEFINE i == holds[c]
<1>1. /\ NeedsId(c) /\ reserved' = reserved \ {i} /\ table' = Without(i)
      /\ UNCHANGED <<holds, cleared>>
      /\ pc' \in {[pc EXCEPT ![c] = "failed"], [pc EXCEPT ![c] = "done"]}
      /\ pc'[c] = "done" => proc[c] = "over"
  BY DEF GiveUp, ReportExit, Forget, NeedsId, InFlight, TypeOK
<1>2. \A d \in Calls : proc'[d] # "over" => proc'[d] = proc[d]
  BY OverEnds DEF GiveUp, ReportExit
<1>3. /\ ~ NeedsId(c)'
      /\ \A d \in Calls \ {c} : pc'[d] = pc[d] /\ (NeedsId(d)' <=> NeedsId(d))
  BY <1>1 DEF TypeOK, NeedsId, InFlight
<1>4. /\ DOMAIN table' = DOMAIN table \ {i}
      /\ \A j \in DOMAIN table \ {i} : table'[j] = table[j]
      /\ Stored' \subseteq Stored
  <2>1. Stored' = Range(Without(i))
    BY <1>1 DEF Stored
  <2> QED
    BY <1>1, <2>1, WithoutEntries
<1>5. \A j : Forgotten(j)' <=> Forgotten(j)
  BY <1>1 DEF Forgotten
<1>6. c \notin Stored
  BY <1>1, StoredHere
<1>7. \A d \in Calls \ {c} : NeedsId(d) \/ d \in Stored =>
         holds[d] # i \/ Forgotten(i)
  BY <1>1 DEF Claims
<1>8. StoredUnderOwnId'
  <2>1. ASSUME NEW j \in DOMAIN table' PROVE table[j] \in Stored
    BY <1>4 DEF Stored, Range
  <2> QED
    BY <1>1, <1>3, <1>4, <1>6, <2>1 DEF StoredUnderOwnId, TypeOK
<1>9. Claims'
  BY <1>1, <1>3, <1>4, <1>5, <1>7 DEF Claims
<1>10. IdsHeld'
  BY <1>1, <1>3, <1>4 DEF IdsHeld
<1>11. InTable'
  <2>1. ASSUME NEW d \in Calls \ {c}, holds[d] \in DOMAIN table, table[holds[d]] = d
        PROVE  d \in Stored
    BY <2>1 DEF Stored, Range
  <2>2. ASSUME NEW d \in Calls, proc'[d] = "running", pc'[d] \in {"warning", "done"}
        PROVE  (holds[d] \in DOMAIN table' /\ table'[holds[d]] = d) \/ Forgotten(holds[d])
    <3>1. d # c
      BY <1>1, <1>2, <2>2 DEF TypeOK
    <3>2. proc[d] = "running" /\ pc[d] \in {"warning", "done"}
      BY <1>2, <1>3, <2>2, <3>1
    <3>3. CASE holds[d] \in DOMAIN table /\ table[holds[d]] = d
      BY <1>4, <1>7, <2>1, <3>1, <3>3
    <3> QED
      BY <3>2, <3>3 DEF InTable
  <2> QED
    BY <1>1, <1>5, <2>2 DEF InTable
<1> QED
  BY <1>8, <1>9, <1>10, <1>11 DEF IdParts

(* A process is stored: the entries that go are those that are pruned, and *)
(* one under the same id.                                                  *)
LEMMA StoreIds ==
  ASSUME IInv, Next, NEW c \in Calls, Store(c)
  PROVE  IdParts'
<1> USE DEF IInv
<1> DEFINE i == holds[c]
<1>1. /\ NeedsId(c) /\ reserved' = reserved \ (DOMAIN table \ Kept) /\ table' = With(c)
      /\ UNCHANGED <<holds, cleared>>
      /\ pc' \in {[pc EXCEPT ![c] = "warning"], [pc EXCEPT ![c] = "done"]}
  BY DEF Store, NeedsId, InFlight
<1>2. /\ \A d \in Calls : proc'[d] # "over" => proc'[d] = proc[d]
      /\ \A d \in Calls \cap Pruned : proc'[d] = "over"
  <2>1. proc' = Over(Pruned \cup (Orphans(table') \ {c})) /\ TypeOK
    BY DEF Store
  <2> QED
    BY ONLY <2>1, OverEnds
<1>3. /\ ~ NeedsId(c)' /\ pc'[c] \in {"warning", "done"}
      /\ \A d \in Calls \ {c} : pc'[d] = pc[d] /\ (NeedsId(d)' <=> NeedsId(d))
  BY <1>1 DEF TypeOK, NeedsId, InFlight
<1>4. /\ DOMAIN table' = Kept \cup {i} /\ Kept \subseteq DOMAIN table /\ table'[i] = c
      /\ \A j \in Kept \ {i} : table'[j] = table[j]
      /\ \A j \in DOMAIN table \ Kept : table[j] \in Pruned
      /\ Stored' \subseteq Stored \cup {c}
  <2>1. Stored' = Range(With(c))
    BY <1>1 DEF Stored
  <2> QED
    BY <1>1, <2>1, WithEntries
<1>5. \A j : Forgotten(j)' <=> Forgotten(j)
  BY <1>1 DEF Forgotten
<1>6. c \notin Stored
  BY <1>1, StoredHere
<1>7. \A d \in Calls \ {c} : NeedsId(d) \/ d \in Stored =>
         holds[d] # i \/ Forgotten(i)
  BY <1>1 DEF Claims
<1>8. \A j \in DOMAIN table : table[j] \in Stored /\ table[j] \in Calls /\ holds[table[j]] = j
  BY DEF StoredUnderOwnId, Stored, Range, TypeOK
<1>9. StoredUnderOwnId'
  BY <1>1, <1>3, <1>4, <1>6, <1>8 DEF StoredUnderOwnId, TypeOK
<1>10. Claims'
  <2>1. ASSUME NEW d \in Calls, NeedsId(d)' PROVE holds[d] \in reserved' \/ Forgotten(holds[d])
    <3>1. NeedsId(d) /\ d # c
      BY <1>3, <2>1
    <3>2. holds[d] \in DOMAIN table => Forgotten(holds[d])
      BY <1>8, <3>1, StoredHere DEF Claims
    <3> QED
      BY <1>1, <3>1, <3>2 DEF Claims
  <2>2. ASSUME NEW j \in DOMAIN table' PROVE j \in reserved' \/ Forgotten(j)
    <3>1. CASE j = i
      <4>1. i \in DOMAIN table => Forgotten(i)
        BY <1>6, <1>7, <1>8
      <4> QED
        BY <1>1, <3>1, <4>1 DEF Claims
    <3>2. CASE j \in Kept
      BY <1>1, <1>4, <3>2 DEF Claims
    <3> QED
      BY <1>4, <3>1, <3>2
  <2>3. ASSUME NEW d \in Calls, NEW e \in Calls, d # e, NeedsId(d)',
               NeedsId(e)' \/ e \in Stored', holds[d] = holds[e]
        PROVE  Forgotten(holds[d])
    <3>1. NeedsId(d) /\ d # c
      BY <1>3, <2>3
    <3>2. e = c \/ NeedsId(e) \/ e \in Stored
      BY <1>3, <1>4, <2>3
    <3> QED
      BY <1>7, <2>3, <3>1, <3>2 DEF Claims
  <2> QED
    BY <1>1, <1>5, <2>1, <2>2, <2>3 DEF Claims
<1>11. IdsHeld'
  <2>1. ASSUME NEW j \in reserved', j \notin DOMAIN table'
        PROVE  \E d \in Calls :
                 holds'[d] = j /\ (NeedsId(d)' \/ pc'[d] \in {"leaked", "cancelled"})
    <3>1. j \in reserved /\ j \notin DOMAIN table /\ j # i
      BY <1>1, <1>4, <2>1
    <3> QED
      BY <1>1, <1>3, <3>1 DEF IdsHeld
  <2> QED
    BY ONLY <2>1 DEF IdsHeld
<1>12. InTable'
  <2>1. ASSUME NEW d \in Calls, proc'[d] = "running", pc'[d] \in {"warning", "done"}, d # c
        PROVE  (holds[d] \in DOMAIN table' /\ table'[holds[d]] = d) \/ Forgotten(holds[d])
    <3>1. proc[d] = "running" /\ pc[d] \in {"warning", "done"} /\ d \notin Pruned
      BY <1>2, <1>3, <2>1
    <3>2. CASE holds[d] \in DOMAIN table /\ table[holds[d]] = d
      BY <1>4, <1>7, <1>8, <2>1, <3>1, <3>2
    <3>3. CASE Forgotten(holds[d])
      BY <3>3
    <3> QED
      BY <3>1, <3>2, <3>3 DEF InTable
  <2> QED
    BY <1>1, <1>4, <1>5, <2>1 DEF InTable
<1> QED
  BY <1>9, <1>10, <1>11, <1>12 DEF IdParts

(* A process that is over leaves the table: only a forgotten id had another *)
(* user.                                                                    *)
LEMMA RefreshIds ==
  ASSUME IInv, NEW i, Refresh(i), UNCHANGED <<pc, holds, proc, cleared>>
  PROVE  IdParts'
<1> USE DEF IInv
<1>1. CASE UNCHANGED <<reserved, table>>
  BY <1>1, QuietIds DEF NeedsId, InFlight
<1>2. CASE i \in DOMAIN table /\ proc[table[i]] = "over" /\ Forget(i)
  <2>1. /\ reserved' = reserved \ {i} /\ table' = Without(i)
        /\ DOMAIN table' = DOMAIN table \ {i}
        /\ \A j \in DOMAIN table \ {i} : table'[j] = table[j]
    BY <1>2, WithoutEntries DEF Forget
  <2>2. /\ \A c \in Calls : NeedsId(c)' <=> NeedsId(c)
        /\ \A j : Forgotten(j)' <=> Forgotten(j)
    BY DEF NeedsId, InFlight, Forgotten
  <2>3. Stored' \subseteq Stored
    <3>1. Stored' = Range(Without(i))
      BY <2>1 DEF Stored
    <3> QED
      BY <3>1, WithoutEntries
  <2>4. \A c \in Calls : NeedsId(c) /\ holds[c] = i => Forgotten(i)
    <3>1. table[i] \in Stored /\ table[i] \in Calls /\ holds[table[i]] = i
      BY <1>2 DEF StoredUnderOwnId, Stored, Range, TypeOK
    <3>2. ~ NeedsId(table[i])
      BY <3>1, StoredHere
    <3> QED
      BY <3>1, <3>2 DEF Claims
  <2>5. StoredUnderOwnId'
    BY <2>1 DEF StoredUnderOwnId
  <2>6. Claims'
    BY <2>1, <2>2, <2>3, <2>4 DEF Claims
  <2>7. IdsHeld'
    BY <2>1, <2>2 DEF IdsHeld
  <2>8. InTable'
    BY <1>2, <2>1, <2>2 DEF InTable
  <2> QED
    BY <2>5, <2>6, <2>7, <2>8 DEF IdParts
<1> QED
  BY <1>1, <1>2 DEF Refresh

(* All ids are forgotten, those of the calls in flight with the others. *)
LEMMA TerminateIds ==
  ASSUME IInv, Next, TerminateAll
  PROVE  IdParts'
<1> USE DEF IInv
<1>1. /\ UNCHANGED <<pc, holds>> /\ reserved' = {}
      /\ cleared' = cleared \cup {c \in Calls : InFlight(c)}
  BY DEF TerminateAll
<1>2. DOMAIN table' = {} /\ Stored' = {}
  BY EmptyTable DEF TerminateAll, Stored
<1>3. /\ \A d \in Calls : proc'[d] # "over" => proc'[d] = proc[d]
      /\ \A d \in Stored : proc'[d] = "over"
  <2>1. proc' = Over(Stored \cup Orphans(<< >>)) /\ Stored \subseteq Calls
    BY DEF TerminateAll, TypeOK
  <2> QED
    BY <2>1, OverEnds
<1>4. /\ \A j : Forgotten(j) => Forgotten(j)'
      /\ \A c \in Calls : NeedsId(c)' => Forgotten(holds[c])'
  BY <1>1 DEF Forgotten, NeedsId, InFlight
<1>5. StoredUnderOwnId' /\ IdsHeld'
  BY <1>1, <1>2 DEF StoredUnderOwnId, IdsHeld
<1>6. Claims'
  BY <1>1, <1>2, <1>4 DEF Claims
<1>7. InTable'
  <2>1. ASSUME NEW c \in Calls, proc'[c] = "running", pc'[c] \in {"warning", "done"}
        PROVE  Forgotten(holds[c])
    <3>1. proc[c] = "running" /\ c \notin Stored
      BY <1>3, <2>1
    <3>2. ~ (holds[c] \in DOMAIN table /\ table[holds[c]] = c)
      BY <3>1 DEF Stored, Range
    <3> QED
      BY <1>1, <2>1, <3>1, <3>2 DEF InTable
  <2> QED
    BY <1>1, <1>4, <2>1 DEF InTable
<1> QED
  BY <1>5, <1>6, <1>7 DEF IdParts

(* Ids and table stay as they should be. *)
LEMMA NextIds ==
  ASSUME IInv, Next
  PROVE  IdParts'
<1> USE DEF IInv
<1>1. ASSUME NEW c \in Calls,
             \/ InterceptFails(c) \/ Open(c) \/ Begin(c) \/ StartWatcher(c) \/ Cancel(c)
             \/ Exit(c) \/ Watch(c)
      PROVE  IdParts'
  <2>1. UNCHANGED <<holds, reserved, table, cleared>>
    BY <1>1 DEF InterceptFails, Open, Begin, StartWatcher, Cancel, Exit, Watch
  <2>2. ASSUME NEW d \in Calls
        PROVE  /\ proc'[d] = "running" /\ pc'[d] \in {"warning", "done"} =>
                      proc[d] = "running" /\ pc[d] \in {"warning", "done"}
               /\ pc[d] \in {"warning", "done", "cancelled"} =>
                      pc'[d] \in {"warning", "done", "cancelled"}
               /\ NeedsId(d)' => NeedsId(d)
               /\ NeedsId(d) => NeedsId(d)' \/ pc'[d] \in {"leaked", "cancelled"}
               /\ pc[d] \in {"leaked", "cancelled"} => pc'[d] \in {"leaked", "cancelled"}
    BY <1>1 DEF InterceptFails, Open, Begin, StartWatcher, Cancel, Exit, Watch, InFlight,
       NeedsId, TypeOK
  <2> QED
    BY <2>1, <2>2, QuietIds
<1>2. ASSUME \/ \E i \in Ids : PollStart(i)
             \/ PollCancel \/ NextRequest
      PROVE  IdParts'
  <2>1. UNCHANGED <<pc, holds, reserved, table, proc, cleared>>
    BY <1>2 DEF PollStart, PollCancel, NextRequest
  <2> QED
    BY <2>1, QuietIds DEF NeedsId, InFlight
<1>3. ASSUME PollRefresh PROVE IdParts'
  BY <1>3, RefreshIds DEF PollRefresh
<1>4. ASSUME NEW i \in Ids, AbortedPoll(i) PROVE IdParts'
  <2>1. UNCHANGED <<pc, holds, proc, cleared>>
    BY <1>4 DEF AbortedPoll
  <2>2. Refresh(i) \/ UNCHANGED <<reserved, table>>
    BY <1>4 DEF AbortedPoll
  <2> QED
    BY <2>1, <2>2, RefreshIds, QuietIds DEF NeedsId, InFlight
<1> QED
  BY <1>1, <1>2, <1>3, <1>4, AllocateIds, ReleaseIds, StoreIds, TerminateIds
     DEF Next, ExecStep

(* A table that keeps its entries, or loses some, keeps what write_stdin reads. *)
LEMMA QuietPoll ==
  ASSUME IInv, Next, UNCHANGED <<holds, poll, late>>,
         \A i \in DOMAIN table' : i \in DOMAIN table /\ table'[i] = table[i],
         \A d \in Calls : NeedsId(d)' => NeedsId(d)
  PROVE  PollInv'
<1> USE DEF IInv
<1>1. \A j : Forgotten(j) => Forgotten(j)'
  BY StaysForgotten
<1>2. PollHasId'
  BY <1>1 DEF PollHasId
<1>3. PollSameProcess'
  BY <1>1 DEF PollSameProcess, Forgotten
<1> QED
  BY <1>2, <1>3 DEF PollInv

(* While a write_stdin reads a process, its id changes hands only to a call *)
(* that took it late, or with an id that was forgotten.                     *)
LEMMA NextPoll ==
  ASSUME IInv, Next
  PROVE  PollInv'
<1> USE DEF IInv
<1>1. ASSUME NEW c \in Calls, NEW i \in Ids, Allocate(c, i) PROVE PollInv'
  BY <1>1 DEF Allocate, TakeId, PollInv, PollHasId, PollSameProcess
<1>2. ASSUME NEW c \in Calls, NEW i \in Ids, AllocateLate(c, i) PROVE PollInv'
  <2>1. /\ UNCHANGED <<poll, table, cleared>> /\ holds' = [holds EXCEPT ![c] = i]
        /\ pc[c] = "idle" /\ pc' = [pc EXCEPT ![c] = "reserved"]
        /\ poll # NoPoll => late' = late \cup {c}
    BY <1>2 DEF AllocateLate, TakeId
  <2>2. \A j : Forgotten(j) => Forgotten(j)'
    BY StaysForgotten
  <2>3. \A d \in Calls \ {c} : holds'[d] = holds[d] /\ (NeedsId(d)' <=> NeedsId(d))
    BY <2>1 DEF TypeOK, NeedsId, InFlight
  <2>4. PollHasId'
    BY <2>1, <2>2, <2>3 DEF PollHasId
  <2>5. PollSameProcess'
    BY <2>1, <2>2 DEF PollSameProcess, Forgotten
  <2> QED
    BY <2>4, <2>5 DEF PollInv
<1>3. ASSUME NEW c \in Calls, GiveUp(c) \/ ReportExit(c) PROVE PollInv'
  <2>1. /\ UNCHANGED <<holds, poll, late>> /\ table' = Without(holds[c])
        /\ pc' \in {[pc EXCEPT ![c] = "failed"], [pc EXCEPT ![c] = "done"]}
    BY <1>3 DEF GiveUp, ReportExit, Forget, Unlock
  <2>2. \A d \in Calls : NeedsId(d)' => NeedsId(d)
    BY <2>1 DEF TypeOK, NeedsId, InFlight
  <2>3. \A j \in DOMAIN table' : j \in DOMAIN table /\ table'[j] = table[j]
    BY <2>1, WithoutEntries
  <2> QED
    BY <2>1, <2>2, <2>3, QuietPoll
<1>4. ASSUME NEW c \in Calls, Store(c) PROVE PollInv'
  <2>1. /\ UNCHANGED <<holds, poll, late, cleared>> /\ table' = With(c) /\ NeedsId(c)
        /\ pc' \in {[pc EXCEPT ![c] = "warning"], [pc EXCEPT ![c] = "done"]}
    BY <1>4 DEF Store, Unlock, locks, NeedsId, InFlight
  <2>2. \A d \in Calls : NeedsId(d)' => NeedsId(d)
    BY <2>1 DEF TypeOK, NeedsId, InFlight
  <2>3. /\ \A j : Forgotten(j)' <=> Forgotten(j)
        /\ table'[holds[c]] = c
        /\ \A j \in DOMAIN table' : j # holds[c] => j \in DOMAIN table /\ table'[j] = table[j]
    <3>1. \A j : Forgotten(j)' <=> Forgotten(j)
      BY <2>1 DEF Forgotten
    <3>2. /\ DOMAIN table' = Kept \cup {holds[c]} /\ Kept \subseteq DOMAIN table
          /\ table'[holds[c]] = c /\ \A j \in Kept \ {holds[c]} : table'[j] = table[j]
      BY ONLY <2>1, WithEntries
    <3> QED
      BY ONLY <3>1, <3>2
  <2>4. PollHasId'
    BY <2>1, <2>2, <2>3 DEF PollHasId
  <2>5. PollSameProcess'
    <3>1. CASE poll = NoPoll
      BY <2>1, <3>1 DEF PollSameProcess
    <3>2. CASE poll # NoPoll /\ poll.id = holds[c]
      <4>1. c \in late \/ Forgotten(poll.id)
        BY <2>1, <3>2 DEF PollHasId
      <4> QED
        BY <2>1, <2>3, <3>2, <4>1 DEF PollSameProcess, Forgotten
    <3>3. CASE poll # NoPoll /\ poll.id # holds[c]
      BY <2>1, <2>3, <3>3 DEF PollSameProcess
    <3> QED
      BY <3>1, <3>2, <3>3
  <2> QED
    BY <2>4, <2>5 DEF PollInv
<1>5. ASSUME NEW c \in Calls,
             \/ InterceptFails(c) \/ Open(c) \/ Begin(c) \/ StartWatcher(c) \/ Cancel(c)
             \/ Exit(c) \/ Watch(c)
      PROVE  PollInv'
  <2>1. UNCHANGED <<holds, poll, late, table>>
    BY <1>5 DEF InterceptFails, Open, Begin, StartWatcher, Cancel, Exit, Watch, Unlock, locks
  <2>2. \A d \in Calls : NeedsId(d)' => NeedsId(d)
    BY <1>5 DEF InterceptFails, Open, Begin, StartWatcher, Cancel, Exit, Watch, InFlight,
       NeedsId, TypeOK
  <2> QED
    BY <2>1, <2>2, QuietPoll
<1>6. ASSUME NEW i \in Ids, PollStart(i) PROVE PollInv'
  <2>1. /\ UNCHANGED <<pc, holds, table, cleared>> /\ i \in DOMAIN table
        /\ poll'.id = i /\ poll'.proc = table[i]
    BY <1>6 DEF PollStart
  <2>2. table[i] \in Stored /\ table[i] \in Calls /\ holds[table[i]] = i
    BY <2>1 DEF StoredUnderOwnId, Stored, Range, TypeOK
  <2>3. ~ NeedsId(table[i])
    BY <2>2, StoredHere
  <2>4. \A c \in Calls : NeedsId(c) /\ holds[c] = i => Forgotten(i)
    BY <2>2, <2>3 DEF Claims
  <2>5. PollHasId'
    BY <2>1, <2>4 DEF PollHasId, Forgotten, NeedsId, InFlight
  <2>6. PollSameProcess'
    BY <2>1 DEF PollSameProcess
  <2> QED
    BY <2>5, <2>6 DEF PollInv
<1>7. ASSUME PollRefresh \/ PollCancel \/ NextRequest PROVE PollInv'
  BY <1>7 DEF PollRefresh, PollCancel, NextRequest, EndPoll, PollInv, PollHasId, PollSameProcess
<1>8. ASSUME NEW i \in Ids, AbortedPoll(i) PROVE PollInv'
  <2>1. UNCHANGED <<pc, holds, poll, late>>
    BY <1>8 DEF AbortedPoll, locks
  <2>2. Refresh(i) \/ UNCHANGED table
    BY <1>8 DEF AbortedPoll
  <2>3. table' = table \/ table' = Without(i)
    BY <2>2 DEF Refresh, Forget
  <2>4. \A j \in DOMAIN table' : j \in DOMAIN table /\ table'[j] = table[j]
    <3>1. CASE table' = table
      BY <3>1
    <3>2. CASE table' = Without(i)
      BY ONLY <3>2, WithoutEntries
    <3> QED
      BY ONLY <2>3, <3>1, <3>2
  <2> QED
    BY <2>1, <2>4, QuietPoll DEF NeedsId, InFlight
<1>9. ASSUME TerminateAll PROVE PollInv'
  <2>1. UNCHANGED <<pc, holds, poll, late>> /\ DOMAIN table' = {}
    BY <1>9, EmptyTable DEF TerminateAll, locks
  <2> QED
    BY <2>1, QuietPoll DEF NeedsId, InFlight
<1> QED
  BY <1>1, <1>2, <1>3, <1>4, <1>5, <1>6, <1>7, <1>8, <1>9 DEF Next, ExecStep

(* The invariant is inductive. *)
LEMMA NextIInv == IInv /\ [Next]_vars => IInv'
<1>1. ASSUME IInv, Next PROVE IInv'
  BY <1>1, NextTypeOK, NextBegun, NextIds, NextEnds, NextPoll DEF IInv, IdParts, PollInv
<1>2. ASSUME IInv, UNCHANGED vars PROVE IInv'
  <2>1. TypeOK' /\ Begun' /\ EndsOnce' /\ PollInv'
    BY <1>2 DEF vars, locks, IInv, TypeOK, Stored, Begun, EndsOnce, PollInv, PollHasId,
       Forgotten, NeedsId, InFlight, PollSameProcess
  <2>2. IdParts'
    BY <1>2, QuietIds DEF vars, NeedsId, InFlight
  <2> QED
    BY <2>1, <2>2 DEF IInv, IdParts, PollInv
<1> QED
  BY <1>1, <1>2

(* The inductive invariant holds always. *)
LEMMA Invariant == Spec => []IInv
  BY InitIInv, NextIInv, PTL DEF Spec
--------------------------------------------------------------------------------
(* The state of the store and of its calls is well typed. *)
THEOREM TypeCorrect == Spec => []TypeOK
<1>1. IInv => TypeOK
  BY DEF IInv
<1> QED
  BY <1>1, Invariant, PTL

(* A running background process is reached by its id, unless that id was *)
(* forgotten under a call.                                               *)
THEOREM ProcessReachable == Spec => []Reachable
<1>1. IInv => Reachable
  BY DEF IInv, InTable, Reachable, Forgotten
<1> QED
  BY <1>1, Invariant, PTL

(* Ids are used up by calls in flight, stored processes and the known leaks. *)
THEOREM IdsNotLost == Spec => []IdsAccounted
<1>1. IInv => IdsAccounted
  BY DEF IInv, IdsHeld, IdsAccounted, NeedsId
<1> QED
  BY <1>1, Invariant, PTL

(* Each process has one end event, sent or about to be sent. *)
THEOREM EndReportedOnce == Spec => []OneEnd
<1>1. IInv => OneEnd
  BY DEF IInv, EndsOnce, OneEnd, TypeOK
<1> QED
  BY <1>1, Invariant, PTL

(* A write_stdin reports the process that it read, unless its id was forgotten *)
(* under a call or taken late by one of an earlier request.                    *)
THEOREM PollKeepsProcess == Spec => []PollSameProcess
<1>1. IInv => PollSameProcess
  BY DEF IInv
<1> QED
  BY <1>1, Invariant, PTL

(* Making room for a process spares the most recently used ones. *)
THEOREM RecentSpared == Spec => RecentKept
<1> DEFINE Spares(c, d) ==
      proc[c] = "running" /\ proc'[c] = "over"
          /\ c \in Stored /\ holds[c] # holds[d] /\ Store(d) =>
          Cardinality(Newer(c)) >= Protected
<1>1. ASSUME IInv, NEW c \in Calls, NEW d \in Calls, Store(d), c \in Stored,
             holds[c] # holds[d], proc[c] = "running", proc'[c] = "over"
      PROVE  Cardinality(Newer(c)) >= Protected
  <2>1. /\ holds[c] \in DOMAIN table /\ table[holds[c]] = c
    BY <1>1, StoredHere DEF IInv
  <2>2. c \in Pruned \cup Orphans(With(d))
    BY <1>1 DEF Store, Over, IInv, TypeOK
  <2>3. holds[c] \in Kept => With(d)[holds[c]] = c /\ holds[c] \in DOMAIN With(d)
    <3>1. holds[c] \in Kept => holds[c] \in Kept \ {holds[d]}
      BY <1>1
    <3> QED
      BY ONLY <2>1, <3>1, WithEntries
  <2>4. holds[c] \in Kept => c \in Range(With(d))
    BY <2>3 DEF Range
  <2>5. c \in Pruned
    BY <2>1, <2>2, <2>4 DEF Kept, Orphans
  <2> QED
    BY <2>5 DEF Pruned, Victim, Oldest, Unprotected
<1>2. ASSUME IInv PROVE \A c, d \in Calls : Spares(c, d)
  BY <1>1, <1>2
<1>3. IInv /\ [Next]_vars => [\A c, d \in Calls : Spares(c, d)]_vars
  <2> HIDE DEF Spares
  <2> QED
    BY ONLY <1>2
<1> QED
  BY <1>3, Invariant, PTL DEF Spec, RecentKept
--------------------------------------------------------------------------------
(* Room in the table: the last uses are ordered, so there is always an oldest *)
(* process, and a full table always has one that is not protected.            *)

(* The last uses are ordered, and any two processes with one differ in it. *)
Ages ==
    /\ \A c \in Calls : <<c, c>> \notin older
    /\ \A c, d, e \in Calls : <<c, d>> \in older /\ <<d, e>> \in older => <<c, e>> \in older
    /\ \A c, d \in Used : c # d => <<c, d>> \in older \/ <<d, c>> \in older

(* Of a finite set of stored processes, one was used before all others. *)
LEMMA OldestExists ==
  ASSUME TypeOK, Ages, NEW S \in SUBSET Stored, S # {}
  PROVE  Oldest(S) # {}
<1> DEFINE Before(c) == {d \in S : <<d, c>> \in older}
           T == {Before(c) : c \in S}
<1>1. IsFiniteSet(S) /\ S \subseteq Calls
  BY FS_Subset DEF TypeOK
<1>2. T \subseteq FiniteSubsetsOf(S) /\ T # {}
  <2>1. FiniteSubsetsOf(S) = SUBSET S
    BY <1>1, FS_FiniteSubsetsOfFinite
  <2>2. T \subseteq SUBSET S
    OBVIOUS
  <2>3. PICK c : c \in S
    OBVIOUS
  <2>4. Before(c) \in T
    BY <2>3
  <2> QED
    BY <2>1, <2>2, <2>4
<1>3. IsWellFoundedOn(StrictSubsetOrdering(S), FiniteSubsetsOf(S))
  BY FS_StrictSubsetOrderingWellFounded
<1>4. \E x \in T : \A y \in T : ~ (<<y, x>> \in StrictSubsetOrdering(S))
  BY ONLY <1>2, <1>3, WFMin
<1>5. PICK c \in S : \A d \in S : ~ (<<Before(d), Before(c)>> \in StrictSubsetOrdering(S))
  BY <1>4
<1>6. ASSUME NEW d \in S \ {c}, <<c, d>> \notin older PROVE FALSE
  <2>1. <<d, c>> \in older
    BY <1>1, <1>6 DEF Ages, Used
  <2>2. Before(d) \subseteq Before(c)
    BY <1>1, <2>1 DEF Ages
  <2>3. d \in Before(c) /\ d \notin Before(d)
    BY <1>1, <2>1 DEF Ages
  <2>4. <<Before(d), Before(c)>> \in StrictSubsetOrdering(S)
    BY <2>2, <2>3 DEF StrictSubsetOrdering
  <2> QED
    BY <1>5, <2>4
<1> QED
  BY <1>6 DEF Oldest

(* There are as many stored processes as entries. *)
LEMMA StoredCounted ==
  ASSUME TypeOK, StoredUnderOwnId
  PROVE  /\ IsFiniteSet(Stored) /\ IsFiniteSet(DOMAIN table)
         /\ Cardinality(Stored) \in Nat /\ Cardinality(DOMAIN table) \in Nat
         /\ Cardinality(DOMAIN table) <= Cardinality(Stored)
<1> DEFINE f == [i \in DOMAIN table |-> table[i]]
<1>1. IsFiniteSet(Stored) /\ IsFiniteSet(DOMAIN table)
  BY FS_Subset DEF TypeOK
<1>2. f \in [DOMAIN table -> Stored]
  BY DEF Stored, Range
<1>3. \A i, j \in DOMAIN table : f[i] = f[j] => i = j
  BY DEF StoredUnderOwnId
<1>4. f \in Injection(DOMAIN table, Stored)
  BY <1>2, <1>3 DEF Injection, IsInjective
<1> HIDE DEF f
<1>5. Cardinality(DOMAIN table) <= Cardinality(Stored)
  BY <1>1, <1>4, FS_Injection
<1> QED
  BY <1>1, <1>5, FS_CardinalityType

(* A full table always has a process to prune: the oldest has all the others *)
(* after it, and fewer are protected than a full table holds.                *)
LEMMA VictimExists ==
  ASSUME TypeOK, StoredUnderOwnId, Ages, Cardinality(DOMAIN table) >= MaxProcesses
  PROVE  \E v \in Stored : v \in Victim
<1>1. Cardinality(Stored) >= MaxProcesses /\ Cardinality(Stored) \in Nat /\ IsFiniteSet(Stored)
  BY StoredCounted
<1>2. Stored # {}
  BY <1>1, FS_EmptySet
<1>3. PICK o \in Stored : \A d \in Stored \ {o} : <<o, d>> \in older
  BY <1>2, OldestExists DEF Oldest
<1>4. Newer(o) = Stored \ {o}
  <2>1. o \in Calls
    BY DEF TypeOK
  <2> QED
    BY <1>3, <2>1 DEF Newer, Ages, Used
<1>5. Cardinality(Newer(o)) = Cardinality(Stored) - 1
  BY <1>1, <1>4, FS_RemoveElement
<1>6. Cardinality(Newer(o)) >= Protected
  BY <1>1, <1>5
<1>7. o \in Unprotected /\ Unprotected \subseteq Stored
  BY <1>6 DEF Unprotected
<1>8. PICK S \in SUBSET Stored : S # {} /\ Victim = Oldest(S)
  BY <1>7 DEF Victim
<1>9. Oldest(S) # {} /\ Oldest(S) \subseteq S
  BY <1>8, OldestExists DEF Oldest
<1> QED
  BY <1>8, <1>9

(* Storing a process does not fill the table beyond its limit. *)
LEMMA StoreBounded ==
  ASSUME TypeOK, StoredUnderOwnId, Ages, TableBounded, NEW c
  PROVE  Cardinality(DOMAIN With(c)) <= MaxProcesses
<1>1. IsFiniteSet(DOMAIN table) /\ Cardinality(DOMAIN table) \in Nat
  BY StoredCounted
<1>2. DOMAIN With(c) = Kept \cup {holds[c]} /\ Kept \subseteq DOMAIN table
  BY WithEntries
<1>3. IsFiniteSet(Kept) /\ Cardinality(Kept) \in Nat
  BY <1>1, <1>2, FS_Subset, FS_CardinalityType
<1>4. Cardinality(Kept) < MaxProcesses
  <2>1. CASE Cardinality(DOMAIN table) < MaxProcesses
    <3>1. Cardinality(Kept) <= Cardinality(DOMAIN table)
      BY <1>1, <1>2, FS_Subset
    <3> QED
      BY <1>1, <1>3, <2>1, <3>1
  <2>2. CASE Cardinality(DOMAIN table) >= MaxProcesses
    <3>1. PICK v \in Stored : v \in Victim
      BY <2>2, VictimExists
    <3>2. holds[v] \in DOMAIN table /\ holds[v] \notin Kept
      <4>1. Pruned = Victim
        BY <1>1, <2>2 DEF Pruned
      <4>2. holds[v] \in DOMAIN table /\ table[holds[v]] = v
        BY <3>1, StoredHere
      <4> QED
        BY <3>1, <4>1, <4>2 DEF Kept
    <3>3. Kept \subseteq DOMAIN table \ {holds[v]}
      BY <1>2, <3>2
    <3>4. /\ IsFiniteSet(DOMAIN table \ {holds[v]})
          /\ Cardinality(DOMAIN table \ {holds[v]}) = Cardinality(DOMAIN table) - 1
      BY <1>1, <3>2, FS_RemoveElement
    <3>5. Cardinality(Kept) <= Cardinality(DOMAIN table) - 1
      BY <3>3, <3>4, FS_Subset
    <3> QED
      BY <1>1, <1>3, <3>5 DEF TableBounded
  <2> QED
    BY <1>1, <2>1, <2>2
<1>5. \/ Cardinality(DOMAIN With(c)) = Cardinality(Kept)
      \/ Cardinality(DOMAIN With(c)) = Cardinality(Kept) + 1
  BY <1>2, <1>3, FS_AddElement
<1> QED
  BY <1>3, <1>4, <1>5

(* A use moves its process behind all others. *)
LEMMA TouchAges ==
  ASSUME TypeOK, Ages, NEW u \in Calls, older' = Touch(u), Used' \subseteq Used \cup {u}
  PROVE  Ages'
<1>1. \A c, d \in Calls :
          <<c, d>> \in older' <=>
             /\ c \in Used \ {u}
             /\ d = u \/ (d \in Used /\ <<c, d>> \in older)
  BY DEF Touch
<1>2. Used \subseteq Calls /\ Used' \subseteq Calls
  BY DEF Used, TypeOK
<1>3. \A c \in Calls : <<c, c>> \notin older'
  BY <1>1 DEF Ages
<1>4. ASSUME NEW c \in Calls, NEW d \in Calls, NEW e \in Calls,
             <<c, d>> \in older', <<d, e>> \in older'
      PROVE  <<c, e>> \in older'
  BY <1>1, <1>4 DEF Ages
<1>5. ASSUME NEW c \in Used', NEW d \in Used', c # d
      PROVE  <<c, d>> \in older' \/ <<d, c>> \in older'
  BY <1>1, <1>2, <1>5 DEF Ages
<1> QED
  BY <1>3, <1>4, <1>5 DEF Ages

(* Steps that use no process leave the order as it is. *)
LEMMA QuietAges ==
  ASSUME Ages, UNCHANGED older, Used' \subseteq Used
  PROVE  Ages'
  BY DEF Ages

(* Removing an entry keeps the table within its limit. *)
LEMMA ForgetBounded ==
  ASSUME TypeOK, TableBounded, NEW i, table' = Without(i)
  PROVE  TableBounded' /\ Stored' \subseteq Stored
<1>1. DOMAIN table' \subseteq DOMAIN table /\ Stored' \subseteq Stored
  BY WithoutEntries DEF Stored
<1>2. IsFiniteSet(DOMAIN table)
  BY FS_Subset DEF TypeOK
<1>3. /\ Cardinality(DOMAIN table') <= Cardinality(DOMAIN table)
      /\ Cardinality(DOMAIN table') \in Nat /\ Cardinality(DOMAIN table) \in Nat
  BY <1>1, <1>2, FS_Subset, FS_CardinalityType
<1> QED
  BY <1>1, <1>3 DEF TableBounded

(* Every step keeps the order of the last uses and the limit of the table. *)
LEMMA NextRoom ==
  ASSUME IInv, Ages, TableBounded, Next
  PROVE  Ages' /\ TableBounded'
<1> USE DEF IInv
<1>1. ASSUME NEW c \in Calls, Begin(c) PROVE Ages' /\ TableBounded'
  <2>1. TableBounded' /\ Stored' = Stored /\ older' = Touch(c)
    BY <1>1 DEF Begin, TableBounded, Stored
  <2>2. Used' \subseteq Used \cup {c}
    BY <1>1, <2>1 DEF Begin, Used, TypeOK
  <2> QED
    BY <2>1, <2>2, TouchAges
<1>2. ASSUME NEW i \in Ids, PollStart(i) \/ AbortedPoll(i), older' = Touch(table[i]),
             UNCHANGED <<table, pc>>
      PROVE  Ages' /\ TableBounded'
  <2>1. TableBounded' /\ Stored' = Stored /\ Used' = Used
    BY <1>2 DEF TableBounded, Stored, Used
  <2>2. table[i] \in Calls
    BY <1>2 DEF PollStart, AbortedPoll, TypeOK, Stored, Range
  <2> QED
    BY <1>2, <2>1, <2>2, TouchAges
<1>3. ASSUME NEW c \in Calls, Store(c) PROVE Ages' /\ TableBounded'
  <2>1. table' = With(c) /\ Stored' = Range(With(c)) /\ older' = older /\ pc[c] = "collecting"
    BY <1>3 DEF Store, Stored
  <2>2. TableBounded'
    <3>1. Cardinality(DOMAIN With(c)) <= MaxProcesses
      BY StoreBounded
    <3> QED
      BY <2>1, <3>1 DEF TableBounded
  <2>3. Stored' \subseteq Stored \cup {c}
    BY <2>1, WithEntries
  <2>4. \A d \in Calls : pc'[d] = "collecting" => pc[d] = "collecting"
    BY <1>3 DEF Store, TypeOK
  <2>5. Used' \subseteq Used
    BY <2>1, <2>3, <2>4 DEF Used
  <2> QED
    BY <2>1, <2>2, <2>5, QuietAges
<1>4. ASSUME NEW i, table' = Without(i), UNCHANGED older,
             \A d \in Calls : pc'[d] = "collecting" => pc[d] = "collecting"
      PROVE  Ages' /\ TableBounded'
  <2>1. TableBounded' /\ Stored' \subseteq Stored
    BY <1>4, ForgetBounded
  <2>2. Used' \subseteq Used
    BY <1>4, <2>1 DEF Used
  <2> QED
    BY <1>4, <2>1, <2>2, QuietAges
<1>5. ASSUME UNCHANGED <<table, older>>,
             \A d \in Calls : pc'[d] = "collecting" => pc[d] = "collecting"
      PROVE  Ages' /\ TableBounded'
  <2>1. TableBounded' /\ Stored' = Stored
    BY <1>5 DEF TableBounded, Stored
  <2>2. Used' \subseteq Used
    BY <1>5, <2>1 DEF Used
  <2> QED
    BY <1>5, <2>1, <2>2, QuietAges
<1>6. ASSUME NEW c \in Calls, GiveUp(c) \/ ReportExit(c) PROVE Ages' /\ TableBounded'
  <2>1. table' = Without(holds[c]) /\ older' = older
    BY <1>6 DEF GiveUp, ReportExit, Forget
  <2>2. \A d \in Calls : pc'[d] = "collecting" => pc[d] = "collecting"
    BY <1>6 DEF GiveUp, ReportExit, TypeOK
  <2> QED
    BY <1>4, <2>1, <2>2
<1>7. ASSUME NEW c \in Calls,
             \/ \E i \in Ids : Allocate(c, i) \/ AllocateLate(c, i)
             \/ InterceptFails(c) \/ Open(c) \/ StartWatcher(c) \/ Cancel(c) \/ Exit(c) \/ Watch(c)
      PROVE  Ages' /\ TableBounded'
  <2>1. UNCHANGED <<table, older>>
    BY <1>7 DEF Allocate, AllocateLate, TakeId, InterceptFails, Open, StartWatcher, Cancel,
       Exit, Watch
  <2>2. \A d \in Calls : pc'[d] = "collecting" => pc[d] = "collecting"
    BY <1>7 DEF Allocate, AllocateLate, TakeId, InterceptFails, Open, StartWatcher, Cancel,
       Exit, Watch, TypeOK
  <2> QED
    BY <1>5, <2>1, <2>2
<1>8. ASSUME NEW i, Refresh(i), UNCHANGED <<pc, older>> PROVE Ages' /\ TableBounded'
  <2>1. table' = table \/ table' = Without(i)
    BY <1>8 DEF Refresh, Forget
  <2> QED
    BY <1>4, <1>5, <1>8, <2>1
<1>9. ASSUME PollRefresh \/ PollCancel \/ NextRequest PROVE Ages' /\ TableBounded'
  <2>1. CASE PollRefresh
    BY <1>8, <2>1 DEF PollRefresh
  <2>2. CASE PollCancel \/ NextRequest
    <3>1. UNCHANGED <<table, older, pc>>
      BY <2>2 DEF PollCancel, NextRequest
    <3> QED
      BY <1>5, <3>1
  <2> QED
    BY <1>9, <2>1, <2>2
<1>10. ASSUME NEW i \in Ids, PollStart(i) \/ AbortedPoll(i) PROVE Ages' /\ TableBounded'
  <2>1. \/ older' = Touch(table[i]) /\ UNCHANGED <<table, pc>>
        \/ Refresh(i) /\ UNCHANGED <<pc, older>>
    BY <1>10 DEF PollStart, AbortedPoll
  <2> QED
    BY <1>2, <1>8, <1>10, <2>1
<1>11. ASSUME TerminateAll PROVE Ages' /\ TableBounded'
  <2>1. DOMAIN table' = {} /\ Stored' = {} /\ older' = older /\ pc' = pc
    BY <1>11, EmptyTable DEF TerminateAll, Stored
  <2>2. TableBounded'
    BY <2>1, FS_EmptySet DEF TableBounded
  <2>3. Used' \subseteq Used
    BY <2>1 DEF Used
  <2> QED
    BY <2>1, <2>2, <2>3, QuietAges
<1> QED
  BY <1>1, <1>3, <1>6, <1>7, <1>9, <1>10, <1>11 DEF Next, ExecStep

(* The table never holds more than MaxProcesses processes, though pruning    *)
(* spares the most recently used ones: room is always made for a new one.    *)
THEOREM RoomIsMade == Spec => []TableBounded
<1>1. Init => Ages /\ TableBounded
  <2>1. ASSUME Init PROVE DOMAIN table = {} /\ Stored = {}
    BY <2>1, EmptyTable DEF Init, Stored
  <2> QED
    BY <2>1, FS_EmptySet DEF Init, Ages, TableBounded, Used
<1>2. IInv /\ Ages /\ TableBounded /\ [Next]_vars => (Ages /\ TableBounded)'
  <2>1. ASSUME Ages, TableBounded, UNCHANGED vars PROVE Ages' /\ TableBounded'
    BY <2>1 DEF vars, Ages, TableBounded, Stored, Used
  <2> QED
    BY <2>1, NextRoom
<1> QED
  BY <1>1, <1>2, Invariant, PTL DEF Spec
================================================================================
