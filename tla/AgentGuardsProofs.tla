--------------------------- MODULE AgentGuardsProofs ---------------------------
(***************************************************************************)
(* The slots of the agents for any number of agents and any limit.  That    *)
(* the counter is accounted for is inductive with the types; the limit of   *)
(* the agents themselves follows from it, because an agent in the manager   *)
(* is registered until it has been removed (Registered) and the counter     *)
(* goes up below the limit only.                                            *)
(***************************************************************************)
EXTENDS AgentGuards, FiniteSetTheorems, TLAPS

Spawned == {a \in Agents : threads[a] = "agent"}

(* A spawned agent in the manager is registered, the one that was just *)
(* removed is not in the manager as an agent.                          *)
Registered ==
    /\ Spawned \subseteq threads_set
    /\ At("releasing") => op.id \notin Spawned

Counted == SlotAccounted /\ total_count <= MaxThreads

IInv == TypeOK /\ Counted /\ Registered /\ SlotsHeld

USE ConstantsAssumption
--------------------------------------------------------------------------------
(* Registered threads are finitely many. *)
LEMMA SetFinite ==
  ASSUME TypeOK
  PROVE  IsFiniteSet(threads_set) /\ Cardinality(threads_set) \in Nat
  BY FS_Subset, FS_CardinalityType DEF TypeOK

(* So is every set of agents. *)
LEMMA AgentsFinite ==
  ASSUME NEW S \in SUBSET Agents
  PROVE  Cardinality(S) \in Nat
  BY FS_Subset, FS_CardinalityType

(* The initial state satisfies the inductive invariant. *)
LEMMA InitIInv == Init => IInv
  BY FS_EmptySet DEF Init, IInv, TypeOK, Counted, SlotAccounted, Reserved, At, NoOp,
     Registered, Spawned, SlotsHeld

(* A tool under way is at a thread. *)
LEMMA OpAtThread ==
  ASSUME TypeOK, op.pc # "none"
  PROVE  op.id \in Agents
  BY DEF TypeOK

(* A commit registers the thread, or counts the registration it finds. *)
LEMMA CommitCounts ==
  ASSUME TypeOK, NEW a \in Agents, Commit(a)
  PROVE  /\ threads_set' \subseteq Agents /\ removed' \subseteq Agents
         /\ surplus' \in Nat
         /\ Cardinality(threads_set') + surplus' = Cardinality(threads_set) + surplus + 1
<1>1. threads_set' \subseteq Agents /\ removed' \subseteq Agents /\ surplus' \in Nat
  BY DEF TypeOK, Commit
<1>2. Cardinality(threads_set') =
        IF a \in threads_set THEN Cardinality(threads_set) ELSE Cardinality(threads_set) + 1
  BY SetFinite, FS_AddElement DEF Commit
<1> QED
  BY <1>1, <1>2, SetFinite DEF TypeOK, Commit

(* A release takes the thread out of the set and the counter together. *)
LEMMA ReleaseCounts ==
  ASSUME TypeOK, Counted, Reserved = 0, NEW a \in Agents, Release(a), surplus' = surplus
  PROVE  /\ total_count' \in Nat /\ total_count' <= MaxThreads
         /\ threads_set' \subseteq Agents /\ removed' \subseteq Agents
         /\ total_count' = Cardinality(threads_set') + surplus
<1>1. Cardinality(threads_set') =
        IF a \in threads_set THEN Cardinality(threads_set) - 1 ELSE Cardinality(threads_set)
  BY SetFinite, FS_RemoveElement DEF Release
<1>2. a \in threads_set => Cardinality(threads_set) # 0
  BY SetFinite, FS_EmptySet
<1>3. total_count = Cardinality(threads_set) + surplus
  BY SetFinite DEF Counted, SlotAccounted, TypeOK
<1> QED
  BY <1>1, <1>2, <1>3, SetFinite DEF Counted, TypeOK, Release
--------------------------------------------------------------------------------
(* The types and the counter are preserved by every step of a tool ... *)
LEMMA ToolCounted ==
  ASSUME IInv, ToolStep
  PROVE  TypeOK' /\ Counted'
<1> USE DEF IInv
<1> DEFINE Card == Cardinality(threads_set)
<1>0. Card \in Nat /\ total_count = Card + Reserved + surplus
  BY SetFinite DEF Counted, SlotAccounted
<1>1. ASSUME NEW a \in Agents, Spawn(a) PROVE TypeOK' /\ Counted'
  BY <1>0, <1>1 DEF Spawn, TryIncrement, NoOp, TypeOK, Counted, SlotAccounted, Reserved, At
<1>2. ASSUME NEW a \in Agents, ResumeLook(a) \/ SendInput(a) \/ Close(a)
      PROVE  TypeOK' /\ Counted'
  BY <1>0, <1>2 DEF ResumeLook, SendInput, Close, NoOp, TypeOK, Counted, SlotAccounted,
     Reserved, At
<1>3. ASSUME ResumeReserve PROVE TypeOK' /\ Counted'
  BY <1>0, <1>3, OpAtThread DEF ResumeReserve, TryIncrement, Goto, TypeOK, Counted,
     SlotAccounted, Reserved, At
<1>4. ASSUME Started PROVE TypeOK' /\ Counted'
  <2>1. op.id \in Agents /\ Commit(op.id) /\ Reserved = 1
    BY <1>4, OpAtThread DEF Started, At, Reserved
  <2>2. TypeOK'
    BY <1>4, <2>1, CommitCounts DEF Started, TypeOK, Goto, NoOp, At
  <2>3. Reserved' = 0
    BY <1>4 DEF Started, Goto, NoOp, At, Reserved, TypeOK
  <2>4. Counted'
    <3>1. Cardinality(threads_set') \in Nat
      BY <2>2, AgentsFinite DEF TypeOK
    <3>2. Cardinality(threads_set') + surplus' = Card + surplus + 1
      BY <2>1, CommitCounts
    <3>3. total_count' = total_count
      BY <1>4 DEF Started
    <3> HIDE DEF Card
    <3> QED
      BY <1>0, <2>1, <2>2, <2>3, <3>1, <3>2, <3>3 DEF Counted, SlotAccounted, TypeOK
  <2> QED
    BY <2>2, <2>4
<1>5. ASSUME StartFails PROVE TypeOK' /\ Counted'
  <2>1. Reserved = 1 /\ Reserved' = 0
    BY <1>5 DEF StartFails, NoOp, Reserved, At
  <2> QED
    BY <1>0, <1>5, <2>1 DEF StartFails, NoOp, TypeOK, Counted, SlotAccounted
<1>6. ASSUME Died \/ Remove \/ Return PROVE TypeOK' /\ Counted'
  BY <1>0, <1>6 DEF Died, Remove, Return, Goto, NoOp, TypeOK, Counted, SlotAccounted,
     Reserved, At
<1>7. ASSUME ReleaseSlot PROVE TypeOK' /\ Counted'
  <2>1. op.id \in Agents /\ Release(op.id) /\ Reserved = 0 /\ Reserved' = 0
    BY <1>7, OpAtThread DEF ReleaseSlot, At, Reserved, NoOp
  <2>2. /\ total_count' \in Nat /\ total_count' <= MaxThreads
        /\ threads_set' \subseteq Agents /\ removed' \subseteq Agents
        /\ total_count' = Cardinality(threads_set') + surplus
    BY <1>7, <2>1, ReleaseCounts DEF ReleaseSlot
  <2>3. TypeOK'
    BY <1>7, <2>2 DEF ReleaseSlot, NoOp, TypeOK
  <2>4. Counted'
    <3>1. Cardinality(threads_set') \in Nat /\ surplus' = surplus
      BY <1>7, <2>3, AgentsFinite DEF TypeOK, ReleaseSlot
    <3> QED
      BY <2>1, <2>2, <2>3, <3>1 DEF Counted, SlotAccounted, TypeOK
  <2> QED
    BY <2>3, <2>4
<1> QED
  BY <1>1, <1>2, <1>3, <1>4, <1>5, <1>6, <1>7 DEF ToolStep

(* ... and by what happens beside the tools. *)
LEMMA OthersCounted ==
  ASSUME IInv, NEW a \in Agents, AgentEnds(a) \/ UserRemoves(a) \/ Archive(a) \/ UserResumes(a)
  PROVE  TypeOK' /\ Counted'
  BY SetFinite DEF IInv, AgentEnds, UserRemoves, Archive, UserResumes, TypeOK, Counted,
     SlotAccounted, Reserved, At

(* No step leaves an agent in the manager without its registration, or holds *)
(* a slot for nothing.                                                       *)
LEMMA NextHeld ==
  ASSUME IInv, Next
  PROVE  Registered' /\ SlotsHeld'
<1> USE DEF IInv, Registered, SlotsHeld, Spawned
<1>1. ASSUME NEW a \in Agents, Spawn(a) \/ ResumeLook(a) \/ SendInput(a) \/ Close(a)
      PROVE  Registered' /\ SlotsHeld'
  BY <1>1 DEF Spawn, ResumeLook, SendInput, Close, NoOp, TypeOK, At
<1>2. ASSUME ResumeReserve \/ StartFails \/ Died \/ Return PROVE Registered' /\ SlotsHeld'
  BY <1>2 DEF ResumeReserve, StartFails, Died, Return, Goto, NoOp, TypeOK, At, Reserved
<1>3. ASSUME Started PROVE Registered' /\ SlotsHeld'
  BY <1>3, OpAtThread DEF Started, Commit, Goto, NoOp, TypeOK, At
<1>4. ASSUME Remove PROVE Registered' /\ SlotsHeld'
  BY <1>4, OpAtThread DEF Remove, Goto, TypeOK, At
<1>5. ASSUME ReleaseSlot PROVE Registered' /\ SlotsHeld'
  BY <1>5, OpAtThread DEF ReleaseSlot, Release, NoOp, TypeOK, At
<1>6. ASSUME NEW a \in Agents,
             AgentEnds(a) \/ UserRemoves(a) \/ Archive(a) \/ UserResumes(a)
      PROVE  Registered' /\ SlotsHeld'
  BY <1>6 DEF AgentEnds, UserRemoves, Archive, UserResumes, TypeOK, At
<1> QED
  BY <1>1, <1>2, <1>3, <1>4, <1>5, <1>6 DEF Next, ToolStep

(* The invariant is inductive. *)
LEMMA NextIInv == IInv /\ [Next]_vars => IInv'
<1>1. ASSUME IInv, Next PROVE IInv'
  BY <1>1, ToolCounted, OthersCounted, NextHeld DEF Next, IInv
<1>2. ASSUME IInv, UNCHANGED vars PROVE IInv'
  BY <1>2 DEF IInv, vars, TypeOK, Counted, SlotAccounted, Registered, Spawned, SlotsHeld,
     Reserved, At
<1> QED
  BY <1>1, <1>2

(* The agents in the manager and a reservation fit in the counter. *)
LEMMA LimitFollows == IInv => LimitHolds
<1> SUFFICES ASSUME IInv PROVE LimitHolds
  OBVIOUS
<1>1. Cardinality(Spawned) <= Cardinality(threads_set) /\ Cardinality(Spawned) \in Nat
  BY SetFinite, FS_Subset, FS_CardinalityType DEF IInv, Registered
<1>2. Reserved \in Nat
  BY DEF Reserved
<1> QED
  BY <1>1, <1>2, SetFinite DEF IInv, TypeOK, Counted, SlotAccounted, LimitHolds, Spawned

(* The inductive invariant holds always. *)
LEMMA Invariant == Spec => []IInv
  BY InitIInv, NextIInv, PTL DEF Spec
--------------------------------------------------------------------------------
(* The state of the slots is well typed; the counter never wraps below zero. *)
THEOREM TypeCorrect == Spec => []TypeOK
<1>1. IInv => TypeOK
  BY DEF IInv
<1> QED
  BY <1>1, Invariant, PTL

(* The counter is exactly the registered threads, the reservation under way *)
(* and the surplus.                                                         *)
THEOREM SlotsAccounted == Spec => []SlotAccounted
<1>1. IInv => SlotAccounted
  BY DEF IInv, Counted
<1> QED
  BY <1>1, Invariant, PTL

(* No more than MaxThreads agents are in the manager or about to enter it. *)
THEOREM LimitKept == Spec => []LimitHolds
  BY LimitFollows, Invariant, PTL

(* A slot is held for an agent in the manager, one being removed, or one *)
(* that the user removed.                                                *)
THEOREM NoSlotForNothing == Spec => []SlotsHeld
<1>1. IInv => SlotsHeld
  BY DEF IInv
<1> QED
  BY <1>1, Invariant, PTL
================================================================================
