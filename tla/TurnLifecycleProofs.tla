------------------------ MODULE TurnLifecycleProofs ------------------------
(***************************************************************************)
(* Safety of the turn lifecycle for any number of turns, inputs and tool   *)
(* calls.  The inductive invariant follows the submission loop: once it    *)
(* has taken the active turn nothing is registered until it registers the  *)
(* next turn, so what it removed, and only that, is in its hands.          *)
(***************************************************************************)
EXTENDS TurnLifecycle, TLAPS

AbortPlaces == {"cancel", "listen", "grace", "abort", "mark", "report"}
SpawnPlaces == {"spawnRegular", "spawnOther"}

(* Where the loop is, and what it then holds. *)
LoopInv ==
    /\ at \in AbortPlaces <=> victim # NoTurn
    /\ at \notin {"idle", "take"} => active = NoTurn
    /\ at \in SpawnPlaces => latest < MaxTurns
    /\ at \in {"take"} \cup AbortPlaces /\ next \in SpawnPlaces => latest < MaxTurns
    /\ at = "register" => latest > 0

(* The turns that exist, and those whose token is cancelled. *)
TurnInv ==
    /\ active <= latest /\ victim <= latest
    /\ \A t \in Turns : t > latest => pc[t] = "unborn"
    /\ \A t \in cancelled : t <= latest
    /\ active \notin cancelled
    /\ at = "cancel" => victim \notin cancelled
    /\ at = "register" => latest \notin cancelled
    /\ cancelled \subseteq aborted \cup {victim}

(* The senders of approvals are in an ActiveTurn; the token of a turn that *)
(* is taken is cancelled next, and before the turn is reported as aborted; *)
(* a task that has reported its turn as completed asks for nothing.        *)
AskInv ==
    /\ AskerReachable
    /\ at \in AbortPlaces \ {"cancel"} => victim \in cancelled
    /\ aborted \subseteq cancelled
    /\ \A t \in completed : pc[t] \in {"notifying", "ended", "dropped"}
    /\ approvals # {} => active # NoTurn

IInv == TypeOK /\ LoopInv /\ TurnInv /\ AskInv /\ TurnAccounted

USE MaxTurnsAssumption, MaxCallsAssumption

-----------------------------------------------------------------------------
(* The initial state satisfies the inductive invariant. *)
LEMMA InitIInv == Init => IInv
<1> SUFFICES ASSUME Init PROVE IInv
  OBVIOUS
<1> USE DEF Init, Turns, NoTurn
<1>1. TypeOK
  BY DEF TypeOK, LoopPlaces, TaskPlaces, RunPlaces, EpiloguePlaces, Channels
<1>2. LoopInv /\ TurnInv
  BY DEF LoopInv, TurnInv, AbortPlaces, SpawnPlaces
<1>3. AskInv /\ TurnAccounted
  BY DEF AskInv, AskerReachable, TurnAccounted, AbortPlaces
<1> QED
  BY <1>1, <1>2, <1>3 DEF IInv

-----------------------------------------------------------------------------
(* Typing *)

(* Closing approvals leaves every channel typed. *)
LEMMA CloseTyped == TypeOK /\ CloseApprovals => channel' \in [Turns -> Channels]
  BY DEF TypeOK, CloseApprovals, Channels

(* A step of an Op or of the loop preserves the typing of the state. *)
LEMMA LoopTypeOK == TypeOK /\ LoopInv /\ (Op \/ LoopStep) => TypeOK'
<1> SUFFICES ASSUME TypeOK, LoopInv, Op \/ LoopStep PROVE TypeOK'
  OBVIOUS
<1> USE DEF TypeOK, LoopPlaces, loopVars, activeVars, taskVars,
            outVars, historyVars
<1>1. ASSUME NEW i \in Inputs, OpSteer(i) PROVE TypeOK'
  BY <1>1 DEF OpSteer, SteerInput
<1>2. ASSUME NEW i \in Inputs, OpUserTurn(i) PROVE TypeOK'
  <2>1. latest + 1 \in Turns
    BY <1>2 DEF OpUserTurn, Turns
  <2>2. acceptedBy' \in [Inputs -> Turns \cup {NoTurn}] /\ prompt' \subseteq Inputs
    BY <1>2, <2>1 DEF OpUserTurn, BeginAbort
  <2> QED
    BY <1>2, <2>2 DEF OpUserTurn, BeginAbort
<1>3. CASE OpOtherTask \/ OpInterrupt \/ OpShutdown
  BY <1>3 DEF OpOtherTask, OpInterrupt, OpShutdown, BeginAbort
<1>4. ASSUME NEW t \in Turns, NEW d \in {"approved", "denied"}, OpApproval(t, d)
      PROVE  TypeOK'
  BY <1>4 DEF OpApproval, Channels
<1>5. CASE LoopTake
  BY <1>5, CloseTyped DEF LoopTake, ClearActive
<1>6. CASE LoopCancel
  BY <1>6 DEF LoopCancel, LoopInv, AbortPlaces
<1>7. CASE LoopListen \/ LoopGraceDone \/ LoopGraceTimeout
  BY <1>7 DEF LoopListen, LoopGraceDone, LoopGraceTimeout
<1>8. CASE LoopAbort \/ LoopMark \/ LoopReport
  BY <1>8 DEF LoopAbort, LoopMark, LoopReport, LoopInv, AbortPlaces
<1>9. CASE LoopSpawn
  <2>1. latest + 1 \in Turns /\ latest' = latest + 1
    BY <1>9 DEF LoopSpawn, LoopInv, SpawnPlaces, Turns
  <2> QED
    BY <1>9, <2>1 DEF LoopSpawn, Turns, TaskPlaces, RunPlaces
<1>10. CASE LoopRegister
  <2>1. latest \in Turns
    BY <1>10 DEF LoopRegister, LoopInv, Turns
  <2>2. channel' \in [Turns -> Channels]
    BY <1>10, CloseTyped DEF LoopRegister
  <2> QED
    BY <1>10, <2>1, <2>2 DEF LoopRegister
<1> QED
  BY <1>1, <1>2, <1>3, <1>4, <1>5, <1>6, <1>7, <1>8, <1>9, <1>10 DEF Op, LoopStep

(* Taking the pending input leaves the buffers typed. *)
LEMMA TakeTyped ==
  ASSUME TypeOK, NEW t \in Turns, TakePending(t)
  PROVE  /\ held' \in [Turns -> SUBSET Inputs]
         /\ pending' \subseteq Inputs
  BY DEF TypeOK, TakePending

(* A step of a task preserves the typing of the state. *)
LEMMA TaskTypeOK ==
  ASSUME TypeOK, NEW t \in Turns, RunStep(t) \/ EpilogueStep(t) \/ TaskDrop(t)
  PROVE  TypeOK'
<1> USE DEF TypeOK, Step, TaskPlaces, RunPlaces, EpiloguePlaces, Channels,
            loopVars, activeVars, taskVars,
            outVars, historyVars
<1>1. CASE TaskStart(t) \/ TaskFailEarly(t) \/ TaskAnswered(t) \/ TaskError(t)
  BY <1>1 DEF TaskStart, TaskFailEarly, TaskAnswered, TaskError
<1>2. CASE TaskRecordPrompt(t) \/ TaskRecordPulled(t) \/ TaskRecordLeftover(t)
  BY <1>2 DEF TaskRecordPrompt, TaskRecordPulled, TaskRecordLeftover, RecordHeld
<1>3. CASE TaskPull(t)
  BY <1>3, TakeTyped DEF TaskPull
<1>4. CASE TaskCallTool(t)
  BY <1>4 DEF TaskCallTool
<1>5. CASE TaskAsk(t) \/ TaskResume(t)
  BY <1>5 DEF TaskAsk, TaskResume
<1>6. CASE TaskDecide(t) \/ TaskWorked(t) \/ TaskFlushed(t)
  BY <1>6 DEF TaskDecide, TaskWorked, TaskFlushed
<1>7. CASE TaskCancelled(t)
  BY <1>7 DEF TaskCancelled
<1>8. CASE TaskFinish(t)
  <2>1. CASE active = t
    BY <1>8, <2>1, TakeTyped, CloseTyped DEF TaskFinish
  <2>2. CASE active # t
    BY <1>8, <2>2 DEF TaskFinish
  <2> QED
    BY <2>1, <2>2
<1>9. CASE TaskEmit(t) \/ TaskNotify(t) \/ TaskDrop(t)
  BY <1>9 DEF TaskEmit, TaskNotify, TaskDrop
<1> QED
  BY <1>1, <1>2, <1>3, <1>4, <1>5, <1>6, <1>7, <1>8, <1>9 DEF RunStep, EpilogueStep

-----------------------------------------------------------------------------
(* What a task leaves alone *)

(* A step of a task changes its own place only, leaves the loop alone, and *)
(* touches the registration only to remove its own turn.                   *)
LEMMA TaskFrame ==
  ASSUME TypeOK, NEW t \in Turns, RunStep(t) \/ EpilogueStep(t) \/ TaskDrop(t)
  PROVE  /\ UNCHANGED <<latest, loopVars, cancelled, aborted, marked>>
         /\ \A u \in Turns : u # t => pc'[u] = pc[u]
         /\ Live(t) /\ pc'[t] # "unborn"
         /\ \/ active' = active
            \/ /\ active = t /\ active' = NoTurn
               /\ pc[t] = "finishing" /\ pc'[t] \in {"emitting", "leftover"}
<1> USE DEF TypeOK, Step, Live, RunPlaces, EpiloguePlaces, loopVars, activeVars,
            taskVars, outVars, historyVars
<1>1. CASE TaskStart(t) \/ TaskFailEarly(t) \/ TaskAnswered(t) \/ TaskError(t)
  BY <1>1 DEF TaskStart, TaskFailEarly, TaskAnswered, TaskError
<1>2. CASE TaskRecordPrompt(t) \/ TaskRecordPulled(t) \/ TaskRecordLeftover(t)
  BY <1>2 DEF TaskRecordPrompt, TaskRecordPulled, TaskRecordLeftover
<1>3. CASE TaskPull(t) \/ TaskCallTool(t)
  BY <1>3 DEF TaskPull, TaskCallTool
<1>4. CASE TaskAsk(t) \/ TaskResume(t)
  BY <1>4 DEF TaskAsk, TaskResume
<1>5. CASE TaskDecide(t) \/ TaskWorked(t) \/ TaskFlushed(t) \/ TaskCancelled(t)
  BY <1>5 DEF TaskDecide, TaskWorked, TaskFlushed, TaskCancelled
<1>6. CASE TaskFinish(t)
  BY <1>6 DEF TaskFinish
<1>7. CASE TaskEmit(t) \/ TaskNotify(t)
  BY <1>7 DEF TaskEmit, TaskNotify
<1>8. CASE TaskDrop(t)
  BY <1>8 DEF TaskDrop
<1> QED
  BY <1>1, <1>2, <1>3, <1>4, <1>5, <1>6, <1>7, <1>8 DEF RunStep, EpilogueStep

-----------------------------------------------------------------------------
(* The loop *)

(* A step of an Op or of the loop preserves what the loop holds, and what  *)
(* is said of the turns.                                                   *)
LEMMA LoopLoopInv == IInv /\ (Op \/ LoopStep) => LoopInv' /\ TurnInv'
<1> DEFINE Goal == LoopInv /\ TurnInv
<1> SUFFICES ASSUME IInv, Op \/ LoopStep PROVE Goal'
  OBVIOUS
<1> USE DEF IInv, TypeOK, LoopInv, TurnInv, AbortPlaces, SpawnPlaces, Turns, NoTurn,
            loopVars, activeVars, taskVars,
            outVars, historyVars
<1>1. ASSUME NEW i \in Inputs, OpSteer(i) PROVE Goal'
  BY <1>1 DEF OpSteer
<1>2. ASSUME NEW i \in Inputs, OpUserTurn(i) PROVE Goal'
  BY <1>2 DEF OpUserTurn, BeginAbort
<1>3. CASE OpOtherTask \/ OpInterrupt \/ OpShutdown
  BY <1>3 DEF OpOtherTask, OpInterrupt, OpShutdown, BeginAbort
<1>4. ASSUME NEW t \in Turns, NEW d \in {"approved", "denied"}, OpApproval(t, d)
      PROVE  Goal'
  BY <1>4 DEF OpApproval
<1>5. CASE LoopTake
  BY <1>5 DEF LoopTake, ClearActive
<1>6. CASE LoopCancel
  BY <1>6 DEF LoopCancel
<1>7. CASE LoopListen \/ LoopGraceDone \/ LoopGraceTimeout
  BY <1>7 DEF LoopListen, LoopGraceDone, LoopGraceTimeout
<1>8. CASE LoopAbort \/ LoopMark
  BY <1>8 DEF LoopAbort, LoopMark
<1>9. CASE LoopReport
  <2>1. LoopInv'
    BY <1>9 DEF LoopReport
  <2>2. cancelled' \subseteq aborted' \cup {victim'}
    BY <1>9 DEF LoopReport
  <2> QED
    BY <1>9, <2>1, <2>2 DEF LoopReport
<1>10. CASE LoopSpawn
  BY <1>10 DEF LoopSpawn
<1>11. CASE LoopRegister
  BY <1>11 DEF LoopRegister
<1> QED
  BY <1>1, <1>2, <1>3, <1>4, <1>5, <1>6, <1>7, <1>8, <1>9, <1>10, <1>11
     DEF Op, LoopStep

(* A step of a task preserves both. *)
LEMMA TaskLoopInv ==
  ASSUME IInv, NEW t \in Turns, RunStep(t) \/ EpilogueStep(t) \/ TaskDrop(t)
  PROVE  LoopInv' /\ TurnInv'
<1>1. TypeOK /\ LoopInv /\ TurnInv
  BY DEF IInv
<1>2. /\ UNCHANGED <<latest, loopVars, cancelled, aborted>>
      /\ \A u \in Turns : u # t => pc'[u] = pc[u]
      /\ active' \in {active, NoTurn}
      /\ Live(t)
  BY <1>1, TaskFrame
<1>3. t <= latest
  <2>1. pc[t] # "unborn"
    BY <1>2 DEF Live, RunPlaces, EpiloguePlaces
  <2>2. \A u \in Turns : u > latest => pc[u] = "unborn"
    BY <1>1 DEF TurnInv
  <2> QED
    BY <1>1, <2>1, <2>2 DEF TypeOK, Turns
<1>4. LoopInv'
  BY <1>1, <1>2 DEF LoopInv, loopVars, AbortPlaces, SpawnPlaces
<1>5. TurnInv'
  <2>1. \A u \in Turns : u > latest' => pc'[u] = "unborn"
    BY <1>1, <1>2, <1>3 DEF TypeOK, TurnInv, Turns
  <2>2. NoTurn <= latest /\ NoTurn \notin cancelled
    BY <1>1 DEF TypeOK, NoTurn, Turns
  <2> QED
    BY <1>1, <1>2, <2>1, <2>2 DEF TurnInv, loopVars
<1> QED
  BY <1>4, <1>5

-----------------------------------------------------------------------------
(* Approvals *)

(* Closing the approvals leaves no waiting task with an open channel.      *)
LEMMA ClosedAnswer ==
  ASSUME TypeOK, AskInv, CloseApprovals, NEW u \in Turns, pc[u] = "waiting"
  PROVE  channel'[u] # "open" /\ (channel'[u] = "kept" => channel[u] = "kept")
  BY DEF TypeOK, AskInv, AskerReachable, CloseApprovals

(* A step of an Op or of the loop keeps every waiting task reachable. *)
LEMMA LoopAskInv == IInv /\ (Op \/ LoopStep) => AskInv'
<1> SUFFICES ASSUME IInv, Op \/ LoopStep PROVE AskInv'
  OBVIOUS
<1> USE DEF AskInv, AskerReachable, LoopInv, AbortPlaces, SpawnPlaces, loopVars,
            activeVars, taskVars, outVars, historyVars
<1>1. ASSUME NEW i \in Inputs, OpSteer(i) \/ OpUserTurn(i) PROVE AskInv'
  BY <1>1 DEF OpSteer, OpUserTurn, BeginAbort, IInv
<1>2. CASE OpOtherTask \/ OpInterrupt \/ OpShutdown
  BY <1>2 DEF OpOtherTask, OpInterrupt, OpShutdown, BeginAbort, IInv
<1>3. ASSUME NEW t \in Turns, NEW d \in {"approved", "denied"}, OpApproval(t, d)
      PROVE  AskInv'
  BY <1>3 DEF OpApproval, IInv, TypeOK
<1>4. CASE LoopTake
  <2>1. CASE active = NoTurn
    BY <1>4, <2>1 DEF LoopTake, IInv, TypeOK, Turns, NoTurn
  <2>2. CASE active # NoTurn
    BY <1>4, <2>2, ClosedAnswer DEF LoopTake, ClearActive, IInv, TypeOK, Turns, NoTurn
  <2> QED
    BY <2>1, <2>2
<1>5. CASE LoopCancel \/ LoopListen \/ LoopGraceDone \/ LoopGraceTimeout
           \/ LoopAbort \/ LoopMark \/ LoopReport
  <2>1. CASE LoopCancel
    BY <1>5, <2>1 DEF LoopCancel, IInv, TypeOK, TurnInv, Turns, NoTurn
  <2>2. CASE LoopListen \/ LoopGraceDone \/ LoopGraceTimeout \/ LoopAbort \/ LoopMark
    BY <1>5, <2>2 DEF LoopListen, LoopGraceDone, LoopGraceTimeout, LoopAbort, LoopMark,
                      IInv
  <2>3. CASE LoopReport
    BY <1>5, <2>3 DEF LoopReport, IInv, TypeOK, Turns, NoTurn
  <2> QED
    BY <1>5, <2>1, <2>2, <2>3
<1>6. CASE LoopSpawn
  <2>1. \A u \in Turns : pc'[u] = "waiting" => pc[u] = "waiting"
    BY <1>6 DEF LoopSpawn, IInv, TypeOK, SpawnPlaces
  <2> QED
    BY <1>6, <2>1 DEF LoopSpawn, IInv, TypeOK, TurnInv, Turns
<1>7. CASE LoopRegister
  BY <1>7, ClosedAnswer DEF LoopRegister, IInv, TypeOK, Turns, NoTurn
<1> QED
  BY <1>1, <1>2, <1>3, <1>4, <1>5, <1>6, <1>7 DEF Op, LoopStep

(* A step of a task keeps every waiting task reachable. *)
LEMMA TaskAskInv ==
  ASSUME IInv, NEW t \in Turns, RunStep(t) \/ EpilogueStep(t) \/ TaskDrop(t)
  PROVE  AskInv'
<1> USE DEF IInv, TypeOK, AskInv, AskerReachable, Step, loopVars, activeVars,
            taskVars, outVars, historyVars
<1>1. CASE TaskStart(t) \/ TaskFailEarly(t) \/ TaskAnswered(t) \/ TaskError(t)
  BY <1>1 DEF TaskStart, TaskFailEarly, TaskAnswered, TaskError
<1>2. CASE TaskRecordPrompt(t) \/ TaskRecordPulled(t) \/ TaskRecordLeftover(t)
  BY <1>2 DEF TaskRecordPrompt, TaskRecordPulled, TaskRecordLeftover
<1>3. CASE TaskPull(t) \/ TaskCallTool(t)
  BY <1>3 DEF TaskPull, TaskCallTool
<1>4. CASE TaskAsk(t) \/ TaskResume(t)
  <2>1. CASE TaskAsk(t) /\ active = NoTurn
    <3>1. pc[t] = "asking" /\ pc[t] \notin {"unborn", "leftover", "emitting", "dropped"}
      BY <2>1 DEF TaskAsk
    <3>2. t \in 1 .. latest /\ t # active
      BY <2>1, <3>1 DEF TurnInv, Turns, NoTurn
    <3>3. t \in cancelled \cup {victim} \/ (at = "register" /\ t = latest)
      BY <3>1, <3>2 DEF TurnAccounted
    <3> QED
      BY <2>1, <3>3 DEF TaskAsk
  <2>2. CASE TaskAsk(t) /\ active # NoTurn
    BY <2>2 DEF TaskAsk
  <2>3. CASE TaskResume(t)
    BY <2>3 DEF TaskResume
  <2> QED
    BY <1>4, <2>1, <2>2, <2>3
<1>5. CASE TaskDecide(t) \/ TaskWorked(t) \/ TaskFlushed(t) \/ TaskCancelled(t)
  BY <1>5 DEF TaskDecide, TaskWorked, TaskFlushed, TaskCancelled
<1>6. CASE TaskFinish(t)
  <2>1. CASE active = t
    BY <1>6, <2>1, ClosedAnswer DEF TaskFinish
  <2>2. CASE active # t
    BY <1>6, <2>2 DEF TaskFinish
  <2> QED
    BY <2>1, <2>2
<1>7. CASE TaskEmit(t) \/ TaskNotify(t) \/ TaskDrop(t)
  BY <1>7 DEF TaskEmit, TaskNotify, TaskDrop
<1> QED
  BY <1>1, <1>2, <1>3, <1>4, <1>5, <1>6, <1>7 DEF RunStep, EpilogueStep

-----------------------------------------------------------------------------
(* No turn is forgotten *)

(* An Op or the loop hands a turn on, and forgets none. *)
LEMMA LoopAccounted == IInv /\ (Op \/ LoopStep) => TurnAccounted'
<1> SUFFICES ASSUME IInv, Op \/ LoopStep PROVE TurnAccounted'
  OBVIOUS
<1> USE DEF IInv, TypeOK, LoopInv, TurnInv, TurnAccounted, AbortPlaces, SpawnPlaces,
            Turns, NoTurn, loopVars, activeVars, taskVars,
            outVars, historyVars
<1>1. ASSUME NEW i \in Inputs, OpSteer(i) \/ OpUserTurn(i) PROVE TurnAccounted'
  BY <1>1 DEF OpSteer, OpUserTurn, BeginAbort
<1>2. CASE OpOtherTask \/ OpInterrupt \/ OpShutdown
  BY <1>2 DEF OpOtherTask, OpInterrupt, OpShutdown, BeginAbort
<1>3. ASSUME NEW t \in Turns, NEW d \in {"approved", "denied"}, OpApproval(t, d)
      PROVE  TurnAccounted'
  BY <1>3 DEF OpApproval
<1>4. CASE LoopTake
  BY <1>4 DEF LoopTake, ClearActive
<1>5. CASE LoopCancel
  BY <1>5 DEF LoopCancel
<1>6. CASE LoopListen \/ LoopGraceDone \/ LoopGraceTimeout
  BY <1>6 DEF LoopListen, LoopGraceDone, LoopGraceTimeout
<1>7. CASE LoopAbort \/ LoopMark \/ LoopReport
  BY <1>7 DEF LoopAbort, LoopMark, LoopReport
<1>8. CASE LoopSpawn
  BY <1>8 DEF LoopSpawn
<1>9. CASE LoopRegister
  BY <1>9 DEF LoopRegister
<1> QED
  BY <1>1, <1>2, <1>3, <1>4, <1>5, <1>6, <1>7, <1>8, <1>9 DEF Op, LoopStep

(* A task gives its turn up on the way to its final event only. *)
LEMMA TaskAccounted ==
  ASSUME IInv, NEW t \in Turns, RunStep(t) \/ EpilogueStep(t) \/ TaskDrop(t)
  PROVE  TurnAccounted'
<1>1. TypeOK /\ TurnInv /\ TurnAccounted
  BY DEF IInv
<1>2. completed \subseteq completed'
  BY DEF RunStep, EpilogueStep, TaskStart, TaskFailEarly, TaskAnswered, TaskError,
         TaskRecordPrompt, TaskRecordPulled, TaskRecordLeftover, TaskPull,
         TaskCallTool, TaskAsk, TaskResume, TaskDecide, TaskWorked, TaskFlushed,
         TaskCancelled, TaskFinish, TaskEmit, TaskNotify, TaskDrop, outVars
<1>3. /\ UNCHANGED <<latest, victim, at, cancelled, aborted>>
      /\ \A u \in Turns : u # t => pc'[u] = pc[u]
      /\ Live(t)
      /\ \/ active' = active
         \/ active = t /\ pc'[t] \in {"emitting", "leftover"}
  BY <1>1, TaskFrame DEF loopVars
<1>4. t \in 1 .. latest
  <2>1. pc[t] # "unborn"
    BY <1>3 DEF Live, RunPlaces, EpiloguePlaces
  <2>2. \A u \in Turns : u > latest => pc[u] = "unborn"
    BY <1>1 DEF TurnInv
  <2> QED
    BY <1>1, <2>1, <2>2 DEF TypeOK, Turns
<1>5. pc[t] \in {"leftover", "emitting"} =>
        \/ t \in completed'
        \/ pc'[t] \in {"emitting", "dropped"}
  BY <1>1
     DEF TypeOK, RunStep, EpilogueStep, TaskStart, TaskFailEarly, TaskAnswered, TaskError,
         TaskRecordPrompt, TaskRecordPulled, TaskRecordLeftover, TaskPull,
         TaskCallTool, TaskAsk, TaskResume, TaskDecide, TaskWorked, TaskFlushed,
         TaskCancelled, TaskFinish, TaskEmit, TaskNotify, TaskDrop, Step
<1>6. ASSUME NEW u \in 1 .. latest, u # t
      PROVE  \/ u \in completed' \cup aborted'
             \/ u \in {active', victim'}
             \/ at' = "register" /\ u = latest'
             \/ pc'[u] \in {"leftover", "emitting"}
             \/ pc'[u] = "dropped" /\ u \notin cancelled'
  <2>1. u \in Turns
    BY <1>1 DEF TypeOK, Turns
  <2>2. active = u => active' = u
    BY <1>3, <1>6
  <2> QED
    BY <1>1, <1>2, <1>3, <1>6, <2>1, <2>2 DEF TurnAccounted
<1>7. \/ t \in completed' \cup aborted'
      \/ t \in {active', victim'}
      \/ at' = "register" /\ t = latest'
      \/ pc'[t] \in {"leftover", "emitting"}
      \/ pc'[t] = "dropped" /\ t \notin cancelled'
  <2>1. CASE pc[t] \in {"leftover", "emitting"}
    BY <1>1, <1>2, <1>3, <1>5, <2>1 DEF TurnInv
  <2>2. CASE pc[t] \notin {"leftover", "emitting"}
    BY <1>1, <1>2, <1>3, <1>4, <2>2
       DEF TurnAccounted, Live, RunPlaces, EpiloguePlaces
  <2> QED
    BY <2>1, <2>2
<1> QED
  BY <1>3, <1>6, <1>7 DEF TurnAccounted

-----------------------------------------------------------------------------
(* An input that turn/steer adds leaves everything that is proved alone. *)
LEMMA SteerIInv ==
  ASSUME IInv, NEW i \in Inputs, ExternalSteer(i)
  PROVE  IInv'
<1> USE DEF IInv, ExternalSteer, SteerInput, loopVars, activeVars, taskVars,
            outVars, historyVars
<1>1. TypeOK'
  BY DEF TypeOK
<1>2. LoopInv' /\ TurnInv'
  BY DEF LoopInv, TurnInv, AbortPlaces, SpawnPlaces
<1>3. AskInv' /\ TurnAccounted'
  BY DEF AskInv, AskerReachable, TurnAccounted
<1> QED
  BY <1>1, <1>2, <1>3

(* A step that changes nothing preserves the inductive invariant. *)
LEMMA StutterIInv == IInv /\ UNCHANGED vars => IInv'
<1> SUFFICES ASSUME IInv, UNCHANGED vars PROVE IInv'
  OBVIOUS
<1> USE DEF IInv, vars, loopVars, activeVars, taskVars,
            outVars, historyVars
<1>1. TypeOK'
  BY DEF TypeOK
<1>2. LoopInv' /\ TurnInv'
  BY DEF LoopInv, TurnInv
<1>3. AskInv' /\ TurnAccounted'
  BY DEF AskInv, AskerReachable, TurnAccounted
<1> QED
  BY <1>1, <1>2, <1>3

(* Every step preserves the inductive invariant. *)
LEMMA NextIInv == IInv /\ [Next]_vars => IInv'
<1> SUFFICES ASSUME IInv, [Next]_vars PROVE IInv'
  OBVIOUS
<1>1. CASE Op \/ LoopStep
  BY <1>1, LoopTypeOK, LoopLoopInv, LoopAskInv, LoopAccounted DEF IInv
<1>2. ASSUME NEW i \in Inputs, ExternalSteer(i) PROVE IInv'
  BY <1>2, SteerIInv
<1>3. ASSUME NEW t \in Turns, RunStep(t) \/ EpilogueStep(t) \/ TaskDrop(t) PROVE IInv'
  BY <1>3, TaskTypeOK, TaskLoopInv, TaskAskInv, TaskAccounted DEF IInv
<1>4. CASE UNCHANGED vars
  BY <1>4, StutterIInv
<1> QED
  BY <1>1, <1>2, <1>3, <1>4 DEF Next

(* The inductive invariant holds in every reachable state. *)
THEOREM SpecIInv == Spec => []IInv
  BY InitIInv, NextIInv, PTL DEF Spec

-----------------------------------------------------------------------------
(* The state of a session is well typed. *)
THEOREM TypeCorrect == Spec => []TypeOK
  BY SpecIInv, PTL DEF IInv

(* A task that waits for an approval has its sender in the ActiveTurn, or  *)
(* the sender is gone and it resumes; else it asked without an ActiveTurn, *)
(* and its turn is being aborted, or was registered after it asked, or is  *)
(* about to be: such a request nobody answers.                             *)
THEOREM AskersReachable == Spec => []AskerReachable
  BY SpecIInv, PTL DEF IInv, AskInv

(* No turn disappears without its final event, but by its own removal. *)
THEOREM TurnsAccounted == Spec => []TurnAccounted
  BY SpecIInv, PTL DEF IInv

(* No step of another task, however late, removes the active turn. *)
THEOREM OwnerClears == Spec => OnlyOwnerClears
<1> DEFINE Kept == active # NoTurn /\ active' # active =>
                     /\ active' = NoTurn
                     /\ \/ at = "take" /\ victim' = active
                        \/ pc[active] = "finishing" /\ pc'[active] # "finishing"
<1>1. IInv /\ [Next]_vars => [Kept]_vars
  <2> SUFFICES ASSUME IInv, Next PROVE Kept
    OBVIOUS
  <2>1. CASE Op
    BY <2>1 DEF Op, OpSteer, OpUserTurn, OpOtherTask, OpInterrupt, OpShutdown,
                OpApproval, activeVars
  <2>2. CASE LoopStep
    BY <2>2 DEF LoopStep, LoopTake, ClearActive, LoopCancel, LoopListen, LoopGraceDone,
                LoopGraceTimeout, LoopAbort, LoopMark, LoopReport, LoopSpawn,
                LoopRegister, activeVars, IInv, LoopInv
  <2>3. ASSUME NEW i \in Inputs, ExternalSteer(i) PROVE Kept
    BY <2>3 DEF ExternalSteer
  <2>4. ASSUME NEW t \in Turns, RunStep(t) \/ EpilogueStep(t) \/ TaskDrop(t) PROVE Kept
    BY <2>4, TaskFrame DEF IInv
  <2> QED
    BY <2>1, <2>2, <2>3, <2>4 DEF Next
<1> QED
  BY SpecIInv, <1>1, PTL DEF Spec, OnlyOwnerClears
-----------------------------------------------------------------------------
(***************************************************************************)
(* No accepted input is lost without a trace, for any number of turns and  *)
(* inputs.  The strengthening says who has an input: the turn about to be  *)
(* spawned, the active turn or one task, never two of them; and what its   *)
(* place says of the carrier: whether it will still record the input, and  *)
(* which of the reasons there is when it will not.                         *)
(***************************************************************************)
(* The input of the turn about to be spawned is the prompt of that turn.   *)
PromptInv ==
    /\ prompt # {} => /\ next = "spawnRegular"
                      /\ at \in {"take", "spawnRegular"} \cup AbortPlaces
    /\ \A i \in prompt : acceptedBy[i] = latest + 1 /\ i \notin steered
    /\ \A i \in Inputs : Fresh(i) => i \notin steered

(* The input that waits in the active turn was steered there. *)
PendingInv ==
    /\ pending # {} => active # NoTurn
    /\ \A i \in pending : acceptedBy[i] = active /\ i \in steered
    /\ \A i \in pending, t \in Turns : i \notin held[t]

(* The places from which a task goes on to record what it holds. *)
Carrying == {"starting", "prompting", "recording", "leftover"}

(* Input in the hands of task t that was accepted by another turn: t was   *)
(* aborted, and records it in its next step or is dropped.                 *)
TakenFrom(t, i) ==
    acceptedBy[i] # t =>
        i \in steered /\ t \in cancelled /\ pc[t] \in {"recording", "dropped"}

(* Why a task still has input in its hands. *)
HoldsFor(t, i) ==
    \/ pc[t] \in Carrying \cup {"dropped"}
    \/ t \in cancelled
    \/ t \in errored /\ i \notin steered

(* The input that a task holds: no other task does. *)
HeldInv ==
    /\ \A t \in Turns : \A i \in held[t] :
          /\ acceptedBy[i] # NoTurn /\ acceptedBy[i] <= latest
          /\ TakenFrom(t, i) /\ HoldsFor(t, i)
          /\ pc[t] \in {"starting", "prompting"} => i \notin steered
          /\ \A u \in Turns : u # t => i \notin held[u]
    /\ \A t \in Turns : pc[t] = "unborn" => held[t] = {}

(* Where the task of a turn may be while the turn is registered. *)
Registrable ==
    RunPlaces \cup {"flushing", "finishing", "emitting", "notifying", "ended"}

(* A turn that is registered, or about to be, has not been aborted. *)
RegInv ==
    /\ \A t \in aborting : t <= latest
    /\ active \notin aborting
    /\ active # NoTurn => pc[active] \in Registrable
    /\ at = "register" => latest \notin aborting /\ pc[latest] \in Registrable

(* A task that was aborted, but not by the loop, removed its own turn.     *)
AbortInv ==
    /\ \A t \in aborting \ cancelled :
          /\ pc[t] \in {"leftover", "emitting", "notifying", "ended", "dropped"}
          /\ held[t] \subseteq steered
    /\ \A t \in Turns : pc[t] = "dropped" => t \in aborting

(* Every accepted input is recorded, or somebody has it, or its user is    *)
(* told why not.                                                           *)
Located ==
    \A i \in Inputs :
        ~ Fresh(i) /\ i \notin recorded =>
            \/ i \in prompt \cup pending
            \/ \E t \in Turns : i \in held[t]
            \/ TurnGivenUp(i) \/ PromptFailed(i)

Carried == PromptInv /\ PendingInv /\ HeldInv /\ RegInv /\ AbortInv /\ Located
InputInv == IInv /\ Carried

-----------------------------------------------------------------------------
(* The initial state satisfies the strengthened invariant. *)
LEMMA InitInputInv == Init => InputInv
<1> SUFFICES ASSUME Init PROVE InputInv
  OBVIOUS
<1>1. IInv
  BY InitIInv
<1>2. Carried
  BY DEF Init, Carried, PromptInv, PendingInv, HeldInv, RegInv, AbortInv, Located,
         Fresh, AbortPlaces, NoTurn, Turns
<1> QED
  BY <1>1, <1>2 DEF InputInv

(* The strengthened invariant accounts for every input: what waits with a  *)
(* registered turn its task will take, or the task is over; what a task    *)
(* holds it goes on to record, or it was dropped or its turn has ended.    *)
LEMMA CarriedNoLoss == InputInv => NoSilentLoss
<1> SUFFICES ASSUME InputInv, NEW i \in Inputs,
                    ~ Fresh(i), i \notin recorded, ~ InFlight(i)
             PROVE  \/ TurnGivenUp(i) \/ PromptFailed(i)
                    \/ TurnOver(i) \/ LeftoverDropped(i) \/ TakenByAborted(i)
  BY DEF NoSilentLoss
<1> USE DEF InputInv, IInv, TypeOK, Carried
<1>1. CASE i \in pending
  BY <1>1 DEF PendingInv, RegInv, Registrable, InFlight, TurnOver
<1>2. ASSUME NEW t \in Turns, i \in held[t]
      PROVE  \/ TurnGivenUp(i) \/ PromptFailed(i)
             \/ LeftoverDropped(i) \/ TakenByAborted(i)
  <2>1. pc[t] \notin Carrying /\ TakenFrom(t, i) /\ HoldsFor(t, i)
    BY <1>2 DEF InFlight, HeldInv, Carrying
  <2>2. CASE acceptedBy[i] # t
    BY <1>2, <2>1, <2>2 DEF TakenFrom, Carrying, TakenByAborted
  <2>3. CASE acceptedBy[i] = t /\ pc[t] = "dropped"
    BY <1>2, <2>3 DEF AbortInv, TurnGivenUp, LeftoverDropped
  <2>4. CASE acceptedBy[i] = t /\ pc[t] # "dropped"
    BY <2>1, <2>4 DEF HoldsFor, TurnGivenUp, PromptFailed
  <2> QED
    BY <2>2, <2>3, <2>4
<1> QED
  BY <1>1, <1>2 DEF Located, InFlight

-----------------------------------------------------------------------------
(* Who has an input *)

(* Adding input to the active turn: nobody else has it. *)
LEMMA SteerCarried ==
  ASSUME InputInv, NEW i \in Inputs, Fresh(i), SteerInput(i),
         UNCHANGED <<latest, loopVars, active, pc, cancelled, aborting, errored,
                     recorded, held>>
  PROVE  Carried'
<1> USE DEF InputInv, Carried, IInv, TypeOK, TurnInv, Fresh, SteerInput, loopVars,
            NoTurn, Turns
<1>1. PromptInv'
  BY DEF PromptInv
<1>2. \A t \in Turns : i \notin held[t]
  BY DEF HeldInv
<1>3. PendingInv'
  BY <1>2 DEF PendingInv
<1>4. HeldInv'
  <2>1. ASSUME NEW t \in Turns, NEW j \in held[t]
        PROVE  j \in Inputs /\ acceptedBy'[j] = acceptedBy[j]
                 /\ (j \in steered' <=> j \in steered)
    BY <1>2, <2>1
  <2> QED
    BY <2>1 DEF HeldInv, TakenFrom, HoldsFor
<1>5. RegInv' /\ AbortInv'
  BY DEF RegInv, AbortInv
<1>6. Located'
  BY DEF Located, TurnGivenUp, PromptFailed
<1> QED
  BY <1>1, <1>3, <1>4, <1>5, <1>6

(* The loop spawns the task of a turn with its prompt in hand. *)
LEMMA SpawnCarried ==
  ASSUME InputInv, LoopSpawn
  PROVE  Carried'
<1> USE DEF InputInv, IInv, TypeOK, Carried, loopVars, activeVars, taskVars, outVars,
            historyVars
<1> DEFINE new == latest + 1
<1>1. /\ new \in Turns /\ new # NoTurn /\ pc[new] = "unborn"
      /\ new \notin cancelled /\ new \notin aborting /\ active = NoTurn /\ victim = NoTurn
  BY DEF LoopSpawn, Turns, NoTurn, LoopInv, TurnInv, RegInv, SpawnPlaces, AbortPlaces
<1>2. /\ pc' = [pc EXCEPT ![new] = IF at = "spawnRegular" THEN "starting" ELSE "working"]
      /\ held' = [held EXCEPT ![new] = prompt] /\ prompt' = {}
      /\ UNCHANGED <<active, pending, recorded, acceptedBy, steered, cancelled, aborting,
                     errored, victim>>
      /\ latest' = new /\ at' = "register"
  BY DEF LoopSpawn
<1>3. /\ pc'[new] \in {"starting", "working"} /\ held'[new] = prompt /\ held[new] = {}
      /\ prompt # {} => pc'[new] = "starting"
      /\ \A t \in Turns \ {new} : pc'[t] = pc[t] /\ held'[t] = held[t]
  BY <1>1, <1>2 DEF LoopSpawn, PromptInv, HeldInv, SpawnPlaces, AbortPlaces
<1>4. PromptInv' /\ PendingInv'
  BY <1>1, <1>2 DEF PromptInv, PendingInv, Fresh
<1>5. HeldInv'
  <2>1. \A t \in Turns : \A i \in held[t] :
           i \in Inputs /\ acceptedBy[i] \in Nat /\ acceptedBy[i] < new
    BY DEF HeldInv, Turns, NoTurn
  <2>2. ASSUME NEW i \in prompt
        PROVE  /\ acceptedBy[i] = new /\ i \notin steered
               /\ \A t \in Turns : i \notin held[t]
    <3>1. acceptedBy[i] = new /\ i \notin steered
      BY <2>2 DEF PromptInv
    <3> QED
      BY <2>1, <3>1 DEF Turns
  <2>3. ASSUME NEW t \in Turns, NEW i \in held'[t]
        PROVE  /\ acceptedBy'[i] # NoTurn /\ acceptedBy'[i] <= latest'
               /\ TakenFrom(t, i)' /\ HoldsFor(t, i)'
               /\ pc'[t] \in {"starting", "prompting"} => i \notin steered'
               /\ \A u \in Turns : u # t => i \notin held'[u]
    <3>1. CASE t = new
      BY <1>1, <1>2, <1>3, <2>2, <2>3, <3>1 DEF TakenFrom, HoldsFor, Carrying, Turns
    <3>2. CASE t # new
      BY <1>1, <1>2, <1>3, <2>1, <2>2, <2>3, <3>2 DEF HeldInv, TakenFrom, HoldsFor, Turns
    <3> QED
      BY <3>1, <3>2
  <2>4. \A t \in Turns : pc'[t] = "unborn" => held'[t] = {}
    BY <1>1, <1>3 DEF HeldInv
  <2> QED
    BY <2>3, <2>4 DEF HeldInv
<1>6. RegInv'
  BY <1>1, <1>2, <1>3 DEF RegInv, Registrable, RunPlaces, Turns
<1>7. AbortInv'
  BY <1>1, <1>2, <1>3 DEF AbortInv
<1>8. Located'
  BY <1>1, <1>2, <1>3 DEF Located, Fresh, TurnGivenUp, PromptFailed
<1> QED
  BY <1>4, <1>5, <1>6, <1>7, <1>8

(* A step of the loop that only moves on, and ends at no place that says   *)
(* anything of an input.                                                   *)
LEMMA LoopMoves ==
  ASSUME InputInv,
         UNCHANGED <<latest, prompt, active, pending, pc, held, recorded, errored,
                     cancelled, historyVars>>,
         aborting \subseteq aborting', aborting' \subseteq aborting \cup {victim},
         aborting' # aborting => victim \in cancelled \ {active},
         victim # NoTurn /\ victim' # victim => victim \in cancelled,
         at' # "register",
         prompt # {} => next' = next /\ at' \in {"take", "spawnRegular"} \cup AbortPlaces
  PROVE  Carried'
<1> USE DEF InputInv, IInv, TypeOK, Carried, historyVars
<1>1. PromptInv' /\ PendingInv'
  BY DEF PromptInv, PendingInv, Fresh
<1>2. HeldInv'
  BY DEF HeldInv, TakenFrom, HoldsFor
<1>3. RegInv'
  BY DEF RegInv, TurnInv
<1>4. AbortInv'
  BY DEF AbortInv
<1>5. Located'
  BY DEF Located, Fresh, TurnGivenUp, PromptFailed, NoTurn
<1> QED
  BY <1>1, <1>2, <1>3, <1>4, <1>5

(* A step of an Op or of the loop keeps track of every input. *)
LEMMA LoopCarried == InputInv /\ (Op \/ LoopStep) => Carried'
<1> SUFFICES ASSUME InputInv, Op \/ LoopStep PROVE Carried'
  OBVIOUS
<1> USE DEF InputInv, IInv, TypeOK, Carried, PromptInv, PendingInv, HeldInv, RegInv,
            AbortInv, Located, Fresh, TakenFrom, HoldsFor, TurnGivenUp, PromptFailed,
            LoopInv, TurnInv, AbortPlaces, SpawnPlaces, Turns, NoTurn,
            loopVars, activeVars, taskVars, outVars, historyVars
<1>1. ASSUME NEW i \in Inputs, OpSteer(i) PROVE Carried'
  BY <1>1, SteerCarried DEF OpSteer
<1>2. ASSUME NEW i \in Inputs, OpUserTurn(i) PROVE Carried'
  <2>1. \A t \in Turns : i \notin held[t]
    BY <1>2 DEF OpUserTurn
  <2>2. /\ acceptedBy'[i] = latest + 1 /\ latest + 1 # NoTurn /\ i \notin steered
        /\ \A j \in Inputs \ {i} : acceptedBy'[j] = acceptedBy[j]
        /\ prompt = {} /\ prompt' = {i} /\ pending = {}
    BY <1>2 DEF OpUserTurn, BeginAbort
  <2>3. PromptInv' /\ PendingInv' /\ RegInv' /\ AbortInv'
    BY <1>2, <2>2 DEF OpUserTurn, BeginAbort
  <2>4. HeldInv'
    BY <1>2, <2>1, <2>2 DEF OpUserTurn
  <2>5. Located'
    BY <1>2, <2>1, <2>2 DEF OpUserTurn, BeginAbort
  <2> QED
    BY <2>3, <2>4, <2>5
<1>3. CASE OpOtherTask \/ OpInterrupt \/ OpShutdown
  BY <1>3, LoopMoves DEF OpOtherTask, OpInterrupt, OpShutdown, BeginAbort
<1>4. ASSUME NEW t \in Turns, NEW d \in {"approved", "denied"}, OpApproval(t, d)
      PROVE  Carried'
  BY <1>4 DEF OpApproval
<1>5. CASE LoopTake
  BY <1>5 DEF LoopTake, ClearActive
<1>6. CASE LoopCancel
  BY <1>6 DEF LoopCancel
<1>7. CASE LoopListen \/ LoopGraceDone \/ LoopGraceTimeout
  BY <1>7, LoopMoves DEF LoopListen, LoopGraceDone, LoopGraceTimeout
<1>8. CASE LoopAbort \/ LoopMark \/ LoopReport
  <2>1. victim \in cancelled /\ active = NoTurn /\ victim # NoTurn
    BY <1>8 DEF LoopAbort, LoopMark, LoopReport, AskInv
  <2>2. CASE LoopAbort \/ LoopMark
    BY <2>1, <2>2, LoopMoves DEF LoopAbort, LoopMark
  <2>3. CASE LoopReport
    BY <2>1, <2>3, LoopMoves DEF LoopReport
  <2> QED
    BY <1>8, <2>2, <2>3
<1>9. CASE LoopSpawn
  BY <1>9, SpawnCarried
<1>10. CASE LoopRegister
  BY <1>10 DEF LoopRegister
<1> HIDE DEF InputInv, Carried
<1> QED
  BY <1>1, <1>2, <1>3, <1>4, <1>5, <1>6, <1>7, <1>8, <1>9, <1>10 DEF Op, LoopStep

-----------------------------------------------------------------------------
(* The tasks *)

(* A task that moves on without touching an input: it does not leave the   *)
(* way to the history, unless its turn has failed or it is dropped.        *)
LEMMA TaskMoves ==
  ASSUME InputInv, NEW t \in Turns,
         UNCHANGED <<latest, loopVars, active, pending, historyVars, held, recorded,
                     cancelled, aborting>>,
         errored \subseteq errored',
         pc' \in [Turns -> TaskPlaces],
         \A u \in Turns : u # t => pc'[u] = pc[u],
         Live(t),
         \/ pc'[t] \in Registrable
         \/ pc'[t] = "dropped" /\ t \in aborting,
         pc[t] \in {"leftover", "emitting", "notifying"} =>
             pc'[t] \in {"emitting", "notifying", "ended", "dropped"},
         \/ held[t] = {}
         \/ pc'[t] = "dropped"
         \/ pc[t] = "starting" /\ pc'[t] = "prompting"
         \/ pc[t] = "prompting" /\ pc'[t] = "flushing" /\ t \in errored' \cup cancelled
         \/ pc[t] \notin Carrying /\ pc'[t] \notin Carrying
  PROVE  Carried'
<1> USE DEF InputInv, IInv, TypeOK, Carried, loopVars, historyVars
<1>1. PromptInv' /\ PendingInv'
  BY DEF PromptInv, PendingInv, Fresh
<1>2. HeldInv'
  <2>1. ASSUME NEW u \in Turns, NEW i \in held[u]
        PROVE  /\ TakenFrom(u, i)' /\ HoldsFor(u, i)'
               /\ pc'[u] \in {"starting", "prompting"} => i \notin steered
    <3>1. CASE u # t
      BY <2>1, <3>1 DEF HeldInv, TakenFrom, HoldsFor
    <3>2. CASE u = t
      BY <2>1, <3>2
         DEF HeldInv, TakenFrom, HoldsFor, Carrying, Live, RunPlaces, EpiloguePlaces
    <3> QED
      BY <3>1, <3>2
  <2>2. pc'[t] # "unborn"
    BY DEF Registrable, RunPlaces
  <2> QED
    BY <2>1, <2>2 DEF HeldInv
<1>3. RegInv'
  BY DEF RegInv, LoopInv, Turns, NoTurn
<1>4. AbortInv'
  BY DEF AbortInv, Live, RunPlaces, EpiloguePlaces, Registrable
<1>5. Located'
  BY DEF Located, Fresh, TurnGivenUp, PromptFailed
<1> QED
  BY <1>1, <1>2, <1>3, <1>4, <1>5

(* A task that records what it holds. *)
LEMMA TaskRecords ==
  ASSUME InputInv, NEW t \in Turns, RecordHeld(t),
         UNCHANGED <<latest, loopVars, active, pending, historyVars, errored, cancelled,
                     aborting>>,
         \A u \in Turns : u # t => pc'[u] = pc[u],
         Live(t), pc'[t] \in Registrable,
         pc[t] \in {"leftover", "emitting", "notifying"} => pc'[t] = "emitting"
  PROVE  Carried'
<1> USE DEF InputInv, IInv, TypeOK, Carried, RecordHeld, loopVars, historyVars
<1>1. PromptInv' /\ PendingInv'
  BY DEF PromptInv, PendingInv, Fresh
<1>2. HeldInv'
  BY DEF HeldInv, TakenFrom, HoldsFor
<1>3. RegInv'
  BY DEF RegInv, LoopInv, Turns, NoTurn
<1>4. AbortInv'
  BY DEF AbortInv, Live, RunPlaces, EpiloguePlaces, Registrable
<1>5. Located'
  BY DEF Located, Fresh, TurnGivenUp, PromptFailed
<1> QED
  BY <1>1, <1>2, <1>3, <1>4, <1>5

(* A task that looks for pending input while another turn is registered    *)
(* was aborted.                                                            *)
LEMMA PullerStale ==
  ASSUME InputInv, NEW t \in Turns, pc[t] = "pulling", active # NoTurn, active # t
  PROVE  t \in cancelled
<1> USE DEF InputInv, IInv, TypeOK
<1>1. t \in 1 .. latest
  BY DEF TurnInv, Turns
<1>2. at \in {"idle", "take"} /\ victim = NoTurn
  BY DEF LoopInv, AbortPlaces
<1>3. t \notin completed /\ aborted \subseteq cancelled
  BY DEF AskInv
<1>4. t \notin {active, victim} /\ at # "register" /\ TurnAccounted
  BY <1>2 DEF Turns, NoTurn
<1>5. t \in completed \cup aborted
  BY ONLY <1>1, <1>4, pc[t] = "pulling" DEF TurnAccounted
<1> QED
  BY <1>3, <1>5

(* A task that takes the pending input, to record it if there is any: what *)
(* it still held is the prompt of a turn that failed, or was aborted.      *)
LEMMA TaskTakes ==
  ASSUME InputInv, NEW t \in Turns, TakePending(t),
         UNCHANGED <<latest, loopVars, recorded, errored, cancelled, historyVars>>,
         \A u \in Turns : u # t => pc'[u] = pc[u],
         \/ pc[t] = "pulling" /\ pc'[t] = (IF pending = {} THEN "sampling" ELSE "recording")
         \/ /\ pc[t] = "finishing" /\ active = t
            /\ pc'[t] = (IF pending = {} THEN "emitting" ELSE "leftover")
  PROVE  PromptInv' /\ PendingInv' /\ HeldInv' /\ Located'
<1> USE DEF InputInv, IInv, TypeOK, Carried, TakePending, loopVars, historyVars
<1>1. PromptInv' /\ PendingInv'
  BY DEF PromptInv, PendingInv, Fresh
<1>2. ASSUME NEW i \in held[t]
      PROVE  acceptedBy[i] = t /\ (t \in cancelled \/ (t \in errored /\ i \notin steered))
  BY <1>2 DEF HeldInv, TakenFrom, HoldsFor, Carrying
<1>3. Located'
  BY <1>2 DEF Located, Fresh, TurnGivenUp, PromptFailed
<1>4. HeldInv'
  <2>1. ASSUME NEW i \in pending
        PROVE  /\ acceptedBy[i] = active /\ active # NoTurn /\ active <= latest
               /\ i \in steered /\ TakenFrom(t, i)' /\ HoldsFor(t, i)'
               /\ pc'[t] \notin {"starting", "prompting"}
               /\ \A u \in Turns : i \notin held[u]
    BY <2>1, PullerStale DEF PendingInv, TurnInv, TakenFrom, HoldsFor, Carrying
  <2>2. ASSUME NEW u \in Turns, u # t, NEW i \in held[u]
        PROVE  /\ TakenFrom(u, i)' /\ HoldsFor(u, i)' /\ i \notin pending
    BY <2>2 DEF HeldInv, TakenFrom, HoldsFor, PendingInv
  <2> QED
    BY <2>1, <2>2 DEF HeldInv
<1> QED
  BY <1>1, <1>3, <1>4

(* get_pending_input leaves the registration alone. *)
LEMMA PullCarried ==
  ASSUME InputInv, NEW t \in Turns, TaskPull(t)
  PROVE  Carried'
<1> USE DEF InputInv, IInv, TypeOK, Carried, TaskPull, Step, outVars, historyVars, loopVars
<1>1. PromptInv' /\ PendingInv' /\ HeldInv' /\ Located'
  BY TaskTakes
<1>2. RegInv'
  BY DEF RegInv, Registrable, RunPlaces
<1>3. AbortInv'
  BY DEF AbortInv, TakePending
<1> QED
  BY <1>1, <1>2, <1>3

(* on_task_finished: a turn removed by its own task takes its leftover.    *)
LEMMA FinishCarried ==
  ASSUME InputInv, NEW t \in Turns, TaskFinish(t), active = t
  PROVE  Carried'
<1> USE DEF InputInv, IInv, TypeOK, Carried, TaskFinish, Step, outVars, historyVars,
            loopVars, NoTurn, Turns
<1>1. PromptInv' /\ PendingInv' /\ HeldInv' /\ Located'
  BY TaskTakes
<1>2. /\ active' = NoTurn /\ at' = at /\ latest' = latest /\ cancelled' = cancelled
      /\ aborting' = aborting \cup {t} /\ held' = [held EXCEPT ![t] = pending]
      /\ steered' = steered
      /\ pc' = [pc EXCEPT ![t] = IF pending = {} THEN "emitting" ELSE "leftover"]
      /\ pc[t] = "finishing"
  BY DEF TakePending
<1>3. RegInv'
  <2>1. t <= latest /\ at # "register"
    BY DEF LoopInv, TurnInv
  <2> QED
    BY <1>2, <2>1 DEF RegInv
<1>4. AbortInv'
  <2>1. /\ pc'[t] \in {"leftover", "emitting"} /\ held'[t] \subseteq steered
        /\ \A u \in Turns : u # t => pc'[u] = pc[u] /\ held'[u] = held[u]
    BY <1>2 DEF PendingInv
  <2> QED
    BY <1>2, <2>1 DEF AbortInv
<1> QED
  BY <1>1, <1>3, <1>4

(* Every step of a task keeps track of the inputs. *)
LEMMA TaskCarried ==
  ASSUME InputInv, NEW t \in Turns, RunStep(t) \/ EpilogueStep(t) \/ TaskDrop(t)
  PROVE  Carried'
<1>1. TypeOK /\ TypeOK'
  BY TaskTypeOK DEF InputInv, IInv
<1>2. /\ \A u \in Turns : u # t => pc'[u] = pc[u]
      /\ Live(t)
      /\ UNCHANGED <<latest, loopVars, cancelled>>
  BY <1>1, TaskFrame
<1>3. pc' \in [Turns -> TaskPlaces]
  BY <1>1 DEF TypeOK
<1> USE DEF Step, TypeOK, Carrying, Registrable, RunPlaces, activeVars, taskVars, outVars
<1>4. CASE TaskStart(t) \/ TaskFailEarly(t) \/ TaskAnswered(t) \/ TaskError(t)
  BY <1>1, <1>2, <1>3, <1>4, TaskMoves DEF TaskStart, TaskFailEarly, TaskAnswered, TaskError
<1>5. CASE TaskCallTool(t) \/ TaskAsk(t) \/ TaskResume(t) \/ TaskDecide(t)
  BY <1>1, <1>2, <1>3, <1>5, TaskMoves DEF TaskCallTool, TaskAsk, TaskResume, TaskDecide
<1>6. CASE TaskCancelled(t) \/ TaskWorked(t) \/ TaskFlushed(t)
  BY <1>1, <1>2, <1>3, <1>6, TaskMoves DEF TaskCancelled, TaskWorked, TaskFlushed
<1>7. CASE TaskEmit(t) \/ TaskNotify(t) \/ TaskDrop(t)
  BY <1>1, <1>2, <1>3, <1>7, TaskMoves DEF TaskEmit, TaskNotify, TaskDrop
<1>8. CASE TaskRecordPrompt(t) \/ TaskRecordPulled(t) \/ TaskRecordLeftover(t)
  BY <1>1, <1>2, <1>8, TaskRecords
     DEF TaskRecordPrompt, TaskRecordPulled, TaskRecordLeftover
<1>9. CASE TaskPull(t)
  BY <1>9, PullCarried
<1>10. CASE TaskFinish(t)
  <2>1. CASE active = t
    BY <1>10, <2>1, FinishCarried
  <2>2. CASE active # t
    BY <1>1, <1>2, <1>3, <1>10, <2>2, TaskMoves DEF TaskFinish
  <2> QED
    BY <2>1, <2>2
<1> QED
  BY <1>4, <1>5, <1>6, <1>7, <1>8, <1>9, <1>10 DEF RunStep, EpilogueStep

-----------------------------------------------------------------------------
(* Every step preserves the strengthened invariant. *)
LEMMA NextInputInv == InputInv /\ [Next]_vars => InputInv'
<1> SUFFICES ASSUME InputInv, [Next]_vars PROVE InputInv'
  OBVIOUS
<1>1. IInv'
  BY NextIInv DEF InputInv
<1>2. CASE Op \/ LoopStep
  BY <1>1, <1>2, LoopCarried DEF InputInv
<1>3. ASSUME NEW i \in Inputs, ExternalSteer(i) PROVE InputInv'
  BY <1>1, <1>3, SteerCarried DEF ExternalSteer, taskVars, outVars, InputInv
<1>4. ASSUME NEW t \in Turns, RunStep(t) \/ EpilogueStep(t) \/ TaskDrop(t)
      PROVE  InputInv'
  BY <1>1, <1>4, TaskCarried DEF InputInv
<1>5. CASE UNCHANGED vars
  <2> USE <1>5 DEF vars, loopVars, activeVars, taskVars, outVars, historyVars, InputInv,
                  Carried
  <2>1. PromptInv' /\ PendingInv' /\ RegInv' /\ AbortInv'
    BY DEF PromptInv, PendingInv, RegInv, AbortInv, Fresh
  <2>2. HeldInv'
    BY DEF HeldInv, TakenFrom, HoldsFor
  <2>3. Located'
    BY DEF Located, Fresh, TurnGivenUp, PromptFailed
  <2> QED
    BY <1>1, <2>1, <2>2, <2>3
<1> QED
  BY <1>2, <1>3, <1>4, <1>5 DEF Next

(* An accepted input is recorded or on its way to the history, unless its  *)
(* user is told otherwise or one of the three named races took it: however *)
(* Ops, steers, stale tasks, late registrations and drops interleave.      *)
THEOREM InputsAccounted == Spec => []NoSilentLoss
  BY InitInputInv, NextInputInv, CarriedNoLoss, PTL DEF Spec

(* No input is in two hands: what waits in the active turn no task holds,  *)
(* and what a task holds no other one does.                                *)
THEOREM OneCarrier ==
  Spec => [](\A i \in Inputs : \A t, u \in Turns :
               /\ i \in held[t] /\ i \in held[u] => t = u
               /\ i \in held[t] => i \notin pending)
<1> DEFINE One == \A i \in Inputs : \A t, u \in Turns :
                    /\ i \in held[t] /\ i \in held[u] => t = u
                    /\ i \in held[t] => i \notin pending
<1>1. InputInv => One
  BY DEF InputInv, Carried, HeldInv, PendingInv
<1> QED
  BY InitInputInv, NextInputInv, <1>1, PTL DEF Spec
=============================================================================
