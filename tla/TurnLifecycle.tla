---------------------------- MODULE TurnLifecycle ----------------------------
(***************************************************************************)
(* The turns of one Session (codex-rs/core): the submission loop that      *)
(* takes Ops one at a time, the task it spawns for each turn, and the      *)
(* ActiveTurn through which they, and the app server's turn/steer, meet.   *)
(*                                                                         *)
(* A step is what a task does between two accesses to state it shares with *)
(* another one: a critical section on Session::active_turn (turn_state is  *)
(* only ever locked inside it), a read or a write of a cancellation token, *)
(* an append to the history, an event.                                     *)
(*                                                                         *)
(* Tokio's JoinHandle::abort does not wait: the task is dropped the next   *)
(* time it yields.  A task that was aborted in the middle of a poll goes   *)
(* on to its next await that has to wait; the waiting places are Parked.   *)
(***************************************************************************)
EXTENDS Integers, FiniteSets

CONSTANTS
    MaxTurns,   \* bound: how many turns the loop may start
    MaxCalls,   \* bound: tool calls that ask for approval, per turn
    Inputs      \* bound: user inputs, numbered in the order they are submitted

ASSUME MaxTurnsAssumption == MaxTurns \in Nat
ASSUME MaxCallsAssumption == MaxCalls \in Nat
ASSUME InputsAssumption == Inputs \subseteq Nat

Turns == 1 .. MaxTurns
NoTurn == 0             \* no ActiveTurn, no victim

VARIABLES
    latest,     \* the turn spawned last; turns are numbered by their sub_id
    (* the submission loop *)
    at,         \* where the loop is in the handler of the current Op
    next,       \* where it goes once the running task is aborted
    reason,     \* TurnAbortReason
    victim,     \* the task being aborted
    prompt,     \* the input of the turn about to be spawned
    (* Session::active_turn *)
    active,     \* the turn whose RunningTask is registered
    pending,    \* its pending_input
    approvals,  \* the turns that are keys of its pending_approvals
    (* per turn *)
    pc,         \* where the task is
    cancelled,  \* turns whose CancellationToken was cancelled
    aborting,   \* turns whose JoinHandle was aborted, or dropped
    notified,   \* turns whose `done` reached an abort that was listening
    held,       \* input that the task took and has not recorded yet
    channel,    \* the oneshot channel of the task's approval request
    calls,      \* approval requests made so far
    (* what is observable *)
    recorded,   \* inputs in the conversation history
    marked,     \* turns whose interruption marker is in the history
    completed,  \* turns with a TurnComplete event
    aborted,    \* turns with a TurnAborted event
    errored,    \* turns with an Error event
    (* history *)
    acceptedBy, \* the turn whose input each one became when it was accepted
    steered     \* inputs added to a running turn, not the prompt of their own

loopVars == <<at, next, reason, victim, prompt>>
activeVars == <<active, pending, approvals>>
taskVars == <<cancelled, aborting, notified, held, channel, calls>>
outVars == <<recorded, marked, completed, aborted, errored>>
historyVars == <<acceptedBy, steered>>
vars == <<latest, loopVars, activeVars, pc, taskVars, outVars, historyVars>>

-----------------------------------------------------------------------------
LoopPlaces == {"idle", "take", "cancel", "listen", "grace", "abort", "mark",
               "report", "spawnRegular", "spawnOther", "register", "stopped"}

(* The places of SessionTask::run, then those of the epilogue that         *)
(* spawn_task wraps around it.                                             *)
RunPlaces == {"starting", "prompting", "pulling", "recording", "sampling",
              "asking", "waiting", "deciding", "working"}
EpiloguePlaces == {"flushing", "finishing", "leftover", "emitting", "notifying"}
TaskPlaces == {"unborn"} \cup RunPlaces \cup EpiloguePlaces \cup {"ended", "dropped"}

(* Where a task waits: for its first poll, the model, the user, the        *)
(* compaction request or the rollout writer.                               *)
Parked == {"starting", "sampling", "waiting", "working", "flushing"}

Live(t) == pc[t] \in RunPlaces \cup EpiloguePlaces

(* A task that was aborted does not get out of a place where it waits. *)
CanRun(t) == t \in aborting => pc[t] \notin Parked

(* open: its sender is with the turn.  kept: it never left the request. *)
Channels == {"none", "open", "kept", "approved", "denied", "closed"}

TypeOK ==
    /\ latest \in 0 .. MaxTurns
    /\ at \in LoopPlaces
    /\ next \in {"idle", "spawnRegular", "spawnOther", "stopped"}
    /\ reason \in {"Replaced", "Interrupted"}
    /\ victim \in Turns \cup {NoTurn}
    /\ prompt \subseteq Inputs
    /\ active \in Turns \cup {NoTurn}
    /\ pending \subseteq Inputs
    /\ approvals \subseteq Turns
    /\ pc \in [Turns -> TaskPlaces]
    /\ cancelled \subseteq Turns
    /\ aborting \subseteq Turns
    /\ notified \subseteq Turns
    /\ held \in [Turns -> SUBSET Inputs]
    /\ channel \in [Turns -> Channels]
    /\ calls \in [Turns -> 0 .. MaxCalls]
    /\ recorded \subseteq Inputs
    /\ marked \subseteq Turns
    /\ completed \subseteq Turns
    /\ aborted \subseteq Turns
    /\ errored \subseteq Turns
    /\ acceptedBy \in [Inputs -> Turns \cup {NoTurn}]
    /\ steered \subseteq Inputs

Init ==
    /\ latest = 0
    /\ at = "idle" /\ next = "idle" /\ reason = "Replaced"
    /\ victim = NoTurn /\ prompt = {}
    /\ active = NoTurn /\ pending = {} /\ approvals = {}
    /\ pc = [t \in Turns |-> "unborn"]
    /\ cancelled = {} /\ aborting = {} /\ notified = {}
    /\ held = [t \in Turns |-> {}]
    /\ channel = [t \in Turns |-> "none"]
    /\ calls = [t \in Turns |-> 0]
    /\ recorded = {} /\ marked = {}
    /\ completed = {} /\ aborted = {} /\ errored = {}
    /\ acceptedBy = [i \in Inputs |-> NoTurn] /\ steered = {}

-----------------------------------------------------------------------------
(* Operations on the ActiveTurn *)

(* Mutant: the senders outlive the turn. *)
CloseApprovalsLeak == UNCHANGED channel

(* Dropping the ActiveTurn, or clearing it, drops its oneshot senders: a   *)
(* task that waits for one of them gets the default decision, Denied.      *)
CloseApprovals ==
    channel' = [t \in Turns |->
                  IF t \in approvals /\ channel[t] = "open" THEN "closed" ELSE channel[t]]

ClearActive == active' = NoTurn /\ pending' = {} /\ approvals' = {} /\ CloseApprovals

Fresh(i) == acceptedBy[i] = NoTurn
InOrder(i) == \A j \in Inputs : j < i => ~ Fresh(j)

(* steer_input on a turn: the input is buffered until the task takes it. *)
SteerInput(i) ==
    /\ active # NoTurn
    /\ pending' = pending \cup {i}
    /\ acceptedBy' = [acceptedBy EXCEPT ![i] = active]
    /\ steered' = steered \cup {i}

-----------------------------------------------------------------------------
(* The submission loop: Ops *)

BeginAbort(r, then, p) ==
    /\ at' = "take"
    /\ reason' = r
    /\ next' = then
    /\ prompt' = p
    /\ UNCHANGED victim

(* Op::UserInput and Op::UserTurn into a running turn *)
OpSteer(i) ==
    /\ at = "idle"
    /\ Fresh(i) /\ InOrder(i)
    /\ SteerInput(i)
    /\ UNCHANGED <<latest, loopVars, active, approvals, pc, taskVars, outVars>>

(* Op::UserInput and Op::UserTurn otherwise: steer_input gives the input   *)
(* back and a regular task is spawned for it.                              *)
OpUserTurn(i) ==
    /\ at = "idle"
    /\ Fresh(i) /\ InOrder(i)
    /\ active = NoTurn
    /\ latest < MaxTurns
    /\ BeginAbort("Replaced", "spawnRegular", {i})
    /\ acceptedBy' = [acceptedBy EXCEPT ![i] = latest + 1]
    /\ UNCHANGED <<latest, activeVars, pc, taskVars, outVars, steered>>

(* Op::Compact, Op::Undo and Op::Review, whatever is running *)
OpOtherTask ==
    /\ at = "idle"
    /\ latest < MaxTurns
    /\ BeginAbort("Replaced", "spawnOther", {})
    /\ UNCHANGED <<latest, activeVars, pc, taskVars, outVars, historyVars>>

(* interrupt_task, from Op::Interrupt or from an approval answered Abort *)
OpInterrupt ==
    /\ at = "idle"
    /\ active # NoTurn
    /\ BeginAbort("Interrupted", "idle", {})
    /\ UNCHANGED <<latest, activeVars, pc, taskVars, outVars, historyVars>>

OpShutdown ==
    /\ at = "idle"
    /\ BeginAbort("Interrupted", "stopped", {})
    /\ UNCHANGED <<latest, activeVars, pc, taskVars, outVars, historyVars>>

(* notify_approval, from Op::ExecApproval and Op::PatchApproval.  The user *)
(* may answer any request of the turn, a stale one too.                    *)
OpApproval(t, decision) ==
    /\ at = "idle"
    /\ calls[t] > 0
    /\ active # NoTurn
    /\ t \in approvals
    /\ approvals' = approvals \ {t}
    /\ channel' = [channel EXCEPT ![t] = decision]
    /\ UNCHANGED <<latest, loopVars, active, pending, pc, cancelled, aborting,
                   notified, held, calls, outVars, historyVars>>

-----------------------------------------------------------------------------
(* The submission loop: abort_all_tasks, and spawn_task behind it *)

(* take_all_running_tasks: the ActiveTurn goes with all that is pending.   *)
LoopTake ==
    /\ at = "take"
    /\ \/ /\ active = NoTurn
          /\ at' = next
          /\ UNCHANGED <<victim, activeVars, channel>>
       \/ /\ active # NoTurn
          /\ at' = "cancel"
          /\ victim' = active
          /\ ClearActive
    /\ UNCHANGED <<latest, next, reason, prompt, pc, cancelled, aborting, notified,
                   held, calls, outVars, historyVars>>

(* handle_task_abort returns at once when the token is cancelled already.  *)
LoopCancel ==
    /\ at = "cancel"
    /\ cancelled' = cancelled \cup {victim}
    /\ at' = IF victim \in cancelled THEN next ELSE "listen"
    /\ victim' = IF victim \in cancelled THEN NoTurn ELSE victim
    /\ UNCHANGED <<latest, next, reason, prompt, activeVars, pc, aborting,
                   notified, held, channel, calls, outVars, historyVars>>

(* Mutant: a task that stopped in time is not reported as aborted. *)
LoopGraceDoneSilent ==
    /\ at = "grace"
    /\ victim \in notified
    /\ at' = next
    /\ victim' = NoTurn
    /\ UNCHANGED <<latest, next, reason, prompt, activeVars, pc, taskVars, outVars, historyVars>>

(* The select! polls done.notified(): only now does a notify_waiters count. *)
LoopListen ==
    /\ at = "listen"
    /\ at' = "grace"
    /\ UNCHANGED <<latest, next, reason, victim, prompt, activeVars, pc, taskVars,
                   outVars, historyVars>>

LoopGraceDone ==
    /\ at = "grace"
    /\ victim \in notified
    /\ at' = "abort"
    /\ UNCHANGED <<latest, next, reason, victim, prompt, activeVars, pc, taskVars,
                   outVars, historyVars>>

(* Mutant: the loop waits for the task however long it takes. *)
LoopGraceTimeoutNever == FALSE

(* GRACEFULL_INTERRUPTION_TIMEOUT_MS is over. *)
LoopGraceTimeout ==
    /\ at = "grace"
    /\ at' = "abort"
    /\ UNCHANGED <<latest, next, reason, victim, prompt, activeVars, pc, taskVars,
                   outVars, historyVars>>

(* Mutant: the JoinHandle is not aborted. *)
LoopAbortCooperative ==
    /\ at = "abort"
    /\ at' = IF reason = "Interrupted" THEN "mark" ELSE "report"
    /\ UNCHANGED <<latest, next, reason, victim, prompt, activeVars, pc, taskVars,
                   outVars, historyVars>>

(* handle.abort(), which nothing waits for *)
LoopAbort ==
    /\ at = "abort"
    /\ aborting' = aborting \cup {victim}
    /\ at' = IF reason = "Interrupted" THEN "mark" ELSE "report"
    /\ UNCHANGED <<latest, next, reason, victim, prompt, activeVars, pc, cancelled,
                   notified, held, channel, calls, outVars, historyVars>>

(* The marker goes into the history, and is persisted and flushed. *)
LoopMark ==
    /\ at = "mark"
    /\ marked' = marked \cup {victim}
    /\ at' = "report"
    /\ UNCHANGED <<latest, next, reason, victim, prompt, activeVars, pc, taskVars,
                   recorded, completed, aborted, errored, historyVars>>

LoopReport ==
    /\ at = "report"
    /\ aborted' = aborted \cup {victim}
    /\ victim' = NoTurn
    /\ at' = next
    /\ UNCHANGED <<latest, next, reason, prompt, activeVars, pc, taskVars,
                   recorded, marked, completed, errored, historyVars>>

(* tokio::spawn: the task may run before it is registered. *)
LoopSpawn ==
    /\ at \in {"spawnRegular", "spawnOther"}
    /\ latest' = latest + 1
    /\ pc' = [pc EXCEPT ![latest'] = IF at = "spawnRegular" THEN "starting" ELSE "working"]
    /\ held' = [held EXCEPT ![latest'] = prompt]
    /\ prompt' = {}
    /\ at' = "register"
    /\ UNCHANGED <<next, reason, victim, activeVars, cancelled, aborting, notified,
                   channel, calls, outVars, historyVars>>

(* Mutant: the task is registered under the sub_id that comes next. *)
LoopRegisterNext ==
    /\ at = "register"
    /\ active' = latest + 1
    /\ pending' = {} /\ approvals' = {} /\ CloseApprovals
    /\ at' = "idle"
    /\ UNCHANGED <<latest, next, reason, victim, prompt, pc, cancelled, aborting,
                   notified, held, calls, outVars, historyVars>>

LoopRegister ==
    /\ at = "register"
    /\ active' = latest
    /\ pending' = {} /\ approvals' = {} /\ CloseApprovals
    /\ at' = "idle"
    /\ UNCHANGED <<latest, next, reason, victim, prompt, pc, cancelled, aborting,
                   notified, held, calls, outVars, historyVars>>

(* turn/steer reaches steer_input without the submission loop. *)
ExternalSteer(i) ==
    /\ Fresh(i) /\ InOrder(i)
    /\ SteerInput(i)
    /\ UNCHANGED <<latest, loopVars, active, approvals, pc, taskVars, outVars>>

-----------------------------------------------------------------------------
(* The task of a turn: run_turn *)

Step(t, from, to) ==
    /\ pc[t] = from
    /\ CanRun(t)
    /\ pc' = [pc EXCEPT ![t] = to]

TaskStart(t) ==
    /\ Step(t, "starting", "prompting")
    /\ UNCHANGED <<latest, loopVars, activeVars, taskVars, outVars, historyVars>>

(* What precedes the prompt fails: auto-compaction ends in an error, or    *)
(* the listing of the MCP tools is cancelled.                              *)
TaskFailEarly(t) ==
    /\ Step(t, "prompting", "flushing")
    /\ errored' = IF t \in cancelled THEN errored ELSE errored \cup {t}
    /\ UNCHANGED <<latest, loopVars, activeVars, taskVars, recorded, marked,
                   completed, aborted, historyVars>>

RecordHeld(t) ==
    /\ recorded' = recorded \cup held[t]
    /\ held' = [held EXCEPT ![t] = {}]

TaskRecordPrompt(t) ==
    /\ Step(t, "prompting", "pulling")
    /\ RecordHeld(t)
    /\ UNCHANGED <<latest, loopVars, activeVars, cancelled, aborting, notified,
                   channel, calls, marked, completed, aborted, errored, historyVars>>

(* Take the pending input of whichever turn is active, and leave none: a   *)
(* task that was aborted and still runs takes that of the turn which       *)
(* replaced its own.                                                       *)
TakePending(t) ==
    /\ held' = [held EXCEPT ![t] = pending]
    /\ pending' = {}

(* get_pending_input *)
TaskPull(t) ==
    /\ Step(t, "pulling", IF pending = {} THEN "sampling" ELSE "recording")
    /\ TakePending(t)
    /\ UNCHANGED <<latest, loopVars, active, approvals, cancelled, aborting, notified,
                   channel, calls, outVars, historyVars>>

TaskRecordPulled(t) ==
    /\ Step(t, "recording", "sampling")
    /\ RecordHeld(t)
    /\ UNCHANGED <<latest, loopVars, activeVars, cancelled, aborting, notified,
                   channel, calls, marked, completed, aborted, errored, historyVars>>

(* The response calls a tool that needs approval. *)
TaskCallTool(t) ==
    /\ Step(t, "sampling", "asking")
    /\ calls[t] < MaxCalls
    /\ calls' = [calls EXCEPT ![t] = @ + 1]
    /\ UNCHANGED <<latest, loopVars, activeVars, cancelled, aborting, notified, held,
                   channel, outVars, historyVars>>

(* A request of the user, kept by the sub_id of the turn: the approval of  *)
(* a command or a patch, or request_user_input.  Without an ActiveTurn the *)
(* sender is dropped when the function returns: at once for a patch, whose *)
(* receiver is returned, and not before the answer for the others, which   *)
(* wait for it themselves.                                                 *)
TaskAsk(t) ==
    /\ Step(t, "asking", "waiting")
    /\ \/ /\ active # NoTurn
          /\ approvals' = approvals \cup {t}
          /\ channel' = [channel EXCEPT ![t] = "open"]
       \/ /\ active = NoTurn
          /\ \E c \in {"closed", "kept"} : channel' = [channel EXCEPT ![t] = c]
          /\ UNCHANGED approvals
    /\ UNCHANGED <<latest, loopVars, active, pending, cancelled, aborting, notified,
                   held, calls, outVars, historyVars>>

(* The decision arrives; the tool's output is in the history and the model *)
(* is asked again.                                                         *)
TaskResume(t) ==
    /\ Step(t, "waiting", "pulling")
    /\ channel[t] \notin {"open", "kept"}
    /\ channel' = [channel EXCEPT ![t] = "none"]
    /\ UNCHANGED <<latest, loopVars, activeVars, cancelled, aborting, notified, held,
                   calls, outVars, historyVars>>

(* The response completes and calls no tool. *)
TaskAnswered(t) ==
    /\ Step(t, "sampling", "deciding")
    /\ UNCHANGED <<latest, loopVars, activeVars, taskVars, outVars, historyVars>>

(* has_pending_input decides whether the turn goes on. *)
TaskDecide(t) ==
    /\ Step(t, "deciding", IF pending # {} THEN "pulling" ELSE "flushing")
    /\ UNCHANGED <<latest, loopVars, activeVars, taskVars, outVars, historyVars>>

(* The sampling request fails for good. *)
TaskError(t) ==
    /\ Step(t, "sampling", "flushing")
    /\ errored' = errored \cup {t}
    /\ UNCHANGED <<latest, loopVars, activeVars, taskVars, recorded, marked,
                   completed, aborted, historyVars>>

(* A regular task sees its token cancelled while it waits. *)
TaskCancelled(t) ==
    /\ t \in cancelled
    /\ Step(t, "sampling", "flushing") \/ Step(t, "waiting", "flushing")
    /\ channel' = [channel EXCEPT ![t] = "none"]
    /\ UNCHANGED <<latest, loopVars, activeVars, cancelled, aborting, notified, held,
                   calls, outVars, historyVars>>

(* The other tasks are one long wait; compaction does not watch its token. *)
TaskWorked(t) ==
    /\ Step(t, "working", "flushing")
    /\ UNCHANGED <<latest, loopVars, activeVars, taskVars, outVars, historyVars>>

-----------------------------------------------------------------------------
(* The task of a turn: the epilogue of spawn_task, and on_task_finished *)

(* flush_rollout, and then the look at the cancellation token *)
TaskFlushed(t) ==
    /\ Step(t, "flushing", IF t \in cancelled THEN "notifying" ELSE "finishing")
    /\ UNCHANGED <<latest, loopVars, activeVars, taskVars, outVars, historyVars>>

(* Mutant: on_task_finished does not look whose turn is active. *)
TaskFinishAnyTurn(t) ==
    /\ Step(t, "finishing", IF pending = {} THEN "emitting" ELSE "leftover")
    /\ TakePending(t)
    /\ active' = NoTurn
    /\ approvals' = {}
    /\ CloseApprovals
    /\ aborting' = aborting \cup {t}
    /\ UNCHANGED <<latest, loopVars, cancelled, notified, calls, outVars, historyVars>>

(* Mutant: the turn is removed with the input that nobody took. *)
TaskFinishNoLeftover(t) ==
    /\ Step(t, "finishing", "emitting")
    /\ IF active = t
         THEN /\ ClearActive
              /\ aborting' = aborting \cup {t}
              /\ UNCHANGED <<cancelled, notified, held, calls>>
         ELSE UNCHANGED <<activeVars, taskVars>>
    /\ UNCHANGED <<latest, loopVars, outVars, historyVars>>

(* on_task_finished under the lock.  When the active turn is this one, the *)
(* pending input is taken and the turn removed; that drops its RunningTask *)
(* and with it the AbortOnDropHandle of the very task that runs this.      *)
TaskFinish(t) ==
    \/ /\ active = t
       /\ Step(t, "finishing", IF pending = {} THEN "emitting" ELSE "leftover")
       /\ TakePending(t)
       /\ active' = NoTurn
       /\ approvals' = {}
       /\ CloseApprovals
       /\ aborting' = aborting \cup {t}
       /\ UNCHANGED <<latest, loopVars, cancelled, notified, calls, outVars, historyVars>>
    \/ /\ active # t
       /\ Step(t, "finishing", "emitting")
       /\ UNCHANGED <<latest, loopVars, activeVars, taskVars, outVars, historyVars>>

(* The leftover input is recorded once the lock is released. *)
TaskRecordLeftover(t) ==
    /\ Step(t, "leftover", "emitting")
    /\ RecordHeld(t)
    /\ UNCHANGED <<latest, loopVars, activeVars, cancelled, aborting, notified,
                   channel, calls, marked, completed, aborted, errored, historyVars>>

TaskEmit(t) ==
    /\ Step(t, "emitting", "notifying")
    /\ completed' = completed \cup {t}
    /\ UNCHANGED <<latest, loopVars, activeVars, taskVars, recorded, marked, aborted,
                   errored, historyVars>>

(* notify_waiters wakes those that listen now, and leaves no permit. *)
TaskNotify(t) ==
    /\ Step(t, "notifying", "ended")
    /\ notified' = IF at = "grace" /\ victim = t THEN notified \cup {t} ELSE notified
    /\ UNCHANGED <<latest, loopVars, activeVars, cancelled, aborting, held, channel,
                   calls, outVars, historyVars>>

(* The runtime drops a task that was aborted: it takes no further step. *)
TaskDrop(t) ==
    /\ t \in aborting
    /\ Live(t)
    /\ pc' = [pc EXCEPT ![t] = "dropped"]
    /\ channel' = [channel EXCEPT ![t] = "none"]
    /\ UNCHANGED <<latest, loopVars, activeVars, cancelled, aborting, notified, held,
                   calls, outVars, historyVars>>

-----------------------------------------------------------------------------
Op ==
    \/ \E i \in Inputs : OpSteer(i) \/ OpUserTurn(i)
    \/ OpOtherTask \/ OpInterrupt \/ OpShutdown
    \/ \E t \in Turns, d \in {"approved", "denied"} : OpApproval(t, d)

LoopStep ==
    \/ LoopTake \/ LoopCancel \/ LoopListen \/ LoopGraceDone \/ LoopGraceTimeout
    \/ LoopAbort \/ LoopMark \/ LoopReport \/ LoopSpawn \/ LoopRegister

RunStep(t) ==
    \/ TaskStart(t) \/ TaskFailEarly(t) \/ TaskRecordPrompt(t)
    \/ TaskPull(t) \/ TaskRecordPulled(t)
    \/ TaskCallTool(t) \/ TaskAsk(t) \/ TaskResume(t)
    \/ TaskAnswered(t) \/ TaskDecide(t) \/ TaskError(t)
    \/ TaskCancelled(t) \/ TaskWorked(t)

EpilogueStep(t) ==
    \/ TaskFlushed(t) \/ TaskFinish(t) \/ TaskRecordLeftover(t)
    \/ TaskEmit(t) \/ TaskNotify(t)

Next ==
    \/ Op
    \/ LoopStep
    \/ \E i \in Inputs : ExternalSteer(i)
    \/ \E t \in Turns : RunStep(t) \/ EpilogueStep(t) \/ TaskDrop(t)

Spec == Init /\ [][Next]_vars

(* The loop is driven by the runtime, and a task that was aborted is       *)
(* dropped by it, whatever the model and the user do.                      *)
RuntimeFairness ==
    /\ WF_vars(LoopStep)
    /\ \A t \in Turns : WF_vars(TaskDrop(t))

(* The model answers, the rollout writer flushes and the user decides.     *)
EnvironmentFairness ==
    \A t \in Turns :
        /\ WF_vars(RunStep(t) \/ EpilogueStep(t))
        /\ WF_vars(\E d \in {"approved", "denied"} : OpApproval(t, d))

FairSpec == Spec /\ RuntimeFairness
LiveSpec == Spec /\ RuntimeFairness /\ EnvironmentFairness

-----------------------------------------------------------------------------
(* A turn is removed from the session by the loop, which takes it to abort *)
(* it, or by its own task: a task that was aborted and still finishes does *)
(* not remove the turn that replaced it (remove_task, state/turn.rs:59).   *)
OnlyOwnerClears ==
    [][active # NoTurn /\ active' # active =>
         /\ active' = NoTurn
         /\ \/ at = "take" /\ victim' = active
            \/ pc[active] = "finishing" /\ pc'[active] # "finishing"]_vars

(* An accepted input that is not in the history is on its way there: it is *)
(* the prompt of the turn that the loop is about to spawn; it waits in an  *)
(* active turn whose task will still look for input (run_turn and          *)
(* on_task_finished do); or a task has it in hand and goes on to record.   *)
InFlight(i) ==
    \/ i \in prompt
    \/ i \in pending /\ pc[active] \in RunPlaces \cup {"flushing", "finishing"}
    \/ \E t \in Turns :
           i \in held[t] /\ pc[t] \in {"starting", "prompting", "recording", "leftover"}

(* What the user is told: TurnAborted for the turn, or that it failed      *)
(* before its prompt was recorded.                                         *)
TurnGivenUp(i) == acceptedBy[i] \in cancelled \cup {victim}
PromptFailed(i) == i \notin steered /\ acceptedBy[i] \in errored

(* What the code loses without telling anyone.  The turn was registered    *)
(* after its task had passed on_task_finished (tasks/mod.rs:139-177).      *)
TurnOver(i) ==
    i \in pending /\ pc[active] \in {"emitting", "notifying", "ended"}

(* The task removed its turn, and with it its own AbortOnDropHandle, and   *)
(* was dropped before it recorded the leftover (tasks/mod.rs:200-217).     *)
LeftoverDropped(i) ==
    LET t == acceptedBy[i] IN
      i \in held[t] /\ i \in steered /\ pc[t] = "dropped" /\ t \notin cancelled

(* An aborted task took the input of the turn that replaced its own, as    *)
(* get_pending_input does not look whose turn is active (codex.rs:2479),   *)
(* and was dropped before it recorded it.                                  *)
TakenByAborted(i) ==
    \E t \in cancelled \ {acceptedBy[i]} : i \in held[t] /\ pc[t] = "dropped"

(* An accepted input gets into the history or is on its way there, unless  *)
(* the user is told that its turn was given up or failed before its prompt *)
(* was recorded -- or it falls to one of the three races named above.      *)
NoSilentLoss ==
    \A i \in Inputs :
        ~ Fresh(i) /\ i \notin recorded /\ ~ InFlight(i) =>
            \/ TurnGivenUp(i) \/ PromptFailed(i)
            \/ TurnOver(i) \/ LeftoverDropped(i) \/ TakenByAborted(i)

(* A task that waits for an approval can get one: its sender is in the     *)
(* ActiveTurn, where notify_approval looks (codex.rs:1980), or it has been *)
(* dropped and the task resumes with the default.  Only a task that asks   *)
(* without an ActiveTurn waits for an answer that cannot come: its turn is *)
(* being aborted, or was not registered yet when it asked.                 *)
AskerReachable ==
    \A t \in Turns :
        pc[t] = "waiting" =>
            /\ channel[t] = "open" => active # NoTurn /\ t \in approvals
            /\ channel[t] = "kept" =>
                  \/ t \in cancelled \cup {victim, active}
                  \/ at = "register" /\ t = latest

(* No turn is forgotten: each one that was spawned is the active one, or   *)
(* is being aborted or registered, or has its final event, or its task is  *)
(* about to send it -- or was dropped on the way, by its own removal.      *)
TurnAccounted ==
    \A t \in 1 .. latest :
        \/ t \in completed \cup aborted
        \/ t \in {active, victim}
        \/ at = "register" /\ t = latest
        \/ pc[t] \in {"leftover", "emitting"}
        \/ pc[t] = "dropped" /\ t \notin cancelled

(* The loop gets back to its queue whatever the task that it aborts does   *)
(* (the timeout of handle_task_abort, tasks/mod.rs:256-262).               *)
LoopReturns == (at \notin {"idle", "stopped"}) ~> (at \in {"idle", "stopped"})

(* A task whose turn was aborted stops, even one that never looks at its   *)
(* cancellation token.                                                     *)
AbortedTaskStops == \A t \in Turns : (t \in cancelled) ~> ~ Live(t)

(* A turn "starts with turn/started [...] and ends with turn/completed"    *)
(* (app-server/README.md:492): it ends with one of the two final events.   *)
TurnEnds == \A t \in Turns : (pc[t] # "unborn") ~> (t \in completed \cup aborted)
=============================================================================
