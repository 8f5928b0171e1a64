------------------------------- MODULE Delegates -------------------------------
(***************************************************************************)
(* A review: a turn of the parent session that runs a session of its own,   *)
(* the child.  Two detached tasks stand between them: forward_events passes *)
(* the child's events on and asks the user of the parent what the child     *)
(* asks, forward_ops passes operations the other way.  A third, the bridge  *)
(* of run_codex_thread_one_shot, waits for the end of the child's turn and  *)
(* closes everything.  The parent may be interrupted at any moment.         *)
(*                                                                          *)
(* The child's own session is reduced to its channels: an operation it      *)
(* takes is one step (what is inside is the subject of TurnLifecycle), and  *)
(* so is a registration of the parent's turn.                               *)
(***************************************************************************)
EXTENDS Naturals, Sequences, FiniteSets, SequencesExt

CONSTANTS
    MaxCalls,       \* bound: calls of the child that ask the user
    MaxMessages,    \* bound: other events of the child's turn
    Capacity        \* SUBMISSION_CHANNEL_CAPACITY (64 in the code)

ASSUME ConstantsAssumption ==
    MaxCalls \in Nat /\ MaxMessages \in Nat /\ Capacity \in Nat \ {0}

VARIABLES
    loop,       \* where the parent's loop is with the abort of the turn
    active,     \* the turn is the parent's ActiveTurn
    cancelled,  \* the token of the turn
    stop,       \* child_cancel, a child of that token
    task,       \* ReviewTask::run: where it stands and the output it has
    doomed,     \* its JoinHandle was aborted
    exits,      \* the ExitedReviewMode events, by their output
    question,   \* the call whose sender is in the parent's TurnState, or 0
    forward,    \* forward_events: where it stands, its call or event, its answer
    forwardOps, \* forward_ops: where it stands and the operation it has
    bridge,     \* the bridge: where it stands and the event it has
    ops,        \* channel of the caller's operations
    subs,       \* channel of the child's submissions
    events,     \* channel of the child's events, unbounded
    out,        \* channel of the events that are passed on
    bridged,    \* channel of the events for the review
    received,   \* events the review has seen
    child,      \* the submission loop of the child
    turn,       \* the turn of the child
    calls,      \* its calls that ask
    slot,       \* the call whose sender is in the child's TurnState, or 0
    said,       \* events of the child except its questions (history)
    consents    \* how often the user approved (history)

parentVars == <<loop, active, cancelled, question, consents>>
taskVars == <<task, doomed, exits, received>>
delegateVars == <<stop, forward, forwardOps, bridge>>
childVars == <<child, turn, calls, slot>>
channels == <<ops, subs, events, out, bridged>>
vars == <<parentVars, taskVars, delegateVars, childVars, channels, said>>

Event(kind, n) == [kind |-> kind, n |-> n]
NoEvent == Event("none", 0)
Final(e) == e.kind \in {"complete", "aborted"}
Calls == 1 .. MaxCalls

(* A cancelled token cancels its children. *)
Cancelled == cancelled \/ stop

Full(ch) == Len(ch) >= Capacity
Halted(pc) == pc \in {"none", "done"}

Init ==
    /\ loop = "idle" /\ active = TRUE /\ cancelled = FALSE /\ stop = FALSE
    /\ task = [pc |-> "starting", output |-> "none"]
    /\ doomed = FALSE /\ exits = <<>>
    /\ question = 0 /\ consents = 0
    /\ forward = [pc |-> "none", event |-> NoEvent, answer |-> "none"]
    /\ forwardOps = [pc |-> "none", op |-> "none"]
    /\ bridge = [pc |-> "none", event |-> NoEvent]
    /\ ops = <<>> /\ subs = <<>> /\ events = <<>> /\ out = <<>> /\ bridged = <<>>
    /\ received = <<>>
    /\ child = "none" /\ turn = "none"
    /\ calls = [n \in Calls |-> "none"] /\ slot = 0
    /\ said = <<>>
--------------------------------------------------------------------------------
(* The parent: an interrupt or a task that replaces this one, and the user. *)

(* take_all_running_tasks: the ActiveTurn goes with the sender it holds. *)
Take ==
    /\ loop = "idle" /\ active
    /\ loop' = "cancel" /\ active' = FALSE
    /\ question' = 0
    /\ UNCHANGED <<cancelled, consents, taskVars, delegateVars, childVars, channels,
                   said>>

CancelToken ==
    /\ loop = "cancel"
    /\ loop' = "grace"
    /\ cancelled' = TRUE
    /\ UNCHANGED <<active, question, consents, taskVars, delegateVars, childVars,
                   channels, said>>

(* The task has ended or the grace period has; its handle is aborted. *)
AbortTask ==
    /\ loop = "grace"
    /\ loop' = "leaving"
    /\ doomed' = TRUE
    /\ UNCHANGED <<active, cancelled, question, consents, task, exits, received,
                   delegateVars, childVars, channels, said>>

(* Mutant: ReviewTask has no abort of its own. *)
LeaveSilently ==
    /\ loop = "leaving"
    /\ loop' = "over"
    /\ UNCHANGED <<active, cancelled, question, consents, taskVars, delegateVars,
                   childVars, channels, said>>

(* ReviewTask::abort *)
Leave ==
    /\ loop = "leaving"
    /\ loop' = "over"
    /\ exits' = Append(exits, "none")
    /\ UNCHANGED <<active, cancelled, question, consents, task, doomed, received,
                   delegateVars, childVars, channels, said>>

LoopStep == CancelToken \/ AbortTask \/ Leave

(* notify_approval in the parent; an answer "abort" interrupts it instead. *)
Answer(d) ==
    /\ question # 0
    /\ question' = 0
    /\ consents' = IF d = "approved" THEN consents + 1 ELSE consents
    /\ forward' = [forward EXCEPT !.answer = d]
    /\ UNCHANGED <<loop, active, cancelled, taskVars, stop, forwardOps, bridge,
                   childVars, channels, said>>
--------------------------------------------------------------------------------
(* ReviewTask::run.  An aborted task does not leave a place where it waits. *)

TaskAt(pc) == task.pc = pc /\ (doomed => pc \notin {"starting", "reading"})
TaskGoto(pc) == task' = [task EXCEPT !.pc = pc]

(* The child is created, the input sent, the detached tasks spawned. *)
TaskStart ==
    /\ TaskAt("starting")
    /\ TaskGoto("reading")
    /\ child' = "running"
    /\ ops' = <<"input">>
    /\ forward' = [forward EXCEPT !.pc = "receiving"]
    /\ forwardOps' = [forwardOps EXCEPT !.pc = "receiving"]
    /\ bridge' = [bridge EXCEPT !.pc = "receiving"]
    /\ UNCHANGED <<parentVars, doomed, exits, received, stop, turn, calls, slot, subs,
                   events, out, bridged, said>>

TaskStartFails ==
    /\ TaskAt("starting")
    /\ TaskGoto("looking")
    /\ UNCHANGED <<parentVars, doomed, exits, received, delegateVars, childVars,
                   channels, said>>

(* process_review_events, up to the end of the child's turn. *)
TaskRead ==
    /\ TaskAt("reading")
    /\ bridged # <<>>
    /\ LET e == Head(bridged) IN
        /\ received' = Append(received, e)
        /\ task' = CASE e.kind = "complete" -> [pc |-> "looking", output |-> "result"]
                     [] e.kind = "aborted" -> [task EXCEPT !.pc = "looking"]
                     [] OTHER -> task
    /\ bridged' = Tail(bridged)
    /\ UNCHANGED <<parentVars, doomed, exits, delegateVars, childVars, ops, subs,
                   events, out, said>>

(* The channel is closed: the review was interrupted. *)
TaskReadClosed ==
    /\ TaskAt("reading")
    /\ bridged = <<>> /\ Halted(bridge.pc)
    /\ TaskGoto("looking")
    /\ UNCHANGED <<parentVars, doomed, exits, received, delegateVars, childVars,
                   channels, said>>

TaskLook ==
    /\ TaskAt("looking")
    /\ TaskGoto(IF cancelled THEN "flushing" ELSE "exiting")
    /\ UNCHANGED <<parentVars, doomed, exits, received, delegateVars, childVars,
                   channels, said>>

(* exit_review_mode *)
TaskExit ==
    /\ TaskAt("exiting")
    /\ TaskGoto("flushing")
    /\ exits' = Append(exits, task.output)
    /\ UNCHANGED <<parentVars, doomed, received, delegateVars, childVars, channels,
                   said>>

(* The epilogue of spawn_task: an aborted turn is left to the loop. *)
TaskFinish ==
    /\ TaskAt("flushing")
    /\ TaskGoto("done")
    /\ IF active /\ ~ cancelled
         THEN active' = FALSE /\ question' = 0
         ELSE UNCHANGED <<active, question>>
    /\ UNCHANGED <<loop, cancelled, consents, doomed, exits, received, delegateVars,
                   childVars, channels, said>>

TaskDrop ==
    /\ doomed
    /\ task.pc \notin {"done", "dropped"}
    /\ TaskGoto("dropped")
    /\ UNCHANGED <<parentVars, doomed, exits, received, delegateVars, childVars,
                   channels, said>>

TaskStep ==
    \/ TaskStart \/ TaskStartFails \/ TaskRead \/ TaskReadClosed \/ TaskLook
    \/ TaskExit \/ TaskFinish \/ TaskDrop
--------------------------------------------------------------------------------
(* Submissions to the child: a send waits while the channel is full, and *)
(* fails when the loop has stopped.                                      *)
Submit(op) ==
    \/ child = "running" /\ ~ Full(subs) /\ subs' = Append(subs, op)
    \/ child # "running" /\ UNCHANGED subs

(* forward_events *)
ForwardAt(pc) == forward.pc = pc
ForwardGoto(pc) == forward' = [forward EXCEPT !.pc = pc]
ForwardLeaves(pc) == forward' = [pc |-> pc, event |-> NoEvent, answer |-> "none"]
Others == <<loop, active, cancelled, consents, taskVars, stop, forwardOps, bridge,
            childVars, said>>

(* Mutant: the end of the child's turn is one of the events left out. *)
ForwardReceiveNoEnd ==
    /\ ForwardAt("receiving")
    /\ events # <<>>
    /\ LET e == Head(events) IN
        forward' = [pc |-> CASE e.kind = "ask" -> "asking"
                             [] Final(e) -> "receiving"
                             [] OTHER -> "sending",
                    event |-> e, answer |-> "none"]
    /\ events' = Tail(events)
    /\ UNCHANGED <<Others, question, ops, subs, out, bridged>>

(* The select! has both branches ready when the token is cancelled. *)
ForwardReceive ==
    /\ ForwardAt("receiving")
    /\ events # <<>>
    /\ LET e == Head(events) IN
        forward' = [pc |-> IF e.kind = "ask" THEN "asking" ELSE "sending",
                    event |-> e, answer |-> "none"]
    /\ events' = Tail(events)
    /\ UNCHANGED <<Others, question, ops, subs, out, bridged>>

(* request_command_approval, request_patch_approval and request_user_input  *)
(* of the parent.  Without its ActiveTurn nobody can answer: a patch is     *)
(* denied, the others wait for the token.                                   *)
ForwardAsk ==
    /\ ForwardAt("asking")
    /\ ForwardGoto("waiting")
    /\ question' = IF active THEN forward.event.n ELSE question
    /\ UNCHANGED <<Others, channels>>

ForwardDenied ==
    /\ ForwardAt("waiting")
    /\ question = 0 /\ ~ active /\ forward.answer = "none"
    /\ forward' = [forward EXCEPT !.answer = "denied"]
    /\ UNCHANGED <<Others, question, channels>>

(* Mutant: a question that is cancelled counts as approved. *)
ForwardCancelledApproves ==
    /\ ForwardAt("waiting")
    /\ Cancelled
    /\ forward' = [forward EXCEPT !.pc = "replying", !.answer = "approved"]
    /\ question' = 0
    /\ UNCHANGED <<Others, channels>>

(* await_approval_with_cancel, await_user_input_with_cancel: the token wins, *)
(* and the request is taken back from the parent.                            *)
ForwardCancelled ==
    /\ ForwardAt("waiting")
    /\ Cancelled
    /\ \E d \in {"abort", "denied"} :
        forward' = [forward EXCEPT !.pc = "replying", !.answer = d]
    /\ question' = 0
    /\ UNCHANGED <<Others, channels>>

ForwardAnswered ==
    /\ ForwardAt("waiting")
    /\ ~ Cancelled
    /\ forward.answer # "none"
    /\ ForwardGoto("replying")
    /\ UNCHANGED <<Others, question, channels>>

(* Op::ExecApproval and the like name the child's turn, not the call. *)
ForwardReply ==
    /\ ForwardAt("replying")
    /\ Submit(forward.answer)
    /\ ForwardLeaves("receiving")
    /\ UNCHANGED <<Others, question, ops, events, out, bridged>>

ForwardSend ==
    /\ ForwardAt("sending")
    /\ \/ /\ ~ Halted(bridge.pc) /\ ~ Full(out)
          /\ out' = Append(out, forward.event)
          /\ ForwardLeaves("receiving")
       \/ /\ Halted(bridge.pc) \/ Cancelled
          /\ ForwardLeaves("interrupting")
          /\ UNCHANGED out
    /\ UNCHANGED <<Others, question, ops, subs, events, bridged>>

ForwardStop ==
    /\ ForwardAt("receiving")
    /\ Cancelled
    /\ ForwardLeaves("interrupting")
    /\ UNCHANGED <<Others, question, channels>>

(* shutdown_delegate *)
ForwardInterrupt ==
    /\ ForwardAt("interrupting")
    /\ Submit("interrupt")
    /\ ForwardLeaves("stopping")
    /\ UNCHANGED <<Others, question, ops, events, out, bridged>>

(* Mutant: the child is interrupted and left running. *)
ForwardNoShutdown ==
    /\ ForwardAt("stopping")
    /\ ForwardLeaves("draining")
    /\ UNCHANGED <<Others, question, channels>>

ForwardShutdown ==
    /\ ForwardAt("stopping")
    /\ Submit("shutdown")
    /\ ForwardLeaves("draining")
    /\ UNCHANGED <<Others, question, ops, events, out, bridged>>

(* Mutant: after the drain the loop goes on. *)
ForwardDrainGoesOn ==
    /\ ForwardAt("draining")
    /\ ForwardLeaves("receiving")
    /\ events' = <<>>
    /\ UNCHANGED <<Others, question, ops, subs, out, bridged>>

(* Events are thrown away up to the end of the turn, or for half a second; *)
(* what is left then is never read.                                        *)
ForwardDrain ==
    /\ ForwardAt("draining")
    /\ ForwardLeaves("done")
    /\ events' = <<>>
    /\ UNCHANGED <<Others, question, ops, subs, out, bridged>>

ForwardStep ==
    \/ ForwardReceive \/ ForwardAsk \/ ForwardDenied \/ ForwardCancelled
    \/ ForwardAnswered \/ ForwardReply \/ ForwardSend \/ ForwardStop
    \/ ForwardInterrupt \/ ForwardShutdown \/ ForwardDrain
--------------------------------------------------------------------------------
(* forward_ops *)

OpsReceive ==
    /\ forwardOps.pc = "receiving"
    /\ \/ /\ ops # <<>>
          /\ forwardOps' = [pc |-> "submitting", op |-> Head(ops)]
          /\ ops' = Tail(ops)
       \/ /\ Cancelled \/ (ops = <<>> /\ Halted(bridge.pc))
          /\ forwardOps' = [forwardOps EXCEPT !.pc = "done"]
          /\ UNCHANGED ops
    /\ UNCHANGED <<parentVars, taskVars, stop, forward, bridge, childVars, subs,
                   events, out, bridged, said>>

OpsSubmit ==
    /\ forwardOps.pc = "submitting"
    /\ Submit(forwardOps.op)
    /\ forwardOps' = [pc |-> "receiving", op |-> "none"]
    /\ UNCHANGED <<parentVars, taskVars, stop, forward, bridge, childVars, ops, events,
                   out, bridged, said>>

(* The bridge of run_codex_thread_one_shot *)
BridgeReceive ==
    /\ bridge.pc = "receiving"
    /\ \/ /\ out # <<>>
          /\ bridge' = [pc |-> "sending", event |-> Head(out)]
          /\ out' = Tail(out)
       \/ /\ out = <<>> /\ Halted(forward.pc)
          /\ bridge' = [bridge EXCEPT !.pc = "done"]
          /\ UNCHANGED out
    /\ UNCHANGED <<parentVars, taskVars, stop, forward, forwardOps, childVars, ops,
                   subs, events, bridged, said>>

BridgeSend ==
    /\ bridge.pc = "sending"
    /\ \/ task.pc = "reading" /\ ~ Full(bridged) /\ bridged' = Append(bridged, bridge.event)
       \/ task.pc # "reading" /\ UNCHANGED bridged
    /\ bridge' = [pc |-> IF Final(bridge.event) THEN "closing" ELSE "receiving",
                  event |-> NoEvent]
    /\ UNCHANGED <<parentVars, taskVars, stop, forward, forwardOps, childVars, ops,
                   subs, events, out, said>>

(* A Shutdown for the child, then the token of the forwarders. *)
BridgeClose ==
    /\ bridge.pc = "closing"
    /\ \/ ~ Halted(forwardOps.pc) /\ ~ Full(ops) /\ ops' = Append(ops, "shutdown")
       \/ Halted(forwardOps.pc) /\ UNCHANGED ops
    /\ stop' = TRUE
    /\ bridge' = [bridge EXCEPT !.pc = "done"]
    /\ UNCHANGED <<parentVars, taskVars, forward, forwardOps, childVars, subs, events,
                   out, bridged, said>>
--------------------------------------------------------------------------------
(* The child *)

Emit(es) == events' = IF Halted(forward.pc) THEN <<>> ELSE events \o es
Send(es) == Emit(es) /\ said' = said \o es
Pending == {n \in Calls : calls[n] = "pending"}
Inner == <<parentVars, taskVars, delegateVars, ops, out, bridged>>

(* Its running turn is aborted. *)
AbortTurn(es) ==
    /\ turn' = IF turn = "running" THEN "over" ELSE turn
    /\ calls' = [n \in Calls |-> IF n \in Pending THEN "dropped" ELSE calls[n]]
    /\ slot' = 0
    /\ Send((IF turn = "running" THEN <<Event("aborted", 0)>> ELSE <<>>) \o es)

ChildInput ==
    /\ Head(subs) = "input"
    /\ turn' = "running"
    /\ UNCHANGED <<child, calls, slot, events, said>>

(* The decision goes to the call that asked last, if it still waits. *)
ChildAnswer ==
    /\ Head(subs) \in {"approved", "denied"}
    /\ calls' = [n \in Calls |-> IF n = slot /\ n \in Pending THEN Head(subs) ELSE calls[n]]
    /\ slot' = 0
    /\ UNCHANGED <<child, turn, events, said>>

ChildInterrupt ==
    /\ Head(subs) \in {"abort", "interrupt"}
    /\ AbortTurn(<<>>)
    /\ UNCHANGED child

ChildShutdown ==
    /\ Head(subs) = "shutdown"
    /\ AbortTurn(<<Event("closed", 0)>>)
    /\ child' = "stopped"

ChildOp ==
    /\ child = "running"
    /\ subs # <<>>
    /\ subs' = Tail(subs)
    /\ ChildInput \/ ChildAnswer \/ ChildInterrupt \/ ChildShutdown
    /\ UNCHANGED Inner

ChildMessage ==
    /\ turn = "running"
    /\ Cardinality({m \in DOMAIN said : said[m].kind = "message"}) < MaxMessages
    /\ Send(<<Event("message", Len(said) + 1)>>)
    /\ UNCHANGED <<Inner, childVars, subs>>

(* A call asks; the sender of another one that waits is dropped. *)
ChildAsk(n) ==
    /\ turn = "running"
    /\ calls[n] = "none" /\ \A m \in Calls : m < n => calls[m] # "none"
    /\ calls' = [m \in Calls |-> CASE m = n -> "pending"
                                   [] m = slot /\ m \in Pending -> "denied"
                                   [] OTHER -> calls[m]]
    /\ slot' = n
    /\ Emit(<<Event("ask", n)>>)
    /\ UNCHANGED <<Inner, child, turn, subs, said>>

(* Its request failed and is retried without it. *)
ChildDropsCall(n) ==
    /\ turn = "running" /\ calls[n] = "pending"
    /\ calls' = [calls EXCEPT ![n] = "dropped"]
    /\ UNCHANGED <<Inner, child, turn, slot, subs, events, said>>

ChildComplete ==
    /\ turn = "running" /\ Pending = {}
    /\ turn' = "over"
    /\ Send(<<Event("complete", 0)>>)
    /\ UNCHANGED <<Inner, child, calls, slot, subs>>

ModelStep ==
    \/ ChildMessage \/ ChildComplete
    \/ \E n \in Calls : ChildAsk(n) \/ ChildDropsCall(n)

OpsStep == OpsReceive \/ OpsSubmit
BridgeStep == BridgeReceive \/ BridgeSend \/ BridgeClose

Next ==
    \/ Take \/ LoopStep \/ \E d \in {"approved", "denied"} : Answer(d)
    \/ TaskStep
    \/ ForwardStep \/ OpsStep \/ BridgeStep
    \/ ChildOp \/ ModelStep

Spec == Init /\ [][Next]_vars

(* The tasks are polled and the timeouts fire; neither the user nor the *)
(* model need ever do anything.                                         *)
FairSpec ==
    /\ Spec
    /\ WF_vars(LoopStep) /\ WF_vars(TaskStep) /\ WF_vars(ForwardStep)
    /\ WF_vars(OpsStep) /\ WF_vars(BridgeStep) /\ WF_vars(ChildOp)
--------------------------------------------------------------------------------
(* The ranges of the variables. *)
TypeOK ==
    /\ loop \in {"idle", "cancel", "grace", "leaving", "over"}
    /\ {active, cancelled, stop, doomed} \subseteq BOOLEAN
    /\ task.pc \in {"starting", "reading", "looking", "exiting", "flushing", "done",
                    "dropped"}
    /\ exits \in Seq({"none", "result"})
    /\ question \in 0 .. MaxCalls /\ slot \in 0 .. MaxCalls
    /\ \A n \in {Len(ops), Len(subs), Len(out), Len(bridged)} : n <= Capacity
    /\ calls \in [Calls -> {"none", "pending", "approved", "denied", "dropped"}]
    /\ consents \in Nat

(* A call of the child is approved at most as often as the user approved:   *)
(* cancellation, the end of the parent's turn and dropped calls never       *)
(* approve anything, whatever call an answer reaches in the child.          *)
ConsentCounted ==
    Cardinality({n \in Calls : calls[n] = "approved"}) <= consents

(* The review sees the child's events in order and none is missing before   *)
(* one it sees, though forward_events throws events away when it stops; the *)
(* questions, which are not passed on, are not counted.                     *)
EventsInOrder ==
    IsPrefix(received \o bridged, said)

(* When the parent's turn is over the user has left review mode, through    *)
(* the task or its abort, with an output only if the child's turn completed; *)
(* both do so only if the task had looked at the token before.              *)
ReviewLeft ==
    /\ ~ active /\ loop \in {"idle", "over"} => exits # <<>>
    /\ "result" \in ToSet(exits) => Event("complete", 0) \in ToSet(received)
    /\ Len(exits) = 2 => loop = "over" /\ task.pc \in {"flushing", "done", "dropped"}

(* When the turn is aborted or the child's turn has ended nothing is left   *)
(* behind: the child's loop and the three detached tasks stop, whatever the *)
(* user and the model do.                                                   *)
AllStopped ==
    /\ child # "running"
    /\ Halted(forward.pc) /\ Halted(forwardOps.pc) /\ Halted(bridge.pc)
CancelStops == Cancelled ~> AllStopped

(* When the child's turn has ended the review returns, unless the user still *)
(* has a question to answer (which may be that of a call that was dropped).  *)
ReviewReturns == (turn = "over") ~> (task.pc \in {"done", "dropped"} \/ question # 0)
================================================================================
