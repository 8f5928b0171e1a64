------------------------------- MODULE ToolCalls -------------------------------
(***************************************************************************)
(* The tool calls of one turn (codex-rs/core): sampling requests whose     *)
(* stream emits calls, the task spawned for each call at once, the lock    *)
(* between those that may run in parallel and those that may not, the      *)
(* orchestrator (approval, attempt in the sandbox, escalated attempt), the *)
(* approvals that are keyed by the turn, the cache of approvals that last  *)
(* for the session, and the drain that records the outputs in order.       *)
(*                                                                         *)
(* A step is what a task does between two awaits that may wait.  As in     *)
(* TurnLifecycle, aborting a task is not joined: an aborted call does not  *)
(* get out of a place where it waits, and is dropped some time later.      *)
(***************************************************************************)
EXTENDS Integers, Sequences, FiniteSets

CONSTANTS
    Calls,        \* the ids of the tool calls that the model may emit
    Keys,         \* approval keys: commands with their cwd, or file paths
    Tools,        \* what a call may be: see ToolsAssumption
    MaxRequests,  \* bound: sampling requests of the turn, retries included
    NoCall

(* exclusive: the tool does not support parallel calls; asks: the          *)
(* requirement is NeedsApproval; patch: it applies a patch; named: the     *)
(* model gave the call an id; keys: approval_keys of the request.          *)
ASSUME ToolsAssumption ==
    Tools \subseteq [exclusive: BOOLEAN, asks: BOOLEAN, patch: BOOLEAN, named: BOOLEAN,
                    keys: SUBSET Keys]

ASSUME NoCallAssumption == NoCall \notin Calls

ASSUME MaxRequestsAssumption == MaxRequests \in Nat \ {0}

VARIABLES
    (* the sampling loop *)
    request,    \* the sampling request that runs, or ran last
    stream,     \* open, draining, ended, or over with the turn
    outcome,    \* how the request ended
    issued,     \* the calls in the history, in the order of their emission
    inFlight,   \* in_flight: the calls whose result is not recorded yet
    outputs,    \* the outputs in the history; NoCall is one under no id
    (* per call *)
    pc,
    tool,       \* what the model calls under each id
    requestOf,  \* the request that emitted it: the ToolCallRuntime it runs in
    approved,   \* already_approved
    aborting,   \* calls whose AbortOnDropHandle was dropped
    (* approvals *)
    slot,       \* the sender in pending_approvals under the sub_id of the turn
    channel,    \* the oneshot channel of each call's request
    question,   \* the request that the user sees for each call
    store,      \* tool_approvals: keys approved for the session
    interrupt   \* how far abort_all_tasks is with this turn

samplingVars == <<request, stream, outcome, issued, inFlight, outputs>>
callVars == <<pc, tool, requestOf, approved, aborting>>
approvalVars == <<slot, channel, question, store>>
vars == <<samplingVars, callVars, approvalVars, interrupt>>

-----------------------------------------------------------------------------
(* The places of a call that holds the lock of its ToolCallRuntime *)
LockedPlaces == {"checking", "asking", "waiting", "caching", "running",
                 "escalated"}
BusyPlaces == {"locking"} \cup LockedPlaces
(* returned with an answer; failed with an error that is none; dropped by  *)
(* the runtime; nameless: a call without an id, which gets no task.        *)
Places == {"unborn", "nameless"} \cup BusyPlaces \cup {"returned", "failed", "dropped"}

(* Where a call waits: for the lock, the user or the command. *)
Parked == {"locking", "waiting", "running", "escalated"}

Consents == {"approved", "session"}
Answers == Consents \cup {"denied", "abort"}

Busy(c) == pc[c] \in BusyPlaces
Holds(c) == pc[c] \in LockedPlaces
CanRun(c) == c \in aborting => pc[c] \notin Parked

(* The turn is the ActiveTurn of the session. *)
Active == interrupt = "none" /\ stream # "over"
Cancelled == interrupt \in {"cancelled", "aborted"}

Members(s) == {s[n] : n \in DOMAIN s}

TypeOK ==
    /\ request \in 1 .. MaxRequests
    /\ stream \in {"open", "draining", "ended", "over"}
    /\ outcome \in {"completed", "failed", "aborted"}
    /\ issued \in Seq(Calls)
    /\ inFlight \in Seq(Calls)
    /\ outputs \in Seq(Calls \cup {NoCall})
    /\ pc \in [Calls -> Places]
    /\ tool \in [Calls -> Tools]
    /\ requestOf \in [Calls -> 0 .. MaxRequests]
    /\ approved \subseteq Calls
    /\ aborting \subseteq Calls
    /\ slot \in Calls \cup {NoCall}
    /\ channel \in [Calls -> {"none", "open", "denied"} \cup Consents]
    /\ question \in [Calls -> {"none", "shown", "granted", "refused"}]
    /\ store \subseteq Keys
    /\ interrupt \in {"none", "taken", "cancelled", "aborted"}

Init ==
    /\ request = 1 /\ stream = "open" /\ outcome = "completed"
    /\ issued = <<>> /\ inFlight = <<>> /\ outputs = <<>>
    /\ pc = [c \in Calls |-> "unborn"]
    /\ tool \in [Calls -> Tools]
    /\ requestOf = [c \in Calls |-> 0]
    /\ approved = {} /\ aborting = {}
    /\ slot = NoCall
    /\ channel = [c \in Calls |-> "none"]
    /\ question = [c \in Calls |-> "none"]
    /\ store = {}
    /\ interrupt = "none"

-----------------------------------------------------------------------------
(* The sampling request: try_run_sampling_request *)

(* The call is recorded in the history and its task is spawned.            *)
Emit(c) ==
    /\ stream = "open"
    /\ pc[c] = "unborn" /\ tool[c].named
    /\ issued' = Append(issued, c)
    /\ inFlight' = Append(inFlight, c)
    /\ pc' = [pc EXCEPT ![c] = "locking"]
    /\ requestOf' = [requestOf EXCEPT ![c] = request]
    /\ UNCHANGED <<request, stream, outcome, outputs, tool, approved, aborting,
                   approvalVars, interrupt>>

(* A shell call without an id cannot be run: it is recorded and, at once   *)
(* and ahead of the calls in flight, an error under the empty id.          *)
EmitNameless(c) ==
    /\ stream = "open"
    /\ pc[c] = "unborn" /\ ~ tool[c].named
    /\ issued' = Append(issued, c)
    /\ outputs' = Append(outputs, NoCall)
    /\ pc' = [pc EXCEPT ![c] = "nameless"]
    /\ requestOf' = [requestOf EXCEPT ![c] = request]
    /\ UNCHANGED <<request, stream, outcome, inFlight, tool, approved, aborting,
                   approvalVars, interrupt>>

(* The response completes, the stream closes before that, or the wait for  *)
(* the next event sees the token: the calls in flight are drained first.   *)
StreamEnds(o) ==
    /\ stream = "open"
    /\ o = "aborted" => Cancelled
    /\ stream' = "draining"
    /\ outcome' = o
    /\ UNCHANGED <<request, issued, inFlight, outputs, callVars, approvalVars, interrupt>>

(* Mutant: the calls in flight are forgotten, and run on. *)
StreamFailsDetached ==
    /\ stream = "open"
    /\ stream' = "ended"
    /\ outcome' = "failed"
    /\ inFlight' = <<>>
    /\ UNCHANGED <<request, issued, outputs, callVars, approvalVars, interrupt>>

(* An error event of the stream returns at once: the calls in flight are   *)
(* dropped, and aborted by that.                                           *)
StreamFails ==
    /\ stream = "open"
    /\ stream' = "ended"
    /\ outcome' = "failed"
    /\ inFlight' = <<>>
    /\ aborting' = aborting \cup Members(inFlight)
    /\ UNCHANGED <<request, issued, outputs, pc, tool, requestOf, approved, approvalVars,
                   interrupt>>

(* Mutant: outputs are recorded in the order in which the calls end. *)
DrainUnordered ==
    /\ stream = "draining"
    /\ \E n \in DOMAIN inFlight :
        /\ pc[inFlight[n]] = "returned"
        /\ outputs' = Append(outputs, inFlight[n])
        /\ inFlight' = SubSeq(inFlight, 1, n - 1) \o SubSeq(inFlight, n + 1, Len(inFlight))
    /\ UNCHANGED <<request, stream, outcome, issued, callVars, approvalVars, interrupt>>

(* drain_in_flight: the next call in the order of emission.  The error of  *)
(* one that failed is logged, and nothing recorded (a debug build panics). *)
DrainNext ==
    /\ stream = "draining"
    /\ inFlight # <<>>
    /\ \/ /\ pc[Head(inFlight)] = "returned"
          /\ outputs' = Append(outputs, Head(inFlight))
       \/ /\ pc[Head(inFlight)] = "failed"
          /\ UNCHANGED outputs
    /\ inFlight' = Tail(inFlight)
    /\ UNCHANGED <<request, stream, outcome, issued, callVars, approvalVars, interrupt>>

DrainDone ==
    /\ stream = "draining"
    /\ inFlight = <<>>
    /\ stream' = "ended"
    /\ UNCHANGED <<request, outcome, issued, inFlight, outputs, callVars, approvalVars,
                   interrupt>>

(* A failed request is retried, and a completed one followed by the next;  *)
(* either way with a ToolCallRuntime, and so a lock, of its own.           *)
NextRequest ==
    /\ stream = "ended"
    /\ outcome # "aborted"
    /\ request < MaxRequests
    /\ request' = request + 1
    /\ stream' = "open"
    /\ UNCHANGED <<outcome, issued, inFlight, outputs, callVars, approvalVars, interrupt>>

(* Dropping the ActiveTurn drops the sender, and its call gets the default *)
(* decision, Denied.                                                       *)
DropSlot ==
    /\ slot' = NoCall
    /\ channel' = [c \in Calls |-> IF c = slot THEN "denied" ELSE channel[c]]

(* The turn ends: no call to follow up, or an error for good.  (A response *)
(* with calls is followed up; the bound on the requests stops it instead.)  *)
EndTurn ==
    /\ stream = "ended"
    /\ outcome = "completed" => \A c \in Calls : requestOf[c] # request
    /\ stream' = "over"
    /\ DropSlot
    /\ UNCHANGED <<request, outcome, issued, inFlight, outputs, callVars, question,
                   store, interrupt>>

(* The runtime drops the aborted task of the turn, with the calls in flight. *)
TurnDropped ==
    /\ interrupt = "aborted"
    /\ stream # "over"
    /\ stream' = "over"
    /\ inFlight' = <<>>
    /\ aborting' = aborting \cup Members(inFlight)
    /\ UNCHANGED <<request, outcome, issued, outputs, pc, tool, requestOf, approved,
                   approvalVars, interrupt>>

-----------------------------------------------------------------------------
(* The task of a call: ToolCallRuntime::handle_tool_call, and the          *)
(* orchestrator in it                                                      *)

Go(c, from, to) ==
    /\ pc[c] = from
    /\ CanRun(c)
    /\ pc' = [pc EXCEPT ![c] = to]

Others(c) == {d \in Calls \ {c} : requestOf[d] = requestOf[c] /\ Holds(d)}

(* Mutant: every call takes the lock for reading. *)
SharedLockFree(c) == TRUE

(* The RwLock: exclusive tools write, the others read. *)
LockFree(c) ==
    IF tool[c].exclusive THEN Others(c) = {} ELSE \A d \in Others(c) : ~ tool[d].exclusive

(* The lock is taken and the requirement of the call decides what is next. *)
LockAcquire(c) ==
    /\ LockFree(c)
    /\ Go(c, "locking", IF tool[c].asks THEN "checking" ELSE "running")
    /\ UNCHANGED <<samplingVars, tool, requestOf, approved, aborting, approvalVars,
                   interrupt>>

(* The handler refuses the call: a Forbidden requirement, bad arguments. *)
Refuse(c) ==
    /\ LockFree(c)
    /\ Go(c, "locking", "returned")
    /\ UNCHANGED <<samplingVars, tool, requestOf, approved, aborting, approvalVars,
                   interrupt>>

(* A call asks once: before its first attempt, or before the escalated one *)
(* when the first needed no approval.                                      *)
AfterConsent(c) == IF tool[c].asks THEN "running" ELSE "escalated"

(* A patch that asks to escalate does so past the store. *)
UsesStore(c) == tool[c].asks \/ ~ tool[c].patch

(* Mutant: one key that is approved for the session is enough. *)
AnyKeyStored(c) == tool[c].keys \cap store # {}

AllKeysStored(c) == tool[c].keys # {} /\ tool[c].keys \subseteq store

(* with_cached_approval looks into the store *)
CheckStore(c) ==
    /\ \/ /\ AllKeysStored(c)
          /\ Go(c, "checking", AfterConsent(c))
          /\ approved' = approved \cup {c}
       \/ /\ ~ AllKeysStored(c)
          /\ Go(c, "checking", "asking")
          /\ UNCHANGED approved
    /\ UNCHANGED <<samplingVars, tool, requestOf, aborting, approvalVars, interrupt>>


(* request_command_approval, request_patch_approval: the sender goes under *)
(* the sub_id of the turn, a sender that was there is dropped, and the     *)
(* event that asks the user is sent.  Without an ActiveTurn the sender     *)
(* stays in the function: that of a patch is dropped when it returns its   *)
(* receiver, that of a command is alive as long as the command waits.      *)
RequestApproval(c) ==
    /\ Go(c, "asking", "waiting")
    /\ question' = [question EXCEPT ![c] = "shown"]
    /\ \/ /\ Active
          /\ slot' = c
          /\ channel' = [d \in Calls |-> CASE d = c -> "open"
                                           [] d = slot /\ d # c -> "denied"
                                           [] OTHER -> channel[d]]
       \/ /\ ~ Active
          /\ channel' = [channel EXCEPT ![c] = IF tool[c].patch THEN "denied" ELSE "open"]
          /\ UNCHANGED slot
    /\ UNCHANGED <<samplingVars, tool, requestOf, approved, aborting, store, interrupt>>

(* The decision arrives. *)
Decide(c) ==
    /\ channel[c] # "open"
    /\ \/ /\ channel[c] \in Consents
          /\ approved' = approved \cup {c}
          /\ Go(c, "waiting", IF channel[c] = "session" /\ UsesStore(c)
                                THEN "caching" ELSE AfterConsent(c))
       \/ /\ channel[c] \notin Consents
          /\ Go(c, "waiting", "returned")
          /\ UNCHANGED approved
    /\ UNCHANGED <<samplingVars, tool, requestOf, aborting, approvalVars, interrupt>>

(* ApprovedForSession goes into the store under each key of the call. *)
StoreApproval(c) ==
    /\ Go(c, "caching", AfterConsent(c))
    /\ store' = store \cup tool[c].keys
    /\ UNCHANGED <<samplingVars, tool, requestOf, approved, aborting, slot, channel, question,
                   interrupt>>

CommandEnds(c) ==
    /\ Go(c, "running", "returned") \/ Go(c, "escalated", "returned")
    /\ UNCHANGED <<samplingVars, tool, requestOf, approved, aborting, approvalVars,
                   interrupt>>

(* The sandbox denies the first attempt, and the policy allows to escalate *)
(* (when it does not, the call returns: CommandEnds).                      *)
Escalate(c) ==
    /\ Go(c, "running", CASE c \in approved -> "escalated"
                          [] c \notin approved /\ UsesStore(c) -> "checking"
                          [] OTHER -> "asking")
    /\ UNCHANGED <<samplingVars, tool, requestOf, approved, aborting, approvalVars,
                   interrupt>>

(* The registry refuses the payload for good, or the tool ends with a      *)
(* fatal error or a panic.                                                 *)
ToolFails(c) ==
    /\ \/ LockFree(c) /\ Go(c, "locking", "failed")
       \/ Go(c, "running", "failed") \/ Go(c, "escalated", "failed")
    /\ UNCHANGED <<samplingVars, tool, requestOf, approved, aborting, approvalVars,
                   interrupt>>

(* The select! over the whole call sees the token at any await: the call   *)
(* answers "aborted by user".                                              *)
ToolCancelled(c) ==
    /\ Cancelled
    /\ Busy(c)
    /\ CanRun(c)
    /\ pc' = [pc EXCEPT ![c] = "returned"]
    /\ UNCHANGED <<samplingVars, tool, requestOf, approved, aborting, approvalVars,
                   interrupt>>

(* The runtime drops an aborted call, and with it the lock that it holds. *)
ToolDropped(c) ==
    /\ c \in aborting
    /\ Busy(c)
    /\ pc' = [pc EXCEPT ![c] = "dropped"]
    /\ UNCHANGED <<samplingVars, tool, requestOf, approved, aborting, approvalVars,
                   interrupt>>

-----------------------------------------------------------------------------
(* The user, and the submission loop *)

LoopIdle == interrupt \in {"none", "aborted"}

(* The user answers each request once. *)
Answer(c, d) ==
    /\ LoopIdle
    /\ question[c] = "shown"
    /\ question' = [question EXCEPT ![c] = IF d \in Consents THEN "granted" ELSE "refused"]

(* Mutant: an answer of Abort is handed to the call as well. *)
NotifyApprovalAbortToo(c, d) ==
    /\ Answer(c, d)
    /\ Active /\ slot # NoCall
    /\ channel' = [channel EXCEPT ![slot] = d]
    /\ slot' = NoCall
    /\ UNCHANGED <<samplingVars, callVars, store, interrupt>>

(* notify_approval, from Op::ExecApproval and Op::PatchApproval: they name *)
(* the turn and not the call, and so does the sender they look for.        *)
NotifyApproval(c, d) ==
    /\ Answer(c, d)
    /\ d # "abort"
    /\ \/ /\ Active /\ slot # NoCall
          /\ channel' = [channel EXCEPT ![slot] = d]
          /\ slot' = NoCall
       \/ /\ ~ (Active /\ slot # NoCall)
          /\ UNCHANGED <<channel, slot>>
    /\ UNCHANGED <<samplingVars, callVars, store, interrupt>>

(* interrupt_task begins with take_all_running_tasks. *)
TakeTurn ==
    /\ interrupt' = IF Active THEN "taken" ELSE interrupt
    /\ IF Active THEN DropSlot ELSE UNCHANGED <<slot, channel>>

(* An answer of Abort interrupts the turn. *)
NotifyAbort(c) ==
    /\ Answer(c, "abort")
    /\ TakeTurn
    /\ UNCHANGED <<samplingVars, callVars, store>>

OpInterrupt ==
    /\ LoopIdle
    /\ Active
    /\ TakeTurn
    /\ UNCHANGED <<samplingVars, callVars, question, store>>

(* handle_task_abort: the token, and after the grace period the JoinHandle *)
CancelTurn ==
    /\ interrupt = "taken"
    /\ interrupt' = "cancelled"
    /\ UNCHANGED <<samplingVars, callVars, approvalVars>>

AbortTurn ==
    /\ interrupt = "cancelled"
    /\ interrupt' = "aborted"
    /\ UNCHANGED <<samplingVars, callVars, approvalVars>>

-----------------------------------------------------------------------------
SamplingStep ==
    \/ \E c \in Calls : Emit(c) \/ EmitNameless(c)
    \/ \E o \in {"completed", "failed", "aborted"} : StreamEnds(o)
    \/ StreamFails \/ NextRequest \/ EndTurn

DrainStep == DrainNext \/ DrainDone

OrchestratorStep(c) ==
    \/ LockAcquire(c) \/ Refuse(c) \/ CheckStore(c) \/ RequestApproval(c)
    \/ Decide(c) \/ StoreApproval(c)

CommandStep(c) == CommandEnds(c) \/ Escalate(c)

LoopStep == CancelTurn \/ AbortTurn

UserStep(c) == NotifyAbort(c) \/ \E d \in Answers : NotifyApproval(c, d)

Next ==
    \/ SamplingStep \/ DrainStep \/ TurnDropped
    \/ \E c \in Calls :
        \/ OrchestratorStep(c) \/ CommandStep(c) \/ ToolFails(c)
        \/ ToolCancelled(c) \/ ToolDropped(c)
        \/ UserStep(c)
    \/ LoopStep \/ OpInterrupt

Spec == Init /\ [][Next]_vars

(* What the runtime schedules by itself, whatever the model, the commands  *)
(* and the user do.                                                        *)
RuntimeFairness ==
    /\ WF_vars(DrainStep) /\ WF_vars(TurnDropped) /\ WF_vars(LoopStep)
    /\ \A c \in Calls :
        /\ WF_vars(OrchestratorStep(c))
        /\ WF_vars(ToolCancelled(c)) /\ WF_vars(ToolDropped(c))

(* The user answers what is asked, and the commands end. *)
EnvironmentFairness ==
    \A c \in Calls :
        /\ WF_vars(UserStep(c))
        /\ WF_vars(CommandStep(c))

FairSpec == Spec /\ RuntimeFairness

-----------------------------------------------------------------------------
(* A tool that does not support parallel calls is alone among the calls of *)
(* its request, from the approval to the end of the escalated attempt      *)
(* (tools/parallel.rs:81-85).                                              *)
ExclusiveAlone ==
    \A c, d \in Calls :
        c # d /\ Holds(c) /\ Holds(d) /\ requestOf[c] = requestOf[d] =>
            ~ tool[c].exclusive /\ ~ tool[d].exclusive

(* The user approved the key for the session, in the request of some call. *)
GrantedForSession(k) == \E c \in Calls : k \in tool[c].keys /\ channel[c] = "session"

(* A command that needs approval, and any attempt outside the sandbox that *)
(* the orchestrator makes after a denial, runs only with the user's        *)
(* consent: an answer that the call got, or one for each of its keys that  *)
(* lasts for the session (tools/orchestrator.rs:67, :132).                 *)
RunsWithConsent ==
    \A c \in Calls :
        (pc[c] = "running" /\ tool[c].asks) \/ pc[c] = "escalated" =>
            \/ channel[c] \in Consents
            \/ tool[c].keys # {} /\ \A k \in tool[c].keys : GrantedForSession(k)

(* A call whose error is logged and not recorded, or that has no id to     *)
(* answer it under                                                         *)
Unanswerable(c) == pc[c] \in {"failed", "nameless"}

(* The outputs that name a call follow the order of emission, and a call   *)
(* without one is in flight, was dropped with its request, failed with an  *)
(* error that only the log gets, or has no id: no retry, interruption or   *)
(* failure of another call leaves one without its output                   *)
(* (codex.rs:4604-4622, stream_events_utils.rs:95-124).                    *)
OutputsPaired ==
    /\ \A c \in Members(issued) :
        c \in Members(outputs) \cup Members(inFlight) \cup aborting \/ Unanswerable(c)
    /\ \A m, n \in DOMAIN outputs :
        m < n /\ outputs[m] # NoCall /\ outputs[n] # NoCall =>
            \E i, j \in DOMAIN issued :
                i < j /\ issued[i] = outputs[m] /\ issued[j] = outputs[n]

(* A call that nobody waits for any more, because its request failed or    *)
(* its turn was dropped, ends, and so does a call of an interrupted turn:  *)
(* though the user never answers and the command never ends                *)
(* (tools/parallel.rs:72-76).                                              *)
AbandonedCallsEnd ==
    \A c \in Calls :
        /\ (Busy(c) /\ c \notin Members(inFlight)) ~> ~ Busy(c)
        /\ (Busy(c) /\ interrupt # "none") ~> ~ Busy(c)


(* "User has approved this command and the agent should execute it"        *)
(* (protocol/src/protocol.rs:2326): a call does not get an approval that   *)
(* the user did not give to its request.                                   *)
ApprovedByUser ==
    \A c \in Calls : channel[c] \in Consents => question[c] = "granted"
=============================================================================
