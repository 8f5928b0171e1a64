------------------------------ MODULE AgentGuards ------------------------------
(***************************************************************************)
(* The slots of the agents that a session spawns: the counter and the set   *)
(* of registered threads of Guards, the threads the manager holds, and the  *)
(* tools spawn_agent, resume_agent, send_input and close_agent that change  *)
(* them.  The tools are exclusive within a sampling request and spawned     *)
(* agents have none of them, so one is under way at a time; an interrupt    *)
(* drops it at the await it stands at (that it may overlap the first tool   *)
(* of the next request until then is left out).  Beside it agents end, and  *)
(* the user removes and resumes threads through the manager, which knows    *)
(* nothing of the slots.                                                    *)
(***************************************************************************)
EXTENDS Naturals, FiniteSets

CONSTANTS
    Agents,         \* thread ids
    MaxThreads,     \* agent_max_threads
    MaxSurplus,     \* bound: registrations of a thread that still has its slot
    NoAgent

ASSUME ConstantsAssumption ==
    /\ IsFiniteSet(Agents) /\ NoAgent \notin Agents
    /\ MaxThreads \in Nat \ {0} /\ MaxSurplus \in Nat

VARIABLES
    total_count,    \* Guards.total_count
    threads_set,    \* Guards.threads_set
    threads,        \* ThreadManagerState.threads: who started the thread held there
    live,           \* threads of the manager whose submission loop still runs
    files,          \* threads whose rollout a resume finds
    op,             \* the tool under way: its thread and where it stands
    removed,        \* agents the user removed from the manager (history)
    surplus         \* registrations of a thread that still had its slot (history)

vars == <<total_count, threads_set, threads, live, files, op, removed, surplus>>

NoOp == [id |-> NoAgent, pc |-> "none"]
At(pc) == op.pc = pc
Goto(pc) == op' = [op EXCEPT !.pc = pc]
Reserved == IF At("spawning") \/ At("resuming") THEN 1 ELSE 0

Init ==
    /\ total_count = 0
    /\ threads_set = {}
    /\ threads = [a \in Agents |-> "none"]
    /\ live = {}
    /\ files = {}
    /\ op = NoOp
    /\ removed = {}
    /\ surplus = 0
--------------------------------------------------------------------------------
(* Guards. *)

(* Mutant: the limit is compared before this agent is counted. *)
TryIncrementPast == total_count <= MaxThreads /\ total_count' = total_count + 1

TryIncrement == total_count < MaxThreads /\ total_count' = total_count + 1

Release(a) ==
    /\ threads_set' = threads_set \ {a}
    /\ total_count' = IF a \in threads_set THEN total_count - 1 ELSE total_count
    /\ removed' = removed \ {a}

Commit(a) ==
    /\ threads_set' = threads_set \cup {a}
    /\ surplus' = IF a \in threads_set THEN surplus + 1 ELSE surplus
    /\ removed' = removed \ {a}
--------------------------------------------------------------------------------
(* spawn_agent and resume_agent *)

New(a) == a \notin files /\ threads[a] = "none" /\ a \notin threads_set

Spawn(a) ==
    /\ op = NoOp
    /\ New(a)
    /\ TryIncrement
    /\ op' = [id |-> a, pc |-> "spawning"]
    /\ UNCHANGED <<threads_set, threads, live, files, removed, surplus>>

(* get_status is NotFound; the rollout is looked up in later steps. *)
ResumeLook(a) ==
    /\ op = NoOp
    /\ threads[a] = "none"
    /\ surplus < MaxSurplus
    /\ op' = [id |-> a, pc |-> "looked"]
    /\ UNCHANGED <<total_count, threads_set, threads, live, files, removed, surplus>>

ResumeReserve ==
    /\ At("looked")
    /\ op.id \in files
    /\ TryIncrement
    /\ Goto("resuming")
    /\ UNCHANGED <<threads_set, threads, live, files, removed, surplus>>

(* The new thread enters the manager, whatever is there, and is registered: *)
(* no await comes between.  A spawn goes on to send the prompt.             *)
Started ==
    /\ At("spawning") \/ (At("resuming") /\ op.id \in files)
    /\ threads' = [threads EXCEPT ![op.id] = "agent"]
    /\ live' = live \cup {op.id}
    /\ files' = files \cup {op.id}
    /\ Commit(op.id)
    /\ IF At("spawning") THEN Goto("prompting") ELSE op' = NoOp
    /\ UNCHANGED total_count

(* Mutant: a failed start keeps its reservation. *)
StartFailsSilently ==
    /\ Reserved = 1
    /\ op' = NoOp
    /\ UNCHANGED <<total_count, threads_set, threads, live, files, removed, surplus>>

(* An error or an interrupt drops the SpawnReservation. *)
StartFails ==
    /\ Reserved = 1
    /\ total_count' = total_count - 1
    /\ op' = NoOp
    /\ UNCHANGED <<threads_set, threads, live, files, removed, surplus>>
--------------------------------------------------------------------------------
(* send_input and close_agent *)

SendInput(a) ==
    /\ op = NoOp
    /\ op' = [id |-> a, pc |-> "prompting"]
    /\ UNCHANGED <<total_count, threads_set, threads, live, files, removed, surplus>>

(* submit fails when the loop of the agent has ended. *)
Died ==
    /\ At("prompting")
    /\ threads[op.id] # "none" /\ op.id \notin live
    /\ Goto("removing")
    /\ UNCHANGED <<total_count, threads_set, threads, live, files, removed, surplus>>

(* The shutdown is queued; an agent whose status is Shutdown is left alone. *)
Close(a) ==
    /\ op = NoOp
    /\ threads[a] # "none" /\ a \in live
    /\ op' = [id |-> a, pc |-> "removing"]
    /\ UNCHANGED <<total_count, threads_set, threads, live, files, removed, surplus>>

(* remove_thread, then release_spawned_thread: two steps, no await between. *)
Remove ==
    /\ At("removing")
    /\ threads' = [threads EXCEPT ![op.id] = "none"]
    /\ live' = live \ {op.id}
    /\ Goto("releasing")
    /\ UNCHANGED <<total_count, threads_set, files, removed, surplus>>

(* Mutant: the thread is removed and its slot forgotten. *)
ReleaseSlotForgotten ==
    /\ At("releasing")
    /\ op' = NoOp
    /\ UNCHANGED <<total_count, threads_set, threads, live, files, removed, surplus>>

ReleaseSlot ==
    /\ At("releasing")
    /\ Release(op.id)
    /\ op' = NoOp
    /\ UNCHANGED <<threads, live, files, surplus>>

(* The tool returns, or is dropped at an await that holds no reservation. *)
Return ==
    /\ op.pc \in {"looked", "prompting", "removing"}
    /\ op' = NoOp
    /\ UNCHANGED <<total_count, threads_set, threads, live, files, removed, surplus>>
--------------------------------------------------------------------------------
(* Beside the tools. *)

AgentEnds(a) ==
    /\ a \in live
    /\ live' = live \ {a}
    /\ UNCHANGED <<total_count, threads_set, threads, files, op, removed, surplus>>

(* By thread/archive, or by leaving the thread in the terminal; neither *)
(* releases a slot.                                                     *)
UserRemoves(a) ==
    /\ threads[a] # "none"
    /\ threads' = [threads EXCEPT ![a] = "none"]
    /\ live' = live \ {a}
    /\ removed' = removed \cup {a}
    /\ UNCHANGED <<total_count, threads_set, files, op, surplus>>

(* thread/archive moves the rollout away, up to ten seconds after it removed *)
(* the thread from the manager, if it was there.                             *)
Archive(a) ==
    /\ a \in files
    /\ files' = files \ {a}
    /\ UNCHANGED <<total_count, threads_set, threads, live, op, removed, surplus>>

UserResumes(a) ==
    /\ a \in files
    /\ threads[a] = "none"
    /\ threads' = [threads EXCEPT ![a] = "user"]
    /\ live' = live \cup {a}
    /\ UNCHANGED <<total_count, threads_set, files, op, removed, surplus>>

ToolStep ==
    \/ \E a \in Agents : Spawn(a) \/ ResumeLook(a) \/ SendInput(a) \/ Close(a)
    \/ ResumeReserve \/ Started \/ StartFails
    \/ Died \/ Remove \/ ReleaseSlot \/ Return

Next ==
    \/ ToolStep
    \/ \E a \in Agents : AgentEnds(a) \/ UserRemoves(a) \/ Archive(a) \/ UserResumes(a)

Spec == Init /\ [][Next]_vars
--------------------------------------------------------------------------------
(* The ranges of the variables. *)
TypeOK ==
    /\ total_count \in Nat
    /\ threads_set \subseteq Agents
    /\ threads \in [Agents -> {"none", "agent", "user"}]
    /\ live \subseteq {a \in Agents : threads[a] # "none"}
    /\ files \subseteq Agents
    /\ op \in [id : Agents \cup {NoAgent},
               pc : {"none", "spawning", "looked", "resuming", "prompting", "removing",
                     "releasing"}]
    /\ op.id = NoAgent <=> op.pc = "none"
    /\ removed \subseteq Agents
    /\ surplus \in Nat

(* The counter is the registered threads, the reservation of a start under way *)
(* and the registrations that found their thread registered: it never wraps    *)
(* below zero when a slot is released or a start fails.                        *)
SlotAccounted == total_count = Cardinality(threads_set) + Reserved + surplus

(* However tools are dropped and threads come and go, no more than MaxThreads *)
(* agents of the session are in the manager or about to enter it.             *)
LimitHolds ==
    Cardinality({a \in Agents : threads[a] = "agent"}) + Reserved <= MaxThreads

(* A slot is held only for an agent in the manager, one whose removal is under *)
(* way, or one that the user removed behind the session's back.                *)
SlotsHeld ==
    \A a \in threads_set :
        threads[a] = "agent" \/ a \in removed \/ (At("releasing") /\ op.id = a)
================================================================================
