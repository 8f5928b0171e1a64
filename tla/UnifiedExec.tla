------------------------------ MODULE UnifiedExec ------------------------------
(***************************************************************************)
(* The background processes of a session: the table and the reserved ids   *)
(* of UnifiedExecProcessManager, the exec_command calls that open a process *)
(* and hand it to the table, the exit watchers, write_stdin polls, pruning  *)
(* and terminate_all_processes.                                             *)
(*                                                                          *)
(* The tool lock belongs to one sampling request (ToolCallRuntime::new):    *)
(* its exec_command calls hold it shared and run beside each other, its     *)
(* write_stdin holds it alone.  A request that is given up drops its calls, *)
(* each at an await, so they may run on beside the calls of the next one;   *)
(* how far is left open.  A call opens at most one process, so a process is *)
(* named by its call.                                                       *)
(***************************************************************************)
EXTENDS Naturals, FiniteSets, Functions

CONSTANTS
    Calls,          \* exec_command calls, and the processes they open
    Ids,            \* process ids: a small sample of the random range
    MaxProcesses,   \* MAX_UNIFIED_EXEC_PROCESSES
    Warning,        \* WARNING_UNIFIED_EXEC_PROCESSES
    Protected,      \* the most recently used entries pruning leaves alone
    NoCall

ASSUME ConstantsAssumption ==
    /\ IsFiniteSet(Calls) /\ IsFiniteSet(Ids)
    /\ NoCall \notin Calls
    /\ MaxProcesses \in Nat \ {0} /\ Warning \in Nat
    /\ Protected \in 0 .. MaxProcesses - 1

VARIABLES
    readers,    \* calls that hold the tool lock of the request, shared
    late,       \* calls of earlier requests that took their id under the write_stdin (history)
    pc,         \* where each exec_command call stands
    holds,      \* the id each call reserved
    reserved,   \* ProcessStore.reserved_process_ids
    table,      \* ProcessStore.processes: id -> process
    older,      \* <<c, d>>: c was last used before d (ProcessEntry.last_used)
    proc,       \* none, running, over: exited or terminated
    watcher,    \* the exit watcher of a process: none, waiting, finished
    ends,       \* ExecCommandEnd events sent for the call
    poll,       \* the running write_stdin of the request: its id and the process it reads
    cleared     \* calls whose id terminate_all_processes forgot (history)

locks == <<readers, late>>
vars == <<locks, pc, holds, reserved, table, older, proc, watcher, ends, poll, cleared>>

Places == {"idle", "reserved", "opened", "collecting", "warning", "done", "failed",
           "leaked", "cancelled"}
NoPoll == [id |-> NoCall, proc |-> NoCall]

(* An exec_command call between taking its id and returning. *)
InFlight(c) == pc[c] \in {"reserved", "opened", "collecting", "warning"}
Stored == Range(table)
(* A call that will still store a process under its id or release it. *)
NeedsId(c) == InFlight(c) /\ pc[c] # "warning"

Init ==
    /\ readers = {}
    /\ late = {}
    /\ pc = [c \in Calls |-> "idle"]
    /\ holds = [c \in Calls |-> NoCall]
    /\ reserved = {}
    /\ table = << >>
    /\ older = {}
    /\ proc = [c \in Calls |-> "none"]
    /\ watcher = [c \in Calls |-> "none"]
    /\ ends = [c \in Calls |-> 0]
    /\ poll = NoPoll
    /\ cleared = {}
--------------------------------------------------------------------------------
(* The store. *)

Without(i) == Restrict(table, DOMAIN table \ {i})

(* ProcessStore::remove takes the id out of both tables, whoever holds it. *)
Forget(i) ==
    /\ reserved' = reserved \ {i}
    /\ table' = Without(i)

(* Dropping the last reference to a process terminates it: the table, the *)
(* call that opened it and its watcher hold one each.                     *)
Orphans(tab) ==
    {c \in Calls : /\ proc[c] = "running"
                   /\ c \notin Range(tab)
                   /\ watcher[c] # "waiting"
                   /\ ~ InFlight(c)}
Over(cs) == [c \in Calls |-> IF c \in cs THEN "over" ELSE proc[c]]

(* The processes with a last use: those stored, or about to be. *)
Used == Stored \cup {c \in Calls : pc[c] = "collecting"}

(* The last use of a process is now. *)
Touch(c) == (older \cap ((Used \ {c}) \X (Used \ {c}))) \cup ((Used \ {c}) \X {c})

(* The stored processes used after c. *)
Newer(c) == {d \in Stored : <<c, d>> \in older}

(* Mutant: the list is sorted the wrong way round. *)
UnprotectedOldest ==
    {c \in Stored : Cardinality({d \in Stored : <<d, c>> \in older}) >= Protected}

(* process_id_to_prune_from_meta: never one of the most recently used; of *)
(* the others the oldest that has exited, else the oldest.                *)
Unprotected == {c \in Stored : Cardinality(Newer(c)) >= Protected}
Oldest(S) == {c \in S : \A d \in S \ {c} : <<c, d>> \in older}

Victim ==
    LET exited == {c \in Unprotected : proc[c] = "over"}
    IN  Oldest(IF exited # {} THEN exited ELSE Unprotected)

(* Mutant: room is made only once the table is over its limit. *)
PrunedTooLate == IF Cardinality(DOMAIN table) <= MaxProcesses THEN {} ELSE Victim

(* prune_processes_if_needed: what is pruned, and the ids of the rest. *)
Pruned == IF Cardinality(DOMAIN table) < MaxProcesses THEN {} ELSE Victim
Kept == {i \in DOMAIN table : table[i] \notin Pruned}

(* The table once a process is stored under the id of its call. *)
With(c) == [i \in Kept \cup {holds[c]} |-> IF i = holds[c] THEN c ELSE table[i]]
--------------------------------------------------------------------------------
(* exec_command: the handler and the manager. *)

(* The write_stdin is over. *)
EndPoll == poll' = NoPoll /\ late' = {}

(* The request is given up (its turn was interrupted or replaced), and the next *)
(* one starts with a lock of its own.  What still runs of the former is aborted, *)
(* and the response of its write_stdin goes to nobody.                          *)
NextRequest ==
    /\ poll # NoPoll \/ readers # {}
    /\ readers' = {}
    /\ EndPoll
    /\ UNCHANGED <<pc, holds, reserved, table, older, proc, watcher, ends, cleared>>

(* allocate_process_id: an id that is not reserved. *)
TakeId(c, i) ==
    /\ pc[c] = "idle"
    /\ i \notin reserved
    /\ reserved' = reserved \cup {i}
    /\ holds' = [holds EXCEPT ![c] = i]
    /\ pc' = [pc EXCEPT ![c] = "reserved"]
    /\ UNCHANGED <<table, older, proc, watcher, ends, poll, cleared>>

(* Mutant: write_stdin holds the tool lock shared, as exec_command does. *)
AllocateBeside(c, i) ==
    /\ TakeId(c, i)
    /\ readers' = readers \cup {c}
    /\ UNCHANGED late

(* A call of the request waits for a write_stdin, which holds the lock alone ... *)
Allocate(c, i) ==
    /\ poll = NoPoll
    /\ TakeId(c, i)
    /\ readers' = readers \cup {c}
    /\ UNCHANGED late

(* ... and one of an earlier request may get its own lock before it is dropped. *)
AllocateLate(c, i) ==
    /\ TakeId(c, i)
    /\ late' = IF poll = NoPoll THEN late ELSE late \cup {c}
    /\ UNCHANGED readers

(* The call returns: its guard is dropped. *)
Unlock(c) ==
    /\ readers' = readers \ {c}
    /\ UNCHANGED late

(* Mutant: the early returns keep the id. *)
GiveUpKeepsId(c) ==
    /\ pc[c] = "reserved"
    /\ pc' = [pc EXCEPT ![c] = "failed"]
    /\ Unlock(c)
    /\ UNCHANGED <<holds, reserved, table, older, proc, watcher, ends, poll, cleared>>

(* Escalation refused, a patch applied instead, or the process did not open: *)
(* the id is released.                                                       *)
GiveUp(c) ==
    /\ pc[c] = "reserved"
    /\ Forget(holds[c])
    /\ proc' = Over(Orphans(table'))
    /\ pc' = [pc EXCEPT ![c] = "failed"]
    /\ Unlock(c)
    /\ UNCHANGED <<holds, older, watcher, ends, poll, cleared>>

(* An error of intercept_apply_patch returns without releasing the id. *)
InterceptFails(c) ==
    /\ pc[c] = "reserved"
    /\ pc' = [pc EXCEPT ![c] = "leaked"]
    /\ Unlock(c)
    /\ UNCHANGED <<holds, reserved, table, older, proc, watcher, ends, poll, cleared>>

Open(c) ==
    /\ pc[c] = "reserved"
    /\ pc' = [pc EXCEPT ![c] = "opened"]
    /\ proc' = [proc EXCEPT ![c] = "running"]
    /\ UNCHANGED <<locks, holds, reserved, table, older, watcher, ends, poll, cleared>>

(* ExecCommandBegin, the streaming task, the start time. *)
Begin(c) ==
    /\ pc[c] = "opened"
    /\ pc' = [pc EXCEPT ![c] = "collecting"]
    /\ older' = Touch(c)
    /\ UNCHANGED <<locks, holds, reserved, table, proc, watcher, ends, poll, cleared>>

(* It has exited by the deadline: the call reports the end and releases the id. *)
ReportExit(c) ==
    /\ pc[c] = "collecting"
    /\ proc[c] = "over"
    /\ ends' = [ends EXCEPT ![c] = @ + 1]
    /\ Forget(holds[c])
    /\ proc' = Over(Orphans(table'))
    /\ pc' = [pc EXCEPT ![c] = "done"]
    /\ Unlock(c)
    /\ UNCHANGED <<holds, older, watcher, poll, cleared>>

(* Mutant: the id is released as after a short command. *)
StoreReleases(c) ==
    /\ pc[c] = "collecting"
    /\ proc[c] = "running"
    /\ table' = With(c)
    /\ reserved' = reserved \ ((DOMAIN table \ Kept) \cup {holds[c]})
    /\ proc' = Over(Pruned \cup (Orphans(table') \ {c}))
    /\ IF Cardinality(DOMAIN table') >= Warning
         THEN /\ pc' = [pc EXCEPT ![c] = "warning"]
              /\ UNCHANGED <<locks, watcher>>
         ELSE /\ pc' = [pc EXCEPT ![c] = "done"]
              /\ watcher' = [watcher EXCEPT ![c] = "waiting"]
              /\ Unlock(c)
    /\ UNCHANGED <<holds, older, ends, poll, cleared>>

(* Mutant: the watcher of a process stored above the warning limit starts *)
(* before the warning as well.                                            *)
StoreWatchesTwice(c) ==
    /\ pc[c] = "collecting"
    /\ proc[c] = "running"
    /\ table' = With(c)
    /\ reserved' = reserved \ (DOMAIN table \ Kept)
    /\ proc' = Over(Pruned \cup (Orphans(table') \ {c}))
    /\ pc' = [pc EXCEPT ![c] = IF Cardinality(DOMAIN table') >= Warning
                               THEN "warning" ELSE "done"]
    /\ watcher' = [watcher EXCEPT ![c] = "waiting"]
    /\ UNCHANGED <<locks, holds, older, ends, poll, cleared>>

(* Still running: store_process prunes and inserts under one lock.  The id *)
(* of the pruned entry is freed, that of the new one is not taken again.   *)
(* With few processes the watcher starts at once, else after the warning.  *)
Store(c) ==
    /\ pc[c] = "collecting"
    /\ proc[c] = "running"
    /\ table' = With(c)
    /\ reserved' = reserved \ (DOMAIN table \ Kept)
    /\ proc' = Over(Pruned \cup (Orphans(table') \ {c}))
    /\ IF Cardinality(DOMAIN table') >= Warning
         THEN /\ pc' = [pc EXCEPT ![c] = "warning"]
              /\ UNCHANGED <<locks, watcher>>
         ELSE /\ pc' = [pc EXCEPT ![c] = "done"]
              /\ watcher' = [watcher EXCEPT ![c] = "waiting"]
              /\ Unlock(c)
    /\ UNCHANGED <<holds, older, ends, poll, cleared>>

StartWatcher(c) ==
    /\ pc[c] = "warning"
    /\ pc' = [pc EXCEPT ![c] = "done"]
    /\ watcher' = [watcher EXCEPT ![c] = "waiting"]
    /\ Unlock(c)
    /\ UNCHANGED <<holds, reserved, table, older, proc, ends, poll, cleared>>

(* The turn is interrupted or replaced: the future is dropped where it stands. *)
Cancel(c) ==
    /\ InFlight(c)
    /\ pc' = [pc EXCEPT ![c] = "cancelled"]
    /\ proc' = IF c \notin Stored /\ proc[c] = "running"
               THEN [proc EXCEPT ![c] = "over"] ELSE proc
    /\ Unlock(c)
    /\ UNCHANGED <<holds, reserved, table, older, watcher, ends, poll, cleared>>
--------------------------------------------------------------------------------
(* Processes, watchers, write_stdin and termination. *)

Exit(c) ==
    /\ proc[c] = "running"
    /\ proc' = [proc EXCEPT ![c] = "over"]
    /\ UNCHANGED <<locks, pc, holds, reserved, table, older, watcher, ends, poll, cleared>>

(* The exit token is cancelled and the output is drained. *)
Watch(c) ==
    /\ watcher[c] = "waiting"
    /\ proc[c] = "over"
    /\ ends' = [ends EXCEPT ![c] = @ + 1]
    /\ watcher' = [watcher EXCEPT ![c] = "finished"]
    /\ UNCHANGED <<locks, pc, holds, reserved, table, older, proc, poll, cleared>>

(* prepare_process_handles, with the tool lock of the request alone: the last *)
(* use is now.                                                                *)
PollStart(i) ==
    /\ poll = NoPoll
    /\ readers = {}
    /\ i \in DOMAIN table
    /\ poll' = [id |-> i, proc |-> table[i]]
    /\ older' = Touch(table[i])
    /\ UNCHANGED <<locks, pc, holds, reserved, table, proc, watcher, ends, cleared>>

(* refresh_process_state: an exited process leaves the table. *)
Refresh(i) ==
    IF i \in DOMAIN table /\ proc[table[i]] = "over"
      THEN Forget(i) ELSE UNCHANGED <<reserved, table>>

PollRefresh ==
    /\ poll # NoPoll
    /\ Refresh(poll.id)
    /\ EndPoll
    /\ UNCHANGED <<readers, pc, holds, older, proc, watcher, ends, cleared>>

PollCancel ==
    /\ poll # NoPoll
    /\ EndPoll
    /\ UNCHANGED <<readers, pc, holds, reserved, table, older, proc, watcher, ends, cleared>>

(* What a write_stdin of an earlier request still does before it is dropped: *)
(* the last use, or the refresh.                                             *)
AbortedPoll(i) ==
    /\ i \in DOMAIN table
    /\ \/ older' = Touch(table[i]) /\ UNCHANGED <<reserved, table>>
       \/ Refresh(i) /\ UNCHANGED older
    /\ UNCHANGED <<locks, pc, holds, proc, watcher, ends, poll, cleared>>

(* After an interrupt, on the clean operation and at shutdown. *)
TerminateAll ==
    /\ reserved # {} \/ table # << >>
    /\ table' = << >>
    /\ reserved' = {}
    /\ proc' = Over(Stored \cup Orphans(<< >>))
    /\ cleared' = cleared \cup {c \in Calls : InFlight(c)}
    /\ UNCHANGED <<locks, pc, holds, older, watcher, ends, poll>>

ExecStep(c) ==
    \/ GiveUp(c) \/ InterceptFails(c) \/ Open(c) \/ Begin(c) \/ ReportExit(c)
    \/ Store(c) \/ StartWatcher(c) \/ Cancel(c)

Next ==
    \/ \E c \in Calls, i \in Ids : Allocate(c, i) \/ AllocateLate(c, i)
    \/ \E c \in Calls : ExecStep(c) \/ Exit(c) \/ Watch(c)
    \/ \E i \in Ids : PollStart(i) \/ AbortedPoll(i)
    \/ PollRefresh \/ PollCancel
    \/ NextRequest \/ TerminateAll

Spec == Init /\ [][Next]_vars
--------------------------------------------------------------------------------
(* The ranges of the variables. *)
TypeOK ==
    /\ readers \subseteq Calls /\ late \subseteq Calls
    /\ pc \in [Calls -> Places]
    /\ holds \in [Calls -> Ids \cup {NoCall}]
    /\ reserved \subseteq Ids
    /\ DOMAIN table \subseteq Ids /\ Stored \subseteq Calls
    /\ older \subseteq Calls \X Calls
    /\ proc \in [Calls -> {"none", "running", "over"}]
    /\ watcher \in [Calls -> {"none", "waiting", "finished"}]
    /\ ends \in [Calls -> Nat]
    /\ poll \in [id : Ids \cup {NoCall}, proc : Calls \cup {NoCall}]
    /\ cleared \subseteq Calls

(* A background process that runs can be reached by the id the model was *)
(* given (to write to it or to terminate it), unless an id was forgotten *)
(* under a call that then stored a process or released the id.           *)
Reachable ==
    \A c \in Calls :
        proc[c] = "running" /\ pc[c] = "done" =>
            \/ holds[c] \in DOMAIN table /\ table[holds[c]] = c
            \/ \E d \in cleared : holds[d] = holds[c]

(* An id is reserved for a call in flight or a stored process, or was lost *)
(* by a call that was cancelled or whose interception failed: nothing else *)
(* may use ids up.                                                         *)
IdsAccounted ==
    \A i \in reserved :
        \/ i \in DOMAIN table
        \/ \E c \in Calls : holds[c] = i /\ (InFlight(c) \/ pc[c] \in {"leaked", "cancelled"})

(* The end of a process is reported once, by its call or by its watcher, and *)
(* never lost: when its call has returned and it is over, the end was sent or *)
(* a watcher is about to send it.                                            *)
OneEnd ==
    \A c \in Calls :
        /\ ends[c] + (IF watcher[c] = "waiting" THEN 1 ELSE 0) <= 1
        /\ ends[c] = 1 => proc[c] = "over"
        /\ pc[c] = "done" => ends[c] = 1 \/ watcher[c] = "waiting"

(* write_stdin reads output, then looks the id up again: it does not report    *)
(* the state of another process than the one it read.  The tool lock keeps the *)
(* id from a call of the same request; left are an id that was forgotten under *)
(* a call, and one that the process lost and an aborted call of an earlier     *)
(* request took.  (The response of an aborted write_stdin goes to nobody.)     *)
PollSameProcess ==
    poll # NoPoll /\ poll.id \in DOMAIN table =>
        \/ table[poll.id] = poll.proc
        \/ table[poll.id] \in late
        \/ \E d \in cleared : holds[d] = poll.id

(* Pruning keeps the table within its limit, though a store spares the recently *)
(* used processes and runs beside other stores, polls and exits.                *)
TableBounded == Cardinality(DOMAIN table) <= MaxProcesses

(* Making room for a process spares the most recently used ones: one that was *)
(* running and is ended by a store had at least Protected more recent entries *)
(* beside it (two calls that share a forgotten id apart).                     *)
RecentKept ==
    [][\A c, d \in Calls :
         proc[c] = "running" /\ proc'[c] = "over"
             /\ c \in Stored /\ holds[c] # holds[d] /\ Store(d) =>
            Cardinality(Newer(c)) >= Protected]_vars
================================================================================
