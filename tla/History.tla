-------------------------------- MODULE History --------------------------------
(***************************************************************************)
(* The conversation of a session: the items in memory that prompts are made *)
(* of (ContextManager) and the rollout they are replayed from.  Appending   *)
(* takes the state lock; rollback, undo and compaction clone the items, go  *)
(* on without the lock, and replace them.                                   *)
(*                                                                          *)
(* Five actors change the conversation beside each other: the submission    *)
(* loop, the task of the turn, a task that has left its turn and records    *)
(* the input nobody pulled, the detached ghost snapshot, and the detached   *)
(* shell command of the user.  Each records in memory first and hands the   *)
(* entry to the rollout in a later step.                                    *)
(*                                                                          *)
(* Every reader of a rollout goes through its entries once, in order, so    *)
(* the rollout is kept as what each reader holds after the entries so far:  *)
(* a resume (items), a client of the app server (turns) and a fork before   *)
(* the nth message (forks).                                                 *)
(***************************************************************************)
EXTENDS Naturals, Sequences, FiniteSets, SequencesExt

CONSTANTS
    MaxUsers,       \* messages of the user
    MaxEvents,      \* messages, snapshots, tool calls, rollbacks, undos, compactions,
                    \* restarts and what happens beside the turns, together
    MaxBeside       \* of these, warnings, commands of the user, notes and reviews
                    \* (a review counts twice)

ASSUME ConstantsAssumption == {MaxUsers, MaxEvents, MaxBeside} \subseteq Nat

VARIABLES
    items,      \* ContextManager.items
    rollout,    \* what its readers hold after the entries handed to the recorder
    unsaved,    \* per actor: entries in memory it has still to hand over
    seeded,     \* SessionState.initial_context_seeded
    turn,       \* the active turn: kind of task and where it stands
    pending,    \* TurnState.pending_input
    left,       \* the input a task that left its turn still has to record
    loop,       \* where the submission loop stands
    ghost,      \* the ghost snapshot under way
    aside,      \* the command of the user that runs beside the turns
    copy,       \* the clone a rollback, an undo or a compaction works on
    sent,       \* messages the user has sent
    events,     \* how many of MaxEvents have happened
    beside,     \* how many of MaxBeside have happened
    torn,       \* memory and rollout were left apart (history)
    late,       \* user messages recorded after their turn was over (history)
    odd         \* what sets clients and model apart by design (history)

vars == <<items, rollout, unsaved, seeded, turn, pending, left, loop, ghost, aside, copy,
          sent, events, beside, torn, late, odd>>

counts == <<sent, events, beside>>

Kinds == {"context", "user", "summary", "agent", "draft", "call", "output",
          "ghost", "compaction", "aside"}
Item == [k : Kinds, n : Nat]
Context == [k |-> "context", n |-> 0]
Summary == [k |-> "summary", n |-> 0]
User(n) == [k |-> "user", n |-> n]

(* The output of a shell command of the user, the note about a saved approval: *)
(* recorded beside a turn, and no boundary.                                    *)
Aside == [k |-> "aside", n |-> 0]

(* A message in the role of the user that nobody sent: the warning of a tool, *)
(* the outcome of a review.                                                   *)
Unasked == User(0)

Entry(k) == [type |-> "item", item |-> k]
UserEvent(n) == [type |-> "user_event", n |-> n]
RolledBack(n) == [type |-> "rolled_back", n |-> n]
Compacted == [type |-> "compacted"]
CompactedTo(s) == [type |-> "replaced", by |-> s]

Actors == {"loop", "task", "left", "ghost", "aside"}
NoTurn == [kind |-> "none", pc |-> "none", n |-> 0, back |-> "none"]
NoGhost == [n |-> 0, cancelled |-> FALSE]
--------------------------------------------------------------------------------
(* Operators on the items. *)

Keep(s, S) == FlattenSeq([m \in DOMAIN s |-> IF s[m] \in S THEN <<s[m]>> ELSE << >>])
Only(s, kinds) == Keep(s, {i \in ToSet(s) : i.k \in kinds})
Without(s, kinds) == Only(s, Kinds \ kinds)

(* is_user_turn_boundary: messages of role user that are not a prefix, so the *)
(* summary of a compaction too.                                               *)
Boundaries(s) == {n \in DOMAIN s : s[n].k \in {"user", "summary"}}
NthBoundary(s, m) ==
    CHOOSE b \in Boundaries(s) : Cardinality({c \in Boundaries(s) : c < b}) = m

DropLastTurns(s, n) ==
    LET count == Cardinality(Boundaries(s))
    IN  IF count = 0 \/ n = 0 THEN s
        ELSE SubSeq(s, 1, NthBoundary(s, IF n < count THEN count - n ELSE 0) - 1)

(* build_compacted_history: the context, the messages of the user without *)
(* earlier summaries, the new summary.                                    *)
CompactLocal(s) == <<Context>> \o Only(s, {"user"}) \o <<Summary>>

(* process_compacted_history: the server's transcript, with the context *)
(* put back before the last message of the user.                        *)
CompactRemote(kept) ==
    LET all == kept \o <<[k |-> "compaction", n |-> 0]>>
        last == SelectLastInSeq(all, LAMBDA i : i.k \in {"user", "summary"})
    IN  IF last = 0 THEN Append(all, Context) ELSE InsertAt(all, last, Context)

(* ensure_call_outputs_present and remove_orphan_outputs, then the ghosts go. *)
HasItem(s, k, n) == \E m \in DOMAIN s : s[m] = [k |-> k, n |-> n]
CompletedNever(s) == s   \* mutant: a missing output stays missing
Completed(s) ==
    FlattenSeq([m \in DOMAIN s |->
        IF s[m].k = "call" /\ ~ HasItem(s, "output", s[m].n)
        THEN <<s[m], [k |-> "output", n |-> s[m].n]>> ELSE <<s[m]>>])
NoOrphans(s) ==
    Keep(s, {i \in ToSet(s) : i.k = "output" => HasItem(s, "call", i.n)})
ForPrompt(s) == Without(NoOrphans(Completed(s)), {"ghost"})

(* remove_first_item, with the other half of a call that it breaks. *)
Trimmed(s) ==
    LET mate == CASE Head(s).k = "call" -> [Head(s) EXCEPT !.k = "output"]
                  [] Head(s).k = "output" -> [Head(s) EXCEPT !.k = "call"]
                  [] OTHER -> Head(s)
    IN  IF mate # Head(s) THEN RemoveFirst(Tail(s), mate) ELSE Tail(s)

(* The readers of the rollout.  A rollback drops the last n of what they have. *)
DropLast(s, n) == SubSeq(s, 1, IF n < Len(s) THEN Len(s) - n ELSE 0)

(* Mutant: a resume ignores the markers of rollbacks. *)
ResumedUnrolled(s, e) ==
    CASE e.type = "item" -> Append(s, e.item)
      [] e.type = "compacted" -> CompactLocal(s)
      [] e.type = "replaced" -> e.by
      [] OTHER -> s

(* reconstruct_history_from_rollout *)
Resumed(s, e) ==
    CASE e.type = "item" -> Append(s, e.item)
      [] e.type = "compacted" -> CompactLocal(s)
      [] e.type = "replaced" -> e.by
      [] e.type = "rolled_back" -> DropLastTurns(s, e.n)
      [] OTHER -> s

(* build_turns_from_event_msgs: turns are named by their user message. *)
ClientTurns(s, e) ==
    CASE e.type = "user_event" -> Append(s, e.n)
      [] e.type = "rolled_back" -> DropLast(s, e.n)
      [] OTHER -> s

(* Mutant: the positions of messages that were rolled back still count. *)
ForksUnrolled(s, e, before) ==
    IF e.type = "item" /\ e.item.k \in {"user", "summary"} THEN Append(s, before) ELSE s

(* truncate_rollout_before_nth_user_message_from_start: what a fork that is cut *)
(* before each message would resume with.                                       *)
Forks(s, e, before) ==
    CASE e.type = "item" /\ e.item.k \in {"user", "summary"} -> Append(s, before)
      [] e.type = "rolled_back" -> DropLast(s, e.n)
      [] OTHER -> s

Read(r, e) ==
    [items |-> Resumed(r.items, e), turns |-> ClientTurns(r.turns, e),
     forks |-> Forks(r.forks, e, r.items)]
--------------------------------------------------------------------------------
(* Recording: in memory, then in the rollout. *)

Idle(a) == unsaved[a] = << >>
AllSaved == \A a \in Actors : Idle(a)

(* Another actor's message waits for the rollout: the two orders may differ. *)
Overlaps(a) ==
    \E b \in Actors \ {a, "ghost"} : a # "ghost" /\ ~ Idle(b)

Record(a, i, then) ==
    /\ items' = Append(items, i)
    /\ unsaved' = [unsaved EXCEPT ![a] = <<Entry(i)>> \o then]
    /\ torn' = (torn \/ Overlaps(a))

(* replace_history with what became of the clone; what others appended since *)
(* the clone is overwritten.                                                 *)
Overwritten == SubSeq(items, Len(copy) + 1, Len(items))
Replace(a, s, entries) ==
    /\ items' = s
    /\ unsaved' = [unsaved EXCEPT ![a] = entries]
    /\ torn' = (torn \/ Overlaps(a) \/ Without(Overwritten, {"ghost"}) # << >>)
    /\ copy' = << >>

Init ==
    /\ items = <<Context>>
    /\ rollout = [items |-> <<Context>>, turns |-> << >>, forks |-> << >>]
    /\ unsaved = [a \in Actors |-> << >>]
    /\ seeded = TRUE
    /\ turn = NoTurn
    /\ pending = << >>
    /\ left = << >>
    /\ loop = [pc |-> "idle", n |-> 0]
    /\ ghost = NoGhost
    /\ aside = "none"
    /\ copy = << >>
    /\ sent = 0
    /\ events = 0
    /\ beside = 0
    /\ torn = FALSE
    /\ late = {}
    /\ odd = {}

Save(a) ==
    /\ ~ Idle(a)
    /\ rollout' = Read(rollout, Head(unsaved[a]))
    /\ unsaved' = [unsaved EXCEPT ![a] = Tail(@)]
    /\ ghost' = IF a = "ghost" THEN NoGhost ELSE ghost
    /\ UNCHANGED <<items, seeded, turn, pending, left, loop, aside, copy, counts,
                   torn, late, odd>>
--------------------------------------------------------------------------------
(* The submission loop. *)

LoopFree == loop.pc = "idle" /\ Idle("loop")
NewUser == sent + 1
Send == /\ sent < MaxUsers /\ sent' = sent + 1
        /\ events < MaxEvents /\ events' = events + 1
        /\ UNCHANGED beside
Spend == /\ events < MaxEvents /\ events' = events + 1
         /\ UNCHANGED <<sent, beside>>
SpendBeside(cost) == /\ beside < MaxBeside /\ beside' = beside + 1
                     /\ events + cost <= MaxEvents /\ events' = events + cost
                     /\ UNCHANGED sent

(* A message for the active turn, whatever its task, waits to be pulled (one *)
(* at a time, here).                                                         *)
OpSteer ==
    /\ LoopFree
    /\ turn # NoTurn
    /\ pending = << >>
    /\ Send
    /\ pending' = <<User(NewUser)>>
    /\ UNCHANGED <<items, rollout, unsaved, seeded, turn, left, loop, ghost, aside,
                   copy, torn, late, odd>>

(* Without a turn: first the context that a resumed thread still lacks, *)
(* then the task.                                                       *)
OpSeed ==
    /\ LoopFree
    /\ turn = NoTurn
    /\ events < MaxEvents
    /\ ~ seeded
    /\ seeded' = TRUE
    /\ Record("loop", Context, << >>)
    /\ loop' = [pc |-> "spawning", n |-> 0]
    /\ UNCHANGED <<rollout, turn, pending, left, ghost, aside, copy, counts, late, odd>>

OpUserTurn ==
    /\ loop \in [pc : {"idle", "spawning"}, n : {0}]
    /\ Idle("loop")
    /\ turn = NoTurn
    /\ seeded
    /\ Send
    /\ turn' = [NoTurn EXCEPT !.kind = "regular", !.pc = "start", !.n = NewUser]
    /\ loop' = [pc |-> "idle", n |-> 0]
    /\ UNCHANGED <<items, rollout, unsaved, seeded, pending, left, ghost, aside, copy,
                   torn, late, odd>>

(* An abort drops the task at its await, its clone and what it had not handed *)
(* over; the snapshot of the turn is cancelled, the pending input forgotten.  *)
Abort ==
    /\ pending' = << >>
    /\ copy' = IF turn = NoTurn THEN copy ELSE << >>
    /\ ghost' = IF ghost.n = turn.n /\ turn.n # 0
                THEN [ghost EXCEPT !.cancelled = TRUE] ELSE ghost
    /\ unsaved' = [unsaved EXCEPT !["task"] = << >>]
    /\ torn' = (torn \/ ~ Idle("task"))

(* spawn_task aborts the task that runs. *)
OpTask(kind) ==
    /\ loop.pc \in {"idle", "spawning"}
    /\ Idle("loop")
    /\ turn.kind # "review"
    /\ seeded
    /\ IF kind = "review" THEN SpendBeside(2) ELSE Spend
    /\ Abort
    /\ turn' = [NoTurn EXCEPT !.kind = kind, !.pc = "start"]
    /\ loop' = [pc |-> "idle", n |-> 0]
    /\ UNCHANGED <<items, rollout, seeded, left, aside, late, odd>>

(* A review that is aborted, here by a task that replaces it (n = 1: input of *)
(* the user would be steered), exits first.                                   *)
OpReplaceReview ==
    /\ LoopFree
    /\ turn.kind = "review"
    /\ events < MaxEvents
    /\ Abort
    /\ turn' = NoTurn
    /\ loop' = [pc |-> "leaving", n |-> 1]
    /\ UNCHANGED <<items, rollout, seeded, left, aside, counts, late, odd>>

OpInterrupt ==
    /\ LoopFree
    /\ turn # NoTurn
    /\ Abort
    /\ turn' = NoTurn
    /\ loop' = [pc |-> IF turn.kind = "review" THEN "leaving" ELSE "marking", n |-> 0]
    /\ UNCHANGED <<items, rollout, seeded, left, aside, counts, late, odd>>

(* exit_review_mode, as ReviewTask::abort. *)
LoopExitReview ==
    /\ loop.pc = "leaving" /\ Idle("loop")
    /\ Record("loop", Unasked, << >>)
    /\ loop' = [loop EXCEPT !.pc = IF loop.n = 1 THEN "spawning" ELSE "marking"]
    /\ odd' = odd \cup {"unasked"}
    /\ UNCHANGED <<rollout, seeded, turn, pending, left, ghost, aside, copy, counts,
                   late>>

(* handle_task_abort leaves a marker behind, which is not a turn boundary. *)
LoopMark ==
    /\ loop.pc = "marking" /\ Idle("loop")
    /\ Record("loop", Context, << >>)
    /\ loop' = [pc |-> "idle", n |-> 0]
    /\ UNCHANGED <<rollout, seeded, turn, pending, left, ghost, aside, copy, counts,
                   late, odd>>

(* exec_approval notes the saved prefix beside the turn that asked. *)
OpNote ==
    /\ LoopFree
    /\ turn # NoTurn
    /\ SpendBeside(1)
    /\ loop' = [pc |-> "noting", n |-> 0]
    /\ UNCHANGED <<items, rollout, unsaved, seeded, turn, pending, left, ghost, aside,
                   copy, torn, late, odd>>

LoopNote ==
    /\ loop.pc = "noting" /\ Idle("loop")
    /\ Record("loop", Aside, << >>)
    /\ loop' = [pc |-> "idle", n |-> 0]
    /\ UNCHANGED <<rollout, seeded, turn, pending, left, ghost, aside, copy, counts,
                   late, odd>>

(* A shell command of the user beside a turn runs detached (one at a time, *)
(* here).                                                                  *)
OpShell ==
    /\ LoopFree
    /\ turn # NoTurn
    /\ aside = "none" /\ Idle("aside")
    /\ SpendBeside(1)
    /\ aside' = "running"
    /\ UNCHANGED <<items, rollout, unsaved, seeded, turn, pending, left, loop, ghost,
                   copy, torn, late, odd>>

(* Mutant: a rollback beside a turn. *)
OpRollbackAnyTime(n) ==
    /\ LoopFree
    /\ Spend
    /\ copy' = items
    /\ loop' = [pc |-> "rolling", n |-> n]
    /\ UNCHANGED <<items, rollout, unsaved, seeded, turn, pending, left, ghost, aside,
                   torn, late, odd>>

(* thread_rollback: refused for 0 turns or beside a turn. *)
OpRollback(n) ==
    /\ LoopFree
    /\ turn = NoTurn
    /\ Spend
    /\ copy' = items
    /\ loop' = [pc |-> "rolling", n |-> n]
    /\ UNCHANGED <<items, rollout, unsaved, seeded, turn, pending, left, ghost, aside,
                   torn, late, odd>>

RollbackReplace ==
    /\ loop.pc = "rolling"
    /\ Replace("loop", DropLastTurns(copy, loop.n), <<RolledBack(loop.n)>>)
    /\ loop' = [pc |-> "idle", n |-> 0]
    /\ UNCHANGED <<rollout, seeded, turn, pending, left, ghost, aside, counts, late,
                   odd>>
--------------------------------------------------------------------------------
(* The task of a regular turn. *)

TaskAt(kind, pcs) == turn.kind = kind /\ turn.pc \in pcs /\ Idle("task")
Goto(pc) == turn' = [turn EXCEPT !.pc = pc]

TaskPrompt ==
    /\ TaskAt("regular", {"start"})
    /\ Record("task", User(turn.n), <<UserEvent(turn.n)>>)
    /\ Goto("prompted")
    /\ UNCHANGED <<rollout, seeded, pending, left, loop, ghost, aside, copy, counts,
                   late, odd>>

(* maybe_start_ghost_snapshot; one snapshot under way is enough to model. *)
TaskSnapshot ==
    /\ TaskAt("regular", {"prompted"})
    /\ ghost = NoGhost
    /\ Spend
    /\ ghost' = [n |-> turn.n, cancelled |-> FALSE]
    /\ Goto("top")
    /\ UNCHANGED <<items, rollout, unsaved, seeded, pending, left, loop, aside, copy,
                   torn, late, odd>>

(* The top of the loop: first, after the output of a call, after a stream   *)
(* error that leaves a call without its output, or because input came.      *)
Top == {"prompted", "top", "called", "answered"}

(* Mutant: pulled input is recorded without its event. *)
TaskPullSilent ==
    /\ TaskAt("regular", Top \cup {"said"})
    /\ pending # << >>
    /\ Record("task", Head(pending), << >>)
    /\ pending' = << >>
    /\ Goto("top")
    /\ UNCHANGED <<rollout, seeded, left, loop, ghost, aside, copy, counts, late,
                   odd>>

(* The output of a command is no turn item. *)
Announced(i) == IF i.k = "user" THEN <<UserEvent(i.n)>> ELSE << >>
TaskPull ==
    /\ TaskAt("regular", (Top \ {"called"}) \cup {"said"})
    /\ pending # << >>
    /\ Record("task", Head(pending), Announced(Head(pending)))
    /\ pending' = << >>
    /\ Goto("top")
    /\ UNCHANGED <<rollout, seeded, left, loop, ghost, aside, copy, counts, late,
                   odd>>

TaskCall ==
    /\ TaskAt("regular", Top)
    /\ Spend
    /\ Record("task", [k |-> "call", n |-> events + 1], << >>)
    /\ Goto("called")
    /\ UNCHANGED <<rollout, seeded, pending, left, loop, ghost, aside, copy, late,
                   odd>>

(* record_model_warning: apply_patch through exec_command, too many processes. *)
TaskWarn ==
    /\ TaskAt("regular", {"called"})
    /\ SpendBeside(1)
    /\ Record("task", Unasked, << >>)
    /\ odd' = odd \cup {"unasked"}
    /\ UNCHANGED <<rollout, seeded, turn, pending, left, loop, ghost, aside, copy, late>>

TaskOutput ==
    /\ TaskAt("regular", {"called"})
    /\ LET call == items[SelectLastInSeq(items, LAMBDA i : i.k = "call")]
       IN  Record("task", [call EXCEPT !.k = "output"], << >>)
    /\ Goto("answered")
    /\ UNCHANGED <<rollout, seeded, pending, left, loop, ghost, aside, copy, counts,
                   late, odd>>

TaskAgent ==
    /\ TaskAt("regular", Top)
    /\ Record("task", [k |-> "agent", n |-> turn.n], << >>)
    /\ Goto("said")
    /\ UNCHANGED <<rollout, seeded, pending, left, loop, ghost, aside, copy, counts,
                   late, odd>>

(* The turn ends: the model has no more to say, or an error.  on_task_finished *)
(* removes it with the input nobody pulled, which is recorded afterwards,      *)
(* beside whatever comes next.                                                 *)
TaskFinish ==
    /\ turn.pc \in {"start", "prompted", "top", "called", "answered", "said", "local",
                    "remote", "restoring", "done"}
    /\ turn.kind = "review" => turn.pc = "done"
    /\ Idle("task")
    /\ pending # << >> => left = << >> /\ Idle("left")
    /\ turn' = NoTurn
    /\ copy' = << >>
    /\ pending' = << >>
    /\ left' = IF pending # << >> THEN pending ELSE left
    /\ UNCHANGED <<items, rollout, unsaved, seeded, loop, ghost, aside, counts, torn,
                   late, odd>>

LeftRecord ==
    /\ left # << >>
    /\ LET i == Head(left) IN
          /\ Record("left", i, << >>)
          /\ late' = IF i.k = "user" THEN late \cup {i.n} ELSE late
          /\ odd' = IF i.k = "user" THEN odd \cup {"late"} ELSE odd
    /\ left' = << >>
    /\ UNCHANGED <<rollout, seeded, turn, pending, loop, ghost, aside, copy, counts>>

(* The removal dropped the handle that aborts this very task. *)
LeftDrop ==
    /\ left # << >> \/ ~ Idle("left")
    /\ left' = << >>
    /\ unsaved' = [unsaved EXCEPT !["left"] = << >>]
    /\ torn' = (torn \/ ~ Idle("left"))
    /\ UNCHANGED <<items, rollout, seeded, turn, pending, loop, ghost, aside, copy,
                   counts, late, odd>>

GhostRecord ==
    /\ ghost # NoGhost /\ Idle("ghost")
    /\ Record("ghost", [k |-> "ghost", n |-> ghost.n], << >>)
    /\ UNCHANGED <<rollout, seeded, turn, pending, left, loop, ghost, aside, copy,
                   counts, late, odd>>

(* It fails, or was cancelled with its turn. *)
GhostEnds ==
    /\ ghost # NoGhost
    /\ ghost.cancelled \/ Idle("ghost")
    /\ ghost' = NoGhost
    /\ unsaved' = [unsaved EXCEPT !["ghost"] = << >>]
    /\ UNCHANGED <<items, rollout, seeded, turn, pending, left, loop, aside, copy,
                   counts, torn, late, odd>>

(* The command ends: its output waits in the active turn to be pulled, or is *)
(* recorded when there was none.  By then the next turn may have begun.      *)
AsideInject ==
    /\ aside = "running"
    /\ turn # NoTurn
    /\ pending = << >>
    /\ pending' = <<Aside>>
    /\ aside' = "none"
    /\ UNCHANGED <<items, rollout, unsaved, seeded, turn, left, loop, ghost, copy,
                   counts, torn, late, odd>>

AsideRefused ==
    /\ aside = "running"
    /\ turn = NoTurn
    /\ aside' = "refused"
    /\ UNCHANGED <<items, rollout, unsaved, seeded, turn, pending, left, loop, ghost,
                   copy, counts, torn, late, odd>>

AsideRecord ==
    /\ aside = "refused" /\ Idle("aside")
    /\ Record("aside", Aside, << >>)
    /\ aside' = "none"
    /\ UNCHANGED <<rollout, seeded, turn, pending, left, loop, ghost, copy, counts,
                   late, odd>>
--------------------------------------------------------------------------------
(* The task of a review. *)

(* process_review_events hands on what the child tells its own user, the prompt *)
(* of the review too: a turn of the client that is in the rollout alone.        *)
ReviewAsk ==
    /\ TaskAt("review", {"start"})
    /\ unsaved' = [unsaved EXCEPT !["task"] = <<UserEvent(0)>>]
    /\ torn' = (torn \/ Overlaps("task"))
    /\ Goto("asked")
    /\ odd' = odd \cup {"unasked"}
    /\ UNCHANGED <<items, rollout, seeded, pending, left, loop, ghost, aside, copy,
                   counts, late>>

(* exit_review_mode at the end of the task; the child may not have started. *)
ReviewExit ==
    /\ TaskAt("review", {"start", "asked"})
    /\ Record("task", Unasked, << >>)
    /\ Goto("done")
    /\ odd' = odd \cup {"unasked"}
    /\ UNCHANGED <<rollout, seeded, pending, left, loop, ghost, aside, copy, counts,
                   late>>
--------------------------------------------------------------------------------
(* Compaction, as a task of its own or within a turn, and undo. *)

Ghosts(s) == Only(s, {"ghost"})

CompactBegin(remote) ==
    /\ Idle("task")
    /\ \/ turn.kind = "compact" /\ turn.pc = "start" /\ UNCHANGED counts
       \/ /\ turn.kind = "regular"
          /\ turn.pc \in {"start", "answered"} \/ (turn.pc = "said" /\ pending # << >>)
          /\ Spend
    /\ turn' = [turn EXCEPT !.pc = IF remote THEN "remote" ELSE "local",
                            !.back = CASE turn.kind = "compact" -> "done"
                                       [] turn.pc = "start" -> "start"
                                       [] OTHER -> "top"]
    /\ copy' = IF remote THEN items ELSE copy
    /\ UNCHANGED <<items, rollout, unsaved, seeded, pending, left, loop, ghost, aside,
                   torn, late, odd>>

(* drain_to_completed records what the model says in memory alone, once per *)
(* attempt; one of them is enough to model.                                 *)
CompactDraft ==
    /\ turn.pc = "local"
    /\ IF items = << >> THEN TRUE ELSE Last(items).k # "draft"
    /\ items' = Append(items, [k |-> "draft", n |-> 0])
    /\ UNCHANGED <<rollout, unsaved, seeded, turn, pending, left, loop, ghost, aside,
                   copy, counts, torn, late, odd>>

CompactSnapshot ==
    /\ turn.pc = "local"
    /\ copy' = items
    /\ Goto("compacting")
    /\ UNCHANGED <<items, rollout, unsaved, seeded, pending, left, loop, ghost, aside,
                   counts, torn, late, odd>>

CompactReplace ==
    /\ turn.pc = "compacting"
    /\ Replace("task", CompactLocal(copy) \o Ghosts(copy), <<Compacted>>)
    /\ Goto(turn.back)
    /\ odd' = odd \cup {"compacted"}
    /\ UNCHANGED <<rollout, seeded, pending, left, loop, ghost, aside, counts, late>>

(* The server keeps what it likes; the ghosts are those of the clone. *)
RemoteReplace(kept) ==
    /\ turn.pc = "remote"
    /\ LET new == CompactRemote(Only(copy, kept)) \o Ghosts(copy)
       IN  Replace("task", new, <<CompactedTo(new)>>)
    /\ Goto(turn.back)
    /\ odd' = odd \cup {"compacted"}
    /\ UNCHANGED <<rollout, seeded, pending, left, loop, ghost, aside, counts, late>>

UndoClone ==
    /\ TaskAt("undo", {"start"})
    /\ Ghosts(items) # << >>
    /\ Goto("restoring")
    /\ copy' = items
    /\ UNCHANGED <<items, rollout, unsaved, seeded, pending, left, loop, ghost, aside,
                   counts, torn, late, odd>>

(* The files are restored: the ghost goes, in memory alone. *)
UndoReplace ==
    /\ turn.pc = "restoring"
    /\ Replace("task", RemoveAt(copy, SelectLastInSeq(copy, LAMBDA i : i.k = "ghost")), << >>)
    /\ Goto("done")
    /\ UNCHANGED <<rollout, seeded, pending, left, loop, ghost, aside, counts, late,
                   odd>>

(* The process ends at any moment; the thread is resumed from the rollout. *)
Restart ==
    /\ Spend
    /\ items' = rollout.items
    /\ seeded' = FALSE
    /\ unsaved' = [a \in Actors |-> << >>]
    /\ turn' = NoTurn /\ pending' = << >> /\ left' = << >>
    /\ loop' = [pc |-> "idle", n |-> 0]
    /\ ghost' = NoGhost /\ aside' = "none" /\ copy' = << >>
    /\ torn' = FALSE
    /\ odd' = IF torn \/ ~ AllSaved THEN odd \cup {"torn"} ELSE odd
    /\ UNCHANGED <<rollout, late>>
--------------------------------------------------------------------------------
Replacing ==
    \/ RollbackReplace \/ CompactReplace \/ UndoReplace
    \/ \E kept \in {{"user", "summary"}, {"agent"}} : RemoteReplace(kept)

Next ==
    \/ \E a \in Actors : Save(a)
    \/ OpSteer \/ OpSeed \/ OpUserTurn \/ OpInterrupt \/ OpReplaceReview \/ OpShell
    \/ \E kind \in {"compact", "undo", "review"} : OpTask(kind)
    \/ \E n \in 1 .. 2 : OpRollback(n)
    \/ OpNote \/ LoopNote \/ LoopExitReview \/ LoopMark
    \/ TaskPrompt \/ TaskSnapshot \/ TaskPull \/ TaskCall \/ TaskWarn \/ TaskOutput
    \/ TaskAgent \/ TaskFinish
    \/ LeftRecord \/ LeftDrop \/ GhostRecord \/ GhostEnds
    \/ AsideInject \/ AsideRefused \/ AsideRecord
    \/ ReviewAsk \/ ReviewExit
    \/ \E remote \in BOOLEAN : CompactBegin(remote)
    \/ CompactDraft \/ CompactSnapshot \/ UndoClone
    \/ Replacing
    \/ Restart

Spec == Init /\ [][Next]_vars
--------------------------------------------------------------------------------
(* The ranges of the variables. *)
TypeOK ==
    /\ items \in Seq(Item)
    /\ rollout \in [items : Seq(Item), turns : Seq(Nat), forks : Seq(Seq(Item))]
    /\ DOMAIN unsaved = Actors /\ \A a \in Actors : Len(unsaved[a]) <= 2
    /\ turn.kind \in {"none", "regular", "compact", "undo", "review"}
    /\ turn = NoTurn => pending = << >>
    /\ loop.pc \in {"idle", "spawning", "rolling", "leaving", "marking", "noting"}
    /\ aside \in {"none", "running", "refused"}
    /\ copy \in Seq(Item)

(* What a session remembers is what a resume of it would remember, but for the *)
(* snapshots and the drafts of compactions: rollbacks and compactions replayed *)
(* over the rollout do what they did to the memory.  Where a task is dropped   *)
(* between memory and rollout, or two of them record or replace beside each    *)
(* other, it does not hold (torn).                                             *)
ReplayMatches ==
    AllSaved /\ ~ torn =>
        LET seen(s) == Without(s, {"ghost", "draft"}) IN seen(rollout.items) = seen(items)

(* Whatever was aborted, rolled back, compacted or trimmed, every call the   *)
(* model is shown is followed by its one output and every output has a call. *)
Paired(s) ==
    \A m \in DOMAIN s :
        /\ s[m].k = "call" =>
              Cardinality({o \in DOMAIN s : o > m /\ s[o] = [s[m] EXCEPT !.k = "output"]}) = 1
        /\ s[m].k = "output" => HasItem(s, "call", s[m].n)
PromptPaired ==
    /\ Paired(ForPrompt(items))
    /\ items # << >> => Paired(ForPrompt(Trimmed(items)))

(* The turns a client was told are those the model remembers, unless the two   *)
(* were told of different ones: by a boundary that is no turn of the client (a *)
(* summary, input recorded after its turn, the warning of a tool, the outcome  *)
(* of a review) or a turn of the client without one (what the child of a       *)
(* review was asked); or memory and rollout were torn apart.                   *)
TurnsAgree ==
    AllSaved /\ ~ torn /\ odd = {} =>
        LET users == Only(items, {"user"})
        IN  rollout.turns = [m \in DOMAIN users |-> users[m].n]

(* A fork before a message starts from exactly the conversation that preceded *)
(* it, rolled back turns left out, unless there was a compaction.             *)
ForkIsPrefix ==
    "compacted" \notin odd =>
        /\ Len(rollout.forks) = Cardinality(Boundaries(rollout.items))
        /\ \A n \in DOMAIN rollout.forks :
              LET first == NthBoundary(rollout.items, n - 1)
              IN  rollout.forks[n] = SubSeq(rollout.items, 1, first - 1)

(* Replacing the conversation by a changed clone overwrites nothing but what   *)
(* was recorded beside the turns: a late snapshot, the late input of a turn    *)
(* that is over, the output of a command that ended after its turn, the note   *)
(* about an approval.                                                          *)
OnlyLateLost ==
    [][Replacing =>
         \A i \in ToSet(Overwritten) :
             i.k \in {"ghost", "aside"} \/ (i.k = "user" /\ i.n \in late)]_vars
================================================================================
