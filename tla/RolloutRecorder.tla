--------------------------- MODULE RolloutRecorder ---------------------------
(***************************************************************************)
(* The rollout of one thread (codex-rs/core/src/rollout/recorder.rs): the  *)
(* recorder that the tasks of a session clone, the bounded channel behind  *)
(* it, the writer task that owns the file, and what a later session reads  *)
(* back from the file after the process has exited or was killed.          *)
(*                                                                         *)
(* Items are numbered in the order in which the channel accepts them.  A   *)
(* line of the file is the set of the records whose bytes it holds: it     *)
(* parses when it is one whole record.  A write that is cut short leaves   *)
(* an unterminated last line, which holds a piece of a record, or all of   *)
(* one when only the newline is missing; the next write continues it.  A   *)
(* piece that ends inside a character is no UTF-8, nor is the file then.   *)
(***************************************************************************)
EXTENDS Integers, Sequences, FiniteSets, SequencesExt, FiniteSetsExt

CONSTANTS
    Clients,        \* tasks that call the recorder
    MaxItems,       \* bound: items recorded over all sessions
    MaxBatch,       \* bound: items of one record_items
    MaxSessions,    \* bound: processes that open the thread
    QueueSize,      \* capacity of the mpsc channel (256 in the code)
    NoClient

ASSUME ClientsAssumption == NoClient \notin Clients
ASSUME BoundsAssumption == /\ MaxItems \in Nat /\ MaxBatch \in Nat
                           /\ MaxSessions \in Nat \ {0}
                           /\ QueueSize \in Nat \ {0}

Items == Nat \ {0}
Meta == 0               \* the SessionMeta record
Torn == -1              \* a piece of a record, cut between two characters
Split == -2             \* a piece of a record, cut inside a character
Pieces == {Torn, Split}
Records == {Meta} \cup Items

VARIABLES
    session,    \* processes so far
    base,       \* items accepted before this session
    sent,       \* items accepted by the channel
    taken,      \* items that the writer has received
    attached,   \* services.rollout is Some
    place,      \* where each client is
    request,    \* what it asks for
    queue,      \* the channel
    writer,     \* state of the writer task
    buffered,   \* buffered_items, while the file is deferred
    todo,       \* lines of the current command, to be written
    acker,      \* the client whose persist waits for them
    file,       \* the terminated lines of the file
    tail,       \* its unterminated last line
    flushed     \* items before a flush that returned Ok, once the file is open

clientVars == <<sent, attached, place, request, queue>>
diskVars == <<file, tail>>
writerVars == <<taken, writer, buffered, todo, acker>>
vars == <<session, base, clientVars, writerVars, diskVars, flushed>>

Kinds == {"add", "persist", "flush", "shutdown"}
Requests == [kind : Kinds, size : 0 .. MaxBatch]
Commands == [kind : Kinds, client : Clients, items : Seq(Items)]
Lines == SUBSET (Records \cup Pieces)

(* The ranges of the variables. *)
TypeOK ==
    /\ session \in 1 .. MaxSessions
    /\ base \in 0 .. sent /\ taken \in base .. sent /\ sent \in Nat
    /\ attached \in BOOLEAN
    /\ place \in [Clients -> {"idle", "sending", "awaiting"}]
    /\ request \in [Clients -> Requests]
    /\ queue \in Seq(Commands) /\ Len(queue) <= QueueSize
    /\ writer \in {"down", "deferred", "open", "gone"}
    /\ buffered \in Seq(Items)
    /\ todo \in Seq(Records)
    /\ acker \in Clients \cup {NoClient}
    /\ file \in Seq(Lines)
    /\ tail \in Lines
    /\ flushed \subseteq Items

Idle == [kind |-> "flush", size |-> 0]

(* A new thread: the file is not created before it is persisted. *)
Init ==
    /\ session = 1
    /\ base = 0 /\ sent = 0 /\ taken = 0
    /\ attached = TRUE
    /\ place = [c \in Clients |-> "idle"]
    /\ request = [c \in Clients |-> Idle]
    /\ queue = <<>>
    /\ writer = "deferred"
    /\ buffered = <<>> /\ todo = <<>> /\ acker = NoClient
    /\ file = <<>> /\ tail = {}
    /\ flushed = {}

-----------------------------------------------------------------------------
(* The clients *)

(* persist_rollout_items, ensure_rollout_materialized and flush_rollout    *)
(* clone the recorder under the lock and use it after.                     *)
Begin(c, kind, size) ==
    /\ attached
    /\ place[c] = "idle"
    /\ place' = [place EXCEPT ![c] = "sending"]
    /\ request' = [request EXCEPT ![c] = [kind |-> kind, size |-> size]]
    /\ UNCHANGED <<session, base, sent, attached, queue, writerVars, diskVars,
                   flushed>>

(* Items on their way into the channel: they count against MaxItems. *)
Sending == MapThenSumSet(LAMBDA d : IF place[d] = "sending" THEN request[d].size ELSE 0,
                         Clients)

RecordItems(c) ==
    \E n \in 1 .. MaxBatch : sent + Sending + n <= MaxItems /\ Begin(c, "add", n)
Persist(c) == Begin(c, "persist", 0)
Flush(c) == Begin(c, "flush", 0)

(* shutdown takes the recorder out of the session. *)
Shutdown(c) ==
    /\ attached
    /\ place[c] = "idle"
    /\ attached' = FALSE
    /\ place' = [place EXCEPT ![c] = "sending"]
    /\ request' = [request EXCEPT ![c] = [kind |-> "shutdown", size |-> 0]]
    /\ UNCHANGED <<session, base, sent, queue, writerVars, diskVars, flushed>>

(* Into the channel, when it has room.  A record is done then; the other   *)
(* calls wait for the writer.                                              *)
SendOk(c) ==
    LET r == request[c] IN
    /\ place[c] = "sending"
    /\ writer # "gone"
    /\ Len(queue) < QueueSize
    /\ queue' = Append(queue, [kind |-> r.kind, client |-> c,
                               items |-> [i \in 1 .. r.size |-> sent + i]])
    /\ sent' = sent + r.size
    /\ place' = [place EXCEPT ![c] = IF r.kind = "add" THEN "idle" ELSE "awaiting"]
    /\ UNCHANGED <<session, base, attached, request, writerVars, diskVars, flushed>>

(* The receiver is gone. *)
SendErr(c) ==
    /\ place[c] = "sending"
    /\ writer = "gone"
    /\ place' = [place EXCEPT ![c] = "idle"]
    /\ UNCHANGED <<session, base, sent, attached, request, queue, writerVars, diskVars,
                   flushed>>

-----------------------------------------------------------------------------
(* The writer task *)

Receive(kind) ==
    /\ writer \in {"deferred", "open"}
    /\ todo = <<>>
    /\ queue # <<>>
    /\ Head(queue).kind = kind

Received == (base + 1) .. taken

(* The ack lets the client return Ok. *)
Answered(c) == place' = [place EXCEPT ![c] = "idle"]

(* rollout_writer returns an error: the receiver is dropped, and with it   *)
(* the acks of all that is queued.                                         *)
Exit ==
    /\ writer' = "gone"
    /\ queue' = <<>> /\ buffered' = <<>> /\ todo' = <<>> /\ acker' = NoClient
    /\ place' = [c \in Clients |-> IF place[c] = "awaiting" THEN "idle" ELSE place[c]]

(* RolloutCmd::AddItems *)
WriterAdd ==
    /\ Receive("add")
    /\ LET items == Head(queue).items IN
        /\ taken' = taken + Len(items)
        /\ \/ /\ writer = "deferred"
              /\ buffered' = buffered \o items
              /\ UNCHANGED todo
           \/ /\ writer = "open"
              /\ todo' = items
              /\ UNCHANGED buffered
    /\ queue' = Tail(queue)
    /\ UNCHANGED <<session, base, sent, attached, place, request, writer, acker,
                   diskVars, flushed>>

(* Mutant: the file is created and what was buffered forgotten. *)
WriterMaterializeEmpty ==
    /\ Receive("persist")
    /\ writer = "deferred"
    /\ writer' = "open"
    /\ todo' = <<Meta>>
    /\ buffered' = <<>>
    /\ acker' = Head(queue).client
    /\ queue' = Tail(queue)
    /\ UNCHANGED <<session, base, sent, taken, attached, place, request, diskVars,
                   flushed>>

(* Mutant: the buffered items go before the session's metadata. *)
WriterMaterializeMetaLast ==
    /\ Receive("persist")
    /\ writer = "deferred"
    /\ writer' = "open"
    /\ todo' = Append(buffered, Meta)
    /\ buffered' = <<>>
    /\ acker' = Head(queue).client
    /\ queue' = Tail(queue)
    /\ UNCHANGED <<session, base, sent, taken, attached, place, request, diskVars,
                   flushed>>

(* RolloutCmd::Persist of a deferred file: it is created, and the metadata *)
(* and the buffered items are to be written.                               *)
WriterMaterialize ==
    /\ Receive("persist")
    /\ writer = "deferred"
    /\ writer' = "open"
    /\ todo' = <<Meta>> \o buffered
    /\ buffered' = <<>>
    /\ acker' = Head(queue).client
    /\ queue' = Tail(queue)
    /\ UNCHANGED <<session, base, sent, taken, attached, place, request, diskVars,
                   flushed>>

(* The file cannot be created: the ack is sent, and the writer exits. *)
WriterMaterializeFails ==
    /\ Receive("persist")
    /\ writer = "deferred"
    /\ Exit
    /\ UNCHANGED <<session, base, sent, taken, attached, request, diskVars, flushed>>

WriterPersistAgain ==
    /\ Receive("persist")
    /\ writer = "open"
    /\ Answered(Head(queue).client)
    /\ queue' = Tail(queue)
    /\ UNCHANGED <<session, base, sent, taken, attached, request, writer, buffered, todo,
                   acker, diskVars, flushed>>

(* RolloutCmd::Flush; a deferred file has nothing to flush. *)
WriterFlush ==
    /\ Receive("flush")
    /\ Answered(Head(queue).client)
    /\ flushed' = IF writer = "open" THEN flushed \cup Received ELSE flushed
    /\ queue' = Tail(queue)
    /\ UNCHANGED <<session, base, sent, taken, attached, request, writer, buffered, todo,
                   acker, diskVars>>

(* The flush fails: it is acknowledged all the same. *)
WriterFlushFails ==
    /\ Receive("flush")
    /\ writer = "open"
    /\ Exit
    /\ flushed' = flushed \cup Received
    /\ UNCHANGED <<session, base, sent, taken, attached, request, diskVars>>

(* RolloutCmd::Shutdown: the loop goes on while there are senders. *)
WriterShutdown ==
    /\ Receive("shutdown")
    /\ Answered(Head(queue).client)
    /\ queue' = Tail(queue)
    /\ UNCHANGED <<session, base, sent, taken, attached, request, writer, buffered, todo,
                   acker, diskVars, flushed>>

(* write_line, and the ack of a persist behind the last line *)
WriterWrite ==
    /\ todo # <<>>
    /\ file' = Append(file, tail \cup {Head(todo)})
    /\ tail' = {}
    /\ todo' = Tail(todo)
    /\ IF Len(todo) = 1 /\ acker # NoClient
         THEN /\ Answered(acker)
                        /\ acker' = NoClient
         ELSE UNCHANGED <<place, acker>>
    /\ UNCHANGED <<session, base, sent, taken, attached, request, queue, writer, buffered,
                   flushed>>

(* What a write that is cut short leaves at the end of the file. *)
CutShort == \/ UNCHANGED tail
            \/ \E x \in Pieces \cup {Head(todo)} : tail' = tail \cup {x}

(* Mutant: the writer stops and never drops its receiver. *)
WriterWriteHangs ==
    /\ todo # <<>>
    /\ CutShort
    /\ writer' = "down"
    /\ todo' = <<>>
    /\ UNCHANGED <<session, base, sent, taken, attached, place, request, queue, buffered,
                   acker, file, flushed>>

(* Mutant: after an error the writer goes on with the next command. *)
WriterWriteGoesOn ==
    /\ todo # <<>>
    /\ CutShort
    /\ todo' = <<>>
    /\ UNCHANGED <<session, base, sent, taken, attached, place, request, queue, writer,
                   buffered, acker, file, flushed>>

(* The write fails, on a full disk for one; a persist is acknowledged.     *)
WriterWriteFails ==
    /\ todo # <<>>
    /\ CutShort
    /\ Exit
    /\ UNCHANGED <<session, base, sent, taken, attached, request, file, flushed>>

-----------------------------------------------------------------------------
(* The process *)

(* The process exits or is killed, maybe while a line is being written. *)
Crash ==
    /\ writer # "down"
    /\ writer' = "down"
    /\ attached' = FALSE
    /\ place' = [c \in Clients |-> "idle"]
    /\ queue' = <<>> /\ buffered' = <<>> /\ todo' = <<>> /\ acker' = NoClient
    /\ IF todo = <<>> THEN UNCHANGED tail ELSE CutShort
    /\ UNCHANGED <<session, base, sent, taken, request, file, flushed>>

Written == (UNION ToSet(file)) \cup tail

(* The lines that load_rollout_items does not skip. *)
Parsed == {x \in Written \ Pieces : {x} \in ToSet(file) \cup {tail}}

(* get_rollout_history: read_to_string fails on a file that is not UTF-8,   *)
(* and a file in which no metadata was parsed has no thread id: nothing at  *)
(* all is loaded then.                                                      *)
Readable == Written \cap {Split} = {}
Loadable == IF Readable /\ Meta \in Parsed THEN Parsed ELSE {}

(* RolloutRecorderParams::Resume, when the history can be loaded: the file *)
(* is open from the start and gets no second metadata.                     *)
Resume ==
    /\ writer = "down"
    /\ session < MaxSessions
    /\ Loadable # {}
    /\ session' = session + 1
    /\ writer' = "open"
    /\ attached' = TRUE
    /\ base' = sent /\ taken' = sent
    /\ UNCHANGED <<sent, place, request, queue, buffered, todo, acker, diskVars,
                   flushed>>

ClientStep(c) == SendOk(c) \/ SendErr(c)
Call(c) == RecordItems(c) \/ Persist(c) \/ Flush(c) \/ Shutdown(c)

WriterStep ==
    \/ WriterAdd \/ WriterMaterialize \/ WriterMaterializeFails \/ WriterPersistAgain
    \/ WriterFlush \/ WriterFlushFails \/ WriterShutdown
    \/ WriterWrite \/ WriterWriteFails

Next ==
    \/ \E c \in Clients : Call(c) \/ ClientStep(c)
    \/ WriterStep
    \/ Crash \/ Resume

Spec == Init /\ [][Next]_vars

(* The writer is polled, its I/O ends, and the channel is fair to those    *)
(* that wait for room in it.                                               *)
FairSpec == Spec /\ WF_vars(WriterStep) /\ \A c \in Clients : SF_vars(ClientStep(c))

-----------------------------------------------------------------------------
(* A thread of which an item was written can be loaded, all the same how    *)
(* its sessions ended, but for two damages: its last write was cut inside a *)
(* character (recorder.rs:436), or the metadata of the first session lost   *)
(* its newline and the next session's first item continues that line        *)
(* (recorder.rs:499).                                                       *)
FirstLine == IF file = <<>> THEN tail ELSE file[1]
Glued == session > 1 /\ Meta \in FirstLine /\ FirstLine # {Meta}
SplitLast == Split \in tail /\ writer \in {"gone", "down"}
ThreadLoads == Written \cap Items # {} => Loadable # {} \/ SplitLast \/ Glued

(* While the thread can be loaded, a line that was cut short costs the next *)
(* session one flushed item, the one that continues the line: no more than  *)
(* that is ever missing.                                                    *)
DamageBounded == Loadable # {} => Cardinality(flushed \ Loadable) < session

(* Every call returns, though the writer may exit or the channel be full.  *)
CallsReturn == \A c \in Clients : (place[c] # "idle") ~> (place[c] = "idle")

(* The recorder keeps the promise of an append-only log: the channel, the  *)
(* deferred file, the writer task, failed writes, crashes and resumes are  *)
(* steps of DurableLog or change nothing in it, and an item that an open   *)
(* session accepted is written unless the session ends.                    *)
Phase == CASE writer = "deferred" -> "deferred"
           [] writer = "open" -> "open"
           [] OTHER -> "ended"
Log == INSTANCE DurableLog WITH accepted <- sent, phase <- Phase,
                                kept <- Written \cap Items, promised <- flushed
ImplementsLog == Log!Spec
=============================================================================
