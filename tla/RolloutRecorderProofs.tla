------------------------ MODULE RolloutRecorderProofs ------------------------
(***************************************************************************)
(* The rollout for any number of clients, items and processes and any      *)
(* capacity of the channel.  The commands in the channel carry on where    *)
(* the writer's last item ended (InOrder), and what an open file lacks is  *)
(* exactly what the writer is about to write (OpenFile): with them the     *)
(* metadata comes first, a line that was cut short costs one flushed item  *)
(* of one session, and every step is a step of the abstract log.           *)
(***************************************************************************)
EXTENDS RolloutRecorder, FiniteSetTheorems, SequenceTheorems, TLAPS

(* A command other than AddItems brings no items. *)
NoStrayItems ==
    /\ \A c \in Clients : request[c].kind # "add" => request[c].size = 0
    /\ \A k \in DOMAIN queue : queue[k].kind # "add" => queue[k].items = <<>>

(* The commands in the channel number the items from taken to sent: number *)
(* k begins after start[k].                                                *)
Numbering(start, q, from, to) ==
    /\ start[1] = from /\ start[Len(q) + 1] = to
    /\ \A k \in 1 .. Len(q) :
        /\ start[k + 1] = start[k] + Len(q[k].items)
        /\ \A i \in 1 .. Len(q[k].items) : q[k].items[i] = start[k] + i

InOrder ==
    writer \in {"deferred", "open"} =>
        \E start \in [1 .. Len(queue) + 1 -> 0 .. sent] : Numbering(start, queue, taken, sent)

(* Before the file is created, all of the session is in the buffer. *)
DeferredFile ==
    writer = "deferred" =>
        /\ session = 1 /\ base = 0
        /\ file = <<>> /\ tail = {} /\ flushed = {}
        /\ todo = <<>>
        /\ Len(buffered) = taken
        /\ \A i \in 1 .. taken : buffered[i] = i

(* The last record written: those of todo follow it.  The metadata is the *)
(* record before the first item.                                          *)
Done == taken - Len(todo)
Own == (base + 1) .. Done

(* Nothing of the file is written yet, not even the metadata. *)
Blank == session = 1 /\ base = 0 /\ file = <<>> /\ tail = {}

OpenFile ==
    writer = "open" =>
        /\ buffered = <<>>
        /\ \A i \in 1 .. Len(todo) : todo[i] = Done + i
        /\ Done >= base \/ (Done = -1 /\ Blank)
        /\ \A x \in Written : x <= Done
        /\ Own \subseteq Written
        /\ tail # {} => Done = base
        /\ Done >= base => Meta \in FirstLine

(* A session that is over has nothing in flight; after the process is gone *)
(* nobody calls.                                                           *)
Ended ==
    /\ writer \in {"gone", "down"} => queue = <<>> /\ todo = <<>> /\ buffered = <<>>
    /\ writer = "down" => ~attached /\ \A c \in Clients : place[c] = "idle"

(* A file whose first line lacks the metadata holds no record. *)
NoHeadless == Written \subseteq Pieces \/ Meta \in FirstLine

(* The text ends where it is no UTF-8, and nobody writes to such a file. *)
SplitAtEnd ==
    /\ Split \notin UNION ToSet(file)
    /\ writer \in {"deferred", "open"} => Split \notin tail

(* The session that creates the file continues no line. *)
NotGlued ==
    session = 1 =>
        /\ writer \in {"deferred", "open"} => tail = {}
        /\ Meta \in FirstLine => FirstLine = {Meta}

TextInv == SplitAtEnd /\ NotGlued

(* What was flushed is in the file, in a line of its own session. *)
FlushedWritten ==
    /\ \A x \in Written : x <= sent
    /\ flushed \subseteq Written
    /\ tail \cap flushed = {}

(* An open file with an unterminated last line is going to lose one more. *)
Unreadable == (IF writer = "open" THEN flushed \cup Own ELSE flushed) \ Parsed
AtRisk == IF writer = "open" /\ tail # {} THEN 1 ELSE 0
DamageAccounted == Cardinality(Unreadable) + AtRisk < session

IInv ==
    /\ TypeOK
    /\ NoStrayItems /\ InOrder
    /\ DeferredFile /\ OpenFile /\ Ended
    /\ NoHeadless /\ FlushedWritten
    /\ DamageAccounted
-----------------------------------------------------------------------------
(* A line more: what the lines hold, and the first of them. *)
LEMMA LineAdded ==
  ASSUME NEW f \in Seq(Lines), NEW l \in Lines
  PROVE  /\ Append(f, l) \in Seq(Lines) /\ Append(f, l) # <<>>
         /\ ToSet(Append(f, l)) = ToSet(f) \cup {l}
         /\ Append(f, l)[1] = IF f = <<>> THEN l ELSE f[1]
<1>1. /\ Append(f, l) \in Seq(Lines) /\ Append(f, l) # <<>>
      /\ Len(f) \in Nat /\ Len(Append(f, l)) = Len(f) + 1
      /\ \A i \in 1 .. Len(f) : Append(f, l)[i] = f[i]
      /\ Append(f, l)[Len(f) + 1] = l
  BY AppendProperties, LenProperties
<1>2. DOMAIN f = 1 .. Len(f) /\ DOMAIN Append(f, l) = 1 .. Len(f) + 1
  BY <1>1, LenProperties
<1>3. ToSet(Append(f, l)) = ToSet(f) \cup {l}
  BY <1>1, <1>2 DEF ToSet
<1>4. f = <<>> => Len(f) = 0
  BY EmptySeq
<1>5. f # <<>> => Len(f) # 0
  BY <1>1, EmptySeq
<1> QED
  BY <1>1, <1>3, <1>4, <1>5

(* The first line of a file is one of its lines. *)
LEMMA FirstLineWritten ==
  ASSUME file \in Seq(Lines)
  PROVE  FirstLine \subseteq Written
<1>1. file # <<>> => file[1] \in ToSet(file)
  BY EmptySeq, LenProperties DEF ToSet
<1>2. FirstLine \in ToSet(file) \cup {tail}
  BY <1>1 DEF FirstLine
<1> QED
  BY <1>2 DEF Written

(* An empty file holds nothing. *)
LEMMA NoLines == ToSet(<<>>) = {}
  BY EmptySeq DEF ToSet

(* Lines are sets of records and torn pieces. *)
LEMMA LinesHoldRecords ==
  ASSUME NEW f \in Seq(Lines)
  PROVE  ToSet(f) \subseteq Lines
  BY LenProperties, ElementOfSeq DEF ToSet

(* What the file holds are records and torn pieces, integers. *)
LEMMA WrittenTyped ==
  ASSUME TypeOK
  PROVE  Written \subseteq Records \cup Pieces /\ Written \subseteq Int
<1>1. Written \subseteq Records \cup Pieces
  <2>1. ToSet(file) \subseteq SUBSET (Records \cup Pieces)
    BY LinesHoldRecords DEF TypeOK, Lines
  <2>2. UNION ToSet(file) \subseteq Records \cup Pieces
    BY <2>1
  <2> QED
    BY <2>2 DEF TypeOK, Written, Lines
<1> QED
  BY <1>1 DEF Records, Items, Meta, Torn, Split, Pieces

(* The first of a sequence, and the rest. *)
LEMMA Behead ==
  ASSUME NEW S, NEW s \in Seq(S), s # <<>>
  PROVE  /\ Head(s) = s[1] /\ Head(s) \in S /\ Len(s) \in Nat \ {0}
         /\ Tail(s) \in Seq(S) /\ Len(Tail(s)) = Len(s) - 1
         /\ \A i \in 1 .. Len(s) - 1 : Tail(s)[i] = s[i + 1]
<1>1. Head(s) = s[1]
  OBVIOUS
<1> QED
  BY <1>1, HeadTailProperties, EmptySeq
-----------------------------------------------------------------------------
(* A channel without commands has no items to number. *)
LEMMA NumberingEmpty ==
  ASSUME NEW n \in Nat
  PROVE  \E start \in [1 .. Len(<<>>) + 1 -> 0 .. n] : Numbering(start, <<>>, n, n)
<1>1. Len(<<>>) = 0
  BY EmptySeq
<1>2. Numbering([i \in 1 .. 1 |-> n], <<>>, n, n)
  BY <1>1 DEF Numbering
<1>3. [i \in 1 .. 1 |-> n] \in [1 .. Len(<<>>) + 1 -> 0 .. n]
  BY <1>1
<1> QED
  BY <1>2, <1>3

(* The writer takes the first command: its items follow the last one taken. *)
LEMMA NumberingTail ==
  ASSUME NEW q \in Seq(Commands), q # <<>>, NEW n \in Nat, NEW m \in Nat,
         NEW start \in [1 .. Len(q) + 1 -> 0 .. n], Numbering(start, q, m, n)
  PROVE  /\ \A i \in 1 .. Len(Head(q).items) : Head(q).items[i] = m + i
         /\ Len(Head(q).items) \in Nat /\ m + Len(Head(q).items) <= n
         /\ \E next \in [1 .. Len(Tail(q)) + 1 -> 0 .. n] :
                Numbering(next, Tail(q), m + Len(Head(q).items), n)
<1>1. /\ Head(q) = q[1] /\ Len(q) \in Nat \ {0} /\ Len(Tail(q)) = Len(q) - 1
      /\ \A k \in 1 .. Len(q) - 1 : Tail(q)[k] = q[k + 1]
      /\ Head(q) \in Commands
  BY Behead
<1>2. Len(Head(q).items) \in Nat
  BY <1>1, LenProperties DEF Commands
<1>3. start[2] = m + Len(Head(q).items)
  BY <1>1, <1>2 DEF Numbering
<1>4. start[2] <= n
  BY <1>1
<1> DEFINE next == [k \in 1 .. Len(q) |-> start[k + 1]]
<1>5. next \in [1 .. Len(Tail(q)) + 1 -> 0 .. n]
  BY <1>1
<1>6. Numbering(next, Tail(q), start[2], n)
  <2>1. next[1] = start[2] /\ next[Len(q)] = n
    BY <1>1 DEF Numbering
  <2>2. ASSUME NEW k \in 1 .. Len(q) - 1
        PROVE  /\ next[k + 1] = next[k] + Len(Tail(q)[k].items)
               /\ \A i \in 1 .. Len(Tail(q)[k].items) : Tail(q)[k].items[i] = next[k] + i
    BY <1>1 DEF Numbering
  <2> QED
    BY <1>1, <2>1, <2>2 DEF Numbering
<1>7. \A i \in 1 .. Len(Head(q).items) : Head(q).items[i] = m + i
  BY <1>1 DEF Numbering
<1> QED
  BY <1>2, <1>3, <1>4, <1>5, <1>6, <1>7

(* A command that is sent numbers its items from sent. *)
LEMMA NumberingAppend ==
  ASSUME NEW q \in Seq(Commands), NEW n \in Nat, NEW m \in Nat,
         NEW start \in [1 .. Len(q) + 1 -> 0 .. n], Numbering(start, q, m, n),
         NEW cmd \in Commands, NEW size \in Nat, Len(cmd.items) = size,
         \A i \in 1 .. size : cmd.items[i] = n + i
  PROVE  \E next \in [1 .. Len(Append(q, cmd)) + 1 -> 0 .. n + size] :
             Numbering(next, Append(q, cmd), m, n + size)
<1>1. /\ Len(q) \in Nat /\ Len(Append(q, cmd)) = Len(q) + 1
      /\ \A k \in 1 .. Len(q) : Append(q, cmd)[k] = q[k]
      /\ Append(q, cmd)[Len(q) + 1] = cmd
  BY AppendProperties, LenProperties
<1> DEFINE next == [k \in 1 .. Len(q) + 2 |->
                       IF k = Len(q) + 2 THEN n + size ELSE start[k]]
<1>2. next \in [1 .. Len(q) + 2 -> 0 .. n + size]
  BY <1>1
<1>3. next[1] = m /\ next[Len(q) + 2] = n + size
  BY <1>1 DEF Numbering
<1>4. ASSUME NEW k \in 1 .. Len(q) + 1
      PROVE  LET c == Append(q, cmd)[k] IN
             /\ next[k + 1] = next[k] + Len(c.items)
             /\ \A i \in 1 .. Len(c.items) : c.items[i] = next[k] + i
  <2>1. CASE k = Len(q) + 1
    BY <1>1, <2>1 DEF Numbering
  <2>2. CASE k \in 1 .. Len(q)
    BY <1>1, <2>2 DEF Numbering
  <2>3. k = Len(q) + 1 \/ k \in 1 .. Len(q)
    BY <1>1
  <2> QED
    BY <2>1, <2>2, <2>3
<1>5. Numbering(next, Append(q, cmd), m, n + size)
  BY <1>1, <1>3, <1>4 DEF Numbering
<1> HIDE DEF next
<1> QED
  BY <1>1, <1>2, <1>5
-----------------------------------------------------------------------------
FileInv == DeferredFile /\ OpenFile /\ NoHeadless /\ FlushedWritten /\ DamageAccounted

(* A new thread satisfies the inductive invariant. *)
LEMMA InitIInv == Init => IInv
<1> SUFFICES ASSUME Init PROVE IInv
  OBVIOUS
<1>1. TypeOK
  BY EmptySeq, BoundsAssumption DEF Init, TypeOK, Idle, Requests, Kinds, Lines
<1>2. NoStrayItems
  BY DEF Init, NoStrayItems, Idle
<1>3. InOrder
  BY NumberingEmpty DEF Init, InOrder
<1>4. DeferredFile /\ OpenFile /\ Ended
  BY EmptySeq DEF Init, DeferredFile, OpenFile, Ended
<1>5. Written = {}
  BY NoLines DEF Init, Written
<1>6. NoHeadless /\ FlushedWritten
  BY <1>5 DEF Init, NoHeadless, FlushedWritten
<1>7. DamageAccounted
  BY FS_EmptySet DEF Init, DamageAccounted, AtRisk, Unreadable
<1> QED
  BY <1>1, <1>2, <1>3, <1>4, <1>6, <1>7 DEF IInv

(* A step that touches neither the file nor the writer keeps what is said *)
(* of the file.                                                           *)
LEMMA FileUntouched ==
  ASSUME IInv,
         UNCHANGED <<session, base, sent, taken, writer, buffered, todo, file, tail, flushed>>
  PROVE  FileInv'
  BY DEF IInv, FileInv, DeferredFile, OpenFile, Done, Own, Blank, NoHeadless,
     FlushedWritten, DamageAccounted, AtRisk, Unreadable, Parsed, Written, FirstLine

(* Calls, and sends that fail, change neither the channel nor the file. *)
LEMMA CallIInv ==
  ASSUME IInv, NEW c \in Clients, Call(c) \/ SendErr(c)
  PROVE  IInv'
<1> USE DEF IInv
<1>1. UNCHANGED <<session, base, sent, taken, writer, buffered, todo, file, tail, flushed,
                  queue, acker>>
  BY DEF Call, SendErr, RecordItems, Persist, Flush, Shutdown, Begin, writerVars, diskVars
<1> DEFINE Fits ==
      /\ place' \in [Clients -> {"idle", "sending", "awaiting"}]
      /\ request' \in [Clients -> Requests] /\ attached' \in BOOLEAN
      /\ \A d \in Clients : request'[d].kind # "add" => request'[d].size = 0
<1>2. Fits
  <2>1. ASSUME NEW kind \in Kinds, NEW size \in 0 .. MaxBatch,
               kind # "add" => size = 0, Begin(c, kind, size)
        PROVE  Fits
    BY <2>1 DEF Begin, TypeOK, Requests, NoStrayItems
  <2>2. CASE RecordItems(c)
    BY <2>1, <2>2, BoundsAssumption DEF RecordItems, Kinds
  <2>3. CASE Persist(c) \/ Flush(c)
    BY <2>1, <2>3, BoundsAssumption DEF Persist, Flush, Kinds
  <2>4. CASE Shutdown(c)
    <3>1. [kind |-> "shutdown", size |-> 0] \in Requests
      BY BoundsAssumption DEF Requests, Kinds
    <3> QED
      BY <2>4, <3>1 DEF Shutdown, TypeOK, NoStrayItems
  <2>5. CASE SendErr(c)
    BY <2>5 DEF SendErr, TypeOK, NoStrayItems
  <2> QED
    BY <2>2, <2>3, <2>4, <2>5 DEF Call
<1>3. TypeOK'
  BY <1>1, <1>2 DEF TypeOK
<1>4. NoStrayItems' /\ InOrder'
  BY <1>1, <1>2 DEF NoStrayItems, InOrder
<1>5. Ended'
  BY <1>1 DEF Ended, Call, SendErr, RecordItems, Persist, Flush, Shutdown, Begin, TypeOK
<1> QED
  BY <1>1, <1>3, <1>4, <1>5, FileUntouched DEF FileInv

(* The numbers of a sequence of consecutive items. *)
LEMMA Consecutive ==
  ASSUME NEW n \in Nat, NEW size \in Nat
  PROVE  LET s == [i \in 1 .. size |-> n + i] IN
         s \in Seq(Items) /\ Len(s) = size /\ \A i \in 1 .. size : s[i] = n + i
  BY DEF Items

(* A command enters the channel, and its items are numbered. *)
LEMMA SendOkIInv ==
  ASSUME IInv, NEW c \in Clients, SendOk(c)
  PROVE  IInv'
<1> USE DEF IInv
<1> DEFINE r == request[c]
           cmd == [kind |-> r.kind, client |-> c,
                   items |-> [i \in 1 .. r.size |-> sent + i]]
<1>1. /\ r.size \in Nat /\ r.kind \in Kinds /\ sent \in Nat /\ taken \in Nat
      /\ queue \in Seq(Commands) /\ base \in Nat /\ taken <= sent /\ base <= taken
      /\ writer \in {"deferred", "open"}
  BY BoundsAssumption DEF TypeOK, Requests, SendOk, Ended
<1>2. /\ cmd \in Commands /\ Len(cmd.items) = r.size
      /\ \A i \in 1 .. r.size : cmd.items[i] = sent + i
  BY <1>1, Consecutive DEF Commands
<1>3. /\ queue' = Append(queue, cmd) /\ sent' = sent + r.size
      /\ UNCHANGED <<session, base, taken, attached, request, writer, buffered, todo, acker,
                     file, tail, flushed>>
  BY DEF SendOk, writerVars, diskVars
<1>4. /\ queue' \in Seq(Commands) /\ Len(queue') = Len(queue) + 1 /\ Len(queue) \in Nat
      /\ \A k \in 1 .. Len(queue) : queue'[k] = queue[k]
      /\ queue'[Len(queue) + 1] = cmd
  BY <1>1, <1>2, <1>3, AppendProperties, LenProperties
<1>5. TypeOK'
  <2>1. place' \in [Clients -> {"idle", "sending", "awaiting"}]
    BY DEF SendOk, TypeOK
  <2>2. Len(queue') <= QueueSize
    BY <1>4, BoundsAssumption DEF SendOk
  <2>3. base \in 0 .. sent' /\ taken \in base .. sent' /\ sent' \in Nat
    BY <1>1, <1>3
  <2> HIDE DEF cmd
  <2> QED
    BY <1>3, <1>4, <2>1, <2>2, <2>3 DEF TypeOK
<1>6. NoStrayItems'
  <2>1. r.kind # "add" => cmd.items = <<>>
    BY <1>2, EmptySeq DEF NoStrayItems, Commands
  <2>2. DOMAIN queue' = 1 .. Len(queue) + 1 /\ DOMAIN queue = 1 .. Len(queue)
    BY <1>1, <1>4, LenProperties
  <2>3. ASSUME NEW k \in DOMAIN queue', queue'[k].kind # "add" PROVE queue'[k].items = <<>>
    <3>1. k \in 1 .. Len(queue) \/ k = Len(queue) + 1
      BY <1>4, <2>2
    <3> QED
      BY <1>4, <2>1, <2>2, <2>3, <3>1 DEF NoStrayItems
  <2> QED
    BY <1>3, <2>3 DEF NoStrayItems
<1>7. InOrder'
  <2>1. PICK start \in [1 .. Len(queue) + 1 -> 0 .. sent] :
          Numbering(start, queue, taken, sent)
    BY <1>1 DEF InOrder
  <2> HIDE DEF cmd, r
  <2>2. \E next \in [1 .. Len(queue') + 1 -> 0 .. sent'] :
          Numbering(next, queue', taken, sent')
    BY <1>1, <1>2, <1>3, <2>1, NumberingAppend
  <2> QED
    BY <1>3, <2>2 DEF InOrder
<1>8. Ended'
  BY <1>1, <1>3 DEF Ended
<1>9. FlushedWritten'
  <2>1. Written' = Written
    BY <1>3 DEF Written
  <2> QED
    BY <1>1, <1>3, <2>1, WrittenTyped DEF FlushedWritten
<1>10. DeferredFile' /\ OpenFile' /\ NoHeadless' /\ DamageAccounted'
  BY <1>3 DEF DeferredFile, OpenFile, Done, Own, Blank, NoHeadless, DamageAccounted,
     AtRisk, Unreadable, Parsed, Written, FirstLine
<1> QED
  BY <1>5, <1>6, <1>7, <1>8, <1>9, <1>10
-----------------------------------------------------------------------------
(* What the writer takes from the channel, and what is left in it. *)
LEMMA Taken ==
  ASSUME IInv, queue # <<>>, writer \in {"deferred", "open"}
  PROVE  /\ Head(queue) \in Commands
         /\ Len(Head(queue).items) \in Nat /\ taken + Len(Head(queue).items) <= sent
         /\ \A i \in 1 .. Len(Head(queue).items) : Head(queue).items[i] = taken + i
         /\ Head(queue).kind # "add" => Len(Head(queue).items) = 0
         /\ Tail(queue) \in Seq(Commands) /\ Len(Tail(queue)) <= QueueSize
         /\ \A k \in DOMAIN Tail(queue) :
                Tail(queue)[k].kind # "add" => Tail(queue)[k].items = <<>>
         /\ \E next \in [1 .. Len(Tail(queue)) + 1 -> 0 .. sent] :
                Numbering(next, Tail(queue), taken + Len(Head(queue).items), sent)
<1> USE DEF IInv
<1>1. queue \in Seq(Commands) /\ sent \in Nat /\ taken \in Nat
  BY DEF TypeOK
<1>2. /\ Head(queue) = queue[1] /\ Head(queue) \in Commands /\ Len(queue) \in Nat \ {0}
      /\ Tail(queue) \in Seq(Commands) /\ Len(Tail(queue)) = Len(queue) - 1
      /\ \A k \in 1 .. Len(queue) - 1 : Tail(queue)[k] = queue[k + 1]
  BY <1>1, Behead
<1>3. DOMAIN queue = 1 .. Len(queue) /\ DOMAIN Tail(queue) = 1 .. Len(queue) - 1
  BY <1>1, <1>2, LenProperties
<1>4. PICK start \in [1 .. Len(queue) + 1 -> 0 .. sent] : Numbering(start, queue, taken, sent)
  BY DEF InOrder
<1>5. Head(queue).kind # "add" => Len(Head(queue).items) = 0
  BY <1>2, <1>3, EmptySeq DEF NoStrayItems
<1>6. Len(Tail(queue)) <= QueueSize
  BY <1>2, BoundsAssumption DEF TypeOK
<1>7. \A k \in DOMAIN Tail(queue) : Tail(queue)[k].kind # "add" => Tail(queue)[k].items = <<>>
  BY <1>2, <1>3 DEF NoStrayItems
<1> QED
  BY <1>1, <1>2, <1>4, <1>5, <1>6, <1>7, NumberingTail

(* Items that are added go to the buffer, or they are next for the file. *)
LEMMA WriterAddIInv ==
  ASSUME IInv, WriterAdd
  PROVE  IInv'
<1> USE DEF IInv
<1> DEFINE items == Head(queue).items
<1>1. queue # <<>> /\ writer \in {"deferred", "open"} /\ todo = <<>>
  BY DEF WriterAdd, Receive
<1>2. /\ UNCHANGED <<session, base, sent, attached, place, request, writer, acker, file, tail,
                     flushed>>
      /\ queue' = Tail(queue) /\ taken' = taken + Len(items)
  BY DEF WriterAdd, diskVars
<1>3. /\ items \in Seq(Items) /\ Len(items) \in Nat /\ taken' <= sent
      /\ \A i \in 1 .. Len(items) : items[i] = taken + i
      /\ taken \in Nat /\ base \in Nat /\ base <= taken /\ Len(todo) = 0 /\ sent \in Nat
  <2>1. items \in Seq(Items)
    BY <1>1, Taken DEF Commands
  <2>2. /\ Len(items) \in Nat /\ taken' <= sent
        /\ \A i \in 1 .. Len(items) : items[i] = taken + i
    BY <1>1, <1>2, Taken
  <2>3. taken \in Nat /\ base \in Nat /\ base <= taken /\ sent \in Nat
    BY DEF TypeOK
  <2> QED
    BY <1>1, <2>1, <2>2, <2>3, EmptySeq
<1>4. NoStrayItems' /\ InOrder'
  BY <1>1, <1>2, Taken DEF NoStrayItems, InOrder
<1>5. Ended' /\ FlushedWritten' /\ NoHeadless'
  BY <1>1, <1>2 DEF Ended, FlushedWritten, NoHeadless, Written, FirstLine
<1>6. CASE writer = "deferred"
  <2>1. /\ buffered' = buffered \o items /\ todo' = todo
        /\ Len(buffered) = taken /\ \A i \in 1 .. taken : buffered[i] = i
    BY <1>6 DEF WriterAdd, DeferredFile
  <2>2. /\ buffered' \in Seq(Items) /\ Len(buffered') = taken'
        /\ \A i \in 1 .. taken' : buffered'[i] = IF i <= taken THEN i ELSE items[i - taken]
    <3>1. buffered \in Seq(Items)
      BY DEF TypeOK
    <3>2. /\ buffered \o items \in Seq(Items) /\ Len(buffered \o items) = taken + Len(items)
          /\ \A i \in 1 .. taken + Len(items) : (buffered \o items)[i] =
                IF i <= taken THEN buffered[i] ELSE items[i - taken]
      <4> HIDE DEF items, IInv
      <4>1. /\ buffered \o items \in Seq(Items)
            /\ Len(buffered \o items) = Len(buffered) + Len(items)
            /\ \A i \in 1 .. Len(buffered) + Len(items) : (buffered \o items)[i] =
                  IF i <= Len(buffered) THEN buffered[i] ELSE items[i - Len(buffered)]
        BY ONLY <1>3, <3>1, ConcatProperties
      <4> QED
        BY ONLY <2>1, <4>1
    <3> HIDE DEF items, IInv
    <3> QED
      BY ONLY <1>2, <1>3, <2>1, <3>2
  <2>3. TypeOK'
    <3>1. queue' \in Seq(Commands) /\ Len(queue') <= QueueSize
      BY <1>1, <1>2, Taken
    <3>2. taken' \in base .. sent
      BY ONLY <1>2, <1>3
    <3>3. TypeOK
      OBVIOUS
    <3> QED
      BY ONLY <1>2, <2>1, <2>2, <3>1, <3>2, <3>3 DEF TypeOK
  <2>4. DeferredFile'
    <3>1. ASSUME NEW i \in 1 .. taken' PROVE buffered'[i] = i
      <4> HIDE DEF items, IInv
      <4>1. CASE i <= taken
        BY ONLY <2>2, <4>1
      <4>2. CASE ~ (i <= taken)
        <5>1. i - taken \in 1 .. Len(items) /\ taken + (i - taken) = i
          BY ONLY <1>2, <1>3, <4>2
        <5> QED
          BY ONLY <1>3, <2>2, <4>2, <5>1
      <4> QED
        BY ONLY <4>1, <4>2
    <3> QED
      BY <1>1, <1>2, <1>6, <2>1, <2>2, <3>1 DEF DeferredFile
  <2>5. OpenFile' /\ DamageAccounted'
    BY <1>2, <1>6 DEF OpenFile, DamageAccounted, AtRisk, Unreadable, Parsed, Written
  <2> QED
    BY <1>4, <1>5, <2>3, <2>4, <2>5
<1>7. CASE writer = "open"
  <2>1. todo' = items /\ buffered' = buffered /\ items \in Seq(Records)
    BY <1>3, <1>7, SeqMonotonic DEF WriterAdd, Records
  <2>2. Done' = Done /\ Own' = Own /\ Done = taken
    BY <1>2, <1>3, <2>1 DEF Done, Own
  <2>3. TypeOK'
    <3>1. queue' \in Seq(Commands) /\ Len(queue') <= QueueSize
      BY <1>1, <1>2, Taken
    <3>2. taken' \in base .. sent
      BY ONLY <1>2, <1>3
    <3>3. TypeOK
      OBVIOUS
    <3> QED
      BY ONLY <1>2, <2>1, <3>1, <3>2, <3>3 DEF TypeOK
  <2>4. DeferredFile'
    BY <1>2, <1>7 DEF DeferredFile
  <2>5. OpenFile'
    BY <1>2, <1>3, <1>7, <2>1, <2>2 DEF OpenFile, Blank, Written, FirstLine
  <2>6. DamageAccounted'
    BY <1>2, <2>2 DEF DamageAccounted, AtRisk, Unreadable, Parsed, Written
  <2> QED
    BY <1>4, <1>5, <2>3, <2>4, <2>5, <2>6
<1> QED
  BY <1>1, <1>6, <1>7

(* The file is created: the metadata and what was buffered are next. *)
LEMMA MaterializeIInv ==
  ASSUME IInv, WriterMaterialize
  PROVE  IInv'
<1> USE DEF IInv
<1>1. /\ queue # <<>> /\ writer = "deferred" /\ Head(queue).kind = "persist"
      /\ UNCHANGED <<session, base, sent, taken, attached, place, request, file, tail, flushed>>
      /\ writer' = "open" /\ todo' = <<Meta>> \o buffered /\ buffered' = <<>>
      /\ acker' = Head(queue).client /\ queue' = Tail(queue)
  BY DEF WriterMaterialize, Receive, diskVars
<1>2. /\ session = 1 /\ base = 0 /\ file = <<>> /\ tail = {} /\ flushed = {}
      /\ Len(buffered) = taken /\ \A i \in 1 .. taken : buffered[i] = i
      /\ taken \in Nat /\ sent \in Nat /\ taken <= sent
  BY <1>1 DEF DeferredFile, TypeOK
<1>3. /\ todo' \in Seq(Records) /\ Len(todo') = taken + 1
      /\ \A i \in 1 .. taken + 1 : todo'[i] = i - 1
  <2>1. <<Meta>> \in Seq(Records) /\ Len(<<Meta>>) = 1 /\ <<Meta>>[1] = Meta
    BY DEF Records
  <2>2. buffered \in Seq(Records)
    BY SeqMonotonic DEF TypeOK, Records
  <2>3. /\ todo' \in Seq(Records) /\ Len(todo') = 1 + taken
        /\ \A i \in 1 .. 1 + taken :
              todo'[i] = IF i <= 1 THEN <<Meta>>[i] ELSE buffered[i - 1]
    <3>1. /\ <<Meta>> \o buffered \in Seq(Records)
          /\ Len(<<Meta>> \o buffered) = Len(<<Meta>>) + Len(buffered)
          /\ \A i \in 1 .. Len(<<Meta>>) + Len(buffered) : (<<Meta>> \o buffered)[i] =
                IF i <= Len(<<Meta>>) THEN <<Meta>>[i] ELSE buffered[i - Len(<<Meta>>)]
      BY ONLY <2>1, <2>2, ConcatProperties
    <3> QED
      BY ONLY <1>1, <1>2, <2>1, <3>1
  <2> QED
    BY <1>2, <2>1, <2>3 DEF Meta
<1>4. Done' = -1 /\ Own' = {}
  BY <1>1, <1>2, <1>3 DEF Done, Own
<1>5. Written = {} /\ Written' = {}
  BY <1>1, <1>2, NoLines DEF Written
<1>6. TypeOK'
  <2>1. buffered' \in Seq(Items) /\ acker' \in Clients
    BY <1>1, Taken, EmptySeq DEF Commands
  <2>2. queue' \in Seq(Commands) /\ Len(queue') <= QueueSize
    BY <1>1, Taken
  <2>3. TypeOK
    OBVIOUS
  <2> QED
    BY ONLY <1>1, <1>3, <2>1, <2>2, <2>3 DEF TypeOK
<1>7. NoStrayItems' /\ InOrder'
  BY <1>1, <1>2, Taken DEF NoStrayItems, InOrder
<1>8. DeferredFile' /\ Ended'
  BY <1>1 DEF DeferredFile, Ended
<1>9. OpenFile'
  BY <1>1, <1>2, <1>3, <1>4, <1>5 DEF OpenFile, Blank
<1>10. NoHeadless' /\ FlushedWritten'
  BY <1>1, <1>2, <1>5 DEF NoHeadless, FlushedWritten
<1>11. DamageAccounted'
  BY <1>1, <1>2, <1>4, FS_EmptySet DEF DamageAccounted, AtRisk, Unreadable
<1> QED
  BY <1>6, <1>7, <1>8, <1>9, <1>10, <1>11

(* What counts as unreadable is finite. *)
LEMMA UnreadableFinite ==
  ASSUME IInv
  PROVE  IsFiniteSet(Unreadable) /\ Cardinality(Unreadable) \in Nat
<1>1. sent \in Nat /\ base \in Nat /\ Done \in Int /\ Done <= sent
  <2>1. Len(todo) \in Nat /\ taken \in Nat /\ taken <= sent /\ sent \in Nat /\ base \in Nat
    BY LenProperties DEF IInv, TypeOK
  <2> QED
    BY <2>1 DEF Done
<1>2. flushed \subseteq 0 .. sent
  BY <1>1 DEF IInv, TypeOK, FlushedWritten, Items
<1>3. Unreadable \subseteq 0 .. sent
  <2>1. Own \subseteq 0 .. sent
    BY <1>1 DEF Own
  <2> QED
    BY <1>2, <2>1 DEF Unreadable
<1>4. IsFiniteSet(0 .. sent)
  BY <1>1, FS_Interval
<1>5. IsFiniteSet(Unreadable)
  BY <1>3, <1>4, FS_Subset
<1> QED
  BY <1>5, FS_CardinalityType

(* Damage is bounded when no item becomes unreadable. *)
LEMMA NoMoreDamage ==
  ASSUME IInv, session' = session, Unreadable' \subseteq Unreadable, AtRisk' \in 0 .. AtRisk
  PROVE  DamageAccounted'
<1>1. /\ IsFiniteSet(Unreadable') /\ Cardinality(Unreadable') \in Nat
      /\ Cardinality(Unreadable') <= Cardinality(Unreadable)
  BY UnreadableFinite, FS_Subset, FS_CardinalityType
<1>2. AtRisk \in Nat /\ session \in Nat
  BY DEF AtRisk, IInv, TypeOK
<1> QED
  BY <1>1, <1>2, UnreadableFinite DEF IInv, DamageAccounted

(* Commands that are only answered, and a flush of what is in the file. *)
LEMMA AnswerIInv ==
  ASSUME IInv, WriterPersistAgain \/ WriterFlush \/ WriterShutdown
  PROVE  IInv'
<1> USE DEF IInv
<1>1. /\ queue # <<>> /\ writer \in {"deferred", "open"} /\ Head(queue).kind # "add"
      /\ todo = <<>>
      /\ UNCHANGED <<session, base, sent, taken, attached, request, writer, buffered, todo,
                     acker, file, tail>>
      /\ Answered(Head(queue).client) /\ queue' = Tail(queue)
      /\ flushed' \in {flushed, IF writer = "open" THEN flushed \cup Received ELSE flushed}
  BY DEF WriterPersistAgain, WriterFlush, WriterShutdown, Receive, diskVars
<1>2. /\ taken \in Nat /\ sent \in Nat /\ base \in Nat /\ taken <= sent /\ Len(todo) = 0
      /\ Len(Head(queue).items) = 0 /\ Head(queue).client \in Clients
  <2>1. /\ Len(Head(queue).items) = 0 /\ Head(queue) \in Commands
    BY <1>1, Taken
  <2>2. taken \in Nat /\ sent \in Nat /\ base \in Nat /\ taken <= sent
    BY DEF TypeOK
  <2>3. Len(todo) = 0
    BY <1>1, EmptySeq
  <2> QED
    BY <2>1, <2>2, <2>3 DEF Commands
<1>3. Done = taken /\ Done' = Done /\ Own = Received /\ Own' = Own
  BY <1>1, <1>2 DEF Done, Own, Received
<1>4. /\ Written' = Written /\ Parsed' = Parsed /\ FirstLine' = FirstLine
      /\ Blank' = Blank /\ AtRisk' = AtRisk
  BY <1>1 DEF Written, Parsed, FirstLine, Blank, AtRisk
<1>5. NoStrayItems' /\ InOrder'
  <2>1. NoStrayItems'
    BY <1>1, Taken DEF NoStrayItems
  <2>2. \E next \in [1 .. Len(Tail(queue)) + 1 -> 0 .. sent] :
           Numbering(next, Tail(queue), taken, sent)
    <3>1. \E next \in [1 .. Len(Tail(queue)) + 1 -> 0 .. sent] :
             Numbering(next, Tail(queue), taken + Len(Head(queue).items), sent)
      BY <1>1, Taken
    <3>2. taken + Len(Head(queue).items) = taken
      BY ONLY <1>2
    <3> QED
      BY ONLY <3>1, <3>2
  <2> QED
    BY ONLY <1>1, <2>1, <2>2 DEF InOrder
<1>6. flushed' \subseteq Items
  BY <1>1, <1>2 DEF TypeOK, Received, Items
<1>7. TypeOK'
  <2>1. place' \in [Clients -> {"idle", "sending", "awaiting"}]
    BY <1>1, <1>2 DEF Answered, TypeOK
  <2> QED
    BY <1>1, <1>6, <2>1, Taken DEF TypeOK
<1>8. DeferredFile' /\ OpenFile' /\ Ended'
  BY <1>1, <1>3, <1>4 DEF DeferredFile, OpenFile, Ended
<1>9. NoHeadless' /\ FlushedWritten'
  <2>1. writer = "open" => Own \subseteq Written /\ (tail # {} => Own = {})
    BY <1>2, <1>3 DEF OpenFile, Own
  <2> QED
    BY <1>1, <1>3, <1>4, <2>1 DEF NoHeadless, FlushedWritten
<1>10. DamageAccounted'
  <2>1. Unreadable' \subseteq Unreadable
    BY <1>1, <1>3, <1>4 DEF Unreadable
  <2>2. AtRisk' \in 0 .. AtRisk
    BY <1>4 DEF AtRisk
  <2> QED
    BY <1>1, <2>1, <2>2, NoMoreDamage
<1> QED
  BY <1>5, <1>7, <1>8, <1>9, <1>10

(* The next record to be written comes after all that the file holds. *)
LEMMA NextRecord ==
  ASSUME IInv, todo # <<>>
  PROVE  /\ writer = "open" /\ Head(todo) = Done + 1 /\ Head(todo) \in Records
         /\ Done \in Int /\ Done + 1 <= taken /\ taken \in Nat /\ base \in Nat
         /\ Head(todo) \notin flushed /\ Head(todo) \notin Pieces
         /\ Done = -1 \/ Meta \in FirstLine
<1> USE DEF IInv
<1>1. writer = "open"
  BY DEF DeferredFile, Ended, TypeOK
<1>2. Head(todo) = todo[1] /\ Head(todo) \in Records /\ Len(todo) \in Nat \ {0}
  BY Behead DEF TypeOK
<1>3. taken \in Nat /\ base \in Nat
  BY DEF TypeOK
<1>4. Head(todo) = Done + 1 /\ Done \in Int /\ Done + 1 <= taken
  BY <1>1, <1>2, <1>3 DEF OpenFile, Done
<1>5. Head(todo) \notin flushed
  BY <1>1, <1>4 DEF OpenFile, FlushedWritten
<1>6. Head(todo) \notin Pieces
  BY <1>2 DEF Records, Items, Meta, Torn, Split, Pieces
<1>7. Done = -1 \/ Meta \in FirstLine
  BY <1>1 DEF OpenFile
<1> QED
  BY <1>1, <1>2, <1>3, <1>4, <1>5, <1>6, <1>7

(* A write that is cut short loses no flushed item. *)
LEMMA CutShortInv ==
  ASSUME IInv, todo # <<>>, CutShort,
         UNCHANGED <<session, base, sent, taken, file, flushed>>,
         writer' \in {"gone", "down"}
  PROVE  tail' \in Lines /\ NoHeadless' /\ FlushedWritten' /\ DamageAccounted'
<1> USE DEF IInv
<1>1. /\ tail' \subseteq tail \cup Pieces \cup {Head(todo)} /\ tail \subseteq tail'
      /\ tail' \subseteq tail \cup Pieces \/ tail' \subseteq tail \cup {Head(todo)}
  BY DEF CutShort
<1>2. tail' \in Lines
  BY <1>1, NextRecord DEF TypeOK, Lines
<1>3. Written' = Written \cup tail'
  BY <1>1 DEF Written
<1>4. NoHeadless'
  <2>1. CASE Meta \in FirstLine
    BY <1>1, <2>1 DEF NoHeadless, FirstLine
  <2>2. CASE Meta \notin FirstLine
    <3>1. Done = -1 /\ Head(todo) = Meta /\ file = <<>> /\ tail = {}
      BY <2>2, NextRecord DEF OpenFile, Blank, Meta
    <3>2. Written = {} /\ FirstLine' = tail'
      BY <3>1, NoLines DEF Written, FirstLine
    <3> QED
      BY <1>3, <3>1, <3>2 DEF NoHeadless, CutShort
  <2> QED
    BY <2>1, <2>2
<1>5. FlushedWritten'
  <2>1. \A x \in Written' : x <= sent
    <3>1. Head(todo) <= sent /\ \A x \in Pieces : x <= sent
      BY NextRecord DEF TypeOK, Torn, Split, Pieces
    <3> QED
      BY <1>1, <1>3, <3>1 DEF FlushedWritten, Written
  <2>2. Pieces \cap flushed = {}
    BY DEF TypeOK, Items, Torn, Split, Pieces
  <2> QED
    BY <1>1, <1>3, <2>1, <2>2, NextRecord DEF FlushedWritten
<1>6. DamageAccounted'
  <2>1. Unreadable' \subseteq Unreadable
    BY <1>3 DEF Unreadable, Parsed, FlushedWritten
  <2>2. AtRisk' \in 0 .. AtRisk
    BY DEF AtRisk
  <2> QED
    BY <2>1, <2>2, NoMoreDamage
<1> QED
  BY <1>2, <1>4, <1>5, <1>6

(* The writer exits, or the process ends, and what was in flight is gone. *)
LEMMA OverIInv ==
  ASSUME IInv, writer' \in {"gone", "down"},
         queue' = <<>>, buffered' = <<>>, todo' = <<>>, acker' = NoClient,
         UNCHANGED <<session, base, sent, taken, request>>,
         attached' \in BOOLEAN, place' \in [Clients -> {"idle", "sending", "awaiting"}],
         writer' = "down" => ~attached' /\ \A c \in Clients : place'[c] = "idle"
  PROVE  /\ flushed' \subseteq Items /\ file' \in Seq(Lines) /\ tail' \in Lines => TypeOK'
         /\ NoStrayItems' /\ InOrder' /\ DeferredFile' /\ OpenFile' /\ Ended'
<1> USE DEF IInv
<1>1. flushed' \subseteq Items /\ file' \in Seq(Lines) /\ tail' \in Lines => TypeOK'
  BY EmptySeq, BoundsAssumption DEF TypeOK
<1>2. NoStrayItems'
  <2>1. DOMAIN <<>> = {}
    BY EmptySeq
  <2> QED
    BY <2>1 DEF NoStrayItems
<1>3. InOrder' /\ DeferredFile' /\ OpenFile' /\ Ended'
  BY DEF InOrder, DeferredFile, OpenFile, Ended
<1> QED
  BY <1>1, <1>2, <1>3

(* With nothing left to write, what is in the file stays as it is. *)
LEMMA QuietInv ==
  ASSUME IInv, UNCHANGED <<session, base, sent, taken, file, tail>>,
         writer' \in {"gone", "down"},
         flushed' = flushed \/ (writer = "open" /\ todo = <<>> /\ flushed' = flushed \cup Received)
  PROVE  flushed' \subseteq Items /\ NoHeadless' /\ FlushedWritten' /\ DamageAccounted'
<1> USE DEF IInv
<1>1. Written' = Written /\ Parsed' = Parsed /\ FirstLine' = FirstLine
  BY DEF Written, Parsed, FirstLine
<1>2. /\ writer = "open" /\ todo = <<>> => Own = Received /\ Done = taken
      /\ taken \in Nat /\ base \in Nat
  BY EmptySeq DEF Own, Done, Received, TypeOK
<1>3. flushed' \subseteq Items
  <2>1. Received \subseteq Items
    BY <1>2 DEF Received, Items
  <2> QED
    BY <2>1 DEF TypeOK
<1>4. NoHeadless' /\ FlushedWritten'
  <2>1. writer = "open" => Own \subseteq Written /\ (tail # {} /\ Done = taken => Own = {})
    BY <1>2 DEF OpenFile, Own
  <2> QED
    BY <1>1, <1>2, <2>1 DEF NoHeadless, FlushedWritten
<1>5. DamageAccounted'
  <2>1. Unreadable' \subseteq Unreadable
    BY <1>1, <1>2 DEF Unreadable
  <2>2. AtRisk' \in 0 .. AtRisk
    BY DEF AtRisk
  <2> QED
    BY <2>1, <2>2, NoMoreDamage
<1> QED
  BY <1>3, <1>4, <1>5

(* The errors on which the writer exits. *)
LEMMA ExitIInv ==
  ASSUME IInv, WriterMaterializeFails \/ WriterFlushFails \/ WriterWriteFails
  PROVE  IInv'
<1> USE DEF IInv
<1>1. /\ Exit /\ UNCHANGED <<session, base, sent, taken, attached, request, file>>
      /\ writer' = "gone" /\ queue' = <<>> /\ buffered' = <<>> /\ todo' = <<>>
      /\ acker' = NoClient
  BY DEF WriterMaterializeFails, WriterFlushFails, WriterWriteFails, Exit, diskVars
<1>2. place' \in [Clients -> {"idle", "sending", "awaiting"}] /\ attached' \in BOOLEAN
  BY <1>1 DEF Exit, TypeOK
<1>3. /\ flushed' \subseteq Items /\ tail' \in Lines /\ file' \in Seq(Lines)
      /\ NoHeadless' /\ FlushedWritten' /\ DamageAccounted'
  <2>1. CASE WriterWriteFails
    BY <1>1, <2>1, CutShortInv DEF WriterWriteFails, TypeOK
  <2>2. CASE WriterMaterializeFails \/ WriterFlushFails
    <3>1. /\ tail' = tail
          /\ flushed' = flushed
             \/ (writer = "open" /\ todo = <<>> /\ flushed' = flushed \cup Received)
      BY <2>2 DEF WriterMaterializeFails, WriterFlushFails, Receive, diskVars
    <3> QED
      BY <1>1, <3>1, QuietInv DEF TypeOK
  <2> QED
    BY <2>1, <2>2
<1> QED
  BY <1>1, <1>2, <1>3, OverIInv

(* The process ends. *)
LEMMA CrashIInv ==
  ASSUME IInv, Crash
  PROVE  IInv'
<1> USE DEF IInv
<1>1. /\ UNCHANGED <<session, base, sent, taken, request, file, flushed>>
      /\ writer' = "down" /\ queue' = <<>> /\ buffered' = <<>> /\ todo' = <<>>
      /\ acker' = NoClient /\ attached' = FALSE
      /\ place' = [c \in Clients |-> "idle"]
  BY DEF Crash
<1>2. /\ flushed' \subseteq Items /\ tail' \in Lines /\ file' \in Seq(Lines)
      /\ NoHeadless' /\ FlushedWritten' /\ DamageAccounted'
  <2>1. CASE todo = <<>>
    <3>1. tail' = tail
      BY <2>1 DEF Crash
    <3> QED
      BY <1>1, <3>1, QuietInv DEF TypeOK
  <2>2. CASE todo # <<>>
    BY <1>1, <2>2, CutShortInv DEF Crash, TypeOK
  <2> QED
    BY <2>1, <2>2
<1> QED
  BY <1>1, <1>2, OverIInv

(* One more record is in the file; an unterminated line spoils it. *)
LEMMA WriteIInv ==
  ASSUME IInv, WriterWrite
  PROVE  IInv'
<1> USE DEF IInv
<1> DEFINE h == Head(todo)
<1>1. /\ todo # <<>> /\ file' = Append(file, tail \cup {h}) /\ tail' = {}
      /\ todo' = Tail(todo)
      /\ UNCHANGED <<session, base, sent, taken, attached, request, queue, writer, buffered,
                     flushed>>
  BY DEF WriterWrite
<1>2. /\ writer = "open" /\ h = Done + 1 /\ h \in Records
      /\ Done \in Int /\ Done + 1 <= taken /\ taken \in Nat /\ base \in Nat /\ sent \in Nat
      /\ taken <= sent
      /\ Done = -1 \/ Meta \in FirstLine
  BY <1>1, NextRecord DEF TypeOK
<1>3. /\ Len(todo) \in Nat \ {0} /\ todo' \in Seq(Records) /\ Len(todo') = Len(todo) - 1
      /\ \A i \in 1 .. Len(todo) - 1 : todo'[i] = todo[i + 1]
  BY <1>1, Behead DEF TypeOK
<1>4. /\ file' \in Seq(Lines) /\ file' # <<>>
      /\ ToSet(file') = ToSet(file) \cup {tail \cup {h}}
      /\ file'[1] = IF file = <<>> THEN tail \cup {h} ELSE file[1]
  <2>1. tail \cup {h} \in Lines
    BY <1>2 DEF TypeOK, Lines
  <2> QED
    BY <1>1, <2>1, LineAdded DEF TypeOK
<1>5. Done' = Done + 1
  <2>1. Done = taken - Len(todo) /\ Done' = taken' - Len(todo') /\ taken' = taken
    BY <1>1 DEF Done
  <2> QED
    BY <1>2, <1>3, <2>1
<1>6. Written' = Written \cup {h}
  <2>1. UNION ToSet(file') = (UNION ToSet(file)) \cup (tail \cup {h})
    BY <1>4
  <2> QED
    BY <1>1, <2>1 DEF Written
<1>7. Own' \subseteq Own \cup {h} /\ Own \subseteq Own'
  BY <1>1, <1>2, <1>5 DEF Own
<1>8. FirstLine' = file'[1] /\ FirstLine \subseteq FirstLine'
  BY <1>4 DEF FirstLine
<1>9. TypeOK'
  <2>1. /\ place' \in [Clients -> {"idle", "sending", "awaiting"}]
        /\ acker' \in Clients \cup {NoClient}
    BY DEF WriterWrite, Answered, TypeOK
  <2> QED
    BY <1>1, <1>3, <1>4, <2>1 DEF TypeOK, Lines
<1>10. NoStrayItems' /\ InOrder' /\ DeferredFile' /\ Ended'
  BY <1>1, <1>2 DEF NoStrayItems, InOrder, DeferredFile, Ended
<1>11. Meta \in FirstLine'
  <2>1. CASE Meta \in FirstLine
    BY <1>8, <2>1
  <2>2. CASE Meta \notin FirstLine
    BY <1>2, <1>4, <1>8, <2>2 DEF OpenFile, Blank, Meta
  <2> QED
    BY <2>1, <2>2
<1>12. OpenFile'
  <2>1. \A i \in 1 .. Len(todo') : todo'[i] = Done' + i
    BY <1>2, <1>3, <1>5 DEF OpenFile
  <2>2. Done' >= base
    BY <1>2, <1>5 DEF OpenFile, Blank
  <2>3. \A x \in Written' : x <= Done'
    BY <1>2, <1>5, <1>6, WrittenTyped DEF OpenFile
  <2>4. Own' \subseteq Written'
    BY <1>2, <1>6, <1>7 DEF OpenFile
  <2> QED
    BY <1>1, <1>2, <1>11, <2>1, <2>2, <2>3, <2>4 DEF OpenFile
<1>13. NoHeadless' /\ FlushedWritten'
  <2>1. h <= sent
    BY <1>2
  <2>2. \A x \in Written' : x <= sent
    BY <1>6, <2>1 DEF FlushedWritten
  <2> QED
    BY <1>1, <1>6, <1>11, <2>2 DEF NoHeadless, FlushedWritten
<1>14. DamageAccounted'
  <2>1. AtRisk' = 0
    BY <1>1 DEF AtRisk
  <2>2. CASE tail = {}
    <3>1. Unreadable' \subseteq Unreadable
      BY <1>1, <1>2, <1>4, <1>6, <1>7, <2>2, NextRecord DEF Unreadable, Parsed
    <3>2. AtRisk = 0
      BY <2>2 DEF AtRisk
    <3> QED
      BY <1>1, <2>1, <3>1, <3>2, NoMoreDamage
  <2>3. CASE tail # {}
    <3>1. AtRisk = 1 /\ Own = {}
      BY <1>2, <2>3 DEF AtRisk, OpenFile, Own
    <3>2. Unreadable' \subseteq Unreadable \cup {h}
      BY <1>1, <1>2, <1>4, <1>6, <1>7, <3>1 DEF Unreadable, Parsed, FlushedWritten
    <3>3. /\ IsFiniteSet(Unreadable \cup {h})
          /\ Cardinality(Unreadable \cup {h}) <= Cardinality(Unreadable) + 1
          /\ Cardinality(Unreadable \cup {h}) \in Nat
      BY UnreadableFinite, FS_AddElement
    <3>4. Cardinality(Unreadable') <= Cardinality(Unreadable \cup {h})
          /\ Cardinality(Unreadable') \in Nat
      BY <3>2, <3>3, FS_Subset, FS_CardinalityType
    <3> QED
      BY <1>1, <2>1, <3>1, <3>3, <3>4, UnreadableFinite DEF DamageAccounted, TypeOK
  <2> QED
    BY <2>2, <2>3
<1> QED
  BY <1>9, <1>10, <1>12, <1>13, <1>14

(* A later session opens a file whose metadata can be read. *)
LEMMA ResumeIInv ==
  ASSUME IInv, Resume
  PROVE  IInv'
<1> USE DEF IInv
<1>1. /\ writer = "down" /\ session < MaxSessions /\ Meta \in Parsed
      /\ session' = session + 1 /\ writer' = "open" /\ attached' = TRUE
      /\ base' = sent /\ taken' = sent
      /\ UNCHANGED <<sent, place, request, queue, buffered, todo, acker, file, tail, flushed>>
  BY DEF Resume, Loadable, diskVars
<1>2. queue = <<>> /\ todo = <<>> /\ buffered = <<>> /\ Len(todo) = 0 /\ sent \in Nat
  BY <1>1, EmptySeq DEF Ended, TypeOK
<1>3. Done' = sent /\ Own' = {}
  BY <1>1, <1>2 DEF Done, Own
<1>4. Written' = Written /\ Parsed' = Parsed /\ FirstLine' = FirstLine
  BY <1>1 DEF Written, Parsed, FirstLine
<1>5. TypeOK'
  BY <1>1, <1>2, BoundsAssumption DEF TypeOK
<1>6. NoStrayItems' /\ DeferredFile' /\ Ended'
  BY <1>1 DEF NoStrayItems, DeferredFile, Ended
<1>7. InOrder'
  BY <1>1, <1>2, NumberingEmpty DEF InOrder
<1>8. Meta \in FirstLine
  BY <1>1 DEF Loadable, Parsed, NoHeadless, Meta, Pieces
<1>9. OpenFile'
  BY <1>1, <1>2, <1>3, <1>4, <1>8 DEF OpenFile, FlushedWritten
<1>10. NoHeadless' /\ FlushedWritten'
  BY <1>1, <1>4 DEF NoHeadless, FlushedWritten
<1>11. DamageAccounted'
  <2>1. Unreadable' = Unreadable /\ AtRisk = 0 /\ AtRisk' \in 0 .. 1
    BY <1>1, <1>3, <1>4 DEF Unreadable, AtRisk
  <2> QED
    BY <1>1, <2>1, UnreadableFinite DEF DamageAccounted, TypeOK
<1> QED
  BY <1>5, <1>6, <1>7, <1>9, <1>10, <1>11

(* The invariant is inductive. *)
LEMMA NextIInv == IInv /\ [Next]_vars => IInv'
<1>1. ASSUME IInv, Next PROVE IInv'
  BY <1>1, CallIInv, SendOkIInv, WriterAddIInv, MaterializeIInv, AnswerIInv, ExitIInv,
     WriteIInv, CrashIInv, ResumeIInv DEF Next, ClientStep, WriterStep
<1>2. ASSUME IInv, UNCHANGED vars PROVE IInv'
  <2>1. UNCHANGED <<session, base, sent, taken, attached, place, request, queue, writer,
                    buffered, todo, acker, file, tail, flushed>>
    BY <1>2 DEF vars, clientVars, writerVars, diskVars
  <2>2. TypeOK' /\ NoStrayItems' /\ InOrder' /\ Ended'
    BY <1>2, <2>1 DEF IInv, TypeOK, NoStrayItems, InOrder, Ended
  <2> QED
    BY <1>2, <2>1, <2>2, FileUntouched DEF IInv, FileInv
<1> QED
  BY <1>1, <1>2

(* The inductive invariant holds always. *)
LEMMA Invariant == Spec => []IInv
  BY InitIInv, NextIInv, PTL DEF Spec
-----------------------------------------------------------------------------
(* The state of the channel, the writer and the file is well typed. *)
THEOREM TypeCorrect == Spec => []TypeOK
<1>1. IInv => TypeOK
  BY DEF IInv
<1> QED
  BY <1>1, Invariant, PTL

(* What stands in the first line, and where the text is no UTF-8. *)
LEMMA NextText ==
  ASSUME IInv, TextInv, Next
  PROVE  TextInv'
<1>1. CASE WriterWrite
  <2>1. /\ file' = Append(file, tail \cup {Head(todo)}) /\ tail' = {} /\ session' = session
        /\ todo # <<>> /\ writer = "open"
    BY <1>1, NextRecord DEF WriterWrite
  <2>2. Head(todo) \in Records /\ Head(todo) # Split
    BY <2>1, NextRecord DEF Pieces
  <2>3. tail \cup {Head(todo)} \in Lines
    BY <2>2 DEF IInv, TypeOK, Lines
  <2>4. /\ file' # <<>> /\ ToSet(file') = ToSet(file) \cup {tail \cup {Head(todo)}}
        /\ FirstLine' = IF file = <<>> THEN tail \cup {Head(todo)} ELSE FirstLine
    BY <2>1, <2>3, LineAdded DEF IInv, TypeOK, FirstLine
  <2>5. SplitAtEnd'
    BY <2>1, <2>2, <2>4 DEF TextInv, SplitAtEnd
  <2>6. NotGlued'
    BY <2>1, <2>4 DEF TextInv, NotGlued
  <2> QED
    BY <2>5, <2>6 DEF TextInv
<1>2. ASSUME CutShort, todo # <<>>, writer' \in {"gone", "down"}, UNCHANGED <<session, file>>
      PROVE  TextInv'
  <2>1. writer = "open"
    BY <1>2, NextRecord
  <2>2. SplitAtEnd'
    BY <1>2 DEF TextInv, SplitAtEnd
  <2>3. NotGlued'
    BY <1>2, <2>1 DEF TextInv, NotGlued, CutShort, FirstLine
  <2> QED
    BY <2>2, <2>3 DEF TextInv
<1>3. ASSUME UNCHANGED <<session, file, tail>>,
             writer' \in {"deferred", "open"} => writer \in {"deferred", "open"}
      PROVE  TextInv'
  BY <1>3 DEF TextInv, SplitAtEnd, NotGlued, FirstLine
<1>4. CASE Resume
  <2>1. /\ Split \notin tail /\ UNCHANGED <<file, tail>> /\ session' # 1
    BY <1>4 DEF Resume, Loadable, Readable, Written, diskVars, IInv, TypeOK
  <2> QED
    BY <2>1 DEF TextInv, SplitAtEnd, NotGlued
<1>5. CASE WriterWriteFails
  BY <1>2, <1>5 DEF WriterWriteFails, Exit
<1>6. CASE Crash
  BY <1>2, <1>3, <1>6 DEF Crash
<1>7. CASE (\E c \in Clients : Call(c) \/ ClientStep(c)) \/ WriterFlush \/ WriterFlushFails
  BY <1>3, <1>7 DEF Call, ClientStep, SendOk, SendErr, RecordItems, Persist, Flush, Shutdown,
     Begin, WriterFlush, WriterFlushFails, Exit, writerVars, diskVars
<1>8. CASE \/ WriterAdd \/ WriterMaterialize \/ WriterMaterializeFails
           \/ WriterPersistAgain \/ WriterShutdown
  BY <1>3, <1>8 DEF WriterAdd, WriterMaterialize, WriterMaterializeFails, WriterPersistAgain,
     WriterShutdown, Receive, Exit, diskVars
<1> QED
  BY <1>1, <1>4, <1>5, <1>6, <1>7, <1>8 DEF Next, WriterStep

(* A thread of which an item was written can be loaded, but for the two    *)
(* damages that take the whole file.                                       *)
THEOREM ThreadNotLost == Spec => []ThreadLoads
<1>1. Init => TextInv
  BY NoLines DEF Init, TextInv, SplitAtEnd, NotGlued, FirstLine, Meta
<1>2. IInv /\ TextInv /\ [Next]_vars => TextInv'
  <2>1. ASSUME TextInv, UNCHANGED vars PROVE TextInv'
    BY <2>1 DEF vars, writerVars, diskVars, TextInv, SplitAtEnd, NotGlued, FirstLine
  <2> QED
    BY <2>1, NextText
<1>3. ASSUME IInv, TextInv PROVE ThreadLoads
  <2>1. SUFFICES ASSUME Written \cap Items # {}, ~ Glued PROVE Loadable # {} \/ SplitLast
    BY DEF ThreadLoads
  <2>2. FirstLine = {Meta}
    <3>1. Meta \in FirstLine
      BY <1>3, <2>1 DEF IInv, NoHeadless, Items, Torn, Split, Pieces
    <3>2. session = 1 \/ session > 1
      BY <1>3, BoundsAssumption DEF IInv, TypeOK
    <3> QED
      BY <1>3, <2>1, <3>1, <3>2 DEF Glued, TextInv, NotGlued
  <2>3. FirstLine \in ToSet(file) \cup {tail}
    <3>1. file # <<>> => file[1] \in ToSet(file)
      BY <1>3, EmptySeq, LenProperties DEF ToSet, IInv, TypeOK
    <3> QED
      BY <3>1 DEF FirstLine
  <2>4. Meta \in Parsed
    BY <2>2, <2>3 DEF Parsed, Written, Meta, Torn, Split, Pieces
  <2>5. CASE Readable
    BY <2>4, <2>5 DEF Loadable
  <2>6. CASE ~ Readable
    BY <1>3, <2>6 DEF Readable, Written, TextInv, SplitAtEnd, SplitLast, IInv, TypeOK
  <2> QED
    BY <2>5, <2>6
<1> QED
  BY <1>1, <1>2, <1>3, Invariant, PTL DEF Spec

(* While the thread can be loaded, at most one flushed item per earlier      *)
(* session is missing.                                                       *)
THEOREM DamageStaysBounded == Spec => []DamageBounded
<1>1. ASSUME IInv, Loadable # {} PROVE Cardinality(flushed \ Loadable) < session
  <2>1. /\ Cardinality(flushed \ Parsed) <= Cardinality(Unreadable)
        /\ Cardinality(flushed \ Parsed) \in Nat
    BY <1>1, UnreadableFinite, FS_Subset, FS_CardinalityType DEF Unreadable
  <2>3. Loadable = Parsed
    BY <1>1 DEF Loadable
  <2>2. AtRisk \in Nat /\ session \in Nat
    BY <1>1 DEF AtRisk, IInv, TypeOK
  <2> QED
    BY <1>1, <2>1, <2>2, <2>3, UnreadableFinite DEF IInv, DamageAccounted
<1>2. IInv => DamageBounded
  BY <1>1 DEF DamageBounded
<1> QED
  BY <1>2, Invariant, PTL
-----------------------------------------------------------------------------
(* The steps of the recorder are steps of the abstract log, or change      *)
(* nothing in it.                                                          *)
Kept == Written \cap Items

(* The next item to be written is the one the abstract log keeps next. *)
LEMMA NextIsFollowing ==
  ASSUME IInv, todo # <<>>, Head(todo) # Meta
  PROVE  Head(todo) \in Log!Following
<1>1. /\ writer = "open" /\ Head(todo) = Done + 1 /\ Done \in Int /\ Done + 1 <= taken
      /\ Done # -1 /\ taken \in Nat /\ base \in Nat
  BY NextRecord DEF Meta
<1>2. Done >= base /\ taken <= sent /\ sent \in Nat
  BY <1>1 DEF IInv, OpenFile, TypeOK
<1>3. Head(todo) \in Log!Mine \ Kept
  BY <1>1, <1>2 DEF Log!Mine, Kept, IInv, OpenFile
<1>4. ASSUME NEW j \in Log!Mine, j < Head(todo) PROVE j \in Kept
  <2>1. j \in Own /\ j \in Items
    BY <1>1, <1>2, <1>4 DEF Log!Mine, Own, Items
  <2> QED
    BY <1>1, <2>1 DEF Kept, IInv, OpenFile
<1> QED
  BY <1>3, <1>4 DEF Log!Following, Kept

(* What the writer has received when nothing is left to write may be *)
(* promised.                                                         *)
LEMMA ReceivedIsKept ==
  ASSUME IInv, writer = "open", todo = <<>>
  PROVE  taken \in base .. sent /\ (base + 1) .. taken \subseteq Kept
<1>1. taken \in base .. sent /\ base \in Nat /\ sent \in Nat
  BY DEF IInv, TypeOK
<1>2. Done = taken
  BY <1>1, EmptySeq DEF Done
<1>3. (base + 1) .. taken \subseteq Written
  BY <1>2 DEF IInv, OpenFile, Own
<1> QED
  BY <1>1, <1>3 DEF Kept, Items

(* The steps of the clients. *)
LEMMA ClientsRefine ==
  ASSUME IInv, NEW c \in Clients, Call(c) \/ ClientStep(c)
  PROVE  [Log!Next]_(Log!vars)
<1>1. CASE Call(c) \/ SendErr(c)
  BY <1>1 DEF Call, SendErr, RecordItems, Persist, Flush, Shutdown, Begin, writerVars,
     diskVars, Log!vars, Phase, Written
<1>2. CASE SendOk(c)
  <2>1. /\ request[c].size \in Nat /\ sent \in Nat /\ sent' = sent + request[c].size
        /\ UNCHANGED <<base, writer, file, tail, flushed>>
        /\ writer \in {"deferred", "open"}
    BY <1>2, BoundsAssumption DEF SendOk, writerVars, diskVars, IInv, TypeOK, Requests,
       Ended
  <2>2. Phase' = Phase /\ Phase # "ended" /\ Written' = Written
    BY <2>1 DEF Phase, Written
  <2>3. CASE request[c].size = 0
    BY <2>1, <2>2, <2>3 DEF Log!vars
  <2>4. CASE request[c].size # 0
    BY <2>1, <2>2, <2>4 DEF Log!Next, Log!Accept
  <2> QED
    BY <2>3, <2>4
<1> QED
  BY <1>1, <1>2 DEF ClientStep

(* The steps of the writer that keep or promise nothing. *)
LEMMA IdleWriterRefines ==
  ASSUME IInv, WriterAdd \/ WriterMaterialize \/ WriterMaterializeFails
                 \/ WriterPersistAgain \/ WriterShutdown
  PROVE  [Log!Next]_(Log!vars)
<1>1. CASE WriterAdd \/ WriterPersistAgain \/ WriterShutdown
  BY <1>1 DEF WriterAdd, WriterPersistAgain, WriterShutdown, diskVars, Log!vars, Phase,
     Written
<1>2. CASE WriterMaterialize
  BY <1>2 DEF WriterMaterialize, diskVars, Log!Next, Log!Open, Phase, Written
<1>3. CASE WriterMaterializeFails
  BY <1>3 DEF WriterMaterializeFails, Exit, diskVars, Log!Next, Log!End, Phase, Written
<1> QED
  BY <1>1, <1>2, <1>3

(* A flush promises what is kept, whether it fails or not. *)
LEMMA FlushRefines ==
  ASSUME IInv, WriterFlush \/ WriterFlushFails
  PROVE  [Log!Next]_(Log!vars)
<1>1. /\ todo = <<>> /\ writer \in {"deferred", "open"}
      /\ UNCHANGED <<base, sent, file, tail>>
  BY DEF WriterFlush, WriterFlushFails, Receive, diskVars
<1>2. Written' = Written
  BY <1>1 DEF Written
<1>3. ASSUME writer = "open", flushed' = flushed \cup Received PROVE Log!MakePromise
  BY <1>1, <1>3, ReceivedIsKept DEF Log!MakePromise, Received, Kept
<1>4. CASE WriterFlush
  <2>1. writer' = writer
    BY <1>4 DEF WriterFlush
  <2>2. CASE writer = "open"
    BY <1>1, <1>2, <1>3, <1>4, <2>1, <2>2 DEF WriterFlush, Log!Next, Log!Promise, Phase
  <2>3. CASE writer = "deferred"
    BY <1>1, <1>2, <1>4, <2>1, <2>3 DEF WriterFlush, Log!vars, Phase
  <2> QED
    BY <1>1, <2>2, <2>3
<1>5. CASE WriterFlushFails
  <2>1. /\ writer = "open" /\ writer' = "gone" /\ flushed' = flushed \cup Received
    BY <1>5 DEF WriterFlushFails, Exit
  <2> QED
    BY <1>1, <1>2, <1>3, <2>1 DEF Log!Next, Log!End, Phase
<1> QED
  BY <1>4, <1>5

(* A record written is the next item, or the metadata. *)
LEMMA WriteRefines ==
  ASSUME IInv, WriterWrite
  PROVE  [Log!Next]_(Log!vars)
<1> DEFINE h == Head(todo)
<1>1. /\ todo # <<>> /\ writer = "open" /\ h \in Records
      /\ file' = Append(file, tail \cup {h}) /\ tail' = {}
      /\ UNCHANGED <<base, sent, writer, flushed>>
  BY NextRecord DEF WriterWrite
<1>2. ToSet(file') = ToSet(file) \cup {tail \cup {h}}
  <2>1. tail \cup {h} \in Lines /\ file \in Seq(Lines)
    BY <1>1 DEF IInv, TypeOK, Lines
  <2> QED
    BY <1>1, <2>1, LineAdded
<1>3. Written' = Written \cup {h}
  <2>1. UNION ToSet(file') = (UNION ToSet(file)) \cup (tail \cup {h})
    BY <1>2
  <2> QED
    BY <1>1, <2>1 DEF Written
<1>4. CASE h = Meta
  <2>1. Written' \cap Items = Written \cap Items
    BY <1>3, <1>4 DEF Items, Meta
  <2> QED
    BY <1>1, <2>1 DEF Log!vars, Phase
<1>5. CASE h # Meta
  <2>1. Written' \cap Items = (Written \cap Items) \cup {h}
    BY <1>1, <1>3, <1>5 DEF Records
  <2>2. h \in Log!Following
    BY <1>1, <1>5, NextIsFollowing
  <2> QED
    BY <1>1, <2>1, <2>2 DEF Log!Next, Log!Keep, Phase
<1> QED
  BY <1>4, <1>5

(* The writer or the process ends, maybe with one more item kept. *)
LEMMA OverRefines ==
  ASSUME IInv, WriterWriteFails \/ Crash
  PROVE  [Log!Next]_(Log!vars)
<1>1. /\ UNCHANGED <<base, sent, file, flushed>> /\ writer' \in {"gone", "down"}
      /\ IF todo = <<>> THEN tail' = tail ELSE CutShort
      /\ writer \in {"deferred", "open", "gone"}
  BY NextRecord DEF WriterWriteFails, Crash, Exit, IInv, TypeOK
<1>2. Phase' = "ended"
  BY <1>1 DEF Phase
<1>3. CASE tail' \cap Items = tail \cap Items
  <2>1. Written' \cap Items = Written \cap Items
    BY <1>1, <1>3 DEF Written
  <2> QED
    BY <1>1, <1>2, <2>1 DEF Log!Next, Log!End, Log!vars, Phase
<1>4. CASE tail' \cap Items # tail \cap Items
  <2>1. todo # <<>> /\ tail' = tail \cup {Head(todo)} /\ Head(todo) \in Items
    BY <1>1, <1>4, NextRecord DEF CutShort, Records, Torn, Split, Pieces, Items
  <2>2. writer = "open" /\ Head(todo) \in Log!Following
    BY <2>1, NextRecord, NextIsFollowing DEF Items, Meta
  <2>3. Written' \cap Items = (Written \cap Items) \cup {Head(todo)}
    BY <1>1, <2>1 DEF Written
  <2> QED
    BY <1>1, <1>2, <2>2, <2>3 DEF Log!Next, Log!End, Phase
<1> QED
  BY <1>3, <1>4

(* A new session of the recorder is one of the log. *)
LEMMA ResumeRefines ==
  ASSUME IInv, Resume
  PROVE  [Log!Next]_(Log!vars)
  BY DEF Resume, diskVars, Log!Next, Log!Resume, Phase, Written

(* So every step refines the log. *)
LEMMA StepRefines == IInv /\ [Next]_vars => [Log!Next]_(Log!vars)
<1>1. ASSUME IInv, Next PROVE [Log!Next]_(Log!vars)
  BY <1>1, ClientsRefine, IdleWriterRefines, FlushRefines, WriteRefines, OverRefines,
     ResumeRefines DEF Next, WriterStep
<1>2. ASSUME UNCHANGED vars PROVE UNCHANGED Log!vars
  BY <1>2 DEF vars, clientVars, writerVars, diskVars, Log!vars, Phase, Written
<1> QED
  BY <1>1, <1>2

(* The recorder implements the abstract log, but for its progress: what a  *)
(* session keeps is kept in the order in which it was accepted, what was   *)
(* promised is kept, and a session that is over keeps nothing more.        *)
THEOREM KeepsTheLog == Spec => Log!Safety
<1>1. Init => Log!Init
  BY NoLines DEF Init, Log!Init, Phase, Written
<1> QED
  BY <1>1, StepRefines, Invariant, PTL DEF Spec, Log!Safety
=============================================================================
