---------------------------- MODULE DelegatesProofs ----------------------------
(***************************************************************************)
(* A review for any number of calls and messages and any capacity of the   *)
(* channels.  An approval of the user is in one place at a time: with      *)
(* forward_events, in the channel to the child, or with a call (Granted).  *)
(* The places an event passes hold consecutive pieces of what the child    *)
(* said, and behind them the child's channel has the rest of it (Passing,  *)
(* Rest).  Both are lost only where nothing follows them any more.         *)
(***************************************************************************)
EXTENDS Delegates, FiniteSetTheorems, SequenceTheorems, TLAPS

Events ==
    {Event(k, 0) : k \in {"complete", "aborted", "closed"}}
        \cup [kind : {"message"}, n : Nat]
Questions == {Event("ask", n) : n \in Calls}
CallerOps == {"input", "shutdown"}
Answers == {"approved", "denied", "abort"}
ChildOps == CallerOps \cup Answers \cup {"interrupt"}

(* The variables one by one: of the parent, of the review, of the tasks    *)
(* between, of the child, and the channels.                                *)
ParentTyped ==
    /\ loop \in {"idle", "cancel", "grace", "leaving", "over"}
    /\ active \in BOOLEAN /\ cancelled \in BOOLEAN
    /\ question \in 0 .. MaxCalls /\ consents \in Nat

TaskPlaces == {"starting", "reading", "looking", "exiting", "flushing", "done", "dropped"}

TaskTyped ==
    /\ task \in [pc : TaskPlaces, output : {"none", "result"}]
    /\ doomed \in BOOLEAN
    /\ exits \in Seq({"none", "result"})
    /\ received \in Seq(Events)

ForwardTyped ==
    /\ forward \in [pc : {"none", "receiving", "asking", "waiting", "replying", "sending",
                          "interrupting", "stopping", "draining", "done"},
                    event : Events \cup Questions \cup {NoEvent},
                    answer : Answers \cup {"none"}]
    /\ forward.pc = "asking" => forward.event \in Questions
    /\ forward.pc = "sending" => forward.event \in Events
    /\ forward.pc = "replying" => forward.answer \in Answers

DelegateTyped ==
    /\ stop \in BOOLEAN
    /\ forwardOps \in [pc : {"none", "receiving", "submitting", "done"},
                       op : CallerOps \cup {"none"}]
    /\ forwardOps.pc = "submitting" => forwardOps.op \in CallerOps
    /\ bridge \in [pc : {"none", "receiving", "sending", "closing", "done"},
                   event : Events \cup {NoEvent}]
    /\ bridge.pc = "sending" => bridge.event \in Events

ChildTyped ==
    /\ child \in {"none", "running", "stopped"}
    /\ turn \in {"none", "running", "over"}
    /\ calls \in [Calls -> {"none", "pending", "approved", "denied", "dropped"}]
    /\ slot \in 0 .. MaxCalls

ChannelsTyped ==
    /\ ops \in Seq(CallerOps) /\ Len(ops) <= Capacity
    /\ subs \in Seq(ChildOps) /\ Len(subs) <= Capacity
    /\ events \in Seq(Events \cup Questions)
    /\ out \in Seq(Events) /\ Len(out) <= Capacity
    /\ bridged \in Seq(Events) /\ Len(bridged) <= Capacity

SaidTyped == said \in Seq(Events)

Typed ==
    /\ ParentTyped /\ TaskTyped /\ ForwardTyped /\ DelegateTyped
    /\ ChildTyped /\ ChannelsTyped /\ SaidTyped

(* An answer is held while its question is, and until it is passed on. *)
AnswerHeld ==
    /\ forward.answer # "none" => forward.pc \in {"waiting", "replying"}
    /\ question # 0 => forward.pc = "waiting" /\ forward.answer = "none"

(* Every approval that is anywhere is one the user gave. *)
Approved == {n \in Calls : calls[n] = "approved"}
Sent(s) == {k \in 1 .. Len(s) : s[k] = "approved"}
Held == IF forward.answer = "approved" THEN 1 ELSE 0
Granted == Cardinality(Approved) + Cardinality(Sent(subs)) + Held <= consents

(* Before the review starts there is no child. *)
Fresh ==
    task.pc = "starting" =>
        /\ child = "none" /\ turn = "none"
        /\ forward.pc = "none" /\ forwardOps.pc = "none" /\ bridge.pc = "none"
        /\ ops = <<>> /\ subs = <<>> /\ events = <<>> /\ out = <<>> /\ bridged = <<>>
        /\ received = <<>> /\ said = <<>>

(* A sequence is the piece of t behind its first n. *)
Piece(t, s, n) ==
    /\ n + Len(s) <= Len(t)
    /\ \A i \in 1 .. Len(s) : t[n + i] = s[i]

(* How many events the review, its channel, the bridge, the channel before *)
(* it and forward_events have, all told.                                   *)
AtReview == Len(received) + Len(bridged)
AtBridge == AtReview + (IF bridge.pc = "sending" THEN 1 ELSE 0)
AtOut == AtBridge + Len(out)
Passed == AtOut + (IF forward.pc = "sending" THEN 1 ELSE 0)

Seen == Piece(said, received, 0) /\ Piece(said, bridged, Len(received))

(* While the review reads, so are the events on their way to it. *)
Passing ==
    task.pc = "reading" =>
        /\ bridge.pc = "sending" => said[AtBridge] = bridge.event
        /\ Piece(said, out, AtBridge)
        /\ forward.pc = "sending" => said[Passed] = forward.event
        /\ Passed <= Len(said)

(* Event k of es comes behind the first start[k] of t; a question is not *)
(* counted.                                                              *)
Follows(t, start, es, from, to) ==
    /\ start[1] = from /\ start[Len(es) + 1] = to
    /\ \A k \in 1 .. Len(es) :
        IF es[k].kind = "ask"
          THEN start[k + 1] = start[k]
          ELSE start[k + 1] = start[k] + 1 /\ t[start[k + 1]] = es[k]

(* The rest is in the child's channel, until forward_events stops. *)
Forwards == forward.pc \in {"receiving", "asking", "waiting", "replying", "sending"}
Rest ==
    task.pc = "reading" /\ Forwards =>
        \E start \in [1 .. Len(events) + 1 -> 0 .. Len(said)] :
            Follows(said, start, events, Passed, Len(said))

(* Review mode is left by the task before it is flushed, if it saw no      *)
(* cancellation, and by the loop, once each.                               *)
Exits ==
    /\ cancelled <=> loop \in {"grace", "leaving", "over"}
    /\ loop = "over" => exits # <<>>
    /\ loop = "idle" /\ ~ active => exits # <<>>
    /\ task.pc = "flushing" /\ ~ cancelled => exits # <<>>
    /\ Len(exits) <= (IF loop = "over" THEN 1 ELSE 0)
                       + (IF task.pc \in {"flushing", "done", "dropped"} THEN 1 ELSE 0)

(* The review's output is that of a completed turn. *)
Output ==
    task.output = "result" \/ "result" \in ToSet(exits) =>
        Event("complete", 0) \in ToSet(received)

ConsentInv == AnswerHeld /\ Granted
EventInv == Fresh /\ Seen /\ Passing /\ Rest
LeaveInv == Exits /\ Output

IInv == Typed /\ ConsentInv /\ EventInv /\ LeaveInv

USE ConstantsAssumption DEF ConstantsAssumption
--------------------------------------------------------------------------------
(* The first of a sequence, and the rest. *)
LEMMA Behead ==
  ASSUME NEW S, NEW s \in Seq(S), s # <<>>
  PROVE  /\ Head(s) = s[1] /\ Head(s) \in S /\ Len(s) \in Nat \ {0}
         /\ Tail(s) \in Seq(S) /\ Len(Tail(s)) = Len(s) - 1
         /\ \A i \in 1 .. Len(s) - 1 : Tail(s)[i] = s[i + 1]
<1>1. Head(s) = s[1]
  OBVIOUS
<1> QED
  BY <1>1, HeadTailProperties, EmptySeq

(* A sequence with one more. *)
LEMMA OneMore ==
  ASSUME NEW S, NEW s \in Seq(S), NEW x \in S
  PROVE  /\ Append(s, x) \in Seq(S) /\ Append(s, x) # <<>>
         /\ Len(s) \in Nat /\ Len(Append(s, x)) = Len(s) + 1
         /\ \A i \in 1 .. Len(s) : Append(s, x)[i] = s[i]
         /\ Append(s, x)[Len(s) + 1] = x
         /\ ToSet(Append(s, x)) = ToSet(s) \cup {x}
<1>1. /\ Append(s, x) \in Seq(S) /\ Append(s, x) # <<>>
      /\ Len(s) \in Nat /\ Len(Append(s, x)) = Len(s) + 1
      /\ \A i \in 1 .. Len(s) : Append(s, x)[i] = s[i]
      /\ Append(s, x)[Len(s) + 1] = x
  BY AppendProperties, LenProperties
<1>2. DOMAIN s = 1 .. Len(s) /\ DOMAIN Append(s, x) = 1 .. Len(s) + 1
  BY <1>1, LenProperties
<1> QED
  BY <1>1, <1>2 DEF ToSet

(* Two sequences, one behind the other. *)
LEMMA Joined ==
  ASSUME NEW S, NEW s \in Seq(S), NEW t \in Seq(S)
  PROVE  /\ s \o t \in Seq(S)
         /\ Len(s) \in Nat /\ Len(t) \in Nat /\ Len(s \o t) = Len(s) + Len(t)
         /\ \A i \in 1 .. Len(s) : (s \o t)[i] = s[i]
         /\ \A i \in 1 .. Len(t) : (s \o t)[Len(s) + i] = t[i]
<1>1. Len(s) \in Nat /\ Len(t) \in Nat
  BY LenProperties
<1>2. /\ s \o t \in Seq(S) /\ Len(s \o t) = Len(s) + Len(t)
      /\ \A i \in 1 .. Len(s) + Len(t) : (s \o t)[i] =
             IF i <= Len(s) THEN s[i] ELSE t[i - Len(s)]
  BY ConcatProperties
<1>3. ASSUME NEW i \in 1 .. Len(t) PROVE (s \o t)[Len(s) + i] = t[i]
  BY <1>1, <1>2
<1> QED
  BY <1>1, <1>2, <1>3

(* The events of the child and their kinds. *)
LEMMA Kinds ==
  /\ \A e \in Events : e.kind # "ask"
  /\ \A e \in Events : e.kind = "complete" => e = Event("complete", 0)
  /\ \A e \in Events \cup Questions : e.kind = "ask" => e \in Questions
  /\ \A e \in Questions : e.kind = "ask" /\ e.n \in Calls
  /\ \A k \in {"complete", "aborted", "closed"} : Event(k, 0) \in Events
  /\ \A n \in Nat : Event("message", n) \in Events
  /\ \A n \in Calls : Event("ask", n) \in Questions
  BY DEF Events, Questions, Event
--------------------------------------------------------------------------------
(* What is said of the variables one by one gives their ranges. *)
LEMMA TypedRanges == Typed => TypeOK
<1> SUFFICES ASSUME Typed PROVE TypeOK
  OBVIOUS
<1> USE DEF Typed
<1>1. {active, cancelled, stop, doomed} \subseteq BOOLEAN
  BY DEF ParentTyped, TaskTyped, DelegateTyped
<1>2. \A n \in {Len(ops), Len(subs), Len(out), Len(bridged)} : n <= Capacity
  BY DEF ChannelsTyped
<1>3. /\ task.pc \in TaskPlaces /\ exits \in Seq({"none", "result"})
      /\ loop \in {"idle", "cancel", "grace", "leaving", "over"}
      /\ question \in 0 .. MaxCalls /\ slot \in 0 .. MaxCalls
      /\ calls \in [Calls -> {"none", "pending", "approved", "denied", "dropped"}]
      /\ consents \in Nat
  BY DEF ParentTyped, TaskTyped, ChildTyped
<1> QED
  BY <1>1, <1>2, <1>3 DEF TypeOK, TaskPlaces

(* What is not touched keeps its type. *)
LEMMA TypeKept ==
  ASSUME Typed
  PROVE  /\ UNCHANGED <<loop, active, cancelled, question, consents>> => ParentTyped'
         /\ UNCHANGED <<task, doomed, exits, received>> => TaskTyped'
         /\ UNCHANGED forward => ForwardTyped'
         /\ UNCHANGED <<stop, forwardOps, bridge>> => DelegateTyped'
         /\ UNCHANGED <<child, turn, calls, slot>> => ChildTyped'
         /\ UNCHANGED <<ops, subs, events, out, bridged>> => ChannelsTyped'
         /\ UNCHANGED said => SaidTyped'
<1>1. /\ UNCHANGED <<loop, active, cancelled, question, consents>> => ParentTyped'
      /\ UNCHANGED <<task, doomed, exits, received>> => TaskTyped'
      /\ UNCHANGED said => SaidTyped'
  BY DEF Typed, ParentTyped, TaskTyped, SaidTyped
<1>2. UNCHANGED forward => ForwardTyped'
  BY DEF Typed, ForwardTyped
<1>3. UNCHANGED <<stop, forwardOps, bridge>> => DelegateTyped'
  BY DEF Typed, DelegateTyped
<1>4. /\ UNCHANGED <<child, turn, calls, slot>> => ChildTyped'
      /\ UNCHANGED <<ops, subs, events, out, bridged>> => ChannelsTyped'
  BY DEF Typed, ChildTyped, ChannelsTyped
<1> QED
  BY <1>1, <1>2, <1>3, <1>4

(* The state stays well typed: the parent ... *)
LEMMA ParentKeepsTypes ==
  ASSUME Typed, Take \/ LoopStep \/ \E d \in {"approved", "denied"} : Answer(d)
  PROVE  Typed'
<1> USE DEF delegateVars, taskVars, childVars, channels
<1>1. CASE Take
  <2>1. active' \in BOOLEAN
    BY <1>1 DEF Take
  <2>2. question' \in 0 .. MaxCalls
    BY <1>1 DEF Take
  <2>3. ParentTyped'
    BY <1>1, <2>1, <2>2 DEF Take, Typed, ParentTyped
  <2> QED
    BY <1>1, <2>3, TypeKept DEF Take, Typed
<1>2. CASE CancelToken
  <2>1. ParentTyped'
    BY <1>2 DEF CancelToken, Typed, ParentTyped
  <2> QED
    BY <1>2, <2>1, TypeKept DEF CancelToken, Typed
<1>3. CASE AbortTask
  <2>1. ParentTyped' /\ TaskTyped'
    BY <1>3 DEF AbortTask, Typed, ParentTyped, TaskTyped
  <2> QED
    BY <1>3, <2>1, TypeKept DEF AbortTask, Typed
<1>4. CASE Leave
  <2>1. ParentTyped'
    BY <1>4 DEF Leave, Typed, ParentTyped
  <2>2. TaskTyped'
    BY <1>4, OneMore DEF Leave, Typed, TaskTyped
  <2> QED
    BY <1>4, <2>1, <2>2, TypeKept DEF Leave, Typed
<1>5. ASSUME NEW d \in {"approved", "denied"}, Answer(d) PROVE Typed'
  <2>1. ParentTyped'
    BY <1>5 DEF Answer, Typed, ParentTyped
  <2>2. ForwardTyped'
    BY <1>5 DEF Answer, Typed, ForwardTyped, Answers
  <2> QED
    BY <1>5, <2>1, <2>2, TypeKept DEF Answer, Typed
<1> QED
  BY <1>1, <1>2, <1>3, <1>4, <1>5 DEF LoopStep

(* ... the review ... *)
LEMMA TaskKeepsTypes ==
  ASSUME Typed, TaskStep
  PROVE  Typed'
<1> USE DEF delegateVars, parentVars, childVars, channels
<1>1. CASE TaskStart
  <2>1. /\ Len(<<"input">>) = 1 /\ <<"input">> \in Seq(CallerOps)
    BY DEF CallerOps
  <2>2. ChannelsTyped'
    BY <1>1, <2>1 DEF TaskStart, Typed, ChannelsTyped
  <2>3. TaskTyped'
    BY <1>1 DEF TaskStart, Typed, TaskTyped, TaskGoto, TaskPlaces
  <2>4. ForwardTyped'
    BY <1>1 DEF TaskStart, Typed, ForwardTyped
  <2>5. DelegateTyped' /\ ChildTyped'
    BY <1>1 DEF TaskStart, Typed, DelegateTyped, ChildTyped
  <2> QED
    BY <1>1, <2>2, <2>3, <2>4, <2>5, TypeKept DEF TaskStart, Typed
<1>2. CASE TaskStartFails \/ TaskReadClosed \/ TaskLook \/ TaskDrop
  <2>1. PICK pc \in TaskPlaces : TaskGoto(pc) /\ UNCHANGED <<doomed, exits, received>>
    BY <1>2 DEF TaskStartFails, TaskReadClosed, TaskLook, TaskDrop, TaskPlaces
  <2>2. TaskTyped'
    BY <2>1 DEF TaskGoto, Typed, TaskTyped
  <2> QED
    BY <1>2, <2>2, TypeKept DEF TaskStartFails, TaskReadClosed, TaskLook, TaskDrop, Typed
<1>3. CASE TaskRead
  <2>1. /\ Head(bridged) \in Events /\ Tail(bridged) \in Seq(Events)
        /\ Len(Tail(bridged)) = Len(bridged) - 1 /\ Len(bridged) \in Nat
    BY <1>3, Behead DEF TaskRead, Typed, ChannelsTyped
  <2>2. received' \in Seq(Events)
    BY <1>3, <2>1, OneMore DEF TaskRead, Typed, TaskTyped
  <2>3. task' \in [pc : TaskPlaces, output : {"none", "result"}]
    BY <1>3 DEF TaskRead, Typed, TaskTyped, TaskPlaces
  <2>4. TaskTyped'
    BY <1>3, <2>2, <2>3 DEF TaskRead, Typed, TaskTyped
  <2>5. ChannelsTyped'
    BY <1>3, <2>1 DEF TaskRead, Typed, ChannelsTyped
  <2> QED
    BY <1>3, <2>4, <2>5, TypeKept DEF TaskRead, Typed
<1>4. CASE TaskExit
  <2>1. TaskTyped'
    BY <1>4, OneMore DEF TaskExit, Typed, TaskTyped, TaskGoto, TaskPlaces
  <2> QED
    BY <1>4, <2>1, TypeKept DEF TaskExit, Typed
<1>5. CASE TaskFinish
  <2>1. TaskTyped'
    BY <1>5 DEF TaskFinish, Typed, TaskTyped, TaskGoto, TaskPlaces
  <2>2. active' \in BOOLEAN
    BY <1>5 DEF TaskFinish, Typed, ParentTyped
  <2>3. question' \in 0 .. MaxCalls
    BY <1>5 DEF TaskFinish, Typed, ParentTyped
  <2>4. ParentTyped'
    BY <1>5, <2>2, <2>3 DEF TaskFinish, Typed, ParentTyped
  <2> QED
    BY <1>5, <2>1, <2>4, TypeKept DEF TaskFinish, Typed
<1> QED
  BY <1>1, <1>2, <1>3, <1>4, <1>5 DEF TaskStep

(* A channel that is not full takes one more. *)
LEMMA RoomForOne ==
  ASSUME NEW S, NEW s \in Seq(S), NEW x \in S, ~ Full(s)
  PROVE  Append(s, x) \in Seq(S) /\ Len(Append(s, x)) <= Capacity
<1>1. Append(s, x) \in Seq(S) /\ Len(s) \in Nat /\ Len(Append(s, x)) = Len(s) + 1
  BY OneMore
<1>2. Len(s) < Capacity
  BY <1>1 DEF Full
<1> QED
  BY <1>1, <1>2

(* A submission leaves the channel well typed. *)
LEMMA SubmitTyped ==
  ASSUME Typed, NEW op \in ChildOps, Submit(op)
  PROVE  subs' \in Seq(ChildOps) /\ Len(subs') <= Capacity
  BY RoomForOne DEF Submit, Typed, ChannelsTyped

(* ... the forwarding of events ... *)
LEMMA ForwardKeepsTypes ==
  ASSUME Typed, ForwardStep
  PROVE  Typed'
<1> USE DEF Others, taskVars, childVars, channels, ForwardAt, ForwardGoto, ForwardLeaves
<1>1. CASE ForwardReceive
  <2>1. /\ Head(events) \in Events \cup Questions
        /\ Tail(events) \in Seq(Events \cup Questions)
        /\ Head(events).kind = "ask" => Head(events) \in Questions
        /\ Head(events).kind # "ask" => Head(events) \in Events
    BY <1>1, Behead, Kinds DEF ForwardReceive, Typed, ChannelsTyped
  <2>2. ForwardTyped'
    BY <1>1, <2>1 DEF ForwardReceive, Typed, ForwardTyped, Answers
  <2>3. ChannelsTyped'
    BY <1>1, <2>1 DEF ForwardReceive, Typed, ChannelsTyped
  <2> QED
    BY <1>1, <2>2, <2>3, TypeKept DEF ForwardReceive, Typed
<1>2. CASE ForwardAsk
  <2>1. forward.event.n \in 0 .. MaxCalls
    BY <1>2, Kinds DEF ForwardAsk, Typed, ForwardTyped, Calls
  <2>2. question' \in 0 .. MaxCalls
    BY <1>2, <2>1 DEF ForwardAsk, Typed, ParentTyped
  <2>3. ParentTyped' /\ ForwardTyped'
    BY <1>2, <2>2 DEF ForwardAsk, Typed, ParentTyped, ForwardTyped
  <2> QED
    BY <1>2, <2>3, TypeKept DEF ForwardAsk, Typed
<1>3. CASE ForwardDenied \/ ForwardAnswered \/ ForwardStop
  <2>1. ForwardTyped'
    BY <1>3 DEF ForwardDenied, ForwardAnswered, ForwardStop, Typed, ForwardTyped, Answers
  <2> QED
    BY <1>3, <2>1, TypeKept DEF ForwardDenied, ForwardAnswered, ForwardStop, Typed
<1>4. CASE ForwardCancelled
  <2>1. question' \in 0 .. MaxCalls
    BY <1>4 DEF ForwardCancelled
  <2>2. ParentTyped' /\ ForwardTyped'
    BY <1>4, <2>1 DEF ForwardCancelled, Typed, ParentTyped, ForwardTyped, Answers
  <2> QED
    BY <1>4, <2>2, TypeKept DEF ForwardCancelled, Typed
<1>5. CASE ForwardReply
  <2>1. forward.answer \in ChildOps
    BY <1>5 DEF ForwardReply, Typed, ForwardTyped, ChildOps
  <2>2. ForwardTyped'
    BY <1>5 DEF ForwardReply, Typed, ForwardTyped
  <2>3. ChannelsTyped'
    BY <1>5, <2>1, SubmitTyped DEF ForwardReply, Typed, ChannelsTyped
  <2> QED
    BY <1>5, <2>2, <2>3, TypeKept DEF ForwardReply, Typed
<1>6. CASE ForwardSend
  <2>1. ForwardTyped'
    BY <1>6 DEF ForwardSend, Typed, ForwardTyped
  <2>2. out' \in Seq(Events) /\ Len(out') <= Capacity
    <3>1. forward.event \in Events /\ out \in Seq(Events) /\ Len(out) <= Capacity
      BY <1>6 DEF ForwardSend, Typed, ForwardTyped, ChannelsTyped
    <3> QED
      BY <1>6, <3>1, RoomForOne DEF ForwardSend
  <2>3. ChannelsTyped'
    BY <1>6, <2>2 DEF ForwardSend, Typed, ChannelsTyped
  <2> QED
    BY <1>6, <2>1, <2>3, TypeKept DEF ForwardSend, Typed
<1>7. CASE ForwardInterrupt \/ ForwardShutdown
  <2>1. ForwardTyped'
    BY <1>7 DEF ForwardInterrupt, ForwardShutdown, Typed, ForwardTyped
  <2>2. \E op \in ChildOps : Submit(op)
    BY <1>7 DEF ForwardInterrupt, ForwardShutdown, ChildOps, CallerOps
  <2>3. ChannelsTyped'
    BY <1>7, <2>2, SubmitTyped DEF ForwardInterrupt, ForwardShutdown, Typed, ChannelsTyped
  <2> QED
    BY <1>7, <2>1, <2>3, TypeKept DEF ForwardInterrupt, ForwardShutdown, Typed
<1>8. CASE ForwardDrain
  <2>1. ForwardTyped' /\ ChannelsTyped'
    BY <1>8 DEF ForwardDrain, Typed, ForwardTyped, ChannelsTyped
  <2> QED
    BY <1>8, <2>1, TypeKept DEF ForwardDrain, Typed
<1> QED
  BY <1>1, <1>2, <1>3, <1>4, <1>5, <1>6, <1>7, <1>8 DEF ForwardStep

(* ... that of operations, and the bridge ... *)
LEMMA BridgeKeepsTypes ==
  ASSUME Typed, OpsStep \/ BridgeStep
  PROVE  Typed'
<1> USE DEF parentVars, taskVars, childVars
<1>1. CASE OpsReceive
  <2>1. ops # <<>> =>
           /\ Head(ops) \in CallerOps /\ Tail(ops) \in Seq(CallerOps)
           /\ Len(Tail(ops)) <= Capacity
    BY Behead DEF Typed, ChannelsTyped
  <2>2. DelegateTyped'
    BY <1>1, <2>1 DEF OpsReceive, Typed, DelegateTyped
  <2>3. ChannelsTyped'
    BY <1>1, <2>1 DEF OpsReceive, Typed, ChannelsTyped
  <2> QED
    BY <1>1, <2>2, <2>3, TypeKept DEF OpsReceive, Typed
<1>2. CASE OpsSubmit
  <2>1. forwardOps.op \in ChildOps
    BY <1>2 DEF OpsSubmit, Typed, DelegateTyped, ChildOps
  <2>2. DelegateTyped'
    BY <1>2 DEF OpsSubmit, Typed, DelegateTyped
  <2>3. ChannelsTyped'
    BY <1>2, <2>1, SubmitTyped DEF OpsSubmit, Typed, ChannelsTyped
  <2> QED
    BY <1>2, <2>2, <2>3, TypeKept DEF OpsSubmit, Typed
<1>3. CASE BridgeReceive
  <2>1. out # <<>> =>
           /\ Head(out) \in Events /\ Tail(out) \in Seq(Events)
           /\ Len(Tail(out)) <= Capacity
    BY Behead DEF Typed, ChannelsTyped
  <2>2. DelegateTyped'
    BY <1>3, <2>1 DEF BridgeReceive, Typed, DelegateTyped
  <2>3. ChannelsTyped'
    BY <1>3, <2>1 DEF BridgeReceive, Typed, ChannelsTyped
  <2> QED
    BY <1>3, <2>2, <2>3, TypeKept DEF BridgeReceive, Typed
<1>4. CASE BridgeSend
  <2>1. bridged' \in Seq(Events) /\ Len(bridged') <= Capacity
    <3>1. bridge.event \in Events /\ bridged \in Seq(Events) /\ Len(bridged) <= Capacity
      BY <1>4 DEF BridgeSend, Typed, DelegateTyped, ChannelsTyped
    <3> QED
      BY <1>4, <3>1, RoomForOne DEF BridgeSend
  <2>2. DelegateTyped' /\ ChannelsTyped'
    BY <1>4, <2>1 DEF BridgeSend, Typed, DelegateTyped, ChannelsTyped
  <2> QED
    BY <1>4, <2>2, TypeKept DEF BridgeSend, Typed
<1>5. CASE BridgeClose
  <2>1. ops' \in Seq(CallerOps) /\ Len(ops') <= Capacity
    <3>1. "shutdown" \in CallerOps
      BY DEF CallerOps
    <3> QED
      BY <1>5, <3>1, RoomForOne DEF BridgeClose, Typed, ChannelsTyped
  <2>2. stop' \in BOOLEAN
    BY <1>5 DEF BridgeClose
  <2>3. DelegateTyped' /\ ChannelsTyped'
    BY <1>5, <2>1, <2>2 DEF BridgeClose, Typed, DelegateTyped, ChannelsTyped
  <2> QED
    BY <1>5, <2>3, TypeKept DEF BridgeClose, Typed
<1> QED
  BY <1>1, <1>2, <1>3, <1>4, <1>5 DEF OpsStep, BridgeStep

(* What the child emits reaches its channel while somebody reads it. *)
LEMMA EmitTyped ==
  ASSUME Typed, NEW es \in Seq(Events \cup Questions), Emit(es)
  PROVE  events' \in Seq(Events \cup Questions)
  BY Joined DEF Emit, Typed, ChannelsTyped

(* What is said is what was said and the new events. *)
LEMMA SendTyped ==
  ASSUME Typed, NEW es \in Seq(Events), Send(es)
  PROVE  events' \in Seq(Events \cup Questions) /\ SaidTyped'
<1>1. es \in Seq(Events \cup Questions)
  OBVIOUS
<1> QED
  BY <1>1, EmitTyped, Joined DEF Send, Typed, SaidTyped

(* The events at the abort of the child's turn. *)
LEMMA AbortEvents ==
  ASSUME NEW es \in Seq(Events)
  PROVE  (IF turn = "running" THEN <<Event("aborted", 0)>> ELSE <<>>) \o es \in Seq(Events)
<1>1. Event("aborted", 0) \in Events
  BY Kinds
<1>2. <<Event("aborted", 0)>> \in Seq(Events) /\ <<>> \in Seq(Events)
  BY <1>1
<1> QED
  BY <1>2, Joined

(* ... and the child. *)
LEMMA ChildKeepsTypes ==
  ASSUME Typed, ChildOp \/ ModelStep
  PROVE  Typed'
<1> USE DEF Inner, parentVars, taskVars, delegateVars, childVars
<1>1. CASE ChildOp
  <2>1. /\ Head(subs) \in ChildOps /\ subs' \in Seq(ChildOps) /\ Len(subs') <= Capacity
        /\ UNCHANGED Inner
    BY <1>1, Behead DEF ChildOp, Typed, ChannelsTyped
  <2>2. ASSUME NEW es \in Seq(Events), AbortTurn(es)
        PROVE  /\ turn' \in {"none", "running", "over"} /\ slot' \in 0 .. MaxCalls
               /\ calls' \in [Calls -> {"none", "pending", "approved", "denied", "dropped"}]
               /\ events' \in Seq(Events \cup Questions) /\ SaidTyped'
    <3>1. events' \in Seq(Events \cup Questions) /\ SaidTyped'
      BY <2>2, AbortEvents, SendTyped DEF AbortTurn
    <3> QED
      BY <2>2, <3>1 DEF AbortTurn, Typed, ChildTyped
  <2>3. CASE ChildInput \/ ChildAnswer
    <3>1. ChildTyped'
      BY <2>3 DEF ChildInput, ChildAnswer, Typed, ChildTyped
    <3>2. events' \in Seq(Events \cup Questions) /\ SaidTyped'
      BY <2>3 DEF ChildInput, ChildAnswer, Typed, ChannelsTyped, SaidTyped
    <3> QED
      BY <2>1, <3>1, <3>2, TypeKept DEF Typed, ChannelsTyped
  <2>4. CASE ChildInterrupt \/ ChildShutdown
    <3>1. <<>> \in Seq(Events) /\ <<Event("closed", 0)>> \in Seq(Events)
      BY Kinds
    <3>2. /\ ChildTyped'
          /\ events' \in Seq(Events \cup Questions) /\ SaidTyped'
      BY <2>2, <2>4, <3>1 DEF ChildInterrupt, ChildShutdown, Typed, ChildTyped
    <3> QED
      BY <2>1, <3>2, TypeKept DEF Typed, ChannelsTyped
  <2> QED
    BY <1>1, <2>3, <2>4 DEF ChildOp
<1>2. CASE ChildMessage
  <2>1. <<Event("message", Len(said) + 1)>> \in Seq(Events)
    BY Kinds, LenProperties DEF Typed, SaidTyped
  <2>2. events' \in Seq(Events \cup Questions) /\ SaidTyped'
    BY <1>2, <2>1, SendTyped DEF ChildMessage
  <2> QED
    BY <1>2, <2>2, TypeKept DEF ChildMessage, Typed, ChannelsTyped
<1>3. CASE ChildComplete
  <2>1. <<Event("complete", 0)>> \in Seq(Events)
    BY Kinds
  <2>2. events' \in Seq(Events \cup Questions) /\ SaidTyped' /\ ChildTyped'
    BY <1>3, <2>1, SendTyped DEF ChildComplete, Typed, ChildTyped
  <2> QED
    BY <1>3, <2>2, TypeKept DEF ChildComplete, Typed, ChannelsTyped
<1>4. ASSUME NEW n \in Calls, ChildAsk(n)
      PROVE  Typed'
  <2>1. <<Event("ask", n)>> \in Seq(Events \cup Questions)
    BY Kinds
  <2>2. events' \in Seq(Events \cup Questions)
    BY <1>4, <2>1, EmitTyped DEF ChildAsk
  <2>3. ChildTyped'
    BY <1>4 DEF ChildAsk, Typed, ChildTyped, Calls
  <2> QED
    BY <1>4, <2>2, <2>3, TypeKept DEF ChildAsk, Typed, ChannelsTyped
<1>5. ASSUME NEW n \in Calls, ChildDropsCall(n)
      PROVE  Typed'
  <2>1. ChildTyped'
    BY <1>5 DEF ChildDropsCall, Typed, ChildTyped
  <2> QED
    BY <1>5, <2>1, TypeKept DEF ChildDropsCall, Typed, ChannelsTyped
<1> QED
  BY <1>1, <1>2, <1>3, <1>4, <1>5 DEF ModelStep
--------------------------------------------------------------------------------
(* Review mode and the review's output are left alone by the others. *)
LEMMA LeaveKept ==
  ASSUME LeaveInv, UNCHANGED <<loop, active, cancelled, task, exits, received>>
  PROVE  LeaveInv'
  BY DEF LeaveInv, Exits, Output

(* The loop leaves review mode last, and the task before it is flushed. *)
LEMMA LeaveHolds ==
  ASSUME Typed, LeaveInv, Take \/ LoopStep \/ TaskStep
  PROVE  LeaveInv'
<1> USE DEF LeaveInv, TaskAt, TaskGoto, taskVars, parentVars
<1>1. Len(exits) \in Nat /\ exits \in Seq({"none", "result"})
  BY LenProperties DEF Typed, TaskTyped
<1>2. CASE Take \/ CancelToken \/ AbortTask
  BY <1>2 DEF Take, CancelToken, AbortTask, Exits, Output
<1>3. CASE Leave
  <2>1. /\ exits' # <<>> /\ Len(exits') = Len(exits) + 1
        /\ ToSet(exits') = ToSet(exits) \cup {"none"}
    BY <1>1, <1>3, OneMore DEF Leave
  <2> QED
    BY <1>1, <1>3, <2>1 DEF Leave, Exits, Output
<1>4. CASE TaskStart \/ TaskStartFails \/ TaskReadClosed \/ TaskLook \/ TaskDrop
  <2>1. UNCHANGED <<loop, active, cancelled, exits, received>> /\ task'.output = task.output
    BY <1>4 DEF TaskStart, TaskStartFails, TaskReadClosed, TaskLook, TaskDrop, Typed,
       TaskTyped
  <2>2. Output'
    BY <2>1 DEF Output
  <2>3. /\ task'.pc = "flushing" => cancelled
        /\ task.pc \in {"flushing", "done", "dropped"} =>
              task'.pc \in {"flushing", "done", "dropped"}
    BY <1>4 DEF TaskStart, TaskStartFails, TaskReadClosed, TaskLook, TaskDrop, Typed,
       TaskTyped
  <2> QED
    BY <1>1, <2>1, <2>2, <2>3 DEF Exits
<1>5. CASE TaskRead
  <2>1. /\ Head(bridged) \in Events /\ received \in Seq(Events)
    BY <1>5, Behead DEF TaskRead, Typed, TaskTyped, ChannelsTyped
  <2>2. ToSet(received') = ToSet(received) \cup {Head(bridged)}
    BY <1>5, <2>1, OneMore DEF TaskRead
  <2>3. /\ task'.output = "result" => task.output = "result" \/ Head(bridged).kind = "complete"
        /\ task'.pc \in {"reading", "looking"} /\ task.pc = "reading"
        /\ UNCHANGED <<loop, active, cancelled, exits>>
    BY <1>5 DEF TaskRead, Typed, TaskTyped
  <2>4. Output'
    BY <2>1, <2>2, <2>3, Kinds DEF Output
  <2>5. Exits'
    BY <1>1, <2>3 DEF Exits
  <2> QED
    BY <2>4, <2>5
<1>6. CASE TaskExit
  <2>1. task.output \in {"none", "result"}
    BY DEF Typed, TaskTyped
  <2>2. /\ exits' # <<>> /\ Len(exits') = Len(exits) + 1
        /\ ToSet(exits') = ToSet(exits) \cup {task.output}
    BY <1>1, <1>6, <2>1, OneMore DEF TaskExit
  <2>3. /\ task.pc = "exiting" /\ task'.pc = "flushing" /\ task'.output = task.output
        /\ UNCHANGED <<loop, active, cancelled, received>>
    BY <1>6 DEF TaskExit, Typed, TaskTyped
  <2> QED
    BY <1>1, <2>1, <2>2, <2>3 DEF Exits, Output
<1>7. CASE TaskFinish
  <2>1. /\ task.pc = "flushing" /\ task'.pc = "done" /\ task'.output = task.output
        /\ UNCHANGED <<loop, cancelled, exits, received>>
    BY <1>7 DEF TaskFinish, Typed, TaskTyped
  <2>2. ~ active' /\ active => ~ cancelled
    BY <1>7 DEF TaskFinish
  <2> QED
    BY <1>1, <2>1, <2>2 DEF Exits, Output
<1> QED
  BY <1>2, <1>3, <1>4, <1>5, <1>6, <1>7 DEF LoopStep, TaskStep
--------------------------------------------------------------------------------
(* The approvals are left alone by a step that touches neither the calls, *)
(* the submissions, the question nor forward_events.                      *)
LEMMA ConsentKept ==
  ASSUME ConsentInv, UNCHANGED <<calls, subs, forward, consents>>,
         question' \in {0, question}
  PROVE  ConsentInv'
  BY DEF ConsentInv, AnswerHeld, Granted, Approved, Sent, Held

(* There are finitely many of both. *)
LEMMA CountsFinite ==
  ASSUME NEW s \in Seq(ChildOps)
  PROVE  /\ IsFiniteSet(Approved) /\ Cardinality(Approved) \in Nat
         /\ IsFiniteSet(Sent(s)) /\ Cardinality(Sent(s)) \in Nat
<1>1. IsFiniteSet(Calls) /\ IsFiniteSet(1 .. Len(s))
  BY FS_Interval, LenProperties DEF Calls
<1>2. Approved \subseteq Calls /\ Sent(s) \subseteq 1 .. Len(s)
  BY DEF Approved, Sent
<1> QED
  BY <1>1, <1>2, FS_Subset, FS_CardinalityType

(* A submission adds one approval if it is one. *)
LEMMA SentAppend ==
  ASSUME NEW s \in Seq(ChildOps), NEW op \in ChildOps
  PROVE  Cardinality(Sent(Append(s, op))) =
            Cardinality(Sent(s)) + (IF op = "approved" THEN 1 ELSE 0)
<1>1. /\ Len(s) \in Nat /\ Len(Append(s, op)) = Len(s) + 1
      /\ \A i \in 1 .. Len(s) : Append(s, op)[i] = s[i]
      /\ Append(s, op)[Len(s) + 1] = op
  BY OneMore
<1>2. IsFiniteSet(Sent(s)) /\ Cardinality(Sent(s)) \in Nat /\ Len(s) + 1 \notin Sent(s)
  BY <1>1, CountsFinite DEF Sent
<1>3. CASE op = "approved"
  <2>1. Sent(Append(s, op)) = Sent(s) \cup {Len(s) + 1}
    BY <1>1, <1>3 DEF Sent
  <2> QED
    BY <1>2, <1>3, <2>1, FS_AddElement
<1>4. CASE op # "approved"
  <2>1. Sent(Append(s, op)) = Sent(s)
    BY <1>1, <1>4 DEF Sent
  <2> QED
    BY <1>2, <1>4, <2>1
<1> QED
  BY <1>3, <1>4

(* The child takes one approval from the channel if the first is one. *)
LEMMA SentTail ==
  ASSUME NEW s \in Seq(ChildOps), s # <<>>
  PROVE  Cardinality(Sent(Tail(s))) + (IF Head(s) = "approved" THEN 1 ELSE 0)
            <= Cardinality(Sent(s))
<1>1. /\ Head(s) = s[1] /\ Len(s) \in Nat \ {0}
      /\ Tail(s) \in Seq(ChildOps) /\ Len(Tail(s)) = Len(s) - 1
      /\ \A i \in 1 .. Len(s) - 1 : Tail(s)[i] = s[i + 1]
  BY Behead
<1> DEFINE later == Sent(s) \ {1}
           shift == [i \in Sent(Tail(s)) |-> i + 1]
<1>2. shift \in Injection(Sent(Tail(s)), later)
  <2>1. \A i \in Sent(Tail(s)) : i \in Nat /\ i + 1 \in later
    BY <1>1 DEF Sent
  <2>2. shift \in [Sent(Tail(s)) -> later]
    BY <2>1
  <2>3. \A i, j \in Sent(Tail(s)) : shift[i] = shift[j] => i = j
    BY <2>1
  <2> QED
    BY <2>2, <2>3 DEF Injection, IsInjective
<1>3. IsFiniteSet(Sent(s)) /\ Cardinality(Sent(s)) \in Nat
  BY CountsFinite
<1>4. IsFiniteSet(later) /\ Cardinality(later) =
         IF 1 \in Sent(s) THEN Cardinality(Sent(s)) - 1 ELSE Cardinality(Sent(s))
  BY <1>3, FS_RemoveElement
<1>5. Cardinality(Sent(Tail(s))) <= Cardinality(later)
  BY <1>2, <1>4, FS_Injection
<1>6. 1 \in Sent(s) <=> Head(s) = "approved"
  BY <1>1 DEF Sent
<1>7. Cardinality(Sent(Tail(s))) \in Nat /\ Cardinality(later) \in Nat
  BY <1>1, <1>4, CountsFinite, FS_CardinalityType
<1> QED
  BY <1>3, <1>4, <1>5, <1>6, <1>7

(* A submission counts as sent only if it is an approval. *)
LEMMA SentSubmit ==
  ASSUME Typed, NEW op \in ChildOps, Submit(op)
  PROVE  /\ Cardinality(Sent(subs)) \in Nat /\ Cardinality(Sent(subs)') \in Nat
         /\ Cardinality(Sent(subs)') <=
                Cardinality(Sent(subs)) + (IF op = "approved" THEN 1 ELSE 0)
<1>1. subs \in Seq(ChildOps)
  BY DEF Typed, ChannelsTyped
<1>2. Cardinality(Sent(subs)) \in Nat
  BY <1>1, CountsFinite
<1>3. subs' = subs \/ subs' = Append(subs, op)
  BY DEF Submit
<1>4. CASE subs' = subs
  BY <1>2, <1>4 DEF Sent
<1>5. CASE subs' = Append(subs, op)
  <2>1. Sent(subs)' = Sent(Append(subs, op))
    BY <1>5 DEF Sent
  <2> QED
    BY <1>1, <1>2, <2>1, SentAppend
<1> QED
  BY <1>3, <1>4, <1>5

(* The user answers the question that forward_events waits with. *)
LEMMA AnswerCounts ==
  ASSUME Typed, ConsentInv, NEW d \in {"approved", "denied"}, Answer(d)
  PROVE  ConsentInv'
<1> USE DEF Answer, ConsentInv, childVars
<1>1. /\ forward.pc = "waiting" /\ forward.answer = "none"
      /\ forward'.pc = "waiting" /\ forward'.answer = d /\ question' = 0
  BY DEF AnswerHeld, Typed, ForwardTyped
<1>2. Approved' = Approved /\ Sent(subs)' = Sent(subs)
  BY DEF Approved, Sent, channels
<1>3. Cardinality(Approved) \in Nat /\ Cardinality(Sent(subs)) \in Nat /\ consents \in Nat
  BY CountsFinite DEF Typed, ChannelsTyped, ParentTyped
<1>4. Held = 0 /\ Held' = (IF d = "approved" THEN 1 ELSE 0)
  BY <1>1 DEF Held
<1>5. consents' = consents + Held'
  BY <1>3, <1>4
<1>6. Granted'
  BY <1>2, <1>3, <1>4, <1>5 DEF Granted
<1> QED
  BY <1>1, <1>6 DEF AnswerHeld

(* forward_events passes an approval on once, or loses it. *)
LEMMA ForwardCounts ==
  ASSUME Typed, ConsentInv, ForwardStep
  PROVE  ConsentInv'
<1> USE DEF ConsentInv, Others, ForwardAt, ForwardGoto, ForwardLeaves
<1>1. /\ Cardinality(Approved) \in Nat /\ Cardinality(Sent(subs)) \in Nat
      /\ consents \in Nat /\ Held \in {0, 1}
  BY CountsFinite DEF Typed, ChannelsTyped, ParentTyped, Held
<1>2. calls' = calls /\ consents' = consents /\ Approved' = Approved
  BY DEF ForwardStep, ForwardReceive, ForwardAsk, ForwardDenied, ForwardCancelled,
     ForwardAnswered, ForwardReply, ForwardSend, ForwardStop, ForwardInterrupt,
     ForwardShutdown, ForwardDrain, Approved, childVars
<1>3. ASSUME UNCHANGED subs, Held' <= Held, Held' \in {0, 1}
      PROVE  Granted'
  <2>1. Sent(subs)' = Sent(subs)
    BY <1>3 DEF Sent
  <2> QED
    BY <1>1, <1>2, <1>3, <2>1 DEF Granted
<1>4. CASE \/ ForwardReceive \/ ForwardAsk \/ ForwardDenied \/ ForwardCancelled
           \/ ForwardAnswered \/ ForwardSend \/ ForwardStop \/ ForwardDrain
  <2>1. UNCHANGED subs
    BY <1>4 DEF ForwardReceive, ForwardAsk, ForwardDenied, ForwardCancelled, ForwardAnswered,
       ForwardSend, ForwardStop, ForwardDrain, channels
  <2> USE DEF Typed, ForwardTyped
  <2>2. CASE ForwardReceive \/ ForwardSend \/ ForwardStop \/ ForwardDrain
    <3>1. forward'.answer = "none" /\ question' = question /\ forward.pc # "waiting"
      BY <2>2 DEF ForwardReceive, ForwardSend, ForwardStop, ForwardDrain, channels
    <3> QED
      BY <1>3, <2>1, <3>1 DEF Held, AnswerHeld
  <2>3. CASE ForwardAsk \/ ForwardAnswered
    <3>1. /\ forward'.answer = forward.answer
          /\ forward'.pc = "waiting" \/ (forward'.pc = "replying" /\ question' = question)
          /\ forward.pc = "asking" => forward'.pc = "waiting"
          /\ forward.pc = "waiting" => forward.answer # "none" /\ question' = question
          /\ forward.pc \in {"asking", "waiting"}
      BY <2>3 DEF ForwardAsk, ForwardAnswered
    <3> QED
      BY <1>3, <2>1, <3>1 DEF Held, AnswerHeld
  <2>4. CASE ForwardDenied \/ ForwardCancelled
    <3>1. /\ forward'.answer \in {"abort", "denied"} /\ question' = 0
          /\ forward'.pc \in {"waiting", "replying"}
      BY <2>4 DEF ForwardDenied, ForwardCancelled
    <3> QED
      BY <1>3, <2>1, <3>1 DEF Held, AnswerHeld
  <2> QED
    BY <1>4, <2>2, <2>3, <2>4
<1>5. CASE ForwardReply
  <2>1. /\ forward.answer \in ChildOps /\ forward'.answer = "none" /\ question' = question
        /\ forward.pc = "replying"
    BY <1>5 DEF ForwardReply, Typed, ForwardTyped, ChildOps
  <2>2. /\ Cardinality(Sent(subs)') \in Nat
        /\ Cardinality(Sent(subs)') <= Cardinality(Sent(subs)) + Held
    BY <1>5, <2>1, SentSubmit DEF ForwardReply, Held
  <2>3. Held' = 0 /\ AnswerHeld'
    BY <2>1 DEF Held, AnswerHeld
  <2> QED
    BY <1>1, <1>2, <2>2, <2>3 DEF Granted
<1>6. CASE ForwardInterrupt \/ ForwardShutdown
  <2>1. PICK op \in ChildOps \ {"approved"} : Submit(op)
    BY <1>6 DEF ForwardInterrupt, ForwardShutdown, ChildOps, CallerOps
  <2>2. /\ Cardinality(Sent(subs)') \in Nat
        /\ Cardinality(Sent(subs)') <= Cardinality(Sent(subs))
    BY <2>1, SentSubmit
  <2>3. Held' = 0 /\ AnswerHeld'
    BY <1>6 DEF ForwardInterrupt, ForwardShutdown, Held, AnswerHeld
  <2> QED
    BY <1>1, <1>2, <2>2, <2>3 DEF Granted
<1> QED
  BY <1>4, <1>5, <1>6 DEF ForwardStep

(* The caller approves nothing. *)
LEMMA OpsCount ==
  ASSUME Typed, ConsentInv, OpsStep \/ BridgeStep
  PROVE  ConsentInv'
<1>1. CASE OpsSubmit
  <2> USE <1>1 DEF OpsSubmit, parentVars, childVars
  <2>1. forwardOps.op \in ChildOps /\ forwardOps.op # "approved"
    BY DEF Typed, DelegateTyped, ChildOps, CallerOps
  <2>2. /\ Cardinality(Sent(subs)') \in Nat /\ Cardinality(Sent(subs)) \in Nat
        /\ Cardinality(Sent(subs)') <= Cardinality(Sent(subs))
    BY <2>1, SentSubmit
  <2>3. /\ Cardinality(Approved) \in Nat /\ Held \in {0, 1} /\ consents \in Nat
        /\ Approved' = Approved /\ Held' = Held
    BY CountsFinite DEF Typed, ChannelsTyped, ParentTyped, Held, Approved
  <2>4. Granted'
    BY <2>2, <2>3 DEF Granted, ConsentInv
  <2> QED
    BY <2>4 DEF AnswerHeld, ConsentInv
<1>2. CASE OpsReceive \/ BridgeStep
  BY <1>2, ConsentKept DEF OpsReceive, BridgeStep, BridgeReceive, BridgeSend, BridgeClose,
     parentVars, childVars
<1> QED
  BY <1>1, <1>2 DEF OpsStep

(* An approval in the channel approves one call, or none. *)
LEMMA ChildCounts ==
  ASSUME Typed, ConsentInv, ChildOp
  PROVE  ConsentInv'
<1> USE DEF ChildOp, Inner, parentVars, delegateVars
<1>1. subs \in Seq(ChildOps) /\ subs # <<>> /\ subs' = Tail(subs) /\ subs' \in Seq(ChildOps)
  BY Behead DEF Typed, ChannelsTyped
<1> DEFINE taken == IF Head(subs) = "approved" THEN 1 ELSE 0
<1>2. /\ IsFiniteSet(Approved) /\ Cardinality(Approved) \in Nat
      /\ Cardinality(Sent(subs)) \in Nat /\ Cardinality(Sent(subs)') \in Nat
      /\ Cardinality(Sent(subs)') + taken <= Cardinality(Sent(subs))
  <2>1. Sent(subs)' = Sent(Tail(subs))
    BY <1>1 DEF Sent
  <2> QED
    BY <1>1, <2>1, CountsFinite, SentTail
<1>3. Cardinality(Approved') \in Nat /\ Cardinality(Approved') <= Cardinality(Approved) + taken
  <2>1. Approved' \subseteq Approved \cup (IF Head(subs) = "approved" THEN {slot} ELSE {})
    BY DEF ChildInput, ChildAnswer, ChildInterrupt, ChildShutdown, AbortTurn, Pending,
       Approved
  <2>2. CASE Head(subs) = "approved"
    <3>1. /\ IsFiniteSet(Approved \cup {slot})
          /\ Cardinality(Approved \cup {slot}) <= Cardinality(Approved) + 1
          /\ Cardinality(Approved \cup {slot}) \in Nat
      <4>1. /\ IsFiniteSet(Approved \cup {slot})
            /\ Cardinality(Approved \cup {slot}) =
                  IF slot \in Approved THEN Cardinality(Approved) ELSE Cardinality(Approved) + 1
        BY <1>2, FS_AddElement
      <4> QED
        BY <1>2, <4>1
    <3>2. Approved' \in SUBSET (Approved \cup {slot})
      BY <2>1, <2>2
    <3>3. IsFiniteSet(Approved') /\ Cardinality(Approved') <= Cardinality(Approved \cup {slot})
      BY <3>1, <3>2, FS_Subset
    <3> QED
      BY <1>2, <2>2, <3>1, <3>3, FS_CardinalityType
  <2>3. CASE Head(subs) # "approved"
    <3>1. Approved' \in SUBSET Approved
      BY <2>1, <2>3
    <3>2. IsFiniteSet(Approved') /\ Cardinality(Approved') <= Cardinality(Approved)
      BY <1>2, <3>1, FS_Subset
    <3> QED
      BY <1>2, <2>3, <3>2, FS_CardinalityType
  <2> QED
    BY <2>2, <2>3
<1>4. /\ forward' = forward /\ question' = question /\ consents' = consents
      /\ consents \in Nat /\ Held' = Held /\ Held \in {0, 1}
  BY DEF Held, Typed, ParentTyped
<1>5. Granted'
  BY <1>2, <1>3, <1>4 DEF ConsentInv, Granted
<1> QED
  BY <1>4, <1>5 DEF ConsentInv, AnswerHeld

(* The model approves nothing. *)
LEMMA ModelCounts ==
  ASSUME Typed, ConsentInv, ModelStep
  PROVE  ConsentInv'
<1> USE DEF Inner, parentVars, delegateVars
<1>1. Approved' \in SUBSET Approved
  BY DEF ModelStep, ChildMessage, ChildComplete, ChildAsk, ChildDropsCall, childVars, Approved,
     Typed, ChildTyped
<1>2. UNCHANGED <<subs, forward, consents, question>>
  BY DEF ModelStep, ChildMessage, ChildComplete, ChildAsk, ChildDropsCall
<1>3. /\ IsFiniteSet(Approved) /\ Cardinality(Approved) \in Nat
      /\ Cardinality(Sent(subs)) \in Nat /\ consents \in Nat /\ Held \in {0, 1}
  BY CountsFinite DEF Typed, ChannelsTyped, ParentTyped, Held
<1>4. Cardinality(Approved') \in Nat /\ Cardinality(Approved') <= Cardinality(Approved)
  BY <1>1, <1>3, FS_Subset, FS_CardinalityType
<1>5. Sent(subs)' = Sent(subs) /\ Held' = Held
  BY <1>2 DEF Sent, Held
<1>6. Granted'
  BY <1>2, <1>3, <1>4, <1>5 DEF ConsentInv, Granted
<1> QED
  BY <1>2, <1>6 DEF ConsentInv, AnswerHeld

(* The loop and the review approve nothing. *)
LEMMA TaskCounts ==
  ASSUME Typed, ConsentInv, Fresh, Take \/ LoopStep \/ TaskStep
  PROVE  ConsentInv'
<1> USE DEF taskVars, delegateVars, childVars, channels, parentVars
<1>1. CASE Take \/ LoopStep
  BY <1>1, ConsentKept DEF Take, LoopStep, CancelToken, AbortTask, Leave
<1>2. CASE TaskStart
  <2>1. forward.pc = "none" /\ forward.answer = "none" /\ question = 0
    BY <1>2 DEF TaskStart, TaskAt, Fresh, ConsentInv, AnswerHeld
  <2>2. forward'.answer = "none" /\ UNCHANGED <<calls, subs, consents, question>>
    BY <1>2, <2>1 DEF TaskStart, Typed, ForwardTyped
  <2> QED
    BY <2>1, <2>2 DEF ConsentInv, AnswerHeld, Granted, Approved, Sent, Held
<1>3. CASE \/ TaskStartFails \/ TaskRead \/ TaskReadClosed \/ TaskLook \/ TaskExit
           \/ TaskFinish \/ TaskDrop
  BY <1>3, ConsentKept DEF TaskStartFails, TaskRead, TaskReadClosed, TaskLook, TaskExit,
     TaskFinish, TaskDrop
<1> QED
  BY <1>1, <1>2, <1>3 DEF TaskStep
--------------------------------------------------------------------------------
(* A piece stays one when the whole grows, and when it passes its first on *)
(* or takes the next.                                                      *)
LEMMA PieceGrows ==
  ASSUME NEW t \in Seq(Events), NEW new \in Seq(Events), NEW s \in Seq(Events),
         NEW n \in Nat, Piece(t, s, n)
  PROVE  Piece(t \o new, s, n)
<1>1. /\ Len(t) \in Nat /\ Len(new) \in Nat /\ Len(s) \in Nat
      /\ Len(t \o new) = Len(t) + Len(new)
      /\ \A i \in 1 .. Len(t) : (t \o new)[i] = t[i]
  BY Joined, LenProperties
<1>2. ASSUME NEW i \in 1 .. Len(s) PROVE n + i \in 1 .. Len(t)
  BY <1>1 DEF Piece
<1> QED
  BY <1>1, <1>2 DEF Piece

(* What is behind the first of a piece. *)
LEMMA PieceTail ==
  ASSUME NEW t \in Seq(Events), NEW s \in Seq(Events), NEW n \in Nat, Piece(t, s, n), s # <<>>
  PROVE  t[n + 1] = Head(s) /\ n + 1 <= Len(t) /\ Piece(t, Tail(s), n + 1)
<1>1. /\ Head(s) = s[1] /\ Len(s) \in Nat \ {0} /\ Len(Tail(s)) = Len(s) - 1
      /\ \A i \in 1 .. Len(s) - 1 : Tail(s)[i] = s[i + 1]
      /\ Len(t) \in Nat
  BY Behead, LenProperties
<1>2. ASSUME NEW i \in 1 .. Len(s) - 1 PROVE t[(n + 1) + i] = s[i + 1]
  <2>1. i + 1 \in 1 .. Len(s) /\ (n + 1) + i = n + (i + 1)
    BY <1>1
  <2> QED
    BY <2>1 DEF Piece
<1> QED
  BY <1>1, <1>2 DEF Piece

(* A piece and what comes next. *)
LEMMA PieceAppend ==
  ASSUME NEW t \in Seq(Events), NEW s \in Seq(Events), NEW x \in Events, NEW n \in Nat,
         Piece(t, s, n), n + Len(s) + 1 <= Len(t), t[n + Len(s) + 1] = x
  PROVE  Piece(t, Append(s, x), n)
<1>1. /\ Len(s) \in Nat /\ Len(Append(s, x)) = Len(s) + 1 /\ Len(t) \in Nat
      /\ \A i \in 1 .. Len(s) : Append(s, x)[i] = s[i]
      /\ Append(s, x)[Len(s) + 1] = x
  BY OneMore, LenProperties
<1>2. ASSUME NEW i \in 1 .. Len(s) + 1 PROVE t[n + i] = Append(s, x)[i]
  <2>1. CASE i \in 1 .. Len(s)
    BY <1>1, <2>1 DEF Piece
  <2>2. CASE i = Len(s) + 1
    <3>1. n + i = n + Len(s) + 1
      BY <1>1, <2>2
    <3> QED
      BY <1>1, <2>2, <3>1
  <2> QED
    BY <1>1, <2>1, <2>2
<1> QED
  BY <1>1, <1>2 DEF Piece

(* forward_events takes an event: a question is not counted, another one *)
(* comes next.                                                           *)
LEMMA FollowsTail ==
  ASSUME NEW t \in Seq(Events), NEW es \in Seq(Events \cup Questions), es # <<>>,
         NEW n \in Nat, NEW from \in Nat,
         NEW start \in [1 .. Len(es) + 1 -> 0 .. n], Follows(t, start, es, from, n)
  PROVE  LET one == IF Head(es).kind = "ask" THEN 0 ELSE 1 IN
         /\ from + one <= n
         /\ Head(es).kind # "ask" => t[from + 1] = Head(es)
         /\ \E next \in [1 .. Len(Tail(es)) + 1 -> 0 .. n] :
                Follows(t, next, Tail(es), from + one, n)
<1>1. /\ Head(es) = es[1] /\ Len(es) \in Nat \ {0} /\ Len(Tail(es)) = Len(es) - 1
      /\ \A k \in 1 .. Len(es) - 1 : Tail(es)[k] = es[k + 1]
  BY Behead
<1> DEFINE one == IF Head(es).kind = "ask" THEN 0 ELSE 1
           next == [k \in 1 .. Len(es) |-> start[k + 1]]
<1>2. 1 \in 1 .. Len(es) /\ 2 \in 1 .. Len(es) + 1
  BY <1>1
<1>3. /\ start[2] = from + one /\ start[2] \in 0 .. n
      /\ Head(es).kind # "ask" => t[from + 1] = Head(es)
  <2>1. start[1] = from /\ start[2] \in 0 .. n
    BY <1>2 DEF Follows
  <2>2. IF es[1].kind = "ask"
          THEN start[1 + 1] = start[1]
          ELSE start[1 + 1] = start[1] + 1 /\ t[start[1 + 1]] = es[1]
    BY <1>2 DEF Follows
  <2> QED
    BY <1>1, <2>1, <2>2
<1>5. next \in [1 .. Len(Tail(es)) + 1 -> 0 .. n]
  BY <1>1
<1>6. Follows(t, next, Tail(es), start[2], n)
  <2>1. next[1] = start[2] /\ next[Len(es)] = n
    BY <1>1, <1>2 DEF Follows
  <2>2. ASSUME NEW k \in 1 .. Len(es) - 1
        PROVE  IF Tail(es)[k].kind = "ask"
                 THEN next[k + 1] = next[k]
                 ELSE next[k + 1] = next[k] + 1 /\ t[next[k + 1]] = Tail(es)[k]
    <3>1. /\ k + 1 \in 1 .. Len(es) /\ Tail(es)[k] = es[k + 1]
          /\ next[k] = start[k + 1] /\ next[k + 1] = start[(k + 1) + 1]
      BY <1>1
    <3> QED
      BY <3>1 DEF Follows
  <2> QED
    BY <1>1, <2>1, <2>2 DEF Follows
<1>7. from + one <= n
  BY <1>3
<1> HIDE DEF next, one
<1>8. \E succ \in [1 .. Len(Tail(es)) + 1 -> 0 .. n] :
          Follows(t, succ, Tail(es), from + one, n)
  BY <1>3, <1>5, <1>6
<1> QED
  BY <1>3, <1>7, <1>8 DEF one

(* A question enters the channel and is not counted. *)
LEMMA FollowsAsk ==
  ASSUME NEW t \in Seq(Events), NEW es \in Seq(Events \cup Questions), NEW q \in Questions,
         NEW n \in Nat, NEW from \in Nat,
         NEW start \in [1 .. Len(es) + 1 -> 0 .. n], Follows(t, start, es, from, n)
  PROVE  \E next \in [1 .. Len(es \o <<q>>) + 1 -> 0 .. n] :
             Follows(t, next, es \o <<q>>, from, n)
<1> DEFINE more == es \o <<q>>
<1>1. <<q>> \in Seq(Events \cup Questions) /\ Len(<<q>>) = 1 /\ <<q>>[1] = q
  OBVIOUS
<1>2. /\ Len(es) \in Nat /\ Len(more) = Len(es) + 1
      /\ \A k \in 1 .. Len(es) : more[k] = es[k]
      /\ more[Len(es) + 1] = q
  BY <1>1, Joined
<1> DEFINE next == [k \in 1 .. Len(es) + 2 |-> IF k = Len(es) + 2 THEN n ELSE start[k]]
<1> HIDE DEF more
<1>3. next \in [1 .. Len(more) + 1 -> 0 .. n]
  BY <1>2
<1>4. /\ next[1] = from /\ next[Len(es) + 1] = n /\ next[Len(es) + 2] = n
      /\ \A k \in 1 .. Len(es) : next[k] = start[k] /\ next[k + 1] = start[k + 1]
  BY <1>2 DEF Follows
<1>5. ASSUME NEW k \in 1 .. Len(es) + 1
      PROVE  IF more[k].kind = "ask"
               THEN next[k + 1] = next[k]
               ELSE next[k + 1] = next[k] + 1 /\ t[next[k + 1]] = more[k]
  <2>1. CASE k \in 1 .. Len(es)
    <3>1. IF es[k].kind = "ask"
            THEN start[k + 1] = start[k]
            ELSE start[k + 1] = start[k] + 1 /\ t[start[k + 1]] = es[k]
      BY <2>1 DEF Follows
    <3>2. more[k] = es[k] /\ next[k] = start[k] /\ next[k + 1] = start[k + 1]
      BY <1>2, <1>4, <2>1
    <3> HIDE DEF next
    <3> QED
      BY <3>1, <3>2
  <2>2. CASE k = Len(es) + 1
    <3>1. k + 1 = Len(es) + 2
      BY <1>2, <2>2
    <3> QED
      BY <1>2, <1>4, <2>2, <3>1, Kinds
  <2> QED
    BY <1>2, <2>1, <2>2
<1>6. Follows(t, next, more, from, n)
  <2>1. next[1] = from /\ next[Len(more) + 1] = n
    BY <1>2, <1>4
  <2>2. Len(more) = Len(es) + 1
    BY <1>2
  <2> HIDE DEF next
  <2> QED
    BY <1>5, <2>1, <2>2 DEF Follows
<1> QED
  BY <1>3, <1>6 DEF more

(* Events enter the channel as they are said. *)
LEMMA FollowsSend ==
  ASSUME NEW t \in Seq(Events), NEW es \in Seq(Events \cup Questions), NEW new \in Seq(Events),
         NEW from \in Nat,
         NEW start \in [1 .. Len(es) + 1 -> 0 .. Len(t)], Follows(t, start, es, from, Len(t))
  PROVE  \E next \in [1 .. Len(es \o new) + 1 -> 0 .. Len(t \o new)] :
             Follows(t \o new, next, es \o new, from, Len(t \o new))
<1> DEFINE more == es \o new
           whole == t \o new
<1>1. /\ Len(es) \in Nat /\ Len(new) \in Nat /\ Len(more) = Len(es) + Len(new)
      /\ \A k \in 1 .. Len(es) : more[k] = es[k]
      /\ \A k \in 1 .. Len(new) : more[Len(es) + k] = new[k]
  <2>1. new \in Seq(Events \cup Questions)
    OBVIOUS
  <2> QED
    BY <2>1, Joined
<1>2. /\ Len(t) \in Nat /\ Len(whole) = Len(t) + Len(new)
      /\ \A k \in 1 .. Len(t) : whole[k] = t[k]
      /\ \A k \in 1 .. Len(new) : whole[Len(t) + k] = new[k]
  BY Joined
<1> HIDE DEF more, whole
<1> DEFINE next == [k \in 1 .. Len(more) + 1 |->
                       IF k <= Len(es) + 1 THEN start[k] ELSE Len(t) + (k - (Len(es) + 1))]
<1>3. /\ \A k \in 1 .. Len(es) + 1 : next[k] = start[k] /\ start[k] \in 0 .. Len(t)
      /\ \A i \in 1 .. Len(new) : next[Len(es) + 1 + i] = Len(t) + i
      /\ start[1] = from /\ start[Len(es) + 1] = Len(t)
  <2>1. ASSUME NEW k \in 1 .. Len(es) + 1
        PROVE  next[k] = start[k] /\ start[k] \in 0 .. Len(t)
    <3>1. k \in 1 .. Len(more) + 1 /\ k <= Len(es) + 1
      BY <1>1
    <3> QED
      BY <3>1
  <2>2. ASSUME NEW i \in 1 .. Len(new)
        PROVE  next[Len(es) + 1 + i] = Len(t) + i
    <3>1. /\ Len(es) + 1 + i \in 1 .. Len(more) + 1 /\ ~ Len(es) + 1 + i <= Len(es) + 1
          /\ Len(t) + ((Len(es) + 1 + i) - (Len(es) + 1)) = Len(t) + i
      BY <1>1, <1>2
    <3> QED
      BY <3>1
  <2>3. start[1] = from /\ start[Len(es) + 1] = Len(t)
    BY DEF Follows
  <2> QED
    BY <2>1, <2>2, <2>3
<1>4. next \in [1 .. Len(more) + 1 -> 0 .. Len(whole)]
  BY <1>1, <1>2
<1>5. next[1] = from /\ next[Len(more) + 1] = Len(whole)
  <2>1. CASE Len(new) = 0
    BY <1>1, <1>2, <1>3, <2>1
  <2>2. CASE Len(new) \in 1 .. Len(new)
    BY <1>1, <1>2, <1>3, <2>2
  <2> QED
    BY <1>1, <2>1, <2>2
<1>6. ASSUME NEW k \in 1 .. Len(more)
      PROVE  IF more[k].kind = "ask"
               THEN next[k + 1] = next[k]
               ELSE next[k + 1] = next[k] + 1 /\ whole[next[k + 1]] = more[k]
  <2>1. CASE k \in 1 .. Len(es)
    <3>1. more[k] = es[k] /\ next[k] = start[k] /\ next[k + 1] = start[k + 1]
      <4>1. k \in 1 .. Len(es) + 1 /\ k + 1 \in 1 .. Len(es) + 1
        BY ONLY <1>1, <2>1
      <4> HIDE DEF next
      <4> QED
        BY ONLY <1>1, <1>3, <2>1, <4>1
    <3>2. IF es[k].kind = "ask"
            THEN start[k + 1] = start[k]
            ELSE start[k + 1] = start[k] + 1 /\ t[start[k + 1]] = es[k]
      BY <2>1 DEF Follows
    <3>3. start[k] \in 0 .. Len(t) /\ start[k + 1] \in 0 .. Len(t)
      <4>1. k \in 1 .. Len(es) + 1 /\ k + 1 \in 1 .. Len(es) + 1
        BY <1>1, <2>1
      <4> QED
        BY <4>1
    <3>4. start[k + 1] = start[k] + 1 => whole[start[k + 1]] = t[start[k + 1]]
      <4>1. start[k + 1] = start[k] + 1 => start[k + 1] \in 1 .. Len(t)
        BY ONLY <1>2, <3>3
      <4> QED
        BY ONLY <1>2, <4>1
    <3> QED
      BY <3>1, <3>2, <3>4
  <2>2. ASSUME NEW i \in 1 .. Len(new), k = Len(es) + i
        PROVE  /\ more[k].kind # "ask"
               /\ next[k + 1] = next[k] + 1 /\ whole[next[k + 1]] = more[k]
    <3>1. more[k] = new[i] /\ new[i] \in Events
      BY <1>1, <2>2, ElementOfSeq
    <3>2. next[k + 1] = Len(t) + i
      BY <1>1, <1>3, <2>2
    <3>3. next[k] = Len(t) + i - 1
      <4>1. CASE i = 1
        <5>1. k = Len(es) + 1 /\ next[Len(es) + 1] = Len(t)
          BY <1>1, <1>3, <2>2, <4>1
        <5> QED
          BY <1>1, <4>1, <5>1
      <4>2. CASE i - 1 \in 1 .. Len(new)
        BY <1>1, <1>2, <1>3, <2>2, <4>2
      <4> QED
        BY <1>1, <4>1, <4>2
    <3>4. whole[next[k + 1]] = more[k] /\ next[k + 1] = next[k] + 1
      <4> HIDE DEF next
      <4> QED
        BY <1>2, <2>2, <3>1, <3>2, <3>3
    <3> QED
      BY <3>1, <3>4, Kinds
  <2>3. k \in 1 .. Len(es) \/ \E i \in 1 .. Len(new) : k = Len(es) + i
    <3>1. CASE k > Len(es)
      <4>1. k - Len(es) \in 1 .. Len(new) /\ k = Len(es) + (k - Len(es))
        BY <1>1, <3>1
      <4> QED
        BY <4>1
    <3>2. CASE ~ k > Len(es)
      BY <1>1, <3>2
    <3> QED
      BY <3>1, <3>2
  <2> QED
    BY <2>1, <2>2, <2>3
<1>7. Follows(whole, next, more, from, Len(whole))
  BY <1>5, <1>6 DEF Follows
<1> QED
  BY <1>4, <1>7 DEF more, whole
--------------------------------------------------------------------------------
(* The places are counted in natural numbers. *)
LEMMA Places ==
  ASSUME Typed
  PROVE  /\ received \in Seq(Events) /\ bridged \in Seq(Events) /\ out \in Seq(Events)
         /\ said \in Seq(Events) /\ events \in Seq(Events \cup Questions)
         /\ Len(received) \in Nat /\ Len(bridged) \in Nat /\ Len(out) \in Nat
         /\ Len(said) \in Nat /\ Len(events) \in Nat
         /\ AtReview \in Nat /\ AtBridge \in Nat /\ AtOut \in Nat /\ Passed \in Nat
<1>1. /\ received \in Seq(Events) /\ bridged \in Seq(Events) /\ out \in Seq(Events)
      /\ said \in Seq(Events) /\ events \in Seq(Events \cup Questions)
  BY DEF Typed, TaskTyped, ChannelsTyped, SaidTyped
<1> QED
  BY <1>1, LenProperties DEF AtReview, AtBridge, AtOut, Passed

(* The events are left alone by a step that moves none. *)
LEMMA EventKept ==
  ASSUME Typed, EventInv,
         UNCHANGED <<bridge, events, out, bridged, received, said>>,
         forward'.pc = forward.pc /\ forward'.event = forward.event,
         task'.pc = "reading" => task.pc = "reading",
         Fresh'
  PROVE  EventInv'
<1> USE DEF EventInv
<1>1. Seen'
  BY DEF Seen
<1>2. UNCHANGED <<AtReview, AtBridge, AtOut, Passed>>
  BY DEF AtReview, AtBridge, AtOut, Passed
<1>3. Passing' /\ Rest'
  BY <1>2 DEF Passing, Rest, Forwards
<1> QED
  BY <1>1, <1>3

(* So it is when forward_events asks and is answered. *)
LEMMA ForwardAsksKeeps ==
  ASSUME Typed, EventInv, task.pc # "starting",
         ForwardAsk \/ ForwardDenied \/ ForwardCancelled \/ ForwardAnswered \/ ForwardReply
  PROVE  EventInv'
<1> USE DEF EventInv
<1>1. /\ UNCHANGED <<task, bridge, events, out, bridged, received, said>>
      /\ forward.pc \in {"asking", "waiting", "replying"}
      /\ forward'.pc \in {"asking", "waiting", "replying", "receiving"}
  <2> USE DEF Others, taskVars, channels, ForwardAt, ForwardGoto, ForwardLeaves, Typed, ForwardTyped
  <2>1. CASE ForwardAsk
    BY <2>1 DEF ForwardAsk
  <2>2. CASE ForwardDenied
    BY <2>2 DEF ForwardDenied
  <2>3. CASE ForwardCancelled
    BY <2>3 DEF ForwardCancelled
  <2>4. CASE ForwardAnswered
    BY <2>4 DEF ForwardAnswered
  <2>5. CASE ForwardReply
    BY <2>5 DEF ForwardReply
  <2> QED
    BY <2>1, <2>2, <2>3, <2>4, <2>5
<1>2. UNCHANGED <<AtReview, AtBridge, AtOut, Passed>>
  BY <1>1 DEF AtReview, AtBridge, AtOut, Passed
<1>3. Seen' /\ Fresh'
  BY <1>1 DEF Seen, Fresh
<1>4. Passing'
  BY <1>1, <1>2 DEF Passing
<1>5. Rest'
  BY <1>1, <1>2 DEF Rest, Forwards
<1> QED
  BY <1>3, <1>4, <1>5

(* forward_events stops: the event it has and the rest are lost. *)
LEMMA ForwardStopsKeeps ==
  ASSUME Typed, EventInv, task.pc # "starting",
         UNCHANGED <<task, bridge, out, bridged, received, said>>,
         forward'.pc \in {"interrupting", "stopping", "draining", "done"}
  PROVE  EventInv'
<1> USE DEF EventInv
<1>1. Seen' /\ Fresh' /\ Rest'
  BY DEF Seen, Fresh, Rest, Forwards
<1>2. UNCHANGED <<AtReview, AtBridge, AtOut>> /\ Passed' = AtOut /\ AtOut <= Passed
  <2>1. UNCHANGED <<AtReview, AtBridge, AtOut>>
    BY DEF AtReview, AtBridge, AtOut
  <2>2. Passed' = AtOut
    BY <2>1, Places DEF Passed
  <2>3. AtOut <= Passed
    BY Places DEF Passed
  <2> QED
    BY <2>1, <2>2, <2>3
<1>3. Passing'
  BY <1>2, Places DEF Passing
<1> QED
  BY <1>1, <1>3

(* forward_events takes the next event of the child. *)
LEMMA ForwardReceiveKeeps ==
  ASSUME Typed, EventInv, task.pc # "starting", ForwardReceive
  PROVE  EventInv'
<1> USE DEF EventInv
<1>1. /\ UNCHANGED <<task, bridge, out, bridged, received, said>>
      /\ forward.pc = "receiving" /\ events # <<>> /\ events' = Tail(events)
      /\ forward'.event = Head(events)
      /\ forward'.pc = IF Head(events).kind = "ask" THEN "asking" ELSE "sending"
  BY DEF ForwardReceive, Others, taskVars, ForwardAt
<1>2. Seen' /\ Fresh'
  BY <1>1 DEF Seen, Fresh
<1> DEFINE one == IF Head(events).kind = "ask" THEN 0 ELSE 1
<1>3. /\ UNCHANGED <<AtReview, AtBridge, AtOut>> /\ Passed = AtOut /\ Passed' = Passed + one
  BY <1>1, Places DEF AtReview, AtBridge, AtOut, Passed
<1>4. ASSUME task.pc = "reading"
      PROVE  /\ Passed + one <= Len(said)
             /\ Head(events).kind # "ask" => said[Passed + 1] = Head(events)
             /\ \E next \in [1 .. Len(Tail(events)) + 1 -> 0 .. Len(said)] :
                    Follows(said, next, Tail(events), Passed + one, Len(said))
  <2>1. PICK start \in [1 .. Len(events) + 1 -> 0 .. Len(said)] :
                Follows(said, start, events, Passed, Len(said))
    BY <1>1, <1>4 DEF Rest, Forwards
  <2> QED
    BY <1>1, <2>1, Places, FollowsTail
<1>5. Rest'
  BY <1>1, <1>3, <1>4 DEF Rest
<1>6. Passing'
  BY <1>1, <1>3, <1>4, Places DEF Passing
<1> QED
  BY <1>2, <1>5, <1>6

(* forward_events passes its event on. *)
LEMMA ForwardSendKeeps ==
  ASSUME Typed, EventInv, task.pc # "starting", ForwardSend
  PROVE  EventInv'
<1> USE DEF EventInv
<1>1. /\ UNCHANGED <<task, events, bridge, bridged, received, said>>
      /\ forward.pc = "sending" /\ forward.event \in Events
  BY DEF ForwardSend, Others, taskVars, ForwardAt, Typed, ForwardTyped
<1>2. CASE out' = Append(out, forward.event) /\ forward'.pc = "receiving"
  <2>1. Seen' /\ Fresh'
    BY <1>1 DEF Seen, Fresh
  <2>2. Len(out') = Len(out) + 1
    BY <1>1, <1>2, Places, OneMore
  <2>3. /\ UNCHANGED <<AtReview, AtBridge, Passed>> /\ Passed = AtBridge + Len(out) + 1
    BY <1>1, <1>2, <2>2, Places DEF AtReview, AtBridge, AtOut, Passed
  <2>4. Rest'
    BY <1>1, <2>3 DEF Rest, Forwards
  <2>5. ASSUME task.pc = "reading"
        PROVE  Piece(said, Append(out, forward.event), AtBridge)
    BY <1>1, <2>3, <2>5, Places, PieceAppend DEF Passing
  <2>6. Passing'
    BY <1>1, <1>2, <2>3, <2>5 DEF Passing
  <2> QED
    BY <2>1, <2>4, <2>6
<1>3. CASE UNCHANGED out /\ forward'.pc = "interrupting"
  BY <1>1, <1>3, ForwardStopsKeeps
<1> QED
  BY <1>2, <1>3 DEF ForwardSend, ForwardLeaves

(* Before the review starts the tasks between do nothing. *)
LEMMA NothingBetween ==
  ASSUME Fresh, ForwardStep \/ OpsStep \/ BridgeStep \/ ChildOp \/ ModelStep
  PROVE  task.pc # "starting"
  BY DEF Fresh, ForwardStep, ForwardReceive, ForwardAsk, ForwardDenied, ForwardCancelled,
     ForwardAnswered, ForwardReply, ForwardSend, ForwardStop, ForwardInterrupt, ForwardShutdown,
     ForwardDrain, ForwardAt, OpsStep, OpsReceive, OpsSubmit, BridgeStep, BridgeReceive,
     BridgeSend, BridgeClose, ChildOp, ModelStep, ChildMessage, ChildComplete, ChildAsk,
     ChildDropsCall

(* The steps of forward_events keep the order of the events. *)
LEMMA ForwardKeepsEvents ==
  ASSUME Typed, EventInv, ForwardStep
  PROVE  EventInv'
<1>1. task.pc # "starting"
  BY NothingBetween DEF EventInv
<1>2. CASE ForwardStop \/ ForwardInterrupt \/ ForwardShutdown \/ ForwardDrain
  <2>1. /\ UNCHANGED <<task, bridge, out, bridged, received, said>>
        /\ forward'.pc \in {"interrupting", "stopping", "draining", "done"}
    BY <1>2 DEF ForwardStop, ForwardInterrupt, ForwardShutdown, ForwardDrain, Others, taskVars,
       ForwardLeaves, channels
  <2> QED
    BY <1>1, <2>1, ForwardStopsKeeps
<1> QED
  BY <1>1, <1>2, ForwardAsksKeeps, ForwardReceiveKeeps, ForwardSendKeeps DEF ForwardStep

(* Those of the bridge keep it, and an event that reaches no reader is the *)
(* last of all.                                                            *)
LEMMA BridgeKeepsEvents ==
  ASSUME Typed, EventInv, OpsStep \/ BridgeStep
  PROVE  EventInv'
<1> USE DEF EventInv, taskVars, parentVars
<1>1. task.pc # "starting"
  BY NothingBetween
<1>2. /\ UNCHANGED <<task, forward, events, received, said>>
      /\ Fresh'
  BY <1>1 DEF Fresh, OpsStep, OpsReceive, OpsSubmit, BridgeStep, BridgeReceive, BridgeSend,
     BridgeClose
<1>3. CASE OpsStep
  BY <1>2, <1>3, EventKept DEF OpsStep, OpsReceive, OpsSubmit
<1>4. CASE BridgeReceive
  <2>1. bridge.pc = "receiving" /\ bridged' = bridged
    BY <1>4 DEF BridgeReceive
  <2>2. CASE out # <<>> /\ bridge' = [pc |-> "sending", event |-> Head(out)] /\ out' = Tail(out)
    <3>1. Len(out') = Len(out) - 1 /\ Len(out) \in Nat \ {0}
      BY <2>2, Places, Behead
    <3>2. /\ UNCHANGED <<AtReview, AtOut, Passed>>
          /\ AtBridge = AtReview /\ AtBridge' = AtBridge + 1
      BY <1>2, <2>1, <2>2, <3>1, Places DEF AtReview, AtBridge, AtOut, Passed
    <3>3. Seen' /\ Rest'
      BY <1>2, <2>1, <3>2 DEF Seen, Rest, Forwards
    <3>4. ASSUME task.pc = "reading"
          PROVE  said[AtBridge + 1] = Head(out) /\ Piece(said, Tail(out), AtBridge + 1)
      BY <2>2, <3>4, Places, PieceTail DEF Passing
    <3>5. Passing'
      BY <1>2, <2>2, <3>2, <3>4 DEF Passing
    <3> QED
      BY <1>2, <3>3, <3>5
  <2>3. CASE bridge'.pc = "done" /\ out' = out
    <3>1. UNCHANGED <<AtReview, AtBridge, AtOut, Passed>>
      BY <1>2, <2>1, <2>3 DEF AtReview, AtBridge, AtOut, Passed
    <3>2. Seen' /\ Rest' /\ Passing'
      BY <1>2, <2>1, <2>3, <3>1 DEF Seen, Rest, Passing, Forwards
    <3> QED
      BY <1>2, <3>2
  <2> QED
    BY <1>4, <2>2, <2>3 DEF BridgeReceive, Typed, DelegateTyped
<1>5. CASE BridgeSend
  <2>1. /\ bridge.pc = "sending" /\ bridge.event \in Events /\ out' = out
        /\ bridge'.pc \in {"closing", "receiving"}
    BY <1>5 DEF BridgeSend, Typed, DelegateTyped
  <2>2. CASE task.pc = "reading" /\ bridged' = Append(bridged, bridge.event)
    <3>1. Len(bridged') = Len(bridged) + 1
      BY <2>1, <2>2, Places, OneMore
    <3>2. /\ UNCHANGED <<AtBridge, AtOut, Passed>> /\ AtBridge = Len(received) + Len(bridged) + 1
      <4>1. AtReview' = AtReview + 1 /\ AtBridge = AtReview + 1
        BY <1>2, <2>1, <3>1, Places DEF AtReview, AtBridge
      <4>2. AtBridge' = AtBridge
        BY <2>1, <4>1, Places DEF AtBridge
      <4> QED
        BY <1>2, <2>1, <4>1, <4>2 DEF AtReview, AtOut, Passed
    <3>3. AtBridge <= Len(said)
      BY <2>2, Places DEF Passing, Piece
    <3>4. Piece(said, Append(bridged, bridge.event), Len(received))
      BY <2>1, <2>2, <3>2, <3>3, Places, PieceAppend DEF Passing, Seen
    <3>5. Seen'
      BY <1>2, <2>2, <3>4 DEF Seen
    <3>6. Rest' /\ Passing'
      BY <1>2, <2>1, <3>2 DEF Rest, Passing, Forwards
    <3> QED
      BY <1>2, <3>5, <3>6
  <2>3. CASE task.pc # "reading" /\ bridged' = bridged
    BY <1>2, <2>3 DEF Seen, Rest, Passing
  <2> QED
    BY <1>5, <2>2, <2>3 DEF BridgeSend
<1>6. CASE BridgeClose
  <2>1. bridge.pc = "closing" /\ bridge'.pc = "done" /\ UNCHANGED <<out, bridged>>
    BY <1>6 DEF BridgeClose, Typed, DelegateTyped
  <2>2. UNCHANGED <<AtReview, AtBridge, AtOut, Passed>>
    BY <1>2, <2>1 DEF AtReview, AtBridge, AtOut, Passed
  <2>3. Seen' /\ Rest' /\ Passing'
    BY <1>2, <2>1, <2>2 DEF Seen, Rest, Passing, Forwards
  <2> QED
    BY <1>2, <2>3
<1> QED
  BY <1>3, <1>4, <1>5, <1>6 DEF BridgeStep

(* What the child says is behind everything on its way. *)
LEMMA SaidKeeps ==
  ASSUME Typed, EventInv, task.pc # "starting", NEW es \in Seq(Events), Send(es),
         UNCHANGED <<task, forward, bridge, out, bridged, received>>
  PROVE  EventInv'
<1> USE DEF EventInv
<1>1. /\ said' = said \o es
      /\ Forwards => events' = events \o es
  BY DEF Send, Emit, Forwards, Halted
<1>2. /\ Len(said') \in Nat /\ Len(said) <= Len(said')
      /\ \A i \in 1 .. Len(said) : said'[i] = said[i]
  BY <1>1, Places, Joined
<1>3. UNCHANGED <<AtReview, AtBridge, AtOut, Passed>>
  BY DEF AtReview, AtBridge, AtOut, Passed
<1>4. Seen'
  <2>1. Piece(said', received, 0) /\ Piece(said', bridged, Len(received))
    BY <1>1, Places, PieceGrows DEF Seen
  <2> QED
    BY <2>1 DEF Seen
<1>5. Passing'
  <2> SUFFICES ASSUME task.pc = "reading"
               PROVE  /\ bridge.pc = "sending" => said'[AtBridge] = bridge.event
                      /\ Piece(said', out, AtBridge)
                      /\ forward.pc = "sending" => said'[Passed] = forward.event
                      /\ Passed <= Len(said')
    BY <1>3 DEF Passing
  <2>1. Piece(said', out, AtBridge)
    BY <1>1, Places, PieceGrows DEF Passing
  <2>2. Passed <= Len(said) /\ AtBridge <= Passed
    BY Places DEF Passing, Passed, AtOut
  <2>3. /\ bridge.pc = "sending" => AtBridge \in 1 .. Len(said)
        /\ forward.pc = "sending" => Passed \in 1 .. Len(said)
    BY <2>2, Places DEF AtBridge, Passed
  <2> QED
    BY <1>2, <2>1, <2>2, <2>3, Places DEF Passing
<1>6. Rest'
  <2> SUFFICES ASSUME task.pc = "reading", Forwards
               PROVE  \E next \in [1 .. Len(events') + 1 -> 0 .. Len(said')] :
                          Follows(said', next, events', Passed, Len(said'))
    BY <1>3 DEF Rest, Forwards
  <2>1. PICK start \in [1 .. Len(events) + 1 -> 0 .. Len(said)] :
                Follows(said, start, events, Passed, Len(said))
    BY DEF Rest
  <2>2. \E next \in [1 .. Len(events \o es) + 1 -> 0 .. Len(said \o es)] :
           Follows(said \o es, next, events \o es, Passed, Len(said \o es))
    BY <2>1, Places, FollowsSend
  <2> QED
    BY <1>1, <2>2
<1> QED
  BY <1>4, <1>5, <1>6 DEF Fresh

(* A question is not among what is said. *)
LEMMA AskKeeps ==
  ASSUME Typed, EventInv, task.pc # "starting", NEW q \in Questions, Emit(<<q>>),
         UNCHANGED <<task, forward, bridge, out, bridged, received, said>>
  PROVE  EventInv'
<1> USE DEF EventInv
<1>1. Forwards => events' = events \o <<q>>
  BY DEF Emit, Forwards, Halted
<1>2. UNCHANGED <<AtReview, AtBridge, AtOut, Passed>>
  BY DEF AtReview, AtBridge, AtOut, Passed
<1>3. Seen' /\ Passing' /\ Fresh'
  BY <1>2 DEF Seen, Passing, Fresh
<1>4. Rest'
  <2> SUFFICES ASSUME task.pc = "reading", Forwards
               PROVE  \E next \in [1 .. Len(events') + 1 -> 0 .. Len(said)] :
                          Follows(said, next, events', Passed, Len(said))
    BY <1>2 DEF Rest, Forwards
  <2>1. PICK start \in [1 .. Len(events) + 1 -> 0 .. Len(said)] :
                Follows(said, start, events, Passed, Len(said))
    BY DEF Rest
  <2>2. \E next \in [1 .. Len(events \o <<q>>) + 1 -> 0 .. Len(said)] :
           Follows(said, next, events \o <<q>>, Passed, Len(said))
    BY <2>1, Places, FollowsAsk
  <2> QED
    BY <1>1, <2>2
<1> QED
  BY <1>3, <1>4

(* The child and the model keep the order of the events. *)
LEMMA ChildKeepsEvents ==
  ASSUME Typed, EventInv, ChildOp \/ ModelStep
  PROVE  EventInv'
<1>1. task.pc # "starting"
  BY NothingBetween DEF EventInv
<1>2. UNCHANGED <<task, forward, bridge, out, bridged, received>>
  BY DEF ChildOp, ModelStep, ChildMessage, ChildComplete, ChildAsk, ChildDropsCall, Inner,
     taskVars, delegateVars
<1>3. ASSUME NEW es \in Seq(Events), AbortTurn(es)
      PROVE  EventInv'
  <2>1. PICK all \in Seq(Events) : Send(all)
    BY <1>3, AbortEvents DEF AbortTurn
  <2> QED
    BY <1>1, <1>2, <2>1, SaidKeeps
<1>4. CASE ChildOp
  <2>1. CASE ChildInput \/ ChildAnswer
    <3>1. UNCHANGED <<events, said>>
      BY <2>1 DEF ChildInput, ChildAnswer
    <3> QED
      BY <1>1, <1>2, <3>1, EventKept DEF Fresh
  <2>2. CASE ChildInterrupt \/ ChildShutdown
    <3>1. <<>> \in Seq(Events) /\ <<Event("closed", 0)>> \in Seq(Events)
      BY Kinds
    <3> QED
      BY <1>3, <2>2, <3>1 DEF ChildInterrupt, ChildShutdown
  <2> QED
    BY <1>4, <2>1, <2>2 DEF ChildOp
<1>5. CASE ChildMessage \/ ChildComplete
  <2>1. /\ <<Event("message", Len(said) + 1)>> \in Seq(Events)
        /\ <<Event("complete", 0)>> \in Seq(Events)
    BY Kinds, Places
  <2>2. PICK es \in Seq(Events) : Send(es)
    BY <1>5, <2>1 DEF ChildMessage, ChildComplete
  <2> QED
    BY <1>1, <1>2, <2>2, SaidKeeps
<1>6. ASSUME NEW n \in Calls, ChildAsk(n)
      PROVE  EventInv'
  <2>1. Event("ask", n) \in Questions /\ Emit(<<Event("ask", n)>>) /\ UNCHANGED said
    BY <1>6, Kinds DEF ChildAsk
  <2> QED
    BY <1>1, <1>2, <2>1, AskKeeps
<1>7. ASSUME NEW n \in Calls, ChildDropsCall(n)
      PROVE  EventInv'
  <2>1. UNCHANGED <<events, said>>
    BY <1>7 DEF ChildDropsCall
  <2> QED
    BY <1>1, <1>2, <2>1, EventKept DEF Fresh
<1> QED
  BY <1>4, <1>5, <1>6, <1>7 DEF ModelStep

(* The review begins with nothing said, and sees each event once. *)
LEMMA TaskKeepsEvents ==
  ASSUME Typed, EventInv, TaskStep
  PROVE  EventInv'
<1> USE DEF EventInv, TaskAt, TaskGoto
<1>1. CASE TaskStart
  <2>1. /\ received' = <<>> /\ bridged' = <<>> /\ out' = <<>> /\ events' = <<>> /\ said' = <<>>
        /\ forward'.pc = "receiving" /\ bridge'.pc = "receiving" /\ task'.pc = "reading"
    BY <1>1 DEF TaskStart, Fresh, Typed, TaskTyped, ForwardTyped, DelegateTyped
  <2>2. Len(<<>>) = 0
    BY EmptySeq
  <2>3. AtReview' = 0 /\ AtBridge' = 0 /\ AtOut' = 0 /\ Passed' = 0
    BY <2>1, <2>2 DEF AtReview, AtBridge, AtOut, Passed
  <2>4. Piece(<<>>, <<>>, 0)
    BY <2>2 DEF Piece
  <2>5. Seen' /\ Passing' /\ Fresh'
    BY <2>1, <2>2, <2>3, <2>4 DEF Seen, Passing, Fresh
  <2>6. Follows(<<>>, [i \in 1 .. 1 |-> 0], <<>>, 0, 0)
    BY <2>2 DEF Follows
  <2>7. [i \in 1 .. 1 |-> 0] \in [1 .. Len(<<>>) + 1 -> 0 .. Len(<<>>)]
    BY <2>2
  <2>8. Rest'
    BY <2>1, <2>2, <2>3, <2>6, <2>7 DEF Rest
  <2> QED
    BY <2>5, <2>8
<1>2. CASE TaskRead
  <2>1. /\ UNCHANGED <<forward, bridge, out, events, said>>
        /\ bridged # <<>> /\ bridged' = Tail(bridged) /\ task.pc = "reading"
        /\ received' = Append(received, Head(bridged)) /\ task'.pc \in {"reading", "looking"}
    BY <1>2 DEF TaskRead, delegateVars, Typed, TaskTyped
  <2>2. /\ Head(bridged) \in Events /\ Len(received') = Len(received) + 1
        /\ Len(bridged') = Len(bridged) - 1 /\ Len(bridged) \in Nat \ {0}
    BY <2>1, Places, Behead, OneMore
  <2>3. UNCHANGED <<AtReview, AtBridge, AtOut, Passed>>
    BY <2>1, <2>2, Places DEF AtReview, AtBridge, AtOut, Passed
  <2>4. /\ said[Len(received) + 1] = Head(bridged) /\ Len(received) + 1 <= Len(said)
        /\ Piece(said, Tail(bridged), Len(received) + 1)
    BY <2>1, Places, PieceTail DEF Seen
  <2>5. Piece(said, Append(received, Head(bridged)), 0)
    <3>1. 0 + Len(received) + 1 = Len(received) + 1
      BY Places
    <3> QED
      BY <2>2, <2>4, <3>1, Places, PieceAppend DEF Seen
  <2>6. Seen'
    BY <2>1, <2>2, <2>4, <2>5 DEF Seen
  <2>7. Passing' /\ Rest'
    BY <2>1, <2>3 DEF Passing, Rest, Forwards
  <2> QED
    BY <2>1, <2>6, <2>7 DEF Fresh
<1>3. CASE \/ TaskStartFails \/ TaskReadClosed \/ TaskLook \/ TaskExit \/ TaskFinish
           \/ TaskDrop
  <2>1. /\ UNCHANGED <<forward, bridge, events, out, bridged, received, said>>
        /\ task'.pc \notin {"starting", "reading"}
    BY <1>3 DEF TaskStartFails, TaskReadClosed, TaskLook, TaskExit, TaskFinish, TaskDrop,
       delegateVars, channels, Typed, TaskTyped
  <2> QED
    BY <2>1, EventKept DEF Fresh
<1> QED
  BY <1>1, <1>2, <1>3 DEF TaskStep

(* The parent moves no event. *)
LEMMA ParentKeepsEvents ==
  ASSUME Typed, ConsentInv, EventInv,
         Take \/ LoopStep \/ \E d \in {"approved", "denied"} : Answer(d)
  PROVE  EventInv'
<1> USE DEF EventInv, taskVars, delegateVars, childVars, channels
<1>1. CASE Take \/ LoopStep
  <2>1. UNCHANGED <<task, forward, forwardOps, bridge, ops, subs, events, out, bridged, received,
                    said, child, turn>>
    BY <1>1 DEF Take, LoopStep, CancelToken, AbortTask, Leave
  <2> QED
    BY <2>1, EventKept DEF Fresh
<1>2. ASSUME NEW d \in {"approved", "denied"}, Answer(d)
      PROVE  EventInv'
  <2>1. /\ UNCHANGED <<task, forwardOps, bridge, ops, subs, events, out, bridged, received, said,
                       child, turn>>
        /\ forward'.pc = forward.pc /\ forward'.event = forward.event
    BY <1>2 DEF Answer, Typed, ForwardTyped
  <2> QED
    BY <2>1, EventKept DEF Fresh
<1> QED
  BY <1>1, <1>2
--------------------------------------------------------------------------------
(* A new review satisfies the inductive invariant. *)
LEMMA InitIInv == Init => IInv
<1> SUFFICES ASSUME Init PROVE IInv
  OBVIOUS
<1> USE DEF Init
<1>1. Len(<<>>) = 0 /\ ToSet(<<>>) = {}
  BY EmptySeq DEF ToSet
<1>2. Typed
  <2>1. ParentTyped /\ TaskTyped /\ SaidTyped
    <3>1. active \in BOOLEAN /\ cancelled \in BOOLEAN /\ doomed \in BOOLEAN
      OBVIOUS
    <3>2. question \in 0 .. MaxCalls
      OBVIOUS
    <3>3. ParentTyped
      BY <3>1, <3>2 DEF ParentTyped
    <3>4. TaskTyped /\ SaidTyped
      BY <3>1 DEF TaskTyped, TaskPlaces, SaidTyped
    <3> QED
      BY <3>3, <3>4
  <2>2. ForwardTyped /\ DelegateTyped
    BY DEF ForwardTyped, DelegateTyped
  <2>3. ChildTyped /\ ChannelsTyped
    BY <1>1 DEF ChildTyped, ChannelsTyped
  <2> QED
    BY <2>1, <2>2, <2>3 DEF Typed
<1>3. ConsentInv
  <2>1. Approved = {} /\ Sent(subs) = {} /\ Held = 0
    BY <1>1 DEF Approved, Sent, Held
  <2>2. Cardinality({}) = 0
    BY FS_EmptySet
  <2>3. AnswerHeld
    BY DEF AnswerHeld
  <2>4. consents = 0
    OBVIOUS
  <2>5. Granted
    BY ONLY <2>1, <2>2, <2>4 DEF Granted
  <2> QED
    BY <2>3, <2>5 DEF ConsentInv
<1>4. EventInv
  BY <1>1 DEF EventInv, Fresh, Seen, Passing, Rest, Piece
<1>5. LeaveInv
  BY <1>1 DEF LeaveInv, Exits, Output
<1> QED
  BY <1>2, <1>3, <1>4, <1>5 DEF IInv

(* Every step keeps it. *)
LEMMA NextIInv == IInv /\ [Next]_vars => IInv'
<1> SUFFICES ASSUME IInv, [Next]_vars PROVE IInv'
  OBVIOUS
<1> USE DEF IInv
<1>1. CASE Take \/ LoopStep
  BY <1>1, ParentKeepsTypes, TaskCounts, ParentKeepsEvents, LeaveHolds DEF EventInv
<1>2. ASSUME NEW d \in {"approved", "denied"}, Answer(d)
      PROVE  IInv'
  <2>1. UNCHANGED <<loop, active, cancelled, task, exits, received>>
    BY <1>2 DEF Answer, taskVars
  <2> QED
    BY <1>2, <2>1, ParentKeepsTypes, AnswerCounts, ParentKeepsEvents, LeaveKept
<1>3. CASE TaskStep
  BY <1>3, TaskKeepsTypes, TaskCounts, TaskKeepsEvents, LeaveHolds DEF EventInv
<1>4. CASE ForwardStep
  <2>1. UNCHANGED <<loop, active, cancelled, task, exits, received>>
    BY <1>4 DEF ForwardStep, ForwardReceive, ForwardAsk, ForwardDenied, ForwardCancelled,
       ForwardAnswered, ForwardReply, ForwardSend, ForwardStop, ForwardInterrupt,
       ForwardShutdown, ForwardDrain, Others, taskVars
  <2> QED
    BY <1>4, <2>1, ForwardKeepsTypes, ForwardCounts, ForwardKeepsEvents, LeaveKept
<1>5. CASE OpsStep \/ BridgeStep
  <2>1. UNCHANGED <<loop, active, cancelled, task, exits, received>>
    BY <1>5 DEF OpsStep, OpsReceive, OpsSubmit, BridgeStep, BridgeReceive, BridgeSend,
       BridgeClose, parentVars, taskVars
  <2> QED
    BY <1>5, <2>1, BridgeKeepsTypes, OpsCount, BridgeKeepsEvents, LeaveKept
<1>6. CASE ChildOp \/ ModelStep
  <2>1. UNCHANGED <<loop, active, cancelled, task, exits, received>>
    BY <1>6 DEF ChildOp, ModelStep, ChildMessage, ChildComplete, ChildAsk, ChildDropsCall,
       Inner, parentVars, taskVars
  <2> QED
    BY <1>6, <2>1, ChildKeepsTypes, ChildCounts, ModelCounts, ChildKeepsEvents, LeaveKept
<1>7. CASE UNCHANGED vars
  <2> USE <1>7 DEF vars, parentVars, taskVars, delegateVars, childVars, channels
  <2>1. Typed'
    BY TypeKept DEF Typed
  <2>2. ConsentInv' /\ LeaveInv'
    BY ConsentKept, LeaveKept
  <2>3. EventInv'
    BY EventKept DEF EventInv, Fresh
  <2> QED
    BY <2>1, <2>2, <2>3
<1> QED
  BY <1>1, <1>2, <1>3, <1>4, <1>5, <1>6, <1>7 DEF Next

(* It holds in every reachable state. *)
LEMMA Invariant == Spec => []IInv
  BY InitIInv, NextIInv, PTL DEF Spec

(* Every state is in the ranges of the variables, the channels within *)
(* their capacity.                                                    *)
THEOREM TypeCorrect == Spec => []TypeOK
<1>1. IInv => TypeOK
  BY TypedRanges DEF IInv
<1> QED
  BY <1>1, Invariant, PTL

(* However the answers, the cancellation and the end of the parent's turn  *)
(* interleave, no more calls are approved than the user approved.          *)
THEOREM ConsentNotMultiplied == Spec => []ConsentCounted
<1>1. IInv => ConsentCounted
  <2> SUFFICES ASSUME IInv PROVE ConsentCounted
    OBVIOUS
  <2>1. /\ Cardinality(Approved) \in Nat /\ Cardinality(Sent(subs)) \in Nat
        /\ Held \in {0, 1} /\ consents \in Nat
    BY CountsFinite DEF IInv, Typed, ChannelsTyped, ParentTyped, Held
  <2>2. Cardinality(Approved) + Cardinality(Sent(subs)) + Held <= consents
    BY DEF IInv, ConsentInv, Granted
  <2> QED
    BY <2>1, <2>2 DEF ConsentCounted, Approved
<1> QED
  BY <1>1, Invariant, PTL

(* What the review has seen or is about to see is a prefix of what the *)
(* child said.                                                         *)
THEOREM NoEventSkipped == Spec => []EventsInOrder
<1>1. IInv => EventsInOrder
  <2> SUFFICES ASSUME IInv PROVE EventsInOrder
    OBVIOUS
  <2> USE DEF IInv, EventInv
  <2> DEFINE all == received \o bridged
  <2>1. /\ all \in Seq(Events) /\ said \in Seq(Events)
        /\ Len(all) = Len(received) + Len(bridged)
        /\ Len(received) \in Nat /\ Len(bridged) \in Nat /\ Len(said) \in Nat
        /\ \A i \in 1 .. Len(received) : all[i] = received[i]
        /\ \A i \in 1 .. Len(bridged) : all[Len(received) + i] = bridged[i]
    <3>1. /\ received \in Seq(Events) /\ bridged \in Seq(Events) /\ said \in Seq(Events)
          /\ Len(said) \in Nat
      BY Places
    <3> QED
      BY ONLY <3>1, Joined
  <2> HIDE DEF all
  <2>2. Len(all) <= Len(said)
    BY <2>1 DEF Seen, Piece
  <2>3. ASSUME NEW i \in 1 .. Len(all) PROVE said[i] = all[i]
    <3>1. CASE i \in 1 .. Len(received)
      BY <2>1, <3>1 DEF Seen, Piece
    <3>2. ASSUME NEW j \in 1 .. Len(bridged), i = Len(received) + j PROVE said[i] = all[i]
      BY <2>1, <3>2 DEF Seen, Piece
    <3>3. CASE i > Len(received)
      <4>1. i - Len(received) \in 1 .. Len(bridged) /\ i = Len(received) + (i - Len(received))
        BY <2>1, <3>3
      <4> QED
        BY <3>2, <4>1
    <3> QED
      BY <2>1, <3>1, <3>3
  <2>4. SubSeq(all, 1, Len(all)) = SubSeq(said, 1, Len(all))
    BY <2>1, <2>2, <2>3, SubSeqProperties
  <2> QED
    BY <2>2, <2>4 DEF EventsInOrder, IsPrefix, all
<1> QED
  BY <1>1, Invariant, PTL

(* A turn that is over has left review mode; with an output only when the *)
(* child completed, and twice only through the task and the abort.        *)
THEOREM ReviewModeLeft == Spec => []ReviewLeft
<1>1. IInv => ReviewLeft
  <2> SUFFICES ASSUME IInv PROVE ReviewLeft
    OBVIOUS
  <2>1. Len(exits) = 2 => loop = "over" /\ task.pc \in {"flushing", "done", "dropped"}
    BY DEF IInv, LeaveInv, Exits
  <2>2. ~ active /\ loop \in {"idle", "over"} => exits # <<>>
    BY DEF IInv, LeaveInv, Exits
  <2>3. "result" \in ToSet(exits) => Event("complete", 0) \in ToSet(received)
    BY DEF IInv, LeaveInv, Output
  <2> QED
    BY <2>1, <2>2, <2>3 DEF ReviewLeft
<1> QED
  BY <1>1, Invariant, PTL
================================================================================
