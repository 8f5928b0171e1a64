---------------------------- MODULE ToolCallsProofs ----------------------------
(***************************************************************************)
(* Safety of the tool calls of a turn, for any calls, any kinds of tools   *)
(* and any number of sampling requests.  The argument for consent: a call  *)
(* asks at most once, so that a decision which says yes is never           *)
(* overwritten; what is in the store was put there by such a decision; and *)
(* already_approved is set by one or by the other.  For the outputs: those  *)
(* recorded and the calls in flight together are in the order of emission. *)
(***************************************************************************)
EXTENDS ToolCalls, SequenceTheorems, TLAPS

(* The user consented, to the call itself or to each of its keys. *)
Consented(c) ==
    \/ channel[c] \in Consents
    \/ tool[c].keys # {} /\ \A k \in tool[c].keys : GrantedForSession(k)

StoreGranted == \A k \in store : GrantedForSession(k)

(* A call has no channel before it asks, and asks again only if it has none. *)
AskedOnce ==
    \A c \in Calls :
        /\ pc[c] \in {"unborn", "locking", "checking", "asking"} => channel[c] = "none"
        /\ pc[c] = "running" /\ channel[c] # "none" => c \in approved

SlotOpen == slot # NoCall => channel[slot] = "open"

ApprovedConsented ==
    /\ \A c \in approved : Consented(c)
    /\ \A c \in Calls :
        /\ pc[c] \in {"caching", "escalated"} => c \in approved
        /\ pc[c] = "running" /\ tool[c].asks => c \in approved
        /\ pc[c] = "caching" => channel[c] = "session"

ConsentInv == StoreGranted /\ AskedOnce /\ SlotOpen /\ ApprovedConsented

(* One call was emitted before the other. *)
Precedes(c, d) ==
    \E i, j \in 1 .. Len(issued) : i < j /\ issued[i] = c /\ issued[j] = d

(* The outputs, and behind them the calls in flight, are in that order. *)
InEmissionOrder ==
    /\ \A m, n \in 1 .. Len(outputs) :
           m < n /\ outputs[m] # NoCall /\ outputs[n] # NoCall =>
               Precedes(outputs[m], outputs[n])
    /\ \A m \in 1 .. Len(outputs), n \in 1 .. Len(inFlight) :
           outputs[m] # NoCall => Precedes(outputs[m], inFlight[n])
    /\ \A m, n \in 1 .. Len(inFlight) : m < n => Precedes(inFlight[m], inFlight[n])

(* What has an output or is in flight was emitted, and nothing else is     *)
(* without an output but what was dropped or cannot be answered.           *)
Accounted ==
    /\ \A m \in 1 .. Len(outputs) :
           outputs[m] # NoCall => outputs[m] \in Members(issued)
    /\ \A n \in 1 .. Len(inFlight) : inFlight[n] \in Members(issued)
    /\ \A c \in Members(issued) :
           c \in Members(outputs) \cup Members(inFlight) \cup aborting \/ Unanswerable(c)

OrderInv == InEmissionOrder /\ Accounted

USE ToolsAssumption, NoCallAssumption, MaxRequestsAssumption

-----------------------------------------------------------------------------
(* The state stays well typed: the steps of the sampling loop ... *)
LEMMA SamplingTypeOK ==
    TypeOK /\ (SamplingStep \/ DrainStep \/ TurnDropped) => TypeOK'
<1> SUFFICES ASSUME TypeOK, SamplingStep \/ DrainStep \/ TurnDropped PROVE TypeOK'
  OBVIOUS
<1> USE DEF TypeOK, Places, BusyPlaces, LockedPlaces, Consents, callVars, approvalVars,
            samplingVars
<1>1. ASSUME NEW c \in Calls, Emit(c) PROVE TypeOK'
  BY <1>1 DEF Emit
<1>10. ASSUME NEW c \in Calls, EmitNameless(c) PROVE TypeOK'
  <2>1. outputs' \in Seq(Calls \cup {NoCall}) /\ issued' \in Seq(Calls)
    BY <1>10, AppendProperties DEF EmitNameless
  <2>2. pc' \in [Calls -> Places] /\ requestOf' \in [Calls -> 0 .. MaxRequests]
    BY <1>10 DEF EmitNameless
  <2> QED
    BY <1>10, <2>1, <2>2 DEF EmitNameless
<1>2. ASSUME NEW o \in {"completed", "failed", "aborted"}, StreamEnds(o) PROVE TypeOK'
  BY <1>2 DEF StreamEnds
<1>3. ASSUME inFlight \in Seq(Calls) PROVE Members(inFlight) \subseteq Calls
  BY <1>3 DEF Members
<1>4. CASE StreamFails
  BY <1>3, <1>4 DEF StreamFails
<1>5. CASE NextRequest
  BY <1>5 DEF NextRequest
<1>6. CASE EndTurn
  BY <1>6 DEF EndTurn, DropSlot
<1>7. CASE DrainNext
  <2>1. Head(inFlight) \in Calls /\ inFlight' \in Seq(Calls)
    BY <1>7, HeadTailProperties, EmptySeq DEF DrainNext
  <2>2. outputs' = outputs \/ outputs' = Append(outputs, Head(inFlight))
    BY <1>7 DEF DrainNext
  <2>3. Append(outputs, Head(inFlight)) \in Seq(Calls \cup {NoCall})
    BY <2>1, AppendProperties
  <2>4. outputs' \in Seq(Calls \cup {NoCall})
    BY <2>2, <2>3
  <2> QED
    BY <1>7, <2>1, <2>4 DEF DrainNext
<1>8. CASE DrainDone
  BY <1>8 DEF DrainDone
<1>9. CASE TurnDropped
  BY <1>3, <1>9 DEF TurnDropped
<1> QED
  BY <1>1, <1>2, <1>4, <1>5, <1>6, <1>7, <1>8, <1>9, <1>10 DEF SamplingStep, DrainStep

(* ... and those of a call ... *)
LEMMA CallTypeOK ==
    ASSUME TypeOK, NEW c \in Calls,
           \/ OrchestratorStep(c) \/ CommandStep(c) \/ ToolFails(c)
           \/ ToolCancelled(c) \/ ToolDropped(c)
    PROVE  TypeOK'
<1> USE DEF TypeOK, Places, BusyPlaces, LockedPlaces, Consents, samplingVars,
            approvalVars, Go
<1>1. CASE LockAcquire(c)
  BY <1>1 DEF LockAcquire
<1>2. CASE Refuse(c)
  BY <1>2 DEF Refuse
<1>3. CASE CheckStore(c)
  BY <1>3 DEF CheckStore, AfterConsent
<1>4. CASE RequestApproval(c)
  BY <1>4 DEF RequestApproval
<1>5. CASE Decide(c)
  BY <1>5 DEF Decide, AfterConsent
<1>6. CASE StoreApproval(c)
  BY <1>6 DEF StoreApproval, AfterConsent
<1>7. CASE CommandEnds(c)
  BY <1>7 DEF CommandEnds
<1>8. CASE Escalate(c)
  BY <1>8 DEF Escalate
<1>9. CASE ToolCancelled(c)
  BY <1>9 DEF ToolCancelled
<1>10. CASE ToolDropped(c)
  BY <1>10 DEF ToolDropped
<1>11. CASE ToolFails(c)
  BY <1>11 DEF ToolFails
<1> QED
  BY <1>1, <1>2, <1>3, <1>4, <1>5, <1>6, <1>7, <1>8, <1>9, <1>10, <1>11
     DEF OrchestratorStep, CommandStep

(* ... and those of the user and the submission loop. *)
LEMMA LoopTypeOK ==
    TypeOK /\ ((\E c \in Calls : UserStep(c)) \/ LoopStep \/ OpInterrupt) => TypeOK'
<1> SUFFICES ASSUME TypeOK, (\E c \in Calls : UserStep(c)) \/ LoopStep \/ OpInterrupt
             PROVE  TypeOK'
  OBVIOUS
<1> USE DEF TypeOK, Consents, samplingVars, callVars, approvalVars
<1>1. ASSUME NEW c \in Calls, NEW d \in Answers, NotifyApproval(c, d) PROVE TypeOK'
  BY <1>1 DEF NotifyApproval, Answer, Answers
<1>2. ASSUME NEW c \in Calls, NotifyAbort(c) PROVE TypeOK'
  BY <1>2 DEF NotifyAbort, Answer, TakeTurn, DropSlot
<1>3. CASE LoopStep
  BY <1>3 DEF LoopStep, CancelTurn, AbortTurn
<1>4. CASE OpInterrupt
  BY <1>4 DEF OpInterrupt, TakeTurn, DropSlot
<1> QED
  BY <1>1, <1>2, <1>3, <1>4 DEF UserStep

(* Every step preserves the typing of the state. *)
LEMMA NextTypeOK == TypeOK /\ [Next]_vars => TypeOK'
<1> SUFFICES ASSUME TypeOK, [Next]_vars PROVE TypeOK'
  OBVIOUS
<1>1. CASE SamplingStep \/ DrainStep \/ TurnDropped
  BY <1>1, SamplingTypeOK
<1>2. ASSUME NEW c \in Calls,
             \/ OrchestratorStep(c) \/ CommandStep(c) \/ ToolFails(c)
             \/ ToolCancelled(c) \/ ToolDropped(c)
      PROVE  TypeOK'
  BY <1>2, CallTypeOK
<1>3. CASE (\E c \in Calls : UserStep(c)) \/ LoopStep \/ OpInterrupt
  BY <1>3, LoopTypeOK
<1>4. CASE UNCHANGED vars
  BY <1>4 DEF TypeOK, vars, samplingVars, callVars, approvalVars
<1> QED
  BY <1>1, <1>2, <1>3, <1>4 DEF Next

(* The initial state is well typed. *)
LEMMA InitTypeOK == Init => TypeOK
  BY DEF Init, TypeOK, Places, Consents

(* The state of the tool calls is well typed. *)
THEOREM TypeCorrect == Spec => []TypeOK
<1>1. Init => TypeOK
  BY InitTypeOK
<1>2. TypeOK /\ [Next]_vars => TypeOK'
  BY NextTypeOK
<1> QED
  BY <1>1, <1>2, PTL DEF Spec

-----------------------------------------------------------------------------
(* A call that holds the lock now held it before, or has just taken it,    *)
(* in the request that emitted it.                                         *)
LEMMA HoldersKept ==
    ASSUME TypeOK, [Next]_vars, NEW c \in Calls, Holds(c)'
    PROVE  /\ requestOf'[c] = requestOf[c]
           /\ tool' = tool
           /\ Holds(c) \/ LockAcquire(c)
<1> USE DEF TypeOK, Holds, LockedPlaces, samplingVars, callVars, approvalVars
<1>1. CASE SamplingStep \/ DrainStep \/ TurnDropped
  <2>1. ASSUME NEW d \in Calls, Emit(d) \/ EmitNameless(d)
        PROVE  requestOf'[c] = requestOf[c] /\ tool' = tool /\ Holds(c)
    BY <2>1 DEF Emit, EmitNameless
  <2> QED
    BY <1>1, <2>1 DEF SamplingStep, StreamEnds, StreamFails, NextRequest, EndTurn,
                      DrainStep, DrainNext, DrainDone, TurnDropped
<1>2. ASSUME NEW d \in Calls, OrchestratorStep(d)
      PROVE  /\ requestOf' = requestOf /\ tool' = tool
             /\ Holds(c) \/ LockAcquire(c)
  BY <1>2 DEF OrchestratorStep, LockAcquire, Refuse, CheckStore, RequestApproval, Decide,
              StoreApproval, Go
<1>3. ASSUME NEW d \in Calls,
             CommandStep(d) \/ ToolFails(d) \/ ToolCancelled(d) \/ ToolDropped(d)
      PROVE  requestOf' = requestOf /\ tool' = tool /\ Holds(c)
  BY <1>3 DEF CommandStep, CommandEnds, Escalate, ToolFails, ToolCancelled, ToolDropped,
              Go, Busy, BusyPlaces
<1>4. CASE (\E d \in Calls : UserStep(d)) \/ LoopStep \/ OpInterrupt
  BY <1>4 DEF UserStep, NotifyApproval, NotifyAbort, LoopStep, CancelTurn, AbortTurn,
              OpInterrupt
<1>5. CASE UNCHANGED vars
  BY <1>5 DEF vars
<1> QED
  BY <1>1, <1>2, <1>3, <1>4, <1>5 DEF Next

(* The lock lets in no second call beside an exclusive one. *)
LEMMA NextExclusiveAlone == TypeOK /\ ExclusiveAlone /\ [Next]_vars => ExclusiveAlone'
<1> SUFFICES ASSUME TypeOK, ExclusiveAlone, [Next]_vars,
                    NEW c \in Calls, NEW d \in Calls, c # d,
                    Holds(c)', Holds(d)', requestOf'[c] = requestOf'[d]
             PROVE  ~ tool'[c].exclusive /\ ~ tool'[d].exclusive
  BY DEF ExclusiveAlone
<1>1. /\ requestOf[c] = requestOf[d]
      /\ tool' = tool
      /\ Holds(c) \/ LockAcquire(c)
      /\ Holds(d) \/ LockAcquire(d)
  BY HoldersKept
<1>2. CASE Holds(c) /\ Holds(d)
  BY <1>1, <1>2 DEF ExclusiveAlone
<1>3. ASSUME NEW x \in Calls, NEW y \in Calls, x # y, requestOf[x] = requestOf[y],
             LockAcquire(x), Holds(y)'
      PROVE  ~ tool[x].exclusive /\ ~ tool[y].exclusive
  <2>1. y \in Others(x)
    BY <1>3 DEF Others, LockAcquire, Go, Holds, TypeOK
  <2> QED
    BY <1>3, <2>1 DEF LockAcquire, LockFree
<1> QED
  BY <1>1, <1>2, <1>3

(* A tool that does not support parallel calls is alone among the calls of *)
(* its request for as long as it holds the lock (tools/parallel.rs:81-85). *)
THEOREM ExclusiveRunsAlone == Spec => []ExclusiveAlone
<1>1. Init => ExclusiveAlone
  BY DEF Init, ExclusiveAlone, Holds, LockedPlaces
<1>2. TypeOK /\ ExclusiveAlone /\ [Next]_vars => ExclusiveAlone'
  BY NextExclusiveAlone
<1> QED
  BY <1>1, <1>2, TypeCorrect, PTL DEF Spec

-----------------------------------------------------------------------------
(* Consent is never taken back: it lasts while the decisions do. *)
LEMMA ConsentKept ==
    ASSUME TypeOK, tool' = tool,
           \A c \in Calls : channel[c] \in Consents => channel'[c] = channel[c]
    PROVE  /\ \A k : GrantedForSession(k) => GrantedForSession(k)'
           /\ \A c \in Calls : Consented(c) => Consented(c)'
<1>1. ASSUME NEW k, GrantedForSession(k) PROVE GrantedForSession(k)'
  BY <1>1 DEF GrantedForSession, Consents
<1> QED
  BY <1>1 DEF Consented

(* A step that leaves the calls, the store and the channels alone *)
LEMMA ConsentUntouched ==
    ASSUME ConsentInv,
           UNCHANGED <<pc, tool, approved, slot, channel, store>>
    PROVE  ConsentInv'
  BY DEF ConsentInv, StoreGranted, AskedOnce, SlotOpen, ApprovedConsented, Consented,
         GrantedForSession

(* A step that only drops the sender, whose call then has no consent *)
LEMMA ConsentSlotDropped ==
    ASSUME TypeOK, ConsentInv, DropSlot, UNCHANGED <<pc, tool, approved, store>>
    PROVE  ConsentInv'
<1> USE DEF TypeOK
<1>1. \A c \in Calls : channel[c] # "open" => channel'[c] = channel[c]
  BY DEF DropSlot, ConsentInv, SlotOpen
<1>2. \A c \in Calls : channel'[c] # channel[c] => channel[c] = "open"
  BY <1>1
<1>3. /\ \A k : GrantedForSession(k) => GrantedForSession(k)'
      /\ \A c \in Calls : Consented(c) => Consented(c)'
  BY <1>1, ConsentKept DEF Consents
<1>4. StoreGranted'
  BY <1>3 DEF ConsentInv, StoreGranted
<1>5. AskedOnce'
  BY <1>1, <1>2 DEF ConsentInv, AskedOnce
<1>6. SlotOpen'
  BY DEF SlotOpen, DropSlot
<1>7. ApprovedConsented'
  BY <1>1, <1>3 DEF ConsentInv, ApprovedConsented
<1> QED
  BY <1>4, <1>5, <1>6, <1>7 DEF ConsentInv

(* A step of the sampling loop only emits a call, or drops the sender. *)
LEMMA SamplingConsent ==
    ASSUME TypeOK, ConsentInv, SamplingStep \/ DrainStep \/ TurnDropped
    PROVE  ConsentInv'
<1> USE DEF samplingVars, callVars, approvalVars
<1>1. ASSUME NEW c \in Calls, Emit(c) \/ EmitNameless(c) PROVE ConsentInv'
  <2>1. \A k : GrantedForSession(k) <=> GrantedForSession(k)'
    BY <1>1 DEF Emit, EmitNameless, GrantedForSession
  <2>2. \A d \in Calls : Consented(d) <=> Consented(d)'
    BY <1>1, <2>1 DEF Emit, EmitNameless, Consented
  <2> QED
    BY <1>1, <2>1, <2>2 DEF Emit, EmitNameless, TypeOK, ConsentInv, StoreGranted, AskedOnce, SlotOpen,
                            ApprovedConsented
<1>2. CASE EndTurn
  BY <1>2, ConsentSlotDropped DEF EndTurn
<1>3. CASE (\E o \in {"completed", "failed", "aborted"} : StreamEnds(o)) \/ StreamFails
             \/ NextRequest \/ DrainStep \/ TurnDropped
  BY <1>3, ConsentUntouched DEF StreamEnds, StreamFails, NextRequest, DrainStep, DrainNext,
                                DrainDone, TurnDropped
<1> QED
  BY <1>1, <1>2, <1>3 DEF SamplingStep

(* The user's answer reaches an open channel, and an interruption drops it. *)
LEMMA LoopConsent ==
    ASSUME TypeOK, ConsentInv,
           (\E c \in Calls : UserStep(c)) \/ LoopStep \/ OpInterrupt
    PROVE  ConsentInv'
<1> USE DEF samplingVars, callVars, approvalVars
<1>1. ASSUME NEW c \in Calls, NEW d \in Answers, NotifyApproval(c, d) PROVE ConsentInv'
  <2>1. CASE UNCHANGED <<channel, slot>>
    BY <1>1, <2>1, ConsentUntouched DEF NotifyApproval
  <2>2. CASE slot # NoCall /\ channel' = [channel EXCEPT ![slot] = d] /\ slot' = NoCall
    <3>1. slot \in Calls /\ channel[slot] = "open"
      BY <2>2 DEF ConsentInv, SlotOpen, TypeOK
    <3>2. \A x \in Calls : x # slot => channel'[x] = channel[x]
      BY <2>2, <3>1 DEF TypeOK
    <3>3. UNCHANGED <<pc, tool, approved, store>>
      BY <1>1 DEF NotifyApproval
    <3>4. /\ \A k : GrantedForSession(k) => GrantedForSession(k)'
          /\ \A x \in Calls : Consented(x) => Consented(x)'
      BY <3>1, <3>2, <3>3, ConsentKept DEF Consents
    <3>5. StoreGranted'
      BY <3>3, <3>4 DEF ConsentInv, StoreGranted
    <3>6. AskedOnce' /\ SlotOpen'
      BY <2>2, <3>1, <3>2, <3>3 DEF ConsentInv, AskedOnce, SlotOpen
    <3>7. ApprovedConsented'
      BY <3>1, <3>2, <3>3, <3>4 DEF ConsentInv, ApprovedConsented, TypeOK
    <3> QED
      BY <3>5, <3>6, <3>7 DEF ConsentInv
  <2> QED
    BY <1>1, <2>1, <2>2 DEF NotifyApproval
<1>2. ASSUME NEW c \in Calls, NotifyAbort(c) PROVE ConsentInv'
  BY <1>2, ConsentUntouched, ConsentSlotDropped DEF NotifyAbort, TakeTurn
<1>3. CASE LoopStep
  BY <1>3, ConsentUntouched DEF LoopStep, CancelTurn, AbortTurn
<1>4. CASE OpInterrupt
  BY <1>4, ConsentUntouched, ConsentSlotDropped DEF OpInterrupt, TakeTurn
<1> QED
  BY <1>1, <1>2, <1>3, <1>4 DEF UserStep

(* A step of a call that asks, stores or decides nothing new *)
LEMMA CallMoves ==
    ASSUME TypeOK, ConsentInv, NEW c \in Calls, NEW to,
           pc' = [pc EXCEPT ![c] = to],
           UNCHANGED <<tool, slot, channel, store>>,
           \/ approved' = approved
           \/ approved' = approved \cup {c} /\ Consented(c),
           to \in {"unborn", "locking", "checking", "asking"} => channel[c] = "none",
           to = "running" /\ channel[c] # "none" => c \in approved',
           to \in {"caching", "escalated"} => c \in approved',
           to = "running" /\ tool[c].asks => c \in approved',
           to = "caching" => channel[c] = "session"
    PROVE  ConsentInv'
<1>1. /\ \A k : GrantedForSession(k) <=> GrantedForSession(k)'
      /\ \A x \in Calls : Consented(x) <=> Consented(x)'
  BY DEF GrantedForSession, Consented
<1>2. StoreGranted' /\ SlotOpen'
  BY <1>1 DEF ConsentInv, StoreGranted, SlotOpen
<1>3. AskedOnce'
  BY DEF ConsentInv, AskedOnce, TypeOK
<1>4. ApprovedConsented'
  BY <1>1 DEF ConsentInv, ApprovedConsented, TypeOK
<1> QED
  BY <1>2, <1>3, <1>4 DEF ConsentInv

(* The steps of a call *)
LEMMA CallConsent ==
    ASSUME TypeOK, ConsentInv, NEW c \in Calls,
           \/ OrchestratorStep(c) \/ CommandStep(c) \/ ToolFails(c)
           \/ ToolCancelled(c) \/ ToolDropped(c)
    PROVE  ConsentInv'
<1> USE DEF samplingVars, approvalVars, Go
<1>1. CASE LockAcquire(c)
  BY <1>1, CallMoves DEF LockAcquire, ConsentInv, AskedOnce
<1>2. CASE Refuse(c)
  BY <1>2, CallMoves DEF Refuse
<1>3. CASE CheckStore(c)
  <2>1. CASE AllKeysStored(c)
    <3>1. Consented(c)
      BY <2>1 DEF AllKeysStored, Consented, ConsentInv, StoreGranted
    <3> QED
      BY <1>3, <2>1, <3>1, CallMoves
         DEF CheckStore, AfterConsent, ConsentInv, AskedOnce
  <2>2. CASE ~ AllKeysStored(c)
    BY <1>3, <2>2, CallMoves DEF CheckStore, ConsentInv, AskedOnce
  <2> QED
    BY <2>1, <2>2
<1>4. CASE RequestApproval(c)
  <2>1. /\ pc[c] = "asking" /\ channel[c] = "none"
        /\ pc' = [pc EXCEPT ![c] = "waiting"]
        /\ UNCHANGED <<tool, approved, store>>
    BY <1>4 DEF RequestApproval, ConsentInv, AskedOnce
  <2>2. \A x \in Calls \ {c} : channel'[x] = channel[x] \/ (x = slot /\ channel'[x] = "denied")
    BY <1>4 DEF RequestApproval, TypeOK
  <2>3. \A x \in Calls \ {c} : channel[x] # "open" => channel'[x] = channel[x]
    BY <2>2 DEF ConsentInv, SlotOpen, TypeOK
  <2>4. /\ \A k : GrantedForSession(k) => GrantedForSession(k)'
        /\ \A x \in Calls : Consented(x) => Consented(x)'
    BY <2>1, <2>3, ConsentKept DEF Consents
  <2>5. StoreGranted'
    BY <2>1, <2>4 DEF ConsentInv, StoreGranted
  <2>6. AskedOnce'
    BY <2>1, <2>2, <2>3 DEF ConsentInv, AskedOnce, SlotOpen, TypeOK
  <2>7. SlotOpen'
    BY <1>4, <2>1 DEF RequestApproval, ConsentInv, SlotOpen, TypeOK
  <2>8. ApprovedConsented'
    BY <2>1, <2>2, <2>3, <2>4 DEF ConsentInv, ApprovedConsented, TypeOK
  <2> QED
    BY <2>5, <2>6, <2>7, <2>8 DEF ConsentInv
<1>5. CASE Decide(c)
  <2>1. CASE channel[c] \in Consents
    BY <1>5, <2>1, CallMoves DEF Decide, AfterConsent, Consented
  <2>2. CASE channel[c] \notin Consents
    BY <1>5, <2>2, CallMoves DEF Decide
  <2> QED
    BY <2>1, <2>2
<1>6. CASE StoreApproval(c)
  <2>1. /\ pc[c] = "caching" /\ channel[c] = "session" /\ c \in approved
        /\ UNCHANGED <<tool, slot, channel, approved>>
    BY <1>6 DEF StoreApproval, ConsentInv, ApprovedConsented
  <2>2. /\ \A k : GrantedForSession(k) <=> GrantedForSession(k)'
        /\ \A x \in Calls : Consented(x) <=> Consented(x)'
    BY <2>1 DEF GrantedForSession, Consented
  <2>3. \A k \in tool[c].keys : GrantedForSession(k)
    BY <2>1 DEF GrantedForSession
  <2>4. StoreGranted'
    BY <1>6, <2>2, <2>3 DEF StoreApproval, ConsentInv, StoreGranted
  <2>5. AskedOnce' /\ SlotOpen'
    BY <1>6, <2>1 DEF StoreApproval, AfterConsent, ConsentInv, AskedOnce, SlotOpen, TypeOK
  <2>6. ApprovedConsented'
    BY <1>6, <2>1, <2>2 DEF StoreApproval, AfterConsent, ConsentInv, ApprovedConsented, TypeOK
  <2> QED
    BY <2>4, <2>5, <2>6 DEF ConsentInv
<1>7. CASE CommandEnds(c)
  BY <1>7, CallMoves DEF CommandEnds
<1>8. CASE Escalate(c)
  BY <1>8, CallMoves DEF Escalate, ConsentInv, AskedOnce
<1>9. CASE ToolFails(c) \/ ToolCancelled(c) \/ ToolDropped(c)
  BY <1>9, CallMoves DEF ToolFails, ToolCancelled, ToolDropped
<1> QED
  BY <1>1, <1>2, <1>3, <1>4, <1>5, <1>6, <1>7, <1>8, <1>9
     DEF OrchestratorStep, CommandStep

(* A command that needs approval, and an attempt outside the sandbox that  *)
(* follows a denial, runs only with the user's consent to the call or to   *)
(* each of its keys (tools/orchestrator.rs:67, :132).                      *)
THEOREM ConsentPrecedes == Spec => []RunsWithConsent
<1>1. Init => ConsentInv
  BY DEF Init, ConsentInv, StoreGranted, AskedOnce, SlotOpen, ApprovedConsented
<1>2. TypeOK /\ ConsentInv /\ [Next]_vars => ConsentInv'
  <2> SUFFICES ASSUME TypeOK, ConsentInv, [Next]_vars PROVE ConsentInv'
    OBVIOUS
  <2>1. CASE SamplingStep \/ DrainStep \/ TurnDropped
    BY <2>1, SamplingConsent
  <2>2. ASSUME NEW c \in Calls,
               \/ OrchestratorStep(c) \/ CommandStep(c) \/ ToolFails(c)
               \/ ToolCancelled(c) \/ ToolDropped(c)
        PROVE  ConsentInv'
    BY <2>2, CallConsent
  <2>3. CASE (\E c \in Calls : UserStep(c)) \/ LoopStep \/ OpInterrupt
    BY <2>3, LoopConsent
  <2>4. CASE UNCHANGED vars
    BY <2>4, ConsentUntouched DEF vars, callVars, approvalVars
  <2> QED
    BY <2>1, <2>2, <2>3, <2>4 DEF Next
<1>3. ConsentInv => RunsWithConsent
  BY DEF ConsentInv, ApprovedConsented, RunsWithConsent, Consented
<1> QED
  BY <1>1, <1>2, <1>3, TypeCorrect, PTL DEF Spec

-----------------------------------------------------------------------------
(* The members of a sequence with one more, and of one without the first. *)
LEMMA MembersAppend ==
    ASSUME NEW S, NEW s \in Seq(S), NEW c \in S
    PROVE  /\ Len(s) \in Nat /\ Len(Append(s, c)) = Len(s) + 1
           /\ \A i \in 1 .. Len(s) : Append(s, c)[i] = s[i]
           /\ Append(s, c)[Len(s) + 1] = c
           /\ Members(Append(s, c)) = Members(s) \cup {c}
<1>1. /\ Len(s) \in Nat /\ Len(Append(s, c)) = Len(s) + 1
      /\ \A i \in 1 .. Len(s) : Append(s, c)[i] = s[i]
      /\ Append(s, c)[Len(s) + 1] = c
      /\ DOMAIN s = 1 .. Len(s) /\ DOMAIN Append(s, c) = 1 .. Len(s) + 1
  BY AppendProperties, LenProperties
<1> QED
  BY <1>1 DEF Members

(* Taking the head leaves the others, each one place further on. *)
LEMMA MembersTail ==
    ASSUME NEW s \in Seq(Calls), s # <<>>
    PROVE  /\ Head(s) = s[1] /\ Head(s) \in Calls /\ Len(s) \in Nat \ {0}
           /\ Len(Tail(s)) = Len(s) - 1
           /\ \A i \in 1 .. Len(s) - 1 : Tail(s)[i] = s[i + 1]
           /\ Members(s) \subseteq {Head(s)} \cup Members(Tail(s))
<1>1. /\ Head(s) = s[1] /\ Head(s) \in Calls /\ Len(s) \in Nat \ {0}
      /\ Len(Tail(s)) = Len(s) - 1
      /\ \A i \in 1 .. Len(s) - 1 : Tail(s)[i] = s[i + 1]
      /\ DOMAIN s = 1 .. Len(s) /\ DOMAIN Tail(s) = 1 .. Len(s) - 1
  BY HeadTailProperties, EmptySeq, LenProperties
<1>2. ASSUME NEW i \in 1 .. Len(s) PROVE s[i] \in {Head(s)} \cup Members(Tail(s))
  <2>1. CASE i = 1
    BY <1>1, <2>1
  <2>2. CASE i # 1
    <3>1. i - 1 \in 1 .. Len(s) - 1 /\ Tail(s)[i - 1] = s[i]
      BY <1>1, <2>2
    <3> QED
      BY <1>1, <3>1 DEF Members
  <2> QED
    BY <2>1, <2>2
<1> QED
  BY <1>1, <1>2 DEF Members

(* A step that leaves the three sequences alone and drops no fewer calls *)
LEMMA OrderUntouched ==
    ASSUME OrderInv, UNCHANGED <<issued, outputs, inFlight>>, aborting \subseteq aborting',
           \A c \in Calls : Unanswerable(c) => Unanswerable(c)',
           TypeOK
    PROVE  OrderInv'
<1>1. Members(issued) \subseteq Calls
  BY DEF Members, TypeOK
<1>2. /\ Members(issued') = Members(issued) /\ Members(outputs') = Members(outputs)
      /\ Members(inFlight') = Members(inFlight)
      /\ \A d, e : Precedes(d, e) <=> Precedes(d, e)'
  BY DEF Precedes
<1>3. InEmissionOrder'
  BY <1>2 DEF OrderInv, InEmissionOrder
<1>4. Accounted'
  BY <1>1, <1>2 DEF OrderInv, Accounted
<1> QED
  BY <1>3, <1>4 DEF OrderInv

(* The calls in flight are dropped. *)
LEMMA OrderDropped ==
    ASSUME OrderInv, UNCHANGED <<issued, outputs, pc>>, inFlight' = <<>>,
           aborting' = aborting \cup Members(inFlight)
    PROVE  OrderInv'
<1>1. Len(inFlight') = 0 /\ Members(inFlight') = {}
  BY EmptySeq DEF Members
<1> QED
  BY <1>1 DEF OrderInv, InEmissionOrder, Accounted, Precedes, Members, Unanswerable

(* What a call that nothing answers was, it stays. *)
LEMMA UnanswerableStays ==
    ASSUME TypeOK, [Next]_vars, NEW c \in Calls, Unanswerable(c)
    PROVE  Unanswerable(c)'
<1> USE DEF TypeOK, Unanswerable, samplingVars, callVars, approvalVars
<1>1. CASE SamplingStep \/ DrainStep \/ TurnDropped
  BY <1>1 DEF SamplingStep, Emit, EmitNameless, StreamEnds, StreamFails, NextRequest, EndTurn,
              DrainStep, DrainNext, DrainDone, TurnDropped
<1>2. ASSUME NEW d \in Calls, OrchestratorStep(d) \/ CommandStep(d) \/ ToolFails(d)
      PROVE  Unanswerable(c)'
  BY <1>2 DEF OrchestratorStep, LockAcquire, Refuse, CheckStore, RequestApproval, Decide,
              StoreApproval, CommandStep, CommandEnds, Escalate, ToolFails, Go
<1>3. ASSUME NEW d \in Calls, ToolCancelled(d) \/ ToolDropped(d)
      PROVE  Unanswerable(c)'
  BY <1>3 DEF ToolCancelled, ToolDropped, Busy, BusyPlaces, LockedPlaces
<1>4. CASE (\E d \in Calls : UserStep(d)) \/ LoopStep \/ OpInterrupt
  BY <1>4 DEF UserStep, NotifyApproval, NotifyAbort, LoopStep, CancelTurn, AbortTurn,
              OpInterrupt
<1>5. CASE UNCHANGED vars
  BY <1>5 DEF vars
<1> QED
  BY <1>1, <1>2, <1>3, <1>4, <1>5 DEF Next

(* A call is emitted behind all that are recorded or in flight. *)
LEMMA EmitOrder ==
    ASSUME TypeOK, OrderInv, NEW c \in Calls, Emit(c)
    PROVE  OrderInv'
<1>0. \A d \in Calls : Unanswerable(d) => Unanswerable(d)'
  BY DEF Emit, Unanswerable, TypeOK
<1>0a. Members(issued) \subseteq Calls
  BY DEF Members, TypeOK
<1>1. /\ issued \in Seq(Calls) /\ inFlight \in Seq(Calls)
      /\ issued' = Append(issued, c) /\ inFlight' = Append(inFlight, c)
      /\ outputs' = outputs /\ aborting' = aborting
  BY DEF Emit, TypeOK
<1>2. /\ Len(issued) \in Nat /\ Len(issued') = Len(issued) + 1
      /\ \A i \in 1 .. Len(issued) : issued'[i] = issued[i]
      /\ issued'[Len(issued) + 1] = c
      /\ Members(issued') = Members(issued) \cup {c}
  BY <1>1, MembersAppend
<1>3. /\ Len(inFlight) \in Nat /\ Len(inFlight') = Len(inFlight) + 1
      /\ \A i \in 1 .. Len(inFlight) : inFlight'[i] = inFlight[i]
      /\ inFlight'[Len(inFlight) + 1] = c
      /\ Members(inFlight') = Members(inFlight) \cup {c}
  BY <1>1, MembersAppend
<1>4. \A d, e : Precedes(d, e) => Precedes(d, e)'
  BY <1>2 DEF Precedes
<1>5. ASSUME NEW d \in Members(issued) PROVE Precedes(d, c)'
  <2>1. PICK i \in 1 .. Len(issued) : issued[i] = d
    BY <1>1, LenProperties DEF Members
  <2>2. i < Len(issued) + 1 /\ i \in 1 .. Len(issued') /\ Len(issued) + 1 \in 1 .. Len(issued')
    BY <1>2
  <2> QED
    BY <1>2, <2>1, <2>2 DEF Precedes
<1>6. \A m \in 1 .. Len(outputs) : outputs[m] # NoCall => outputs[m] \in Members(issued)
  BY DEF OrderInv, Accounted
<1>7. \A n \in 1 .. Len(inFlight) : inFlight[n] \in Members(issued)
  BY DEF OrderInv, Accounted
<1>8. \A n \in 1 .. Len(inFlight') : n \in 1 .. Len(inFlight) \/ inFlight'[n] = c
  BY <1>3
<1>9. InEmissionOrder'
  <2>1. \A m, n \in 1 .. Len(outputs) :
           m < n /\ outputs[m] # NoCall /\ outputs[n] # NoCall =>
               Precedes(outputs[m], outputs[n])'
    BY <1>1, <1>4 DEF OrderInv, InEmissionOrder
  <2>2. \A m \in 1 .. Len(outputs), n \in 1 .. Len(inFlight') :
           outputs[m] # NoCall => Precedes(outputs[m], inFlight[n])'
    BY <1>1, <1>3, <1>4, <1>5, <1>6, <1>8 DEF OrderInv, InEmissionOrder
  <2>3. ASSUME NEW m \in 1 .. Len(inFlight'), NEW n \in 1 .. Len(inFlight'), m < n
        PROVE  Precedes(inFlight[m], inFlight[n])'
    <3>1. m \in 1 .. Len(inFlight)
      BY <1>3, <2>3
    <3> QED
      BY <1>3, <1>4, <1>5, <1>7, <1>8, <2>3, <3>1 DEF OrderInv, InEmissionOrder
  <2> QED
    BY <1>1, <2>1, <2>2, <2>3 DEF InEmissionOrder
<1>10. Accounted'
  BY <1>0, <1>0a, <1>1, <1>2, <1>3, <1>6, <1>7, <1>8 DEF OrderInv, Accounted
<1> QED
  BY <1>9, <1>10 DEF OrderInv

(* A call without an id is recorded with an output that names no call. *)
LEMMA EmitNamelessOrder ==
    ASSUME TypeOK, OrderInv, NEW c \in Calls, EmitNameless(c)
    PROVE  OrderInv'
<1>1. /\ issued \in Seq(Calls) /\ outputs \in Seq(Calls \cup {NoCall})
      /\ issued' = Append(issued, c) /\ outputs' = Append(outputs, NoCall)
      /\ inFlight' = inFlight /\ aborting' = aborting
  BY DEF EmitNameless, TypeOK
<1>2. /\ Len(issued) \in Nat /\ Len(issued') = Len(issued) + 1
      /\ \A i \in 1 .. Len(issued) : issued'[i] = issued[i]
      /\ Members(issued') = Members(issued) \cup {c}
  BY <1>1, MembersAppend
<1>3. /\ Len(outputs) \in Nat /\ Len(outputs') = Len(outputs) + 1
      /\ \A i \in 1 .. Len(outputs) : outputs'[i] = outputs[i]
      /\ outputs'[Len(outputs) + 1] = NoCall
      /\ Members(outputs') = Members(outputs) \cup {NoCall}
  BY <1>1, MembersAppend
<1>4. \A d, e : Precedes(d, e) => Precedes(d, e)'
  BY <1>2 DEF Precedes
<1>5. \A m \in 1 .. Len(outputs') :
         outputs'[m] # NoCall => m \in 1 .. Len(outputs) /\ outputs'[m] = outputs[m]
  BY <1>3
<1>6. /\ Unanswerable(c)'
      /\ \A d \in Calls : Unanswerable(d) => Unanswerable(d)'
      /\ Members(issued) \subseteq Calls
  BY DEF EmitNameless, Unanswerable, Members, TypeOK
<1>7. InEmissionOrder'
  BY <1>1, <1>4, <1>5 DEF OrderInv, InEmissionOrder
<1>8. Accounted'
  BY <1>1, <1>2, <1>3, <1>5, <1>6 DEF OrderInv, Accounted
<1> QED
  BY <1>7, <1>8 DEF OrderInv

(* The first call in flight gets its output behind those recorded. *)
LEMMA DrainOrder ==
    ASSUME TypeOK, OrderInv, DrainNext, pc[Head(inFlight)] = "returned"
    PROVE  OrderInv'
<1>0. UNCHANGED pc
  BY DEF DrainNext, callVars
<1>1. /\ outputs \in Seq(Calls \cup {NoCall}) /\ inFlight \in Seq(Calls) /\ inFlight # <<>>
      /\ outputs' = Append(outputs, Head(inFlight)) /\ inFlight' = Tail(inFlight)
      /\ issued' = issued /\ aborting' = aborting
  BY DEF DrainNext, TypeOK, callVars
<1>2. /\ Head(inFlight) = inFlight[1] /\ Head(inFlight) \in Calls
      /\ Len(inFlight) \in Nat \ {0} /\ Len(inFlight') = Len(inFlight) - 1
      /\ \A i \in 1 .. Len(inFlight) - 1 : inFlight'[i] = inFlight[i + 1]
      /\ Members(inFlight) \subseteq {Head(inFlight)} \cup Members(inFlight')
  BY <1>1, MembersTail
<1>3. /\ Len(outputs) \in Nat /\ Len(outputs') = Len(outputs) + 1
      /\ \A i \in 1 .. Len(outputs) : outputs'[i] = outputs[i]
      /\ outputs'[Len(outputs) + 1] = Head(inFlight)
      /\ Members(outputs') = Members(outputs) \cup {Head(inFlight)}
  BY <1>1, <1>2, MembersAppend
<1>4. \A d, e : Precedes(d, e) <=> Precedes(d, e)'
  BY <1>1 DEF Precedes
<1>5. \A m \in 1 .. Len(outputs') : m \in 1 .. Len(outputs) \/ outputs'[m] = inFlight[1]
  BY <1>2, <1>3
<1>6. \A n \in 1 .. Len(inFlight') :
         n + 1 \in 1 .. Len(inFlight) /\ 1 < n + 1 /\ inFlight'[n] = inFlight[n + 1]
  BY <1>2
<1>7. InEmissionOrder'
  <2>1. ASSUME NEW m \in 1 .. Len(outputs'), NEW n \in 1 .. Len(outputs'), m < n,
               outputs'[m] # NoCall, outputs'[n] # NoCall
        PROVE  Precedes(outputs[m], outputs[n])'
    <3>1. m \in 1 .. Len(outputs) /\ 1 \in 1 .. Len(inFlight)
      BY <1>2, <1>3, <2>1
    <3> QED
      BY <1>3, <1>4, <1>5, <2>1, <3>1 DEF OrderInv, InEmissionOrder
  <2>2. ASSUME NEW m \in 1 .. Len(outputs'), NEW n \in 1 .. Len(inFlight'),
               outputs'[m] # NoCall
        PROVE  Precedes(outputs[m], inFlight[n])'
    <3>1. /\ 1 \in 1 .. Len(inFlight) /\ n + 1 \in 1 .. Len(inFlight) /\ 1 < n + 1
          /\ inFlight'[n] = inFlight[n + 1]
      BY <1>2, <1>6
    <3>2. CASE m \in 1 .. Len(outputs)
      <4>1. outputs[m] # NoCall /\ outputs'[m] = outputs[m]
        BY <1>3, <2>2, <3>2
      <4> QED
        BY <1>4, <3>1, <3>2, <4>1 DEF OrderInv, InEmissionOrder
    <3>3. CASE outputs'[m] = inFlight[1]
      BY <1>4, <3>1, <3>3 DEF OrderInv, InEmissionOrder
    <3> QED
      BY <1>5, <3>2, <3>3
  <2>3. ASSUME NEW m \in 1 .. Len(inFlight'), NEW n \in 1 .. Len(inFlight'), m < n
        PROVE  Precedes(inFlight[m], inFlight[n])'
    BY <1>4, <1>6, <2>3 DEF OrderInv, InEmissionOrder
  <2> QED
    BY <2>1, <2>2, <2>3 DEF InEmissionOrder
<1>8. Accounted'
  <2>1. Members(issued') = Members(issued)
    BY <1>1
  <2>2. inFlight[1] \in Members(issued)
    BY <1>2 DEF OrderInv, Accounted
  <2> QED
    BY <1>0, <1>1, <1>2, <1>3, <1>5, <1>6, <2>1, <2>2 DEF OrderInv, Accounted, Unanswerable
<1> QED
  BY <1>7, <1>8 DEF OrderInv

(* The first call in flight failed, and gets none. *)
LEMMA DrainFailedOrder ==
    ASSUME TypeOK, OrderInv, DrainNext, pc[Head(inFlight)] = "failed"
    PROVE  OrderInv'
<1>1. /\ inFlight \in Seq(Calls) /\ inFlight # <<>> /\ inFlight' = Tail(inFlight)
      /\ UNCHANGED <<outputs, issued, aborting, pc>>
  BY DEF DrainNext, TypeOK, callVars
<1>2. /\ Len(inFlight) \in Nat \ {0} /\ Len(inFlight') = Len(inFlight) - 1
      /\ \A i \in 1 .. Len(inFlight) - 1 : inFlight'[i] = inFlight[i + 1]
      /\ Members(inFlight) \subseteq {Head(inFlight)} \cup Members(inFlight')
  BY <1>1, MembersTail
<1>3. \A n \in 1 .. Len(inFlight') :
         n + 1 \in 1 .. Len(inFlight) /\ inFlight'[n] = inFlight[n + 1]
  BY <1>2
<1>4. \A d, e : Precedes(d, e) <=> Precedes(d, e)'
  BY <1>1 DEF Precedes
<1>5. InEmissionOrder'
  <2>1. ASSUME NEW m \in 1 .. Len(inFlight'), NEW n \in 1 .. Len(inFlight'), m < n
        PROVE  Precedes(inFlight[m], inFlight[n])'
    <3>1. /\ m + 1 \in 1 .. Len(inFlight) /\ n + 1 \in 1 .. Len(inFlight)
          /\ m + 1 < n + 1
          /\ inFlight'[m] = inFlight[m + 1] /\ inFlight'[n] = inFlight[n + 1]
      BY <1>3, <2>1
    <3> QED
      BY <1>4, <3>1 DEF OrderInv, InEmissionOrder
  <2> QED
    BY <1>1, <1>3, <1>4, <2>1 DEF OrderInv, InEmissionOrder
<1>6. Accounted'
  <2>1. Members(issued') = Members(issued) /\ Members(outputs') = Members(outputs)
    BY <1>1
  <2> QED
    BY <1>1, <1>2, <1>3, <2>1 DEF OrderInv, Accounted, Unanswerable
<1> QED
  BY <1>5, <1>6 DEF OrderInv

(* The history has the outputs of its calls in the order of emission; a    *)
(* call without one is in flight, was dropped with its request, failed     *)
(* with an error that only the log gets, or has no id.                     *)
THEOREM OutputsInOrder == Spec => []OutputsPaired
<1>1. Init => OrderInv
  <2>1. Len(<<>>) = 0 /\ Members(<<>>) = {}
    BY EmptySeq DEF Members
  <2> QED
    BY <2>1 DEF Init, OrderInv, InEmissionOrder, Accounted
<1>2. TypeOK /\ OrderInv /\ [Next]_vars => OrderInv'
  <2> SUFFICES ASSUME TypeOK, OrderInv, [Next]_vars PROVE OrderInv'
    OBVIOUS
  <2> USE DEF samplingVars, callVars, approvalVars
  <2>0. \A c \in Calls : Unanswerable(c) => Unanswerable(c)'
    BY UnanswerableStays
  <2>1. CASE SamplingStep \/ DrainStep \/ TurnDropped
    <3>1. CASE DrainNext
      BY <3>1, DrainOrder, DrainFailedOrder DEF DrainNext
    <3>2. ASSUME NEW c \in Calls, Emit(c) \/ EmitNameless(c) PROVE OrderInv'
      BY <3>2, EmitOrder, EmitNamelessOrder
    <3> QED
      BY <2>0, <2>1, <3>1, <3>2, OrderDropped, OrderUntouched
         DEF SamplingStep, StreamEnds, StreamFails, NextRequest, EndTurn, DrainStep,
             DrainDone, TurnDropped
  <2>2. ASSUME NEW c \in Calls,
               \/ OrchestratorStep(c) \/ CommandStep(c) \/ ToolFails(c)
               \/ ToolCancelled(c) \/ ToolDropped(c)
        PROVE  OrderInv'
    BY <2>0, <2>2, OrderUntouched DEF OrchestratorStep, LockAcquire, Refuse, CheckStore,
       RequestApproval, Decide, StoreApproval, CommandStep, CommandEnds, Escalate,
       ToolFails, ToolCancelled, ToolDropped
  <2>3. CASE (\E c \in Calls : UserStep(c)) \/ LoopStep \/ OpInterrupt
    BY <2>0, <2>3, OrderUntouched DEF UserStep, NotifyApproval, NotifyAbort, LoopStep, CancelTurn,
       AbortTurn, OpInterrupt
  <2>4. CASE UNCHANGED vars
    BY <2>0, <2>4, OrderUntouched DEF vars
  <2> QED
    BY <2>1, <2>2, <2>3, <2>4 DEF Next
<1>3. TypeOK /\ OrderInv => OutputsPaired
  <2> SUFFICES ASSUME TypeOK, OrderInv PROVE OutputsPaired
    OBVIOUS
  <2>1. DOMAIN outputs = 1 .. Len(outputs) /\ DOMAIN issued = 1 .. Len(issued)
    BY LenProperties DEF TypeOK
  <2>2. \A c \in Members(issued) :
           c \in Members(outputs) \cup Members(inFlight) \cup aborting \/ Unanswerable(c)
    BY DEF OrderInv, Accounted
  <2>3. \A m, n \in 1 .. Len(outputs) :
           m < n /\ outputs[m] # NoCall /\ outputs[n] # NoCall =>
               Precedes(outputs[m], outputs[n])
    BY DEF OrderInv, InEmissionOrder
  <2>4. ASSUME NEW m \in DOMAIN outputs, NEW n \in DOMAIN outputs,
               m < n, outputs[m] # NoCall, outputs[n] # NoCall
        PROVE  \E i, j \in DOMAIN issued :
                  i < j /\ issued[i] = outputs[m] /\ issued[j] = outputs[n]
    <3>1. Precedes(outputs[m], outputs[n])
      BY ONLY <2>1, <2>3, <2>4
    <3> QED
      BY ONLY <2>1, <3>1 DEF Precedes
  <2> QED
    BY ONLY <2>2, <2>4 DEF OutputsPaired
<1> QED
  BY <1>1, <1>2, <1>3, TypeCorrect, PTL DEF Spec
=============================================================================
