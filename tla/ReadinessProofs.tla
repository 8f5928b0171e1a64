--------------------------- MODULE ReadinessProofs ---------------------------
(***************************************************************************)
(* Safety of the readiness flag for any number of subscribers and waiters. *)
(* The inductive invariant says what the lock protects: the set of tokens  *)
(* is empty exactly from the moment the flag is ready, and until then it   *)
(* holds every token that a subscriber was given.                          *)
(***************************************************************************)
EXTENDS Readiness, TLAPS

(* A place that is reached only by seeing, or by making, the flag ready. *)
SawReady(a) == pc[a] \in {"broadcasting", "flipping", "returned"}

TokensLive ==
    /\ ready => tokens = {}
    /\ marked # {} => ready
    /\ ~ready => \A s \in Subscribers : held[s] # NoToken => held[s] \in tokens

ReadySeen ==
    /\ \A a \in Subscribers \cup Waiters : SawReady(a) => ready
    /\ value => ready

IInv == TypeOK /\ TokensLive /\ ReadySeen /\ NoBypass /\ MarkedOnce

USE TokenModulusAssumption, ActorsAssumption, LockTimeoutsAssumption

-----------------------------------------------------------------------------
(* The counter wraps around inside its range. *)
LEMMA ResidueInRange == \A n \in Nat : n % TokenModulus \in 0 .. TokenModulus - 1
  BY DEF TokenIds

(* The initial state satisfies the inductive invariant. *)
LEMMA InitIInv == Init => IInv
<1> SUFFICES ASSUME Init PROVE IInv
  OBVIOUS
<1>1. TypeOK
  BY ResidueInRange DEF Init, TypeOK, SubscriberPlaces, WaiterPlaces, NoToken
<1>2. TokensLive /\ ReadySeen
  BY DEF Init, TokensLive, ReadySeen, SawReady
<1>3. NoBypass /\ MarkedOnce
  BY DEF Init, NoBypass, MarkedOnce
<1> QED
  BY <1>1, <1>2, <1>3 DEF IInv

(* Every step of the flag preserves the typing of its state. *)
LEMMA NextTypeOK == TypeOK /\ [Next]_vars => TypeOK'
<1> SUFFICES ASSUME TypeOK, [Next]_vars PROVE TypeOK'
  OBVIOUS
<1> USE DEF TypeOK, SubscriberPlaces, WaiterPlaces, Goto
<1>1. ASSUME NEW s \in Subscribers, SubscribeLoad(s) PROVE TypeOK'
  BY <1>1 DEF SubscribeLoad
<1>2. ASSUME NEW s \in Subscribers, Acquire(s) PROVE TypeOK'
  BY <1>2 DEF Acquire
<1>3. ASSUME NEW s \in Subscribers, SubscribeBody(s) PROVE TypeOK'
  <2>1. CASE ready
    BY <1>3, <2>1 DEF SubscribeBody
  <2>2. CASE ~ready
    <3>1. PICK t \in TokenIds : InsertToken(s, t)
      BY <1>3, <2>2 DEF SubscribeBody
    <3>2. nextId' \in 0 .. TokenModulus - 1
      BY <3>1, ResidueInRange DEF InsertToken, TokenIds
    <3> QED
      BY <1>3, <2>2, <3>1, <3>2 DEF SubscribeBody, InsertToken
  <2> QED
    BY <2>1, <2>2
<1>4. ASSUME NEW s \in Subscribers, MarkLoad(s) PROVE TypeOK'
  BY <1>4 DEF MarkLoad
<1>5. ASSUME NEW s \in Subscribers, MarkBody(s) PROVE TypeOK'
  BY <1>5 DEF MarkBody
<1>6. ASSUME NEW s \in Subscribers, MarkSend(s) PROVE TypeOK'
  BY <1>6 DEF MarkSend, Send
<1>7. ASSUME NEW s \in Subscribers, LockTimeout(s) PROVE TypeOK'
  BY <1>7 DEF LockTimeout
<1>8. ASSUME NEW w \in Waiters, Wait(w) PROVE TypeOK'
  BY <1>8 DEF Wait
<1>9. ASSUME NEW w \in Waiters, IsReadyLoad(w) PROVE TypeOK'
  BY <1>9 DEF IsReadyLoad
<1>10. ASSUME NEW w \in Waiters, IsReadyTryLock(w) PROVE TypeOK'
  BY <1>10 DEF IsReadyTryLock
<1>11. ASSUME NEW w \in Waiters, IsReadyBody(w) PROVE TypeOK'
  BY <1>11 DEF IsReadyBody
<1>12. ASSUME NEW w \in Waiters, IsReadySend(w) PROVE TypeOK'
  BY <1>12 DEF IsReadySend, Send
<1>13. ASSUME NEW w \in Waiters, IsReadyReload(w) PROVE TypeOK'
  BY <1>13 DEF IsReadyReload
<1>14. ASSUME NEW w \in Waiters, Park(w) PROVE TypeOK'
  BY <1>14 DEF Park
<1>15. ASSUME NEW w \in Waiters, Wake(w) \/ CancelWait(w) PROVE TypeOK'
  BY <1>15 DEF Wake, CancelWait
<1>16. CASE UNCHANGED vars
  BY <1>16 DEF vars
<1> QED
  BY <1>1, <1>2, <1>3, <1>4, <1>5, <1>6, <1>7, <1>8, <1>9, <1>10, <1>11,
     <1>12, <1>13, <1>14, <1>15, <1>16 DEF Next, SubscriberStep, WaiterStep

(* A step that leaves the tokens, and who holds them, alone. *)
Quiet == UNCHANGED <<ready, tokens, held, marked>>

(* A quiet step preserves what is said of tokens. *)
LEMMA QuietTokens ==
  ASSUME TokensLive, NoBypass, MarkedOnce, Quiet
  PROVE  (TokensLive /\ NoBypass /\ MarkedOnce)'
  BY DEF Quiet, TokensLive, NoBypass, MarkedOnce

(* Only three steps are not quiet, and each preserves what is said of tokens. *)
LEMMA NextTokens ==
  IInv /\ [Next]_vars => (TokensLive /\ NoBypass /\ MarkedOnce)'
<1> DEFINE Goal == TokensLive /\ NoBypass /\ MarkedOnce
<1> SUFFICES ASSUME IInv, [Next]_vars PROVE Goal'
  OBVIOUS
<1> USE DEF IInv
<1>1. ASSUME NEW s \in Subscribers, SubscribeBody(s) PROVE Goal'
  <2>1. CASE ready
    BY <1>1, <2>1, QuietTokens DEF SubscribeBody, Quiet
  <2>2. CASE ~ready
    <3>1. PICK t \in TokenIds : InsertToken(s, t)
      BY <1>1, <2>2 DEF SubscribeBody
    <3>2. /\ t \notin tokens
          /\ tokens' = tokens \cup {t}
          /\ held' = [held EXCEPT ![s] = t]
          /\ UNCHANGED <<ready, marked>>
      BY <1>1, <3>1 DEF InsertToken, SubscribeBody
    <3>4. TokensLive' /\ MarkedOnce'
      BY <2>2, <3>2 DEF TokensLive, TypeOK, MarkedOnce
    <3>5. NoBypass'
      BY <2>2, <3>2 DEF NoBypass
    <3> QED
      BY <3>4, <3>5
  <2> QED
    BY <2>1, <2>2
<1>2. ASSUME NEW s \in Subscribers, MarkBody(s) PROVE Goal'
  <2>1. CASE held[s] \notin tokens
    BY <1>2, <2>1, QuietTokens DEF MarkBody, Quiet
  <2>2. CASE held[s] \in tokens
    <3>1. ready' = TRUE /\ tokens' = {} /\ marked' = marked \cup {s} /\ held' = held
      BY <1>2, <2>2 DEF MarkBody
    <3>2. marked = {}
      BY <2>2 DEF TokensLive
    <3> QED
      BY <3>1, <3>2 DEF TokensLive, NoBypass, MarkedOnce
  <2> QED
    BY <2>1, <2>2
<1>3. ASSUME NEW w \in Waiters, IsReadyBody(w) PROVE Goal'
  <2>1. CASE tokens # {}
    BY <1>3, <2>1, QuietTokens DEF IsReadyBody, Quiet
  <2>2. CASE tokens = {}
    <3>1. ready' = TRUE /\ UNCHANGED <<tokens, held, marked>>
      BY <1>3, <2>2 DEF IsReadyBody
    <3>2. NoBypass'
      BY <2>2, <3>1 DEF NoBypass, TokensLive
    <3> QED
      BY <2>2, <3>1, <3>2 DEF TokensLive, MarkedOnce
  <2> QED
    BY <2>1, <2>2
<1>4. ASSUME NEW s \in Subscribers,
             SubscribeLoad(s) \/ Acquire(s) \/ MarkLoad(s) \/ MarkSend(s) \/ LockTimeout(s)
      PROVE  Goal'
  BY <1>4, QuietTokens
     DEF SubscribeLoad, Acquire, MarkLoad, MarkSend, LockTimeout, Quiet
<1>5. ASSUME NEW w \in Waiters,
             \/ Wait(w) \/ IsReadyLoad(w) \/ IsReadyTryLock(w) \/ IsReadySend(w)
             \/ IsReadyReload(w) \/ Park(w) \/ Wake(w) \/ CancelWait(w)
      PROVE  Goal'
  BY <1>5, QuietTokens
     DEF Wait, IsReadyLoad, IsReadyTryLock, IsReadySend, IsReadyReload, Park,
         Wake, CancelWait, Quiet
<1>6. CASE UNCHANGED vars
  BY <1>6, QuietTokens DEF vars, Quiet
<1> QED
  BY <1>1, <1>2, <1>3, <1>4, <1>5, <1>6 DEF Next, SubscriberStep, WaiterStep

(* Whoever saw or made the flag ready is right, now and later. *)
LEMMA NextReadySeen == IInv /\ [Next]_vars => ReadySeen'
<1> SUFFICES ASSUME IInv, [Next]_vars PROVE ReadySeen'
  OBVIOUS
<1> USE DEF IInv, TypeOK, ReadySeen, SawReady, Goto
<1>1. ASSUME NEW s \in Subscribers, SubscriberStep(s) \/ LockTimeout(s) PROVE ReadySeen'
  <2>1. CASE SubscribeLoad(s) \/ Acquire(s) \/ MarkLoad(s) \/ LockTimeout(s)
    BY <2>1 DEF SubscribeLoad, Acquire, MarkLoad, LockTimeout
  <2>2. CASE SubscribeBody(s)
    BY <2>2 DEF SubscribeBody
  <2>3. CASE MarkBody(s)
    BY <2>3 DEF MarkBody
  <2>4. CASE MarkSend(s)
    BY <2>4 DEF MarkSend, Send
  <2> QED
    BY <1>1, <2>1, <2>2, <2>3, <2>4 DEF SubscriberStep
<1>2. ASSUME NEW w \in Waiters, Wait(w) \/ WaiterStep(w) \/ CancelWait(w) PROVE ReadySeen'
  <2>1. CASE Wait(w) \/ IsReadyLoad(w) \/ IsReadyTryLock(w) \/ IsReadyReload(w)
    BY <2>1 DEF Wait, IsReadyLoad, IsReadyTryLock, IsReadyReload
  <2>2. CASE IsReadyBody(w)
    BY <2>2 DEF IsReadyBody
  <2>3. CASE IsReadySend(w)
    BY <2>3 DEF IsReadySend, Send
  <2>4. CASE Park(w) \/ Wake(w) \/ CancelWait(w)
    BY <2>4 DEF Park, Wake, CancelWait
  <2> QED
    BY <1>2, <2>1, <2>2, <2>3, <2>4 DEF WaiterStep
<1>3. CASE UNCHANGED vars
  BY <1>3 DEF vars
<1> QED
  BY <1>1, <1>2, <1>3 DEF Next

(* The inductive invariant holds in every reachable state. *)
THEOREM SpecIInv == Spec => []IInv
<1>1. IInv /\ [Next]_vars => IInv'
  BY NextTypeOK, NextTokens, NextReadySeen DEF IInv
<1> QED
  BY InitIInv, <1>1, PTL DEF Spec

-----------------------------------------------------------------------------
(* The state of the flag is well typed. *)
THEOREM TypeCorrect == Spec => []TypeOK
  BY SpecIInv, PTL DEF IInv

(* The flag never becomes ready behind the back of a subscriber. *)
THEOREM NeverBypassed == Spec => []NoBypass
  BY SpecIInv, PTL DEF IInv

(* mark_ready succeeds for at most one caller. *)
THEOREM AtMostOneMark == Spec => []MarkedOnce
  BY SpecIInv, PTL DEF IInv

(* wait_ready returns only on a ready flag, and only readiness is broadcast. *)
THEOREM WaitIsSound == Spec => []ReturnsWhenReady
<1>1. IInv => ReturnsWhenReady
  BY DEF IInv, ReadySeen, SawReady, ReturnsWhenReady
<1> QED
  BY SpecIInv, <1>1, PTL
=============================================================================
