------------------------------ MODULE Readiness ------------------------------
(***************************************************************************)
(* ReadinessFlag of codex-rs/utils/readiness/src/lib.rs: a one-way flag    *)
(* with authorization tokens.  core/ uses one flag per turn, the           *)
(* tool_call_gate: the ghost snapshot subscribes before it copies the      *)
(* working tree and marks the flag ready when it is done, and every        *)
(* mutating tool call waits for the flag before it runs.                   *)
(*                                                                         *)
(* A subscriber is one caller of subscribe and then mark_ready; a waiter   *)
(* is a tool call, which may wait again for its next call.  Each step is   *)
(* one access to shared state: the atomic `ready`, the tokio Mutex around  *)
(* `tokens`, or the watch channel.  A body that runs with the lock held    *)
(* is one step: `ready` is written only under the lock, and `tokens` is    *)
(* read and written only under it.                                         *)
(***************************************************************************)
EXTENDS Integers

CONSTANTS
    Subscribers,    \* callers of subscribe / mark_ready
    Waiters,        \* callers of wait_ready
    TokenModulus,   \* number of values of the i32 token counter (2^32 in the code)
    LockTimeouts,   \* whether an acquisition of the lock may exceed LOCK_TIMEOUT
    None            \* no owner of the lock

ASSUME TokenModulusAssumption == TokenModulus \in Nat \ {0}
ASSUME ActorsAssumption == /\ Subscribers \cap Waiters = {}
                           /\ None \notin Subscribers \cup Waiters
ASSUME LockTimeoutsAssumption == LockTimeouts \in BOOLEAN

TokenIds == 1 .. TokenModulus - 1       \* a token is never 0
NoToken == 0

VARIABLES
    ready,       \* AtomicBool
    nextId,      \* AtomicI32, as an unsigned residue
    tokens,      \* the HashSet of active subscriptions
    lock,        \* who holds the tokio Mutex around tokens
    value,       \* value of the watch channel
    receivers,   \* waiters that hold a watch receiver
    held,        \* token that subscribe returned to each subscriber
    marked,      \* subscribers whose mark_ready returned true
    pc           \* where each subscriber and each waiter is

vars == <<ready, nextId, tokens, lock, value, receivers, held, marked, pc>>

SubscriberPlaces == {"start", "subscribing", "inserting", "holding", "marking",
                     "removing", "broadcasting", "done", "failed"}
WaiterPlaces == {"idle", "checking", "trying", "locked", "rechecking",
                 "flipping", "subscribing", "parked", "returned", "gone"}

TypeOK ==
    /\ ready \in BOOLEAN
    /\ nextId \in 0 .. TokenModulus - 1
    /\ tokens \subseteq TokenIds
    /\ lock \in Subscribers \cup Waiters \cup {None}
    /\ value \in BOOLEAN
    /\ receivers \subseteq Waiters
    /\ held \in [Subscribers -> TokenIds \cup {NoToken}]
    /\ marked \subseteq Subscribers
    /\ pc \in [Subscribers \cup Waiters -> SubscriberPlaces \cup WaiterPlaces]

Init ==
    /\ ready = FALSE
    /\ nextId = 1 % TokenModulus
    /\ tokens = {}
    /\ lock = None
    /\ value = FALSE
    /\ receivers = {}
    /\ held = [s \in Subscribers |-> NoToken]
    /\ marked = {}
    /\ pc = [a \in Subscribers \cup Waiters |->
                IF a \in Subscribers THEN "start" ELSE "idle"]

Goto(a, from, to) == pc[a] = from /\ pc' = [pc EXCEPT ![a] = to]

-----------------------------------------------------------------------------
(* subscribe *)

SubscribeLoad(s) ==
    /\ Goto(s, "start", IF ready THEN "done" ELSE "subscribing")
    /\ UNCHANGED <<ready, nextId, tokens, lock, value, receivers, held, marked>>

(* with_tokens: wait for the lock ... *)
Acquire(s) ==
    /\ lock = None
    /\ lock' = s
    /\ \/ Goto(s, "subscribing", "inserting")
       \/ Goto(s, "marking", "removing")
    /\ UNCHANGED <<ready, nextId, tokens, value, receivers, held, marked>>

(* ... for at most LOCK_TIMEOUT, else TokenLockFailed. *)
LockTimeout(s) ==
    /\ LockTimeouts
    /\ lock # None
    /\ Goto(s, "subscribing", "failed") \/ Goto(s, "marking", "failed")
    /\ UNCHANGED <<ready, nextId, tokens, lock, value, receivers, held, marked>>

(* How many times fetch_add must run before it returns t. *)
Distance(t) == (t - nextId + TokenModulus) % TokenModulus

(* Mutant: the counter is not reduced to its width. *)
InsertTokenUnbounded(s, t) ==
    /\ t \in TokenIds \ tokens
    /\ \A u \in TokenIds \ tokens : t <= u
    /\ tokens' = tokens \cup {t}
    /\ held' = [held EXCEPT ![s] = t]
    /\ nextId' = t + 1

(* The loop over fetch_add: it takes the first non-zero id that is not in  *)
(* the set, and never ends when there is none.                             *)
InsertToken(s, t) ==
    /\ t \in TokenIds \ tokens
    /\ \A u \in TokenIds \ tokens : Distance(t) <= Distance(u)
    /\ tokens' = tokens \cup {t}
    /\ held' = [held EXCEPT ![s] = t]
    /\ nextId' = (t + 1) % TokenModulus

(* Mutant: no second look at `ready` under the lock. *)
SubscribeBodyUnchecked(s) ==
    /\ lock = s
    /\ lock' = None
    /\ Goto(s, "inserting", "holding")
    /\ \E t \in TokenIds : InsertToken(s, t)
    /\ UNCHANGED <<ready, value, receivers, marked>>

(* The body of subscribe under the lock, which looks at `ready` again. *)
SubscribeBody(s) ==
    /\ lock = s
    /\ lock' = None
    /\ \/ /\ ready
          /\ Goto(s, "inserting", "done")
          /\ UNCHANGED <<tokens, held, nextId>>
       \/ /\ ~ready
          /\ Goto(s, "inserting", "holding")
          /\ \E t \in TokenIds : InsertToken(s, t)
    /\ UNCHANGED <<ready, value, receivers, marked>>

-----------------------------------------------------------------------------
(* mark_ready, called with the token that subscribe returned *)

(* Mutant: the other tokens stay valid. *)
MarkBodyNoClear(s) ==
    /\ lock = s
    /\ lock' = None
    /\ held[s] \in tokens
    /\ Goto(s, "removing", "broadcasting")
    /\ ready' = TRUE
    /\ tokens' = tokens \ {held[s]}
    /\ marked' = marked \cup {s}
    /\ UNCHANGED <<nextId, value, receivers, held>>

MarkLoad(s) ==
    /\ Goto(s, "holding", IF ready \/ held[s] = NoToken THEN "done" ELSE "marking")
    /\ UNCHANGED <<ready, nextId, tokens, lock, value, receivers, held, marked>>

MarkBody(s) ==
    /\ lock = s
    /\ lock' = None
    /\ \/ /\ held[s] \notin tokens
          /\ Goto(s, "removing", "done")
          /\ UNCHANGED <<ready, tokens, marked>>
       \/ /\ held[s] \in tokens
          /\ Goto(s, "removing", "broadcasting")
          /\ ready' = TRUE
          /\ tokens' = {}
          /\ marked' = marked \cup {s}
    /\ UNCHANGED <<nextId, value, receivers, held>>

(* Mutant: mark_ready returns without the broadcast. *)
MarkSendSkipped(s) ==
    /\ Goto(s, "broadcasting", "done")
    /\ UNCHANGED <<ready, nextId, tokens, lock, value, receivers, held, marked>>

(* watch::Sender::send fails, and leaves the value as it was, when the     *)
(* channel has no receiver.                                                *)
Send == value' = (value \/ receivers # {})

MarkSend(s) ==
    /\ Goto(s, "broadcasting", "done")
    /\ Send
    /\ UNCHANGED <<ready, nextId, tokens, lock, receivers, held, marked>>

-----------------------------------------------------------------------------
(* wait_ready, and the is_ready it starts with *)

Wait(w) ==
    /\ Goto(w, "idle", "checking") \/ Goto(w, "returned", "checking")
    /\ UNCHANGED <<ready, nextId, tokens, lock, value, receivers, held, marked>>

IsReadyLoad(w) ==
    /\ Goto(w, "checking", IF ready THEN "returned" ELSE "trying")
    /\ UNCHANGED <<ready, nextId, tokens, lock, value, receivers, held, marked>>

(* try_lock *)
IsReadyTryLock(w) ==
    /\ Goto(w, "trying", IF lock = None THEN "locked" ELSE "rechecking")
    /\ lock' = IF lock = None THEN w ELSE lock
    /\ UNCHANGED <<ready, nextId, tokens, value, receivers, held, marked>>

(* With the lock held: nobody is subscribed, so the flag becomes ready; or *)
(* somebody is.  Either way the lock is released.                          *)
IsReadyBody(w) ==
    /\ lock = w
    /\ lock' = None
    /\ \/ /\ tokens = {}
          /\ Goto(w, "locked", IF ready THEN "returned" ELSE "flipping")
          /\ ready' = TRUE
       \/ /\ tokens # {}
          /\ Goto(w, "locked", "rechecking")
          /\ UNCHANGED ready
    /\ UNCHANGED <<nextId, tokens, value, receivers, held, marked>>

IsReadySend(w) ==
    /\ Goto(w, "flipping", "returned")
    /\ Send
    /\ UNCHANGED <<ready, nextId, tokens, lock, receivers, held, marked>>

IsReadyReload(w) ==
    /\ Goto(w, "rechecking", IF ready THEN "returned" ELSE "subscribing")
    /\ UNCHANGED <<ready, nextId, tokens, lock, value, receivers, held, marked>>

(* tx.subscribe() and the check of the value before the first await. *)
Park(w) ==
    /\ Goto(w, "subscribing", IF value THEN "returned" ELSE "parked")
    /\ receivers' = IF value THEN receivers ELSE receivers \cup {w}
    /\ UNCHANGED <<ready, nextId, tokens, lock, value, held, marked>>

(* rx.changed(): the only change the channel ever carries is to true. *)
Wake(w) ==
    /\ value
    /\ Goto(w, "parked", "returned")
    /\ receivers' = receivers \ {w}
    /\ UNCHANGED <<ready, nextId, tokens, lock, value, held, marked>>

(* A cancelled tool call drops the future at its await, and the receiver   *)
(* with it (core/src/tools/parallel.rs).                                   *)
CancelWait(w) ==
    /\ Goto(w, "parked", "gone")
    /\ receivers' = receivers \ {w}
    /\ UNCHANGED <<ready, nextId, tokens, lock, value, held, marked>>

-----------------------------------------------------------------------------
SubscriberStep(s) == SubscribeLoad(s) \/ Acquire(s) \/ SubscribeBody(s)
                        \/ MarkLoad(s) \/ MarkBody(s) \/ MarkSend(s)
WaiterStep(w) == IsReadyLoad(w) \/ IsReadyTryLock(w) \/ IsReadyBody(w)
                    \/ IsReadySend(w) \/ IsReadyReload(w) \/ Park(w) \/ Wake(w)

Next ==
    \/ \E s \in Subscribers : SubscriberStep(s) \/ LockTimeout(s)
    \/ \E w \in Waiters : Wait(w) \/ WaiterStep(w) \/ CancelWait(w)

Spec == Init /\ [][Next]_vars

(* Every task on the runtime is polled again when it can go on, and a      *)
(* subscriber always calls mark_ready (tasks/ghost_snapshot.rs does so on  *)
(* success, on failure and on cancellation).                               *)
Fairness == /\ \A s \in Subscribers : WF_vars(SubscriberStep(s))
            /\ \A w \in Waiters : WF_vars(WaiterStep(w))

FairSpec == Spec /\ Fairness

-----------------------------------------------------------------------------
(* Nobody's subscription is bypassed: unless some mark_ready was           *)
(* authorized, the flag is not ready while a subscriber holds a token      *)
(* (subscribe looks at `ready` again under the lock, lib.rs:121-136).      *)
NoBypass ==
    ready /\ marked = {} => \A s \in Subscribers : held[s] = NoToken

(* mark_ready returns true at most once ("iff ... the flag was not already *)
(* ready", lib.rs:32-37), however many tokens were out.                    *)
MarkedOnce == \A s, t \in marked : s = t

(* wait_ready returns only once the flag is ready: no mutating tool call   *)
(* runs while a ghost snapshot that holds the gate is being taken.         *)
ReturnsWhenReady ==
    /\ \A w \in Waiters : pc[w] \in {"returned", "flipping"} => ready
    /\ value => ready

(* A waiter that is parked when mark_ready, or is_ready, is about to       *)
(* broadcast is woken: only one that comes between the change of the flag  *)
(* and a broadcast that nobody listened to can miss it.                    *)
EarlyWaitersWake ==
    \A w \in Waiters :
        pc[w] = "parked" /\ (\E a \in DOMAIN pc : pc[a] \in {"broadcasting", "flipping"})
            ~> pc[w] # "parked"

(* "Asynchronously wait until the flag becomes ready" (lib.rs:39): a       *)
(* waiter does not stay parked on a flag that is ready.                    *)
WaitersWake == \A w \in Waiters : (pc[w] = "parked" /\ ready) ~> (pc[w] # "parked")
=============================================================================
