------------------------------ MODULE DurableLog ------------------------------
(***************************************************************************)
(* What the rollout of a thread promises to those that record in it and to *)
(* those that read it later, without the channel, the writer task, the     *)
(* buffer and the lines of the file: items are kept one by one, in the     *)
(* order in which they were accepted; a session that ends loses the rest   *)
(* of its items, and never one of those that were promised.                *)
(***************************************************************************)
EXTENDS Naturals

CONSTANT MaxItems       \* bound: items whose progress is stated

VARIABLES
    accepted,   \* items accepted so far
    base,       \* those of earlier sessions
    phase,      \* of the session: deferred (nothing is kept yet), open, ended
    kept,       \* items kept for good
    promised    \* items of which a caller was told that they are kept

vars == <<accepted, base, phase, kept, promised>>

Init ==
    /\ accepted = 0 /\ base = 0
    /\ phase = "deferred"
    /\ kept = {} /\ promised = {}

Mine == (base + 1) .. accepted

(* What may be kept next: the first item of this session that is not. *)
Following == {i \in Mine \ kept : \A j \in Mine : j < i => j \in kept}

Accept ==
    /\ phase # "ended"
    /\ accepted' \in Nat /\ accepted' > accepted
    /\ UNCHANGED <<base, phase, kept, promised>>

Open ==
    /\ phase = "deferred"
    /\ phase' = "open"
    /\ UNCHANGED <<accepted, base, kept, promised>>

Keep ==
    /\ phase = "open"
    /\ \E i \in Following : kept' = kept \cup {i}
    /\ UNCHANGED <<accepted, base, phase, promised>>

(* A promise covers all that the session was given up to some item. *)
MakePromise ==
    \E n \in base .. accepted :
        /\ (base + 1) .. n \subseteq kept
        /\ promised' = promised \cup ((base + 1) .. n)

Promise ==
    /\ phase = "open"
    /\ MakePromise
    /\ UNCHANGED <<accepted, base, phase, kept>>

(* It ends in an error or with its process, which may be while an item is *)
(* being kept or promised.                                                *)
End ==
    /\ phase # "ended"
    /\ phase' = "ended"
    /\ \/ UNCHANGED <<kept, promised>>
       \/ /\ phase = "open"
          /\ \E i \in Following : kept' = kept \cup {i}
          /\ UNCHANGED promised
       \/ /\ phase = "open"
          /\ MakePromise
          /\ UNCHANGED kept
    /\ UNCHANGED <<accepted, base>>

(* The next session has no claim on what the last one left unkept. *)
Resume ==
    /\ phase = "ended"
    /\ phase' = "open"
    /\ base' = accepted
    /\ UNCHANGED <<accepted, kept, promised>>

Next == Accept \/ Open \/ Keep \/ Promise \/ End \/ Resume

(* An item given to an open session is kept, or the session ends. *)
Progress ==
    \A i \in 1 .. MaxItems :
        (phase = "open" /\ i \in Mine) ~> (i \in kept \/ phase = "ended")

Safety == Init /\ [][Next]_vars

Spec == Safety /\ Progress
===============================================================================
