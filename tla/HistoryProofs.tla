------------------------------ MODULE HistoryProofs ------------------------------
(***************************************************************************)
(* The conversation for any number of messages and events.                 *)
(*                                                                         *)
(* The first half are lemmas about the operators on sequences: FlattenSeq  *)
(* adds the last piece to what it makes of the others (Partial is the      *)
(* fold up to a position), so Keep goes through a sequence from front to   *)
(* back, and what it keeps follows by taking a least exception             *)
(* (SeqInduction).  Then what counting boundaries, dropping the last turns *)
(* and taking a sequence apart come to.                                    *)
(*                                                                         *)
(* The invariant says in turn: what each actor can hold (Types), that the  *)
(* loop works beside a task on nothing but a note, and that who replaces   *)
(* the items has nothing to hand over (TakeTurns, Settled), that a clone   *)
(* in use is the front of the items (Cloned); that each                    *)
(* reader of the rollout, given what is still to be handed over, has what  *)
(* the memory has (Forked, Replayed, Told); and that calls and outputs are *)
(* unique and in order in memory and rollout (Calls).                      *)
(***************************************************************************)
EXTENDS History, FiniteSetTheorems, SequenceTheorems, WellFoundedInduction, TLAPS

(* A set of numbers has a least one: an argument by induction takes the *)
(* least number that is an exception.                                   *)
LEMMA LeastOf ==
  ASSUME NEW T, T \subseteq Nat, T # {}
  PROVE  \E m \in T : \A n \in T : m <= n
<1>1. PICK m \in T : \A n \in T : ~ (<<n, m>> \in OpToRel(<, Nat))
  BY NatLessThanWellFounded, WFMin, Zenon
<1>2. ASSUME NEW n \in T PROVE m <= n
  <2>1. <<n, m>> \notin {p \in Nat \X Nat : p[1] < p[2]}
    BY <1>1, Zenon DEF OpToRel
  <2> QED
    BY <2>1
<1> QED
  BY <1>2

(* What holds of 0 and goes from each number to the next holds of all. *)
LEMMA UpTo ==
  ASSUME NEW N \in Nat, NEW S, 0 \in S, \A n \in 0 .. N : n \in S => n + 1 \in S
  PROVE  \A n \in 0 .. N : n \in S
<1> DEFINE T == {n \in 0 .. N : n \notin S}
<1>1. SUFFICES ASSUME T # {} PROVE FALSE
  BY Zenon
<1>2. T \subseteq Nat
  OBVIOUS
<1>3. PICK m \in T : \A n \in T : m <= n
  BY <1>1, <1>2, LeastOf
<1>4. m # 0 /\ m \in 0 .. N /\ m \notin S
  OBVIOUS
<1>5. m - 1 \in 0 .. N /\ m - 1 \notin T
  BY <1>3, <1>4
<1>6. m - 1 \in S
  BY <1>5
<1>7. (m - 1) + 1 \in S
  BY <1>5, <1>6
<1> QED
  BY <1>4, <1>7
--------------------------------------------------------------------------------
(* Joining a sequence of sequences: the partial results. *)
Partial(f, g, n) == g = [i \in 1 .. n |-> IF i = 1 THEN f[i] ELSE g[i - 1] \o f[i]]

(* They exist, ... *)
LEMMA PartialExists ==
  ASSUME NEW T, NEW f \in Seq(Seq(T))
  PROVE  \A n \in 0 .. Len(f) : \E g \in [1 .. n -> Seq(T)] : Partial(f, g, n)
<1> DEFINE S == {n \in Nat : n <= Len(f) => \E g \in [1 .. n -> Seq(T)] : Partial(f, g, n)}
<1>1. Len(f) \in Nat /\ \A i \in 1 .. Len(f) : f[i] \in Seq(T)
  BY LenProperties, ElementOfSeq
<1>2. 0 \in S
  <2> DEFINE g == [i \in 1 .. 0 |-> f[i]]
  <2>1. g \in [1 .. 0 -> Seq(T)] /\ Partial(f, g, 0)
    BY DEF Partial
  <2> QED
    BY <2>1
<1>3. ASSUME NEW n \in 0 .. Len(f), n \in S PROVE n + 1 \in S
  <2>1. SUFFICES ASSUME n + 1 <= Len(f)
                 PROVE  \E g \in [1 .. n + 1 -> Seq(T)] : Partial(f, g, n + 1)
    BY <1>1
  <2>2. PICK g \in [1 .. n -> Seq(T)] : Partial(f, g, n)
    BY <1>1, <1>3
  <2> DEFINE h == [i \in 1 .. n + 1 |-> IF i \in 1 .. n THEN g[i]
                                        ELSE IF n = 0 THEN f[i] ELSE g[n] \o f[i]]
  <2>3. h \in [1 .. n + 1 -> Seq(T)]
    <3>1. ASSUME NEW i \in 1 .. n + 1 PROVE h[i] \in Seq(T)
      <4>1. f[i] \in Seq(T)
        BY <1>1, <2>1
      <4>2. n # 0 => g[n] \in Seq(T)
        BY <1>1, <2>1
      <4> QED
        BY <4>1, <4>2
    <3> QED
      BY <3>1
  <2>4. Partial(f, h, n + 1)
    <3>1. ASSUME NEW i \in 1 .. n + 1
          PROVE  h[i] = IF i = 1 THEN f[i] ELSE h[i - 1] \o f[i]
      <4>1. CASE i \in 1 .. n
        <5>1. g[i] = IF i = 1 THEN f[i] ELSE g[i - 1] \o f[i]
          BY <2>2, <4>1 DEF Partial
        <5>2. i # 1 => h[i - 1] = g[i - 1]
          BY <1>1, <4>1
        <5> QED
          BY <4>1, <5>1, <5>2
      <4>2. CASE i = n + 1
        <5>1. i \notin 1 .. n /\ (n # 0 => i - 1 = n /\ n \in 1 .. n) /\ (n = 0 <=> i = 1)
          BY <1>1, <4>2
        <5> QED
          BY <4>2, <5>1
      <4> QED
        BY <1>1, <4>1, <4>2
    <3> HIDE DEF h
    <3>2. h = [i \in 1 .. n + 1 |-> h[i]]
      BY <2>3
    <3> QED
      BY <3>1, <3>2, Zenon DEF Partial
  <2> QED
    BY <2>3, <2>4
<1>4. \A n \in 0 .. Len(f) : n \in S
  <2> HIDE DEF S
  <2> QED
    BY <1>1, <1>2, <1>3, UpTo
<1> QED
  BY <1>1, <1>4

(* ... and are determined. *)
LEMMA PartialUnique ==
  ASSUME NEW f, NEW f1, NEW g, NEW g1, NEW n \in Nat, NEW n1 \in Nat, n <= n1,
         \A i \in 1 .. n : f[i] = f1[i],
         Partial(f, g, n), Partial(f1, g1, n1)
  PROVE  \A i \in 1 .. n : g[i] = g1[i]
<1> DEFINE S == {i \in Nat : i \in 1 .. n => g[i] = g1[i]}
<1>1. 0 \in S
  OBVIOUS
<1>2. ASSUME NEW i \in 0 .. n, i \in S PROVE i + 1 \in S
  <2>1. SUFFICES ASSUME i + 1 \in 1 .. n PROVE g[i + 1] = g1[i + 1]
    OBVIOUS
  <2>2. /\ g[i + 1] = IF i + 1 = 1 THEN f[i + 1] ELSE g[(i + 1) - 1] \o f[i + 1]
        /\ g1[i + 1] = IF i + 1 = 1 THEN f1[i + 1] ELSE g1[(i + 1) - 1] \o f1[i + 1]
    <3> DEFINE j == i + 1
    <3>1. j \in 1 .. n /\ j \in 1 .. n1
      BY <1>2, <2>1
    <3> HIDE DEF j
    <3>2. g[j] = IF j = 1 THEN f[j] ELSE g[j - 1] \o f[j]
      BY <3>1, Zenon DEF Partial
    <3>3. g1[j] = IF j = 1 THEN f1[j] ELSE g1[j - 1] \o f1[j]
      BY <3>1, Zenon DEF Partial
    <3> QED
      BY <3>2, <3>3 DEF j
  <2>3. (i + 1) - 1 = i /\ (i + 1 = 1 <=> i = 0) /\ f[i + 1] = f1[i + 1]
        /\ (i # 0 => g[i] = g1[i])
    BY <1>2, <2>1
  <2> QED
    BY <2>2, <2>3
<1>3. \A i \in 0 .. n : i \in S
  <2> HIDE DEF S
  <2> QED
    BY <1>1, <1>2, UpTo
<1> QED
  BY <1>3

(* One more sequence joined is its elements behind the others. *)
LEMMA FlattenMore ==
  ASSUME NEW T, NEW f \in Seq(Seq(T)), NEW t \in Seq(T)
  PROVE  /\ FlattenSeq(f) \in Seq(T)
         /\ FlattenSeq(Append(f, t)) = FlattenSeq(f) \o t
<1> DEFINE Joined(u) == CHOOSE g : Partial(u, g, Len(u))
<1>1. ASSUME NEW u \in Seq(Seq(T))
      PROVE  /\ Partial(u, Joined(u), Len(u)) /\ Len(u) \in Nat
             /\ Len(u) # 0 => FlattenSeq(u) = Joined(u)[Len(u)] /\ FlattenSeq(u) \in Seq(T)
  <2>1. Len(u) \in Nat /\ Len(u) \in 0 .. Len(u)
    BY LenProperties
  <2>2. PICK g \in [1 .. Len(u) -> Seq(T)] : Partial(u, g, Len(u))
    BY <2>1, PartialExists
  <2>3. Partial(u, Joined(u), Len(u))
    BY <2>2, Zenon
  <2>4. ASSUME Len(u) # 0 PROVE FlattenSeq(u) = Joined(u)[Len(u)]
    BY <2>4, Zenon DEF FlattenSeq, Partial
  <2>5. ASSUME Len(u) # 0 PROVE Joined(u)[Len(u)] \in Seq(T)
    <3> HIDE DEF Joined
    <3>1. Joined(u)[Len(u)] = g[Len(u)]
      BY <2>1, <2>2, <2>3, <2>5, PartialUnique
    <3>2. Len(u) \in 1 .. Len(u)
      BY <2>1, <2>5
    <3>3. g[Len(u)] \in Seq(T)
      BY ONLY <2>2, <3>2
    <3> QED
      BY ONLY <3>1, <3>3
  <2>6. Len(u) = 0 => FlattenSeq(u) \in Seq(T)
    <3>1. ASSUME Len(u) = 0 PROVE u = << >>
      BY <3>1, EmptySeq
    <3> QED
      BY <3>1, EmptySeq DEF FlattenSeq
  <2> QED
    BY <2>1, <2>3, <2>4, <2>5, <2>6
<1> DEFINE u == Append(f, t)
<1>2. /\ u \in Seq(Seq(T)) /\ Len(f) \in Nat /\ Len(u) = Len(f) + 1
      /\ \A i \in 1 .. Len(f) : f[i] = u[i]
      /\ u[Len(u)] = t
  BY AppendProperties, LenProperties
<1> HIDE DEF u, Joined
<1>3. FlattenSeq(u) = Joined(u)[Len(u)]
  BY <1>1, <1>2
<1>4. Joined(u)[Len(u)] = IF Len(u) = 1 THEN u[Len(u)] ELSE Joined(u)[Len(u) - 1] \o u[Len(u)]
  <2>1. Partial(u, Joined(u), Len(u)) /\ Len(u) \in 1 .. Len(u)
    BY <1>1, <1>2
  <2> QED
    BY <2>1, Zenon DEF Partial
<1>5. CASE Len(f) = 0
  <2>1. f = << >>
    BY <1>5, EmptySeq
  <2>2. FlattenSeq(f) = << >>
    BY <1>5, <2>1 DEF FlattenSeq
  <2>3. << >> \o t = t
    BY ConcatEmptySeq
  <2> QED
    BY <1>2, <1>3, <1>4, <1>5, <2>2, <2>3 DEF u
<1>6. CASE Len(f) # 0
  <2>1. FlattenSeq(f) = Joined(f)[Len(f)] /\ FlattenSeq(f) \in Seq(T)
    BY <1>1, <1>6
  <2>2. Joined(f)[Len(f)] = Joined(u)[Len(f)]
    <3>1. Partial(f, Joined(f), Len(f)) /\ Partial(u, Joined(u), Len(u)) /\ Len(f) <= Len(u)
      BY <1>1, <1>2
    <3>2. Len(f) \in Nat /\ Len(u) \in Nat
      BY <1>2
    <3>3. \A i \in 1 .. Len(f) : Joined(f)[i] = Joined(u)[i]
      <4> DEFINE g == Joined(f)
                 g1 == Joined(u)
                 n == Len(f)
                 n1 == Len(u)
      <4>1. Partial(f, g, n) /\ Partial(u, g1, n1) /\ n <= n1 /\ n \in Nat /\ n1 \in Nat
            /\ \A i \in 1 .. n : f[i] = u[i]
        BY <1>2, <3>1, <3>2
      <4> HIDE DEF g, g1, n, n1
      <4>2. \A i \in 1 .. n : g[i] = g1[i]
        BY ONLY <4>1, PartialUnique
      <4> QED
        BY <4>2 DEF g, g1, n
    <3> QED
      BY <1>2, <1>6, <3>3
  <2> QED
    BY <1>2, <1>3, <1>4, <1>6, <2>1, <2>2 DEF u
<1> QED
  BY <1>5, <1>6

(* What holds of the empty sequence and goes from each to one element more *)
(* holds of all.                                                           *)
LEMMA SeqInduction ==
  ASSUME NEW T, NEW S, << >> \in S,
         \A s \in Seq(T), e \in T : s \in S => Append(s, e) \in S
  PROVE  \A s \in Seq(T) : s \in S
<1> SUFFICES ASSUME NEW t \in Seq(T) PROVE t \in S
  OBVIOUS
<1> DEFINE N == {n \in Nat : \A s \in Seq(T) : Len(s) = n => s \in S}
<1>1. 0 \in N
  <2>1. ASSUME NEW s \in Seq(T), Len(s) = 0 PROVE s = << >>
    BY <2>1, EmptySeq
  <2> QED
    BY <2>1
<1>2. ASSUME NEW n \in 0 .. Len(t), n \in N PROVE n + 1 \in N
  <2>1. SUFFICES ASSUME NEW s \in Seq(T), Len(s) = n + 1 PROVE s \in S
    BY <1>2
  <2>2. s # << >>
    BY <2>1, EmptySeq
  <2>3. PICK u \in Seq(T), e \in T : s = Append(u, e)
    BY <2>2, SequenceEmptyOrAppend
  <2>4. Len(u) = n /\ Len(u) \in Nat
    <3>1. Len(s) = Len(u) + 1 /\ Len(u) \in Nat
      BY <2>3, AppendProperties, LenProperties
    <3> QED
      BY <2>1, <3>1
  <2>5. u \in S
    BY <1>2, <2>3, <2>4
  <2> QED
    BY <2>3, <2>5
<1>3. Len(t) \in Nat
  BY LenProperties
<1>4. \A n \in 0 .. Len(t) : n \in N
  <2> HIDE DEF N
  <2> QED
    BY <1>1, <1>2, <1>3, UpTo
<1> QED
  BY <1>3, <1>4
--------------------------------------------------------------------------------
(* Keeping the elements that are in a set. *)

(* Keep goes through a sequence from front to back. *)
LEMMA KeepMore ==
  \A T, S : \A s \in Seq(T) :
      /\ Keep(<< >>, S) = << >>
      /\ Keep(s, S) \in Seq(T)
      /\ \A e \in T : e \in S => Keep(Append(s, e), S) = Append(Keep(s, S), e)
      /\ \A e \in T : e \notin S => Keep(Append(s, e), S) = Keep(s, S)
<1>0. SUFFICES ASSUME NEW T, NEW s \in Seq(T), NEW S
               PROVE  /\ Keep(<< >>, S) = << >>
                      /\ Keep(s, S) \in Seq(T)
                      /\ \A e \in T : Keep(Append(s, e), S)
                            = IF e \in S THEN Append(Keep(s, S), e) ELSE Keep(s, S)
  OBVIOUS
<1> DEFINE Bits(u) == [m \in DOMAIN u |-> IF u[m] \in S THEN <<u[m]>> ELSE << >>]
           bit(e) == IF e \in S THEN <<e>> ELSE << >>
<1>1. ASSUME NEW u \in Seq(T) PROVE Bits(u) \in Seq(Seq(T)) /\ Len(Bits(u)) = Len(u)
  <2>1. DOMAIN u = 1 .. Len(u) /\ Len(u) \in Nat /\ \A m \in 1 .. Len(u) : u[m] \in T
    BY LenProperties, ElementOfSeq
  <2>2. \A m \in 1 .. Len(u) : Bits(u)[m] \in Seq(T)
    BY <2>1
  <2>3. Bits(u) \in [1 .. Len(u) -> Seq(T)]
    BY <2>1, <2>2
  <2> QED
    BY <2>1, <2>3
<1>2. \A e \in T : bit(e) \in Seq(T)
  OBVIOUS
<1>3. ASSUME NEW e \in T PROVE Bits(Append(s, e)) = Append(Bits(s), bit(e))
  <2> DEFINE u == Append(s, e)
             v == Append(Bits(s), bit(e))
  <2>1. /\ u \in Seq(T) /\ Len(u) = Len(s) + 1 /\ Len(s) \in Nat
        /\ \A i \in 1 .. Len(s) : u[i] = s[i]
        /\ u[Len(s) + 1] = e
        /\ DOMAIN s = 1 .. Len(s) /\ DOMAIN u = 1 .. Len(u)
    BY AppendProperties, LenProperties
  <2>2. /\ v \in Seq(Seq(T)) /\ Len(v) = Len(s) + 1
        /\ \A i \in 1 .. Len(s) : v[i] = Bits(s)[i]
        /\ v[Len(s) + 1] = bit(e)
    BY <1>1, <1>2, AppendProperties
  <2>3. Bits(u) \in Seq(Seq(T)) /\ Len(Bits(u)) = Len(v)
    BY <1>1, <2>1, <2>2
  <2>4. \A i \in 1 .. Len(Bits(u)) : Bits(u)[i] = v[i]
    BY <2>1, <2>2, <2>3
  <2> HIDE DEF u, v, bit, Bits
  <2> QED
    BY <2>2, <2>3, <2>4, SeqEqual DEF u, v
<1>4. /\ FlattenSeq(Bits(s)) \in Seq(T)
      /\ \A e \in T : FlattenSeq(Append(Bits(s), bit(e))) = FlattenSeq(Bits(s)) \o bit(e)
  <2>1. Bits(s) \in Seq(Seq(T)) /\ << >> \in Seq(T)
    BY <1>1
  <2> HIDE DEF Bits, bit
  <2>2. \A t \in Seq(T) : /\ FlattenSeq(Bits(s)) \in Seq(T)
                          /\ FlattenSeq(Append(Bits(s), t)) = FlattenSeq(Bits(s)) \o t
    BY <2>1, FlattenMore
  <2> QED
    BY <1>2, <2>1, <2>2
<1>5. \A u : Keep(u, S) = FlattenSeq(Bits(u))
  BY DEF Keep
<1>6. Keep(<< >>, S) = << >>
  <2>1. << >> \in Seq(T) /\ Len(<< >>) = 0
    BY EmptySeq
  <2>2. Bits(<< >>) = << >>
    BY <1>1, <2>1, EmptySeq
  <2> QED
    BY <1>5, <2>1, <2>2 DEF FlattenSeq
<1>7. ASSUME NEW e \in T
      PROVE  Keep(s, S) \o bit(e) = IF e \in S THEN Append(Keep(s, S), e) ELSE Keep(s, S)
  <2>1. Keep(s, S) \in Seq(T)
    BY <1>4, <1>5
  <2> QED
    BY <2>1, AppendIsConcat, ConcatEmptySeq
<1> HIDE DEF Bits, bit
<1> QED
  BY <1>3, <1>4, <1>5, <1>6, <1>7

(* What is in a sequence. *)
LEMMA ToSetMore ==
  ASSUME NEW T, NEW s \in Seq(T), NEW e \in T
  PROVE  /\ ToSet(<< >>) = {}
         /\ ToSet(s) \subseteq T
         /\ ToSet(Append(s, e)) = ToSet(s) \cup {e}
<1>1. /\ DOMAIN s = 1 .. Len(s) /\ Len(s) \in Nat /\ \A m \in 1 .. Len(s) : s[m] \in T
  BY LenProperties, ElementOfSeq
<1>2. /\ DOMAIN Append(s, e) = 1 .. Len(s) + 1
      /\ \A i \in 1 .. Len(s) : Append(s, e)[i] = s[i]
      /\ Append(s, e)[Len(s) + 1] = e
  BY AppendProperties, LenProperties
<1>3. ToSet(Append(s, e)) \subseteq ToSet(s) \cup {e}
  BY <1>1, <1>2 DEF ToSet
<1>4. ToSet(s) \cup {e} \subseteq ToSet(Append(s, e))
  <2>1. ASSUME NEW i \in 1 .. Len(s) PROVE s[i] \in ToSet(Append(s, e))
    <3>1. i \in 1 .. Len(s) + 1
      BY <1>1
    <3> QED
      BY <1>2, <3>1 DEF ToSet
  <2>2. e \in ToSet(Append(s, e))
    <3>1. Len(s) + 1 \in 1 .. Len(s) + 1
      BY <1>1
    <3> QED
      BY <1>2, <3>1 DEF ToSet
  <2> QED
    BY <1>1, <2>1, <2>2 DEF ToSet
<1>5. DOMAIN << >> = {}
  OBVIOUS
<1> QED
  BY <1>1, <1>3, <1>4, <1>5 DEF ToSet

(* What it keeps of one sequence behind another. *)
LEMMA KeepConcat ==
  \A T, S : \A s, t \in Seq(T) : Keep(s \o t, S) = Keep(s, S) \o Keep(t, S)
<1> SUFFICES ASSUME NEW T, NEW s \in Seq(T), NEW t \in Seq(T), NEW S
             PROVE  Keep(s \o t, S) = Keep(s, S) \o Keep(t, S)
  OBVIOUS
<1> DEFINE P == {u \in Seq(T) : Keep(s \o u, S) = Keep(s, S) \o Keep(u, S)}
<1>1. Keep(s, S) \in Seq(T) /\ << >> \in Seq(T)
  <2>1. CASE T = {}
    <3>1. s = << >>
      BY <2>1, EmptySeq, ElementOfSeq, LenProperties
    <3>2. DOMAIN << >> = {}
      OBVIOUS
    <3>3. Keep(s, S) = << >>
      BY <3>1, <3>2 DEF Keep, FlattenSeq
    <3> QED
      BY <3>3
  <2>2. CASE T # {}
    BY <2>2, KeepMore
  <2> QED
    BY <2>1, <2>2
<1>2. << >> \in P
  <2>1. DOMAIN << >> = {} /\ Len(<< >>) = 0
    OBVIOUS
  <2>2. Keep(<< >>, S) = << >>
    BY <2>1 DEF Keep, FlattenSeq
  <2> QED
    BY <1>1, <2>2, ConcatEmptySeq
<1>3. ASSUME NEW u \in Seq(T), NEW e \in T, u \in P PROVE Append(u, e) \in P
  <2>1. s \o u \in Seq(T) /\ Append(u, e) \in Seq(T) /\ <<e>> \in Seq(T)
    BY ConcatProperties
  <2>2. s \o Append(u, e) = Append(s \o u, e)
    <3>1. Append(u, e) = u \o <<e>> /\ Append(s \o u, e) = (s \o u) \o <<e>>
      BY <2>1, AppendIsConcat
    <3> QED
      BY <2>1, <3>1, ConcatAssociative
  <2>3. Keep(Append(s \o u, e), S)
          = IF e \in S THEN Append(Keep(s \o u, S), e) ELSE Keep(s \o u, S)
    <3> DEFINE v == s \o u
    <3>1. v \in Seq(T)
      BY <2>1
    <3> HIDE DEF v, P
    <3>2. Keep(Append(v, e), S) = IF e \in S THEN Append(Keep(v, S), e) ELSE Keep(v, S)
      BY <3>1, KeepMore
    <3> QED
      BY <3>2 DEF v
  <2>4. /\ Keep(Append(u, e), S) = IF e \in S THEN Append(Keep(u, S), e) ELSE Keep(u, S)
        /\ Keep(u, S) \in Seq(T)
    <3> HIDE DEF P
    <3> QED
      BY KeepMore
  <2>5. Append(Keep(s, S) \o Keep(u, S), e) = Keep(s, S) \o Append(Keep(u, S), e)
    <3>1. Keep(s, S) \o Keep(u, S) \in Seq(T)
      BY <1>1, <2>4, ConcatProperties
    <3>2. /\ Append(Keep(s, S) \o Keep(u, S), e) = (Keep(s, S) \o Keep(u, S)) \o <<e>>
          /\ Append(Keep(u, S), e) = Keep(u, S) \o <<e>>
      BY <2>4, <3>1, AppendIsConcat
    <3>3. (Keep(s, S) \o Keep(u, S)) \o <<e>> = Keep(s, S) \o (Keep(u, S) \o <<e>>)
      <4> DEFINE v == Keep(s, S)
                 w == Keep(u, S)
      <4>1. v \in Seq(T) /\ w \in Seq(T) /\ <<e>> \in Seq(T)
        BY <1>1, <2>1, <2>4
      <4> HIDE DEF v, w
      <4>2. (v \o w) \o <<e>> = v \o (w \o <<e>>)
        BY ONLY <4>1, ConcatAssociative, SMTT(30)
      <4> QED
        BY <4>2 DEF v, w
    <3> QED
      BY ONLY <3>2, <3>3
  <2>6. Keep(s \o u, S) = Keep(s, S) \o Keep(u, S)
    BY <1>3
  <2> QED
    BY <2>1, <2>2, <2>3, <2>4, <2>5, <2>6
<1>4. \A u \in Seq(T) : u \in P
  <2> HIDE DEF P
  <2> QED
    BY <1>2, <1>3, SeqInduction
<1> QED
  BY <1>4

(* It keeps what is in both, and keeping twice keeps what is in all three. *)
LEMMA KeepIs ==
  ASSUME NEW T, NEW s \in Seq(T), NEW S
  PROVE  /\ Keep(s, S) \in Seq(T)
         /\ ToSet(Keep(s, S)) = ToSet(s) \cap S
         /\ \A S1 : Keep(Keep(s, S), S1) = Keep(s, S \cap S1)
<1> DEFINE Is(u) == /\ Keep(u, S) \in Seq(T)
                    /\ ToSet(Keep(u, S)) = ToSet(u) \cap S
                    /\ \A S1 : Keep(Keep(u, S), S1) = Keep(u, S \cap S1)
           P == {u \in Seq(T) : Is(u)}
<1>1. << >> \in P
  <2>1. DOMAIN << >> = {} /\ Len(<< >>) = 0 /\ << >> \in Seq(T)
    OBVIOUS
  <2>2. \A S1 : Keep(<< >>, S1) = << >>
    BY <2>1 DEF Keep, FlattenSeq
  <2>3. ToSet(<< >>) = {}
    BY <2>1 DEF ToSet
  <2> QED
    BY <2>1, <2>2, <2>3
<1>2. ASSUME NEW u \in Seq(T), NEW e \in T, u \in P PROVE Append(u, e) \in P
  <2>1. Is(u) /\ Append(u, e) \in Seq(T)
    BY <1>2, AppendProperties
  <2>2. Keep(Append(u, e), S) = IF e \in S THEN Append(Keep(u, S), e) ELSE Keep(u, S)
    BY KeepMore
  <2>3. Keep(Append(u, e), S) \in Seq(T)
    BY <2>1, <2>2, AppendProperties
  <2>4. ToSet(Keep(Append(u, e), S)) = ToSet(Append(u, e)) \cap S
    <3>1. ToSet(Append(u, e)) = ToSet(u) \cup {e}
      BY ToSetMore
    <3>2. ToSet(Append(Keep(u, S), e)) = ToSet(Keep(u, S)) \cup {e}
      BY <2>1, ToSetMore
    <3> QED
      BY <2>1, <2>2, <3>1, <3>2
  <2>5. ASSUME NEW S1
        PROVE  Keep(Keep(Append(u, e), S), S1) = Keep(Append(u, e), S \cap S1)
    <3>1. Keep(Append(u, e), S \cap S1)
            = IF e \in S \cap S1 THEN Append(Keep(u, S \cap S1), e) ELSE Keep(u, S \cap S1)
      <4> DEFINE R == S \cap S1
      <4> HIDE DEF R, P
      <4>1. Keep(Append(u, e), R) = IF e \in R THEN Append(Keep(u, R), e) ELSE Keep(u, R)
        BY KeepMore
      <4> QED
        BY <4>1 DEF R
    <3>2. Keep(Append(Keep(u, S), e), S1)
            = IF e \in S1 THEN Append(Keep(Keep(u, S), S1), e) ELSE Keep(Keep(u, S), S1)
      <4>1. Keep(u, S) \in Seq(T)
        BY <2>1
      <4> QED
        <5> DEFINE v == Keep(u, S)
        <5>1. v \in Seq(T)
          BY <4>1
        <5> HIDE DEF v, P
        <5>2. Keep(Append(v, e), S1) = IF e \in S1 THEN Append(Keep(v, S1), e) ELSE Keep(v, S1)
          BY <5>1, KeepMore
        <5> QED
          BY <5>2 DEF v
    <3>3. Keep(Keep(u, S), S1) = Keep(u, S \cap S1)
      BY <2>1
    <3> QED
      <4>1. CASE e \in S /\ e \in S1
        BY ONLY <2>2, <3>1, <3>2, <3>3, <4>1
      <4>2. CASE e \in S /\ e \notin S1
        BY ONLY <2>2, <3>1, <3>2, <3>3, <4>2
      <4>3. CASE e \notin S
        BY ONLY <2>2, <3>1, <3>3, <4>3
      <4> QED
        BY <4>1, <4>2, <4>3
  <2> HIDE DEF Is
  <2>6. Is(Append(u, e))
    BY <2>3, <2>4, <2>5 DEF Is
  <2> QED
    BY <2>1, <2>6
<1>3. \A u \in Seq(T) : u \in P
  <2> HIDE DEF P
  <2> QED
    BY <1>1, <1>2, SeqInduction
<1> QED
  BY <1>3

(* Sets that differ in nothing of a sequence keep the same of it; *)
(* one that has all of it keeps all.                              *)
LEMMA KeepSame ==
  ASSUME NEW T, NEW s \in Seq(T), NEW S
  PROVE  /\ \A S1 : ToSet(s) \cap S = ToSet(s) \cap S1 => Keep(s, S) = Keep(s, S1)
         /\ ToSet(s) \subseteq S => Keep(s, S) = s
         /\ ToSet(s) \cap S = {} => Keep(s, S) = << >>
<1>1. ASSUME NEW S0, NEW S1, ToSet(s) \cap S0 = ToSet(s) \cap S1
      PROVE  Keep(s, S0) = Keep(s, S1)
  <2>1. \A m \in DOMAIN s : s[m] \in S0 <=> s[m] \in S1
    BY <1>1 DEF ToSet
  <2>2. [m \in DOMAIN s |-> IF s[m] \in S0 THEN <<s[m]>> ELSE << >>]
          = [m \in DOMAIN s |-> IF s[m] \in S1 THEN <<s[m]>> ELSE << >>]
    BY <2>1
  <2> QED
    BY <2>2, Zenon DEF Keep
<1> DEFINE P == {u \in Seq(T) : Keep(u, T) = u /\ Keep(u, {}) = << >>}
<1>2. << >> \in P
  <2>1. DOMAIN << >> = {} /\ Len(<< >>) = 0 /\ << >> \in Seq(T)
    OBVIOUS
  <2>2. \A S1 : Keep(<< >>, S1) = << >>
    BY <2>1 DEF Keep, FlattenSeq
  <2> QED
    BY <2>1, <2>2
<1>3. ASSUME NEW u \in Seq(T), NEW e \in T, u \in P PROVE Append(u, e) \in P
  <2>1. Keep(Append(u, e), T) = Append(Keep(u, T), e) /\ Keep(Append(u, e), {}) = Keep(u, {})
    BY KeepMore
  <2>2. Append(u, e) \in Seq(T)
    BY AppendProperties
  <2> QED
    BY <1>3, <2>1, <2>2
<1>4. \A u \in Seq(T) : u \in P
  <2> HIDE DEF P
  <2> QED
    BY <1>2, <1>3, SeqInduction
<1>5. Keep(s, T) = s /\ Keep(s, {}) = << >>
  BY <1>4
<1>6. ToSet(s) \subseteq T
  BY ElementOfSeq, LenProperties DEF ToSet
<1>7. ASSUME ToSet(s) \subseteq S PROVE Keep(s, S) = s
  <2>1. ToSet(s) \cap S = ToSet(s) \cap T
    BY <1>6, <1>7
  <2>2. Keep(s, S) = Keep(s, T)
    BY <1>1, <2>1, Zenon
  <2> QED
    BY <1>5, <2>2
<1>8. ASSUME ToSet(s) \cap S = {} PROVE Keep(s, S) = << >>
  <2>1. ToSet(s) \cap S = ToSet(s) \cap {}
    BY <1>8
  <2>2. Keep(s, S) = Keep(s, {})
    BY <1>1, <2>1, Zenon
  <2> QED
    BY <1>5, <2>2
<1> QED
  BY <1>1, <1>7, <1>8, Zenon
--------------------------------------------------------------------------------
(* The kinds of items. *)
OfKind(kinds) == {i \in Item : i.k \in kinds}

(* Only and Without keep the kinds they name. *)
LEMMA OnlyIs ==
  ASSUME NEW s \in Seq(Item), NEW kinds
  PROVE  /\ Only(s, kinds) = Keep(s, OfKind(kinds))
         /\ Without(s, kinds) = Keep(s, OfKind(Kinds \ kinds))
<1>1. ToSet(s) \subseteq Item
  BY ElementOfSeq, LenProperties DEF ToSet
<1>2. ASSUME NEW ks PROVE Only(s, ks) = Keep(s, OfKind(ks))
  <2>1. ToSet(s) \cap {i \in ToSet(s) : i.k \in ks} = ToSet(s) \cap OfKind(ks)
    BY <1>1 DEF OfKind
  <2>2. Keep(s, {i \in ToSet(s) : i.k \in ks}) = Keep(s, OfKind(ks))
    BY <2>1, KeepSame
  <2> QED
    BY <2>2 DEF Only
<1> QED
  BY <1>2 DEF Without
--------------------------------------------------------------------------------
(* Turn boundaries. *)
TurnStarts == OfKind({"user", "summary"})
Count(s) == Cardinality(Boundaries(s))

(* One item more is one boundary more, or none. *)
LEMMA CountMore ==
  \A s \in Seq(Item) :
      /\ Boundaries(<< >>) = {} /\ Count(<< >>) = 0
      /\ Boundaries(s) \subseteq 1 .. Len(s) /\ IsFiniteSet(Boundaries(s)) /\ Count(s) \in Nat
      /\ \A e \in Item : e \in TurnStarts => Count(Append(s, e)) = Count(s) + 1
      /\ \A e \in Item : e \notin TurnStarts => Count(Append(s, e)) = Count(s)
<1>0. SUFFICES ASSUME NEW s \in Seq(Item)
               PROVE  /\ Boundaries(<< >>) = {} /\ Count(<< >>) = 0
                      /\ Boundaries(s) \subseteq 1 .. Len(s)
                      /\ IsFiniteSet(Boundaries(s)) /\ Count(s) \in Nat
                      /\ \A e \in Item : Count(Append(s, e))
                           = IF e \in TurnStarts THEN Count(s) + 1 ELSE Count(s)
  OBVIOUS
<1>1. DOMAIN << >> = {}
  OBVIOUS
<1>2. Boundaries(<< >>) = {} /\ Count(<< >>) = 0
  BY <1>1, FS_EmptySet DEF Boundaries, Count
<1>3. DOMAIN s = 1 .. Len(s) /\ Len(s) \in Nat /\ \A m \in 1 .. Len(s) : s[m] \in Item
  BY LenProperties, ElementOfSeq
<1>4. Boundaries(s) \subseteq 1 .. Len(s)
  BY <1>3 DEF Boundaries
<1>5. IsFiniteSet(Boundaries(s)) /\ Count(s) \in Nat
  <2>1. IsFiniteSet(1 .. Len(s))
    BY <1>3, FS_Interval
  <2> QED
    BY <1>4, <2>1, FS_Subset, FS_CardinalityType DEF Count
<1>6. ASSUME NEW e \in Item
      PROVE  Count(Append(s, e)) = IF e \in TurnStarts THEN Count(s) + 1 ELSE Count(s)
  <2>1. /\ DOMAIN Append(s, e) = 1 .. Len(s) + 1
        /\ \A i \in 1 .. Len(s) : Append(s, e)[i] = s[i]
        /\ Append(s, e)[Len(s) + 1] = e
    BY AppendProperties, LenProperties
  <2>2. Boundaries(Append(s, e))
          = IF e \in TurnStarts THEN Boundaries(s) \cup {Len(s) + 1} ELSE Boundaries(s)
    <3>1. ASSUME NEW i \in 1 .. Len(s)
          PROVE  i \in Boundaries(Append(s, e)) <=> i \in Boundaries(s)
      BY <1>3, <2>1 DEF Boundaries
    <3>2. Len(s) + 1 \in Boundaries(Append(s, e)) <=> e \in TurnStarts
      BY <1>3, <2>1 DEF Boundaries, TurnStarts, OfKind
    <3>3. Boundaries(Append(s, e)) \subseteq 1 .. Len(s) + 1
      BY <2>1 DEF Boundaries
    <3>4. \A i \in 1 .. Len(s) + 1 : i \in 1 .. Len(s) \/ i = Len(s) + 1
      BY <1>3
    <3> QED
      BY <1>4, <3>1, <3>2, <3>3, <3>4
  <2>3. Len(s) + 1 \notin Boundaries(s)
    BY <1>3, <1>4
  <2> QED
    BY <1>5, <2>2, <2>3, FS_AddElement DEF Count
<1> QED
  BY <1>2, <1>4, <1>5, <1>6

(* The boundaries of what is put together, and of what is kept, *)
(* if no boundary is dropped.                                   *)
LEMMA CountConcat ==
  ASSUME NEW s \in Seq(Item), NEW t \in Seq(Item)
  PROVE  Count(s \o t) = Count(s) + Count(t)
<1> DEFINE P == {u \in Seq(Item) : Count(s \o u) = Count(s) + Count(u)}
<1>1. << >> \in P
  <2>1. s \o << >> = s /\ << >> \in Seq(Item)
    BY ConcatEmptySeq
  <2> QED
    BY <2>1, CountMore
<1>2. ASSUME NEW u \in Seq(Item), NEW e \in Item, u \in P PROVE Append(u, e) \in P
  <2> DEFINE v == s \o u
  <2>1. v \in Seq(Item) /\ Append(u, e) \in Seq(Item)
    OBVIOUS
  <2>2. s \o Append(u, e) = Append(v, e)
    BY <2>1
  <2>3. Count(v) = Count(s) + Count(u)
    BY <1>2
  <2> HIDE DEF v, P
  <2>4. e \in TurnStarts => Count(Append(v, e)) = Count(v) + 1 /\ Count(Append(u, e)) = Count(u) + 1
    BY <2>1, CountMore
  <2>5. e \notin TurnStarts => Count(Append(v, e)) = Count(v) /\ Count(Append(u, e)) = Count(u)
    BY <2>1, CountMore
  <2>6. Count(s) \in Nat /\ Count(u) \in Nat
    BY CountMore
  <2>7. Count(Append(v, e)) = Count(s) + Count(Append(u, e))
    BY <2>3, <2>4, <2>5, <2>6
  <2> QED
    BY <2>1, <2>2, <2>7 DEF P
<1>3. \A u \in Seq(Item) : u \in P
  <2> HIDE DEF P
  <2> QED
    BY <1>1, <1>2, SeqInduction
<1> QED
  BY <1>3

LEMMA CountKeep ==
  ASSUME NEW s \in Seq(Item), NEW S, TurnStarts \subseteq S
  PROVE  Count(Keep(s, S)) = Count(s)
<1> DEFINE P == {u \in Seq(Item) : Count(Keep(u, S)) = Count(u)}
<1>1. << >> \in P
  <2>1. << >> \in Seq(Item)
    OBVIOUS
  <2>2. Keep(<< >>, S) = << >>
    BY <2>1, KeepMore
  <2> QED
    BY <2>1, <2>2
<1>2. ASSUME NEW u \in Seq(Item), NEW e \in Item, u \in P PROVE Append(u, e) \in P
  <2> DEFINE v == Keep(u, S)
  <2>1. v \in Seq(Item) /\ Append(u, e) \in Seq(Item)
    BY KeepMore
  <2>2. Count(v) = Count(u)
    BY <1>2
  <2>3. Keep(Append(u, e), S) = IF e \in S THEN Append(v, e) ELSE v
    <3> HIDE DEF P
    <3> QED
      BY KeepMore
  <2> HIDE DEF v, P
  <2>4. e \in TurnStarts => Count(Append(v, e)) = Count(v) + 1 /\ Count(Append(u, e)) = Count(u) + 1
    BY <2>1, CountMore
  <2>5. e \notin TurnStarts => Count(Append(v, e)) = Count(v) /\ Count(Append(u, e)) = Count(u)
    BY <2>1, CountMore
  <2>6. Count(Keep(Append(u, e), S)) = Count(Append(u, e))
    BY <2>2, <2>3, <2>4, <2>5
  <2> QED
    BY <2>1, <2>6 DEF P
<1>3. \A u \in Seq(Item) : u \in P
  <2> HIDE DEF P
  <2> QED
    BY <1>1, <1>2, SeqInduction
<1> QED
  BY <1>3

(* A sequence cut before one of its boundaries. *)
Cut(s, p) == \E q \in Seq(Item), x \in TurnStarts : s = Append(p, x) \o q

(* Every boundary is one to cut at, and has its number of those before it. *)
LEMMA Split ==
  ASSUME NEW s \in Seq(Item), NEW m \in Nat, m < Count(s)
  PROVE  \E p \in Seq(Item) : Cut(s, p) /\ Count(p) = m
<1> DEFINE Div(u) == \E p \in Seq(Item), q \in Seq(Item), x \in TurnStarts :
                         u = Append(p, x) \o q /\ Count(p) = m
           P == {u \in Seq(Item) : m < Count(u) => Div(u)}
<1>1. << >> \in P
  BY CountMore
<1>2. ASSUME NEW u \in Seq(Item), NEW e \in Item, u \in P PROVE Append(u, e) \in P
  <2>0. Append(u, e) \in Seq(Item)
    OBVIOUS
  <2>1. SUFFICES ASSUME m < Count(Append(u, e)) PROVE Div(Append(u, e))
    <3> HIDE DEF Div
    <3> QED
      BY <2>0
  <2>2. /\ Count(u) \in Nat
        /\ e \in TurnStarts => Count(Append(u, e)) = Count(u) + 1
        /\ e \notin TurnStarts => Count(Append(u, e)) = Count(u)
    <3> HIDE DEF P, Div
    <3> QED
      BY CountMore
  <2>3. CASE m < Count(u)
    <3>1. Div(u)
      BY <1>2, <2>3
    <3>2. PICK p \in Seq(Item), q \in Seq(Item), x \in TurnStarts :
              u = Append(p, x) \o q /\ Count(p) = m
      BY <3>1
    <3>3. Append(q, e) \in Seq(Item) /\ Append(p, x) \in Seq(Item)
      <4>1. x \in Item
        BY <3>2 DEF TurnStarts, OfKind
      <4> QED
        BY <3>2, <4>1
    <3>4. Append(u, e) = Append(p, x) \o Append(q, e)
      <4> DEFINE v == Append(p, x)
      <4>1. v \in Seq(Item) /\ u = v \o q
        BY <3>2, <3>3
      <4> HIDE DEF v, P, Div
      <4>2. Append(v \o q, e) = v \o Append(q, e)
        BY ONLY <4>1, q \in Seq(Item), e \in Item, SMTT(30)
      <4> QED
        BY <4>1, <4>2 DEF v
    <3> QED
      BY <3>2, <3>3, <3>4
  <2>4. CASE ~ (m < Count(u))
    <3>1. e \in TurnStarts /\ Count(u) = m
      <4> HIDE DEF Div, P
      <4> QED
        BY <2>1, <2>2, <2>4
    <3>2. Append(u, e) = Append(u, e) \o << >> /\ << >> \in Seq(Item)
      OBVIOUS
    <3> QED
      BY <3>1, <3>2
  <2> QED
    BY <2>3, <2>4
<1>3. \A u \in Seq(Item) : u \in P
  <2> HIDE DEF P
  <2> QED
    BY <1>1, <1>2, SeqInduction
<1> QED
  BY <1>3 DEF Cut

(* Where a sequence is cut is where its boundary of that number is. *)
LEMMA SplitAt ==
  ASSUME NEW p \in Seq(Item), NEW s, Cut(s, p)
  PROVE  /\ s \in Seq(Item)
         /\ NthBoundary(s, Count(p)) = Len(p) + 1
         /\ NthBoundary(s, Count(p)) \in DOMAIN s
         /\ SubSeq(s, 1, Len(p)) = p
         /\ Count(p) < Count(s)
<1> DEFINE b == Len(p) + 1
           Before(c) == {d \in Boundaries(s) : d < c}
<1>0. PICK q \in Seq(Item), x \in TurnStarts : s = Append(p, x) \o q
  BY DEF Cut
<1>1. x \in Item /\ x.k \in {"user", "summary"}
  BY <1>0 DEF TurnStarts, OfKind
<1>2. /\ Append(p, x) \in Seq(Item) /\ Len(Append(p, x)) = b /\ Len(p) \in Nat
      /\ \A i \in 1 .. Len(p) : Append(p, x)[i] = p[i]
      /\ Append(p, x)[b] = x
  BY <1>1, AppendProperties, LenProperties
<1>3. s \in Seq(Item) /\ Len(s) = b + Len(q) /\ Len(q) \in Nat
  BY <1>0, <1>2, ConcatProperties, LenProperties
<1>4. \A i \in 1 .. b : s[i] = Append(p, x)[i]
  BY <1>0, <1>2, <1>3, ConcatProperties
<1>5. DOMAIN s = 1 .. b + Len(q) /\ DOMAIN p = 1 .. Len(p)
  BY <1>3, LenProperties
<1>6. b \in Boundaries(s) /\ b \in DOMAIN s
  BY <1>1, <1>2, <1>3, <1>4, <1>5 DEF Boundaries
<1>7. Before(b) = Boundaries(p)
  <2>1. ASSUME NEW d \in 1 .. Len(p) PROVE d \in Boundaries(s) <=> d \in Boundaries(p)
    <3>1. d \in DOMAIN s /\ d \in DOMAIN p /\ d \in 1 .. b
      BY <1>2, <1>3, <1>5
    <3>2. s[d] = p[d]
      BY <1>2, <1>4, <3>1
    <3> QED
      BY <3>1, <3>2 DEF Boundaries
  <2>2. Boundaries(p) \subseteq 1 .. Len(p) /\ Boundaries(s) \subseteq Nat \ {0}
    BY <1>5 DEF Boundaries
  <2>3. \A d \in Nat \ {0} : d < b <=> d \in 1 .. Len(p)
    BY <1>2
  <2> HIDE DEF b
  <2> QED
    BY <2>1, <2>2, <2>3
<1>8. IsFiniteSet(Boundaries(s)) /\ Boundaries(s) \subseteq Nat
  <2>1. IsFiniteSet(Boundaries(s)) /\ Boundaries(s) \subseteq 1 .. Len(s)
    BY <1>3, CountMore
  <2> QED
    BY <1>2, <1>3, <2>1
<1>9. ASSUME NEW c \in Boundaries(s), Cardinality(Before(c)) = Count(p) PROVE c = b
  <2>1. IsFiniteSet(Before(c)) /\ IsFiniteSet(Before(b))
    BY <1>8, FS_Subset
  <2>2. Cardinality(Before(c)) = Cardinality(Before(b))
    BY <1>7, <1>9 DEF Count
  <2>3. c \in Nat /\ b \in Nat
    BY <1>2, <1>8
  <2>4. CASE c < b
    <3>1. Before(c) \subseteq Before(b) /\ c \in Before(b) /\ c \notin Before(c)
      BY <1>8, <2>3, <2>4
    <3>2. Before(c) = Before(b)
      BY <2>1, <2>2, <3>1, FS_Subset
    <3> QED
      BY <3>1, <3>2
  <2>5. CASE b < c
    <3>1. Before(b) \subseteq Before(c) /\ b \in Before(c) /\ b \notin Before(b)
      BY <1>6, <1>8, <2>3, <2>5
    <3>2. Before(c) = Before(b)
      BY <2>1, <2>2, <3>1, FS_Subset
    <3> QED
      BY <3>1, <3>2
  <2> QED
    BY <2>3, <2>4, <2>5
<1>10. NthBoundary(s, Count(p)) = b
  <2>1. Cardinality(Before(b)) = Count(p)
    BY <1>7 DEF Count
  <2> QED
    BY <1>6, <1>9, <2>1 DEF NthBoundary
<1>11. SubSeq(s, 1, Len(p)) = p
  <2>1. \A i \in 1 .. Len(p) : s[i] = p[i] /\ s[i] \in Item
    BY <1>2, <1>4, ElementOfSeq
  <2>2. /\ SubSeq(s, 1, Len(p)) \in Seq(Item)
        /\ Len(SubSeq(s, 1, Len(p))) = Len(p)
        /\ \A i \in 1 .. Len(p) : SubSeq(s, 1, Len(p))[i] = s[i]
    <3>1. 1 \in Int /\ Len(p) \in Int /\ (1 <= Len(p) => Len(p) - 1 + 1 = Len(p))
          /\ (~ (1 <= Len(p)) => Len(p) = 0)
      BY <1>2
    <3>2. /\ SubSeq(s, 1, Len(p)) \in Seq(Item)
          /\ Len(SubSeq(s, 1, Len(p))) = IF 1 <= Len(p) THEN Len(p) - 1 + 1 ELSE 0
          /\ \A i \in 1 .. Len(p) - 1 + 1 : SubSeq(s, 1, Len(p))[i] = s[1 + i - 1]
      BY <2>1, <3>1, SubSeqProperties
    <3> QED
      BY <3>1, <3>2
  <2> QED
    BY <2>1, <2>2, SeqEqual
<1>12. Count(p) < Count(s)
  <2>1. Count(p) \in Nat /\ Count(q) \in Nat /\ Count(Append(p, x)) = Count(p) + 1
    BY <1>0, <1>1, CountMore
  <2>2. Count(s) = Count(Append(p, x)) + Count(q)
    BY <1>0, <1>2, CountConcat
  <2> QED
    BY <2>1, <2>2
<1> QED
  BY <1>3, <1>6, <1>10, <1>11, <1>12

(* A rollback cuts at a boundary; ... *)
Kept(s, n) == IF n < Count(s) THEN Count(s) - n ELSE 0

LEMMA DropIs ==
  ASSUME NEW p \in Seq(Item), NEW n \in Nat \ {0}, NEW s, Cut(s, p), Count(p) = Kept(s, n)
  PROVE  DropLastTurns(s, n) = p
<1>1. /\ NthBoundary(s, Count(p)) = Len(p) + 1 /\ SubSeq(s, 1, Len(p)) = p
      /\ Count(p) < Count(s) /\ s \in Seq(Item)
  BY SplitAt
<1>2. Len(p) \in Nat /\ Count(p) \in Nat /\ Count(s) \in Nat
  BY <1>1, CountMore, LenProperties
<1>3. Count(s) # 0 /\ n # 0
  BY <1>1, <1>2
<1>4. SubSeq(s, 1, NthBoundary(s, Kept(s, n)) - 1) = p
  <2>1. NthBoundary(s, Kept(s, n)) - 1 = Len(p)
    BY <1>1, <1>2
  <2> QED
    BY <1>1, <2>1
<1> QED
  BY <1>3, <1>4 DEF DropLastTurns, Kept, Count

LEMMA DropTurns ==
  ASSUME NEW s \in Seq(Item), NEW n \in Nat
  PROVE  \/ (n = 0 \/ Count(s) = 0) /\ DropLastTurns(s, n) = s
         \/ /\ n # 0
            /\ \E p \in Seq(Item) : Cut(s, p) /\ Count(p) = Kept(s, n) /\ DropLastTurns(s, n) = p
<1>1. Count(s) \in Nat
  BY CountMore
<1>2. CASE n = 0 \/ Count(s) = 0
  BY <1>2 DEF DropLastTurns, Count
<1>3. CASE n # 0 /\ Count(s) # 0
  <2>1. Kept(s, n) \in Nat /\ Kept(s, n) < Count(s)
    BY <1>1, <1>3 DEF Kept
  <2>2. PICK p \in Seq(Item) : Cut(s, p) /\ Count(p) = Kept(s, n)
    BY <2>1, Split
  <2>3. DropLastTurns(s, n) = p
    BY <1>3, <2>2, DropIs
  <2> QED
    BY <1>3, <2>2, <2>3
<1> QED
  BY <1>2, <1>3

LEMMA DropType ==
  \A s \in Seq(Item) : \A n \in Nat : DropLastTurns(s, n) \in Seq(Item)
BY DropTurns

(* ... it makes no difference whether other items were dropped before. *)
LEMMA DropKeeps ==
  ASSUME NEW s \in Seq(Item), NEW n \in Nat, NEW S, TurnStarts \subseteq S
  PROVE  /\ DropLastTurns(s, n) \in Seq(Item)
         /\ DropLastTurns(Keep(s, S), n) = Keep(DropLastTurns(s, n), S)
<1>1. /\ Keep(s, S) \in Seq(Item) /\ Count(Keep(s, S)) = Count(s)
  BY CountKeep, KeepMore
<1>2. CASE (n = 0 \/ Count(s) = 0) /\ DropLastTurns(s, n) = s
  BY <1>1, <1>2 DEF DropLastTurns, Count
<1>3. ASSUME NEW p \in Seq(Item), n # 0, Cut(s, p), Count(p) = Kept(s, n)
      PROVE  DropLastTurns(Keep(s, S), n) = Keep(p, S)
  <2> DEFINE pk == Keep(p, S)
             sk == Keep(s, S)
  <2>1. PICK q \in Seq(Item), x \in TurnStarts : s = Append(p, x) \o q
    BY <1>3 DEF Cut
  <2> DEFINE qk == Keep(q, S)
             v == Append(p, x)
  <2>2. x \in Item /\ x \in S
    BY <2>1 DEF TurnStarts, OfKind
  <2>3. /\ pk \in Seq(Item) /\ qk \in Seq(Item) /\ sk \in Seq(Item)
        /\ Keep(v, S) = Append(pk, x) /\ v \in Seq(Item)
    BY <2>2, KeepMore
  <2>4. s = v \o q /\ q \in Seq(Item)
    BY <2>1
  <2>5. Count(pk) = Count(p) /\ Count(pk) = Kept(sk, n)
    BY <1>1, <1>3, CountKeep DEF Kept
  <2> HIDE DEF v
  <2>6. Keep(v \o q, S) = Keep(v, S) \o Keep(q, S)
    <3>1. v \in Seq(Item)
      BY <2>3
    <3> QED
      BY <3>1, KeepConcat, Zenon
  <2>7. sk = Append(pk, x) \o qk
    BY <2>3, <2>4, <2>6
  <2> HIDE DEF pk, qk, sk
  <2>8. Cut(sk, pk)
    BY <2>1, <2>3, <2>7 DEF Cut
  <2>9. DropLastTurns(sk, n) = pk
    BY <1>3, <2>3, <2>5, <2>8, DropIs
  <2> QED
    BY <2>9 DEF pk, sk
<1>4. DropLastTurns(s, n) \in Seq(Item)
  BY DropTurns
<1>5. CASE n # 0 /\ \E p \in Seq(Item) : Cut(s, p) /\ Count(p) = Kept(s, n) /\ DropLastTurns(s, n) = p
  BY <1>3, <1>4, <1>5
<1>6. CASE (n = 0 \/ Count(s) = 0) /\ DropLastTurns(s, n) = s
  BY <1>2, <1>4, <1>6
<1> QED
  BY <1>5, <1>6, DropTurns
--------------------------------------------------------------------------------
(* The last of the items that pass a test, and parts of a sequence. *)

(* A set of numbers with a bound has a greatest one. *)
LEMMA MaxOf ==
  ASSUME NEW N \in Nat, NEW S \in SUBSET (1 .. N), S # {}
  PROVE  Max(S) \in S /\ \A m \in S : m <= Max(S)
<1> DEFINE T == {N - m : m \in S}
<1>0. \A m \in S : m \in 1 .. N
  OBVIOUS
<1>1. T \subseteq Nat /\ T # {}
  BY <1>0
<1>2. PICK t \in T : \A u \in T : t <= u
  BY <1>1, LeastOf
<1>3. PICK m \in S : t = N - m
  BY <1>2
<1>4. ASSUME NEW k \in S PROVE k <= m
  <2>1. N - k \in T /\ t <= N - k
    BY <1>2
  <2> QED
    BY <1>0, <1>3, <2>1
<1>5. \E k \in S : \A l \in S : k >= l
  BY <1>0, <1>3, <1>4
<1>6. Max(S) \in S /\ \A l \in S : Max(S) >= l
  <2>1. Max(S) = CHOOSE k \in S : \A l \in S : k >= l
    BY DEF Max
  <2> QED
    BY <1>5, <2>1
<1> QED
  BY <1>0, <1>6

(* The last item of a kind, or 0. *)
LEMMA LastOfKind ==
  ASSUME NEW s \in Seq(Item)
  PROVE  /\ LET j == SelectLastInSeq(s, LAMBDA i : i.k = "ghost")
            IN  j \in 0 .. Len(s) /\ (j # 0 => s[j].k = "ghost")
         /\ LET j == SelectLastInSeq(s, LAMBDA i : i.k \in {"user", "summary"})
            IN  j \in 0 .. Len(s)
         /\ LET j == SelectLastInSeq(s, LAMBDA i : i.k = "call")
            IN  /\ j \in 0 .. Len(s)
                /\ \A m \in 1 .. Len(s) : s[m].k = "call" => j # 0 /\ s[j].k = "call" /\ m <= j
<1>1. Len(s) \in Nat
  BY LenProperties
<1>2. ASSUME NEW I \in SUBSET (1 .. Len(s)), I # {}
      PROVE  Max(I) \in 1 .. Len(s) /\ Max(I) \in I /\ \A m \in I : m <= Max(I)
  BY <1>1, <1>2, MaxOf
<1>3. LET j == SelectLastInSeq(s, LAMBDA i : i.k = "ghost")
      IN  j \in 0 .. Len(s) /\ (j # 0 => s[j].k = "ghost")
  <2> DEFINE I == {i \in 1 .. Len(s) : s[i].k = "ghost"}
  <2>1. SelectLastInSeq(s, LAMBDA i : i.k = "ghost") = IF I # {} THEN Max(I) ELSE 0
    BY DEF SelectLastInSeq
  <2>2. I \in SUBSET (1 .. Len(s)) /\ \A i \in I : s[i].k = "ghost"
    OBVIOUS
  <2> HIDE DEF I
  <2> QED
    BY <1>1, <1>2, <2>1, <2>2
<1>4. LET j == SelectLastInSeq(s, LAMBDA i : i.k \in {"user", "summary"})
      IN  j \in 0 .. Len(s)
  <2> DEFINE I == {i \in 1 .. Len(s) : s[i].k \in {"user", "summary"}}
  <2>1. SelectLastInSeq(s, LAMBDA i : i.k \in {"user", "summary"}) = IF I # {} THEN Max(I) ELSE 0
    BY DEF SelectLastInSeq
  <2>2. I \in SUBSET (1 .. Len(s))
    OBVIOUS
  <2> HIDE DEF I
  <2> QED
    BY <1>1, <1>2, <2>1, <2>2
<1>5. LET j == SelectLastInSeq(s, LAMBDA i : i.k = "call")
      IN  /\ j \in 0 .. Len(s)
          /\ \A m \in 1 .. Len(s) : s[m].k = "call" => j # 0 /\ s[j].k = "call" /\ m <= j
  <2> DEFINE I == {i \in 1 .. Len(s) : s[i].k = "call"}
  <2>1. SelectLastInSeq(s, LAMBDA i : i.k = "call") = IF I # {} THEN Max(I) ELSE 0
    BY DEF SelectLastInSeq
  <2>2. /\ I \in SUBSET (1 .. Len(s)) /\ \A i \in I : s[i].k = "call"
        /\ \A m \in 1 .. Len(s) : s[m].k = "call" => m \in I
    OBVIOUS
  <2> HIDE DEF I
  <2> QED
    BY <1>1, <1>2, <2>1, <2>2
<1> QED
  BY <1>3, <1>4, <1>5

(* A part of a sequence, and a sequence taken apart around an element. *)
LEMMA Piece ==
  \A T : \A s \in Seq(T) : \A a \in Nat \ {0} : \A b \in Int :
      b <= Len(s) => SubSeq(s, a, b) \in Seq(T)
<1> SUFFICES ASSUME NEW T, NEW s \in Seq(T), NEW a \in Nat \ {0}, NEW b \in Int, b <= Len(s)
             PROVE  SubSeq(s, a, b) \in Seq(T)
  OBVIOUS
<1>1. \A i \in a .. b : s[i] \in T
  BY ElementOfSeq, LenProperties
<1> QED
  BY <1>1, SubSeqProperties

LEMMA TakeApart ==
  ASSUME NEW T, NEW s \in Seq(T), NEW j \in 1 .. Len(s)
  PROVE  /\ SubSeq(s, 1, j - 1) \in Seq(T) /\ SubSeq(s, j + 1, Len(s)) \in Seq(T)
         /\ s = (SubSeq(s, 1, j - 1) \o <<s[j]>>) \o SubSeq(s, j + 1, Len(s))
<1>1. Len(s) \in Nat
  BY LenProperties
<1>2. SubSeq(s, 1, j - 1) \in Seq(T) /\ SubSeq(s, j + 1, Len(s)) \in Seq(T)
  BY <1>1, Piece
<1>3. SubSeq(s, 1, j) = SubSeq(s, 1, j - 1) \o <<s[j]>>
  BY <1>1, SubSeqRecursiveSecond
<1>4. SubSeq(s, 1, j) \o SubSeq(s, j + 1, Len(s)) = SubSeq(s, 1, Len(s))
  <2>1. 1 \in 1 .. Len(s) + 1 /\ j \in 1 - 1 .. Len(s) /\ Len(s) \in j .. Len(s)
    BY <1>1
  <2> QED
    BY <2>1, ConcatAdjacentSubSeq
<1>5. SubSeq(s, 1, Len(s)) = s
  BY SubSeqFull
<1> QED
  BY <1>2, <1>3, <1>4, <1>5
--------------------------------------------------------------------------------
(* The inductive invariant. *)

(* What each actor can have to hand over. *)
Spoken == OfKind(Kinds \ {"call", "output"})
Waits == {User(n) : n \in Nat} \cup {Aside}
Queues(a) ==
    {<< >>} \cup
    CASE a = "loop" -> {<<Entry(Context)>>, <<Entry(Unasked)>>, <<Entry(Aside)>>}
                         \cup {<<RolledBack(n)>> : n \in 1 .. 2}
      [] a = "left" -> {<<Entry(i)>> : i \in Waits}
      [] a = "aside" -> {<<Entry(Aside)>>}
      [] a = "ghost" -> {<<Entry(i)>> : i \in OfKind({"ghost"})}
      [] a = "task" -> {<<Entry(User(n)), UserEvent(n)>> : n \in Nat}
                         \cup {<<UserEvent(n)>> : n \in Nat}
                         \cup {<<Entry(Unasked)>>, <<Entry(Aside)>>}
                         \cup {<<Entry(i)>> : i \in OfKind({"agent", "call", "output"})}
                         \cup {<<Compacted>>} \cup {<<CompactedTo(s)>> : s \in Seq(Spoken)}

Turns == [kind : {"none", "regular", "compact", "undo", "review"},
          pc : {"none", "start", "prompted", "top", "called", "answered", "said", "local",
                "compacting", "remote", "restoring", "asked", "done"},
          n : Nat,
          back : {"none", "start", "top", "done"}]

Loops == [pc : {"idle", "spawning", "rolling", "leaving", "marking", "noting"}, n : Nat]
Odds == {"late", "compacted", "torn", "unasked"}
Few(S) == {<< >>} \cup {<<x>> : x \in S}

Types ==
    /\ items \in Seq(Item)
    /\ rollout \in [items : Seq(Item), turns : Seq(Nat), forks : Seq(Seq(Item))]
    /\ DOMAIN unsaved = Actors /\ \A a \in Actors : unsaved[a] \in Queues(a)
    /\ turn \in Turns
    /\ pending \in Few(Waits) /\ left \in Few(Waits)
    /\ loop \in Loops
    /\ ghost \in [n : Nat, cancelled : BOOLEAN]
    /\ copy \in Seq(Item)
    /\ aside \in {"none", "running", "refused"}
    /\ sent \in Nat /\ events \in Nat /\ beside \in Nat
    /\ torn \in BOOLEAN
    /\ late \in SUBSET Nat
    /\ odd \in SUBSET Odds

(* The loop and the task of a turn take turns; each hands over what it has *)
(* before it replaces the items.                                           *)
TakeTurns ==
    /\ turn.kind = "none" => turn = NoTurn
    /\ turn.pc = "none" => turn = NoTurn
    /\ turn = NoTurn => pending = << >> /\ Idle("task")
    /\ turn # NoTurn => loop.pc \in {"idle", "noting"}
    /\ loop.pc = "rolling" => Idle("loop") /\ loop.n \in 1 .. 2
    /\ turn.pc \in {"local", "compacting", "remote", "restoring"} => Idle("task")
    /\ turn.pc \in {"local", "compacting", "remote"} => turn.back # "none"
    /\ left # << >> => Idle("left")
    /\ ~ Idle("left") => "late" \in odd \/ unsaved["left"] = <<Entry(Aside)>>
    /\ turn.pc = "called" => \E m \in 1 .. Len(items) : items[m].k = "call"

(* A turn starts when the loop has handed over what it had; beside the turn it *)
(* hands over notes.                                                           *)
Settled == turn # NoTurn => unsaved["loop"] \in {<< >>, <<Entry(Aside)>>}

Cloning == loop.pc = "rolling" \/ turn.pc \in {"compacting", "remote", "restoring"}

(* A clone in use is the items but for what was recorded beside the turn since. *)
Cloned ==
    Cloning =>
        /\ Len(copy) <= Len(items)
        /\ copy = SubSeq(items, 1, Len(copy))
        /\ \A m \in Len(copy) + 1 .. Len(items) :
              \/ items[m].k \in {"ghost", "aside"}
              \/ items[m].k = "user" /\ items[m].n \in late

(* Without compactions each fork is the rollout cut before its message. *)
Forked ==
    "compacted" \notin odd =>
        /\ \A m \in DOMAIN unsaved["task"] :
               unsaved["task"][m].type \notin {"compacted", "replaced"}
        /\ Len(rollout.forks) = Count(rollout.items)
        /\ \A m \in 1 .. Len(rollout.forks) :
               Cut(rollout.items, rollout.forks[m]) /\ Count(rollout.forks[m]) = m - 1

(* What lasts of the items, and what a resume makes of the entries of a queue. *)
Lasting == OfKind(Kinds \ {"ghost", "draft"})
Seen(s) == Keep(s, Lasting)
Busy == {"loop", "task", "left", "aside"}
After(s, u) ==
    CASE Len(u) = 0 -> s
      [] Len(u) = 1 -> Resumed(s, u[1])
      [] OTHER -> Resumed(Resumed(s, u[1]), u[2])

(* As long as nothing was torn one actor at most has entries to hand over, and *)
(* with them the rollout is the memory.                                        *)
Replayed ==
    ~ torn =>
        /\ \A a, b \in Busy : ~ Idle(a) /\ ~ Idle(b) => a = b
        /\ \A a \in Busy : ~ Idle(a) => Seen(After(rollout.items, unsaved[a])) = Seen(items)
        /\ (\A a \in Busy : Idle(a)) => Seen(rollout.items) = Seen(items)

TurnsAfter(s, u) ==
    CASE Len(u) = 0 -> s
      [] Len(u) = 1 -> ClientTurns(s, u[1])
      [] OTHER -> ClientTurns(ClientTurns(s, u[1]), u[2])
Named(s) == [m \in DOMAIN s |-> s[m].n]
Numbers(s) == Named(Only(s, {"user"}))
Unsummarized(s) == \A m \in 1 .. Len(s) : s[m].k # "summary"

(* The same for the turns of the clients, unless something odd happened. *)
Told ==
    ~ torn /\ odd = {} =>
        /\ Unsummarized(items)
        /\ (\A a \in Busy : Idle(a)) => rollout.turns = Numbers(items)
        /\ \A a \in Busy : ~ Idle(a) => TurnsAfter(rollout.turns, unsaved[a]) = Numbers(items)

Call(n) == [k |-> "call", n |-> n]
Output(n) == [k |-> "output", n |-> n]
Numbered == OfKind({"call", "output"})

(* Calls and outputs are there once, an output behind its call. *)
Coupled(s) ==
    /\ \A m, o \in 1 .. Len(s) : s[m] \in Numbered /\ s[m] = s[o] => m = o
    /\ \A o \in 1 .. Len(s) : s[o].k = "output" => \E m \in 1 .. o - 1 : s[m] = Call(s[o].n)
LastCall(s) == s[SelectLastInSeq(s, LAMBDA i : i.k = "call")]

(* In memory and in the rollout; a call and its output are handed over in order, *)
(* and the output recorded is that of the last call, which has none.             *)
Known(s, e) == Coupled(s) /\ \A i \in ToSet(s) : i \in Numbered => i.n <= e
Waiting(u, r, e) ==
    \A n \in Nat :
        /\ u = <<Entry(Call(n))>> =>
              n <= e /\ Call(n) \notin ToSet(r) /\ Output(n) \notin ToSet(r)
        /\ u = <<Entry(Output(n))>> =>
              n <= e /\ Call(n) \in ToSet(r) /\ Output(n) \notin ToSet(r)
Answering(s, u, r) ==
    \E n \in Nat :
        /\ LastCall(s) = Call(n) /\ Call(n) \in ToSet(s)
        /\ Output(n) \notin ToSet(s) /\ Output(n) \notin ToSet(r)
        /\ (u \in {<< >>, <<Entry(Unasked)>>} /\ Call(n) \in ToSet(r)) \/ u = <<Entry(Call(n))>>
Calls ==
    /\ Known(items, events) /\ Known(rollout.items, events)
    /\ Waiting(unsaved["task"], rollout.items, events)
    /\ turn.pc = "called" => Answering(items, unsaved["task"], rollout.items)
--------------------------------------------------------------------------------
(* What the operators on the items return. *)
LEMMA OnlyOf ==
  ASSUME NEW s \in Seq(Item), NEW kinds
  PROVE  Only(s, kinds) \in Seq(OfKind(kinds)) /\ Only(s, kinds) \in Seq(Item)
<1> DEFINE t == Keep(s, OfKind(kinds))
<1>1. t \in Seq(Item) /\ ToSet(t) = ToSet(s) \cap OfKind(kinds)
  BY KeepIs
<1>2. \A m \in 1 .. Len(t) : t[m] \in OfKind(kinds)
  BY <1>1, LenProperties DEF ToSet
<1> HIDE DEF t
<1>3. t \in [1 .. Len(t) -> OfKind(kinds)] /\ Len(t) \in Nat
  BY <1>1, <1>2, LenProperties
<1>4. t \in Seq(OfKind(kinds))
  BY <1>3
<1> QED
  BY <1>1, <1>4, OnlyIs DEF t

(* A compaction leaves no calls and no outputs behind. *)
LEMMA SpokenOnly ==
  /\ Spoken \subseteq Item
  /\ Context \in Spoken /\ Summary \in Spoken
  /\ \A s \in Seq(Item) :
        /\ CompactLocal(s) \in Seq(Spoken) /\ Ghosts(s) \in Seq(Spoken)
        /\ CompactLocal(s) \o Ghosts(s) \in Seq(Spoken)
        /\ \A kept \in {{"user", "summary"}, {"agent"}} :
               CompactRemote(Only(s, kept)) \o Ghosts(s) \in Seq(Spoken)
<1>1. Spoken \subseteq Item /\ Context \in Spoken /\ Summary \in Spoken
      /\ [k |-> "compaction", n |-> 0] \in Spoken
  BY DEF Spoken, OfKind, Item, Kinds, Context, Summary
<1>2. SUFFICES ASSUME NEW s \in Seq(Item)
               PROVE  /\ CompactLocal(s) \in Seq(Spoken) /\ Ghosts(s) \in Seq(Spoken)
                      /\ \A kept \in {{"user", "summary"}, {"agent"}} :
                             CompactRemote(Only(s, kept)) \in Seq(Spoken)
  BY <1>1
<1>3. ASSUME NEW kinds, kinds \subseteq Kinds \ {"call", "output"}
      PROVE  Only(s, kinds) \in Seq(Spoken)
  <2>1. OfKind(kinds) \subseteq Spoken
    BY <1>3 DEF OfKind, Spoken
  <2> QED
    BY <2>1, OnlyOf, SeqMonotonic
<1>4. /\ Only(s, {"user"}) \in Seq(Spoken) /\ Only(s, {"ghost"}) \in Seq(Spoken)
      /\ \A kept \in {{"user", "summary"}, {"agent"}} : Only(s, kept) \in Seq(Spoken)
  BY <1>3 DEF Kinds
<1>5. CompactLocal(s) \in Seq(Spoken) /\ Ghosts(s) \in Seq(Spoken)
  BY <1>1, <1>4 DEF CompactLocal, Ghosts
<1>6. ASSUME NEW t \in Seq(Spoken) PROVE CompactRemote(t) \in Seq(Spoken)
  <2> DEFINE all == t \o <<[k |-> "compaction", n |-> 0]>>
             last == SelectLastInSeq(all, LAMBDA i : i.k \in {"user", "summary"})
  <2>1. all \in Seq(Spoken) /\ Len(all) \in Nat
    BY <1>1
  <2>2. all \in Seq(Item)
    BY <1>1, <2>1, SeqMonotonic
  <2>3. last \in 0 .. Len(all)
    <3> HIDE DEF all
    <3> QED
      BY <2>2, LastOfKind
  <2>4. CompactRemote(t) = IF last = 0 THEN Append(all, Context) ELSE InsertAt(all, last, Context)
    BY DEF CompactRemote
  <2> HIDE DEF all, last
  <2>5. ASSUME last # 0 PROVE InsertAt(all, last, Context) \in Seq(Spoken)
    <3>1. SubSeq(all, 1, last - 1) \in Seq(Spoken) /\ SubSeq(all, last, Len(all)) \in Seq(Spoken)
      BY <2>1, <2>3, <2>5, Piece
    <3>2. <<Context>> \in Seq(Spoken)
      BY <1>1
    <3> QED
      BY <3>1, <3>2, ConcatProperties DEF InsertAt
  <2> QED
    BY <1>1, <2>1, <2>4, <2>5, AppendProperties
<1> QED
  BY <1>4, <1>5, <1>6

(* What undo leaves is what there was but for a ghost. *)
Undone(s) == RemoveAt(s, SelectLastInSeq(s, LAMBDA i : i.k = "ghost"))

LEMMA UndoneIs ==
  ASSUME NEW s \in Seq(Item)
  PROVE  /\ Undone(s) \in Seq(Item)
         /\ \/ Undone(s) = s
            \/ \E p, q \in Seq(Item), g \in OfKind({"ghost"}) :
                   s = (p \o <<g>>) \o q /\ Undone(s) = p \o q
<1> DEFINE j == SelectLastInSeq(s, LAMBDA i : i.k = "ghost")
<1>1. j \in 0 .. Len(s) /\ (j # 0 => s[j].k = "ghost") /\ Len(s) \in Nat
  BY LastOfKind, LenProperties
<1>2. Undone(s) = SubSeq(s, 1, j - 1) \o SubSeq(s, j + 1, Len(s))
  BY DEF Undone, RemoveAt
<1> HIDE DEF j
<1>3. CASE j = 0
  <2>1. SubSeq(s, 1, 0 - 1) = << >>
    BY SubSeqEmpty
  <2>2. SubSeq(s, 0 + 1, Len(s)) = s
    BY SubSeqFull
  <2> QED
    BY <1>2, <1>3, <2>1, <2>2, ConcatEmptySeq
<1>4. CASE j # 0
  <2>1. j \in 1 .. Len(s)
    BY <1>1, <1>4
  <2>2. /\ SubSeq(s, 1, j - 1) \in Seq(Item) /\ SubSeq(s, j + 1, Len(s)) \in Seq(Item)
        /\ s = (SubSeq(s, 1, j - 1) \o <<s[j]>>) \o SubSeq(s, j + 1, Len(s))
    BY <2>1, TakeApart
  <2>3. s[j] \in OfKind({"ghost"})
    BY <1>1, <1>4, <2>1, ElementOfSeq DEF OfKind
  <2> QED
    BY <1>2, <2>2, <2>3, ConcatProperties
<1> QED
  BY <1>3, <1>4

(* What is left of a queue when its first entry is handed over. *)
Entries ==
    [type : {"item"}, item : Item] \cup [type : {"user_event"}, n : Nat]
        \cup [type : {"rolled_back"}, n : Nat]
        \cup {Compacted} \cup [type : {"replaced"}, by : Seq(Spoken)]

LEMMA EntriesAre ==
  /\ \A i \in Item : Entry(i) \in Entries
  /\ \A n \in Nat : UserEvent(n) \in Entries /\ RolledBack(n) \in Entries
  /\ Compacted \in Entries
  /\ \A s \in Seq(Spoken) : CompactedTo(s) \in Entries
BY DEF Entries, Entry, UserEvent, RolledBack, Compacted, CompactedTo

LEMMA QueueIs ==
  ASSUME NEW a \in Actors, NEW u \in Queues(a), u # << >>
  PROVE  /\ Head(u) \in Entries
         /\ Tail(u) \in Queues(a)
         /\ \/ Len(u) = 1 /\ Tail(u) = << >> /\ u[1] = Head(u)
            \/ /\ Len(u) = 2 /\ u[1] = Head(u) /\ Tail(u) = <<u[2]>> /\ a = "task"
               /\ \E n \in Nat : u = <<Entry(User(n)), UserEvent(n)>>
<1>1. CASE \E e \in Entries : u = <<e>>
  <2>1. PICK e \in Entries : u = <<e>>
    BY <1>1
  <2>2. << >> \in Queues(a)
    BY DEF Queues, Actors
  <2> QED
    BY <2>1, <2>2
<1>2. CASE a = "task" /\ \E n \in Nat : u = <<Entry(User(n)), UserEvent(n)>>
  <2>1. PICK n \in Nat : u = <<Entry(User(n)), UserEvent(n)>>
    BY <1>2
  <2>2. Tail(u) = <<UserEvent(n)>> /\ Head(u) = Entry(User(n)) /\ Len(u) = 2
        /\ u[1] = Entry(User(n)) /\ u[2] = UserEvent(n)
    BY <2>1
  <2>3. <<UserEvent(n)>> \in Queues(a)
    BY <1>2 DEF Queues
  <2>4. User(n) \in Item
    BY DEF User, Item, Kinds
  <2> QED
    BY <1>2, <2>1, <2>2, <2>3, <2>4, EntriesAre
<1>3. CASE a = "loop"
  <2>1. Context \in Item /\ Unasked \in Item /\ Aside \in Item
    BY DEF Context, Unasked, User, Aside, Item, Kinds
  <2>2. Entry(Context) \in Entries /\ Entry(Unasked) \in Entries /\ Entry(Aside) \in Entries
        /\ \A n \in 1 .. 2 : RolledBack(n) \in Entries
    BY <2>1, EntriesAre
  <2> QED
    BY <1>1, <1>3, <2>2 DEF Queues
<1>4. CASE a = "left"
  <2>1. \A i \in Waits : i \in Item
    BY DEF Waits, User, Aside, Item, Kinds
  <2> QED
    BY <1>1, <1>4, <2>1, EntriesAre DEF Queues
<1>5. CASE a = "ghost"
  <2>1. OfKind({"ghost"}) \subseteq Item
    BY DEF OfKind
  <2> QED
    BY <1>1, <1>5, <2>1, EntriesAre DEF Queues
<1>6. CASE a = "task"
  <2>1. OfKind({"agent", "call", "output"}) \subseteq Item /\ Unasked \in Item /\ Aside \in Item
    BY DEF OfKind, Unasked, User, Aside, Item, Kinds
  <2> QED
    BY <1>1, <1>2, <1>6, <2>1, EntriesAre DEF Queues
<1>7. CASE a = "aside"
  <2>1. Aside \in Item
    BY DEF Aside, Item, Kinds
  <2> QED
    BY <1>1, <1>7, <2>1, EntriesAre DEF Queues
<1> QED
  BY <1>3, <1>4, <1>5, <1>6, <1>7 DEF Actors

(* What the readers of the rollout hold. *)
LEMMA DropLastIs ==
  \A T : \A s \in Seq(T) : \A n \in Nat :
      DropLast(s, n) \in Seq(T) /\ Len(DropLast(s, n)) = (IF n < Len(s) THEN Len(s) - n ELSE 0)
      /\ \A m \in 1 .. Len(DropLast(s, n)) : DropLast(s, n)[m] = s[m]
<1> SUFFICES ASSUME NEW T, NEW s \in Seq(T), NEW n \in Nat
             PROVE  /\ DropLast(s, n) \in Seq(T)
                    /\ Len(DropLast(s, n)) = IF n < Len(s) THEN Len(s) - n ELSE 0
                    /\ \A m \in 1 .. Len(DropLast(s, n)) : DropLast(s, n)[m] = s[m]
  OBVIOUS
<1> DEFINE b == IF n < Len(s) THEN Len(s) - n ELSE 0
<1>1. b \in Nat /\ b <= Len(s) /\ Len(s) \in Nat
  BY LenProperties
<1>2. \A i \in 1 .. b : s[i] \in T
  BY <1>1, ElementOfSeq
<1>3. DropLast(s, n) = SubSeq(s, 1, b)
  BY DEF DropLast
<1> HIDE DEF b
<1>4. /\ SubSeq(s, 1, b) \in Seq(T)
      /\ Len(SubSeq(s, 1, b)) = (IF 1 <= b THEN b - 1 + 1 ELSE 0)
      /\ \A i \in 1 .. b - 1 + 1 : SubSeq(s, 1, b)[i] = s[1 + i - 1]
  BY <1>1, <1>2, SubSeqProperties
<1>5. Len(SubSeq(s, 1, b)) = b /\ \A i \in 1 .. b : SubSeq(s, 1, b)[i] = s[i]
  BY <1>1, <1>4
<1> QED
  BY <1>3, <1>4, <1>5 DEF b

LEMMA ReadersTypes ==
  ASSUME NEW s \in Seq(Item), NEW t \in Seq(Nat), NEW f \in Seq(Seq(Item)), NEW e \in Entries
  PROVE  /\ Resumed(s, e) \in Seq(Item)
         /\ ClientTurns(t, e) \in Seq(Nat)
         /\ Forks(f, e, s) \in Seq(Seq(Item))
<1>1. CASE e \in [type : {"item"}, item : Item]
  BY <1>1, AppendProperties DEF Resumed, ClientTurns, Forks
<1>2. CASE e \in [type : {"user_event"}, n : Nat]
  BY <1>2, AppendProperties DEF Resumed, ClientTurns, Forks
<1>3. CASE e \in [type : {"rolled_back"}, n : Nat]
  <2>1. DropLastTurns(s, e.n) \in Seq(Item)
    BY <1>3, DropType
  <2>2. DropLast(t, e.n) \in Seq(Nat) /\ DropLast(f, e.n) \in Seq(Seq(Item))
    BY <1>3, DropLastIs
  <2> QED
    BY <1>3, <2>1, <2>2 DEF Resumed, ClientTurns, Forks
<1>4. CASE e = Compacted
  <2>1. CompactLocal(s) \in Seq(Item)
    BY SpokenOnly, SeqMonotonic
  <2> QED
    BY <1>4, <2>1 DEF Resumed, ClientTurns, Forks, Compacted
<1>5. CASE e \in [type : {"replaced"}, by : Seq(Spoken)]
  <2>1. e.by \in Seq(Item)
    BY <1>5, SpokenOnly, SeqMonotonic
  <2> QED
    BY <1>5, <2>1 DEF Resumed, ClientTurns, Forks
<1> QED
  BY <1>1, <1>2, <1>3, <1>4, <1>5 DEF Entries
--------------------------------------------------------------------------------
(* The ranges of the variables are kept. *)

(* What is recorded. *)
LEMMA NewEntries ==
  /\ \A n \in Nat : <<Entry(User(n))>> \o <<UserEvent(n)>> \in Queues("task")
  /\ \A n : <<Entry(User(n))>> \o <<UserEvent(n)>> = <<Entry(User(n)), UserEvent(n)>>
  /\ \A i \in OfKind({"agent", "call", "output"}) : <<Entry(i)>> \o << >> \in Queues("task")
  /\ <<Entry(Context)>> \o << >> \in Queues("loop") /\ <<Entry(Context)>> \in Queues("loop")
  /\ <<Entry(Unasked)>> \o << >> \in Queues("loop") /\ <<Entry(Aside)>> \o << >> \in Queues("loop")
  /\ <<Entry(Unasked)>> \o << >> \in Queues("task") /\ <<Entry(Aside)>> \o << >> \in Queues("task")
  /\ \A i \in Waits : <<Entry(i)>> \o << >> \in Queues("left")
  /\ <<Entry(Aside)>> \o << >> \in Queues("aside")
  /\ \A i \in OfKind({"ghost"}) : <<Entry(i)>> \o << >> \in Queues("ghost")
  /\ \A i : <<Entry(i)>> \o << >> = <<Entry(i)>>
<1>1. \A i : <<Entry(i)>> \o << >> = <<Entry(i)>>
  OBVIOUS
<1>2. ASSUME NEW x, NEW y PROVE <<x>> \o <<y>> = <<x, y>>
  <2>1. <<x>> \in Seq({x, y}) /\ <<y>> \in Seq({x, y}) /\ <<x, y>> \in Seq({x, y})
    OBVIOUS
  <2>2. /\ <<x>> \o <<y>> \in Seq({x, y}) /\ Len(<<x>> \o <<y>>) = 2
        /\ (<<x>> \o <<y>>)[1] = x /\ (<<x>> \o <<y>>)[2] = y
    BY <2>1, ConcatProperties
  <2>3. Len(<<x, y>>) = 2 /\ <<x, y>>[1] = x /\ <<x, y>>[2] = y
    OBVIOUS
  <2>4. \A i \in 1 .. 2 : i = 1 \/ i = 2
    OBVIOUS
  <2>5. \A i \in 1 .. 2 : (<<x>> \o <<y>>)[i] = <<x, y>>[i]
    BY <2>2, <2>3, <2>4
  <2> QED
    BY <2>1, <2>2, <2>3, <2>5, SeqEqual
<1> QED
  BY <1>1, <1>2 DEF Queues

LEMMA Recorded ==
  ASSUME Types, NEW a \in Actors, NEW i \in Item, NEW then,
         <<Entry(i)>> \o then \in Queues(a), Record(a, i, then)
  PROVE  /\ items' \in Seq(Item)
         /\ DOMAIN unsaved' = Actors /\ \A b \in Actors : unsaved'[b] \in Queues(b)
         /\ torn' \in BOOLEAN
BY AppendProperties DEF Types, Record, Overlaps, Idle

LEMMA Replacement ==
  ASSUME Types, NEW a \in Actors, NEW s \in Seq(Item), NEW u \in Queues(a), Replace(a, s, u)
  PROVE  /\ items' \in Seq(Item) /\ copy' \in Seq(Item)
         /\ DOMAIN unsaved' = Actors /\ \A b \in Actors : unsaved'[b] \in Queues(b)
         /\ torn' \in BOOLEAN
BY DEF Types, Replace, Overlaps, Idle

LEMMA ItemsAre ==
  /\ Context \in Item /\ Summary \in Item
  /\ \A n \in Nat : User(n) \in Item
  /\ Unasked \in Item /\ Aside \in Item /\ Waits \subseteq Item
  /\ \A n \in Nat : [k |-> "ghost", n |-> n] \in OfKind({"ghost"})
  /\ \A n \in Nat : [k |-> "call", n |-> n] \in OfKind({"agent", "call", "output"})
  /\ \A n \in Nat : [k |-> "agent", n |-> n] \in OfKind({"agent", "call", "output"})
  /\ \A n \in Nat : [k |-> "output", n |-> n] \in OfKind({"agent", "call", "output"})
  /\ [k |-> "draft", n |-> 0] \in Item
  /\ \A kinds : OfKind(kinds) \subseteq Item
BY DEF Context, Summary, User, Unasked, Aside, Waits, Item, Kinds, OfKind

LEMMA InitTypes == Init => Types /\ TakeTurns
<1> SUFFICES ASSUME Init PROVE Types /\ TakeTurns
  OBVIOUS
<1>1. items \in Seq(Item) /\ rollout \in [items : Seq(Item), turns : Seq(Nat), forks : Seq(Seq(Item))]
  BY ItemsAre DEF Init
<1>2. DOMAIN unsaved = Actors /\ \A a \in Actors : unsaved[a] \in Queues(a)
  BY DEF Init, Queues
<1>3. Types
  <2>1. turn \in Turns
    BY DEF Init, NoTurn, Turns
  <2>2. ghost \in [n : Nat, cancelled : BOOLEAN] /\ pending \in Few(Waits) /\ left \in Few(Waits)
        /\ loop \in Loops /\ aside \in {"none", "running", "refused"}
    BY DEF Init, NoGhost, Few, Loops
  <2>3. copy \in Seq(Item) /\ sent \in Nat /\ events \in Nat /\ beside \in Nat /\ torn \in BOOLEAN
        /\ late \in SUBSET Nat /\ odd \in SUBSET Odds
    <3>1. copy = << >> /\ sent = 0 /\ events = 0 /\ beside = 0 /\ torn = FALSE /\ late = {} /\ odd = {}
      BY DEF Init
    <3>2. << >> \in Seq(Item)
      OBVIOUS
    <3> QED
      BY ONLY <3>1, <3>2
  <2> QED
    BY <1>1, <1>2, <2>1, <2>2, <2>3 DEF Types
<1>4. TakeTurns
  BY DEF Init, TakeTurns, NoTurn, Idle, Actors
<1> QED
  BY <1>3, <1>4

(* Handing over. *)
LEMMA SaveTypes ==
  ASSUME Types, NEW a \in Actors, Save(a)
  PROVE  Types'
<1>1. unsaved[a] \in Queues(a) /\ unsaved[a] # << >> /\ DOMAIN unsaved = Actors
  BY DEF Types, Save, Idle
<1>2. Head(unsaved[a]) \in Entries /\ Tail(unsaved[a]) \in Queues(a)
  BY <1>1, QueueIs
<1>3. rollout' \in [items : Seq(Item), turns : Seq(Nat), forks : Seq(Seq(Item))]
  <2>1. rollout' = Read(rollout, Head(unsaved[a]))
    BY DEF Save
  <2> DEFINE e == Head(unsaved[a])
  <2> HIDE DEF e
  <2>2. e \in Entries /\ rollout' = Read(rollout, e)
    BY <1>2, <2>1 DEF e
  <2>3. rollout.items \in Seq(Item) /\ rollout.turns \in Seq(Nat) /\ rollout.forks \in Seq(Seq(Item))
    BY DEF Types
  <2>4. /\ Resumed(rollout.items, e) \in Seq(Item)
        /\ ClientTurns(rollout.turns, e) \in Seq(Nat)
        /\ Forks(rollout.forks, e, rollout.items) \in Seq(Seq(Item))
    BY <2>2, <2>3, ReadersTypes
  <2> QED
    BY <2>2, <2>4 DEF Read
<1>4. DOMAIN unsaved' = Actors /\ \A b \in Actors : unsaved'[b] \in Queues(b)
  BY <1>1, <1>2 DEF Save, Types
<1>5. ghost' \in [n : Nat, cancelled : BOOLEAN]
  BY DEF Save, Types, NoGhost
<1> QED
  BY <1>3, <1>4, <1>5 DEF Save, Types, counts

(* An abort drops the task with what it held. *)
LEMMA AbortTypes ==
  ASSUME Types, Abort
  PROVE  /\ copy' \in Seq(Item) /\ pending' \in Few(Waits)
         /\ ghost' \in [n : Nat, cancelled : BOOLEAN] /\ torn' \in BOOLEAN
         /\ DOMAIN unsaved' = Actors /\ \A b \in Actors : unsaved'[b] \in Queues(b)
<1>1. << >> \in Queues("task")
  BY DEF Queues
<1>2. DOMAIN unsaved' = Actors /\ \A b \in Actors : unsaved'[b] \in Queues(b)
  BY <1>1 DEF Abort, Types
<1>3. copy' \in Seq(Item) /\ pending' \in Few(Waits)
  BY DEF Abort, Types, Few
<1>4. ghost' \in [n : Nat, cancelled : BOOLEAN] /\ torn' \in BOOLEAN
  BY DEF Abort, Types, Idle
<1> QED
  BY <1>2, <1>3, <1>4

(* The submission loop. *)
LEMMA LoopTypes ==
  ASSUME Types, TakeTurns,
         \/ OpSteer \/ OpSeed \/ OpUserTurn \/ OpInterrupt \/ RollbackReplace
         \/ \E kind \in {"compact", "undo", "review"} : OpTask(kind)
         \/ \E n \in 1 .. 2 : OpRollback(n)
  PROVE  Types'
<1>1. CASE OpSteer
  <2>1. User(sent + 1) \in Waits
    <3>1. sent + 1 \in Nat
      BY DEF Types
    <3> QED
      BY <3>1 DEF Waits
  <2> QED
    BY <1>1, <2>1 DEF OpSteer, Types, Send, NewUser, Few
<1>2. CASE OpSeed
  <2>1. Record("loop", Context, << >>) /\ "loop" \in Actors
    BY <1>2 DEF OpSeed, Actors
  <2>2. /\ items' \in Seq(Item) /\ torn' \in BOOLEAN
        /\ DOMAIN unsaved' = Actors /\ \A b \in Actors : unsaved'[b] \in Queues(b)
    BY <2>1, Recorded, NewEntries, ItemsAre
  <2> QED
    BY <1>2, <2>2 DEF OpSeed, Types, Loops, counts
<1>3. CASE OpUserTurn
  <2>1. turn' \in Turns
    <3>1. turn' = [kind |-> "regular", pc |-> "start", n |-> sent + 1, back |-> "none"]
      BY <1>3 DEF OpUserTurn, NoTurn, NewUser
    <3>2. sent + 1 \in Nat
      BY DEF Types
    <3> QED
      BY <3>1, <3>2 DEF Turns
  <2> QED
    BY <1>3, <2>1 DEF OpUserTurn, Types, Loops, Send
<1>4. CASE OpInterrupt
  <2>1. turn' \in Turns /\ loop' \in Loops
    BY <1>4 DEF OpInterrupt, NoTurn, Turns, Loops
  <2> QED
    BY <1>4, <2>1, AbortTypes DEF OpInterrupt, Types, counts
<1>5. ASSUME NEW kind \in {"compact", "undo", "review"}, OpTask(kind) PROVE Types'
  <2>1. turn' \in Turns /\ loop' \in Loops
    BY <1>5 DEF OpTask, NoTurn, Turns, Loops
  <2>2. sent' \in Nat /\ events' \in Nat /\ beside' \in Nat
    BY <1>5 DEF OpTask, Spend, SpendBeside, Types
  <2> QED
    BY <1>5, <2>1, <2>2, AbortTypes DEF OpTask, Types
<1>6. ASSUME NEW n \in 1 .. 2, OpRollback(n) PROVE Types'
  BY <1>6 DEF OpRollback, Types, Loops, Spend
<1>7. CASE RollbackReplace
  <2>1. loop.n \in 1 .. 2 /\ copy \in Seq(Item)
    BY <1>7 DEF RollbackReplace, TakeTurns, Types
  <2>2. DropLastTurns(copy, loop.n) \in Seq(Item)
    <3> DEFINE n == loop.n
    <3>1. n \in Nat /\ copy \in Seq(Item)
      BY <2>1
    <3> HIDE DEF n
    <3>2. DropLastTurns(copy, n) \in Seq(Item)
      BY <3>1, DropType
    <3> QED
      BY <3>2 DEF n
  <2>3. <<RolledBack(loop.n)>> \in Queues("loop") /\ "loop" \in Actors
    BY <2>1 DEF Queues, Actors
  <2>4. /\ items' \in Seq(Item) /\ copy' \in Seq(Item) /\ torn' \in BOOLEAN
        /\ DOMAIN unsaved' = Actors /\ \A b \in Actors : unsaved'[b] \in Queues(b)
    BY <1>7, <2>2, <2>3, Replacement DEF RollbackReplace
  <2> QED
    BY <1>7, <2>4 DEF RollbackReplace, Types, Loops, counts
<1> QED
  BY <1>1, <1>2, <1>3, <1>4, <1>5, <1>6, <1>7

(* What waits to be pulled or recorded: only input of the user is a turn item. *)
LEMMA WaitsAre ==
  ASSUME NEW i \in Waits
  PROVE  /\ i.n \in Nat
         /\ i.k = "user" => i = User(i.n)
         /\ i.k # "user" => i = Aside
BY DEF Waits, User, Aside

LEMMA AnnouncedIs ==
  ASSUME NEW i \in Waits
  PROVE  \/ i = Aside /\ Announced(i) = << >>
         \/ \E n \in Nat : i = User(n) /\ Announced(i) = <<UserEvent(n)>>
BY DEF Waits, User, Aside, Announced

LEMMA PullRecords ==
  ASSUME Types, TaskPull
  PROVE  \/ Record("task", Aside, << >>)
         \/ \E n \in Nat : Record("task", User(n), <<UserEvent(n)>>)
<1>1. Record("task", Head(pending), Announced(Head(pending))) /\ Head(pending) \in Waits
  BY DEF TaskPull, Types, Few
<1> QED
  BY <1>1, AnnouncedIs

(* The output recorded is that of the last call. *)
LEMMA OutputIs ==
  ASSUME Types, TakeTurns, TaskOutput
  PROVE  \E n \in Nat : LastCall(items) = Call(n) /\ Record("task", Output(n), << >>)
<1> DEFINE j == SelectLastInSeq(items, LAMBDA i : i.k = "call")
           call == items[j]
<1>1. Record("task", [call EXCEPT !.k = "output"], << >>) /\ call = LastCall(items)
  BY DEF TaskOutput, LastCall
<1>2. PICK m \in 1 .. Len(items) : items[m].k = "call"
  BY DEF TaskOutput, TaskAt, TakeTurns
<1>3. items \in Seq(Item)
  BY DEF Types
<1>4. j \in 0 .. Len(items) /\ j # 0 /\ call.k = "call" /\ Len(items) \in Nat
  BY <1>2, <1>3, LastOfKind, LenProperties
<1> HIDE DEF j
<1>5. call \in Item /\ call.k = "call"
  BY <1>3, <1>4, ElementOfSeq
<1> HIDE DEF call
<1>6. call = Call(call.n) /\ [call EXCEPT !.k = "output"] = Output(call.n) /\ call.n \in Nat
  BY <1>5 DEF Item, Call, Output
<1> QED
  BY <1>1, <1>6

(* The task of a turn, what it leaves behind, and the snapshot. *)
LEMMA TaskTypes ==
  ASSUME Types, TakeTurns,
         \/ TaskPrompt \/ TaskSnapshot \/ TaskPull \/ TaskCall \/ TaskOutput \/ TaskAgent
         \/ TaskFinish \/ LeftRecord \/ LeftDrop \/ GhostRecord \/ GhostEnds
  PROVE  Types'
<1>0. turn \in Turns /\ turn.n \in Nat /\ events \in Nat
  BY DEF Types, Turns
<1>a. /\ "task" \in Actors /\ "left" \in Actors /\ "ghost" \in Actors
      /\ OfKind({"agent", "call", "output"}) \subseteq Item /\ OfKind({"ghost"}) \subseteq Item
  BY ItemsAre DEF Actors
<1>b. \A pc \in {"prompted", "top", "called", "answered", "said"} :
          Goto(pc) => turn' \in Turns
  BY <1>0 DEF Goto, Turns
<1>1. CASE TaskPrompt
  <2>1. Record("task", User(turn.n), <<UserEvent(turn.n)>>)
    BY <1>1 DEF TaskPrompt
  <2>2. /\ items' \in Seq(Item) /\ torn' \in BOOLEAN
        /\ DOMAIN unsaved' = Actors /\ \A b \in Actors : unsaved'[b] \in Queues(b)
    BY <1>0, <1>a, <2>1, Recorded, NewEntries, ItemsAre
  <2>3. turn' \in Turns
    BY <1>1, <1>b DEF TaskPrompt
  <2> QED
    BY <1>1, <2>2, <2>3 DEF TaskPrompt, Types, counts
<1>2. CASE TaskSnapshot
  <2>1. turn' \in Turns
    BY <1>2, <1>b DEF TaskSnapshot
  <2>2. ghost' \in [n : Nat, cancelled : BOOLEAN]
    BY <1>0, <1>2 DEF TaskSnapshot
  <2> QED
    BY <1>2, <2>1, <2>2 DEF TaskSnapshot, Types, Spend
<1>3. CASE TaskPull
  <2>1. Record("task", Head(pending), Announced(Head(pending)))
    BY <1>3 DEF TaskPull
  <2>2. Head(pending) \in Waits
    BY <1>3 DEF TaskPull, Types, Few
  <2>3. <<Entry(Head(pending))>> \o Announced(Head(pending)) \in Queues("task")
    BY <2>2, AnnouncedIs, NewEntries
  <2>a. /\ items' \in Seq(Item) /\ torn' \in BOOLEAN
        /\ DOMAIN unsaved' = Actors /\ \A b \in Actors : unsaved'[b] \in Queues(b)
    BY <1>a, <2>1, <2>2, <2>3, Recorded, ItemsAre
  <2>4. turn' \in Turns /\ pending' \in Few(Waits)
    BY <1>3, <1>b DEF TaskPull, Few
  <2> QED
    BY <1>3, <2>a, <2>4 DEF TaskPull, Types, counts
<1>4. CASE TaskCall
  <2>1. Record("task", [k |-> "call", n |-> events + 1], << >>) /\ events + 1 \in Nat
    BY <1>0, <1>4 DEF TaskCall
  <2>2. /\ items' \in Seq(Item) /\ torn' \in BOOLEAN
        /\ DOMAIN unsaved' = Actors /\ \A b \in Actors : unsaved'[b] \in Queues(b)
    BY <1>a, <2>1, Recorded, NewEntries, ItemsAre
  <2>3. turn' \in Turns
    BY <1>4, <1>b DEF TaskCall
  <2> QED
    BY <1>4, <2>2, <2>3 DEF TaskCall, Types, Spend
<1>5. CASE TaskOutput
  <2>1. PICK n \in Nat : Record("task", Output(n), << >>)
    BY <1>5, OutputIs
  <2>2. Output(n) \in OfKind({"agent", "call", "output"})
    BY ItemsAre DEF Output
  <2>3. /\ items' \in Seq(Item) /\ torn' \in BOOLEAN
        /\ DOMAIN unsaved' = Actors /\ \A b \in Actors : unsaved'[b] \in Queues(b)
    BY <1>a, <2>1, <2>2, Recorded, NewEntries, ItemsAre
  <2>4. turn' \in Turns
    BY <1>5, <1>b DEF TaskOutput
  <2> QED
    BY <1>5, <2>3, <2>4 DEF TaskOutput, Types, counts
<1>6. CASE TaskAgent
  <2>1. Record("task", [k |-> "agent", n |-> turn.n], << >>)
    BY <1>6 DEF TaskAgent
  <2>2. /\ items' \in Seq(Item) /\ torn' \in BOOLEAN
        /\ DOMAIN unsaved' = Actors /\ \A b \in Actors : unsaved'[b] \in Queues(b)
    BY <1>0, <1>a, <2>1, Recorded, NewEntries, ItemsAre
  <2>3. turn' \in Turns
    BY <1>6, <1>b DEF TaskAgent
  <2> QED
    BY <1>6, <2>2, <2>3 DEF TaskAgent, Types, counts
<1>7. CASE TaskFinish
  <2>1. turn' \in Turns
    BY <1>7 DEF TaskFinish, NoTurn, Turns
  <2>2. left' \in Few(Waits) /\ pending' \in Few(Waits) /\ copy' \in Seq(Item)
    BY <1>7 DEF TaskFinish, Types, Few
  <2> QED
    BY <1>7, <2>1, <2>2 DEF TaskFinish, Types, counts
<1>8. CASE LeftRecord
  <2>1. Record("left", Head(left), << >>)
    BY <1>8 DEF LeftRecord
  <2>2. Head(left) \in Waits
    BY <1>8 DEF LeftRecord, Types, Few
  <2>3. /\ items' \in Seq(Item) /\ torn' \in BOOLEAN
        /\ DOMAIN unsaved' = Actors /\ \A b \in Actors : unsaved'[b] \in Queues(b)
    BY <1>a, <2>1, <2>2, Recorded, NewEntries, ItemsAre
  <2>4. left' \in Few(Waits) /\ late' \in SUBSET Nat /\ odd' \in SUBSET Odds
    BY <1>8, <2>2, WaitsAre DEF LeftRecord, Types, Few, Odds
  <2> QED
    BY <1>8, <2>3, <2>4 DEF LeftRecord, Types, counts
<1>9. CASE LeftDrop
  <2>1. DOMAIN unsaved' = Actors /\ \A b \in Actors : unsaved'[b] \in Queues(b)
    <3>1. << >> \in Queues("left")
      BY DEF Queues
    <3> QED
      BY <1>9, <3>1 DEF LeftDrop, Types
  <2>2. left' \in Few(Waits) /\ torn' \in BOOLEAN
    BY <1>9 DEF LeftDrop, Types, Few, Idle
  <2> QED
    BY <1>9, <2>1, <2>2 DEF LeftDrop, Types, counts
<1>10. CASE GhostRecord
  <2>1. Record("ghost", [k |-> "ghost", n |-> ghost.n], << >>) /\ ghost.n \in Nat
    BY <1>10 DEF GhostRecord, Types
  <2>2. /\ items' \in Seq(Item) /\ torn' \in BOOLEAN
        /\ DOMAIN unsaved' = Actors /\ \A b \in Actors : unsaved'[b] \in Queues(b)
    BY <1>a, <2>1, Recorded, NewEntries, ItemsAre
  <2> QED
    BY <1>10, <2>2 DEF GhostRecord, Types, counts
<1>11. CASE GhostEnds
  <2>1. DOMAIN unsaved' = Actors /\ \A b \in Actors : unsaved'[b] \in Queues(b)
    <3>1. << >> \in Queues("ghost")
      BY DEF Queues
    <3> QED
      BY <1>11, <3>1 DEF GhostEnds, Types
  <2>2. ghost' \in [n : Nat, cancelled : BOOLEAN]
    BY <1>11 DEF GhostEnds, NoGhost
  <2> QED
    BY <1>11, <2>1, <2>2 DEF GhostEnds, Types, counts
<1> QED
  BY <1>1, <1>2, <1>3, <1>4, <1>5, <1>6, <1>7, <1>8, <1>9, <1>10, <1>11

(* Compaction, undo and restarts. *)
LEMMA CompactTypes ==
  ASSUME Types, TakeTurns,
         \/ \E remote \in BOOLEAN : CompactBegin(remote)
         \/ CompactDraft \/ CompactSnapshot \/ UndoClone \/ CompactReplace \/ UndoReplace
         \/ \E kept \in {{"user", "summary"}, {"agent"}} : RemoteReplace(kept)
         \/ Restart
  PROVE  Types'
<1>0. turn \in Turns /\ copy \in Seq(Item) /\ "task" \in Actors
  BY DEF Types, Actors
<1>a. odd \cup {"compacted"} \in SUBSET Odds
  BY DEF Types, Odds
<1>1. ASSUME NEW remote \in BOOLEAN, CompactBegin(remote) PROVE Types'
  <2> DEFINE pc == IF remote THEN "remote" ELSE "local"
             back == CASE turn.kind = "compact" -> "done"
                       [] turn.pc = "start" -> "start"
                       [] OTHER -> "top"
  <2>1. turn' = [turn EXCEPT !.pc = pc, !.back = back]
    BY <1>1 DEF CompactBegin
  <2>2. pc \in {"remote", "local"} /\ back \in {"done", "start", "top"}
    OBVIOUS
  <2> HIDE DEF pc, back
  <2>3. turn' \in Turns
    BY <1>0, <2>1, <2>2 DEF Turns
  <2>4. sent' \in Nat /\ events' \in Nat /\ beside' \in Nat
    <3>1. UNCHANGED counts \/ Spend
      BY <1>1, Zenon DEF CompactBegin
    <3>2. sent \in Nat /\ events \in Nat /\ beside \in Nat
      BY DEF Types
    <3> QED
      BY ONLY <3>1, <3>2 DEF Spend, counts
  <2>5. copy' \in Seq(Item)
    BY <1>1 DEF CompactBegin, Types
  <2> QED
    BY <1>1, <2>3, <2>4, <2>5 DEF CompactBegin, Types
<1>2. CASE CompactDraft
  <2>1. items' \in Seq(Item)
    BY <1>2, ItemsAre, AppendProperties DEF CompactDraft, Types
  <2> QED
    BY <1>2, <2>1 DEF CompactDraft, Types, counts
<1>3. CASE CompactSnapshot
  <2>1. turn' \in Turns /\ copy' \in Seq(Item)
    BY <1>0, <1>3 DEF CompactSnapshot, Goto, Turns, Types
  <2> QED
    BY <1>3, <2>1 DEF CompactSnapshot, Types, counts
<1>4. CASE UndoClone
  <2>1. turn' \in Turns /\ copy' \in Seq(Item)
    BY <1>0, <1>4 DEF UndoClone, Goto, Turns, Types
  <2> QED
    BY <1>4, <2>1 DEF UndoClone, Types, counts
<1>5. CASE CompactReplace
  <2> DEFINE new == CompactLocal(copy) \o Ghosts(copy)
  <2>1. Replace("task", new, <<Compacted>>)
    BY <1>5 DEF CompactReplace
  <2>2. new \in Seq(Item)
    BY <1>0, SpokenOnly, SeqMonotonic
  <2>3. <<Compacted>> \in Queues("task")
    BY DEF Queues
  <2> HIDE DEF new
  <2>4. /\ items' \in Seq(Item) /\ copy' \in Seq(Item) /\ torn' \in BOOLEAN
        /\ DOMAIN unsaved' = Actors /\ \A b \in Actors : unsaved'[b] \in Queues(b)
    BY <1>0, <2>1, <2>2, <2>3, Replacement
  <2>5. turn' \in Turns
    BY <1>0, <1>5 DEF CompactReplace, Goto, Turns
  <2>6. odd' \in SUBSET Odds
    BY <1>5, <1>a DEF CompactReplace
  <2> QED
    BY <1>5, <2>4, <2>5, <2>6 DEF CompactReplace, Types, counts
<1>6. ASSUME NEW kept \in {{"user", "summary"}, {"agent"}}, RemoteReplace(kept) PROVE Types'
  <2> DEFINE new == CompactRemote(Only(copy, kept)) \o Ghosts(copy)
  <2>1. Replace("task", new, <<CompactedTo(new)>>)
    BY <1>6 DEF RemoteReplace
  <2>2. new \in Seq(Spoken)
    BY <1>0, SpokenOnly
  <2> HIDE DEF new
  <2>3. new \in Seq(Item)
    BY <2>2, SpokenOnly, SeqMonotonic
  <2>4. <<CompactedTo(new)>> \in Queues("task")
    BY <2>2 DEF Queues
  <2>5. /\ items' \in Seq(Item) /\ copy' \in Seq(Item) /\ torn' \in BOOLEAN
        /\ DOMAIN unsaved' = Actors /\ \A b \in Actors : unsaved'[b] \in Queues(b)
    BY <1>0, <2>1, <2>3, <2>4, Replacement
  <2>6. turn' \in Turns
    BY <1>0, <1>6 DEF RemoteReplace, Goto, Turns
  <2>7. odd' \in SUBSET Odds
    BY <1>6, <1>a DEF RemoteReplace
  <2> QED
    BY <1>6, <2>5, <2>6, <2>7 DEF RemoteReplace, Types, counts
<1>7. CASE UndoReplace
  <2>1. Replace("task", Undone(copy), << >>)
    BY <1>7 DEF UndoReplace, Undone
  <2>2. Undone(copy) \in Seq(Item)
    BY <1>0, UndoneIs
  <2>3. << >> \in Queues("task")
    BY DEF Queues
  <2>4. /\ items' \in Seq(Item) /\ copy' \in Seq(Item) /\ torn' \in BOOLEAN
        /\ DOMAIN unsaved' = Actors /\ \A b \in Actors : unsaved'[b] \in Queues(b)
    BY <1>0, <2>1, <2>2, <2>3, Replacement
  <2>5. turn' \in Turns
    BY <1>0, <1>7 DEF UndoReplace, Goto, Turns
  <2> QED
    BY <1>7, <2>4, <2>5 DEF UndoReplace, Types, counts
<1>8. CASE Restart
  <2>1. items' \in Seq(Item) /\ copy' \in Seq(Item)
    BY <1>8 DEF Restart, Types
  <2>2. DOMAIN unsaved' = Actors /\ \A b \in Actors : unsaved'[b] \in Queues(b)
    BY <1>8 DEF Restart, Queues
  <2>3. turn' \in Turns /\ pending' \in Few(Waits) /\ left' \in Few(Waits)
        /\ loop' \in Loops
        /\ ghost' \in [n : Nat, cancelled : BOOLEAN]
    BY <1>8 DEF Restart, NoTurn, NoGhost, Turns, Few, Loops
  <2>4. odd' \in SUBSET Odds /\ torn' \in BOOLEAN /\ aside' \in {"none", "running", "refused"}
    BY <1>8 DEF Restart, Types, Odds
  <2>5. sent' \in Nat /\ events' \in Nat /\ beside' \in Nat
    BY <1>8 DEF Restart, Types, Spend
  <2> QED
    BY <1>8, <2>1, <2>2, <2>3, <2>4, <2>5 DEF Restart, Types
<1> QED
  BY <1>1, <1>2, <1>3, <1>4, <1>5, <1>6, <1>7, <1>8

(* Reviews, warnings and what is recorded beside the turns. *)
Beside ==
    \/ OpReplaceReview \/ LoopExitReview \/ LoopMark \/ OpNote \/ LoopNote \/ OpShell
    \/ AsideInject \/ AsideRefused \/ AsideRecord
    \/ TaskWarn \/ ReviewAsk \/ ReviewExit

LEMMA BesideTypes ==
  ASSUME Types, TakeTurns, Beside
  PROVE  Types'
<1>0. turn \in Turns /\ odd \cup {"unasked"} \in SUBSET Odds
  BY DEF Types, Odds
<1>a. "loop" \in Actors /\ "task" \in Actors /\ "aside" \in Actors
  BY DEF Actors
<1>b. ASSUME NEW a \in {"loop", "task", "aside"},
             NEW i \in {Context, Unasked, Aside}, Record(a, i, << >>),
             <<Entry(i)>> \o << >> \in Queues(a)
      PROVE  /\ items' \in Seq(Item) /\ torn' \in BOOLEAN
             /\ DOMAIN unsaved' = Actors /\ \A b \in Actors : unsaved'[b] \in Queues(b)
  <2>1. i \in Item /\ a \in Actors
    BY <1>a, <1>b, ItemsAre
  <2> QED
    BY <1>b, <2>1, Recorded
<1>1. CASE OpReplaceReview
  <2>1. turn' \in Turns /\ loop' \in Loops
    BY <1>1 DEF OpReplaceReview, NoTurn, Turns, Loops
  <2> QED
    BY <1>1, <2>1, AbortTypes DEF OpReplaceReview, Types, counts
<1>2. CASE LoopExitReview
  <2>1. Record("loop", Unasked, << >>) /\ loop' \in Loops
    BY <1>2 DEF LoopExitReview, Loops, Types
  <2> QED
    BY <1>0, <1>2, <1>b, <2>1, NewEntries DEF LoopExitReview, Types, counts
<1>3. CASE LoopMark
  <2>1. Record("loop", Context, << >>) /\ loop' \in Loops
    BY <1>3 DEF LoopMark, Loops
  <2> QED
    BY <1>3, <1>b, <2>1, NewEntries DEF LoopMark, Types, counts
<1>4. CASE OpNote
  BY <1>4 DEF OpNote, Types, Loops, SpendBeside
<1>5. CASE LoopNote
  <2>1. Record("loop", Aside, << >>) /\ loop' \in Loops
    BY <1>5 DEF LoopNote, Loops
  <2> QED
    BY <1>5, <1>b, <2>1, NewEntries DEF LoopNote, Types, counts
<1>6. CASE OpShell
  BY <1>6 DEF OpShell, Types, SpendBeside
<1>7. CASE AsideInject
  BY <1>7 DEF AsideInject, Types, Few, Waits, counts
<1>8. CASE AsideRefused
  BY <1>8 DEF AsideRefused, Types, counts
<1>9. CASE AsideRecord
  <2>1. Record("aside", Aside, << >>)
    BY <1>9 DEF AsideRecord
  <2> QED
    BY <1>9, <1>b, <2>1, NewEntries DEF AsideRecord, Types, counts
<1>10. CASE TaskWarn
  <2>1. Record("task", Unasked, << >>)
    BY <1>10 DEF TaskWarn
  <2> QED
    BY <1>0, <1>10, <1>b, <2>1, NewEntries DEF TaskWarn, Types, SpendBeside
<1>11. CASE ReviewAsk
  <2>1. turn' \in Turns /\ torn' \in BOOLEAN
    BY <1>0, <1>11 DEF ReviewAsk, Goto, Turns, Overlaps, Idle, Types
  <2>2. DOMAIN unsaved' = Actors /\ \A b \in Actors : unsaved'[b] \in Queues(b)
    <3>1. <<UserEvent(0)>> \in Queues("task")
      BY DEF Queues
    <3> QED
      BY <1>11, <3>1 DEF ReviewAsk, Types
  <2> QED
    BY <1>0, <1>11, <2>1, <2>2 DEF ReviewAsk, Types, counts
<1>12. CASE ReviewExit
  <2>1. Record("task", Unasked, << >>) /\ turn' \in Turns
    BY <1>0, <1>12 DEF ReviewExit, Goto, Turns
  <2> QED
    BY <1>0, <1>12, <1>b, <2>1, NewEntries DEF ReviewExit, Types, counts
<1> QED
  BY <1>1, <1>2, <1>3, <1>4, <1>5, <1>6, <1>7, <1>8, <1>9, <1>10, <1>11, <1>12 DEF Beside

LEMMA NextTypes ==
  ASSUME Types, TakeTurns, [Next]_vars
  PROVE  Types'
<1>1. CASE UNCHANGED vars
  BY <1>1 DEF Types, vars
<1>2. CASE \E a \in Actors : Save(a)
  BY <1>2, SaveTypes
<1>3. CASE \/ OpSteer \/ OpSeed \/ OpUserTurn \/ OpInterrupt \/ RollbackReplace
           \/ \E kind \in {"compact", "undo", "review"} : OpTask(kind)
           \/ \E n \in 1 .. 2 : OpRollback(n)
  BY <1>3, LoopTypes
<1>4. CASE \/ TaskPrompt \/ TaskSnapshot \/ TaskPull \/ TaskCall \/ TaskOutput \/ TaskAgent
           \/ TaskFinish \/ LeftRecord \/ LeftDrop \/ GhostRecord \/ GhostEnds
  BY <1>4, TaskTypes
<1>5. CASE \/ \E remote \in BOOLEAN : CompactBegin(remote)
           \/ CompactDraft \/ CompactSnapshot \/ UndoClone \/ CompactReplace \/ UndoReplace
           \/ \E kept \in {{"user", "summary"}, {"agent"}} : RemoteReplace(kept)
           \/ Restart
  BY <1>5, CompactTypes
<1>6. CASE Beside
  BY <1>6, BesideTypes
<1> QED
  BY <1>1, <1>2, <1>3, <1>4, <1>5, <1>6, Zenon DEF Next, Replacing, Beside

LEMMA NextSettled ==
  ASSUME Types, TakeTurns, Settled, [Next]_vars
  PROVE  Settled'
<1>0. DOMAIN unsaved = Actors /\ "loop" \in Actors
  BY DEF Types, Actors
<1>1. CASE turn' = NoTurn
  BY <1>1 DEF Settled
<1>2. ASSUME turn # NoTurn, unsaved'["loop"] = unsaved["loop"] PROVE Settled'
  BY <1>2 DEF Settled
<1>3. ASSUME Idle("loop"), unsaved'["loop"] = unsaved["loop"] PROVE Settled'
  BY <1>3 DEF Settled, Idle
<1>4. NoTurn.pc = "none" /\ NoTurn.kind = "none"
  BY DEF NoTurn
<1>5. CASE UNCHANGED vars
  BY <1>5 DEF vars, Settled
<1>6. ASSUME NEW a \in Actors, Save(a) PROVE Settled'
  <2>1. turn' = turn /\ unsaved' = [unsaved EXCEPT ![a] = Tail(unsaved[a])]
    BY <1>6 DEF Save
  <2>2. unsaved["loop"] = <<Entry(Aside)>> => Tail(unsaved["loop"]) = << >>
    OBVIOUS
  <2>3. CASE a = "loop"
    <3>1. unsaved["loop"] # << >>
      BY <1>6, <2>3 DEF Save, Idle
    <3> QED
      BY <1>0, <2>1, <2>2, <2>3, <3>1 DEF Settled
  <2>4. CASE a # "loop"
    BY <1>0, <2>1, <2>4 DEF Settled
  <2> QED
    BY <2>3, <2>4
<1>7. ASSUME NEW a \in Actors, NEW i, NEW then, Record(a, i, then)
      PROVE  /\ a # "loop" => unsaved'["loop"] = unsaved["loop"]
             /\ a = "loop" => unsaved'["loop"] = <<Entry(i)>> \o then
  BY <1>0, <1>7 DEF Record
<1>8. CASE OpSteer \/ OpUserTurn \/ OpNote \/ OpShell
  BY <1>3, <1>8 DEF OpSteer, OpUserTurn, OpNote, OpShell, LoopFree
<1>9. CASE \E kind \in {"compact", "undo", "review"} : OpTask(kind)
  BY <1>0, <1>3, <1>9 DEF OpTask, Abort
<1>10. CASE \/ OpSeed \/ OpInterrupt \/ OpReplaceReview \/ LoopExitReview \/ LoopMark
            \/ RollbackReplace \/ TaskFinish \/ Restart \/ \E n \in 1 .. 2 : OpRollback(n)
  <2>1. turn' = NoTurn
    BY <1>10 DEF OpSeed, OpInterrupt, OpReplaceReview, LoopExitReview, LoopMark, RollbackReplace,
                 TaskFinish, Restart, OpRollback, TakeTurns
  <2> QED
    BY <1>1, <2>1
<1>11. CASE LoopNote
  <2>1. unsaved'["loop"] = <<Entry(Aside)>>
    BY <1>7, <1>11, NewEntries DEF LoopNote, Actors
  <2> QED
    BY <2>1 DEF Settled
<1>12. CASE TaskPrompt \/ TaskPull \/ TaskCall \/ TaskWarn \/ TaskOutput \/ TaskAgent \/ ReviewExit
  <2>1. turn # NoTurn
    BY <1>4, <1>12 DEF TaskPrompt, TaskPull, TaskCall, TaskWarn, TaskOutput, TaskAgent, ReviewExit,
                       TaskAt
  <2>2. \E i, then : Record("task", i, then)
    BY <1>12, Zenon DEF TaskPrompt, TaskPull, TaskCall, TaskWarn, TaskOutput, TaskAgent, ReviewExit
  <2> QED
    BY <1>2, <1>7, <2>1, <2>2 DEF Actors
<1>13. CASE LeftRecord \/ GhostRecord \/ AsideRecord
  <2>1. turn' = turn /\ \E a \in {"left", "ghost", "aside"} : \E i : Record(a, i, << >>)
    BY <1>13, Zenon DEF LeftRecord, GhostRecord, AsideRecord
  <2> QED
    BY <1>7, <2>1 DEF Actors, Settled
<1>14. CASE CompactReplace \/ UndoReplace \/ \E kept \in {{"user", "summary"}, {"agent"}} : RemoteReplace(kept)
  <2>1. turn # NoTurn
    BY <1>4, <1>14 DEF CompactReplace, UndoReplace, RemoteReplace
  <2>2. \E s, u : Replace("task", s, u)
    BY <1>14, Zenon DEF CompactReplace, UndoReplace, RemoteReplace
  <2> QED
    BY <1>0, <1>2, <2>1, <2>2 DEF Replace
<1>15. CASE \/ TaskSnapshot \/ ReviewAsk \/ CompactDraft \/ CompactSnapshot \/ UndoClone
            \/ \E remote \in BOOLEAN : CompactBegin(remote)
  <2>1. turn # NoTurn
    BY <1>4, <1>15 DEF TaskSnapshot, ReviewAsk, TaskAt, CompactDraft, CompactSnapshot, UndoClone,
                       CompactBegin
  <2>2. unsaved'["loop"] = unsaved["loop"]
    BY <1>0, <1>15 DEF TaskSnapshot, ReviewAsk, CompactDraft, CompactSnapshot, UndoClone, CompactBegin
  <2> QED
    BY <1>2, <2>1, <2>2
<1>16. CASE LeftDrop \/ GhostEnds \/ AsideInject \/ AsideRefused
  <2>1. turn' = turn /\ unsaved'["loop"] = unsaved["loop"]
    BY <1>0, <1>16 DEF LeftDrop, GhostEnds, AsideInject, AsideRefused
  <2> QED
    BY <2>1 DEF Settled
<1> QED
  BY <1>5, <1>6, <1>8, <1>9, <1>10, <1>11, <1>12, <1>13, <1>14, <1>15, <1>16, Zenon
     DEF Next, Replacing
--------------------------------------------------------------------------------
(* Loop and task keep taking turns. *)

(* Once there is a call among the items, appending leaves it there. *)
LEMMA CallStays ==
  ASSUME Types, NEW i \in Item, items' = Append(items, i),
         \E m \in 1 .. Len(items) : items[m].k = "call"
  PROVE  \E m \in 1 .. Len(items') : items'[m].k = "call"
<1>1. /\ Len(items) \in Nat /\ Len(items') = Len(items) + 1
      /\ \A m \in 1 .. Len(items) : items'[m] = items[m]
  BY AppendProperties, LenProperties DEF Types
<1>2. PICK m \in 1 .. Len(items) : items[m].k = "call"
  OBVIOUS
<1> QED
  BY <1>1, <1>2

LEMMA SaveTakeTurns ==
  ASSUME Types, TakeTurns, NEW a \in Actors, Save(a)
  PROVE  TakeTurns'
<1>1. DOMAIN unsaved = Actors /\ unsaved[a] # << >>
  BY DEF Types, Save, Idle
<1>2. \A b \in Actors : Idle(b) => Idle(b)'
  BY <1>1 DEF Save, Idle
<1>3. unsaved["left"] = <<Entry(Aside)>> /\ ~ Idle("left")' => unsaved'["left"] = <<Entry(Aside)>>
  <2>1. CASE a = "left"
    BY <1>1, <2>1 DEF Save, Idle, Actors
  <2>2. CASE a # "left"
    BY <1>1, <2>2 DEF Save, Idle, Actors
  <2> QED
    BY <2>1, <2>2
<1>4. ~ Idle("left")' => ~ Idle("left")
  BY <1>2 DEF Actors
<1> QED
  BY <1>2, <1>3, <1>4 DEF Save, TakeTurns, Actors

LEMMA LoopTakeTurns ==
  ASSUME Types, TakeTurns,
         \/ OpSteer \/ OpSeed \/ OpUserTurn \/ OpInterrupt \/ RollbackReplace
         \/ \E kind \in {"compact", "undo", "review"} : OpTask(kind)
         \/ \E n \in 1 .. 2 : OpRollback(n)
  PROVE  TakeTurns'
<1>0. DOMAIN unsaved = Actors
  BY DEF Types
<1>a. NoTurn.pc = "none" /\ NoTurn.kind = "none"
  BY DEF NoTurn
<1>1. CASE OpSteer
  BY <1>1 DEF OpSteer, TakeTurns, LoopFree, Idle
<1>2. CASE OpSeed
  <2>1. turn' = NoTurn /\ turn = NoTurn /\ loop'.pc = "spawning"
    BY <1>2 DEF OpSeed
  <2>2. Idle("task")' = Idle("task") /\ Idle("left")' = Idle("left")
        /\ unsaved'["left"] = unsaved["left"]
    BY <1>0, <1>2 DEF OpSeed, Record, Idle, Actors
  <2> QED
    BY <1>2, <1>a, <2>1, <2>2 DEF OpSeed, TakeTurns
<1>3. CASE OpUserTurn
  <2>1. turn'.kind = "regular" /\ turn'.pc = "start" /\ loop'.pc = "idle" /\ Idle("loop")'
    BY <1>3 DEF OpUserTurn, NoTurn, Idle
  <2>2. turn' # NoTurn
    BY <1>a, <2>1
  <2>3. Idle("left")' = Idle("left") /\ unsaved'["left"] = unsaved["left"]
    BY <1>3 DEF OpUserTurn, Idle
  <2> QED
    BY <1>3, <2>1, <2>2, <2>3 DEF OpUserTurn, TakeTurns
<1>4. CASE OpInterrupt
  <2>1. turn' = NoTurn /\ pending' = << >> /\ loop'.pc \in {"leaving", "marking"}
    BY <1>4 DEF OpInterrupt, Abort
  <2>2. Idle("task")' /\ unsaved'["left"] = unsaved["left"]
    BY <1>0, <1>4 DEF OpInterrupt, Abort, Idle, Actors
  <2> QED
    BY <1>4, <1>a, <2>1, <2>2 DEF OpInterrupt, TakeTurns, Idle
<1>5. ASSUME NEW kind \in {"compact", "undo", "review"}, OpTask(kind) PROVE TakeTurns'
  <2>1. turn'.kind = kind /\ turn'.pc = "start" /\ loop'.pc = "idle"
    BY <1>5 DEF OpTask, NoTurn
  <2>2. turn' # NoTurn
    BY <1>a, <2>1
  <2>3. Idle("task")' /\ unsaved'["left"] = unsaved["left"]
    BY <1>0, <1>5 DEF OpTask, Abort, Idle, Actors
  <2> QED
    BY <1>5, <2>1, <2>2, <2>3 DEF OpTask, TakeTurns, Idle
<1>6. ASSUME NEW n \in 1 .. 2, OpRollback(n) PROVE TakeTurns'
  <2>1. loop'.pc = "rolling" /\ loop'.n = n /\ turn' = NoTurn /\ turn = NoTurn
    BY <1>6 DEF OpRollback
  <2>2. Idle("loop")' /\ Idle("left")' = Idle("left")
        /\ unsaved'["left"] = unsaved["left"] /\ Idle("task")' = Idle("task")
    BY <1>6 DEF OpRollback, LoopFree, Idle
  <2> QED
    BY <1>6, <1>a, <2>1, <2>2 DEF OpRollback, TakeTurns
<1>7. CASE RollbackReplace
  <2>1. turn = NoTurn /\ turn' = NoTurn /\ loop'.pc = "idle"
    BY <1>7 DEF RollbackReplace, TakeTurns
  <2>2. Idle("left")' = Idle("left")
        /\ unsaved'["left"] = unsaved["left"] /\ Idle("task")' = Idle("task")
    BY <1>0, <1>7 DEF RollbackReplace, Replace, Idle, Actors
  <2> QED
    BY <1>7, <1>a, <2>1, <2>2 DEF RollbackReplace, TakeTurns
<1> QED
  BY <1>1, <1>2, <1>3, <1>4, <1>5, <1>6, <1>7

LEMMA TaskTakeTurns ==
  ASSUME Types, TakeTurns,
         \/ TaskPrompt \/ TaskSnapshot \/ TaskPull \/ TaskCall \/ TaskOutput \/ TaskAgent
         \/ TaskFinish \/ LeftRecord \/ LeftDrop \/ GhostRecord \/ GhostEnds
  PROVE  TakeTurns'
<1>0. DOMAIN unsaved = Actors /\ turn \in Turns /\ events \in Nat
  BY DEF Types
<1>a. NoTurn.pc = "none" /\ NoTurn.kind = "none"
  BY DEF NoTurn
<1>b. ASSUME turn.kind = "regular", loop' = loop, left' = left, odd' = odd,
             NEW pc \in {"prompted", "top", "called", "answered", "said"}, Goto(pc),
             \A b \in Actors \ {"task"} : unsaved'[b] = unsaved[b],
             pc = "called" => \E m \in 1 .. Len(items') : items'[m].k = "call"
      PROVE  TakeTurns'
  <2>1. turn'.kind = "regular" /\ turn'.pc = pc
    BY <1>0, <1>b DEF Goto, Turns
  <2>2. turn # NoTurn /\ turn' # NoTurn
    BY <1>a, <1>b, <2>1
  <2>3. Idle("loop")' = Idle("loop") /\ Idle("left")' = Idle("left")
        /\ unsaved'["left"] = unsaved["left"]
    BY <1>b DEF Idle, Actors
  <2> QED
    BY <1>b, <2>1, <2>2, <2>3 DEF TakeTurns
<1>c. ASSUME NEW i, NEW then, Record("task", i, then)
      PROVE  \A b \in Actors \ {"task"} : unsaved'[b] = unsaved[b]
  BY <1>0, <1>c DEF Record
<1>1. CASE TaskPrompt
  BY <1>1, <1>b, <1>c DEF TaskPrompt, TaskAt
<1>2. CASE TaskSnapshot
  BY <1>2, <1>b DEF TaskSnapshot, TaskAt
<1>3. CASE TaskPull
  BY <1>3, <1>b, <1>c DEF TaskPull, TaskAt
<1>4. CASE TaskCall
  <2> DEFINE call == [k |-> "call", n |-> events + 1]
  <2>1. call \in Item /\ call.k = "call" /\ items \in Seq(Item)
    BY <1>0 DEF Item, Kinds, Types
  <2>2. items' = Append(items, call)
    BY <1>4 DEF TaskCall, Record
  <2> HIDE DEF call
  <2>3. items'[Len(items) + 1].k = "call" /\ Len(items') = Len(items) + 1 /\ Len(items) \in Nat
    BY <2>1, <2>2, AppendProperties, LenProperties
  <2>4. \E m \in 1 .. Len(items') : items'[m].k = "call"
    BY <2>3
  <2> QED
    BY <1>4, <1>b, <1>c, <2>4 DEF TaskCall, TaskAt
<1>5. CASE TaskOutput
  <2>1. \E i : Record("task", i, << >>)
    BY <1>5, Zenon DEF TaskOutput
  <2> QED
    BY <1>5, <1>b, <1>c, <2>1 DEF TaskOutput, TaskAt
<1>6. CASE TaskAgent
  BY <1>6, <1>b, <1>c DEF TaskAgent, TaskAt
<1>7. CASE TaskFinish
  <2>1. turn' = NoTurn /\ pending' = << >> /\ loop' = loop /\ Idle("task") /\ turn # NoTurn
    BY <1>7, <1>a DEF TaskFinish
  <2>2. Idle("left")' = Idle("left")
        /\ unsaved'["left"] = unsaved["left"] /\ Idle("task")' = Idle("task") /\ Idle("loop")' = Idle("loop")
    BY <1>7 DEF TaskFinish, Idle
  <2>3. left' # << >> => Idle("left")
    BY <1>7 DEF TaskFinish, TakeTurns
  <2>4. odd' = odd
    BY <1>7 DEF TaskFinish
  <2> QED
    BY <1>a, <2>1, <2>2, <2>3, <2>4 DEF TakeTurns
<1>8. CASE LeftRecord
  <2>0. Head(left) \in Waits /\ Record("left", Head(left), << >>)
    BY <1>8 DEF LeftRecord, Types, Few
  <2>1. left' = << >> /\ turn' = turn /\ loop' = loop /\ pending' = pending
    BY <1>8 DEF LeftRecord
  <2>a. "late" \in odd' \/ unsaved'["left"] = <<Entry(Aside)>>
    <3>1. CASE Head(left).k = "user"
      BY <1>8, <3>1 DEF LeftRecord
    <3>2. CASE Head(left).k # "user"
      <4>1. Head(left) = Aside
        BY <2>0, <3>2, WaitsAre
      <4> QED
        BY <1>0, <2>0, <4>1, NewEntries DEF Record, Actors
    <3> QED
      BY <3>1, <3>2
  <2>2. Idle("task")' = Idle("task") /\ Idle("loop")' = Idle("loop")
    BY <1>0, <1>8 DEF LeftRecord, Record, Idle, Actors
  <2>3. turn.pc = "called" => \E m \in 1 .. Len(items') : items'[m].k = "call"
    <3>1. items' = Append(items, Head(left)) /\ Head(left) \in Item
      BY <2>0, ItemsAre DEF Record
    <3> QED
      BY <3>1, CallStays DEF TakeTurns
  <2> QED
    BY <2>1, <2>2, <2>3, <2>a DEF TakeTurns
<1>9. CASE LeftDrop
  <2>1. left' = << >> /\ turn' = turn /\ loop' = loop /\ pending' = pending /\ Idle("left")'
        /\ items' = items
    BY <1>0, <1>9 DEF LeftDrop, Idle, Actors
  <2>2. Idle("task")' = Idle("task") /\ Idle("loop")' = Idle("loop")
    BY <1>0, <1>9 DEF LeftDrop, Idle, Actors
  <2> QED
    BY <2>1, <2>2 DEF TakeTurns
<1>10. CASE GhostRecord
  <2>1. left' = left /\ odd' = odd /\ turn' = turn /\ loop' = loop /\ pending' = pending
    BY <1>10 DEF GhostRecord
  <2>2. Idle("task")' = Idle("task") /\ Idle("loop")' = Idle("loop") /\ Idle("left")' = Idle("left")
        /\ unsaved'["left"] = unsaved["left"]
    BY <1>0, <1>10 DEF GhostRecord, Record, Idle, Actors
  <2>3. turn.pc = "called" => \E m \in 1 .. Len(items') : items'[m].k = "call"
    <3>1. items' = Append(items, [k |-> "ghost", n |-> ghost.n]) /\ ghost.n \in Nat
      BY <1>10 DEF GhostRecord, Record, Types
    <3>2. [k |-> "ghost", n |-> ghost.n] \in Item
      BY <3>1 DEF Item, Kinds
    <3> QED
      BY <3>1, <3>2, CallStays DEF TakeTurns
  <2> QED
    BY <2>1, <2>2, <2>3 DEF TakeTurns
<1>11. CASE GhostEnds
  <2>1. left' = left /\ odd' = odd /\ turn' = turn /\ loop' = loop /\ pending' = pending
        /\ items' = items
    BY <1>11 DEF GhostEnds
  <2>2. Idle("task")' = Idle("task") /\ Idle("loop")' = Idle("loop") /\ Idle("left")' = Idle("left")
        /\ unsaved'["left"] = unsaved["left"]
    BY <1>0, <1>11 DEF GhostEnds, Idle, Actors
  <2> QED
    BY <2>1, <2>2 DEF TakeTurns
<1> QED
  BY <1>1, <1>2, <1>3, <1>4, <1>5, <1>6, <1>7, <1>8, <1>9, <1>10, <1>11

LEMMA CompactTakeTurns ==
  ASSUME Types, TakeTurns,
         \/ \E remote \in BOOLEAN : CompactBegin(remote)
         \/ CompactDraft \/ CompactSnapshot \/ UndoClone \/ CompactReplace \/ UndoReplace
         \/ \E kept \in {{"user", "summary"}, {"agent"}} : RemoteReplace(kept)
         \/ Restart
  PROVE  TakeTurns'
<1>0. DOMAIN unsaved = Actors /\ turn \in Turns
  BY DEF Types
<1>a. NoTurn.pc = "none" /\ NoTurn.kind = "none"
  BY DEF NoTurn
<1>1. ASSUME NEW remote \in BOOLEAN, CompactBegin(remote) PROVE TakeTurns'
  <2> DEFINE back == CASE turn.kind = "compact" -> "done"
                       [] turn.pc = "start" -> "start"
                       [] OTHER -> "top"
  <2>1. turn' = [turn EXCEPT !.pc = IF remote THEN "remote" ELSE "local", !.back = back]
        /\ back # "none"
    BY <1>1 DEF CompactBegin
  <2> HIDE DEF back
  <2>2. turn'.kind = turn.kind /\ turn'.pc \in {"remote", "local"} /\ turn'.back # "none"
    BY <1>0, <2>1 DEF Turns
  <2>3. turn.kind # "none" /\ Idle("task")
    BY <1>1 DEF CompactBegin
  <2>4. turn # NoTurn /\ turn' # NoTurn
    BY <1>a, <2>2, <2>3
  <2>5. Idle("task")' = Idle("task") /\ Idle("loop")' = Idle("loop") /\ Idle("left")' = Idle("left")
        /\ unsaved'["left"] = unsaved["left"]
    BY <1>1 DEF CompactBegin, Idle
  <2> QED
    BY <1>1, <2>2, <2>3, <2>4, <2>5 DEF CompactBegin, TakeTurns
<1>2. CASE CompactDraft
  <2>1. Idle("task")' = Idle("task") /\ Idle("loop")' = Idle("loop") /\ Idle("left")' = Idle("left")
        /\ unsaved'["left"] = unsaved["left"]
    BY <1>2 DEF CompactDraft, Idle
  <2> QED
    BY <1>2, <2>1 DEF CompactDraft, TakeTurns
<1>3. ASSUME turn.pc # "none", Idle("task"), loop' = loop, left' = left, odd \subseteq odd',
             NEW pc \in {"start", "top", "done", "compacting", "restoring"},
             turn' = [turn EXCEPT !.pc = pc],
             pc = "compacting" => turn.back # "none",
             pc \in {"compacting", "restoring"} => Idle("task")',
             \A b \in Actors \ {"task"} : unsaved'[b] = unsaved[b]
      PROVE  TakeTurns'
  <2>1. turn'.pc = pc /\ turn'.kind = turn.kind /\ turn'.back = turn.back
    BY <1>0, <1>3 DEF Turns
  <2>2. turn # NoTurn /\ turn' # NoTurn /\ turn'.kind # "none"
    BY <1>a, <1>3, <2>1 DEF TakeTurns
  <2>3. Idle("loop")' = Idle("loop") /\ Idle("left")' = Idle("left")
        /\ unsaved'["left"] = unsaved["left"]
    BY <1>3 DEF Idle, Actors
  <2> QED
    BY <1>3, <2>1, <2>2, <2>3 DEF TakeTurns
<1>4. CASE CompactSnapshot
  <2>1. Idle("task")' /\ Idle("task") /\ turn.back # "none"
    BY <1>4 DEF CompactSnapshot, TakeTurns, Idle
  <2> QED
    BY <1>3, <1>4, <2>1 DEF CompactSnapshot, Goto
<1>5. CASE UndoClone
  <2>1. Idle("task")' /\ Idle("task")
    BY <1>5 DEF UndoClone, TaskAt, Idle
  <2> QED
    BY <1>3, <1>5, <2>1 DEF UndoClone, Goto, TaskAt
<1>6. ASSUME NEW s, NEW u, Replace("task", s, u)
      PROVE  \A b \in Actors \ {"task"} : unsaved'[b] = unsaved[b]
  BY <1>0, <1>6 DEF Replace
<1>7. CASE CompactReplace
  <2>1. turn.back \in {"start", "top", "done"} /\ Idle("task")
    BY <1>0, <1>7 DEF CompactReplace, TakeTurns, Turns
  <2> QED
    BY <1>3, <1>6, <1>7, <2>1 DEF CompactReplace, Goto
<1>8. ASSUME NEW kept \in {{"user", "summary"}, {"agent"}}, RemoteReplace(kept) PROVE TakeTurns'
  <2>1. turn.back \in {"start", "top", "done"} /\ Idle("task")
    BY <1>0, <1>8 DEF RemoteReplace, TakeTurns, Turns
  <2>2. \A b \in Actors \ {"task"} : unsaved'[b] = unsaved[b]
    BY <1>6, <1>8 DEF RemoteReplace
  <2> QED
    BY <1>3, <1>8, <2>1, <2>2 DEF RemoteReplace, Goto
<1>9. CASE UndoReplace
  <2>1. Idle("task")
    BY <1>9 DEF UndoReplace, TakeTurns
  <2> QED
    BY <1>3, <1>6, <1>9, <2>1 DEF UndoReplace, Goto
<1>10. CASE Restart
  <2>1. turn' = NoTurn /\ pending' = << >> /\ left' = << >> /\ loop'.pc = "idle"
        /\ \A a \in Actors : Idle(a)'
    BY <1>10 DEF Restart, Idle
  <2> QED
    BY <1>a, <2>1 DEF TakeTurns, Actors
<1> QED
  BY <1>1, <1>2, <1>4, <1>5, <1>7, <1>8, <1>9, <1>10

LEMMA BesideTakeTurns ==
  ASSUME Types, TakeTurns, Beside
  PROVE  TakeTurns'
<1>0. DOMAIN unsaved = Actors /\ turn \in Turns
  BY DEF Types
<1>a. NoTurn.pc = "none" /\ NoTurn.kind = "none"
  BY DEF NoTurn
<1>b. Unasked \in Item /\ Aside \in Item /\ Context \in Item
  BY ItemsAre
<1>c. ASSUME NEW a \in {"loop", "aside"}, NEW i \in Item, Record(a, i, << >>)
      PROVE  /\ unsaved'["left"] = unsaved["left"] /\ unsaved'["task"] = unsaved["task"]
             /\ turn.pc = "called" => \E m \in 1 .. Len(items') : items'[m].k = "call"
  <2>1. unsaved'["left"] = unsaved["left"] /\ unsaved'["task"] = unsaved["task"]
    BY <1>0, <1>c DEF Record, Actors
  <2>2. items' = Append(items, i)
    BY <1>c DEF Record
  <2> QED
    BY <2>1, <2>2, CallStays DEF TakeTurns
<1>1. CASE OpReplaceReview
  <2>1. turn' = NoTurn /\ pending' = << >> /\ loop'.pc = "leaving"
    BY <1>1 DEF OpReplaceReview, Abort
  <2>2. Idle("task")' /\ unsaved'["left"] = unsaved["left"]
    BY <1>0, <1>1 DEF OpReplaceReview, Abort, Idle, Actors
  <2> QED
    BY <1>1, <1>a, <2>1, <2>2 DEF OpReplaceReview, TakeTurns, Idle
<1>2. CASE LoopExitReview
  <2>1. turn' = NoTurn /\ turn = NoTurn /\ loop'.pc \in {"spawning", "marking"}
    BY <1>2 DEF LoopExitReview, TakeTurns
  <2>2. unsaved'["left"] = unsaved["left"] /\ unsaved'["task"] = unsaved["task"]
    BY <1>2, <1>b, <1>c DEF LoopExitReview
  <2> QED
    BY <1>2, <1>a, <2>1, <2>2 DEF LoopExitReview, TakeTurns, Idle
<1>3. CASE LoopMark
  <2>1. turn' = NoTurn /\ turn = NoTurn /\ loop'.pc = "idle"
    BY <1>3 DEF LoopMark, TakeTurns
  <2>2. unsaved'["left"] = unsaved["left"] /\ unsaved'["task"] = unsaved["task"]
    BY <1>3, <1>b, <1>c DEF LoopMark
  <2> QED
    BY <1>3, <1>a, <2>1, <2>2 DEF LoopMark, TakeTurns, Idle
<1>4. CASE OpNote
  <2>1. loop'.pc = "noting" /\ turn # NoTurn
    BY <1>4 DEF OpNote
  <2> QED
    BY <1>4, <2>1 DEF OpNote, TakeTurns, Idle
<1>5. CASE LoopNote
  <2>1. turn' = turn /\ loop'.pc = "idle"
    BY <1>5 DEF LoopNote
  <2>2. /\ unsaved'["left"] = unsaved["left"] /\ unsaved'["task"] = unsaved["task"]
        /\ turn.pc = "called" => \E m \in 1 .. Len(items') : items'[m].k = "call"
    BY <1>5, <1>b, <1>c DEF LoopNote
  <2> QED
    BY <1>5, <2>1, <2>2 DEF LoopNote, TakeTurns, Idle
<1>6. CASE OpShell
  BY <1>6 DEF OpShell, TakeTurns, Idle
<1>7. CASE AsideInject
  BY <1>7 DEF AsideInject, TakeTurns, Idle
<1>8. CASE AsideRefused
  BY <1>8 DEF AsideRefused, TakeTurns, Idle
<1>9. CASE AsideRecord
  <2>1. turn' = turn /\ loop' = loop /\ unsaved'["loop"] = unsaved["loop"]
    BY <1>0, <1>9 DEF AsideRecord, Record, Actors
  <2>2. /\ unsaved'["left"] = unsaved["left"] /\ unsaved'["task"] = unsaved["task"]
        /\ turn.pc = "called" => \E m \in 1 .. Len(items') : items'[m].k = "call"
    BY <1>9, <1>b, <1>c DEF AsideRecord
  <2> QED
    BY <1>9, <2>1, <2>2 DEF AsideRecord, TakeTurns, Idle
<1>10. CASE TaskWarn
  <2>1. items' = Append(items, Unasked) /\ turn.pc = "called" /\ turn.kind = "regular"
    BY <1>10 DEF TaskWarn, TaskAt, Record
  <2>2. \E m \in 1 .. Len(items') : items'[m].k = "call"
    BY <1>b, <2>1, CallStays DEF TakeTurns
  <2>3. unsaved'["left"] = unsaved["left"] /\ unsaved'["loop"] = unsaved["loop"] /\ turn # NoTurn
    BY <1>0, <1>a, <1>10, <2>1 DEF TaskWarn, Record, Actors
  <2> QED
    BY <1>10, <2>1, <2>2, <2>3 DEF TaskWarn, TakeTurns, Idle
<1>11. ASSUME turn.kind = "review", NEW pc \in {"asked", "done"}, Goto(pc), loop' = loop,
              left' = left, odd' = odd \cup {"unasked"}, unsaved'["left"] = unsaved["left"]
       PROVE  TakeTurns'
  <2>1. turn'.kind = "review" /\ turn'.pc = pc
    BY <1>0, <1>11 DEF Goto, Turns
  <2>2. turn # NoTurn /\ turn' # NoTurn
    BY <1>a, <1>11, <2>1
  <2> QED
    BY <1>11, <2>1, <2>2 DEF TakeTurns, Idle
<1>12. CASE ReviewAsk
  <2>1. unsaved'["left"] = unsaved["left"]
    BY <1>0, <1>12 DEF ReviewAsk, Actors
  <2> QED
    BY <1>11, <1>12, <2>1 DEF ReviewAsk, TaskAt
<1>13. CASE ReviewExit
  <2>1. unsaved'["left"] = unsaved["left"]
    BY <1>0, <1>13 DEF ReviewExit, Record, Actors
  <2> QED
    BY <1>11, <1>13, <2>1 DEF ReviewExit, TaskAt
<1> QED
  BY <1>1, <1>2, <1>3, <1>4, <1>5, <1>6, <1>7, <1>8, <1>9, <1>10, <1>12, <1>13 DEF Beside

LEMMA NextTakeTurns ==
  ASSUME Types, TakeTurns, [Next]_vars
  PROVE  TakeTurns'
<1>1. CASE UNCHANGED vars
  BY <1>1 DEF TakeTurns, Idle, vars
<1>2. CASE \E a \in Actors : Save(a)
  BY <1>2, SaveTakeTurns
<1>3. CASE \/ OpSteer \/ OpSeed \/ OpUserTurn \/ OpInterrupt \/ RollbackReplace
           \/ \E kind \in {"compact", "undo", "review"} : OpTask(kind)
           \/ \E n \in 1 .. 2 : OpRollback(n)
  BY <1>3, LoopTakeTurns
<1>4. CASE \/ TaskPrompt \/ TaskSnapshot \/ TaskPull \/ TaskCall \/ TaskOutput \/ TaskAgent
           \/ TaskFinish \/ LeftRecord \/ LeftDrop \/ GhostRecord \/ GhostEnds
  BY <1>4, TaskTakeTurns
<1>5. CASE \/ \E remote \in BOOLEAN : CompactBegin(remote)
           \/ CompactDraft \/ CompactSnapshot \/ UndoClone \/ CompactReplace \/ UndoReplace
           \/ \E kept \in {{"user", "summary"}, {"agent"}} : RemoteReplace(kept)
           \/ Restart
  BY <1>5, CompactTakeTurns
<1>6. CASE Beside
  BY <1>6, BesideTakeTurns
<1> QED
  BY <1>1, <1>2, <1>3, <1>4, <1>5, <1>6, Zenon DEF Next, Replacing, Beside
--------------------------------------------------------------------------------
(* A clone keeps being the items but for what came since. *)
IsCloneOf(s, t, lates) ==
    /\ Len(s) <= Len(t)
    /\ s = SubSeq(t, 1, Len(s))
    /\ \A m \in Len(s) + 1 .. Len(t) :
          t[m].k \in {"ghost", "aside"} \/ (t[m].k = "user" /\ t[m].n \in lates)

LEMMA FreshClone ==
  ASSUME NEW t \in Seq(Item), NEW lates
  PROVE  IsCloneOf(t, t, lates)
<1>1. Len(t) \in Nat /\ SubSeq(t, 1, Len(t)) = t
  BY LenProperties, SubSeqFull
<1> QED
  BY <1>1 DEF IsCloneOf

LEMMA OlderClone ==
  ASSUME NEW s \in Seq(Item), NEW t \in Seq(Item), NEW lates, NEW more, lates \subseteq more,
         IsCloneOf(s, t, lates), NEW i \in Item,
         i.k \in {"ghost", "aside"} \/ (i.k = "user" /\ i.n \in more)
  PROVE  IsCloneOf(s, Append(t, i), more)
<1> DEFINE u == Append(t, i)
<1>1. /\ u \in Seq(Item) /\ Len(u) = Len(t) + 1 /\ Len(t) \in Nat /\ Len(s) \in Nat
      /\ \A m \in 1 .. Len(t) : u[m] = t[m]
      /\ u[Len(t) + 1] = i
  BY AppendProperties, LenProperties
<1> HIDE DEF u
<1>2. Len(s) <= Len(u) /\ Len(s) <= Len(t) /\ s = SubSeq(t, 1, Len(s))
  BY <1>1 DEF IsCloneOf
<1>3. SubSeq(u, 1, Len(s)) = SubSeq(t, 1, Len(s))
  <2>1. SubSeq(u, 1, Len(s)) \in Seq(Item) /\ SubSeq(t, 1, Len(s)) \in Seq(Item)
    BY <1>1, <1>2, Piece
  <2>2. \A m \in 1 .. Len(s) : u[m] = t[m] /\ u[m] \in Item
    BY <1>1, <1>2, ElementOfSeq
  <2>3. /\ Len(SubSeq(u, 1, Len(s))) = Len(s) /\ Len(SubSeq(t, 1, Len(s))) = Len(s)
        /\ \A m \in 1 .. Len(s) : SubSeq(u, 1, Len(s))[m] = u[m] /\ SubSeq(t, 1, Len(s))[m] = t[m]
    BY <1>1, <2>2
  <2> QED
    BY <2>1, <2>2, <2>3, SeqEqual
<1>4. ASSUME NEW m \in Len(s) + 1 .. Len(u)
      PROVE  u[m].k \in {"ghost", "aside"} \/ (u[m].k = "user" /\ u[m].n \in more)
  <2>1. CASE m = Len(t) + 1
    BY <1>1, <2>1
  <2>2. CASE m # Len(t) + 1
    <3>1. m \in Len(s) + 1 .. Len(t) /\ m \in 1 .. Len(t)
      BY <1>1, <2>2
    <3> QED
      BY <1>1, <3>1 DEF IsCloneOf
  <2> QED
    BY <2>1, <2>2
<1> QED
  BY <1>2, <1>3, <1>4 DEF IsCloneOf, u

LEMMA NextCloned ==
  ASSUME Types, TakeTurns, TakeTurns', Cloned, [Next]_vars
  PROVE  Cloned'
<1>0. /\ items \in Seq(Item) /\ copy \in Seq(Item) /\ turn \in Turns /\ ghost.n \in Nat
      /\ NoTurn.pc = "none" /\ NoTurn.kind = "none"
  BY DEF Types, NoTurn
<1>1. SUFFICES ASSUME Cloning' PROVE IsCloneOf(copy', items', late')
  BY DEF Cloned, IsCloneOf
<1>2. ASSUME Cloning PROVE IsCloneOf(copy, items, late)
  BY <1>2 DEF Cloned, IsCloneOf
<1>3. CASE UNCHANGED <<items, copy, late>> /\ Cloning
  BY <1>2, <1>3
<1>4. CASE copy' = items /\ items' = items
  BY <1>0, <1>4, FreshClone
<1>5. CASE UNCHANGED vars
  BY <1>1, <1>3, <1>5 DEF Cloning, vars
<1>6. ASSUME NEW a \in Actors, Save(a) PROVE IsCloneOf(copy', items', late')
  BY <1>1, <1>3, <1>6 DEF Cloning, Save
<1>7. CASE OpSteer
  BY <1>1, <1>3, <1>7 DEF Cloning, OpSteer
<1>8. CASE OpSeed \/ OpUserTurn
  <2>1. ~ Cloning'
    <3>1. OpSeed => turn' = NoTurn /\ loop'.pc = "spawning"
      BY DEF OpSeed
    <3>2. OpUserTurn => turn'.pc = "start" /\ loop'.pc = "idle"
      BY DEF OpUserTurn, NoTurn
    <3> QED
      BY <1>0, <1>8, <3>1, <3>2 DEF Cloning
  <2> QED
    BY <1>1, <2>1
<1>9. CASE OpInterrupt \/ (\E kind \in {"compact", "undo", "review"} : OpTask(kind)) \/ Restart
  <2>1. ~ Cloning'
    <3>1. OpInterrupt => turn' = NoTurn /\ loop'.pc \in {"leaving", "marking"}
      BY DEF OpInterrupt
    <3>2. ASSUME NEW kind \in {"compact", "undo", "review"}, OpTask(kind)
          PROVE  turn'.pc = "start" /\ loop'.pc = "idle"
      BY <3>2 DEF OpTask, NoTurn
    <3>3. Restart => turn' = NoTurn /\ loop'.pc = "idle"
      BY DEF Restart
    <3> QED
      BY <1>0, <1>9, <3>1, <3>2, <3>3 DEF Cloning
  <2> QED
    BY <1>1, <2>1
<1>10. ASSUME NEW n \in 1 .. 2, OpRollback(n) PROVE IsCloneOf(copy', items', late')
  BY <1>4, <1>10 DEF OpRollback
<1>11. ASSUME turn.kind = "regular", loop' = loop,
              NEW pc \in {"prompted", "top", "called", "answered", "said"}, Goto(pc)
       PROVE  FALSE
  <2>1. turn'.pc = pc /\ turn # NoTurn
    BY <1>0, <1>11 DEF Goto, Turns
  <2> QED
    BY <1>1, <1>11, <2>1 DEF Cloning, TakeTurns
<1>12. CASE TaskPrompt \/ TaskSnapshot \/ TaskPull
  BY <1>11, <1>12 DEF TaskPrompt, TaskSnapshot, TaskPull, TaskAt
<1>13. CASE TaskCall \/ TaskOutput \/ TaskAgent
  BY <1>11, <1>13 DEF TaskCall, TaskOutput, TaskAgent, TaskAt
<1>14. CASE TaskFinish
  <2>1. turn' = NoTurn /\ turn # NoTurn /\ loop' = loop
    BY <1>0, <1>14 DEF TaskFinish
  <2> QED
    BY <1>0, <1>1, <2>1 DEF Cloning, TakeTurns
<1>15. CASE LeftRecord
  <2> DEFINE i == Head(left)
  <2>1. items' = Append(items, i) /\ i \in Waits /\ copy' = copy /\ Cloning
        /\ late' = IF i.k = "user" THEN late \cup {i.n} ELSE late
    BY <1>1, <1>15 DEF LeftRecord, Record, Types, Few, Cloning
  <2> HIDE DEF i
  <2>2. i \in Item /\ late \subseteq late'
    BY <2>1, ItemsAre
  <2>3. i.k = "aside" \/ (i.k = "user" /\ i.n \in late')
    BY <2>1, WaitsAre DEF Aside
  <2> QED
    BY <1>0, <1>2, <2>1, <2>2, <2>3, OlderClone
<1>16. CASE LeftDrop \/ GhostEnds
  BY <1>1, <1>3, <1>16 DEF Cloning, LeftDrop, GhostEnds
<1>17. CASE GhostRecord
  <2> DEFINE i == [k |-> "ghost", n |-> ghost.n]
  <2>1. items' = Append(items, i) /\ i \in Item /\ i.k = "ghost" /\ copy' = copy /\ late' = late
        /\ Cloning
    BY <1>0, <1>1, <1>17 DEF GhostRecord, Record, Cloning, Item, Kinds
  <2> HIDE DEF i
  <2> QED
    BY <1>0, <1>2, <2>1, OlderClone
<1>18. ASSUME NEW remote \in BOOLEAN, CompactBegin(remote) PROVE IsCloneOf(copy', items', late')
  <2>1. turn.kind # "none" /\ items' = items /\ loop' = loop
        /\ turn'.pc = (IF remote THEN "remote" ELSE "local")
        /\ copy' = IF remote THEN items ELSE copy
    BY <1>0, <1>18 DEF CompactBegin, Turns
  <2>2. remote
    BY <1>0, <1>1, <2>1 DEF Cloning, TakeTurns
  <2> QED
    BY <1>4, <2>1, <2>2
<1>19. CASE CompactDraft
  <2>1. turn.pc = "local" /\ turn' = turn /\ loop' = loop
    BY <1>19 DEF CompactDraft
  <2> QED
    BY <1>0, <1>1, <2>1 DEF Cloning, TakeTurns
<1>20. CASE CompactSnapshot \/ UndoClone
  BY <1>4, <1>20 DEF CompactSnapshot, UndoClone
<1>21. CASE RollbackReplace
  <2>1. turn = NoTurn /\ turn' = turn /\ loop'.pc = "idle"
    BY <1>21 DEF RollbackReplace, TakeTurns
  <2> QED
    BY <1>0, <1>1, <2>1 DEF Cloning
<1>22. CASE CompactReplace \/ UndoReplace
            \/ \E kept \in {{"user", "summary"}, {"agent"}} : RemoteReplace(kept)
  <2>1. turn.pc \in {"compacting", "restoring", "remote"} /\ loop' = loop
        /\ (turn' = [turn EXCEPT !.pc = turn.back] \/ turn' = [turn EXCEPT !.pc = "done"])
    BY <1>22 DEF CompactReplace, RemoteReplace, UndoReplace, Goto
  <2>2. turn'.pc \in {"none", "start", "top", "done"} /\ turn # NoTurn
    BY <1>0, <2>1 DEF Turns
  <2> QED
    BY <1>1, <2>1, <2>2 DEF Cloning, TakeTurns
<1>23. CASE OpReplaceReview \/ LoopExitReview \/ LoopMark
  <2>1. turn' = NoTurn /\ loop'.pc # "rolling"
    <3>1. loop \in Loops
      BY DEF Types
    <3> QED
      BY <1>0, <1>23, <3>1 DEF Loops, OpReplaceReview, LoopExitReview, LoopMark, TakeTurns
  <2> QED
    BY <1>0, <1>1, <2>1 DEF Cloning
<1>24. CASE OpNote \/ OpShell \/ AsideInject \/ AsideRefused
  BY <1>1, <1>3, <1>24 DEF Cloning, OpNote, OpShell, AsideInject, AsideRefused
<1>25. CASE LoopNote \/ AsideRecord
  <2>1. items' = Append(items, Aside) /\ copy' = copy /\ late' = late /\ Cloning
    BY <1>1, <1>25 DEF LoopNote, AsideRecord, Record, Cloning
  <2>2. Aside \in Item /\ Aside.k = "aside"
    BY ItemsAre DEF Aside
  <2> QED
    BY <1>0, <1>2, <2>1, <2>2, OlderClone
<1>26. CASE TaskWarn \/ ReviewAsk \/ ReviewExit
  <2>1. turn # NoTurn /\ loop' = loop /\ turn'.pc \in {"called", "asked", "done"}
    BY <1>0, <1>26 DEF TaskWarn, ReviewAsk, ReviewExit, TaskAt, Goto, Turns
  <2> QED
    BY <1>1, <2>1 DEF Cloning, TakeTurns
<1> QED
  BY <1>5, <1>6, <1>7, <1>8, <1>9, <1>10, <1>12, <1>13, <1>14, <1>15, <1>16, <1>17, <1>18,
     <1>19, <1>20, <1>21, <1>22, <1>23, <1>24, <1>25, <1>26 DEF Next, Replacing
--------------------------------------------------------------------------------
(* Without compactions a fork is the rollout cut before its message. *)

(* Sequences put together. *)
LEMMA AppendTogether ==
  \A u, t \in Seq(Item) : \A x \in Item : Append(u \o t, x) = u \o Append(t, x)
OBVIOUS

LEMMA Together ==
  \A u, t, q \in Seq(Item) : (u \o t) \o q = u \o (t \o q)
BY ConcatAssociative, SMTT(30)

(* Cuts of what is appended to, of cuts, and that they are determined. *)
LEMMA CutMore ==
  ASSUME NEW s \in Seq(Item), NEW p \in Seq(Item), Cut(s, p), NEW i \in Item
  PROVE  Cut(Append(s, i), p)
<1>1. PICK q \in Seq(Item), x \in TurnStarts : s = Append(p, x) \o q
  BY DEF Cut
<1>2. Append(p, x) \in Seq(Item) /\ Append(q, i) \in Seq(Item)
  <2>1. x \in Item
    BY <1>1 DEF TurnStarts, OfKind
  <2> QED
    BY <1>1, <2>1
<1> DEFINE v == Append(p, x)
<1>3. v \in Seq(Item) /\ s = v \o q
  BY <1>1, <1>2
<1> HIDE DEF v
<1>4. Append(v \o q, i) = v \o Append(q, i)
  BY ONLY <1>1, <1>3, i \in Item
<1> QED
  BY <1>1, <1>2, <1>3, <1>4 DEF Cut, v

LEMMA CutHere ==
  ASSUME NEW s \in Seq(Item), NEW x \in TurnStarts
  PROVE  Cut(Append(s, x), s)
<1>1. x \in Item
  BY DEF TurnStarts, OfKind
<1>2. Append(s, x) \in Seq(Item) /\ << >> \in Seq(Item)
  BY <1>1
<1>3. Append(s, x) \o << >> = Append(s, x)
  BY <1>2, ConcatEmptySeq
<1> QED
  BY <1>2, <1>3 DEF Cut

LEMMA CutTwice ==
  ASSUME NEW s \in Seq(Item), NEW p \in Seq(Item), NEW r \in Seq(Item), Cut(s, p), Cut(p, r)
  PROVE  Cut(s, r)
<1>1. PICK q \in Seq(Item), x \in TurnStarts : s = Append(p, x) \o q
  BY DEF Cut
<1>2. PICK t \in Seq(Item), y \in TurnStarts : p = Append(r, y) \o t
  BY DEF Cut
<1>3. x \in Item /\ y \in Item
  BY <1>1, <1>2 DEF TurnStarts, OfKind
<1> DEFINE v == Append(r, y)
<1>4. v \in Seq(Item) /\ p = v \o t /\ s = Append(p, x) \o q
  BY <1>1, <1>2, <1>3
<1> HIDE DEF v
<1>5. Append(v \o t, x) = v \o Append(t, x)
  <2>1. v \in Seq(Item)
    BY <1>4
  <2>2. x \in Item
    BY <1>3
  <2> QED
    BY <2>1, <2>2, AppendTogether, Zenon
<1>6. Append(t, x) \in Seq(Item) /\ Append(t, x) \o q \in Seq(Item)
  BY <1>1, <1>2, <1>3
<1>7. (v \o Append(t, x)) \o q = v \o (Append(t, x) \o q)
  <2>1. v \in Seq(Item)
    BY <1>4
  <2> DEFINE w == Append(t, x)
  <2>2. w \in Seq(Item)
    BY <1>6
  <2> HIDE DEF w
  <2>3. (v \o w) \o q = v \o (w \o q)
    BY ONLY <2>1, <2>2, q \in Seq(Item), Together, SMTT(30)
  <2> QED
    BY <2>3 DEF w
<1>8. s = v \o (Append(t, x) \o q)
  BY ONLY <1>4, <1>5, <1>7
<1> QED
  BY <1>2, <1>6, <1>8 DEF Cut, v

LEMMA CutUnique ==
  ASSUME NEW s \in Seq(Item), NEW p \in Seq(Item), NEW r \in Seq(Item), Cut(s, p), Cut(s, r),
         Count(p) = Count(r)
  PROVE  p = r
<1>1. NthBoundary(s, Count(p)) = Len(p) + 1 /\ SubSeq(s, 1, Len(p)) = p
  BY SplitAt
<1>2. NthBoundary(s, Count(r)) = Len(r) + 1 /\ SubSeq(s, 1, Len(r)) = r
  BY SplitAt
<1>3. Len(p) \in Nat /\ Len(r) \in Nat
  BY LenProperties
<1>4. NthBoundary(s, Count(p)) = NthBoundary(s, Count(r))
  OBVIOUS
<1>5. Len(p) + 1 = Len(r) + 1
  BY ONLY <1>1, <1>2, <1>4
<1>6. Len(p) = Len(r)
  BY ONLY <1>3, <1>5
<1> QED
  BY <1>1, <1>2, <1>6

AreForks(f, s) ==
    Len(f) = Count(s) /\ \A m \in 1 .. Len(f) : Cut(s, f[m]) /\ Count(f[m]) = m - 1

(* A rollback drops the forks before the messages that it drops. *)
LEMMA ForksRolledBack ==
  ASSUME NEW f \in Seq(Seq(Item)), NEW s \in Seq(Item), AreForks(f, s), NEW n \in Nat
  PROVE  AreForks(DropLast(f, n), DropLastTurns(s, n))
<1> DEFINE g == DropLast(f, n)
           b == IF n < Len(f) THEN Len(f) - n ELSE 0
<1>1. /\ g \in Seq(Seq(Item)) /\ Len(g) = b /\ \A m \in 1 .. Len(g) : g[m] = f[m]
      /\ Len(f) \in Nat /\ Count(s) = Len(f)
  <2>1. /\ DropLast(f, n) \in Seq(Seq(Item)) /\ Len(DropLast(f, n)) = b
        /\ \A m \in 1 .. Len(DropLast(f, n)) : DropLast(f, n)[m] = f[m]
    BY DropLastIs
  <2> QED
    BY <2>1, LenProperties DEF AreForks
<1> HIDE DEF g
<1>2. CASE (n = 0 \/ Count(s) = 0) /\ DropLastTurns(s, n) = s
  <2>1. Len(g) = Len(f)
    BY <1>1, <1>2
  <2> QED
    BY <1>1, <1>2, <2>1 DEF AreForks, g
<1>3. ASSUME NEW p \in Seq(Item), n # 0, Cut(s, p), Count(p) = Kept(s, n), DropLastTurns(s, n) = p
      PROVE  AreForks(g, p)
  <2>1. Len(g) = Count(p)
    BY <1>1, <1>3 DEF Kept
  <2>2. ASSUME NEW m \in 1 .. Len(g) PROVE Cut(p, g[m]) /\ Count(g[m]) = m - 1
    <3>1. m \in 1 .. Len(f) /\ m - 1 \in Nat /\ m - 1 < Count(p)
      BY <1>1, <2>1
    <3>2. g[m] = f[m] /\ Cut(s, f[m]) /\ Count(f[m]) = m - 1 /\ f[m] \in Seq(Item)
      <4>1. g[m] = f[m]
        BY <1>1, <2>2
      <4>2. Cut(s, f[m]) /\ Count(f[m]) = m - 1
        BY <3>1 DEF AreForks
      <4>3. f[m] \in Seq(Item)
        BY <3>1, ElementOfSeq DEF AreForks
      <4> QED
        BY <4>1, <4>2, <4>3
    <3>3. PICK r \in Seq(Item) : Cut(p, r) /\ Count(r) = m - 1
      BY <3>1, Split
    <3>4. Cut(s, r)
      BY <1>3, <3>3, CutTwice
    <3>5. r = f[m]
      BY <3>2, <3>3, <3>4, CutUnique
    <3> QED
      BY <3>2, <3>3, <3>5
  <2> QED
    BY <2>1, <2>2 DEF AreForks
<1> QED
  BY <1>2, <1>3, DropTurns DEF g

LEMMA ForksRead ==
  ASSUME NEW f \in Seq(Seq(Item)), NEW s \in Seq(Item), AreForks(f, s), NEW e \in Entries,
         e.type \notin {"compacted", "replaced"}
  PROVE  AreForks(Forks(f, e, s), Resumed(s, e))
<1>1. CASE e \in [type : {"item"}, item : Item]
  <2> DEFINE i == e.item
  <2>1. i \in Item /\ Resumed(s, e) = Append(s, i)
        /\ Forks(f, e, s) = IF i \in TurnStarts THEN Append(f, s) ELSE f
    BY <1>1 DEF Resumed, Forks, TurnStarts, OfKind
  <2> HIDE DEF i
  <2>2. CASE i \in TurnStarts
    <3>1. Count(Append(s, i)) = Count(s) + 1 /\ Count(s) \in Nat
      BY <2>1, <2>2, CountMore
    <3>2. /\ Len(Append(f, s)) = Len(f) + 1 /\ Len(f) \in Nat
          /\ \A m \in 1 .. Len(f) : Append(f, s)[m] = f[m]
          /\ Append(f, s)[Len(f) + 1] = s
      BY AppendProperties, LenProperties
    <3>3. ASSUME NEW m \in 1 .. Len(f) + 1
          PROVE  Cut(Append(s, i), Append(f, s)[m]) /\ Count(Append(f, s)[m]) = m - 1
      <4>1. CASE m = Len(f) + 1
        <5>1. Cut(Append(s, i), s)
          BY <2>2, CutHere
        <5>2. Count(s) = m - 1
          BY <3>1, <3>2, <4>1 DEF AreForks
        <5> QED
          BY <3>2, <4>1, <5>1, <5>2
      <4>2. CASE m # Len(f) + 1
        <5>1. m \in 1 .. Len(f)
          BY <3>2, <4>2
        <5>2. Cut(s, f[m]) /\ Count(f[m]) = m - 1 /\ f[m] \in Seq(Item)
          BY <5>1, ElementOfSeq DEF AreForks
        <5>3. Cut(Append(s, i), f[m])
          BY <2>1, <5>2, CutMore
        <5> QED
          BY <3>2, <5>1, <5>2, <5>3
      <4> QED
        BY <4>1, <4>2
    <3>4. Len(Append(f, s)) = Count(Append(s, i))
      BY <3>1, <3>2 DEF AreForks
    <3> QED
      BY <2>1, <2>2, <3>2, <3>3, <3>4 DEF AreForks
  <2>3. CASE i \notin TurnStarts
    <3>1. Count(Append(s, i)) = Count(s)
      BY <2>1, <2>3, CountMore
    <3>2. ASSUME NEW m \in 1 .. Len(f) PROVE Cut(Append(s, i), f[m])
      <4>1. Cut(s, f[m]) /\ f[m] \in Seq(Item)
        BY ElementOfSeq DEF AreForks
      <4> QED
        BY <2>1, <4>1, CutMore
    <3> QED
      BY <2>1, <2>3, <3>1, <3>2 DEF AreForks
  <2> QED
    BY <2>2, <2>3
<1>2. CASE e \in [type : {"user_event"}, n : Nat]
  BY <1>2 DEF Resumed, Forks
<1>3. CASE e \in [type : {"rolled_back"}, n : Nat]
  <2>1. e.n \in Nat /\ Resumed(s, e) = DropLastTurns(s, e.n) /\ Forks(f, e, s) = DropLast(f, e.n)
    BY <1>3 DEF Resumed, Forks
  <2> QED
    BY <2>1, ForksRolledBack
<1>4. e # Compacted /\ e \notin [type : {"replaced"}, by : Seq(Spoken)]
  BY DEF Compacted
<1> QED
  BY <1>1, <1>2, <1>3, <1>4 DEF Entries

LEMMA InitForked == Init => Forked
<1> SUFFICES ASSUME Init PROVE Forked
  OBVIOUS
<1>1. /\ unsaved["task"] = << >> /\ rollout.items = <<Context>> /\ rollout.forks = << >>
  BY DEF Init, Actors
<1>2. Count(<<Context>>) = 0
  <2>1. << >> \in Seq(Item) /\ Context \in Item /\ Context \notin TurnStarts
    BY ItemsAre DEF TurnStarts, OfKind, Context
  <2>2. <<Context>> = Append(<< >>, Context)
    OBVIOUS
  <2> QED
    BY <2>1, <2>2, CountMore
<1> QED
  BY <1>1, <1>2 DEF Forked
(* Only the handing over changes the rollout, and without compactions it hands *)
(* over none.                                                                  *)
LEMMA NextForked ==
  ASSUME Types, TakeTurns, Forked, [Next]_vars
  PROVE  Forked'
<1> DEFINE Plain(u) == \A m \in DOMAIN u : u[m].type \notin {"compacted", "replaced"}
<1>1. SUFFICES ASSUME "compacted" \notin odd'
               PROVE  /\ Plain(unsaved'["task"])
                      /\ AreForks(rollout'.forks, rollout'.items)
  BY DEF Forked, AreForks
<1>2. ASSUME "compacted" \notin odd
      PROVE  Plain(unsaved["task"]) /\ AreForks(rollout.forks, rollout.items)
  BY <1>2 DEF Forked, AreForks
<1>3. /\ Plain(<< >>) /\ Plain(<<UserEvent(0)>>)
      /\ \A i : Plain(<<Entry(i)>>) /\ \A n : Plain(<<Entry(User(n)), UserEvent(n)>>)
  BY DEF Entry, UserEvent
<1> HIDE DEF Plain
<1>4. DOMAIN unsaved = Actors /\ "task" \in Actors /\ "loop" \in Actors /\ "left" \in Actors
      /\ "ghost" \in Actors /\ "aside" \in Actors
  BY DEF Types, Actors
<1>5. CASE rollout' = rollout /\ odd \subseteq odd'
           /\ (unsaved'["task"] = unsaved["task"] \/ Plain(unsaved'["task"]))
  BY <1>1, <1>2, <1>5
<1>6. ASSUME NEW a \in Actors, Save(a)
      PROVE  Plain(unsaved'["task"]) /\ AreForks(rollout'.forks, rollout'.items)
  <2>1. /\ rollout' = Read(rollout, Head(unsaved[a])) /\ odd' = odd
        /\ unsaved' = [unsaved EXCEPT ![a] = Tail(@)] /\ unsaved[a] # << >>
    BY <1>6 DEF Save, Idle
  <2>2. Plain(unsaved["task"]) /\ AreForks(rollout.forks, rollout.items)
    BY <1>1, <1>2, <2>1
  <2>3. unsaved[a] \in Queues(a)
    BY DEF Types
  <2> DEFINE u == unsaved[a]
             e == Head(u)
  <2>4. /\ e \in Entries /\ (a = "task" => Plain(u))
        /\ rollout'.items = Resumed(rollout.items, e)
        /\ rollout'.forks = Forks(rollout.forks, e, rollout.items)
        /\ unsaved' = [unsaved EXCEPT ![a] = Tail(u)] /\ u \in Queues(a)
    BY <2>1, <2>2, <2>3, QueueIs DEF Read
  <2>5. \/ Len(u) = 1 /\ Tail(u) = << >> /\ u[1] = e
        \/ Len(u) = 2 /\ u[1] = e /\ Tail(u) = <<u[2]>>
    BY <2>1, <2>3, QueueIs
  <2>6. e.type \notin {"compacted", "replaced"}
    <3>1. CASE a = "task"
      <4>1. 1 \in DOMAIN u /\ u[1] = e
        BY <2>5
      <4> QED
        BY <2>4, <3>1, <4>1 DEF Plain
    <3>2. CASE a # "task"
      <4>1. (\E i : u = <<Entry(i)>>) \/ (\E n : u = <<RolledBack(n)>>)
        <5>1. a = "loop" => (\E i : u = <<Entry(i)>>) \/ \E n \in 1 .. 2 : u = <<RolledBack(n)>>
          BY <2>1, <2>4 DEF Queues
        <5>2. a = "left" \/ a = "aside" => \E i \in Waits : u = <<Entry(i)>>
          BY <2>1, <2>4 DEF Queues, Waits
        <5>3. a = "ghost" => \E i \in OfKind({"ghost"}) : u = <<Entry(i)>>
          BY <2>1, <2>4 DEF Queues
        <5> QED
          BY <3>2, <5>1, <5>2, <5>3 DEF Actors
      <4>2. (\E i : e = Entry(i)) \/ (\E n : e = RolledBack(n))
        BY <4>1
      <4>3. (\A i : Entry(i).type = "item") /\ (\A n : RolledBack(n).type = "rolled_back")
        BY DEF Entry, RolledBack
      <4> HIDE DEF e
      <4> QED
        BY <4>2, <4>3
    <3> QED
      BY <3>1, <3>2
  <2>7. Plain(unsaved'["task"])
    <3>1. CASE a # "task"
      BY <1>4, <2>2, <2>4, <3>1
    <3>2. CASE a = "task"
      <4>1. unsaved'["task"] = Tail(u)
        BY <1>4, <2>4, <3>2
      <4>2. Plain(u)
        BY <2>4, <3>2
      <4>3. CASE Tail(u) = << >>
        BY <1>3, <4>1, <4>3
      <4>4. CASE Len(u) = 2 /\ Tail(u) = <<u[2]>>
        <5>1. 2 \in DOMAIN u
          BY <4>4
        <5> QED
          BY <4>1, <4>2, <4>4, <5>1 DEF Plain
      <4> QED
        BY <2>5, <4>3, <4>4
    <3> QED
      BY <3>1, <3>2
  <2> HIDE DEF u, e
  <2>8. rollout.items \in Seq(Item) /\ rollout.forks \in Seq(Seq(Item))
    BY DEF Types
  <2> QED
    BY <2>2, <2>4, <2>6, <2>7, <2>8, ForksRead
<1>7. CASE \E a \in Actors : Save(a)
  BY <1>6, <1>7
<1>8. CASE UNCHANGED vars
  BY <1>5, <1>8 DEF vars
<1>9. CASE \/ OpSteer \/ OpUserTurn \/ TaskSnapshot \/ TaskFinish
           \/ CompactDraft \/ CompactSnapshot \/ UndoClone
           \/ (\E n \in 1 .. 2 : OpRollback(n)) \/ (\E remote \in BOOLEAN : CompactBegin(remote))
  BY <1>5, <1>9 DEF OpSteer, OpUserTurn, TaskSnapshot, TaskFinish, CompactDraft, CompactSnapshot,
                    UndoClone, OpRollback, CompactBegin
<1>a. CASE OpNote \/ OpShell \/ AsideInject \/ AsideRefused
  BY <1>5, <1>a DEF OpNote, OpShell, AsideInject, AsideRefused
<1>10. CASE OpSeed \/ RollbackReplace \/ LoopExitReview \/ LoopMark \/ LoopNote
  BY <1>4, <1>5, <1>10 DEF OpSeed, RollbackReplace, LoopExitReview, LoopMark, LoopNote, Record,
                           Replace
<1>b. CASE OpInterrupt \/ OpReplaceReview
           \/ (\E kind \in {"compact", "undo", "review"} : OpTask(kind))
  BY <1>3, <1>4, <1>5, <1>b DEF OpInterrupt, OpReplaceReview, OpTask, Abort
<1>11. CASE LeftRecord \/ LeftDrop \/ GhostRecord \/ GhostEnds \/ AsideRecord
  BY <1>4, <1>5, <1>11 DEF LeftRecord, LeftDrop, GhostRecord, GhostEnds, AsideRecord, Record
<1>12. ASSUME NEW i, NEW n, rollout' = rollout, odd \subseteq odd',
              Record("task", i, << >>) \/ Record("task", User(n), <<UserEvent(n)>>)
       PROVE  rollout' = rollout /\ odd \subseteq odd' /\ Plain(unsaved'["task"])
  <2>1. \/ unsaved'["task"] = <<Entry(i)>> \o << >>
        \/ unsaved'["task"] = <<Entry(User(n))>> \o <<UserEvent(n)>>
    BY <1>4, <1>12 DEF Record
  <2>2. <<Entry(i)>> \o << >> = <<Entry(i)>>
    BY NewEntries
  <2>3. <<Entry(User(n))>> \o <<UserEvent(n)>> = <<Entry(User(n)), UserEvent(n)>>
    BY NewEntries
  <2> QED
    BY <1>3, <1>12, <2>1, <2>2, <2>3
<1>13. CASE TaskPrompt \/ TaskPull
  BY <1>5, <1>12, <1>13, PullRecords DEF TaskPrompt, TaskPull
<1>14. CASE TaskCall \/ TaskOutput \/ TaskAgent \/ TaskWarn \/ ReviewExit
  BY <1>5, <1>12, <1>14 DEF TaskCall, TaskOutput, TaskAgent, TaskWarn, ReviewExit
<1>c. CASE ReviewAsk
  BY <1>3, <1>4, <1>5, <1>c DEF ReviewAsk
<1>15. CASE CompactReplace \/ \E kept \in {{"user", "summary"}, {"agent"}} : RemoteReplace(kept)
  BY <1>1, <1>15 DEF CompactReplace, RemoteReplace
<1>16. CASE UndoReplace
  BY <1>3, <1>4, <1>5, <1>16 DEF UndoReplace, Replace
<1>17. CASE Restart
  BY <1>3, <1>4, <1>5, <1>17 DEF Restart
<1> QED
  BY <1>7, <1>8, <1>9, <1>10, <1>11, <1>13, <1>14, <1>15, <1>16, <1>17, <1>a, <1>b, <1>c
     DEF Next, Replacing

(* The forks of the invariant are those of the property. *)
LEMMA ForkedPrefix ==
  ASSUME Types, Forked
  PROVE  ForkIsPrefix
<1>1. SUFFICES ASSUME "compacted" \notin odd
               PROVE  /\ Len(rollout.forks) = Cardinality(Boundaries(rollout.items))
                      /\ \A n \in DOMAIN rollout.forks :
                            LET first == NthBoundary(rollout.items, n - 1)
                            IN  rollout.forks[n] = SubSeq(rollout.items, 1, first - 1)
  BY DEF ForkIsPrefix
<1>2. /\ rollout.items \in Seq(Item) /\ rollout.forks \in Seq(Seq(Item))
      /\ Len(rollout.forks) = Count(rollout.items)
      /\ \A m \in 1 .. Len(rollout.forks) :
             Cut(rollout.items, rollout.forks[m]) /\ Count(rollout.forks[m]) = m - 1
  BY <1>1 DEF Types, Forked
<1>3. ASSUME NEW n \in DOMAIN rollout.forks
      PROVE  rollout.forks[n] = SubSeq(rollout.items, 1, NthBoundary(rollout.items, n - 1) - 1)
  <2> DEFINE s == rollout.items
             p == rollout.forks[n]
  <2>1. s \in Seq(Item) /\ p \in Seq(Item) /\ Cut(s, p) /\ Count(p) = n - 1
    BY <1>2, ElementOfSeq, LenProperties
  <2> HIDE DEF s, p
  <2>2. NthBoundary(s, Count(p)) = Len(p) + 1 /\ SubSeq(s, 1, Len(p)) = p /\ Len(p) \in Nat
    BY <2>1, SplitAt, LenProperties
  <2>3. NthBoundary(s, n - 1) - 1 = Len(p)
    BY <2>1, <2>2
  <2> QED
    BY <2>2, <2>3 DEF s, p
<1> QED
  BY <1>2, <1>3 DEF Count
--------------------------------------------------------------------------------
(* What lasts of the rollout is what lasts of the memory. *)

(* What is seen of what is appended, put together, left out, replayed. *)
LEMMA SeenMore ==
  \A s \in Seq(Item) :
      /\ Seen(s) \in Seq(Item)
      /\ \A i \in Item : i \in Lasting => Seen(Append(s, i)) = Append(Seen(s), i)
      /\ \A i \in Item : i \notin Lasting => Seen(Append(s, i)) = Seen(s)
BY KeepMore DEF Seen

LEMMA SeenConcat ==
  \A s, t \in Seq(Item) : Seen(s \o t) = Seen(s) \o Seen(t)
BY KeepConcat DEF Seen

LEMMA SeenNone ==
  ASSUME NEW s \in Seq(Item), ToSet(s) \cap Lasting = {}
  PROVE  /\ Seen(s) = << >>
         /\ \A t \in Seq(Item) : Seen(t \o s) = Seen(t)
<1>1. Seen(s) = << >>
  BY KeepSame DEF Seen
<1>2. ASSUME NEW t \in Seq(Item) PROVE Seen(t \o s) = Seen(t)
  <2>1. Seen(t \o s) = Seen(t) \o Seen(s)
    BY SeenConcat
  <2>2. Seen(t) \in Seq(Item)
    BY SeenMore
  <2> DEFINE k == Seen(t)
  <2> HIDE DEF k
  <2>3. k \o << >> = k
    BY <2>2, ConcatEmptySeq DEF k
  <2> QED
    BY <1>1, <2>1, <2>3 DEF k
<1> QED
  BY <1>1, <1>2

LEMMA SeenOnly ==
  ASSUME NEW s \in Seq(Item), NEW t \in Seq(Item), Seen(s) = Seen(t),
         NEW kinds, kinds \cap {"ghost", "draft"} = {}
  PROVE  Only(s, kinds) = Only(t, kinds)
<1>1. Lasting \cap OfKind(kinds) = OfKind(kinds)
  BY DEF Lasting, OfKind, Item
<1>2. ASSUME NEW u \in Seq(Item) PROVE Only(u, kinds) = Keep(Seen(u), OfKind(kinds))
  <2>1. Keep(Keep(u, Lasting), OfKind(kinds)) = Keep(u, Lasting \cap OfKind(kinds))
    BY KeepIs
  <2> QED
    BY <1>1, <2>1, OnlyIs DEF Seen
<1> QED
  BY <1>2

LEMMA SeenResumed ==
  ASSUME NEW s \in Seq(Item), NEW t \in Seq(Item), Seen(s) = Seen(t), NEW e \in Entries
  PROVE  /\ Resumed(s, e) \in Seq(Item) /\ Resumed(t, e) \in Seq(Item)
         /\ Seen(Resumed(s, e)) = Seen(Resumed(t, e))
<1>1. \A u \in Seq(Item) : Resumed(u, e) \in Seq(Item)
  <2>1. << >> \in Seq(Nat) /\ << >> \in Seq(Seq(Item))
    OBVIOUS
  <2> QED
    BY <2>1, ReadersTypes
<1>2. CASE e \in [type : {"item"}, item : Item]
  <2> DEFINE i == e.item
  <2>1. i \in Item /\ \A u : Resumed(u, e) = Append(u, i)
    BY <1>2 DEF Resumed
  <2> HIDE DEF i
  <2>2. Resumed(s, e) = Append(s, i) /\ Resumed(t, e) = Append(t, i)
    BY <2>1
  <2>3. CASE i \in Lasting
    <3>1. Seen(Append(s, i)) = Append(Seen(s), i) /\ Seen(Append(t, i)) = Append(Seen(t), i)
      BY <2>1, <2>3, SeenMore
    <3> QED
      BY <1>1, <2>2, <3>1
  <2>4. CASE i \notin Lasting
    <3>1. Seen(Append(s, i)) = Seen(s) /\ Seen(Append(t, i)) = Seen(t)
      BY <2>1, <2>4, SeenMore
    <3> QED
      BY <1>1, <2>2, <3>1
  <2> QED
    BY <2>3, <2>4
<1>3. CASE e \in [type : {"user_event"}, n : Nat]
  BY <1>1, <1>3 DEF Resumed
<1>4. CASE e \in [type : {"rolled_back"}, n : Nat]
  <2> DEFINE n == e.n
  <2>1. n \in Nat /\ \A u : Resumed(u, e) = DropLastTurns(u, n)
    BY <1>4 DEF Resumed
  <2> HIDE DEF n
  <2>2. TurnStarts \subseteq Lasting
    BY DEF TurnStarts, Lasting, OfKind, Kinds
  <2>3. ASSUME NEW u \in Seq(Item) PROVE Seen(DropLastTurns(u, n)) = DropLastTurns(Seen(u), n)
    BY <2>1, <2>2, DropKeeps DEF Seen
  <2> QED
    BY <1>1, <2>1, <2>3
<1>5. CASE e = Compacted
  <2>1. \A u : Resumed(u, e) = CompactLocal(u)
    BY <1>5 DEF Resumed, Compacted
  <2>2. Only(s, {"user"}) = Only(t, {"user"})
    BY SeenOnly
  <2> QED
    BY <1>1, <2>1, <2>2 DEF CompactLocal
<1>6. CASE e \in [type : {"replaced"}, by : Seq(Spoken)]
  BY <1>1, <1>6 DEF Resumed
<1> QED
  BY <1>2, <1>3, <1>4, <1>5, <1>6 DEF Entries

LEMMA SeenAfter ==
  ASSUME NEW s \in Seq(Item), NEW t \in Seq(Item), Seen(s) = Seen(t),
         NEW a \in Actors, NEW u \in Queues(a)
  PROVE  Seen(After(s, u)) = Seen(After(t, u))
<1>1. CASE u = << >>
  BY <1>1 DEF After
<1>2. CASE u # << >> /\ Len(u) = 1 /\ u[1] = Head(u)
  <2>1. u[1] \in Entries
    BY <1>2, QueueIs
  <2> QED
    BY <1>2, <2>1, SeenResumed DEF After
<1>3. CASE u # << >> /\ Len(u) = 2 /\ u[1] = Head(u) /\ Tail(u) = <<u[2]>>
  <2>1. u[1] \in Entries /\ Tail(u) \in Queues(a)
    BY <1>3, QueueIs
  <2>2. <<u[2]>> # << >> /\ Head(<<u[2]>>) = u[2]
    OBVIOUS
  <2>3. u[2] \in Entries
    BY <1>3, <2>1, <2>2, QueueIs
  <2> DEFINE s1 == Resumed(s, u[1])
             t1 == Resumed(t, u[1])
  <2>4. s1 \in Seq(Item) /\ t1 \in Seq(Item) /\ Seen(s1) = Seen(t1)
    BY <2>1, SeenResumed
  <2>5. After(s, u) = Resumed(s1, u[2]) /\ After(t, u) = Resumed(t1, u[2])
    BY <1>3 DEF After
  <2> HIDE DEF s1, t1
  <2> QED
    BY <2>3, <2>4, <2>5, SeenResumed
<1> QED
  BY <1>1, <1>2, <1>3, QueueIs

(* What a replacement overwrites, if it leaves memory and rollout together. *)
LEMMA SeenClone ==
  ASSUME Types, Cloned, Cloning, Without(Overwritten, {"ghost"}) = << >>
  PROVE  Seen(copy) = Seen(items)
<1>1. items \in Seq(Item) /\ copy \in Seq(Item) /\ copy = SubSeq(items, 1, Len(copy))
      /\ Len(copy) <= Len(items) /\ Len(copy) \in Nat /\ Len(items) \in Nat
  BY LenProperties DEF Types, Cloned
<1>2. Overwritten \in Seq(Item)
  BY <1>1, Piece DEF Overwritten
<1>3. items = copy \o Overwritten
  <2>1. 1 \in 1 .. Len(items) + 1 /\ Len(copy) \in 1 - 1 .. Len(items)
        /\ Len(items) \in Len(copy) .. Len(items)
    BY <1>1
  <2>2. SubSeq(items, 1, Len(copy)) \o SubSeq(items, Len(copy) + 1, Len(items))
          = SubSeq(items, 1, Len(items))
    BY <1>1, <2>1, ConcatAdjacentSubSeq
  <2>3. SubSeq(items, 1, Len(items)) = items
    BY <1>1, SubSeqFull
  <2> QED
    BY <1>1, <2>2, <2>3 DEF Overwritten
<1> DEFINE w == Overwritten
           T == OfKind(Kinds \ {"ghost"})
<1>4. w \in Seq(Item) /\ Keep(w, T) = << >> /\ items = copy \o w
  BY <1>2, <1>3, OnlyIs
<1>5. Lasting \subseteq T
  BY DEF Lasting, OfKind
<1> HIDE DEF w, T
<1>6. ToSet(Keep(w, T)) = ToSet(w) \cap T
  BY <1>4, KeepIs
<1>7. ToSet(w) \cap Lasting = {}
  BY <1>4, <1>5, <1>6 DEF ToSet
<1> QED
  BY <1>1, <1>4, <1>7, SeenNone
(* The ways in which steps keep what is replayed. *)
Free == \A a \in Busy : Idle(a)

LEMMA InitReplayed == Init => Replayed
BY DEF Init, Replayed, Idle, Busy, Actors

(* Memory and rollout as they were, as far as they last. *)
LEMMA ReplayedSame ==
  ASSUME Types, Types', Replayed, torn' = FALSE => torn = FALSE,
         Seen(items') = Seen(items), Seen(rollout'.items) = Seen(rollout.items),
         ~ torn' => \A a \in Busy : unsaved'[a] = unsaved[a]
  PROVE  Replayed'
<1>1. SUFFICES ASSUME ~ torn' PROVE Replayed'
  BY DEF Replayed
<1>2. /\ \A a, b \in Busy : ~ Idle(a) /\ ~ Idle(b) => a = b
      /\ \A a \in Busy : ~ Idle(a) => Seen(After(rollout.items, unsaved[a])) = Seen(items)
      /\ Free => Seen(rollout.items) = Seen(items)
  BY <1>1 DEF Replayed, Free, Types
<1>3. \A a \in Busy : unsaved'[a] = unsaved[a] /\ a \in Actors /\ unsaved[a] \in Queues(a)
  BY <1>1 DEF Types, Busy, Actors
<1>4. rollout.items \in Seq(Item) /\ rollout'.items \in Seq(Item)
  BY DEF Types
<1>5. ASSUME NEW a \in Busy
      PROVE  Seen(After(rollout'.items, unsaved'[a])) = Seen(After(rollout.items, unsaved[a]))
  BY <1>3, <1>4, SeenAfter
<1> QED
  BY <1>2, <1>3, <1>5 DEF Replayed, Free, Idle

(* All that is new in memory waits with one actor. *)
LEMMA ReplayedNew ==
  ASSUME NEW a \in Busy, ~ torn', \A b \in Busy \ {a} : unsaved'[b] = << >>,
         unsaved'[a] = << >> => Seen(rollout'.items) = Seen(items'),
         unsaved'[a] # << >> => Seen(After(rollout'.items, unsaved'[a])) = Seen(items')
  PROVE  Replayed'
BY DEF Replayed, Idle

(* An actor records: nobody had anything to hand over. *)
LEMMA ReplayedRecord ==
  ASSUME Types, Replayed, NEW a \in Busy, Idle(a), NEW i \in Item, rollout' = rollout,
         items' = Append(items, i), torn' = FALSE => torn = FALSE,
         \/ unsaved' = [unsaved EXCEPT ![a] = <<Entry(i)>>]
         \/ \E n \in Nat : unsaved' = [unsaved EXCEPT ![a] = <<Entry(i), UserEvent(n)>>],
         ~ torn' => \A b \in Busy \ {a} : Idle(b)
  PROVE  Replayed'
<1>1. SUFFICES ASSUME ~ torn' PROVE Replayed'
  BY DEF Replayed
<1>2. Seen(rollout.items) = Seen(items)
  BY <1>1 DEF Replayed, Types
<1>3. rollout.items \in Seq(Item) /\ items \in Seq(Item) /\ DOMAIN unsaved = Actors /\ Busy \subseteq Actors
  BY DEF Types, Busy, Actors
<1>4. Entry(i) \in Entries /\ Entry(i).type = "item" /\ Entry(i).item = i
  BY DEF Entry, Entries
<1>5. \A u : Resumed(u, Entry(i)) = Append(u, i)
  BY <1>4 DEF Resumed
<1>6. \A u, n : Resumed(u, UserEvent(n)) = u
  BY DEF Resumed, UserEvent
<1>7. Seen(Append(rollout.items, i)) = Seen(Append(items, i))
  <2> DEFINE r == rollout.items
             e == Entry(i)
  <2>1. r \in Seq(Item) /\ items \in Seq(Item) /\ Seen(r) = Seen(items) /\ e \in Entries
        /\ \A u : Resumed(u, e) = Append(u, i)
    BY <1>2, <1>3, <1>4, <1>5
  <2> HIDE DEF r, e
  <2>2. Seen(Resumed(r, e)) = Seen(Resumed(items, e))
    BY <2>1, SeenResumed
  <2> QED
    BY <2>1, <2>2 DEF r
<1>8. unsaved'[a] # << >> /\ After(rollout.items, unsaved'[a]) = Append(rollout.items, i)
  <2>1. ASSUME NEW r, NEW e PROVE After(r, <<e>>) = Resumed(r, e)
    BY DEF After
  <2>2. CASE unsaved'[a] = <<Entry(i)>>
    <3>1. unsaved'[a] # << >>
      BY <2>2
    <3>2. After(rollout.items, unsaved'[a]) = Resumed(rollout.items, Entry(i))
      BY <2>1, <2>2
    <3> QED
      BY <1>5, <3>1, <3>2
  <2>3. CASE \E n \in Nat : unsaved'[a] = <<Entry(i), UserEvent(n)>>
    <3>1. PICK n \in Nat : unsaved'[a] = <<Entry(i), UserEvent(n)>>
      BY <2>3
    <3>2. unsaved'[a] # << >>
      BY <3>1
    <3> DEFINE e == Entry(i)
               f == UserEvent(n)
    <3>3. unsaved'[a] = <<e, f>>
      BY <3>1
    <3> HIDE DEF e, f
    <3>4. After(rollout.items, <<e, f>>) = Resumed(Resumed(rollout.items, e), f)
      BY DEF After
    <3>5. After(rollout.items, unsaved'[a])
            = Resumed(Resumed(rollout.items, Entry(i)), UserEvent(n))
      BY <3>3, <3>4 DEF e, f
    <3> QED
      BY <1>5, <1>6, <3>2, <3>5
  <2> QED
    BY <1>3, <2>2, <2>3
<1>9. \A b \in Busy \ {a} : unsaved'[b] = << >>
  BY <1>1, <1>3 DEF Idle
<1> QED
  BY <1>1, <1>7, <1>8, <1>9, ReplayedNew

(* What was recorded is handed over. *)
LEMMA ReplayedSave ==
  ASSUME Types, Types', Replayed, NEW a \in Actors, Save(a)
  PROVE  Replayed'
<1>1. SUFFICES ASSUME ~ torn' PROVE Replayed'
  BY DEF Replayed
<1>2. /\ rollout'.items = Resumed(rollout.items, Head(unsaved[a])) /\ unsaved[a] # << >>
      /\ unsaved' = [unsaved EXCEPT ![a] = Tail(unsaved[a])] /\ items' = items /\ torn' = torn
      /\ unsaved[a] \in Queues(a) /\ DOMAIN unsaved = Actors /\ rollout.items \in Seq(Item)
  BY DEF Save, Read, Idle, Types
<1>3. CASE a = "ghost"
  <2>1. PICK i \in OfKind({"ghost"}) : unsaved[a] = <<Entry(i)>>
    BY <1>2, <1>3 DEF Queues
  <2>2. i \in Item /\ i \notin Lasting
    BY DEF OfKind, Lasting
  <2>3. Head(unsaved[a]) = Entry(i) /\ Entry(i).type = "item" /\ Entry(i).item = i
    BY <2>1 DEF Entry
  <2>4. rollout'.items = Append(rollout.items, i)
    BY <1>2, <2>3 DEF Resumed
  <2>5. Seen(rollout'.items) = Seen(rollout.items)
    <3>1. rollout.items \in Seq(Item)
      BY <1>2
    <3>2. Seen(Append(rollout.items, i)) = Seen(rollout.items)
      BY <2>2, <3>1, SeenMore, Zenon
    <3> QED
      BY <2>4, <3>2
  <2>6. \A b \in Busy : unsaved'[b] = unsaved[b]
    BY <1>2, <1>3 DEF Busy, Actors
  <2> QED
    BY <1>2, <2>5, <2>6, ReplayedSame
<1>4. CASE a # "ghost"
  <2>1. a \in Busy /\ \A b \in Busy \ {a} : unsaved'[b] = << >>
    BY <1>1, <1>2, <1>4 DEF Replayed, Busy, Actors, Idle
  <2>2. Seen(After(rollout.items, unsaved[a])) = Seen(items')
    BY <1>1, <1>2, <2>1 DEF Replayed, Idle
  <2>3. /\ unsaved'[a] = Tail(unsaved[a])
        /\ Tail(unsaved[a]) = << >> => After(rollout.items, unsaved[a]) = rollout'.items
        /\ Tail(unsaved[a]) # << >> =>
               After(rollout.items, unsaved[a]) = After(rollout'.items, Tail(unsaved[a]))
    <3> DEFINE u == unsaved[a]
    <3>1. u \in Queues(a) /\ u # << >> /\ rollout'.items = Resumed(rollout.items, Head(u))
          /\ unsaved'[a] = Tail(u)
      BY <1>2
    <3> HIDE DEF u
    <3>2. \/ Len(u) = 1 /\ Tail(u) = << >> /\ u[1] = Head(u)
          \/ Len(u) = 2 /\ u[1] = Head(u) /\ Tail(u) = <<u[2]>>
      BY <3>1, QueueIs
    <3> QED
      BY <3>1, <3>2 DEF After, u
  <2> QED
    BY <1>1, <2>1, <2>2, <2>3, ReplayedNew
<1> QED
  BY <1>3, <1>4
LEMMA SeenUndone ==
  ASSUME NEW s \in Seq(Item)
  PROVE  Seen(Undone(s)) = Seen(s)
<1>1. CASE Undone(s) = s
  BY <1>1
<1>2. ASSUME NEW p \in Seq(Item), NEW q \in Seq(Item), NEW g \in OfKind({"ghost"}),
             s = (p \o <<g>>) \o q, Undone(s) = p \o q
      PROVE  Seen(Undone(s)) = Seen(s)
  <2>1. g \in Item /\ g \notin Lasting
    BY DEF OfKind, Lasting
  <2> DEFINE w == <<g>>
             v == p \o w
  <2>2. w \in Seq(Item) /\ ToSet(w) \cap Lasting = {}
    BY <2>1 DEF ToSet
  <2>3. v \in Seq(Item) /\ s = v \o q
    BY <1>2, <2>1
  <2> HIDE DEF w
  <2>4. Seen(v) = Seen(p)
    BY <2>2, SeenNone
  <2> HIDE DEF v
  <2>5. Seen(v \o q) = Seen(v) \o Seen(q) /\ Seen(p \o q) = Seen(p) \o Seen(q)
    BY <2>3, SeenConcat
  <2> QED
    BY <1>2, <2>3, <2>4, <2>5
<1> QED
  <2>1. \/ Undone(s) = s
        \/ \E p, q \in Seq(Item), g \in OfKind({"ghost"}) :
               s = (p \o <<g>>) \o q /\ Undone(s) = p \o q
    BY UndoneIs
  <2> QED
    BY <1>1, <1>2, <2>1, Zenon

LEMMA Replaced ==
  ASSUME Types, Cloned, Cloning, Replayed, NEW a \in {"loop", "task"}, NEW s, NEW u,
         Replace(a, s, u), Idle(a), ~ torn'
  PROVE  /\ \A b \in Busy \ {a} : unsaved'[b] = << >>
         /\ Seen(rollout.items) = Seen(copy)
         /\ unsaved'[a] = u /\ items' = s
<1>1. ~ torn /\ ~ Overlaps(a) /\ Without(Overwritten, {"ghost"}) = << >>
      /\ items' = s /\ unsaved' = [unsaved EXCEPT ![a] = u]
  BY DEF Replace, Types
<1>2. \A b \in Busy : Idle(b)
  BY <1>1 DEF Overlaps, Busy, Actors
<1>3. Seen(rollout.items) = Seen(items)
  BY <1>1, <1>2 DEF Replayed
<1>4. Seen(copy) = Seen(items)
  BY <1>1, SeenClone
<1> QED
  BY <1>1, <1>2, <1>3, <1>4 DEF Types, Busy, Actors, Idle

LEMMA ReplayedReplace ==
  ASSUME Types, TakeTurns, Cloned, Replayed, Replacing
  PROVE  Replayed'
<1>1. SUFFICES ASSUME ~ torn' PROVE Replayed'
  BY DEF Replayed
<1>2. copy \in Seq(Item) /\ rollout.items \in Seq(Item) /\ loop.n \in Nat
  BY DEF Types, Loops
<1>3. ASSUME NEW r, NEW e PROVE After(r, <<e>>) = Resumed(r, e)
  BY DEF After
<1>4. CASE RollbackReplace
  <2> DEFINE e == RolledBack(loop.n)
             s == DropLastTurns(copy, loop.n)
  <2>1. Replace("loop", s, <<e>>) /\ Cloning /\ Idle("loop") /\ rollout' = rollout
    BY <1>4 DEF RollbackReplace, Cloning, TakeTurns
  <2>2. e \in Entries /\ e.type = "rolled_back" /\ e.n = loop.n
    BY <1>2, EntriesAre DEF RolledBack
  <2>3. \A u : Resumed(u, e) = DropLastTurns(u, loop.n)
    BY <2>2 DEF Resumed
  <2>4. s = Resumed(copy, e)
    BY <2>3
  <2> HIDE DEF e, s
  <2>5. /\ \A b \in Busy \ {"loop"} : unsaved'[b] = << >>
        /\ Seen(rollout.items) = Seen(copy)
        /\ unsaved'["loop"] = <<e>> /\ items' = s
    BY <1>1, <2>1, Replaced
  <2>6. Seen(Resumed(rollout.items, e)) = Seen(Resumed(copy, e))
    BY <1>2, <2>2, <2>5, SeenResumed
  <2>7. "loop" \in Busy /\ <<e>> # << >>
    BY DEF Busy
  <2> QED
    BY <1>1, <1>3, <2>1, <2>4, <2>5, <2>6, <2>7, ReplayedNew
<1>5. CASE CompactReplace
  <2> DEFINE w == Ghosts(copy)
             s == Resumed(copy, Compacted)
  <2>1. /\ Replace("task", CompactLocal(copy) \o w, <<Compacted>>) /\ turn.pc = "compacting"
        /\ Cloning /\ Idle("task") /\ rollout' = rollout
    BY <1>5 DEF CompactReplace, Cloning, TakeTurns
  <2>2. Compacted \in Entries /\ s = CompactLocal(copy)
    BY EntriesAre DEF Resumed, Compacted
  <2>3. s \in Seq(Item) /\ w \in Seq(Item) /\ ToSet(w) \cap Lasting = {}
    <3>1. Keep(copy, OfKind({"ghost"})) \in Seq(Item)
          /\ ToSet(Keep(copy, OfKind({"ghost"}))) = ToSet(copy) \cap OfKind({"ghost"})
      BY <1>2, KeepIs
    <3>2. w = Keep(copy, OfKind({"ghost"}))
      BY <1>2, OnlyIs DEF Ghosts
    <3>3. OfKind({"ghost"}) \cap Lasting = {}
      BY DEF OfKind, Lasting
    <3>4. s \in Seq(Item)
      BY <1>2, <2>2, SpokenOnly, SeqMonotonic
    <3> QED
      BY <3>1, <3>2, <3>3, <3>4
  <2>4. Replace("task", s \o w, <<Compacted>>)
    BY <2>1, <2>2
  <2> HIDE DEF w, s
  <2>5. /\ \A b \in Busy \ {"task"} : unsaved'[b] = << >>
        /\ Seen(rollout.items) = Seen(copy)
        /\ unsaved'["task"] = <<Compacted>> /\ items' = s \o w
    BY <1>1, <2>1, <2>4, Replaced
  <2>6. Seen(Resumed(rollout.items, Compacted)) = Seen(s)
    BY <1>2, <2>2, <2>5, SeenResumed DEF s
  <2>7. Seen(s \o w) = Seen(s)
    BY <2>3, SeenNone
  <2>8. "task" \in Busy /\ <<Compacted>> # << >>
    BY DEF Busy
  <2> QED
    BY <1>1, <1>3, <2>1, <2>5, <2>6, <2>7, <2>8, ReplayedNew
<1>6. ASSUME NEW kept \in {{"user", "summary"}, {"agent"}}, RemoteReplace(kept) PROVE Replayed'
  <2> DEFINE s == CompactRemote(Only(copy, kept)) \o Ghosts(copy)
             e == CompactedTo(s)
  <2>1. Replace("task", s, <<e>>) /\ Cloning /\ Idle("task") /\ rollout' = rollout
    BY <1>6 DEF RemoteReplace, Cloning, TakeTurns
  <2>2. \A u : Resumed(u, e) = s
    BY DEF Resumed, CompactedTo
  <2> HIDE DEF e, s
  <2>3. /\ \A b \in Busy \ {"task"} : unsaved'[b] = << >>
        /\ unsaved'["task"] = <<e>> /\ items' = s
    BY <1>1, <2>1, Replaced
  <2>4. "task" \in Busy /\ <<e>> # << >>
    BY DEF Busy
  <2> QED
    BY <1>1, <1>3, <2>1, <2>2, <2>3, <2>4, ReplayedNew
<1>7. CASE UndoReplace
  <2>1. /\ Replace("task", Undone(copy), << >>) /\ Cloning /\ Idle("task") /\ rollout' = rollout
    BY <1>7 DEF UndoReplace, Cloning, TakeTurns, Undone
  <2>2. /\ \A b \in Busy \ {"task"} : unsaved'[b] = << >>
        /\ Seen(rollout.items) = Seen(copy)
        /\ unsaved'["task"] = << >> /\ items' = Undone(copy)
    BY <1>1, <2>1, Replaced
  <2>3. Seen(items') = Seen(copy) /\ "task" \in Busy
    BY <1>2, <2>2, SeenUndone DEF Busy
  <2> QED
    BY <1>1, <2>1, <2>2, <2>3, ReplayedNew
<1> QED
  BY <1>4, <1>5, <1>6, <1>7 DEF Replacing
LEMMA NextReplayed ==
  ASSUME Types, Types', TakeTurns, Cloned, Replayed, [Next]_vars
  PROVE  Replayed'
<1>1. /\ items \in Seq(Item) /\ DOMAIN unsaved = Actors /\ Busy \subseteq Actors /\ "loop" \in Busy
      /\ "task" \in Busy /\ "left" \in Busy /\ "aside" \in Busy /\ "ghost" \notin Busy
      /\ torn \in BOOLEAN /\ turn \in Turns /\ ghost.n \in Nat /\ events \in Nat
  BY DEF Types, Busy, Actors
<1>2. ASSUME UNCHANGED <<items, rollout, unsaved, torn>> PROVE Replayed'
  BY <1>2, ReplayedSame
<1>3. CASE UNCHANGED vars
  BY <1>2, <1>3 DEF vars
<1>4. CASE \E a \in Actors : Save(a)
  BY <1>4, ReplayedSave
<1>5. CASE \/ OpSteer \/ OpUserTurn \/ TaskSnapshot \/ TaskFinish \/ CompactSnapshot \/ UndoClone
           \/ (\E n \in 1 .. 2 : OpRollback(n)) \/ (\E remote \in BOOLEAN : CompactBegin(remote))
  BY <1>2, <1>5 DEF OpSteer, OpUserTurn, TaskSnapshot, TaskFinish, CompactSnapshot, UndoClone,
                    OpRollback, CompactBegin
<1>a. CASE OpNote \/ OpShell \/ AsideInject \/ AsideRefused
  BY <1>2, <1>a DEF OpNote, OpShell, AsideInject, AsideRefused
<1>6. ASSUME NEW a \in Busy, Idle(a), NEW i \in Item, NEW then, Record(a, i, then),
             rollout' = rollout, then = << >> \/ \E n \in Nat : then = <<UserEvent(n)>> /\ i = User(n)
      PROVE  Replayed'
  <2>1. /\ items' = Append(items, i) /\ torn' = (torn \/ Overlaps(a))
        /\ unsaved' = [unsaved EXCEPT ![a] = <<Entry(i)>> \o then]
    BY <1>6 DEF Record
  <2>2. \/ unsaved' = [unsaved EXCEPT ![a] = <<Entry(i)>>]
        \/ \E n \in Nat : unsaved' = [unsaved EXCEPT ![a] = <<Entry(i), UserEvent(n)>>]
    <3>1. CASE then = << >>
      <4>1. <<Entry(i)>> \o << >> = <<Entry(i)>>
        BY NewEntries
      <4> QED
        BY <2>1, <3>1, <4>1
    <3>2. CASE \E n \in Nat : then = <<UserEvent(n)>> /\ i = User(n)
      <4>1. PICK n \in Nat : then = <<UserEvent(n)>> /\ i = User(n)
        BY <3>2
      <4>2. <<Entry(i)>> \o then = <<Entry(i), UserEvent(n)>>
        BY <4>1, NewEntries
      <4> QED
        BY <2>1, <4>2
    <3> QED
      BY <1>6, <3>1, <3>2
  <2>3. ~ torn' => \A b \in Busy \ {a} : Idle(b)
    BY <1>1, <2>1 DEF Overlaps, Busy, Actors
  <2>4. torn' = FALSE => torn = FALSE
    BY <1>1, <2>1
  <2> QED
    BY <1>6, <2>1, <2>2, <2>3, <2>4, ReplayedRecord
<1>7. CASE OpSeed
  <2>1. Record("loop", Context, << >>) /\ Idle("loop") /\ rollout' = rollout
    BY <1>7 DEF OpSeed, LoopFree
  <2> QED
    BY <1>1, <1>6, <2>1, ItemsAre
<1>8. CASE TaskPrompt
  <2>1. /\ Record("task", User(turn.n), <<UserEvent(turn.n)>>) /\ Idle("task") /\ rollout' = rollout
        /\ turn.n \in Nat
    BY <1>1, <1>8 DEF TaskPrompt, TaskAt, Turns
  <2> QED
    BY <1>1, <1>6, <2>1, ItemsAre
<1>9. CASE TaskPull
  <2>1. Idle("task") /\ rollout' = rollout
    BY <1>9 DEF TaskPull, TaskAt
  <2> QED
    BY <1>1, <1>6, <1>9, <2>1, PullRecords, ItemsAre
<1>10. CASE TaskCall
  <2>1. /\ Record("task", [k |-> "call", n |-> events + 1], << >>) /\ Idle("task")
        /\ rollout' = rollout /\ [k |-> "call", n |-> events + 1] \in Item
    BY <1>1, <1>10 DEF TaskCall, TaskAt, Item, Kinds
  <2> QED
    BY <1>1, <1>6, <2>1
<1>11. CASE TaskOutput
  <2>1. PICK n \in Nat : Record("task", Output(n), << >>)
    BY <1>11, OutputIs
  <2>2. Output(n) \in Item
    BY DEF Output, Item, Kinds
  <2>3. Idle("task") /\ rollout' = rollout
    BY <1>11 DEF TaskOutput, TaskAt
  <2> QED
    BY <1>1, <1>6, <2>1, <2>2, <2>3
<1>12. CASE TaskAgent
  <2>1. /\ Record("task", [k |-> "agent", n |-> turn.n], << >>) /\ Idle("task")
        /\ rollout' = rollout /\ [k |-> "agent", n |-> turn.n] \in Item
    BY <1>1, <1>12 DEF TaskAgent, TaskAt, Item, Kinds, Turns
  <2> QED
    BY <1>1, <1>6, <2>1
<1>13. CASE LeftRecord
  <2>1. /\ Record("left", Head(left), << >>) /\ Idle("left") /\ rollout' = rollout
        /\ Head(left) \in Waits
    BY <1>13 DEF LeftRecord, TakeTurns, Types, Few
  <2> QED
    BY <1>1, <1>6, <2>1, ItemsAre
<1>14. CASE LoopExitReview \/ LoopMark \/ LoopNote \/ AsideRecord
  <2>1. /\ rollout' = rollout
        /\ \/ Idle("loop") /\ \E i \in {Unasked, Context, Aside} : Record("loop", i, << >>)
           \/ Idle("aside") /\ Record("aside", Aside, << >>)
    BY <1>14 DEF LoopExitReview, LoopMark, LoopNote, AsideRecord
  <2> QED
    BY <1>1, <1>6, <2>1, ItemsAre
<1>b. CASE TaskWarn \/ ReviewExit
  <2>1. Record("task", Unasked, << >>) /\ Idle("task") /\ rollout' = rollout
    BY <1>b DEF TaskWarn, ReviewExit, TaskAt
  <2> QED
    BY <1>1, <1>6, <2>1, ItemsAre
<1>c. CASE ReviewAsk
  <2>1. /\ items' = items /\ rollout' = rollout /\ torn' = (torn \/ Overlaps("task"))
        /\ unsaved' = [unsaved EXCEPT !["task"] = <<UserEvent(0)>>] /\ Idle("task")
    BY <1>c DEF ReviewAsk, TaskAt
  <2>2. SUFFICES ASSUME ~ torn' PROVE Replayed'
    BY DEF Replayed
  <2>3. ~ torn /\ \A b \in Busy : Idle(b)
    BY <1>1, <2>1, <2>2 DEF Overlaps, Busy, Actors
  <2>4. Seen(rollout.items) = Seen(items)
    BY <2>3 DEF Replayed
  <2>5. unsaved'["task"] = <<UserEvent(0)>> /\ \A b \in Busy \ {"task"} : unsaved'[b] = << >>
    BY <1>1, <2>1, <2>3 DEF Idle
  <2>6. After(rollout.items, <<UserEvent(0)>>) = rollout.items
    <3>1. \A r, e : After(r, <<e>>) = Resumed(r, e)
      BY DEF After
    <3>2. \A r : Resumed(r, UserEvent(0)) = r
      BY DEF Resumed, UserEvent
    <3> QED
      BY <3>1, <3>2
  <2>7. <<UserEvent(0)>> # << >>
    OBVIOUS
  <2> QED
    BY <1>1, <2>1, <2>2, <2>4, <2>5, <2>6, <2>7, ReplayedNew
<1>15. CASE OpInterrupt \/ OpReplaceReview
            \/ (\E kind \in {"compact", "undo", "review"} : OpTask(kind)) \/ LeftDrop
  <2>1. /\ items' = items /\ rollout' = rollout
        /\ \E a \in {"task", "left"} :
               unsaved' = [unsaved EXCEPT ![a] = << >>] /\ torn' = (torn \/ ~ Idle(a))
    BY <1>15 DEF OpInterrupt, OpReplaceReview, OpTask, Abort, LeftDrop
  <2>2. ~ torn' => \A b \in Busy : unsaved'[b] = unsaved[b]
    BY <1>1, <2>1 DEF Idle
  <2> QED
    BY <1>1, <2>1, <2>2, ReplayedSame
<1>16. CASE GhostRecord \/ CompactDraft
  <2>1. /\ \E i \in Item : i \notin Lasting /\ items' = Append(items, i)
        /\ rollout' = rollout /\ torn' = torn /\ \A b \in Busy : unsaved'[b] = unsaved[b]
    <3>1. [k |-> "ghost", n |-> ghost.n] \in Item /\ [k |-> "draft", n |-> 0] \in Item
          /\ [k |-> "ghost", n |-> ghost.n] \notin Lasting /\ [k |-> "draft", n |-> 0] \notin Lasting
      BY <1>1 DEF Item, Kinds, Lasting, OfKind
    <3>2. CASE CompactDraft
      BY <3>1, <3>2 DEF CompactDraft
    <3>3. CASE GhostRecord
      <4>1. /\ items' = Append(items, [k |-> "ghost", n |-> ghost.n]) /\ rollout' = rollout
            /\ torn' = (torn \/ Overlaps("ghost")) /\ ~ Overlaps("ghost")
            /\ \E u : unsaved' = [unsaved EXCEPT !["ghost"] = u]
        BY <3>3 DEF GhostRecord, Record, Overlaps
      <4> QED
        BY <1>1, <3>1, <4>1
    <3> QED
      BY <1>16, <3>2, <3>3
  <2>2. Seen(items') = Seen(items)
    BY <1>1, <2>1, SeenMore
  <2> QED
    BY <2>1, <2>2, ReplayedSame
<1>17. CASE GhostEnds
  <2>1. /\ items' = items /\ rollout' = rollout /\ torn' = torn
        /\ \A b \in Busy : unsaved'[b] = unsaved[b]
    BY <1>1, <1>17 DEF GhostEnds
  <2> QED
    BY <2>1, ReplayedSame
<1>18. CASE Replacing
  BY <1>18, ReplayedReplace
<1>19. CASE Restart
  <2>1. /\ items' = rollout.items /\ rollout' = rollout /\ torn' = FALSE
        /\ \A b \in Busy : unsaved'[b] = << >>
    BY <1>1, <1>19 DEF Restart
  <2> QED
    BY <1>1, <2>1, ReplayedNew
<1> QED
  BY <1>3, <1>4, <1>5, <1>7, <1>8, <1>9, <1>10, <1>11, <1>12, <1>13, <1>14, <1>15, <1>16, <1>17,
     <1>18, <1>19, <1>a, <1>b, <1>c DEF Next

(* What lasts is all of what a resume is compared by. *)
LEMMA ReplayedMatches ==
  ASSUME Types, Replayed
  PROVE  ReplayMatches
<1>1. \A s \in Seq(Item) : Without(s, {"ghost", "draft"}) = Seen(s)
  BY OnlyIs DEF Seen, Lasting
<1>2. AllSaved /\ ~ torn => Seen(rollout.items) = Seen(items)
  BY DEF Replayed, AllSaved, Busy, Actors
<1>3. items \in Seq(Item) /\ rollout.items \in Seq(Item)
  BY DEF Types
<1> QED
  BY <1>1, <1>2, <1>3 DEF ReplayMatches
--------------------------------------------------------------------------------
(* The turns of the clients are the messages in memory. *)

(* The numbers of messages, of one more, of what is seen. *)
LEMMA NamedIs ==
  ASSUME NEW s \in Seq(Item)
  PROVE  /\ Named(s) \in Seq(Nat) /\ Len(Named(s)) = Len(s)
         /\ \A m \in 1 .. Len(s) : Named(s)[m] = s[m].n
<1>1. DOMAIN s = 1 .. Len(s) /\ Len(s) \in Nat /\ \A m \in 1 .. Len(s) : s[m] \in Item
  BY ElementOfSeq, LenProperties
<1>2. \A m \in 1 .. Len(s) : s[m].n \in Nat
  BY <1>1 DEF Item
<1>3. Named(s) = [m \in 1 .. Len(s) |-> s[m].n]
  BY <1>1 DEF Named
<1>4. Named(s) \in [1 .. Len(s) -> Nat]
  BY <1>2, <1>3
<1> QED
  BY <1>1, <1>3, <1>4

LEMMA NumbersMore ==
  ASSUME NEW s \in Seq(Item), NEW i \in Item
  PROVE  /\ Numbers(s) \in Seq(Nat)
         /\ i.k = "user" => Numbers(Append(s, i)) = Append(Numbers(s), i.n)
         /\ i.k # "user" => Numbers(Append(s, i)) = Numbers(s)
<1> DEFINE T == OfKind({"user"})
           u == Keep(s, T)
           v == Keep(Append(s, i), T)
<1>1. Numbers(s) = Named(u) /\ Numbers(Append(s, i)) = Named(v)
  BY AppendProperties, OnlyIs DEF Numbers
<1>2. /\ u \in Seq(Item)
      /\ i \in T => v = Append(u, i)
      /\ i \notin T => v = u
  BY KeepMore
<1>3. i \in T <=> i.k = "user"
  BY DEF OfKind
<1> HIDE DEF u, v, T
<1>4. ASSUME i.k = "user" PROVE Named(Append(u, i)) = Append(Named(u), i.n)
  <2>1. /\ Append(u, i) \in Seq(Item) /\ Len(Append(u, i)) = Len(u) + 1 /\ Len(u) \in Nat
        /\ \A m \in 1 .. Len(u) : Append(u, i)[m] = u[m]
        /\ Append(u, i)[Len(u) + 1] = i
    BY <1>2, AppendProperties, LenProperties
  <2>2. /\ Named(u) \in Seq(Nat) /\ Len(Named(u)) = Len(u) /\ \A m \in 1 .. Len(u) : Named(u)[m] = u[m].n
    BY <1>2, NamedIs
  <2> DEFINE a == Append(u, i)
  <2>3. /\ Named(a) \in Seq(Nat) /\ Len(Named(a)) = Len(a) /\ \A m \in 1 .. Len(a) : Named(a)[m] = a[m].n
    BY <2>1, NamedIs
  <2> DEFINE x == Named(u)
             y == Append(x, i.n)
  <2>4. i.n \in Nat
    BY DEF Item
  <2>5. y \in Seq(Nat) /\ Len(y) = Len(u) + 1 /\ y[Len(u) + 1] = i.n
        /\ \A m \in 1 .. Len(u) : y[m] = u[m].n
    BY <2>2, <2>4, AppendProperties
  <2> HIDE DEF a, x, y
  <2>6. \A m \in 1 .. Len(u) + 1 : Named(a)[m] = y[m]
    <3> SUFFICES ASSUME NEW m \in 1 .. Len(u) + 1 PROVE Named(a)[m] = y[m]
      OBVIOUS
    <3>1. m \in 1 .. Len(u) \/ m = Len(u) + 1
      BY <2>1
    <3>2. Len(a) = Len(u) + 1 /\ a[Len(u) + 1] = i /\ \A l \in 1 .. Len(u) : a[l] = u[l]
      BY <2>1 DEF a
    <3> QED
      BY <2>1, <2>3, <2>5, <3>1, <3>2
  <2>7. Len(Named(a)) = Len(u) + 1
    BY <2>1, <2>3 DEF a
  <2>8. Named(a) = y
    BY <2>3, <2>5, <2>6, <2>7, SeqEqual
  <2> QED
    BY <2>8 DEF a, x, y
<1> QED
  BY <1>1, <1>2, <1>3, <1>4, NamedIs

LEMMA UnsummarizedIs ==
  ASSUME NEW s \in Seq(Item)
  PROVE  Unsummarized(s) <=> Only(s, {"summary"}) = << >>
<1> DEFINE T == OfKind({"summary"})
           k == Keep(s, T)
<1>1. k \in Seq(Item) /\ ToSet(k) = ToSet(s) \cap T /\ Only(s, {"summary"}) = k
  BY KeepIs, OnlyIs
<1>2. ToSet(s) \cap T = {} => k = << >>
  BY KeepSame
<1> HIDE DEF k
<1>3. \A m \in 1 .. Len(s) : s[m] \in Item
  BY ElementOfSeq
<1>4. Unsummarized(s) <=> ToSet(s) \cap T = {}
  BY <1>3, LenProperties DEF Unsummarized, ToSet, OfKind
<1>5. k = << >> => ToSet(k) = {}
  BY DEF ToSet
<1> QED
  BY <1>1, <1>2, <1>4, <1>5

LEMMA SeenNumbers ==
  ASSUME NEW s \in Seq(Item), NEW t \in Seq(Item), Seen(s) = Seen(t)
  PROVE  Numbers(s) = Numbers(t) /\ (Unsummarized(s) <=> Unsummarized(t))
<1>1. Only(s, {"user"}) = Only(t, {"user"}) /\ Only(s, {"summary"}) = Only(t, {"summary"})
  BY SeenOnly
<1> QED
  BY <1>1, UnsummarizedIs DEF Numbers

(* Without summaries the turns of the model are those of the clients. *)
LEMMA DropStarts ==
  ASSUME NEW s \in Seq(TurnStarts), NEW n \in Nat
  PROVE  DropLastTurns(s, n) = DropLast(s, n)
<1>1. \A p \in Seq(TurnStarts) : p \in Seq(Item) /\ Count(p) = Len(p)
  <2> SUFFICES ASSUME NEW p \in Seq(TurnStarts) PROVE p \in Seq(Item) /\ Count(p) = Len(p)
    OBVIOUS
  <2>1. p \in Seq(Item)
    BY SeqMonotonic DEF TurnStarts, OfKind
  <2>2. \A m \in 1 .. Len(p) : p[m] \in TurnStarts
    BY ElementOfSeq
  <2>3. Boundaries(p) = 1 .. Len(p) /\ Len(p) \in Nat
    BY <2>2, LenProperties DEF Boundaries, TurnStarts, OfKind
  <2>4. \A l \in Nat : Cardinality(1 .. l) = l
    <3> SUFFICES ASSUME NEW l \in Nat PROVE Cardinality(1 .. l) = l
      OBVIOUS
    <3>1. 1 \in Int /\ l \in Int
      OBVIOUS
    <3>2. Cardinality(1 .. l) = IF 1 > l THEN 0 ELSE l - 1 + 1
      BY <3>1, FS_Interval
    <3> QED
      BY <3>2
  <2> QED
    BY <2>1, <2>3, <2>4 DEF Count
<1>2. s \in Seq(Item) /\ Count(s) = Len(s) /\ Len(s) \in Nat
  BY <1>1, LenProperties
<1>3. CASE n = 0 \/ Len(s) = 0
  <2>1. DropLast(s, n) = SubSeq(s, 1, Len(s))
    BY <1>2, <1>3 DEF DropLast
  <2>2. DropLastTurns(s, n) = s
    BY <1>2, <1>3 DEF DropLastTurns, Count
  <2> QED
    BY <1>2, <2>1, <2>2, SubSeqFull
<1>4. CASE n # 0 /\ Len(s) # 0
  <2> DEFINE b == IF n < Len(s) THEN Len(s) - n ELSE 0
             p == SubSeq(s, 1, b)
  <2>1. b \in Nat /\ b + 1 \in 1 .. Len(s) /\ b = Kept(s, n) /\ DropLast(s, n) = p
    BY <1>2, <1>4 DEF Kept, DropLast
  <2> HIDE DEF b
  <2>2. p \in Seq(TurnStarts) /\ Len(p) = b
    <3>1. DropLast(s, n) \in Seq(TurnStarts) /\ Len(DropLast(s, n)) = b
      BY <1>2, DropLastIs DEF b
    <3> QED
      BY <2>1, <3>1
  <2> DEFINE j == b + 1
             q == SubSeq(s, j + 1, Len(s))
             x == s[j]
  <2>3. q \in Seq(TurnStarts) /\ s = (p \o <<x>>) \o q /\ j \in 1 .. Len(s)
    <3>1. j \in 1 .. Len(s) /\ j - 1 = b
      BY <2>1
    <3> HIDE DEF j
    <3>2. /\ SubSeq(s, j + 1, Len(s)) \in Seq(TurnStarts)
          /\ s = (SubSeq(s, 1, j - 1) \o <<s[j]>>) \o SubSeq(s, j + 1, Len(s))
      BY <3>1, TakeApart
    <3> QED
      BY <3>1, <3>2
  <2>4. q \in Seq(Item) /\ x \in TurnStarts /\ p \in Seq(Item) /\ s = (p \o <<x>>) \o q /\ Count(p) = b
    BY <1>1, <2>1, <2>2, <2>3, ElementOfSeq
  <2> HIDE DEF p, q, x
  <2>5. p \o <<x>> = Append(p, x)
    BY <2>4, AppendIsConcat DEF TurnStarts, OfKind
  <2>6. Cut(s, p)
    BY <2>4, <2>5 DEF Cut
  <2>7. DropLastTurns(s, n) = p
    BY <1>4, <2>1, <2>4, <2>6, DropIs
  <2> QED
    BY <2>1, <2>7 DEF p
<1> QED
  BY <1>3, <1>4

LEMMA NumbersDropped ==
  ASSUME NEW s \in Seq(Item), Unsummarized(s), NEW n \in Nat
  PROVE  Numbers(DropLastTurns(s, n)) = DropLast(Numbers(s), n)
<1> DEFINE U == OfKind({"user"})
           d == DropLastTurns(s, n)
           k == Keep(s, U)
<1>1. d \in Seq(Item)
  BY DropType
<1>2. TurnStarts \cap U = U
  BY DEF TurnStarts, OfKind
<1>3. Keep(s, TurnStarts) = k
  <2>1. \A m \in 1 .. Len(s) : s[m] \in Item /\ s[m].k # "summary"
    BY ElementOfSeq DEF Unsummarized
  <2>2. ToSet(s) \cap TurnStarts = ToSet(s) \cap U
    BY <2>1, LenProperties DEF ToSet, TurnStarts, OfKind
  <2> QED
    BY <2>2, KeepSame
<1>4. Keep(d, TurnStarts) = DropLastTurns(k, n)
  BY <1>3, DropKeeps
<1>5. Keep(d, U) = Keep(Keep(d, TurnStarts), U)
  BY <1>1, <1>2, KeepIs
<1>6. k \in Seq(Item) /\ k \in Seq(U) /\ k \in Seq(TurnStarts)
  <2>1. k = Only(s, {"user"})
    BY OnlyIs
  <2>2. U \subseteq TurnStarts
    BY <1>2
  <2> QED
    BY <2>1, <2>2, OnlyOf, SeqMonotonic
<1> HIDE DEF k
<1>7. DropLastTurns(k, n) = DropLast(k, n) /\ DropLast(k, n) \in Seq(U) /\ DropLast(k, n) \in Seq(Item)
  BY <1>6, DropStarts, DropLastIs
<1> DEFINE l == DropLast(k, n)
<1>8. l \in Seq(U) /\ l \in Seq(Item) /\ Keep(d, U) = Keep(l, U)
  BY <1>4, <1>5, <1>7
<1> HIDE DEF d, U, l
<1>9. Keep(l, U) = l
  <2>1. ToSet(l) \subseteq U
    BY <1>8, ElementOfSeq, LenProperties DEF ToSet
  <2> QED
    BY <1>8, <2>1, KeepSame
<1>10. Numbers(d) = Named(l) /\ Numbers(s) = Named(k)
  <2>1. Only(d, {"user"}) = Keep(d, U) /\ Only(s, {"user"}) = k
    BY <1>1, OnlyIs DEF k, U
  <2> QED
    BY <1>8, <1>9, <2>1 DEF Numbers
<1>11. Named(l) = DropLast(Named(k), n)
  <2>1. /\ Named(k) \in Seq(Nat) /\ Len(Named(k)) = Len(k) /\ \A m \in 1 .. Len(k) : Named(k)[m] = k[m].n
        /\ Named(l) \in Seq(Nat) /\ Len(Named(l)) = Len(l) /\ \A m \in 1 .. Len(l) : Named(l)[m] = l[m].n
    BY <1>6, <1>8, NamedIs
  <2>2. /\ Len(l) = (IF n < Len(k) THEN Len(k) - n ELSE 0)
        /\ \A m \in 1 .. Len(l) : l[m] = k[m]
    BY <1>6, DropLastIs DEF l
  <2> DEFINE x == Named(k)
             y == DropLast(x, n)
  <2>3. /\ y \in Seq(Nat) /\ Len(y) = (IF n < Len(x) THEN Len(x) - n ELSE 0)
        /\ \A m \in 1 .. Len(y) : y[m] = x[m]
    BY <2>1, DropLastIs
  <2>4. Len(x) = Len(k) /\ \A m \in 1 .. Len(k) : x[m] = k[m].n
    BY <2>1
  <2> HIDE DEF x, y
  <2>5. Len(k) \in Nat
    BY <1>6, LenProperties
  <2>6. Len(y) = Len(l) /\ \A m \in 1 .. Len(l) : m \in 1 .. Len(k)
    BY <2>2, <2>3, <2>4, <2>5
  <2>7. \A m \in 1 .. Len(l) : y[m] = Named(l)[m]
    BY <2>1, <2>2, <2>3, <2>4, <2>6
  <2>8. Named(l) = y
    BY <2>1, <2>3, <2>6, <2>7, SeqEqual
  <2> QED
    BY <2>8 DEF x, y
<1> QED
  BY <1>10, <1>11 DEF d
(* The ways in which steps keep what the clients were told. *)
LEMMA InitTold == Init => Told
<1> SUFFICES ASSUME Init PROVE Told
  OBVIOUS
<1>1. items = <<Context>> /\ rollout.turns = << >> /\ Free
  BY DEF Init, Free, Idle, Busy, Actors
<1>2. Unsummarized(items)
  BY <1>1 DEF Unsummarized, Context
<1>3. Numbers(items) = << >>
  <2>1. OfKind({"user"}) \cap {Context} = {} /\ Context \in Item
    BY ItemsAre DEF OfKind, Context
  <2>2. ToSet(items) \cap OfKind({"user"}) = {} /\ items \in Seq(Item)
    BY <1>1, <2>1 DEF ToSet
  <2>3. Only(items, {"user"}) = << >>
    <3> DEFINE T == OfKind({"user"})
    <3>1. ToSet(items) \cap T = {} /\ Only(items, {"user"}) = Keep(items, T)
      BY <2>2, OnlyIs
    <3> HIDE DEF T
    <3> QED
      BY <2>2, <3>1, KeepSame
  <2> QED
    BY <2>3 DEF Numbers, Named
<1> QED
  BY <1>1, <1>2, <1>3 DEF Told, Free

(* Memory and turns as they were. *)
LEMMA ToldSame ==
  ASSUME Told, torn' = FALSE => torn = FALSE, torn' \in BOOLEAN, torn \in BOOLEAN,
         odd' = {} => odd = {}, Numbers(items') = Numbers(items),
         Unsummarized(items) => Unsummarized(items'), rollout'.turns = rollout.turns,
         ~ torn' => \A a \in Busy : unsaved'[a] = unsaved[a]
  PROVE  Told'
BY DEF Told, Idle

(* All that is new in memory waits with one actor. *)
LEMMA ToldNew ==
  ASSUME NEW a \in Busy, ~ torn' /\ odd' = {} =>
             /\ \A b \in Busy \ {a} : unsaved'[b] = << >>
             /\ Unsummarized(items')
             /\ unsaved'[a] = << >> => rollout'.turns = Numbers(items')
             /\ unsaved'[a] # << >> => TurnsAfter(rollout'.turns, unsaved'[a]) = Numbers(items')
  PROVE  Told'
BY DEF Told, Idle

(* An actor records: nobody had anything to hand over. *)
LEMMA ToldRecord ==
  ASSUME Types, Told, NEW a \in Busy, NEW i \in Item, rollout' = rollout,
         items' = Append(items, i), torn' = FALSE => torn = FALSE, torn' \in BOOLEAN,
         odd' = {} => odd = {},
         \/ i.k \notin {"user", "summary"} /\ unsaved' = [unsaved EXCEPT ![a] = <<Entry(i)>>]
         \/ i.k = "user" /\ unsaved' = [unsaved EXCEPT ![a] = <<Entry(i), UserEvent(i.n)>>],
         ~ torn' => Free
  PROVE  Told'
<1>1. SUFFICES ASSUME ~ torn', odd' = {} PROVE Told'
  BY DEF Told
<1>2. rollout.turns = Numbers(items) /\ Unsummarized(items)
  BY <1>1 DEF Told, Types, Free
<1>3. items \in Seq(Item) /\ DOMAIN unsaved = Actors /\ Busy \subseteq Actors
  BY DEF Types, Busy, Actors
<1>4. \A b \in Busy \ {a} : unsaved'[b] = << >>
  BY <1>1, <1>3 DEF Idle, Free
<1>5. Unsummarized(items')
  <2>1. /\ Len(items') = Len(items) + 1 /\ Len(items) \in Nat
        /\ \A m \in 1 .. Len(items) : items'[m] = items[m]
        /\ items'[Len(items) + 1] = i
    BY <1>3, AppendProperties, LenProperties
  <2>2. i.k # "summary"
    OBVIOUS
  <2> QED
    BY <1>2, <2>1, <2>2 DEF Unsummarized
<1>6. \A t : ClientTurns(t, Entry(i)) = t
  BY DEF ClientTurns, Entry
<1>7. \A t, n : ClientTurns(t, UserEvent(n)) = Append(t, n)
  BY DEF ClientTurns, UserEvent
<1>8. unsaved'[a] # << >> /\ TurnsAfter(rollout.turns, unsaved'[a]) = Numbers(items')
  <2>1. CASE i.k = "user" /\ unsaved' = [unsaved EXCEPT ![a] = <<Entry(i), UserEvent(i.n)>>]
    <3> DEFINE e == Entry(i)
               f == UserEvent(i.n)
    <3>1. unsaved'[a] = <<e, f>>
      BY <1>3, <2>1
    <3>2. ClientTurns(ClientTurns(rollout.turns, e), f) = Append(rollout.turns, i.n)
      BY <1>6, <1>7
    <3> HIDE DEF e, f
    <3>3. TurnsAfter(rollout.turns, <<e, f>>) = ClientTurns(ClientTurns(rollout.turns, e), f)
      BY DEF TurnsAfter
    <3>4. Numbers(items') = Append(Numbers(items), i.n)
      BY <1>3, <2>1, NumbersMore
    <3>5. unsaved'[a] # << >>
      BY <3>1
    <3> QED
      BY <1>2, <3>1, <3>2, <3>3, <3>4, <3>5
  <2>2. CASE i.k \notin {"user", "summary"} /\ unsaved' = [unsaved EXCEPT ![a] = <<Entry(i)>>]
    <3> DEFINE e == Entry(i)
    <3>1. unsaved'[a] = <<e>>
      BY <1>3, <2>2
    <3>2. ClientTurns(rollout.turns, e) = rollout.turns
      BY <1>6
    <3> HIDE DEF e
    <3>3. TurnsAfter(rollout.turns, <<e>>) = ClientTurns(rollout.turns, e)
      BY DEF TurnsAfter
    <3>4. Numbers(items') = Numbers(items)
      BY <1>3, <2>2, NumbersMore
    <3>5. unsaved'[a] # << >>
      BY <3>1
    <3> QED
      BY <1>2, <3>1, <3>2, <3>3, <3>4, <3>5
  <2> QED
    BY <2>1, <2>2
<1> QED
  BY <1>1, <1>4, <1>5, <1>8, ToldNew

(* What was recorded is handed over. *)
LEMMA ToldSave ==
  ASSUME Types, Replayed, Told, NEW a \in Actors, Save(a)
  PROVE  Told'
<1>1. SUFFICES ASSUME ~ torn', odd' = {} PROVE Told'
  BY DEF Told
<1>2. /\ rollout'.turns = ClientTurns(rollout.turns, Head(unsaved[a])) /\ unsaved[a] # << >>
      /\ unsaved' = [unsaved EXCEPT ![a] = Tail(unsaved[a])] /\ items' = items
      /\ torn' = torn /\ odd' = odd /\ torn \in BOOLEAN
      /\ unsaved[a] \in Queues(a) /\ DOMAIN unsaved = Actors
  BY DEF Save, Read, Idle, Types
<1>3. CASE a = "ghost"
  <2>1. PICK i \in OfKind({"ghost"}) : unsaved[a] = <<Entry(i)>>
    BY <1>2, <1>3 DEF Queues
  <2>2. Head(unsaved[a]) = Entry(i) /\ Entry(i).type = "item"
    BY <2>1 DEF Entry
  <2>3. rollout'.turns = rollout.turns
    BY <1>2, <2>2 DEF ClientTurns
  <2>4. \A b \in Busy : unsaved'[b] = unsaved[b]
    BY <1>2, <1>3 DEF Busy, Actors
  <2> QED
    BY <1>2, <2>3, <2>4, ToldSame
<1>4. CASE a # "ghost"
  <2>1. a \in Busy /\ \A b \in Busy \ {a} : unsaved'[b] = << >>
    BY <1>1, <1>2, <1>4 DEF Replayed, Busy, Actors, Idle
  <2>2. TurnsAfter(rollout.turns, unsaved[a]) = Numbers(items') /\ Unsummarized(items')
    BY <1>1, <1>2, <2>1 DEF Told, Idle
  <2>3. /\ unsaved'[a] = Tail(unsaved[a])
        /\ Tail(unsaved[a]) = << >> => TurnsAfter(rollout.turns, unsaved[a]) = rollout'.turns
        /\ Tail(unsaved[a]) # << >> =>
               TurnsAfter(rollout.turns, unsaved[a]) = TurnsAfter(rollout'.turns, Tail(unsaved[a]))
    <3> DEFINE u == unsaved[a]
    <3>1. u \in Queues(a) /\ u # << >> /\ rollout'.turns = ClientTurns(rollout.turns, Head(u))
          /\ unsaved'[a] = Tail(u)
      BY <1>2
    <3> HIDE DEF u
    <3>2. \/ Len(u) = 1 /\ Tail(u) = << >> /\ u[1] = Head(u)
          \/ Len(u) = 2 /\ u[1] = Head(u) /\ Tail(u) = <<u[2]>>
      BY <3>1, QueueIs
    <3> QED
      BY <3>1, <3>2 DEF TurnsAfter, u
  <2> QED
    BY <2>1, <2>2, <2>3, ToldNew
<1> QED
  BY <1>3, <1>4

LEMMA ToldReplace ==
  ASSUME Types, TakeTurns, Cloned, Replayed, Told, Replacing
  PROVE  Told'
<1>1. SUFFICES ASSUME ~ torn', odd' = {} PROVE Told'
  BY DEF Told
<1>2. copy \in Seq(Item) /\ items \in Seq(Item) /\ loop.n \in Nat
  BY DEF Types, Loops
<1>3. ASSUME NEW a \in {"loop", "task"}, NEW s, NEW u, Replace(a, s, u), Idle(a), Cloning, odd' = odd
      PROVE  /\ \A b \in Busy \ {a} : unsaved'[b] = << >>
             /\ Numbers(copy) = Numbers(items) /\ Unsummarized(copy)
             /\ unsaved'[a] = u /\ items' = s /\ rollout.turns = Numbers(copy)
  <2>1. ~ torn /\ ~ Overlaps(a) /\ Without(Overwritten, {"ghost"}) = << >>
    BY <1>1, <1>3 DEF Replace, Types
  <2>2. \A b \in Busy : Idle(b)
    BY <1>3, <2>1 DEF Overlaps, Busy, Actors
  <2>3. rollout.turns = Numbers(items) /\ Unsummarized(items)
    BY <1>1, <1>3, <2>1, <2>2 DEF Told
  <2>4. Seen(copy) = Seen(items)
    BY <1>3, <2>1, SeenClone
  <2>5. Numbers(copy) = Numbers(items) /\ Unsummarized(copy)
    BY <1>2, <2>3, <2>4, SeenNumbers
  <2>6. /\ \A b \in Busy \ {a} : unsaved'[b] = << >>
        /\ unsaved'[a] = u /\ items' = s
    BY <1>1, <1>3, Replaced
  <2> QED
    BY <2>3, <2>5, <2>6
<1>4. CASE RollbackReplace
  <2> DEFINE e == RolledBack(loop.n)
             s == DropLastTurns(copy, loop.n)
  <2>1. Replace("loop", s, <<e>>) /\ Cloning /\ Idle("loop") /\ rollout' = rollout /\ odd' = odd
    BY <1>4 DEF RollbackReplace, Cloning, TakeTurns
  <2>2. \A t : ClientTurns(t, e) = DropLast(t, loop.n)
    BY DEF ClientTurns, RolledBack
  <2>3. s \in Seq(Item)
    BY <1>2, DropType
  <2> HIDE DEF e
  <2>4. /\ \A b \in Busy \ {"loop"} : unsaved'[b] = << >>
        /\ Unsummarized(copy)
        /\ unsaved'["loop"] = <<e>> /\ items' = s /\ rollout.turns = Numbers(copy)
    BY <1>3, <2>1
  <2>5. Numbers(s) = DropLast(rollout.turns, loop.n)
    BY <1>2, <2>4, NumbersDropped
  <2>6. Unsummarized(s)
    <3>1. DropLastTurns(copy, loop.n) = SubSeq(copy, 1, Len(copy))
          \/ \E p \in Seq(Item) : s = p /\ Cut(copy, p)
      BY <1>2, DropTurns, SubSeqFull
    <3>2. CASE s = copy
      BY <2>4, <3>2
    <3>3. ASSUME NEW p \in Seq(Item), s = p, Cut(copy, p) PROVE Unsummarized(s)
      <4>1. SubSeq(copy, 1, Len(p)) = p /\ Len(p) \in Nat /\ Len(copy) \in Nat
        BY <1>2, <3>3, SplitAt, LenProperties
      <4>2. Len(p) <= Len(copy) /\ \A m \in 1 .. Len(p) : p[m] = copy[m]
        <5>1. PICK q \in Seq(Item), x \in TurnStarts : copy = Append(p, x) \o q
          BY <3>3 DEF Cut
        <5>2. x \in Item
          BY DEF TurnStarts, OfKind
        <5>3. /\ Append(p, x) \in Seq(Item) /\ Len(Append(p, x)) = Len(p) + 1
              /\ \A m \in 1 .. Len(p) : Append(p, x)[m] = p[m]
          BY <5>2, AppendProperties
        <5> DEFINE v == Append(p, x)
        <5>4. v \in Seq(Item) /\ copy = v \o q
          BY <5>1, <5>3
        <5> HIDE DEF v
        <5>5. Len(v \o q) = Len(v) + Len(q) /\ Len(q) \in Nat
              /\ \A m \in 1 .. Len(v) : (v \o q)[m] = v[m]
          BY <5>4, ConcatProperties, LenProperties
        <5> QED
          BY <4>1, <5>3, <5>4, <5>5 DEF v
      <4> QED
        BY <2>4, <3>3, <4>1, <4>2 DEF Unsummarized
    <3>4. SubSeq(copy, 1, Len(copy)) = copy
      BY <1>2, SubSeqFull
    <3> QED
      BY <3>1, <3>2, <3>3, <3>4
  <2>7. "loop" \in Busy /\ <<e>> # << >>
    BY DEF Busy
  <2>8. TurnsAfter(rollout.turns, <<e>>) = ClientTurns(rollout.turns, e)
    BY DEF TurnsAfter
  <2> HIDE DEF s
  <2> QED
    BY <2>1, <2>2, <2>4, <2>5, <2>6, <2>7, <2>8, ToldNew
<1>5. CASE CompactReplace \/ \E kept \in {{"user", "summary"}, {"agent"}} : RemoteReplace(kept)
  BY <1>1, <1>5 DEF CompactReplace, RemoteReplace
<1>6. CASE UndoReplace
  <2>1. /\ Replace("task", Undone(copy), << >>) /\ Cloning /\ Idle("task") /\ rollout' = rollout
        /\ odd' = odd
    BY <1>6 DEF UndoReplace, Cloning, TakeTurns, Undone
  <2>2. /\ \A b \in Busy \ {"task"} : unsaved'[b] = << >>
        /\ Unsummarized(copy) /\ rollout.turns = Numbers(copy)
        /\ unsaved'["task"] = << >> /\ items' = Undone(copy)
    BY <1>3, <2>1
  <2>3. Seen(items') = Seen(copy) /\ "task" \in Busy /\ items' \in Seq(Item)
    BY <1>2, <2>2, SeenUndone, UndoneIs DEF Busy
  <2>4. Numbers(items') = Numbers(copy) /\ Unsummarized(items')
    BY <1>2, <2>2, <2>3, SeenNumbers
  <2> QED
    BY <2>1, <2>2, <2>3, <2>4, ToldNew
<1> QED
  BY <1>4, <1>5, <1>6 DEF Replacing
LEMMA NextTold ==
  ASSUME Types, Types', TakeTurns, Cloned, Replayed, Told, [Next]_vars
  PROVE  Told'
<1>1. /\ items \in Seq(Item) /\ DOMAIN unsaved = Actors /\ Busy \subseteq Actors /\ "loop" \in Busy
      /\ "task" \in Busy /\ "left" \in Busy /\ "aside" \in Busy
      /\ torn \in BOOLEAN /\ turn \in Turns /\ ghost.n \in Nat
      /\ events \in Nat /\ "ghost" \notin Busy /\ torn' \in BOOLEAN
  BY DEF Types, Busy, Actors
<1>2. ASSUME UNCHANGED <<items, rollout, unsaved, torn, odd>> PROVE Told'
  BY <1>1, <1>2, ToldSame
<1>3. CASE UNCHANGED vars
  BY <1>2, <1>3 DEF vars
<1>4. CASE \E a \in Actors : Save(a)
  BY <1>4, ToldSave
<1>5. CASE \/ OpSteer \/ OpUserTurn \/ TaskSnapshot \/ TaskFinish \/ CompactSnapshot \/ UndoClone
           \/ (\E n \in 1 .. 2 : OpRollback(n)) \/ (\E remote \in BOOLEAN : CompactBegin(remote))
  BY <1>2, <1>5 DEF OpSteer, OpUserTurn, TaskSnapshot, TaskFinish, CompactSnapshot, UndoClone,
                    OpRollback, CompactBegin
<1>a. CASE OpNote \/ OpShell \/ AsideInject \/ AsideRefused
  BY <1>2, <1>a DEF OpNote, OpShell, AsideInject, AsideRefused
<1>6. ASSUME NEW a \in Busy, Idle(a), NEW i \in Item, NEW then, Record(a, i, then),
             rollout' = rollout, odd' = odd,
             \/ then = << >> /\ i.k \notin {"user", "summary"}
             \/ \E n \in Nat : then = <<UserEvent(n)>> /\ i = User(n)
      PROVE  Told'
  <2>1. /\ items' = Append(items, i) /\ torn' = (torn \/ Overlaps(a))
        /\ unsaved' = [unsaved EXCEPT ![a] = <<Entry(i)>> \o then]
    BY <1>6 DEF Record
  <2>2. \/ i.k \notin {"user", "summary"} /\ unsaved' = [unsaved EXCEPT ![a] = <<Entry(i)>>]
        \/ i.k = "user" /\ unsaved' = [unsaved EXCEPT ![a] = <<Entry(i), UserEvent(i.n)>>]
    <3>1. CASE then = << >> /\ i.k \notin {"user", "summary"}
      <4>1. <<Entry(i)>> \o << >> = <<Entry(i)>>
        BY NewEntries
      <4> QED
        BY <2>1, <3>1, <4>1
    <3>2. CASE \E n \in Nat : then = <<UserEvent(n)>> /\ i = User(n)
      <4>1. PICK n \in Nat : then = <<UserEvent(n)>> /\ i = User(n)
        BY <3>2
      <4>2. i.k = "user" /\ i.n = n
        BY <4>1 DEF User
      <4>3. <<Entry(i)>> \o then = <<Entry(i), UserEvent(i.n)>>
        BY <4>1, <4>2, NewEntries
      <4> QED
        BY <2>1, <4>2, <4>3
    <3> QED
      BY <1>6, <3>1, <3>2
  <2>3. ~ torn' => Free
    BY <1>1, <1>6, <2>1 DEF Overlaps, Busy, Actors, Free
  <2>4. torn' = FALSE => torn = FALSE
    BY <1>1, <2>1
  <2>5. odd' = {} => odd = {}
    BY <1>6
  <2> QED
    BY <1>1, <1>6, <2>1, <2>2, <2>3, <2>4, <2>5, ToldRecord
<1>7. CASE OpSeed
  <2>1. Record("loop", Context, << >>) /\ Idle("loop") /\ rollout' = rollout /\ odd' = odd
    BY <1>7 DEF OpSeed, LoopFree
  <2>2. Context.k \notin {"user", "summary"} /\ Context \in Item
    BY ItemsAre DEF Context
  <2> QED
    BY <1>1, <1>6, <2>1, <2>2
<1>8. CASE TaskPrompt
  <2>1. /\ Record("task", User(turn.n), <<UserEvent(turn.n)>>) /\ Idle("task") /\ rollout' = rollout
        /\ turn.n \in Nat /\ odd' = odd
    BY <1>1, <1>8 DEF TaskPrompt, TaskAt, Turns
  <2> QED
    BY <1>1, <1>6, <2>1, ItemsAre
<1>9. CASE TaskPull
  <2>1. Idle("task") /\ rollout' = rollout /\ odd' = odd
    BY <1>9 DEF TaskPull, TaskAt
  <2>2. Aside \in Item /\ Aside.k \notin {"user", "summary"}
    BY ItemsAre DEF Aside
  <2>3. CASE Record("task", Aside, << >>)
    BY <1>1, <1>6, <2>1, <2>2, <2>3
  <2>4. CASE \E n \in Nat : Record("task", User(n), <<UserEvent(n)>>)
    BY <1>1, <1>6, <2>1, <2>4, ItemsAre
  <2> QED
    BY <1>9, <2>3, <2>4, PullRecords
<1>10. CASE TaskCall
  <2>1. /\ Record("task", Call(events + 1), << >>) /\ Idle("task") /\ odd' = odd
        /\ rollout' = rollout
    BY <1>1, <1>10 DEF TaskCall, TaskAt, Call
  <2>2. Call(events + 1) \in Item /\ Call(events + 1).k \notin {"user", "summary"}
    BY <1>1 DEF Call, Item, Kinds
  <2> QED
    BY <1>1, <1>6, <2>1, <2>2
<1>11. CASE TaskOutput
  <2>1. PICK n \in Nat : Record("task", Output(n), << >>)
    BY <1>11, OutputIs
  <2>2. Output(n) \in Item /\ Output(n).k \notin {"user", "summary"}
    BY DEF Output, Item, Kinds
  <2>3. Idle("task") /\ rollout' = rollout /\ odd' = odd
    BY <1>11 DEF TaskOutput, TaskAt
  <2> QED
    BY <1>1, <1>6, <2>1, <2>2, <2>3
<1>12. CASE TaskAgent
  <2> DEFINE i == [k |-> "agent", n |-> turn.n]
  <2>1. /\ Record("task", i, << >>) /\ Idle("task") /\ odd' = odd
        /\ rollout' = rollout /\ i \in Item /\ i.k \notin {"user", "summary"}
    BY <1>1, <1>12 DEF TaskAgent, TaskAt, Item, Kinds, Turns
  <2> HIDE DEF i
  <2> QED
    BY <1>1, <1>6, <2>1
<1>13. CASE LeftRecord
  <2>1. /\ Record("left", Head(left), << >>) /\ Idle("left") /\ rollout' = rollout
        /\ Head(left) \in Waits
        /\ odd' = IF Head(left).k = "user" THEN odd \cup {"late"} ELSE odd
    BY <1>13 DEF LeftRecord, TakeTurns, Types, Few
  <2>2. CASE Head(left).k = "user"
    BY <2>1, <2>2 DEF Told
  <2>3. CASE Head(left).k # "user"
    <3>1. Head(left) = Aside /\ odd' = odd
      BY <2>1, <2>3, WaitsAre
    <3>2. Aside \in Item /\ Aside.k \notin {"user", "summary"}
      BY ItemsAre DEF Aside
    <3> QED
      BY <1>1, <1>6, <2>1, <3>1, <3>2
  <2> QED
    BY <2>2, <2>3
<1>14. CASE LoopMark \/ LoopNote \/ AsideRecord
  <2>1. /\ rollout' = rollout /\ odd' = odd
        /\ \/ Idle("loop") /\ \E i \in {Context, Aside} : Record("loop", i, << >>)
           \/ Idle("aside") /\ Record("aside", Aside, << >>)
    BY <1>14 DEF LoopMark, LoopNote, AsideRecord
  <2>2. \A i \in {Context, Aside} : i \in Item /\ i.k \notin {"user", "summary"}
    BY ItemsAre DEF Context, Aside
  <2> QED
    BY <1>1, <1>6, <2>1, <2>2
<1>b. CASE LoopExitReview \/ TaskWarn \/ ReviewAsk \/ ReviewExit
  <2>1. "unasked" \in odd'
    BY <1>b DEF LoopExitReview, TaskWarn, ReviewAsk, ReviewExit
  <2> QED
    BY <2>1 DEF Told
<1>15. CASE OpInterrupt \/ OpReplaceReview
            \/ (\E kind \in {"compact", "undo", "review"} : OpTask(kind)) \/ LeftDrop
  <2>1. /\ items' = items /\ rollout' = rollout /\ odd' = odd
        /\ \E a \in {"task", "left"} :
               unsaved' = [unsaved EXCEPT ![a] = << >>] /\ torn' = (torn \/ ~ Idle(a))
    BY <1>15 DEF OpInterrupt, OpReplaceReview, OpTask, Abort, LeftDrop
  <2>2. ~ torn' => \A b \in Busy : unsaved'[b] = unsaved[b]
    BY <1>1, <2>1 DEF Idle
  <2> QED
    BY <1>1, <2>1, <2>2, ToldSame
<1>16. CASE GhostRecord \/ CompactDraft
  <2>1. /\ \E i \in Item : i \notin Lasting /\ items' = Append(items, i)
        /\ rollout' = rollout /\ torn' = torn /\ odd' = odd
        /\ \A b \in Busy : unsaved'[b] = unsaved[b]
    <3>1. [k |-> "ghost", n |-> ghost.n] \in Item /\ [k |-> "draft", n |-> 0] \in Item
          /\ [k |-> "ghost", n |-> ghost.n] \notin Lasting /\ [k |-> "draft", n |-> 0] \notin Lasting
      BY <1>1 DEF Item, Kinds, Lasting, OfKind
    <3>2. CASE CompactDraft
      BY <3>1, <3>2 DEF CompactDraft
    <3>3. CASE GhostRecord
      <4>1. /\ items' = Append(items, [k |-> "ghost", n |-> ghost.n]) /\ rollout' = rollout
            /\ torn' = (torn \/ Overlaps("ghost")) /\ ~ Overlaps("ghost") /\ odd' = odd
            /\ \E u : unsaved' = [unsaved EXCEPT !["ghost"] = u]
        BY <3>3 DEF GhostRecord, Record, Overlaps
      <4> QED
        BY <1>1, <3>1, <4>1
    <3> QED
      BY <1>16, <3>2, <3>3
  <2>2. Seen(items') = Seen(items) /\ items' \in Seq(Item)
    BY <1>1, <2>1, SeenMore DEF Types
  <2>3. Numbers(items') = Numbers(items) /\ (Unsummarized(items) => Unsummarized(items'))
    BY <1>1, <2>2, SeenNumbers
  <2> QED
    BY <1>1, <2>1, <2>3, ToldSame
<1>17. CASE GhostEnds
  <2>1. /\ items' = items /\ rollout' = rollout /\ torn' = torn /\ odd' = odd
        /\ \A b \in Busy : unsaved'[b] = unsaved[b]
    BY <1>1, <1>17 DEF GhostEnds
  <2> QED
    BY <1>1, <2>1, ToldSame
<1>18. CASE Replacing
  BY <1>18, ToldReplace
<1>19. CASE Restart
  <2>1. SUFFICES ASSUME odd' = {} PROVE Told'
    BY DEF Told
  <2>2. /\ items' = rollout.items /\ rollout' = rollout /\ \A b \in Busy : unsaved'[b] = << >>
        /\ odd' = IF torn \/ ~ AllSaved THEN odd \cup {"torn"} ELSE odd
    BY <1>1, <1>19 DEF Restart
  <2>3. ~ torn /\ odd = {} /\ \A b \in Busy : Idle(b)
    BY <1>1, <2>1, <2>2 DEF AllSaved
  <2>4. Seen(rollout.items) = Seen(items) /\ rollout.items \in Seq(Item)
    BY <2>3 DEF Replayed, Types
  <2>5. rollout.turns = Numbers(items) /\ Unsummarized(items)
    BY <2>3 DEF Told
  <2>6. rollout.turns = Numbers(rollout.items) /\ Unsummarized(rollout.items)
    BY <1>1, <2>4, <2>5, SeenNumbers
  <2> QED
    BY <1>1, <2>2, <2>6, ToldNew
<1> QED
  BY <1>3, <1>4, <1>5, <1>7, <1>8, <1>9, <1>10, <1>11, <1>12, <1>13, <1>14, <1>15, <1>16, <1>17,
     <1>18, <1>19, <1>a, <1>b DEF Next

LEMMA ToldAgree ==
  ASSUME Types, Told
  PROVE  TurnsAgree
<1>1. AllSaved => \A a \in Busy : Idle(a)
  BY DEF AllSaved, Busy, Actors
<1> QED
  BY <1>1 DEF TurnsAgree, Told, Numbers, Named
--------------------------------------------------------------------------------
(* Calls and outputs, in memory and in the rollout. *)

(* What is coupled stays coupled when it grows, is cut, or loses an item that *)
(* no output needs.                                                           *)
LEMMA NumberedAre ==
  /\ \A i \in Item : i \in Numbered <=> i.k \in {"call", "output"}
  /\ \A i \in Item : i.k = "call" => i = Call(i.n)
  /\ \A i \in Item : i.k = "output" => i = Output(i.n)
  /\ \A n \in Nat : Call(n) \in Item /\ Call(n).k = "call" /\ Call(n).n = n
  /\ \A n \in Nat : Output(n) \in Item /\ Output(n).k = "output" /\ Output(n).n = n
BY DEF Numbered, OfKind, Call, Output, Item, Kinds

LEMMA CoupledMore ==
  ASSUME NEW s \in Seq(Item), NEW i \in Item
  PROVE  /\ Coupled(<< >>)
         /\ Coupled(Append(s, i)) <=>
               /\ Coupled(s)
               /\ i \in Numbered => i \notin ToSet(s)
               /\ i.k = "output" => Call(i.n) \in ToSet(s)
<1> DEFINE N == Len(s)
           a == Append(s, i)
<1>1. /\ N \in Nat /\ a \in Seq(Item) /\ Len(a) = N + 1 /\ a[N + 1] = i
      /\ \A m \in 1 .. N : a[m] = s[m] /\ s[m] \in Item
      /\ DOMAIN s = 1 .. N
  BY AppendProperties, LenProperties, ElementOfSeq
<1>2. \A x : x \in ToSet(s) <=> \E m \in 1 .. N : s[m] = x
  BY <1>1 DEF ToSet
<1>3. Coupled(<< >>)
  BY DEF Coupled
<1> HIDE DEF a
<1>4. ASSUME Coupled(a)
      PROVE  /\ Coupled(s)
             /\ i \in Numbered => i \notin ToSet(s)
             /\ i.k = "output" => Call(i.n) \in ToSet(s)
  <2>1. \A m, o \in 1 .. N + 1 : a[m] \in Numbered /\ a[m] = a[o] => m = o
    BY <1>1, <1>4 DEF Coupled
  <2>2. \A o \in 1 .. N + 1 : a[o].k = "output" => \E m \in 1 .. o - 1 : a[m] = Call(a[o].n)
    BY <1>1, <1>4 DEF Coupled
  <2>3. \A m, o \in 1 .. N : s[m] \in Numbered /\ s[m] = s[o] => m = o
    BY <1>1, <2>1
  <2>4. ASSUME NEW o \in 1 .. N, s[o].k = "output" PROVE \E m \in 1 .. o - 1 : s[m] = Call(s[o].n)
    <3>1. o \in 1 .. N + 1 /\ a[o] = s[o]
      BY <1>1
    <3>2. PICK m \in 1 .. o - 1 : a[m] = Call(s[o].n)
      BY <2>2, <2>4, <3>1
    <3>3. m \in 1 .. N
      BY <1>1
    <3> QED
      BY <1>1, <3>2, <3>3
  <2>5. ASSUME i \in Numbered, i \in ToSet(s) PROVE FALSE
    <3>1. PICK m \in 1 .. N : s[m] = i
      BY <1>2, <2>5
    <3>2. a[m] = a[N + 1] /\ a[m] \in Numbered /\ m \in 1 .. N + 1 /\ N + 1 \in 1 .. N + 1
      BY <1>1, <2>5, <3>1
    <3>3. m = N + 1
      BY <2>1, <3>2
    <3> QED
      BY <1>1, <3>3
  <2>6. ASSUME i.k = "output" PROVE Call(i.n) \in ToSet(s)
    <3>1. N + 1 \in 1 .. N + 1 /\ N + 1 - 1 = N
      BY <1>1
    <3>2. PICK m \in 1 .. N : a[m] = Call(i.n)
      BY <1>1, <2>2, <2>6, <3>1
    <3> QED
      BY <1>1, <1>2, <3>2
  <2> QED
    BY <2>3, <2>4, <2>5, <2>6 DEF Coupled
<1>5. ASSUME Coupled(s), i \in Numbered => i \notin ToSet(s),
             i.k = "output" => Call(i.n) \in ToSet(s)
      PROVE  Coupled(a)
  <2>1. ASSUME NEW m \in 1 .. N + 1, NEW o \in 1 .. N + 1, a[m] \in Numbered, a[m] = a[o]
        PROVE  m = o
    <3>1. CASE m \in 1 .. N /\ o \in 1 .. N
      BY <1>1, <1>5, <2>1, <3>1 DEF Coupled
    <3>2. CASE m = N + 1 /\ o \in 1 .. N
      BY <1>1, <1>2, <1>5, <2>1, <3>2
    <3>3. CASE o = N + 1 /\ m \in 1 .. N
      BY <1>1, <1>2, <1>5, <2>1, <3>3
    <3> QED
      BY <1>1, <3>1, <3>2, <3>3
  <2>2. ASSUME NEW o \in 1 .. N + 1, a[o].k = "output"
        PROVE  \E m \in 1 .. o - 1 : a[m] = Call(a[o].n)
    <3>1. CASE o \in 1 .. N
      <4>1. PICK m \in 1 .. o - 1 : s[m] = Call(s[o].n)
        BY <1>1, <1>5, <2>2, <3>1 DEF Coupled
      <4>2. m \in 1 .. N
        BY <1>1, <3>1
      <4> QED
        BY <1>1, <3>1, <4>1, <4>2
    <3>2. CASE o = N + 1
      <4>1. PICK m \in 1 .. N : s[m] = Call(i.n)
        BY <1>1, <1>2, <1>5, <2>2, <3>2
      <4>2. m \in 1 .. o - 1 /\ a[m] = Call(a[o].n)
        BY <1>1, <3>2, <4>1
      <4> QED
        BY <4>2
    <3> QED
      BY <1>1, <3>1, <3>2
  <2> QED
    BY <1>1, <2>1, <2>2 DEF Coupled
<1> QED
  BY <1>3, <1>4, <1>5 DEF a

LEMMA CoupledFirst ==
  ASSUME NEW p \in Seq(Item), NEW q \in Seq(Item), Coupled(p \o q)
  PROVE  Coupled(p) /\ ToSet(p) \subseteq ToSet(p \o q)
<1> DEFINE s == p \o q
<1>1. /\ Len(p) \in Nat /\ Len(q) \in Nat /\ Len(s) = Len(p) + Len(q)
      /\ \A m \in 1 .. Len(p) : m \in 1 .. Len(s) /\ s[m] = p[m]
      /\ s \in Seq(Item)
  BY ConcatProperties, LenProperties
<1> HIDE DEF s
<1>2. Coupled(s)
  BY DEF s
<1>3. \A m, o \in 1 .. Len(p) : p[m] \in Numbered /\ p[m] = p[o] => m = o
  BY <1>1, <1>2 DEF Coupled
<1>4. ASSUME NEW o \in 1 .. Len(p), p[o].k = "output" PROVE \E m \in 1 .. o - 1 : p[m] = Call(p[o].n)
  <2>1. PICK m \in 1 .. o - 1 : s[m] = Call(s[o].n)
    BY <1>1, <1>2, <1>4 DEF Coupled
  <2>2. m \in 1 .. Len(p)
    BY <1>1
  <2> QED
    BY <1>1, <2>1, <2>2
<1>5. ToSet(p) \subseteq ToSet(s)
  BY <1>1, LenProperties DEF ToSet
<1> QED
  BY <1>3, <1>4, <1>5 DEF Coupled, s

LEMMA CoupledWithout ==
  ASSUME NEW p \in Seq(Item), NEW q \in Seq(Item), NEW x \in Item, Coupled((p \o <<x>>) \o q),
         \A o \in 1 .. Len(q) : q[o].k = "output" => x # Call(q[o].n)
  PROVE  /\ Coupled(p \o q)
         /\ x \in Numbered => x \notin ToSet(p \o q)
         /\ ToSet(p \o q) \subseteq ToSet((p \o <<x>>) \o q)
<1> DEFINE s == (p \o <<x>>) \o q
           t == p \o q
           P == Len(p)
           F(m) == IF m <= P THEN m ELSE m + 1
<1>1. /\ P \in Nat /\ Len(q) \in Nat /\ t \in Seq(Item) /\ Len(t) = P + Len(q)
      /\ \A m \in 1 .. P : t[m] = p[m]
      /\ \A m \in P + 1 .. P + Len(q) : t[m] = q[m - P]
  BY ConcatProperties, LenProperties
<1>2. /\ s \in Seq(Item) /\ Len(s) = P + 1 + Len(q)
      /\ \A m \in 1 .. P : s[m] = p[m]
      /\ s[P + 1] = x
      /\ \A m \in P + 2 .. P + 1 + Len(q) : s[m] = q[m - P - 1]
  <2> DEFINE w == <<x>>
             v == p \o w
  <2>1. w \in Seq(Item) /\ Len(w) = 1 /\ w[1] = x
    OBVIOUS
  <2> HIDE DEF w
  <2>2. /\ v \in Seq(Item) /\ Len(v) = P + 1
        /\ \A m \in 1 .. P : v[m] = p[m]
        /\ \A m \in P + 1 .. P + 1 : v[m] = w[m - P]
    BY <1>1, <2>1, ConcatProperties
  <2>3. v[P + 1] = x
    <3>1. P + 1 \in P + 1 .. P + 1 /\ P + 1 - P = 1
      BY <1>1
    <3> QED
      BY <2>1, <2>2, <3>1
  <2> HIDE DEF v
  <2>4. /\ v \o q \in Seq(Item) /\ Len(v \o q) = Len(v) + Len(q)
        /\ \A m \in 1 .. Len(v) : (v \o q)[m] = v[m]
        /\ \A m \in Len(v) + 1 .. Len(v) + Len(q) : (v \o q)[m] = q[m - Len(v)]
    <3>1. v \in Seq(Item)
      BY <2>2
    <3> QED
      BY ONLY <3>1, q \in Seq(Item), ConcatProperties
  <2>5. s = v \o q
    BY DEF v, w
  <2> HIDE DEF s
  <2>6. \A m \in P + 2 .. P + 1 + Len(q) : m - Len(v) = m - P - 1 /\ m \in Len(v) + 1 .. Len(v) + Len(q)
    BY <1>1, <2>2
  <2>7. P + 1 \in 1 .. Len(v) /\ \A m \in 1 .. P : m \in 1 .. Len(v)
    BY <1>1, <2>2
  <2> QED
    BY <1>1, <2>2, <2>3, <2>4, <2>5, <2>6, <2>7
<1>3. Coupled(s)
  OBVIOUS
<1> HIDE DEF s, t
<1>4. \A m \in 1 .. Len(t) : F(m) \in 1 .. Len(s) /\ s[F(m)] = t[m] /\ F(m) # P + 1
  <2> SUFFICES ASSUME NEW m \in 1 .. Len(t)
               PROVE  F(m) \in 1 .. Len(s) /\ s[F(m)] = t[m] /\ F(m) # P + 1
    OBVIOUS
  <2>1. CASE m <= P
    <3>1. m \in 1 .. P
      BY <1>1, <2>1
    <3> QED
      BY <1>1, <1>2, <2>1, <3>1
  <2>2. CASE m > P
    <3>1. m \in P + 1 .. P + Len(q) /\ m + 1 \in P + 2 .. P + 1 + Len(q) /\ m + 1 - P - 1 = m - P
      BY <1>1, <2>2
    <3> QED
      BY <1>1, <1>2, <2>2, <3>1
  <2> QED
    BY <1>1, <2>1, <2>2
<1>5. \A m, o \in 1 .. Len(t) : F(m) = F(o) => m = o
  BY <1>1
<1>6. \A m \in 1 .. Len(s) : m # P + 1 => \E l \in 1 .. Len(t) : F(l) = m
  <2> SUFFICES ASSUME NEW m \in 1 .. Len(s), m # P + 1 PROVE \E l \in 1 .. Len(t) : F(l) = m
    OBVIOUS
  <2>1. CASE m <= P
    <3>1. m \in 1 .. Len(t) /\ F(m) = m
      BY <1>1, <1>2, <2>1
    <3> QED
      BY <3>1
  <2>2. CASE m > P
    <3>1. m - 1 \in 1 .. Len(t) /\ F(m - 1) = m
      BY <1>1, <1>2, <2>2
    <3> QED
      BY <3>1
  <2> QED
    BY <1>1, <2>1, <2>2
<1>7. \A l, m \in 1 .. Len(t) : F(l) < F(m) => l < m
  BY <1>1
<1>8. P + 1 \in 1 .. Len(s)
  BY <1>1, <1>2
<1> HIDE DEF F
<1>9. ASSUME NEW m \in 1 .. Len(t), NEW o \in 1 .. Len(t), t[m] \in Numbered, t[m] = t[o]
      PROVE  m = o
  <2>1. F(m) \in 1 .. Len(s) /\ F(o) \in 1 .. Len(s) /\ s[F(m)] = s[F(o)] /\ s[F(m)] \in Numbered
    BY <1>4, <1>9
  <2>2. F(m) = F(o)
    BY <1>3, <2>1 DEF Coupled
  <2> QED
    BY <1>5, <2>2
<1>10. ASSUME NEW o \in 1 .. Len(t), t[o].k = "output"
       PROVE  \E m \in 1 .. o - 1 : t[m] = Call(t[o].n)
  <2>1. PICK m \in 1 .. F(o) - 1 : s[m] = Call(t[o].n)
    <3>1. F(o) \in 1 .. Len(s) /\ s[F(o)] = t[o]
      BY <1>4, <1>10
    <3>2. \E m \in 1 .. F(o) - 1 : s[m] = Call(s[F(o)].n)
      BY <1>3, <1>10, <3>1 DEF Coupled
    <3> QED
      BY <3>1, <3>2
  <2>2. m \in 1 .. Len(s) /\ m < F(o) /\ F(o) \in Nat
    BY <1>1, <1>2, <1>4
  <2>3. m # P + 1
    <3>1. SUFFICES ASSUME m = P + 1 PROVE FALSE
      OBVIOUS
    <3>2. x = Call(t[o].n)
      BY <1>2, <2>1, <3>1
    <3>3. o \in P + 1 .. P + Len(q)
      BY <1>1, <2>2, <3>1 DEF F
    <3>4. t[o] = q[o - P] /\ o - P \in 1 .. Len(q)
      BY <1>1, <3>3
    <3> QED
      BY <1>10, <3>2, <3>4
  <2>4. PICK l \in 1 .. Len(t) : F(l) = m
    BY <1>6, <2>2, <2>3
  <2>5. l < o /\ t[l] = Call(t[o].n)
    BY <1>4, <1>7, <2>1, <2>2, <2>4
  <2>6. l \in 1 .. o - 1
    BY <1>1, <2>5
  <2> QED
    BY <2>5, <2>6
<1>11. ASSUME x \in Numbered, x \in ToSet(t) PROVE FALSE
  <2>1. PICK m \in 1 .. Len(t) : t[m] = x
    BY <1>1, <1>11, LenProperties DEF ToSet
  <2>2. s[F(m)] = s[P + 1] /\ s[F(m)] \in Numbered /\ F(m) \in 1 .. Len(s) /\ F(m) # P + 1
    BY <1>2, <1>4, <1>11, <2>1
  <2> QED
    BY <1>3, <1>8, <2>2 DEF Coupled
<1>12. ToSet(t) \subseteq ToSet(s)
  BY <1>1, <1>2, <1>4, LenProperties DEF ToSet
<1> QED
  BY <1>9, <1>10, <1>11, <1>12 DEF Coupled, s, t
(* The ways in which steps keep what is known of calls. *)
LEMMA KnownMore ==
  ASSUME NEW e \in Nat, NEW s \in Seq(Item), Known(s, e), NEW i \in Item, i \notin Numbered
  PROVE  Known(Append(s, i), e)
<1>1. i.k # "output"
  BY NumberedAre
<1>2. Coupled(Append(s, i))
  BY <1>1, CoupledMore DEF Known
<1>3. ToSet(Append(s, i)) = ToSet(s) \cup {i}
  BY ToSetMore
<1> QED
  BY <1>2, <1>3 DEF Known

LEMMA KnownNumbered ==
  ASSUME NEW e \in Nat, NEW s \in Seq(Item), Known(s, e), NEW n \in Nat, n <= e
  PROVE  /\ Call(n) \notin ToSet(s) => Known(Append(s, Call(n)), e)
         /\ Output(n) \notin ToSet(s) /\ Call(n) \in ToSet(s) => Known(Append(s, Output(n)), e)
<1> DEFINE c == Call(n)
           o == Output(n)
<1>1. c \in Item /\ o \in Item /\ c.k = "call" /\ o.k = "output" /\ c.n = n /\ o.n = n
  BY NumberedAre
<1>2. Call(o.n) = c
  BY <1>1
<1> HIDE DEF c, o
<1>3. ToSet(Append(s, c)) = ToSet(s) \cup {c} /\ ToSet(Append(s, o)) = ToSet(s) \cup {o}
  BY <1>1, ToSetMore
<1>4. c \notin ToSet(s) => Coupled(Append(s, c))
  BY <1>1, CoupledMore DEF Known
<1>5. o \notin ToSet(s) /\ c \in ToSet(s) => Coupled(Append(s, o))
  BY <1>1, <1>2, CoupledMore DEF Known
<1>6. c \notin ToSet(s) => Known(Append(s, c), e)
  BY <1>1, <1>3, <1>4 DEF Known
<1>7. o \notin ToSet(s) /\ c \in ToSet(s) => Known(Append(s, o), e)
  BY <1>1, <1>3, <1>5 DEF Known
<1> QED
  BY <1>6, <1>7 DEF c, o

LEMMA KnownLarger ==
  ASSUME NEW e \in Nat, NEW f \in Nat, e <= f, NEW s \in Seq(Item), Known(s, e)
  PROVE  Known(s, f)
<1>1. \A i \in ToSet(s) : i \in Item
  BY ElementOfSeq, LenProperties DEF ToSet
<1>2. \A i \in Item : i.n \in Nat
  BY DEF Item
<1>3. \A i \in ToSet(s) : i.n \in Nat
  BY <1>1, <1>2
<1>4. \A k \in Nat : k <= e => k <= f
  OBVIOUS
<1> QED
  BY <1>3, <1>4 DEF Known

LEMMA KnownSpoken ==
  ASSUME NEW e \in Nat, NEW s \in Seq(Spoken)
  PROVE  Known(s, e)
<1>1. \A m \in 1 .. Len(s) : s[m] \in Spoken
  BY ElementOfSeq
<1>2. \A i \in Spoken : i \notin Numbered /\ i.k # "output"
  BY DEF Spoken, OfKind, Numbered
<1>3. \A i \in ToSet(s) : i \notin Numbered
  BY <1>1, <1>2, LenProperties DEF ToSet
<1> QED
  BY <1>1, <1>2, <1>3 DEF Known, Coupled

LEMMA KnownFirst ==
  ASSUME NEW e \in Nat, NEW p \in Seq(Item), NEW q \in Seq(Item), Known(p \o q, e)
  PROVE  Known(p, e)
BY CoupledFirst DEF Known

LEMMA KnownDropped ==
  ASSUME NEW e \in Nat, NEW s \in Seq(Item), Known(s, e), NEW n \in Nat
  PROVE  Known(DropLastTurns(s, n), e)
<1>1. ASSUME NEW p \in Seq(Item), Cut(s, p) PROVE Known(p, e)
  <2>1. PICK q \in Seq(Item), x \in TurnStarts : s = Append(p, x) \o q
    BY <1>1 DEF Cut
  <2>2. x \in Item
    BY DEF TurnStarts, OfKind
  <2> DEFINE v == Append(p, x)
  <2>3. v \in Seq(Item) /\ s = v \o q
    BY <2>1, <2>2
  <2>4. Known(v, e)
    <3> HIDE DEF v
    <3> QED
      BY <2>3, KnownFirst
  <2>5. ToSet(v) = ToSet(p) \cup {x} /\ Coupled(p)
    BY <2>2, <2>4, ToSetMore, CoupledMore DEF Known
  <2> QED
    BY <2>4, <2>5 DEF Known
<1> QED
  BY <1>1, DropTurns

LEMMA KnownUndone ==
  ASSUME NEW e \in Nat, NEW s \in Seq(Item), Known(s, e)
  PROVE  Known(Undone(s), e)
<1>1. ASSUME NEW p \in Seq(Item), NEW q \in Seq(Item), NEW g \in OfKind({"ghost"}),
             s = (p \o <<g>>) \o q, Undone(s) = p \o q
      PROVE  Known(Undone(s), e)
  <2>1. g \in Item /\ \A n : g # Call(n)
    BY DEF OfKind, Call
  <2>2. Coupled((p \o <<g>>) \o q) /\ \A o \in 1 .. Len(q) : q[o].k = "output" => g # Call(q[o].n)
    BY <1>1, <2>1 DEF Known
  <2>3. Coupled(p \o q) /\ ToSet(p \o q) \subseteq ToSet((p \o <<g>>) \o q)
    BY <2>1, <2>2, CoupledWithout
  <2> QED
    BY <1>1, <2>3 DEF Known
<1> QED
  <2>1. \/ Undone(s) = s
        \/ \E p, q \in Seq(Item), g \in OfKind({"ghost"}) :
               s = (p \o <<g>>) \o q /\ Undone(s) = p \o q
    BY UndoneIs
  <2> QED
    BY <1>1, <2>1, Zenon

(* The last call, and how it stays the last. *)
LEMMA LastCallIs ==
  ASSUME NEW s \in Seq(Item), \E m \in 1 .. Len(s) : s[m].k = "call"
  PROVE  /\ LastCall(s) \in ToSet(s) /\ LastCall(s).k = "call" /\ LastCall(s) \in Item
         /\ \A i \in Item : i.k # "call" => LastCall(Append(s, i)) = LastCall(s)
<1> DEFINE j(t) == SelectLastInSeq(t, LAMBDA i : i.k = "call")
<1>1. ASSUME NEW t \in Seq(Item), \E m \in 1 .. Len(t) : t[m].k = "call"
      PROVE  /\ j(t) \in 1 .. Len(t) /\ t[j(t)].k = "call" /\ LastCall(t) = t[j(t)]
             /\ \A m \in 1 .. Len(t) : t[m].k = "call" => m <= j(t)
  <2> DEFINE k == j(t)
  <2>1. /\ k \in 0 .. Len(t) /\ LastCall(t) = t[k]
        /\ \A m \in 1 .. Len(t) : t[m].k = "call" => k # 0 /\ t[k].k = "call" /\ m <= k
    BY LastOfKind DEF LastCall
  <2> HIDE DEF k
  <2>2. Len(t) \in Nat /\ k # 0
    BY <1>1, <2>1, LenProperties
  <2> QED
    BY <1>1, <2>1, <2>2 DEF k
<1> HIDE DEF j
<1>2. /\ j(s) \in 1 .. Len(s) /\ s[j(s)].k = "call" /\ LastCall(s) = s[j(s)]
      /\ \A m \in 1 .. Len(s) : s[m].k = "call" => m <= j(s)
  BY <1>1
<1>3. LastCall(s) \in ToSet(s) /\ LastCall(s) \in Item
  BY <1>2, ElementOfSeq, LenProperties DEF ToSet
<1>4. ASSUME NEW i \in Item, i.k # "call" PROVE LastCall(Append(s, i)) = LastCall(s)
  <2> DEFINE a == Append(s, i)
  <2>1. /\ a \in Seq(Item) /\ Len(a) = Len(s) + 1 /\ a[Len(s) + 1] = i /\ Len(s) \in Nat
        /\ \A m \in 1 .. Len(s) : a[m] = s[m]
    BY AppendProperties, LenProperties
  <2> HIDE DEF a
  <2>2. /\ j(a) \in 1 .. Len(a) /\ a[j(a)].k = "call" /\ LastCall(a) = a[j(a)]
        /\ \A m \in 1 .. Len(a) : a[m].k = "call" => m <= j(a)
    BY <1>1, <1>2, <2>1, SMTT(30)
  <2>3. j(a) \in 1 .. Len(s)
    BY <1>4, <2>1, <2>2
  <2>4. j(a) = j(s)
    BY <1>2, <2>1, <2>2, <2>3
  <2> QED
    BY <1>2, <2>1, <2>2, <2>4 DEF a
<1> QED
  BY <1>2, <1>3, <1>4

LEMMA LastCallNew ==
  ASSUME NEW s \in Seq(Item), NEW n \in Nat
  PROVE  LastCall(Append(s, Call(n))) = Call(n)
<1> DEFINE c == Call(n)
           a == Append(s, c)
           j == SelectLastInSeq(a, LAMBDA i : i.k = "call")
<1>1. c \in Item /\ c.k = "call"
  BY NumberedAre
<1> HIDE DEF c
<1>2. a \in Seq(Item) /\ Len(a) = Len(s) + 1 /\ a[Len(s) + 1] = c /\ Len(s) \in Nat
  BY <1>1, AppendProperties, LenProperties
<1> HIDE DEF a
<1>3. /\ j \in 0 .. Len(a)
      /\ \A m \in 1 .. Len(a) : a[m].k = "call" => j # 0 /\ a[j].k = "call" /\ m <= j
  BY <1>2, LastOfKind
<1>4. LastCall(a) = a[j]
  BY DEF LastCall
<1> HIDE DEF j
<1>5. Len(s) + 1 \in 1 .. Len(a) /\ a[Len(s) + 1].k = "call"
  BY <1>1, <1>2
<1>6. j = Len(s) + 1
  BY <1>2, <1>3, <1>5
<1> QED
  BY <1>2, <1>4, <1>6 DEF a, c
(* Nothing waits but a call or an output. *)
LEMMA NotWaiting ==
  ASSUME NEW u, \A n \in Nat : u # <<Entry(Call(n))>> /\ u # <<Entry(Output(n))>>
  PROVE  \A r, e : Waiting(u, r, e)
BY DEF Waiting

LEMMA InitCalls == Init => Calls
<1> SUFFICES ASSUME Init PROVE Calls
  OBVIOUS
<1>1. items = <<Context>> /\ rollout.items = <<Context>> /\ unsaved["task"] = << >> /\ events = 0
      /\ turn.pc = "none"
  BY DEF Init, Actors, NoTurn
<1>2. <<Context>> \in Seq(Spoken)
  BY SpokenOnly
<1>3. Known(<<Context>>, 0)
  <2> DEFINE s == <<Context>>
  <2> HIDE DEF s
  <2> QED
    BY <1>2, KnownSpoken DEF s
<1>4. \A n \in Nat : << >> # <<Entry(Call(n))>> /\ << >> # <<Entry(Output(n))>>
  OBVIOUS
<1>5. \A r, e : Waiting(<< >>, r, e)
  BY <1>4, NotWaiting
<1> QED
  BY <1>1, <1>3, <1>5 DEF Calls

LEMMA CallsSteady ==
  ASSUME Types, Types', Calls, rollout' = rollout, events <= events',
         items' = items \/ \E i \in Item : i \notin Numbered /\ items' = Append(items, i),
         \/ unsaved'["task"] = unsaved["task"]
         \/ /\ \A n \in Nat : /\ unsaved'["task"] # <<Entry(Call(n))>>
                              /\ unsaved'["task"] # <<Entry(Output(n))>>
            /\ \/ turn'.pc # "called"
               \/ unsaved["task"] = << >> /\ unsaved'["task"] = <<Entry(Unasked)>>,
         turn'.pc = "called" => turn.pc = "called"
  PROVE  Calls'
<1>1. items \in Seq(Item) /\ rollout.items \in Seq(Item) /\ events \in Nat /\ events' \in Nat
  BY DEF Types
<1>2. Known(items, events') /\ Known(rollout.items, events')
  BY <1>1, KnownLarger DEF Calls
<1>3. Known(items', events')
  BY <1>1, <1>2, KnownMore
<1>4. Waiting(unsaved'["task"], rollout.items, events')
  <2>1. CASE unsaved'["task"] = unsaved["task"]
    <3>1. \A n \in Nat : n <= events => n <= events'
      BY <1>1
    <3> QED
      BY <2>1, <3>1 DEF Waiting, Calls
  <2>2. CASE \A n \in Nat : /\ unsaved'["task"] # <<Entry(Call(n))>>
                            /\ unsaved'["task"] # <<Entry(Output(n))>>
    BY <2>2 DEF Waiting
  <2> QED
    BY <2>1, <2>2
<1>5. ASSUME turn'.pc = "called" PROVE Answering(items', unsaved'["task"], rollout.items)
  <2>1. /\ Answering(items, unsaved["task"], rollout.items)
        /\ \/ unsaved'["task"] = unsaved["task"]
           \/ unsaved["task"] = << >> /\ unsaved'["task"] = <<Entry(Unasked)>>
    BY <1>5 DEF Calls
  <2>2. PICK n \in Nat :
           /\ LastCall(items) = Call(n) /\ Call(n) \in ToSet(items)
           /\ Output(n) \notin ToSet(items) /\ Output(n) \notin ToSet(rollout.items)
           /\ \/ /\ unsaved["task"] \in {<< >>, <<Entry(Unasked)>>}
                 /\ Call(n) \in ToSet(rollout.items)
              \/ unsaved["task"] = <<Entry(Call(n))>>
    BY <2>1 DEF Answering
  <2>3. ASSUME NEW i \in Item, i \notin Numbered, items' = Append(items, i)
        PROVE  /\ LastCall(items') = Call(n) /\ Call(n) \in ToSet(items')
               /\ Output(n) \notin ToSet(items')
    <3>1. \E m \in 1 .. Len(items) : items[m].k = "call"
      <4>1. Call(n).k = "call"
        BY DEF Call
      <4> QED
        BY <1>1, <2>2, <4>1, LenProperties DEF ToSet
    <3>2. i.k # "call" /\ i # Output(n)
      BY <2>3, NumberedAre
    <3>3. LastCall(Append(items, i)) = Call(n)
      BY <1>1, <2>2, <3>1, <3>2, LastCallIs
    <3>4. ToSet(Append(items, i)) = ToSet(items) \cup {i}
      BY <1>1, ToSetMore
    <3> QED
      BY <2>2, <2>3, <3>2, <3>3, <3>4
  <2>4. LastCall(items') = Call(n) /\ Call(n) \in ToSet(items') /\ Output(n) \notin ToSet(items')
    BY <2>2, <2>3
  <2>5. << >> # <<Entry(Call(n))>>
    OBVIOUS
  <2>6. \/ /\ unsaved'["task"] \in {<< >>, <<Entry(Unasked)>>}
           /\ Call(n) \in ToSet(rollout.items)
        \/ unsaved'["task"] = <<Entry(Call(n))>>
    BY <2>1, <2>2, <2>5
  <2> QED
    BY <2>2, <2>4, <2>6 DEF Answering
<1> QED
  BY <1>2, <1>3, <1>4, <1>5 DEF Calls

LEMMA CallsRecord ==
  ASSUME Types, Types', TakeTurns, Calls, TaskCall \/ TaskOutput
  PROVE  Calls'
<1>1. items \in Seq(Item) /\ rollout.items \in Seq(Item) /\ events \in Nat /\ events' \in Nat
      /\ DOMAIN unsaved = Actors /\ "task" \in Actors /\ turn \in Turns
  BY DEF Types, Actors
<1>2. Known(items, events) /\ Known(rollout.items, events)
  BY DEF Calls
<1>4. \A i, j \in Item : <<Entry(i)>> = <<Entry(j)>> => i = j
  BY DEF Entry
<1>6. CASE TaskCall
  <2>1. PICK n \in Nat : n = events + 1
    BY <1>1
  <2> DEFINE c == Call(n)
             o == Output(n)
             r == rollout.items
  <2>2. /\ items' = Append(items, c) /\ rollout' = rollout /\ events' = n
        /\ turn'.pc = "called" /\ unsaved' = [unsaved EXCEPT !["task"] = <<Entry(c)>> \o << >>]
    BY <1>1, <1>6, <2>1 DEF TaskCall, Record, Spend, Goto, Turns, Call
  <2>3. unsaved'["task"] = <<Entry(c)>>
    BY <1>1, <2>2, NewEntries
  <2>4. c \in Item /\ o \in Item /\ c.n = n /\ o.n = n /\ c \in Numbered /\ o \in Numbered
        /\ c.k = "call" /\ o.k = "output"
    BY <2>1, NumberedAre
  <2>5. c \notin ToSet(items) /\ c \notin ToSet(r) /\ o \notin ToSet(items) /\ o \notin ToSet(r)
    BY <1>1, <1>2, <2>1, <2>4 DEF Known
  <2>6. Known(items, n) /\ Known(r, n)
    BY <1>1, <1>2, <2>1, KnownLarger
  <2>7. Known(Append(items, c), n)
    BY <1>1, <2>1, <2>5, <2>6, KnownNumbered
  <2>8. LastCall(Append(items, c)) = c
    BY <1>1, <2>1, LastCallNew
  <2>9. ToSet(Append(items, c)) = ToSet(items) \cup {c}
    BY <1>1, <2>4, ToSetMore
  <2>10. Waiting(<<Entry(c)>>, r, n)
    <3>1. \A k \in Nat : <<Entry(c)>> = <<Entry(Call(k))>> => k = n
      BY <1>4, <2>4, NumberedAre
    <3>2. \A k \in Nat : <<Entry(c)>> # <<Entry(Output(k))>>
      BY <1>4, <2>4, NumberedAre
    <3> QED
      BY <2>5, <3>1, <3>2 DEF Waiting
  <2>11. Answering(Append(items, c), <<Entry(c)>>, r)
    BY <2>4, <2>5, <2>8, <2>9 DEF Answering
  <2> QED
    BY <2>2, <2>3, <2>6, <2>7, <2>10, <2>11 DEF Calls
<1>7. CASE TaskOutput
  <2>1. PICK n \in Nat : LastCall(items) = Call(n) /\ Record("task", Output(n), << >>)
    BY <1>7, OutputIs
  <2> DEFINE c == Call(n)
             o == Output(n)
             r == rollout.items
  <2>2. /\ turn.pc = "called" /\ unsaved["task"] = << >> /\ rollout' = rollout /\ turn'.pc # "called"
        /\ events' = events
    BY <1>1, <1>7 DEF TaskOutput, TaskAt, Idle, Goto, Turns, counts
  <2>3. c \in Item /\ o \in Item /\ c.n = n /\ o.n = n /\ o \in Numbered
        /\ c.k = "call" /\ o.k = "output" /\ c \in Numbered
    BY NumberedAre
  <2>4. c \in ToSet(items) /\ o \notin ToSet(items) /\ o \notin ToSet(r) /\ c \in ToSet(r)
    <3>1. Answering(items, unsaved["task"], r)
      BY <2>2 DEF Calls
    <3>2. PICK k \in Nat :
             /\ LastCall(items) = Call(k) /\ Call(k) \in ToSet(items)
             /\ Output(k) \notin ToSet(items) /\ Output(k) \notin ToSet(r)
             /\ (unsaved["task"] \in {<< >>, <<Entry(Unasked)>>} /\ Call(k) \in ToSet(r))
                  \/ unsaved["task"] = <<Entry(Call(k))>>
      BY <3>1 DEF Answering
    <3>3. k = n
      <4>1. Call(n) = Call(k)
        BY <2>1, <3>2
      <4> QED
        BY <4>1 DEF Call
    <3>4. << >> # <<Entry(Call(k))>>
      OBVIOUS
    <3> QED
      BY <2>2, <3>2, <3>3, <3>4
  <2>5. n <= events
    BY <1>2, <2>3, <2>4 DEF Known
  <2>6. items' = Append(items, o) /\ unsaved'["task"] = <<Entry(o)>>
    BY <1>1, <2>1, NewEntries DEF Record
  <2>7. Known(Append(items, o), events)
    BY <1>1, <1>2, <2>4, <2>5, KnownNumbered
  <2>8. Waiting(<<Entry(o)>>, r, events)
    <3>1. \A k \in Nat : <<Entry(o)>> = <<Entry(Output(k))>> => k = n
      BY <1>4, <2>3, NumberedAre
    <3>2. \A k \in Nat : <<Entry(o)>> # <<Entry(Call(k))>>
      BY <1>4, <2>3, NumberedAre
    <3> QED
      BY <2>4, <2>5, <3>1, <3>2 DEF Waiting
  <2> QED
    BY <1>2, <2>2, <2>6, <2>7, <2>8 DEF Calls
<1> QED
  BY <1>6, <1>7
(* Entries that are no calls and no outputs. *)
LEMMA Longer ==
  \A e, f, g : <<e, f>> # <<g>>
<1> SUFFICES ASSUME NEW e, NEW f, NEW g PROVE <<e, f>> # <<g>>
  OBVIOUS
<1>1. Len(<<e, f>>) = 2 /\ Len(<<g>>) = 1
  OBVIOUS
<1> QED
  BY <1>1

LEMMA Otherwise ==
  /\ \A r, e : Waiting(<< >>, r, e)
  /\ \A r, e : Waiting(<<Compacted>>, r, e)
  /\ \A s, r, e : Waiting(<<CompactedTo(s)>>, r, e)
  /\ \A n, r, e : Waiting(<<UserEvent(n)>>, r, e)
  /\ \A i \in Item \ Numbered : \A r, e : Waiting(<<Entry(i)>>, r, e)
  /\ \A n \in Nat : \A f, r, e : Waiting(<<Entry(User(n)), f>>, r, e)
<1>1. \A n \in Nat : << >> # <<Entry(Call(n))>> /\ << >> # <<Entry(Output(n))>>
  OBVIOUS
<1>2. \A n \in Nat : <<Compacted>> # <<Entry(Call(n))>> /\ <<Compacted>> # <<Entry(Output(n))>>
  BY DEF Compacted, Entry
<1>3. \A s : \A n \in Nat : /\ <<CompactedTo(s)>> # <<Entry(Call(n))>>
                            /\ <<CompactedTo(s)>> # <<Entry(Output(n))>>
  BY DEF CompactedTo, Entry
<1>4. \A m : \A n \in Nat : /\ <<UserEvent(m)>> # <<Entry(Call(n))>>
                            /\ <<UserEvent(m)>> # <<Entry(Output(n))>>
  BY DEF UserEvent, Entry
<1>5. \A i \in Item \ Numbered : \A n \in Nat : /\ <<Entry(i)>> # <<Entry(Call(n))>>
                                                /\ <<Entry(i)>> # <<Entry(Output(n))>>
  <2>1. \A i \in Item \ Numbered : \A n \in Nat : i # Call(n) /\ i # Output(n)
    BY NumberedAre
  <2> QED
    BY <2>1 DEF Entry
<1>6. \A f : \A m, n \in Nat : /\ <<Entry(User(m)), f>> # <<Entry(Call(n))>>
                               /\ <<Entry(User(m)), f>> # <<Entry(Output(n))>>
  BY Longer
<1> QED
  BY <1>1, <1>2, <1>3, <1>4, <1>5, <1>6, NotWaiting

LEMMA CallsQuiet ==
  ASSUME Known(items', events'), Known(rollout'.items, events'), turn'.pc # "called",
         Waiting(unsaved'["task"], rollout'.items, events')
  PROVE  Calls'
BY DEF Calls

LEMMA CallsHandedOver ==
  ASSUME Types, Types', Calls, NEW i \in Item, i \notin Numbered,
         rollout'.items = Append(rollout.items, i), items' = items, turn' = turn, events' = events,
         unsaved'["task"] = unsaved["task"]
  PROVE  Calls'
<1>1. rollout.items \in Seq(Item) /\ events \in Nat
  BY DEF Types
<1>2. Known(Append(rollout.items, i), events)
  BY <1>1, KnownMore DEF Calls
<1>3. \A n \in Nat : i # Call(n) /\ i # Output(n)
  BY NumberedAre
<1> DEFINE r == rollout.items
           t == Append(r, i)
<1>4. ToSet(t) = ToSet(r) \cup {i}
  BY <1>1, ToSetMore
<1> HIDE DEF t
<1>5. Waiting(unsaved["task"], t, events)
  <2>1. Waiting(unsaved["task"], r, events)
    BY DEF Calls
  <2> QED
    BY <1>3, <1>4, <2>1 DEF Waiting
<1>6. ASSUME turn.pc = "called" PROVE Answering(items, unsaved["task"], t)
  <2>1. Answering(items, unsaved["task"], r)
    BY <1>6 DEF Calls
  <2> QED
    BY <1>3, <1>4, <2>1 DEF Answering
<1> QED
  BY <1>2, <1>5, <1>6 DEF Calls, t

LEMMA CallsSave ==
  ASSUME Types, Types', TakeTurns, Settled, Calls, NEW a \in Actors, Save(a)
  PROVE  Calls'
<1>1. /\ DOMAIN unsaved = Actors /\ unsaved[a] \in Queues(a) /\ unsaved[a] # << >>
      /\ "task" \in Actors /\ events \in Nat
      /\ rollout \in [items : Seq(Item), turns : Seq(Nat), forks : Seq(Seq(Item))]
      /\ rollout.items \in Seq(Item)
  BY DEF Types, Save, Idle, Actors
<1> DEFINE u == unsaved[a]
           e == Head(u)
           r == rollout.items
<1>2. /\ items' = items /\ turn' = turn /\ events' = events /\ rollout' = Read(rollout, e)
      /\ unsaved' = [unsaved EXCEPT ![a] = Tail(u)]
  BY DEF Save, counts
<1>3. rollout'.items = Resumed(r, e)
  BY <1>2 DEF Read
<1>4. Known(r, events) /\ Known(items, events)
  BY DEF Calls
<1>5. \A i \in Item : Resumed(r, Entry(i)) = Append(r, i)
  BY DEF Resumed, Entry
<1>6. \A i \in Item : i \notin Numbered => Known(Append(r, i), events)
  BY <1>1, <1>4, KnownMore
<1>7. /\ Context \in Item /\ Context \notin Numbered
      /\ Unasked \in Item /\ Unasked \notin Numbered
      /\ Aside \in Item /\ Aside \notin Numbered
      /\ \A n \in Nat : User(n) \in Item /\ User(n) \notin Numbered
      /\ \A i \in OfKind({"ghost"}) : i \in Item /\ i \notin Numbered
  BY DEF Context, Unasked, Aside, User, Item, Kinds, OfKind, Numbered
<1>8. CASE a = "loop"
  <2>1. unsaved'["task"] = unsaved["task"]
    BY <1>1, <1>2, <1>8
  <2>2. CASE \E i \in {Context, Unasked, Aside} : u = <<Entry(i)>>
    <3>1. PICK i \in {Context, Unasked, Aside} : u = <<Entry(i)>>
      BY <2>2
    <3>2. e = Entry(i)
      BY <3>1
    <3> QED
      BY <1>2, <1>3, <1>5, <1>7, <2>1, <3>2, CallsHandedOver
  <2>3. CASE \E n \in 1 .. 2 : u = <<RolledBack(n)>>
    <3>1. PICK n \in 1 .. 2 : u = <<RolledBack(n)>>
      BY <2>3
    <3>2. e = RolledBack(n)
      BY <3>1
    <3>3. u # << >> /\ u # <<Entry(Aside)>>
      BY <3>1 DEF RolledBack, Entry
    <3>4. turn = NoTurn /\ unsaved["task"] = << >>
      BY <1>8, <3>3 DEF Settled, TakeTurns, Idle
    <3>5. turn'.pc # "called" /\ unsaved'["task"] = << >>
      BY <1>2, <2>1, <3>4 DEF NoTurn
    <3>6. Resumed(r, e) = DropLastTurns(r, n) /\ n \in Nat
      BY <3>2 DEF Resumed, RolledBack
    <3>7. Known(DropLastTurns(r, n), events)
      BY <1>1, <1>4, <3>6, KnownDropped
    <3> QED
      BY <1>2, <1>3, <1>4, <3>5, <3>6, <3>7, Otherwise, CallsQuiet
  <2> QED
    BY <1>1, <1>8, <2>2, <2>3 DEF Queues
<1>9. CASE a = "left" \/ a = "aside"
  <2>1. PICK i \in Waits : u = <<Entry(i)>>
    BY <1>1, <1>9 DEF Queues, Waits
  <2>2. e = Entry(i) /\ unsaved'["task"] = unsaved["task"]
    BY <1>1, <1>2, <1>9, <2>1
  <2>3. i \in Item /\ i \notin Numbered
    BY <1>7 DEF Waits
  <2> QED
    BY <1>2, <1>3, <1>5, <2>2, <2>3, CallsHandedOver
<1>10. CASE a = "ghost"
  <2>1. PICK i \in OfKind({"ghost"}) : u = <<Entry(i)>>
    BY <1>1, <1>10 DEF Queues
  <2>2. e = Entry(i) /\ unsaved'["task"] = unsaved["task"]
    BY <1>1, <1>2, <1>10, <2>1
  <2> QED
    BY <1>2, <1>3, <1>5, <1>7, <2>2, CallsHandedOver
<1>11. CASE a = "task"
  <2>1. unsaved'["task"] = Tail(u)
    BY <1>1, <1>2, <1>11
  <2>2. \/ \E n \in Nat : u = <<Entry(User(n)), UserEvent(n)>>
        \/ \E n \in Nat : u = <<UserEvent(n)>>
        \/ \E i \in OfKind({"agent", "call", "output"}) : u = <<Entry(i)>>
        \/ u = <<Compacted>> \/ u = <<Entry(Unasked)>> \/ u = <<Entry(Aside)>>
        \/ \E s \in Seq(Spoken) : u = <<CompactedTo(s)>>
    BY <1>1, <1>11 DEF Queues
  <2>3. Waiting(u, r, events) /\ (turn.pc = "called" => Answering(items, u, r))
    BY <1>11 DEF Calls
  <2>4. CASE \E n \in Nat : u = <<Entry(User(n)), UserEvent(n)>>
    <3>1. PICK n \in Nat : u = <<Entry(User(n)), UserEvent(n)>>
      BY <2>4
    <3>2. e = Entry(User(n)) /\ Tail(u) = <<UserEvent(n)>> /\ Len(u) = 2
      <4> DEFINE f == Entry(User(n))
                 g == UserEvent(n)
      <4> HIDE DEF f, g
      <4>1. u = <<f, g>>
        BY <3>1 DEF f, g
      <4>2. Head(<<f, g>>) = f /\ Tail(<<f, g>>) = <<g>> /\ Len(<<f, g>>) = 2
        OBVIOUS
      <4> QED
        BY <4>1, <4>2 DEF f, g
    <3>3. turn.pc # "called"
      <4>1. u # << >>
        BY <3>1
      <4>2. u # <<Entry(Unasked)>> /\ \A k \in Nat : u # <<Entry(Call(k))>>
        BY <3>1, Longer
      <4> QED
        BY <2>3, <4>1, <4>2 DEF Answering
    <3> QED
      BY <1>2, <1>3, <1>4, <1>5, <1>6, <1>7, <2>1, <3>2, <3>3, Otherwise, CallsQuiet
  <2>5. ASSUME NEW f, u = <<f>>, Known(Resumed(r, f), events), f # Entry(Unasked),
               \A n \in Nat : f # Entry(Call(n))
        PROVE  Calls'
    <3>1. e = f /\ Tail(u) = << >>
      BY <2>5
    <3>2. turn.pc # "called"
      <4>1. u # << >> /\ u # <<Entry(Unasked)>> /\ \A k \in Nat : u # <<Entry(Call(k))>>
        BY <2>5
      <4> QED
        BY <2>3, <4>1 DEF Answering
    <3> QED
      BY <1>2, <1>3, <1>4, <2>1, <2>5, <3>1, <3>2, Otherwise, CallsQuiet
  <2>6. CASE \E n \in Nat : u = <<UserEvent(n)>>
    <3>1. PICK n \in Nat : u = <<UserEvent(n)>>
      BY <2>6
    <3>2. /\ Resumed(r, UserEvent(n)) = r /\ UserEvent(n) # Entry(Unasked)
          /\ \A k \in Nat : UserEvent(n) # Entry(Call(k))
      BY DEF Resumed, UserEvent, Entry
    <3> QED
      BY <1>4, <2>5, <3>1, <3>2
  <2>7. CASE u = <<Compacted>>
    <3>1. /\ Resumed(r, Compacted) = CompactLocal(r) /\ Compacted # Entry(Unasked)
          /\ \A k \in Nat : Compacted # Entry(Call(k))
      BY DEF Resumed, Compacted, Entry
    <3>2. CompactLocal(r) \in Seq(Spoken)
      BY <1>1, SpokenOnly
    <3>3. Known(CompactLocal(r), events)
      BY <1>1, <3>2, KnownSpoken
    <3> QED
      BY <2>5, <2>7, <3>1, <3>3
  <2>8. CASE \E s \in Seq(Spoken) : u = <<CompactedTo(s)>>
    <3>1. PICK s \in Seq(Spoken) : u = <<CompactedTo(s)>>
      BY <2>8
    <3>2. /\ Resumed(r, CompactedTo(s)) = s /\ CompactedTo(s) # Entry(Unasked)
          /\ \A k \in Nat : CompactedTo(s) # Entry(Call(k))
      BY DEF Resumed, CompactedTo, Entry
    <3>3. Known(s, events)
      BY <1>1, KnownSpoken
    <3> QED
      BY <2>5, <3>1, <3>2, <3>3
  <2>9. CASE \E i \in OfKind({"agent", "call", "output"}) : u = <<Entry(i)>>
    <3>1. PICK i \in OfKind({"agent", "call", "output"}) : u = <<Entry(i)>>
      BY <2>9
    <3>2. i \in Item /\ i.k \in {"agent", "call", "output"} /\ i.n \in Nat
      BY DEF OfKind, Item
    <3>3. CASE i.k = "agent"
      <4>1. i \notin Numbered /\ i # Unasked /\ \A k \in Nat : i # Call(k)
        BY <3>2, <3>3, NumberedAre DEF Unasked, User
      <4>2. Entry(i) # Entry(Unasked) /\ \A k \in Nat : Entry(i) # Entry(Call(k))
        BY <4>1 DEF Entry
      <4> QED
        BY <1>5, <1>6, <2>5, <3>1, <3>2, <4>1, <4>2
    <3>4. CASE i.k = "output"
      <4>1. i = Output(i.n)
        BY <3>2, <3>4, NumberedAre
      <4>2. i.n <= events /\ Call(i.n) \in ToSet(r) /\ i \notin ToSet(r)
        BY <2>3, <3>1, <3>2, <4>1 DEF Waiting
      <4>3. Known(Append(r, i), events)
        BY <1>1, <1>4, <3>2, <4>1, <4>2, KnownNumbered
      <4>4. i # Unasked /\ \A k \in Nat : i # Call(k)
        BY <3>4, NumberedAre DEF Unasked, User
      <4>5. Entry(i) # Entry(Unasked) /\ \A k \in Nat : Entry(i) # Entry(Call(k))
        BY <4>4 DEF Entry
      <4> QED
        BY <1>5, <2>5, <3>1, <3>2, <4>3, <4>5
    <3>5. CASE i.k = "call"
      <4>1. i = Call(i.n)
        BY <3>2, <3>5, NumberedAre
      <4>2. i.n <= events /\ i \notin ToSet(r) /\ Output(i.n) \notin ToSet(r)
        BY <2>3, <3>1, <3>2, <4>1 DEF Waiting
      <4> DEFINE t == Append(r, i)
      <4>3. Known(t, events)
        BY <1>1, <1>4, <3>2, <4>1, <4>2, KnownNumbered
      <4>4. rollout'.items = t /\ Tail(u) = << >>
        BY <1>3, <1>5, <3>1, <3>2
      <4>5. ToSet(t) = ToSet(r) \cup {i}
        BY <1>1, <3>2, ToSetMore
      <4> HIDE DEF t
      <4>6. ASSUME turn.pc = "called" PROVE Answering(items, << >>, t)
        <5>1. PICK n \in Nat :
                 /\ LastCall(items) = Call(n) /\ Call(n) \in ToSet(items)
                 /\ Output(n) \notin ToSet(items) /\ Output(n) \notin ToSet(r)
                 /\ (u \in {<< >>, <<Entry(Unasked)>>} /\ Call(n) \in ToSet(r)) \/ u = <<Entry(Call(n))>>
          BY <2>3, <4>6 DEF Answering
        <5>2. u # << >> /\ u # <<Entry(Unasked)>>
          <6>1. i # Unasked
            BY <3>5 DEF Unasked, User
          <6> QED
            BY <3>1, <6>1 DEF Entry
        <5>3. Entry(i) = Entry(Call(n))
          BY <3>1, <5>1, <5>2
        <5>4. i = Call(n)
          BY <5>3 DEF Entry
        <5>5. Output(n) # i
          BY <3>5, NumberedAre
        <5> QED
          BY <4>5, <5>1, <5>4, <5>5 DEF Answering
      <4> QED
        BY <1>2, <1>4, <2>1, <4>3, <4>4, <4>6, Otherwise DEF Calls
    <3> QED
      BY <3>2, <3>3, <3>4, <3>5
  <2>10. CASE u = <<Entry(Aside)>>
    <3>1. Aside # Unasked /\ \A k \in Nat : Aside # Call(k)
      BY DEF Aside, Unasked, User, Call
    <3>2. Entry(Aside) # Entry(Unasked) /\ \A k \in Nat : Entry(Aside) # Entry(Call(k))
      BY <3>1 DEF Entry
    <3> QED
      BY <1>5, <1>6, <1>7, <2>5, <2>10, <3>2
  <2>11. CASE u = <<Entry(Unasked)>>
    <3> DEFINE t == Append(r, Unasked)
    <3>1. e = Entry(Unasked) /\ Tail(u) = << >> /\ rollout'.items = t
      BY <1>3, <1>5, <1>7, <2>11
    <3>2. Known(t, events) /\ ToSet(t) = ToSet(r) \cup {Unasked}
      BY <1>1, <1>6, <1>7, ToSetMore
    <3> HIDE DEF t
    <3>3. ASSUME turn.pc = "called" PROVE Answering(items, << >>, t)
      <4>1. PICK n \in Nat :
               /\ LastCall(items) = Call(n) /\ Call(n) \in ToSet(items)
               /\ Output(n) \notin ToSet(items) /\ Output(n) \notin ToSet(r)
               /\ (u \in {<< >>, <<Entry(Unasked)>>} /\ Call(n) \in ToSet(r)) \/ u = <<Entry(Call(n))>>
        BY <2>3, <3>3 DEF Answering
      <4>2. Unasked # Call(n) /\ Unasked # Output(n)
        BY DEF Unasked, User, Call, Output
      <4>3. u # <<Entry(Call(n))>>
        BY <2>11, <4>2 DEF Entry
      <4> QED
        BY <3>2, <4>1, <4>2, <4>3 DEF Answering
    <3> QED
      BY <1>2, <1>4, <2>1, <3>1, <3>2, <3>3, Otherwise DEF Calls
  <2> QED
    BY <2>2, <2>4, <2>6, <2>7, <2>8, <2>9, <2>10, <2>11
<1> QED
  BY <1>8, <1>9, <1>10, <1>11 DEF Actors
LEMMA CallsReplace ==
  ASSUME Types, Types', TakeTurns, Cloned, Calls, Replacing
  PROVE  Calls'
<1>1. /\ items \in Seq(Item) /\ rollout.items \in Seq(Item) /\ copy \in Seq(Item) /\ events \in Nat
      /\ DOMAIN unsaved = Actors /\ "task" \in Actors /\ turn \in Turns
  BY DEF Types, Actors
<1>2. Known(items, events) /\ Known(rollout.items, events)
  BY DEF Calls
<1>3. ASSUME Cloning PROVE Known(copy, events)
  <2>1. Len(copy) \in 0 .. Len(items) /\ copy = SubSeq(items, 1, Len(copy))
    BY <1>1, <1>3, LenProperties DEF Cloned
  <2> DEFINE q == SubSeq(items, Len(copy) + 1, Len(items))
  <2>2. Len(items) \in Nat /\ Len(copy) \in Nat
    BY <1>1, LenProperties
  <2>3. q \in Seq(Item)
    BY <1>1, <2>2, Piece
  <2>4. SubSeq(items, 1, Len(copy)) \o q = SubSeq(items, 1, Len(items))
    <3>1. 1 \in 1 .. Len(items) + 1 /\ Len(copy) \in 1 - 1 .. Len(items)
          /\ Len(items) \in Len(copy) .. Len(items)
      BY <2>1, <2>2
    <3> QED
      BY <1>1, <3>1, ConcatAdjacentSubSeq
  <2> HIDE DEF q
  <2>5. copy \o q = items
    BY <1>1, <2>1, <2>4, SubSeqFull
  <2> QED
    BY <1>1, <1>2, <2>3, <2>5, KnownFirst
<1>4. CASE RollbackReplace
  <2>1. /\ items' = DropLastTurns(copy, loop.n) /\ rollout' = rollout /\ events' = events
        /\ turn' = turn /\ loop.pc = "rolling" /\ loop.n \in Nat
        /\ unsaved' = [unsaved EXCEPT !["loop"] = <<RolledBack(loop.n)>>]
    BY <1>4 DEF RollbackReplace, Replace, counts, TakeTurns, Types, Loops
  <2>2. turn = NoTurn /\ unsaved["task"] = << >>
    BY <2>1 DEF TakeTurns, Idle
  <2>3. unsaved'["task"] = << >> /\ turn'.pc # "called"
    BY <1>1, <2>1, <2>2 DEF NoTurn
  <2>4. Known(DropLastTurns(copy, loop.n), events)
    BY <1>1, <1>3, <2>1, KnownDropped DEF Cloning
  <2> QED
    BY <1>2, <2>1, <2>3, <2>4, Otherwise, CallsQuiet
<1>5. CASE CompactReplace
  <2> DEFINE new == CompactLocal(copy) \o Ghosts(copy)
  <2>1. new \in Seq(Spoken)
    BY <1>1, SpokenOnly
  <2>2. /\ items' = new /\ rollout' = rollout /\ events' = events /\ turn'.pc # "called"
        /\ unsaved' = [unsaved EXCEPT !["task"] = <<Compacted>>]
    BY <1>1, <1>5 DEF CompactReplace, Replace, counts, Goto, Turns
  <2> HIDE DEF new
  <2>3. Known(new, events)
    BY <1>1, <2>1, KnownSpoken
  <2>4. unsaved'["task"] = <<Compacted>>
    BY <1>1, <2>2
  <2> QED
    BY <1>2, <2>2, <2>3, <2>4, Otherwise, CallsQuiet
<1>6. CASE \E kept \in {{"user", "summary"}, {"agent"}} : RemoteReplace(kept)
  <2>1. PICK kept \in {{"user", "summary"}, {"agent"}} : RemoteReplace(kept)
    BY <1>6
  <2> DEFINE new == CompactRemote(Only(copy, kept)) \o Ghosts(copy)
  <2>2. new \in Seq(Spoken)
    BY <1>1, SpokenOnly
  <2>3. /\ items' = new /\ rollout' = rollout /\ events' = events /\ turn'.pc # "called"
        /\ unsaved' = [unsaved EXCEPT !["task"] = <<CompactedTo(new)>>]
    BY <1>1, <2>1 DEF RemoteReplace, Replace, counts, Goto, Turns
  <2> HIDE DEF new
  <2>4. Known(new, events)
    BY <1>1, <2>2, KnownSpoken
  <2>5. unsaved'["task"] = <<CompactedTo(new)>>
    BY <1>1, <2>3
  <2> QED
    BY <1>2, <2>3, <2>4, <2>5, Otherwise, CallsQuiet
<1>7. CASE UndoReplace
  <2>1. /\ items' = Undone(copy) /\ rollout' = rollout /\ events' = events /\ turn'.pc # "called"
        /\ unsaved' = [unsaved EXCEPT !["task"] = << >>] /\ Cloning
    BY <1>1, <1>7 DEF UndoReplace, Replace, counts, Goto, Turns, Undone, Cloning
  <2>2. Known(Undone(copy), events)
    BY <1>1, <1>3, <2>1, KnownUndone
  <2>3. unsaved'["task"] = << >>
    BY <1>1, <2>1
  <2> QED
    BY <1>2, <2>1, <2>2, <2>3, Otherwise, CallsQuiet
<1> QED
  BY <1>4, <1>5, <1>6, <1>7 DEF Replacing

LEMMA NextCalls ==
  ASSUME Types, Types', TakeTurns, Settled, Cloned, Calls, [Next]_vars
  PROVE  Calls'
<1>1. /\ items \in Seq(Item) /\ rollout.items \in Seq(Item) /\ DOMAIN unsaved = Actors
      /\ "task" \in Actors /\ turn \in Turns /\ ghost.n \in Nat /\ events \in Nat
  BY DEF Types, Actors
<1>2. \A k \in Nat : k <= k /\ k <= k + 1
  OBVIOUS
<1>3. ASSUME UNCHANGED <<items, rollout, unsaved>>, events' \in {events, events + 1},
             turn'.pc = "called" => turn.pc = "called"
      PROVE  Calls'
  BY <1>1, <1>2, <1>3, CallsSteady
<1>4. CASE UNCHANGED vars
  BY <1>3, <1>4 DEF vars
<1>5. CASE \/ OpSteer \/ OpUserTurn \/ TaskSnapshot \/ TaskFinish \/ CompactSnapshot \/ UndoClone
           \/ (\E n \in 1 .. 2 : OpRollback(n)) \/ (\E remote \in BOOLEAN : CompactBegin(remote))
  <2>1. UNCHANGED <<items, rollout, unsaved>>
    BY <1>5 DEF OpSteer, OpUserTurn, TaskSnapshot, TaskFinish, CompactSnapshot, UndoClone,
                OpRollback, CompactBegin
  <2>2. CASE OpSteer \/ OpUserTurn
    BY <1>3, <2>1, <2>2 DEF OpSteer, OpUserTurn, Send, NoTurn
  <2>3. CASE TaskSnapshot \/ TaskFinish
    BY <1>1, <1>3, <2>1, <2>3 DEF TaskSnapshot, TaskFinish, Spend, counts, NoTurn, Goto, Turns
  <2>4. CASE CompactSnapshot \/ UndoClone \/ \E n \in 1 .. 2 : OpRollback(n)
    BY <1>1, <1>3, <2>1, <2>4 DEF CompactSnapshot, UndoClone, OpRollback, Spend, counts, Goto, Turns
  <2>5. CASE \E remote \in BOOLEAN : CompactBegin(remote)
    <3>1. events' \in {events, events + 1}
      BY <2>5 DEF CompactBegin, Spend, counts
    <3>2. turn'.pc # "called"
      BY <1>1, <2>5 DEF CompactBegin, Turns
    <3> QED
      BY <1>3, <2>1, <3>1, <3>2
  <2> QED
    BY <1>5, <2>2, <2>3, <2>4, <2>5
<1>6. ASSUME NEW a \in Actors, NEW i \in Item, i \notin Numbered, NEW then, Record(a, i, then),
             rollout' = rollout, events' = events, turn'.pc = "called" => turn.pc = "called",
             a = "task" => /\ turn'.pc # "called"
                           /\ then = << >> \/ \E n \in Nat : then = <<UserEvent(n)>> /\ i = User(n)
      PROVE  Calls'
  <2>1. items' = Append(items, i) /\ unsaved' = [unsaved EXCEPT ![a] = <<Entry(i)>> \o then]
    BY <1>6 DEF Record
  <2>2. CASE a # "task"
    <3>1. unsaved'["task"] = unsaved["task"]
      BY <1>1, <2>1, <2>2
    <3> QED
      BY <1>1, <1>2, <1>6, <2>1, <3>1, CallsSteady
  <2>3. CASE a = "task"
    <3>1. unsaved'["task"] = <<Entry(i)>> \o then /\ turn'.pc # "called"
      BY <1>1, <1>6, <2>1, <2>3
    <3>2. CASE then = << >>
      <4>1. unsaved'["task"] = <<Entry(i)>>
        BY <1>6, <3>1, <3>2, NewEntries
      <4>2. \A n \in Nat : i # Call(n) /\ i # Output(n)
        BY <1>6, NumberedAre
      <4>3. \A n \in Nat : <<Entry(i)>> # <<Entry(Call(n))>> /\ <<Entry(i)>> # <<Entry(Output(n))>>
        BY <4>2 DEF Entry
      <4> QED
        BY <1>1, <1>2, <1>6, <2>1, <3>1, <4>1, <4>3, CallsSteady
    <3>3. CASE \E n \in Nat : then = <<UserEvent(n)>> /\ i = User(n)
      <4>1. PICK n \in Nat : then = <<UserEvent(n)>> /\ i = User(n)
        BY <3>3
      <4>2. unsaved'["task"] = <<Entry(i), UserEvent(n)>>
        BY <1>6, <3>1, <4>1, NewEntries
      <4> QED
        BY <1>1, <1>2, <1>6, <2>1, <3>1, <4>2, Longer, CallsSteady
    <3> QED
      BY <1>6, <2>3, <3>2, <3>3
  <2> QED
    BY <2>2, <2>3
<1>7. /\ Context \in Item /\ Context \notin Numbered
      /\ \A n \in Nat : User(n) \in Item /\ User(n) \notin Numbered
      /\ \A n \in Nat : [k |-> "agent", n |-> n] \in Item /\ [k |-> "agent", n |-> n] \notin Numbered
      /\ \A n \in Nat : [k |-> "ghost", n |-> n] \in Item /\ [k |-> "ghost", n |-> n] \notin Numbered
      /\ [k |-> "draft", n |-> 0] \in Item /\ [k |-> "draft", n |-> 0] \notin Numbered
      /\ Unasked \in Item /\ Unasked \notin Numbered
      /\ Aside \in Item /\ Aside \notin Numbered
  BY DEF Context, Unasked, Aside, User, Item, Kinds, OfKind, Numbered
<1>8. "loop" \in Actors /\ "left" \in Actors /\ "ghost" \in Actors /\ "aside" \in Actors
  BY DEF Actors
<1>9. CASE OpSeed
  <2>1. Record("loop", Context, << >>) /\ rollout' = rollout /\ events' = events /\ turn' = turn
    BY <1>9 DEF OpSeed, counts
  <2> QED
    BY <1>6, <1>7, <1>8, <2>1
<1>10. CASE TaskPrompt
  <2>1. /\ Record("task", User(turn.n), <<UserEvent(turn.n)>>) /\ rollout' = rollout
        /\ turn.n \in Nat /\ events' = events /\ turn'.pc # "called"
    BY <1>1, <1>10 DEF TaskPrompt, Goto, Turns, counts
  <2> QED
    BY <1>1, <1>6, <1>7, <2>1
<1>11. CASE TaskPull
  <2>1. rollout' = rollout /\ events' = events /\ turn'.pc # "called"
    BY <1>1, <1>11 DEF TaskPull, Goto, Turns, counts
  <2>2. CASE Record("task", Aside, << >>)
    BY <1>1, <1>6, <1>7, <2>1, <2>2
  <2>3. CASE \E n \in Nat : Record("task", User(n), <<UserEvent(n)>>)
    BY <1>1, <1>6, <1>7, <2>1, <2>3
  <2> QED
    BY <1>11, <2>2, <2>3, PullRecords
<1>12. CASE TaskAgent
  <2> DEFINE i == [k |-> "agent", n |-> turn.n]
  <2>1. /\ Record("task", i, << >>) /\ rollout' = rollout /\ turn.n \in Nat
        /\ events' = events /\ turn'.pc # "called"
    BY <1>1, <1>12 DEF TaskAgent, Goto, Turns, counts
  <2>2. i \in Item /\ i \notin Numbered
    BY <1>7, <2>1
  <2> HIDE DEF i
  <2> QED
    BY <1>1, <1>6, <2>1, <2>2
<1>13. CASE LeftRecord
  <2>1. /\ Record("left", Head(left), << >>) /\ rollout' = rollout /\ Head(left) \in Waits
        /\ events' = events /\ turn' = turn
    BY <1>13 DEF LeftRecord, Types, Few, counts
  <2>2. Head(left) \in Item /\ Head(left) \notin Numbered
    BY <1>7, <2>1 DEF Waits
  <2> QED
    BY <1>6, <1>8, <2>1, <2>2
<1>a. CASE LoopMark \/ LoopNote \/ LoopExitReview \/ AsideRecord
  <2>1. /\ rollout' = rollout /\ events' = events /\ turn' = turn
        /\ \E a \in {"loop", "aside"}, i \in {Context, Aside, Unasked} : Record(a, i, << >>)
    BY <1>a DEF LoopMark, LoopNote, LoopExitReview, AsideRecord, counts
  <2> QED
    BY <1>6, <1>7, <1>8, <2>1
<1>b. CASE ReviewExit
  <2>1. /\ Record("task", Unasked, << >>) /\ rollout' = rollout /\ events' = events
        /\ turn'.pc # "called"
    BY <1>1, <1>b DEF ReviewExit, Goto, Turns, counts
  <2> QED
    BY <1>1, <1>6, <1>7, <2>1
<1>c. CASE ReviewAsk
  <2>1. /\ items' = items /\ rollout' = rollout /\ events' = events
        /\ unsaved'["task"] = <<UserEvent(0)>> /\ turn'.pc # "called"
    BY <1>1, <1>c DEF ReviewAsk, Goto, Turns, counts
  <2>2. \A n \in Nat : /\ <<UserEvent(0)>> # <<Entry(Call(n))>>
                       /\ <<UserEvent(0)>> # <<Entry(Output(n))>>
    BY DEF UserEvent, Entry
  <2> QED
    BY <1>1, <1>2, <2>1, <2>2, CallsSteady
<1>d. CASE TaskWarn
  <2>1. /\ Record("task", Unasked, << >>) /\ rollout' = rollout /\ events' = events + 1
        /\ turn' = turn /\ unsaved["task"] = << >>
    BY <1>d DEF TaskWarn, TaskAt, Idle, SpendBeside
  <2>2. items' = Append(items, Unasked) /\ unsaved'["task"] = <<Entry(Unasked)>>
    BY <1>1, <2>1, NewEntries DEF Record
  <2>3. \A n \in Nat : Unasked # Call(n) /\ Unasked # Output(n)
    BY DEF Unasked, User, Call, Output
  <2>4. \A n \in Nat : /\ <<Entry(Unasked)>> # <<Entry(Call(n))>>
                       /\ <<Entry(Unasked)>> # <<Entry(Output(n))>>
    BY <2>3 DEF Entry
  <2> QED
    BY <1>1, <1>2, <1>7, <2>1, <2>2, <2>4, CallsSteady
<1>e. CASE OpNote \/ OpShell \/ AsideInject \/ AsideRefused
  <2>1. UNCHANGED <<items, rollout, unsaved, turn>> /\ events' \in {events, events + 1}
    BY <1>e DEF OpNote, OpShell, AsideInject, AsideRefused, SpendBeside, counts
  <2> QED
    BY <1>3, <2>1
<1>14. CASE GhostRecord
  <2> DEFINE i == [k |-> "ghost", n |-> ghost.n]
  <2>1. /\ Record("ghost", i, << >>) /\ rollout' = rollout /\ events' = events /\ turn' = turn
        /\ i \in Item /\ i \notin Numbered
    BY <1>1, <1>7, <1>14 DEF GhostRecord, counts
  <2> HIDE DEF i
  <2> QED
    BY <1>6, <1>8, <2>1
<1>15. CASE CompactDraft
  <2>1. /\ items' = Append(items, [k |-> "draft", n |-> 0]) /\ rollout' = rollout
        /\ unsaved' = unsaved /\ events' = events /\ turn' = turn
    BY <1>15 DEF CompactDraft, counts
  <2> QED
    BY <1>1, <1>2, <1>7, <2>1, CallsSteady
<1>16. CASE OpInterrupt \/ OpReplaceReview
            \/ (\E kind \in {"compact", "undo", "review"} : OpTask(kind))
  <2>1. items' = items /\ rollout' = rollout /\ turn'.pc # "called" /\ unsaved'["task"] = << >>
    <3>1. items' = items /\ rollout' = rollout
      BY <1>16 DEF OpInterrupt, OpReplaceReview, OpTask
    <3>2. CASE OpInterrupt \/ OpReplaceReview
      BY <1>1, <3>1, <3>2 DEF OpInterrupt, OpReplaceReview, Abort, NoTurn
    <3>3. ASSUME NEW kind \in {"compact", "undo", "review"}, OpTask(kind)
          PROVE  turn'.pc # "called" /\ unsaved'["task"] = << >>
      BY <1>1, <3>3 DEF OpTask, Abort, NoTurn
    <3> QED
      BY <1>16, <3>1, <3>2, <3>3
  <2>2. events' \in {events, events + 1, events + 2}
    BY <1>16 DEF OpInterrupt, OpReplaceReview, OpTask, Spend, SpendBeside, counts
  <2>3. events <= events'
    BY <1>1, <2>2
  <2>4. \A n \in Nat : << >> # <<Entry(Call(n))>> /\ << >> # <<Entry(Output(n))>>
    OBVIOUS
  <2> QED
    BY <2>1, <2>3, <2>4, CallsSteady
<1>17. CASE LeftDrop \/ GhostEnds
  <2>1. /\ items' = items /\ rollout' = rollout /\ events' = events /\ turn' = turn
        /\ unsaved'["task"] = unsaved["task"]
    BY <1>1, <1>17 DEF LeftDrop, GhostEnds, counts
  <2> QED
    BY <1>1, <1>2, <2>1, CallsSteady
<1>18. CASE Restart
  <2>1. /\ items' = rollout.items /\ rollout' = rollout /\ events' = events + 1
        /\ unsaved'["task"] = << >> /\ turn'.pc # "called"
    BY <1>1, <1>18 DEF Restart, Spend, NoTurn
  <2>2. events + 1 \in Nat /\ events <= events + 1
    BY <1>1
  <2>3. Known(rollout.items, events + 1)
    BY <1>1, <2>2, KnownLarger DEF Calls
  <2> QED
    BY <2>1, <2>3, Otherwise, CallsQuiet
<1> QED
  BY <1>4, <1>5, <1>9, <1>10, <1>11, <1>12, <1>13, <1>14, <1>15, <1>16, <1>17, <1>18,
     <1>a, <1>b, <1>c, <1>d, <1>e, CallsSave, CallsRecord, CallsReplace DEF Next
--------------------------------------------------------------------------------
(* What the model is shown. *)

(* Coupled, and no call without its output. *)
Full(s) == Coupled(s) /\ \A i \in ToSet(s) : i.k = "call" => Output(i.n) \in ToSet(s)

LEMMA FullPaired ==
  ASSUME NEW s \in Seq(Item), Full(s)
  PROVE  Paired(s)
<1>1. /\ DOMAIN s = 1 .. Len(s) /\ Len(s) \in Nat /\ \A m \in 1 .. Len(s) : s[m] \in Item
      /\ \A i : i \in ToSet(s) <=> \E m \in 1 .. Len(s) : s[m] = i
  BY LenProperties, ElementOfSeq DEF ToSet
<1>2. Coupled(s)
  BY DEF Full
<1>3. ASSUME NEW m \in 1 .. Len(s), s[m].k = "call"
      PROVE  Cardinality({o \in DOMAIN s : o > m /\ s[o] = [s[m] EXCEPT !.k = "output"]}) = 1
  <2> DEFINE n == s[m].n
             O == {o \in DOMAIN s : o > m /\ s[o] = [s[m] EXCEPT !.k = "output"]}
  <2>1. s[m] \in Item /\ s[m] = Call(n) /\ n \in Nat /\ s[m] \in Numbered
    BY <1>1, <1>3, NumberedAre DEF Item
  <2>2. [s[m] EXCEPT !.k = "output"] = Output(n)
    BY <2>1 DEF Output, Item
  <2>3. Output(n) \in ToSet(s) /\ Output(n).k = "output" /\ Output(n).n = n /\ Output(n) \in Item
        /\ Output(n) \in Numbered
    BY <1>1, <1>3, <2>1, NumberedAre DEF Full
  <2>4. PICK o \in 1 .. Len(s) : s[o] = Output(n)
    BY <1>1, <2>3
  <2>5. PICK l \in 1 .. o - 1 : s[l] = Call(s[o].n)
    BY <1>2, <2>3, <2>4 DEF Coupled
  <2>6. s[l] = s[m] /\ l \in 1 .. Len(s)
    BY <1>1, <2>1, <2>3, <2>4, <2>5
  <2>7. l = m
    BY <1>2, <2>1, <2>6 DEF Coupled
  <2>8. o > m
    BY <2>5, <2>7
  <2>9. \A p \in 1 .. Len(s) : s[p] = Output(n) => p = o
    BY <1>2, <2>3, <2>4 DEF Coupled
  <2>10. O = {o}
    BY <1>1, <2>2, <2>4, <2>8, <2>9
  <2> QED
    BY <2>10, FS_Singleton
<1>4. ASSUME NEW o \in 1 .. Len(s), s[o].k = "output" PROVE HasItem(s, "call", s[o].n)
  <2>1. PICK m \in 1 .. o - 1 : s[m] = Call(s[o].n)
    BY <1>2, <1>4 DEF Coupled
  <2>2. m \in 1 .. Len(s)
    BY <1>1
  <2> QED
    BY <1>1, <2>1, <2>2 DEF HasItem, Call
<1> QED
  BY <1>1, <1>3, <1>4 DEF Paired

(* Items of other kinds may go. *)
LEMMA CoupledKeep ==
  ASSUME NEW S, Numbered \subseteq S
  PROVE  \A s \in Seq(Item) : Coupled(s) => Coupled(Keep(s, S))
<1> DEFINE P == {s \in Seq(Item) : Coupled(s) => Coupled(Keep(s, S))}
<1>1. << >> \in P
  <2>1. << >> \in Seq(Item)
    OBVIOUS
  <2>2. Keep(<< >>, S) = << >>
    BY <2>1, KeepMore
  <2> QED
    BY <2>1, <2>2
<1>2. ASSUME NEW s \in Seq(Item), NEW i \in Item, s \in P PROVE Append(s, i) \in P
  <2> DEFINE t == Keep(s, S)
             a == Append(s, i)
  <2>1. a \in Seq(Item) /\ t \in Seq(Item) /\ ToSet(t) = ToSet(s) \cap S
    BY KeepIs, AppendProperties
  <2>2. Keep(a, S) = IF i \in S THEN Append(t, i) ELSE t
    BY KeepMore
  <2>3. ASSUME Coupled(a) PROVE Coupled(Keep(a, S))
    <3>1. Coupled(s) /\ (i \in Numbered => i \notin ToSet(s)) /\ (i.k = "output" => Call(i.n) \in ToSet(s))
      BY <2>3, CoupledMore
    <3>2. Coupled(t)
      BY <1>2, <3>1
    <3>3. i.k = "output" => Call(i.n) \in ToSet(t)
      <4>1. i.k = "output" => Call(i.n) \in Numbered
        BY NumberedAre DEF Item
      <4> QED
        BY <2>1, <3>1, <4>1
    <3> HIDE DEF t, a
    <3>4. Coupled(Append(t, i))
      BY <2>1, <3>1, <3>2, <3>3, CoupledMore
    <3> QED
      BY <2>2, <3>2, <3>4
  <2> QED
    BY <2>1, <2>3
<1> HIDE DEF P
<1>3. \A s \in Seq(Item) : s \in P
  BY <1>1, <1>2, SeqInduction
<1> QED
  BY <1>3 DEF P

LEMMA FullKeep ==
  ASSUME NEW s \in Seq(Item), Full(s), NEW S, Numbered \subseteq S
  PROVE  Full(Keep(s, S))
<1> DEFINE t == Keep(s, S)
<1>1. t \in Seq(Item) /\ ToSet(t) = ToSet(s) \cap S
  BY KeepIs
<1>2. Coupled(t)
  BY CoupledKeep DEF Full
<1>3. ASSUME NEW i \in ToSet(t), i.k = "call" PROVE Output(i.n) \in ToSet(t)
  <2>1. i \in ToSet(s) /\ i \in Item
    <3>1. ToSet(s) \subseteq Item
      BY ElementOfSeq, LenProperties DEF ToSet
    <3>2. i \in ToSet(s)
      BY <1>1, <1>3
    <3> QED
      BY <3>1, <3>2
  <2>2. Output(i.n) \in ToSet(s)
    BY <1>3, <2>1 DEF Full
  <2>3. Output(i.n) \in Numbered
    BY <2>1, NumberedAre DEF Item
  <2> QED
    BY <1>1, <2>2, <2>3
<1> HIDE DEF t
<1> QED
  BY <1>2, <1>3 DEF Full, t
(* The outputs that are missing from one sequence are filled into another. *)
Piecewise(i, s) ==
    IF i.k = "call" /\ ~ HasItem(s, "output", i.n)
    THEN <<i, [k |-> "output", n |-> i.n]>> ELSE <<i>>
Fill(t, s) == FlattenSeq([m \in DOMAIN t |-> Piecewise(t[m], s)])

LEMMA FillMore ==
  ASSUME NEW s \in Seq(Item)
  PROVE  /\ Completed(s) = Fill(s, s)
         /\ Fill(<< >>, s) = << >>
         /\ \A t \in Seq(Item) :
               /\ Fill(t, s) \in Seq(Item)
               /\ \A i \in Item :
                     Fill(Append(t, i), s) =
                         IF i.k = "call" /\ Output(i.n) \notin ToSet(s)
                         THEN Append(Append(Fill(t, s), i), Output(i.n))
                         ELSE Append(Fill(t, s), i)
<1> DEFINE Pieces(u) == [m \in DOMAIN u |-> Piecewise(u[m], s)]
           piece(i) == Piecewise(i, s)
<1>1. ASSUME NEW i \in Item PROVE piece(i) \in Seq(Item)
  <2> DEFINE o == [k |-> "output", n |-> i.n]
  <2>1. o \in Item
    BY DEF Item, Kinds
  <2>2. piece(i) \in {<<i, o>>, <<i>>}
    BY DEF Piecewise
  <2> HIDE DEF o, piece
  <2>3. <<i, o>> \in Seq(Item) /\ <<i>> \in Seq(Item)
    BY <2>1
  <2> QED
    BY <2>2, <2>3
<1>2. ASSUME NEW u \in Seq(Item) PROVE Pieces(u) \in Seq(Seq(Item)) /\ Len(Pieces(u)) = Len(u)
  <2>1. DOMAIN u = 1 .. Len(u) /\ Len(u) \in Nat /\ \A m \in 1 .. Len(u) : u[m] \in Item
    BY LenProperties, ElementOfSeq
  <2>2. \A m \in 1 .. Len(u) : Pieces(u)[m] \in Seq(Item)
    BY <1>1, <2>1
  <2>3. Pieces(u) \in [1 .. Len(u) -> Seq(Item)]
    BY <2>1, <2>2
  <2> QED
    BY <2>1, <2>3
<1>3. ASSUME NEW t \in Seq(Item), NEW i \in Item PROVE Pieces(Append(t, i)) = Append(Pieces(t), piece(i))
  <2> DEFINE u == Append(t, i)
             v == Append(Pieces(t), piece(i))
  <2>1. /\ u \in Seq(Item) /\ Len(u) = Len(t) + 1 /\ Len(t) \in Nat
        /\ \A m \in 1 .. Len(t) : u[m] = t[m]
        /\ u[Len(t) + 1] = i
        /\ DOMAIN t = 1 .. Len(t) /\ DOMAIN u = 1 .. Len(u)
    BY AppendProperties, LenProperties
  <2>2. /\ v \in Seq(Seq(Item)) /\ Len(v) = Len(t) + 1
        /\ \A m \in 1 .. Len(t) : v[m] = Pieces(t)[m]
        /\ v[Len(t) + 1] = piece(i)
    <3>1. Pieces(t) \in Seq(Seq(Item)) /\ piece(i) \in Seq(Item) /\ Len(Pieces(t)) = Len(t)
      BY <1>1, <1>2
    <3> HIDE DEF Pieces, piece
    <3> QED
      BY <3>1, AppendProperties
  <2>3. Pieces(u) \in Seq(Seq(Item)) /\ Len(Pieces(u)) = Len(v)
    BY <1>2, <2>1, <2>2
  <2>4. \A m \in 1 .. Len(Pieces(u)) : Pieces(u)[m] = v[m]
    BY <2>1, <2>2, <2>3
  <2> HIDE DEF u, v, piece, Pieces
  <2> QED
    BY <2>2, <2>3, <2>4, SeqEqual DEF u, v
<1>4. ASSUME NEW t \in Seq(Item), NEW i \in Item
      PROVE  /\ Fill(t, s) \in Seq(Item)
             /\ Fill(Append(t, i), s) = Fill(t, s) \o piece(i)
  <2>1. Pieces(t) \in Seq(Seq(Item)) /\ piece(i) \in Seq(Item)
    BY <1>1, <1>2
  <2>2. Fill(t, s) = FlattenSeq(Pieces(t)) /\ Fill(Append(t, i), s) = FlattenSeq(Pieces(Append(t, i)))
    BY DEF Fill
  <2> HIDE DEF Pieces, piece
  <2>3. FlattenSeq(Pieces(t)) \in Seq(Item)
        /\ FlattenSeq(Append(Pieces(t), piece(i))) = FlattenSeq(Pieces(t)) \o piece(i)
    <3> DEFINE f == Pieces(t)
               p == piece(i)
    <3> HIDE DEF f, p
    <3>1. f \in Seq(Seq(Item)) /\ p \in Seq(Item)
      BY <2>1 DEF f, p
    <3>2. FlattenSeq(f) \in Seq(Item) /\ FlattenSeq(Append(f, p)) = FlattenSeq(f) \o p
      BY <3>1, FlattenMore
    <3> QED
      BY <3>2 DEF f, p
  <2> QED
    BY <1>3, <2>2, <2>3
<1>5. Completed(s) = Fill(s, s)
  BY DEF Completed, Fill, Piecewise
<1>6. Fill(<< >>, s) = << >>
  <2>1. << >> \in Seq(Item) /\ Len(<< >>) = 0
    BY EmptySeq
  <2>2. Pieces(<< >>) = << >>
    BY <1>2, <2>1, EmptySeq
  <2> QED
    BY <2>2 DEF Fill, FlattenSeq
<1>7. ASSUME NEW i \in Item
      PROVE  piece(i) = IF i.k = "call" /\ Output(i.n) \notin ToSet(s) THEN <<i, Output(i.n)>> ELSE <<i>>
  <2>1. HasItem(s, "output", i.n) <=> Output(i.n) \in ToSet(s)
    BY LenProperties DEF HasItem, Output, ToSet
  <2> QED
    BY <2>1 DEF Piecewise, Output
<1>8. ASSUME NEW f \in Seq(Item), NEW i \in Item, NEW o \in Item
      PROVE  f \o <<i>> = Append(f, i) /\ f \o <<i, o>> = Append(Append(f, i), o)
  OBVIOUS
<1>9. ASSUME NEW t \in Seq(Item), NEW i \in Item
      PROVE  Fill(Append(t, i), s) =
                 IF i.k = "call" /\ Output(i.n) \notin ToSet(s)
                 THEN Append(Append(Fill(t, s), i), Output(i.n)) ELSE Append(Fill(t, s), i)
  <2>1. Fill(t, s) \in Seq(Item) /\ Fill(Append(t, i), s) = Fill(t, s) \o piece(i)
    BY <1>4
  <2>2. Output(i.n) \in Item
    BY NumberedAre DEF Item
  <2> DEFINE f == Fill(t, s)
             o == Output(i.n)
  <2>3. f \o <<i>> = Append(f, i) /\ f \o <<i, o>> = Append(Append(f, i), o)
    <3> HIDE DEF f, o
    <3>1. f \in Seq(Item) /\ o \in Item
      BY <2>1, <2>2 DEF f, o
    <3> QED
      BY <1>8, <3>1
  <2> HIDE DEF f, piece
  <2> QED
    BY <1>7, <2>1, <2>3 DEF f
<1>10. \A t \in Seq(Item) : Fill(t, s) \in Seq(Item)
  <2>1. Context \in Item
    BY ItemsAre
  <2> QED
    BY <1>4, <2>1
<1> QED
  BY <1>5, <1>6, <1>9, <1>10

(* Filled, what is coupled has the outputs that were missing and no more. *)
LEMMA FilledIs ==
  ASSUME NEW s \in Seq(Item)
  PROVE  \A t \in Seq(Item) :
            Coupled(t) /\ (\A i \in ToSet(t) : i.k = "output" => i \in ToSet(s)) =>
                /\ Coupled(Fill(t, s))
                /\ \A i \in Item : i \in ToSet(Fill(t, s)) <=>
                      \/ i \in ToSet(t)
                      \/ i.k = "output" /\ i \notin ToSet(s) /\ Call(i.n) \in ToSet(t)
<1> DEFINE Fits(t) == Coupled(t) /\ \A i \in ToSet(t) : i.k = "output" => i \in ToSet(s)
           In(t, i) == i \in ToSet(t) \/ (i.k = "output" /\ i \notin ToSet(s) /\ Call(i.n) \in ToSet(t))
           P == {t \in Seq(Item) : Fits(t) =>
                     /\ Coupled(Fill(t, s))
                     /\ \A i \in Item : i \in ToSet(Fill(t, s)) <=> In(t, i)}
<1>1. << >> \in P
  <2>1. << >> \in Seq(Item) /\ Context \in Item
    BY ItemsAre
  <2>2. Fill(<< >>, s) = << >> /\ ToSet(<< >>) = {}
    BY <2>1, FillMore, ToSetMore
  <2>3. Coupled(<< >>)
    BY <2>1, CoupledMore
  <2> QED
    BY <2>1, <2>2, <2>3
<1>2. ASSUME NEW t \in Seq(Item), NEW i \in Item, t \in P PROVE Append(t, i) \in P
  <2> DEFINE a == Append(t, i)
             f == Fill(t, s)
             o == Output(i.n)
             g == Append(f, i)
  <2>1. a \in Seq(Item) /\ ToSet(a) = ToSet(t) \cup {i}
    BY ToSetMore, AppendProperties
  <2>2. f \in Seq(Item)
    BY FillMore
  <2>3. o \in Item /\ o.k = "output" /\ o.n = i.n /\ (i.k = "call" => i = Call(o.n))
    BY NumberedAre DEF Item
  <2>4. Fill(a, s) = IF i.k = "call" /\ o \notin ToSet(s) THEN Append(g, o) ELSE g
    BY FillMore
  <2>5. ASSUME Fits(a) PROVE Coupled(Fill(a, s)) /\ \A x \in Item : x \in ToSet(Fill(a, s)) <=> In(a, x)
    <3>1. Coupled(t) /\ (i \in Numbered => i \notin ToSet(t)) /\ (i.k = "output" => Call(i.n) \in ToSet(t))
      BY <2>5, CoupledMore
    <3>2. \A x \in ToSet(t) : x.k = "output" => x \in ToSet(s)
      BY <2>1, <2>5
    <3>3. Coupled(f) /\ \A x \in Item : x \in ToSet(f) <=> In(t, x)
      BY <1>2, <3>1, <3>2
    <3>4. i.k = "output" => i \in ToSet(s)
      BY <2>1, <2>5
    <3> HIDE DEF f, o
    <3>5. i \in Numbered => i \notin ToSet(f)
      BY <3>1, <3>3, <3>4, NumberedAre
    <3>6. i.k = "output" => Call(i.n) \in ToSet(f)
      <4>1. i.k = "output" => Call(i.n) \in Item
        BY NumberedAre DEF Item
      <4> QED
        BY <3>1, <3>3, <4>1
    <3>7. Coupled(g) /\ ToSet(g) = ToSet(f) \cup {i} /\ g \in Seq(Item)
      BY <2>2, <3>3, <3>5, <3>6, CoupledMore, ToSetMore, AppendProperties
    <3> HIDE DEF g, a
    <3>8. CASE i.k = "call" /\ o \notin ToSet(s)
      <4>1. i = Call(o.n) /\ i \in Numbered /\ i \notin ToSet(t)
        BY <2>3, <3>1, <3>8, NumberedAre
      <4>2. o \notin ToSet(g)
        <5>1. o \notin ToSet(t)
          BY <2>3, <3>2, <3>8
        <5>2. ~ In(t, o)
          BY <4>1, <5>1
        <5> QED
          BY <2>3, <3>3, <3>7, <3>8, <5>2
      <4>3. Coupled(Append(g, o)) /\ ToSet(Append(g, o)) = ToSet(g) \cup {o}
        BY <2>3, <3>7, <4>1, <4>2, CoupledMore, ToSetMore
      <4>4. ASSUME NEW x \in Item PROVE x \in ToSet(Append(g, o)) <=> In(a, x)
        <5>1. x \in ToSet(Append(g, o)) <=> In(t, x) \/ x = i \/ x = o
          BY <3>3, <3>7, <4>3
        <5>2. x.k = "output" /\ Call(x.n) = i => x = o
          <6>1. ASSUME x.k = "output", Call(x.n) = i PROVE x = o
            <7>1. x = Output(x.n) /\ x.n \in Nat
              BY <6>1, NumberedAre DEF Item
            <7>2. i.n = x.n
              BY <6>1, <7>1, NumberedAre
            <7> QED
              BY <7>1, <7>2 DEF o
          <6> QED
            BY <6>1
        <5> QED
          BY <2>1, <2>3, <3>8, <4>1, <5>1, <5>2
      <4> QED
        BY <2>4, <3>8, <4>3, <4>4
    <3>9. CASE ~ (i.k = "call" /\ o \notin ToSet(s))
      <4>1. ASSUME NEW x \in Item PROVE x \in ToSet(g) <=> In(a, x)
        <5>1. x \in ToSet(g) <=> In(t, x) \/ x = i
          BY <3>3, <3>7
        <5>2. x.k = "output" /\ x \notin ToSet(s) => Call(x.n) # i
          <6>1. ASSUME x.k = "output", x \notin ToSet(s), Call(x.n) = i PROVE FALSE
            <7>1. x = Output(x.n) /\ x.n \in Nat
              BY <6>1, NumberedAre DEF Item
            <7>2. i.n = x.n /\ i.k = "call"
              BY <6>1, <7>1, NumberedAre
            <7>3. x = o
              BY <7>1, <7>2 DEF o
            <7> QED
              BY <3>9, <6>1, <7>2, <7>3
          <6> QED
            BY <6>1
        <5> QED
          BY <2>1, <5>1, <5>2
      <4> QED
        BY <2>4, <3>7, <3>9, <4>1
    <3> QED
      BY <3>8, <3>9
  <2> QED
    BY <2>1, <2>5
<1> HIDE DEF P
<1>3. \A t \in Seq(Item) : t \in P
  BY <1>1, <1>2, SeqInduction
<1> QED
  BY <1>3 DEF P
LEMMA PromptFull ==
  ASSUME NEW s \in Seq(Item), Coupled(s)
  PROVE  Paired(ForPrompt(s))
<1> DEFINE c == Completed(s)
           O == {i \in ToSet(c) : i.k = "output" => HasItem(c, "call", i.n)}
           G == OfKind(Kinds \ {"ghost"})
<1>1. c \in Seq(Item)
  BY FillMore
<1>2. /\ Coupled(c)
      /\ \A i \in Item : i \in ToSet(c) <=>
            i \in ToSet(s) \/ (i.k = "output" /\ i \notin ToSet(s) /\ Call(i.n) \in ToSet(s))
  BY FillMore, FilledIs
<1>3. ToSet(c) \subseteq Item
  BY <1>1, ElementOfSeq, LenProperties DEF ToSet
<1>4. Full(c)
  <2>1. ASSUME NEW i \in ToSet(c), i.k = "call" PROVE Output(i.n) \in ToSet(c)
    <3>1. i \in Item /\ i \in ToSet(s) /\ i = Call(i.n)
      BY <1>2, <1>3, <2>1, NumberedAre
    <3>2. Output(i.n) \in Item /\ Output(i.n).k = "output" /\ Call(Output(i.n).n) = i
      BY <3>1, NumberedAre DEF Item
    <3> HIDE DEF c
    <3> QED
      BY <1>2, <3>1, <3>2
  <2> QED
    BY <1>2, <2>1 DEF Full
<1>5. NoOrphans(c) = c
  <2>1. \A i \in ToSet(c) : i.k = "output" => HasItem(c, "call", i.n)
    <3>1. ASSUME NEW o \in 1 .. Len(c), c[o].k = "output" PROVE HasItem(c, "call", c[o].n)
      <4>1. PICK m \in 1 .. o - 1 : c[m] = Call(c[o].n)
        BY <1>2, <3>1 DEF Coupled
      <4>2. m \in DOMAIN c
        BY <1>1, LenProperties
      <4> QED
        BY <4>1, <4>2 DEF HasItem, Call
    <3> QED
      BY <1>1, <3>1, LenProperties DEF ToSet
  <2>2. ToSet(c) \subseteq O
    BY <2>1
  <2>3. NoOrphans(c) = Keep(c, O)
    BY DEF NoOrphans
  <2> HIDE DEF c, O
  <2> QED
    BY <1>1, <2>2, <2>3, KeepSame
<1> HIDE DEF c
<1>6. Without(c, {"ghost"}) = Keep(c, G) /\ Keep(c, G) \in Seq(Item)
  BY <1>1, OnlyIs, KeepIs
<1>7. Numbered \subseteq G
  BY DEF Numbered, OfKind, Kinds
<1> HIDE DEF G
<1>8. Full(Keep(c, G))
  BY <1>1, <1>4, <1>7, FullKeep
<1> DEFINE k == Keep(c, G)
<1>9. k \in Seq(Item) /\ Full(k) /\ ForPrompt(s) = k
  BY <1>5, <1>6, <1>8 DEF ForPrompt, c
<1> HIDE DEF k
<1> QED
  BY <1>9, FullPaired

(* Trimming takes an item away, and a call with its output. *)
LEMMA TrimmedIs ==
  ASSUME NEW s \in Seq(Item), s # << >>, Coupled(s)
  PROVE  Trimmed(s) \in Seq(Item) /\ Coupled(Trimmed(s))
<1> DEFINE h == Head(s)
           q == Tail(s)
<1>1. h \in Item /\ q \in Seq(Item) /\ s = <<h>> \o q /\ h = s[1] /\ Len(s) \in Nat \ {0}
      /\ << >> \in Seq(Item) /\ <<h>> \in Seq(Item)
  <2>1. Len(s) \in Nat /\ Len(s) # 0
    BY EmptySeq, LenProperties
  <2>2. h = s[1] /\ h \in Item /\ q \in Seq(Item)
    BY <2>1, HeadTailProperties, ElementOfSeq
  <2>3. s = <<h>> \o q
    BY HeadTailProperties
  <2> QED
    BY <2>1, <2>2, <2>3
<1> HIDE DEF h, q
<1>2. h.k # "output"
  <2>1. ASSUME h.k = "output" PROVE FALSE
    <3>1. 1 \in 1 .. Len(s) /\ s[1].k = "output"
      BY <1>1, <2>1
    <3>2. \E m \in 1 .. 1 - 1 : s[m] = Call(s[1].n)
      BY <3>1 DEF Coupled
    <3> QED
      BY <3>2
  <2> QED
    BY <2>1
<1>3. ASSUME NEW t \in Seq(Item), Coupled(<<h>> \o t),
             \A o \in 1 .. Len(t) : t[o].k = "output" => h # Call(t[o].n)
      PROVE  Coupled(t)
  <2>1. (<< >> \o <<h>>) \o t = <<h>> \o t /\ << >> \o t = t
    BY <1>1, <1>3
  <2>2. Coupled((<< >> \o <<h>>) \o t)
    BY <1>3, <2>1
  <2>3. Coupled(<< >> \o t)
    BY <1>1, <1>3, <2>2, CoupledWithout
  <2> QED
    BY <2>1, <2>3
<1>4. Coupled(<<h>> \o q)
  BY <1>1
<1>5. CASE h.k # "call"
  <2>1. Trimmed(s) = q
    BY <1>2, <1>5 DEF Trimmed, h, q
  <2>2. \A n : h # Call(n)
    BY <1>5 DEF Call
  <2> QED
    BY <1>1, <1>3, <1>4, <2>1, <2>2
<1>6. CASE h.k = "call"
  <2> DEFINE x == Output(h.n)
             j == SelectInSeq(q, LAMBDA v : v = x)
  <2>1. x \in Item /\ x # h /\ h = Call(h.n) /\ [h EXCEPT !.k = "output"] = x /\ h.n \in Nat
        /\ x \in Numbered /\ x.k = "output"
    BY <1>1, <1>6, NumberedAre DEF Item, Output
  <2>2. Trimmed(s) = RemoveFirst(q, x)
    BY <1>6, <2>1 DEF Trimmed, h, q
  <2>3. ASSUME NEW t \in Seq(Item), NEW o \in 1 .. Len(t), t[o].k = "output", h = Call(t[o].n)
        PROVE  x \in ToSet(t)
    <3>1. t[o] \in Item
      BY ElementOfSeq
    <3>2. t[o] = Output(t[o].n) /\ t[o].n = h.n
      BY <2>1, <2>3, <3>1, NumberedAre DEF Item
    <3> QED
      BY <3>2, LenProperties DEF ToSet
  <2>4. CASE x \notin ToSet(q)
    <3>1. \A i \in 1 .. Len(q) : q[i] # x
      BY <1>1, <2>4, LenProperties DEF ToSet
    <3>2. RemoveFirst(q, x) = q
      BY <3>1 DEF RemoveFirst
    <3>3. \A o \in 1 .. Len(q) : q[o].k = "output" => h # Call(q[o].n)
      BY <1>1, <2>3, <2>4
    <3> QED
      BY <1>1, <1>3, <1>4, <2>2, <3>2, <3>3
  <2>5. CASE x \in ToSet(q)
    <3>1. \E i \in 1 .. Len(q) : q[i] = x
      BY <1>1, <2>5, LenProperties DEF ToSet
    <3>2. RemoveFirst(q, x) = RemoveAt(q, j)
      BY <3>1 DEF RemoveFirst
    <3>3. j \in 1 .. Len(q) /\ q[j] = x
      <4> DEFINE I == {i \in 1 .. Len(q) : q[i] = x}
      <4>1. j = IF I # {} THEN Min(I) ELSE 0
        BY DEF SelectInSeq
      <4>2. I # {} /\ I \subseteq Nat /\ \A i \in I : i \in 1 .. Len(q) /\ q[i] = x
        BY <1>1, <3>1, LenProperties, SMTT(30)
      <4> HIDE DEF I
      <4>3. PICK i \in I : \A n \in I : i <= n
        BY <4>2, LeastOf
      <4>4. Min(I) \in I
        <5>1. Min(I) = CHOOSE k \in I : \A n \in I : k <= n
          BY DEF Min
        <5> QED
          BY <4>3, <5>1
      <4> QED
        BY <4>1, <4>2, <4>4
    <3> HIDE DEF j
    <3> DEFINE u == SubSeq(q, 1, j - 1)
               v == SubSeq(q, j + 1, Len(q))
    <3>4. u \in Seq(Item) /\ v \in Seq(Item) /\ q = (u \o <<x>>) \o v
      BY <1>1, <3>3, TakeApart
    <3>5. RemoveAt(q, j) = u \o v
      BY DEF RemoveAt
    <3> HIDE DEF u, v, x
    <3>6. <<h>> \o ((u \o <<x>>) \o v) = ((<<h>> \o u) \o <<x>>) \o v
          /\ (<<h>> \o u) \o v = <<h>> \o (u \o v) /\ <<h>> \o u \in Seq(Item) /\ u \o v \in Seq(Item)
      <4> DEFINE a == <<h>>
                 b == <<x>>
      <4>1. a \in Seq(Item)
        BY <1>1
      <4>2. b \in Seq(Item)
        BY <2>1
      <4>3. u \in Seq(Item)
        BY <3>4
      <4>4. v \in Seq(Item)
        BY <3>4
      <4> HIDE DEF a, b
      <4>5. a \o u \in Seq(Item) /\ u \o b \in Seq(Item) /\ u \o v \in Seq(Item)
        BY ONLY <4>1, <4>2, <4>3, <4>4
      <4>6. (a \o u) \o v = a \o (u \o v)
        BY ONLY <4>1, <4>3, <4>4, Together, SMTT(30)
      <4>7. (a \o u) \o b = a \o (u \o b)
        BY ONLY <4>1, <4>2, <4>3, Together, SMTT(30)
      <4> DEFINE c == u \o b
      <4>8. c \in Seq(Item)
        BY <4>5
      <4> HIDE DEF c
      <4>9. (a \o c) \o v = a \o (c \o v)
        BY ONLY <4>1, <4>4, <4>8, Together, SMTT(30)
      <4>10. a \o c = (a \o u) \o b
        BY <4>7 DEF c
      <4> QED
        BY <4>5, <4>6, <4>9, <4>10 DEF a, b, c
    <3> DEFINE p == <<h>> \o u
               t == u \o v
    <3>7. Coupled((p \o <<x>>) \o v) /\ p \in Seq(Item) /\ t \in Seq(Item) /\ p \o v = <<h>> \o t
      BY <1>4, <3>4, <3>6
    <3>8. \A o \in 1 .. Len(v) : v[o].k = "output" => x # Call(v[o].n)
      BY <2>1 DEF Call
    <3> HIDE DEF p, t
    <3>9. Coupled(p \o v) /\ x \notin ToSet(p \o v)
      BY <2>1, <3>4, <3>7, <3>8, CoupledWithout
    <3>10. Coupled(<<h>> \o t) /\ x \notin ToSet(<<h>> \o t)
      BY <3>7, <3>9
    <3>11. x \notin ToSet(t)
      <4>1. ASSUME x \in ToSet(t) PROVE FALSE
        <5>1. PICK m \in 1 .. Len(t) : t[m] = x
          BY <3>7, <4>1, LenProperties DEF ToSet
        <5>2. (<<h>> \o t)[m + 1] = x /\ m + 1 \in 1 .. Len(<<h>> \o t)
          BY <1>1, <3>7, <5>1, LenProperties
        <5>3. DOMAIN (<<h>> \o t) = 1 .. Len(<<h>> \o t)
          BY <1>1, <3>7
        <5> QED
          BY <3>10, <5>2, <5>3 DEF ToSet
      <4> QED
        BY <4>1
    <3>12. Coupled(t)
      BY <1>3, <2>3, <3>7, <3>10, <3>11
    <3> QED
      BY <2>2, <3>2, <3>5, <3>7, <3>12 DEF t, x
  <2> QED
    BY <2>4, <2>5
<1> QED
  BY <1>5, <1>6

LEMMA CallsPaired ==
  ASSUME Types, Calls
  PROVE  PromptPaired
<1>1. items \in Seq(Item) /\ Coupled(items)
  BY DEF Types, Calls, Known
<1>2. items # << >> => Trimmed(items) \in Seq(Item) /\ Coupled(Trimmed(items))
  BY <1>1, TrimmedIs
<1> DEFINE t == Trimmed(items)
<1> HIDE DEF t
<1>3. Paired(ForPrompt(items)) /\ (items # << >> => Paired(ForPrompt(t)))
  BY <1>1, <1>2, PromptFull DEF t
<1> QED
  BY <1>3 DEF PromptPaired, t
--------------------------------------------------------------------------------
(* The invariant and the theorems. *)
IInv == Types /\ TakeTurns /\ Settled /\ Cloned /\ Forked /\ Replayed /\ Told /\ Calls

LEMMA InitIInv == Init => IInv
<1>1. Init => Cloned
  BY DEF Init, Cloned, Cloning, NoTurn
<1>2. Init => Settled
  BY DEF Init, Settled
<1> QED
  BY <1>1, <1>2, InitTypes, InitForked, InitReplayed, InitTold, InitCalls DEF IInv

LEMMA NextIInv == IInv /\ [Next]_vars => IInv'
<1> SUFFICES ASSUME IInv, [Next]_vars PROVE IInv'
  OBVIOUS
<1>1. Types /\ TakeTurns /\ Settled /\ Cloned /\ Forked /\ Replayed /\ Told /\ Calls
  BY DEF IInv
<1>2. Types'
  BY <1>1, NextTypes
<1>3. TakeTurns'
  BY <1>1, NextTakeTurns
<1>9. Settled'
  BY <1>1, NextSettled
<1>4. Cloned'
  BY <1>1, <1>3, NextCloned
<1>5. Forked'
  BY <1>1, NextForked
<1>6. Replayed'
  BY <1>1, <1>2, NextReplayed
<1>7. Told'
  BY <1>1, <1>2, NextTold
<1>8. Calls'
  BY <1>1, <1>2, NextCalls
<1> QED
  BY <1>2, <1>3, <1>4, <1>5, <1>6, <1>7, <1>8, <1>9 DEF IInv

LEMMA Invariant == Spec => []IInv
  BY InitIInv, NextIInv, PTL DEF Spec

(* The ranges of the variables, for any number of messages and events: what an *)
(* actor has still to hand over is never more than a message and its event,    *)
(* and input waits for no turn that is not there.                              *)
THEOREM TypeCorrect == Spec => []TypeOK
<1>1. IInv => TypeOK
  <2> SUFFICES ASSUME Types, TakeTurns PROVE TypeOK
    BY DEF IInv
  <2>1. ASSUME NEW a \in Actors PROVE Len(unsaved[a]) <= 2
    <3> DEFINE u == unsaved[a]
    <3>1. u \in Queues(a)
      BY DEF Types
    <3> HIDE DEF u
    <3>2. u = << >> => Len(u) <= 2
      OBVIOUS
    <3>3. ASSUME u # << >> PROVE Len(u) <= 2
      <4>1. \/ Len(u) = 1 /\ Tail(u) = << >> /\ u[1] = Head(u)
            \/ Len(u) = 2 /\ u[1] = Head(u) /\ Tail(u) = <<u[2]>>
        BY <3>1, <3>3, QueueIs
      <4> QED
        BY <4>1
    <3> QED
      BY <3>2, <3>3 DEF u
  <2>2. /\ items \in Seq(Item) /\ copy \in Seq(Item) /\ DOMAIN unsaved = Actors
        /\ rollout \in [items : Seq(Item), turns : Seq(Nat), forks : Seq(Seq(Item))]
        /\ (turn = NoTurn => pending = << >>)
    BY DEF Types, TakeTurns
  <2>3. turn.kind \in {"none", "regular", "compact", "undo", "review"}
    BY DEF Types, Turns
  <2>4. /\ loop.pc \in {"idle", "spawning", "rolling", "leaving", "marking", "noting"}
        /\ aside \in {"none", "running", "refused"}
    BY DEF Types, Loops
  <2> QED
    BY <2>1, <2>2, <2>3, <2>4 DEF TypeOK
<1> QED
  BY <1>1, Invariant, PTL

(* What a session remembers is what a resume of its rollout would remember, *)
(* unless memory and rollout were torn apart.                              *)
THEOREM ResumeIsMemory == Spec => []ReplayMatches
<1>1. IInv => ReplayMatches
  BY ReplayedMatches DEF IInv
<1> QED
  BY <1>1, Invariant, PTL

(* The clients' turns are the messages that the model remembers, through    *)
(* rollbacks and restarts, unless one of the two was told of a message that *)
(* the other was not told of, or memory and rollout were torn apart.        *)
THEOREM ClientsAgree == Spec => []TurnsAgree
<1>1. IInv => TurnsAgree
  BY ToldAgree DEF IInv
<1> QED
  BY <1>1, Invariant, PTL

(* A fork before a message starts from what preceded it. *)
THEOREM ForksArePrefixes == Spec => []ForkIsPrefix
<1>1. IInv => ForkIsPrefix
  BY ForkedPrefix DEF IInv
<1> QED
  BY <1>1, Invariant, PTL

(* Whatever was aborted, rolled back, undone, compacted or trimmed, each call *)
(* the model is shown is followed by its one output, and no output lacks its  *)
(* call.                                                                      *)
THEOREM PromptsPaired == Spec => []PromptPaired
<1>1. IInv => PromptPaired
  BY CallsPaired DEF IInv
<1> QED
  BY <1>1, Invariant, PTL

(* A rollback, an undo or a compaction that replaces the items by its clone *)
(* overwrites nothing but what is recorded beside the turns: late snapshots *)
(* and late input, the output of a command, the note about an approval.     *)
THEOREM ReplacesOnlyLate == Spec => OnlyLateLost
<1>1. IInv /\ [Next]_vars =>
        [Replacing =>
          \A i \in ToSet(Overwritten) : i.k \in {"ghost", "aside"} \/ (i.k = "user" /\ i.n \in late)]_vars
  <2> SUFFICES ASSUME Types, TakeTurns, Cloned, Replacing, NEW i \in ToSet(Overwritten)
               PROVE  i.k \in {"ghost", "aside"} \/ (i.k = "user" /\ i.n \in late)
    BY DEF IInv
  <2>1. Cloning
    BY DEF Replacing, Cloning, RollbackReplace, CompactReplace, UndoReplace, RemoteReplace
  <2>2. /\ items \in Seq(Item) /\ Len(copy) \in Nat /\ Len(items) \in Nat /\ Len(copy) <= Len(items)
    BY <2>1, LenProperties DEF Types, Cloned
  <2>3. /\ Len(Overwritten) = Len(items) - Len(copy)
        /\ \A m \in 1 .. Len(Overwritten) : Overwritten[m] = items[Len(copy) + m]
    <3> DEFINE b == Len(copy) + 1
    <3>1. b \in 1 .. Len(items) + 1 /\ Overwritten = SubSeq(items, b, Len(items))
          /\ \A m \in b .. Len(items) : items[m] \in Item
      BY <2>2, ElementOfSeq DEF Overwritten
    <3> QED
      BY <2>2 DEF Overwritten
  <2>4. PICK m \in 1 .. Len(Overwritten) : i = Overwritten[m]
    <3>1. Overwritten \in Seq(Item)
      BY <2>2, Piece DEF Overwritten
    <3> QED
      BY <3>1, LenProperties DEF ToSet
  <2>5. Len(copy) + m \in Len(copy) + 1 .. Len(items) /\ i = items[Len(copy) + m]
    BY <2>2, <2>3, <2>4
  <2> QED
    BY <2>1, <2>5 DEF Cloned
<1> QED
  BY <1>1, Invariant, PTL DEF OnlyLateLost, Spec
================================================================================
