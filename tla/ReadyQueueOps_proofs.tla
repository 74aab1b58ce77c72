------------------------ MODULE ReadyQueueOps_proofs ------------------------
(***************************************************************************)
(* Facts about ReadyQueueOps that the proofs of its users share: levels,   *)
(* the most urgent level of a bitmap, and sequences as FIFOs.              *)
(***************************************************************************)
EXTENDS ReadyQueueOps, WellFoundedInduction, TLAPS

\* What a queue holds.
Elements(s) == {s[i] : i \in 1 .. Len(s)}

\* Nothing is in the queue twice.
NoDuplicates(s) == \A i, j \in 1 .. Len(s) : s[i] = s[j] => i = j

\* Every level is an integer, and NoPriority is past the last one.
LEMMA LevelFacts ==
    /\ \A p \in Level : p \in Int /\ p < NoPriority
    /\ \A p \in Level : p + 1 \in Level \cup {NoPriority}
    /\ NoPriority \in Int
    /\ HIGHEST_PRIORITY \in Level
    /\ \A p \in Level : HIGHEST_PRIORITY <= p
BY LevelAssumption, SMT DEF Level, NoPriority

\* Every set of levels has a most urgent one: the integers from
\* HIGHEST_PRIORITY upwards are well-founded.
LEMMA LeastElement ==
    ASSUME NEW S \in SUBSET (Level \cup {NoPriority}), S # {}
    PROVE  \E p \in S : \A q \in S : p <= q
<1> DEFINE Rel == OpToRel(<, Nat)
           T == {p - HIGHEST_PRIORITY : p \in S}
<1>1. \A p \in S : p \in Int /\ p - HIGHEST_PRIORITY \in Nat
  BY LevelAssumption, SMT DEF Level, NoPriority
<1>2. T \subseteq Nat /\ T # {}
  BY <1>1
<1>3. PICK x \in T : \A y \in T : <<y, x>> \notin Rel
  <2> HIDE DEF T, Rel
  <2>1. IsWellFoundedOn(Rel, Nat)
    BY NatLessThanWellFounded, Zenon DEF Rel
  <2> QED
    BY <1>2, <2>1, WFMin
<1>4. \A y \in T : ~(y < x)
  <2>1. \A a, b \in Nat : a < b => <<a, b>> \in Rel
    BY Zenon DEF OpToRel
  <2> HIDE DEF Rel
  <2> QED
    BY <1>2, <1>3, <2>1
<1>5. PICK p \in S : x = p - HIGHEST_PRIORITY
  OBVIOUS
<1>6. ASSUME NEW q \in S PROVE p <= q
  <2>1. ~(q - HIGHEST_PRIORITY < p - HIGHEST_PRIORITY)
    BY <1>4, <1>5
  <2> QED
    BY <1>1, <2>1, LevelAssumption, SMT
<1> QED
  BY <1>6

\* highest_one finds the most urgent level of a bitmap, and nothing but the
\* constant bit in an empty one (ready_queue.rs:15-26).
LEMMA HighestLemma ==
    ASSUME NEW bits \in SUBSET Level
    PROVE  /\ Highest(bits) \in bits \cup {NoPriority}
           /\ \A q \in bits : Highest(bits) <= q
           /\ bits = {} <=> Highest(bits) = NoPriority
<1>1. PICK p \in bits \cup {NoPriority} : \A q \in bits \cup {NoPriority} : p <= q
  BY LeastElement
<1>2. /\ Highest(bits) \in bits \cup {NoPriority}
      /\ \A q \in bits : Highest(bits) <= q
  BY <1>1, Zenon DEF Highest
<1>3. \A q \in bits : Highest(bits) # NoPriority
  BY <1>2, LevelFacts
<1>4. NoPriority \notin bits
  BY LevelFacts
<1> QED
  BY <1>2, <1>3, <1>4

\* push_back adds one element, at the end (ready_queue.rs:60-62,
\* trap_wait_queue.rs:101).
LEMMA AppendFacts ==
    ASSUME NEW S, NEW s \in Seq(S), NEW x \in S
    PROVE  /\ Append(s, x) \in Seq(S) /\ Len(Append(s, x)) = Len(s) + 1 /\ Append(s, x) # <<>>
           /\ Elements(Append(s, x)) = Elements(s) \cup {x}
           /\ NoDuplicates(s) /\ x \notin Elements(s) => NoDuplicates(Append(s, x))
<1>1. /\ Append(s, x) \in Seq(S) /\ Len(Append(s, x)) = Len(s) + 1 /\ Append(s, x) # <<>>
      /\ \A i \in 1 .. Len(s) : Append(s, x)[i] = s[i]
      /\ Append(s, x)[Len(s) + 1] = x
      /\ Len(s) \in Nat
  BY SMT
<1>2. Elements(Append(s, x)) = Elements(s) \cup {x}
  <2>1. Elements(s) \cup {x} \subseteq Elements(Append(s, x))
    BY <1>1, SMT DEF Elements
  <2>2. ASSUME NEW i \in 1 .. Len(Append(s, x)) PROVE Append(s, x)[i] \in Elements(s) \cup {x}
    <3>1. i \in 1 .. Len(s) \/ i = Len(s) + 1
      BY <1>1, <2>2, SMT
    <3> QED
      BY <1>1, <3>1 DEF Elements
  <2> QED
    BY <2>1, <2>2, Zenon DEF Elements
<1>3. ASSUME NoDuplicates(s), x \notin Elements(s) PROVE NoDuplicates(Append(s, x))
  BY <1>1, <1>3, SMT DEF NoDuplicates, Elements
<1> QED
  BY <1>1, <1>2, <1>3

\* pop_front removes one element, the first (ready_queue.rs:82,
\* trap_wait_queue.rs:173).
LEMMA TailFacts ==
    ASSUME NEW S, NEW s \in Seq(S), s # <<>>
    PROVE  /\ Head(s) \in S /\ Tail(s) \in Seq(S) /\ Len(Tail(s)) = Len(s) - 1
           /\ Elements(s) = {Head(s)} \cup Elements(Tail(s))
           /\ NoDuplicates(s) => NoDuplicates(Tail(s)) /\ Head(s) \notin Elements(Tail(s))
           /\ Len(s) <= 1 => Tail(s) = <<>>
<1>1. /\ Head(s) \in S /\ Tail(s) \in Seq(S) /\ Len(Tail(s)) = Len(s) - 1
      /\ Len(s) \in Nat \ {0} /\ Head(s) = s[1]
      /\ \A i \in 1 .. Len(Tail(s)) : Tail(s)[i] = s[i + 1]
  BY SMT
<1>2. Elements(s) = {Head(s)} \cup Elements(Tail(s))
  <2>1. Head(s) \in Elements(s)
    BY <1>1, SMT DEF Elements
  <2>2. ASSUME NEW i \in 1 .. Len(Tail(s)) PROVE Tail(s)[i] \in Elements(s)
    <3>1. i + 1 \in 1 .. Len(s)
      BY <1>1, <2>2, SMT
    <3> QED
      BY <1>1, <3>1, Zenon DEF Elements
  <2>3. ASSUME NEW i \in 1 .. Len(s) PROVE s[i] \in {Head(s)} \cup Elements(Tail(s))
    <3>1. CASE i = 1
      BY <1>1, <3>1
    <3>2. CASE i # 1
      <4>1. i - 1 \in 1 .. Len(Tail(s)) /\ (i - 1) + 1 = i
        BY <1>1, <3>2, SMT
      <4> QED
        BY <1>1, <4>1, Zenon DEF Elements
    <3> QED
      BY <3>1, <3>2
  <2> QED
    BY <2>1, <2>2, <2>3, Zenon DEF Elements
<1>3. ASSUME NoDuplicates(s) PROVE NoDuplicates(Tail(s)) /\ Head(s) \notin Elements(Tail(s))
  BY <1>1, <1>3, SMT DEF NoDuplicates, Elements
<1>4. Len(s) <= 1 => Tail(s) = <<>>
  BY <1>1, SMT
<1> QED
  BY <1>1, <1>2, <1>3, <1>4

=============================================================================
