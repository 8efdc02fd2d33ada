--------------------------- MODULE Protobuf_proofs ---------------------------
(***************************************************************************)
(* Proofs about Protobuf, for every number of bits of a varint and of a    *)
(* word: what Varint and ReadVarint do, that a varint is read as it was    *)
(* written, and that a field and the walk over any bytes stay inside them. *)
(* No operator can be passed to a theorem here, so induction and recursion *)
(* are stated over sets and over functions given as values.                *)
(***************************************************************************)
EXTENDS Protobuf, SequenceTheorems, FiniteSetTheorems, WellFoundedInduction, TLAPS

-----------------------------------------------------------------------------
(* Induction, on sets of numbers *)

\* What holds of a number when it holds of all below it holds of all numbers.
LEMMA StrongInduction ==
    ASSUME NEW S, \A n \in Nat : (\A m \in Nat : m < n => m \in S) => n \in S
    PROVE  \A n \in Nat : n \in S
<1> SUFFICES ASSUME Nat \ S # {} PROVE FALSE
    OBVIOUS
<1>1. \E x \in Nat \ S : \A y \in Nat \ S : ~ (<<y, x>> \in OpToRel(<, Nat))
    BY NatLessThanWellFounded, WFMin, Zenon
<1>2. PICK x \in Nat \ S : \A y \in Nat \ S : ~ (<<y, x>> \in OpToRel(<, Nat))
    BY <1>1
<1>3. ASSUME NEW m \in Nat, m < x PROVE m \in S
    BY <1>2, <1>3 DEF OpToRel
<1>4. QED
    BY <1>2, <1>3

LEMMA LeastOfNats ==
    ASSUME NEW T, T \subseteq Nat, T # {}
    PROVE  \E x \in T : \A y \in T : x <= y
<1> SUFFICES ASSUME \A x \in T : \E y \in T : y < x PROVE FALSE
    BY SMT
<1> DEFINE S == Nat \ T
<1>1. ASSUME NEW n \in Nat, \A m \in Nat : m < n => m \in S PROVE n \in S
    BY <1>1
<1> HIDE DEF S
<1>2. \A n \in Nat : n \in S
    BY <1>1, StrongInduction
<1>3. QED
    BY <1>2 DEF S

\* The same, from one number to the next.
LEMMA StepInduction ==
    ASSUME NEW S, 0 \in S, \A n \in Nat : n \in S => n + 1 \in S
    PROVE  \A n \in Nat : n \in S
<1>1. ASSUME NEW n \in Nat, \A m \in Nat : m < n => m \in S PROVE n \in S
    <2>1. CASE n = 0
        BY <2>1
    <2>2. CASE n # 0
        <3>1. n - 1 \in Nat /\ n - 1 < n /\ (n - 1) + 1 = n
            BY <2>2, SMT
        <3>2. QED
            BY <1>1, <3>1
    <2>3. QED
        BY <2>1, <2>2
<1>2. QED
    BY <1>1, StrongInduction

-----------------------------------------------------------------------------
(* Recursion.  A function that is its own unfolding, where known of the    *)
(* numbers in Base as start says, elsewhere made of the function at a      *)
(* smaller number, before: all the recursive functions here are of this    *)
(* form.                                                                   *)

Unfolded(f, dom, Base, start, before, step) ==
    [n \in dom |-> IF n \in Base THEN start[n] ELSE step[<<n, f[before[n]]>>]]

LEMMA UnfoldedAgree ==
    ASSUME NEW Base, NEW start, NEW before, NEW step,
           \A n \in Nat \ Base : before[n] \in Nat /\ before[n] < n,
           NEW j \in Nat, NEW k \in Nat, NEW g, NEW h,
           g = Unfolded(g, 0 .. j, Base, start, before, step),
           h = Unfolded(h, 0 .. k, Base, start, before, step)
    PROVE  \A n \in Nat : n <= j /\ n <= k => g[n] = h[n]
<1> DEFINE S == {n \in Nat : n <= j /\ n <= k => g[n] = h[n]}
<1>1. ASSUME NEW n \in Nat, \A m \in Nat : m < n => m \in S PROVE n \in S
    <2> SUFFICES ASSUME n <= j, n <= k PROVE g[n] = h[n]
        OBVIOUS
    <2>1. n \in 0 .. j /\ n \in 0 .. k
        BY SMT
    <2>2. /\ g[n] = IF n \in Base THEN start[n] ELSE step[<<n, g[before[n]]>>]
          /\ h[n] = IF n \in Base THEN start[n] ELSE step[<<n, h[before[n]]>>]
        BY <2>1, Zenon DEF Unfolded
    <2>3. ASSUME n \notin Base PROVE g[before[n]] = h[before[n]]
        <3>1. before[n] \in Nat /\ before[n] < n
            BY <2>3
        <3>2. before[n] \in S /\ before[n] <= j /\ before[n] <= k
            BY <1>1, <3>1, SMT
        <3>3. QED
            BY <3>2
    <2>4. QED
        BY <2>2, <2>3
<1> HIDE DEF S
<1>2. \A n \in Nat : n \in S
    BY <1>1, StrongInduction
<1>3. QED
    BY <1>2 DEF S

LEMMA Recursion ==
    ASSUME NEW Base, NEW start, NEW before, NEW step,
           \A n \in Nat \ Base : before[n] \in Nat /\ before[n] < n
    PROVE  \E f : f = Unfolded(f, Nat, Base, start, before, step)
<1> DEFINE Part(g, n) == g = Unfolded(g, 0 .. n, Base, start, before, step)
<1> DEFINE S == {n \in Nat : \E g : Part(g, n)}
<1>1. 0 \in S
    <2> DEFINE x == IF 0 \in Base THEN start[0] ELSE step[<<0, 0>>]
    <2> DEFINE g == [n \in 0 .. 0 |-> x]
    <2>1. 0 \in Base
        <3>1. ASSUME 0 \notin Base PROVE FALSE
            <4>1. before[0] \in Nat /\ before[0] < 0
                BY <3>1
            <4>2. QED
                BY <4>1, SMT
        <3>2. QED
            BY <3>1
    <2>2. \A n \in 0 .. 0 : n = 0
        BY SMT
    <2>3. Part(g, 0)
        BY <2>1, <2>2 DEF Unfolded
    <2>4. QED
        BY <2>3
<1>2. ASSUME NEW n \in Nat, n \in S PROVE n + 1 \in S
    <2>1. PICK g : Part(g, n)
        BY <1>2
    <2> DEFINE x == IF n + 1 \in Base THEN start[n + 1] ELSE step[<<n + 1, g[before[n + 1]]>>]
               h == [i \in 0 .. n + 1 |-> IF i = n + 1 THEN x ELSE g[i]]
    <2> HIDE DEF x
    <2>2. ASSUME NEW i \in 0 .. n + 1
          PROVE  h[i] = IF i \in Base THEN start[i] ELSE step[<<i, h[before[i]]>>]
        <3>1. ASSUME i \notin Base PROVE h[before[i]] = g[before[i]]
            <4>1. i \in Nat
                BY SMT
            <4>2. before[i] \in Nat /\ before[i] < i
                BY <3>1, <4>1
            <4>3. before[i] \in 0 .. n + 1 /\ before[i] # n + 1
                BY <4>2, SMT
            <4>4. QED
                BY <4>3
        <3>2. CASE i = n + 1
            <4>1. n + 1 \in 0 .. n + 1
                BY SMT
            <4>2. h[i] = x
                BY <3>2, <4>1
            <4>3. QED
                BY <3>1, <3>2, <4>2 DEF x
        <3>3. CASE i # n + 1
            <4>1. i \in 0 .. n
                BY <3>3, SMT
            <4>2. g[i] = IF i \in Base THEN start[i] ELSE step[<<i, g[before[i]]>>]
                BY <2>1, <4>1, Zenon DEF Unfolded
            <4>3. h[i] = g[i]
                BY <3>3
            <4>4. QED
                BY <3>1, <4>2, <4>3
        <3>4. QED
            BY <3>2, <3>3
    <2>3. h = [i \in 0 .. n + 1 |-> h[i]]
        OBVIOUS
    <2> HIDE DEF h
    <2>4. Part(h, n + 1)
        BY <2>2, <2>3 DEF Unfolded
    <2>5. n + 1 \in Nat
        BY SMT
    <2>6. QED
        BY <2>4, <2>5
<1> HIDE DEF S
<1>3. \A n \in Nat : n \in S
    BY <1>1, <1>2, StepInduction
<1> DEFINE part == [n \in Nat |-> CHOOSE g : Part(g, n)]
           f    == [n \in Nat |-> part[n][n]]
<1>4. ASSUME NEW n \in Nat PROVE Part(part[n], n)
    <2>1. \E g : Part(g, n)
        BY <1>3 DEF S
    <2>2. Part((CHOOSE g : Part(g, n)), n)
        BY <2>1
    <2>3. QED
        BY <2>2
<1> HIDE DEF part
<1>5. ASSUME NEW n \in Nat
      PROVE  f[n] = IF n \in Base THEN start[n] ELSE step[<<n, f[before[n]]>>]
    <2>1. n \in 0 .. n
        BY SMT
    <2>2. part[n][n] = IF n \in Base THEN start[n] ELSE step[<<n, part[n][before[n]]>>]
        BY <1>4, <2>1, Zenon DEF Unfolded
    <2>3. ASSUME n \notin Base PROVE part[n][before[n]] = f[before[n]]
        <3>1. before[n] \in Nat /\ before[n] < n
            BY <2>3
        <3>2. before[n] <= n /\ before[n] <= before[n]
            BY <3>1, SMT
        <3> DEFINE b == before[n]
                   g == part[n]
                   h == part[b]
        <3>3. b \in Nat /\ Part(g, n) /\ Part(h, b)
            BY <1>4, <3>1
        <3> HIDE DEF b, g, h
        <3>4. \A i \in Nat : i <= n /\ i <= b => g[i] = h[i]
            BY <3>3, UnfoldedAgree
        <3>5. part[n][before[n]] = part[before[n]][before[n]]
            BY <3>1, <3>2, <3>4 DEF b, g, h
        <3>6. QED
            BY <3>1, <3>5
    <2>4. QED
        BY <2>2, <2>3
<1>6. f = [n \in Nat |-> f[n]]
    OBVIOUS
<1> HIDE DEF f
<1>7. f = Unfolded(f, Nat, Base, start, before, step)
    BY <1>5, <1>6 DEF Unfolded
<1>8. QED
    BY <1>7

-----------------------------------------------------------------------------
(* Recursive functions of a known type *)

LEMMA TypedRecursion ==
    ASSUME NEW Base, NEW start, NEW before, NEW step, NEW T,
           \A n \in Nat \ Base : before[n] \in Nat /\ before[n] < n,
           \A n \in Nat : n \in Base => start[n] \in T,
           \A n \in Nat, x \in T : n \notin Base => step[<<n, x>>] \in T
    PROVE  \E f \in [Nat -> T] : f = Unfolded(f, Nat, Base, start, before, step)
<1>1. PICK f : f = Unfolded(f, Nat, Base, start, before, step)
    BY Recursion
<1>2. ASSUME NEW n \in Nat
      PROVE  f[n] = IF n \in Base THEN start[n] ELSE step[<<n, f[before[n]]>>]
    BY <1>1, Zenon DEF Unfolded
<1> DEFINE S == {n \in Nat : f[n] \in T}
<1>3. ASSUME NEW n \in Nat, \A m \in Nat : m < n => m \in S PROVE n \in S
    <2>1. CASE n \in Base
        BY <1>2, <2>1
    <2>2. CASE n \notin Base
        <3>1. before[n] \in S
            BY <1>3, <2>2
        <3>2. QED
            BY <1>2, <2>2, <3>1
    <2>3. QED
        BY <2>1, <2>2
<1> HIDE DEF S
<1>4. \A n \in Nat : n \in S
    BY <1>3, StrongInduction
<1>5. f \in [Nat -> T]
    <2>1. f = [n \in Nat |-> f[n]]
        BY <1>1, Zenon DEF Unfolded
    <2>2. \A n \in Nat : f[n] \in T
        BY <1>4 DEF S
    <2>3. QED
        BY <2>1, <2>2
<1>6. QED
    BY <1>1, <1>5

-----------------------------------------------------------------------------
(* Powers of two *)

LEMMA TwoToDef ==
    /\ TwoTo \in [Nat -> Nat]
    /\ TwoTo[0] = 1
    /\ \A n \in Nat : TwoTo[n + 1] = 2 * TwoTo[n]
<1> DEFINE Step(f) == [n \in Nat |-> IF n = 0 THEN 1 ELSE 2 * f[n - 1]]
           start   == [n \in Nat |-> 1]
           before  == [n \in Nat |-> n - 1]
           step    == [x \in Nat \X Nat |-> 2 * x[2]]
<1>1. \E f \in [Nat -> Nat] : f = Unfolded(f, Nat, {0}, start, before, step)
    <2>1. \A n \in Nat \ {0} : before[n] \in Nat /\ before[n] < n
        BY SMT
    <2>2. \A n \in Nat : n \in {0} => start[n] \in Nat
        OBVIOUS
    <2>3. \A n \in Nat, x \in Nat : n \notin {0} => step[<<n, x>>] \in Nat
        BY SMT
    <2> HIDE DEF start, before, step
    <2>4. QED
        BY <2>1, <2>2, <2>3, TypedRecursion
<1>2. PICK f \in [Nat -> Nat] : f = Unfolded(f, Nat, {0}, start, before, step)
    BY <1>1
<1>3. f = Step(f)
    <2>1. ASSUME NEW n \in Nat, n # 0 PROVE step[<<n, f[before[n]]>>] = 2 * f[n - 1]
        <3>1. n - 1 \in Nat
            BY <2>1, SMT
        <3>2. f[n - 1] \in Nat
            BY <3>1
        <3>3. QED
            BY <3>2
    <2> HIDE DEF step, before
    <2>2. QED
        BY <1>2, <2>1 DEF Unfolded
<1>4. TwoTo = CHOOSE g : g = Step(g)
    BY DEF TwoTo
<1>5. TwoTo = Step(TwoTo)
    <2> HIDE DEF Step
    <2>1. QED
        BY <1>3, <1>4
<1>6. TwoTo[0] = 1 /\ \A n \in Nat : TwoTo[n + 1] = 2 * TwoTo[n]
    <2>1. TwoTo[0] = 1
        BY <1>5
    <2>2. ASSUME NEW n \in Nat PROVE TwoTo[n + 1] = 2 * TwoTo[n]
        <3>1. n + 1 \in Nat /\ n + 1 # 0 /\ (n + 1) - 1 = n
            BY SMT
        <3>2. TwoTo[n + 1] = 2 * TwoTo[(n + 1) - 1]
            BY <1>5, <3>1
        <3>3. QED
            BY <3>1, <3>2
    <2>3. QED
        BY <2>1, <2>2
<1> DEFINE S == {n \in Nat : TwoTo[n] \in Nat}
<1>7. 0 \in S /\ \A n \in Nat : n \in S => n + 1 \in S
    BY <1>6, SMT
<1>8. \A n \in Nat : n \in S
    <2> HIDE DEF S
    <2>1. QED
        BY <1>7, StepInduction
<1>9. QED
    BY <1>5, <1>6, <1>8

LEMMA TwoToPositive == \A n \in Nat : TwoTo[n] \in Nat /\ TwoTo[n] > 0
<1> DEFINE S == {n \in Nat : TwoTo[n] > 0}
<1>1. 0 \in S /\ \A n \in Nat : n \in S => n + 1 \in S
    BY TwoToDef, SMT
<1> HIDE DEF S
<1>2. \A n \in Nat : n \in S
    BY <1>1, StepInduction
<1>3. QED
    BY <1>2, TwoToDef DEF S

LEMMA TwoToGrows ==
    ASSUME NEW m \in Nat, NEW n \in Nat, m <= n
    PROVE  TwoTo[m] <= TwoTo[n]
<1> DEFINE S == {k \in Nat : TwoTo[m] <= TwoTo[m + k]}
<1>1. 0 \in S
    BY TwoToPositive, SMT
<1>2. ASSUME NEW k \in Nat, k \in S PROVE k + 1 \in S
    <2>1. m + k \in Nat /\ m + (k + 1) = (m + k) + 1
        BY SMT
    <2>2. TwoTo[m + (k + 1)] = 2 * TwoTo[m + k] /\ TwoTo[m + k] \in Nat /\ TwoTo[m] \in Nat
        BY <2>1, TwoToDef
    <2>3. QED
        BY <1>2, <2>2, SMT
<1> HIDE DEF S
<1>3. \A k \in Nat : k \in S
    BY <1>1, <1>2, StepInduction
<1>4. n - m \in Nat /\ m + (n - m) = n
    BY SMT
<1>5. QED
    BY <1>3, <1>4 DEF S

\* Seven bits are one byte of a varint.
LEMMA TwoToSeven == \A n \in Nat : TwoTo[n + 7] = 128 * TwoTo[n]
<1> SUFFICES ASSUME NEW n \in Nat PROVE TwoTo[n + 7] = 128 * TwoTo[n]
    OBVIOUS
<1>1. \A m \in Nat : TwoTo[m + 1] = 2 * TwoTo[m] /\ TwoTo[m] \in Nat
    BY TwoToDef
<1> HIDE DEF TwoTo
<1>2. TwoTo[n + 2] = 4 * TwoTo[n]
    BY <1>1, SMT
<1>3. TwoTo[n + 4] = 16 * TwoTo[n]
    BY <1>1, <1>2, SMT
<1>4. TwoTo[n + 6] = 64 * TwoTo[n]
    BY <1>1, <1>3, SMT
<1>5. QED
    BY <1>1, <1>4, SMT

-----------------------------------------------------------------------------
(* Varints as they are written *)

LEMMA VarintDef ==
    ASSUME NEW value \in Nat
    PROVE  /\ Varint[value] \in Seq(Byte)
           /\ value < 128 => Varint[value] = <<value>>
           /\ value >= 128 =>
                  /\ value \div 128 \in Nat /\ value \div 128 < value
                  /\ (value % 128) + 128 \in Byte
                  /\ Varint[value] = <<(value % 128) + 128>> \o Varint[value \div 128]
<1> DEFINE Step(f) == [v \in Nat |-> IF v < Group THEN <<v>> ELSE <<(v % Group) + Group>> \o f[v \div Group]]
           start   == [v \in Nat |-> <<v>>]
           before  == [v \in Nat |-> v \div 128]
           step    == [x \in Nat \X Seq(Byte) |-> <<(x[1] % 128) + 128>> \o x[2]]
           Base    == 0 .. 127
<1>1. \A v \in Nat : v >= 128 => v \div 128 \in Nat /\ v \div 128 < v /\ (v % 128) + 128 \in 0 .. 255
    BY SMT
<1>2. \A v \in Nat : v \in Base <=> v < 128
    BY SMT
<1>3. \E f \in [Nat -> Seq(Byte)] : f = Unfolded(f, Nat, Base, start, before, step)
    <2>1. \A v \in Nat \ Base : before[v] \in Nat /\ before[v] < v
        BY <1>1, <1>2, SMT
    <2>2. \A v \in Nat : v \in Base => start[v] \in Seq(Byte)
        <3>1. \A v \in Base : v \in Byte
            BY SMT DEF Byte
        <3>2. QED
            BY <3>1
    <2>3. \A v \in Nat, x \in Seq(Byte) : v \notin Base => step[<<v, x>>] \in Seq(Byte)
        <3> SUFFICES ASSUME NEW v \in Nat, NEW x \in Seq(Byte), v \notin Base
                     PROVE  step[<<v, x>>] \in Seq(Byte)
            OBVIOUS
        <3>1. (v % 128) + 128 \in Byte
            BY <1>1, <1>2, SMT DEF Byte
        <3>2. <<(v % 128) + 128>> \o x \in Seq(Byte)
            BY <3>1
        <3>3. step[<<v, x>>] = <<(v % 128) + 128>> \o x
            OBVIOUS
        <3>4. QED
            BY <3>2, <3>3
    <2> DEFINE T == Seq(Byte)
    <2>4. /\ \A v \in Nat : v \in Base => start[v] \in T
          /\ \A v \in Nat, x \in T : v \notin Base => step[<<v, x>>] \in T
        BY <2>2, <2>3
    <2> HIDE DEF start, before, step, Base, T
    <2>5. \E f \in [Nat -> T] : f = Unfolded(f, Nat, Base, start, before, step)
        BY <2>1, <2>4, TypedRecursion
    <2>6. QED
        BY <2>5 DEF T
<1>4. PICK f \in [Nat -> Seq(Byte)] : f = Unfolded(f, Nat, Base, start, before, step)
    BY <1>3
<1>5. f = Step(f)
    <2>1. ASSUME NEW v \in Nat, v >= 128
          PROVE  step[<<v, f[before[v]]>>] = <<(v % Group) + Group>> \o f[v \div Group]
        <3>1. v \div 128 \in Nat
            BY <1>1, <2>1
        <3>2. f[v \div 128] \in Seq(Byte)
            BY <3>1
        <3>3. QED
            BY <3>2 DEF Group
    <2>2. ASSUME NEW v \in Nat
          PROVE  f[v] = IF v < Group THEN <<v>> ELSE <<(v % Group) + Group>> \o f[v \div Group]
        <3>1. f[v] = IF v \in Base THEN start[v] ELSE step[<<v, f[before[v]]>>]
            BY <1>4, Zenon DEF Unfolded
        <3>2. CASE v < 128
            BY <1>2, <3>1, <3>2 DEF Group
        <3>3. CASE ~(v < 128)
            <4>1. v >= 128 /\ v \notin Base
                BY <1>2, <3>3, SMT
            <4>2. QED
                BY <2>1, <3>1, <3>3, <4>1 DEF Group
        <3>4. QED
            BY <3>2, <3>3
    <2>3. f = [v \in Nat |-> f[v]]
        OBVIOUS
    <2>4. QED
        BY <2>2, <2>3
<1>6. Varint = CHOOSE g : g = Step(g)
    BY DEF Varint
<1>7. Varint = Step(Varint)
    <2> HIDE DEF Step
    <2>1. QED
        BY <1>5, <1>6
<1>8. ASSUME NEW v \in Nat
      PROVE  Varint[v] = IF v < 128 THEN <<v>> ELSE <<(v % 128) + 128>> \o Varint[v \div 128]
    BY <1>7 DEF Group
<1> DEFINE S == {v \in Nat : Varint[v] \in Seq(Byte)}
<1>9. ASSUME NEW v \in Nat, \A m \in Nat : m < v => m \in S PROVE v \in S
    <2>1. CASE v < 128
        <3>1. v \in Byte
            BY <2>1, SMT DEF Byte
        <3>2. Varint[v] = <<v>>
            BY <1>8, <2>1
        <3>3. <<v>> \in Seq(Byte)
            BY <3>1
        <3>4. QED
            BY <3>2, <3>3
    <2>2. CASE ~(v < 128)
        <3>1. v \div 128 \in Nat /\ v \div 128 < v /\ (v % 128) + 128 \in Byte
            BY <1>1, <2>2, SMT DEF Byte
        <3>2. Varint[v \div 128] \in Seq(Byte)
            BY <1>9, <3>1
        <3>3. <<(v % 128) + 128>> \o Varint[v \div 128] \in Seq(Byte)
            BY <3>1, <3>2
        <3>4. QED
            BY <1>8, <2>2, <3>3
    <2>3. QED
        BY <2>1, <2>2
<1> HIDE DEF S
<1>10. \A v \in Nat : v \in S
    BY <1>9, StrongInduction
<1>11. value >= 128 => ~(value < 128)
    BY SMT
<1>12. QED
    BY <1>1, <1>8, <1>10, <1>11 DEF S, Byte

(* Every byte but the last says that more follow, and the last does not;   *)
(* and a value of so many bits takes no more than a byte for seven.        *)
LEMMA VarintShape ==
    ASSUME NEW value \in Nat
    PROVE  /\ Len(Varint[value]) \in Nat /\ Len(Varint[value]) >= 1
           /\ \A i \in 1 .. Len(Varint[value]) :
                  Varint[value][i] \in Byte /\ (Varint[value][i] < 128 <=> i = Len(Varint[value]))
           /\ \A m \in Nat : m >= 1 /\ value < TwoTo[m] => 7 * (Len(Varint[value]) - 1) < m
<1> DEFINE P(v) ==
           /\ Len(Varint[v]) \in Nat /\ Len(Varint[v]) >= 1
           /\ \A i \in 1 .. Len(Varint[v]) :
                  Varint[v][i] \in Byte /\ (Varint[v][i] < 128 <=> i = Len(Varint[v]))
           /\ \A m \in Nat : m >= 1 /\ v < TwoTo[m] => 7 * (Len(Varint[v]) - 1) < m
           S == {v \in Nat : P(v)}
<1>1. ASSUME NEW v \in Nat, \A m \in Nat : m < v => m \in S PROVE v \in S
    <2>1. CASE v < 128
        <3>1. v \in Byte
            BY <2>1, SMT DEF Byte
        <3>2. Varint[v] = <<v>>
            BY <2>1, VarintDef
        <3>3. P(v)
            BY <2>1, <3>1, <3>2, SMT
        <3>4. QED
            BY <3>3
    <2>2. CASE v >= 128
        <3> DEFINE w == v \div 128
                   first == (v % 128) + 128
                   rest == Varint[w]
        <3>1. w \in Nat /\ w < v /\ first \in Byte /\ first >= 128 /\ Varint[v] = <<first>> \o rest
            <4>1. w \in Nat /\ w < v /\ first \in Byte /\ Varint[v] = <<first>> \o rest
                BY <2>2, VarintDef
            <4>2. first >= 128
                BY SMT
            <4>3. QED
                BY <4>1, <4>2
        <3>2. P(w) /\ rest \in Seq(Byte)
            BY <1>1, <3>1, VarintDef
        <3> DEFINE long == <<first>> \o rest
        <3>3. Len(long) = Len(rest) + 1
            BY <3>1, <3>2
        <3>4. \A i \in 1 .. Len(long) : long[i] = IF i = 1 THEN first ELSE rest[i - 1]
            BY <3>1, <3>2
        <3>5. ASSUME NEW m \in Nat, m >= 1, v < TwoTo[m] PROVE 7 * (Len(long) - 1) < m
            <4>1. m > 7
                <5>1. TwoTo[0 + 7] = 128 * TwoTo[0] /\ TwoTo[0] = 1
                    BY TwoToSeven, TwoToDef
                <5>2. m <= 7 => TwoTo[m] <= TwoTo[7]
                    BY TwoToGrows
                <5>3. QED
                    BY <2>2, <3>5, <5>1, <5>2, TwoToPositive, SMT
            <4>2. m - 7 \in Nat /\ m - 7 >= 1 /\ (m - 7) + 7 = m
                BY <4>1, SMT
            <4>3. TwoTo[m] = 128 * TwoTo[m - 7] /\ TwoTo[m - 7] \in Nat
                BY <4>2, TwoToSeven, TwoToPositive
            <4>4. w < TwoTo[m - 7]
                BY <3>5, <4>3, SMT
            <4>5. 7 * (Len(rest) - 1) < m - 7
                BY <3>2, <4>2, <4>4
            <4>6. QED
                BY <3>2, <3>3, <4>5, SMT
        <3>6. Len(rest) \in Nat /\ Len(rest) >= 1
            BY <3>2
        <3>7. \A i \in 1 .. Len(rest) : rest[i] \in Byte /\ (rest[i] < 128 <=> i = Len(rest))
            BY <3>2
        <3>8. first \in Byte /\ ~(first < 128)
            BY <3>1, SMT DEF Byte
        <3> HIDE DEF long, rest, first, w
        <3>9. \A i \in 1 .. Len(long) : long[i] \in Byte /\ (long[i] < 128 <=> i = Len(long))
            <4> SUFFICES ASSUME NEW i \in 1 .. Len(long)
                         PROVE  long[i] \in Byte /\ (long[i] < 128 <=> i = Len(long))
                OBVIOUS
            <4>1. CASE i = 1
                BY <3>3, <3>4, <3>6, <3>8, <4>1, SMT
            <4>2. CASE i # 1
                <5>1. i - 1 \in 1 .. Len(rest) /\ (i = Len(long) <=> i - 1 = Len(rest))
                    BY <3>3, <3>6, <4>2, SMT
                <5>2. QED
                    BY <3>4, <3>7, <4>2, <5>1
            <4>3. QED
                BY <4>1, <4>2
        <3>10. Varint[v] = long
            BY <3>1 DEF long, first, rest, w
        <3>11. Len(long) \in Nat /\ Len(long) >= 1
            BY <3>3, <3>6, SMT
        <3>12. P(v)
            BY <3>5, <3>9, <3>10, <3>11
        <3>13. QED
            BY <3>12
    <2>3. QED
        BY <2>1, <2>2, SMT
<1> HIDE DEF S
<1>2. \A v \in Nat : v \in S
    BY <1>1, StrongInduction
<1>3. P(value)
    BY <1>2 DEF S
<1>4. QED
    BY <1>3

-----------------------------------------------------------------------------
(* Varints as they are read *)

LEMMA BytesAreBytes ==
    ASSUME NEW buf \in Seq(Byte), NEW i \in 1 .. Len(buf)
    PROVE  /\ buf[i] \in Byte
           /\ buf[i] \in Nat /\ buf[i] < 256
           /\ ~(buf[i] < 128) => buf[i] >= 128 /\ buf[i] - 128 \in Nat
<1>1. buf[i] \in Byte
    OBVIOUS
<1> DEFINE b == buf[i]
<1>2. b \in Byte
    BY <1>1
<1> HIDE DEF b
<1>3. b \in Nat /\ b < 256 /\ (~(b < 128) => b >= 128 /\ b - 128 \in Nat)
    BY <1>2, SMT DEF Byte
<1>4. QED
    BY <1>1, <1>3 DEF b

\* The read loop of a varint from pos to end, from the last byte back.
Gathered(h, buf, pos, end) ==
    [i \in pos .. end |-> IF i = end THEN buf[i] ELSE buf[i] - Group + Group * h[i + 1]]

LEMMA GatheredExists ==
    ASSUME NEW buf \in Seq(Byte), NEW pos \in 1 .. Len(buf), NEW end \in pos .. Len(buf),
           \A i \in pos .. end - 1 : buf[i] >= 128
    PROVE  \E h \in [pos .. end -> Nat] : h = Gathered(h, buf, pos, end)
<1> DEFINE start  == [n \in Nat |-> buf[end]]
           before == [n \in Nat |-> n - 1]
           step   == [x \in Nat \X Nat |-> IF x[1] <= end - pos THEN buf[end - x[1]] - 128 + 128 * x[2] ELSE 0]
<1>0. \A i \in 1 .. Len(buf) : buf[i] \in Nat
    BY BytesAreBytes
<1>1. \E f \in [Nat -> Nat] : f = Unfolded(f, Nat, {0}, start, before, step)
    <2>1. \A n \in Nat \ {0} : before[n] \in Nat /\ before[n] < n
        BY SMT
    <2>2. \A n \in Nat : n \in {0} => start[n] \in Nat
        BY <1>0, SMT
    <2>3. \A n \in Nat, x \in Nat : n \notin {0} => step[<<n, x>>] \in Nat
        <3> SUFFICES ASSUME NEW n \in Nat, NEW x \in Nat, n # 0
                     PROVE  step[<<n, x>>] \in Nat
            OBVIOUS
        <3>1. step[<<n, x>>] = IF n <= end - pos THEN buf[end - n] - 128 + 128 * x ELSE 0
            OBVIOUS
        <3>2. CASE n <= end - pos
            <4>1. end - n \in pos .. end - 1 /\ end - n \in 1 .. Len(buf)
                BY <3>2, SMT
            <4>2. buf[end - n] >= 128 /\ buf[end - n] \in Nat
                BY <1>0, <4>1
            <4>3. QED
                BY <3>1, <3>2, <4>2, SMT
        <3>3. CASE ~(n <= end - pos)
            BY <3>1, <3>3
        <3>4. QED
            BY <3>2, <3>3
    <2> HIDE DEF start, before, step
    <2>4. QED
        BY <2>1, <2>2, <2>3, TypedRecursion
<1>2. PICK f \in [Nat -> Nat] : f = Unfolded(f, Nat, {0}, start, before, step)
    BY <1>1
<1>3. ASSUME NEW n \in Nat
      PROVE  f[n] = IF n \in {0} THEN start[n] ELSE step[<<n, f[before[n]]>>]
    BY <1>2, Zenon DEF Unfolded
<1> DEFINE h == [i \in pos .. end |-> f[end - i]]
<1>4. \A i \in pos .. end : end - i \in Nat
    BY SMT
<1>5. h \in [pos .. end -> Nat]
    BY <1>4
<1>6. ASSUME NEW i \in pos .. end
      PROVE  h[i] = IF i = end THEN buf[i] ELSE buf[i] - Group + Group * h[i + 1]
    <2>1. CASE i = end
        <3>1. end - i = 0
            BY <2>1, SMT
        <3>2. h[i] = f[0] /\ f[0] = start[0]
            BY <1>3, <3>1
        <3>3. QED
            BY <2>1, <3>2
    <2>2. CASE i # end
        <3> DEFINE n == end - i
        <3>1. n \in Nat /\ n # 0 /\ n <= end - pos /\ end - n = i /\ n - 1 \in Nat
              /\ n - 1 = end - (i + 1) /\ i + 1 \in pos .. end
            BY <2>2, SMT
        <3>2. h[i] = f[n] /\ h[i + 1] = f[n - 1] /\ f[n - 1] \in Nat
            BY <3>1
        <3> HIDE DEF n
        <3>3. f[n] = step[<<n, f[n - 1]>>]
            <4>1. before[n] = n - 1
                BY <3>1
            <4>2. n \notin {0}
                BY <3>1
            <4> HIDE DEF step, before
            <4>3. f[n] = step[<<n, f[before[n]]>>]
                BY <1>3, <3>1, <4>2
            <4>4. QED
                BY <4>1, <4>3
        <3>4. step[<<n, f[n - 1]>>] = buf[i] - 128 + 128 * f[n - 1]
            BY <3>1, <3>2
        <3> HIDE DEF h, step
        <3>5. QED
            BY <2>2, <3>2, <3>3, <3>4 DEF Group
    <2>3. QED
        BY <2>1, <2>2
<1>7. h = [i \in pos .. end |-> h[i]]
    OBVIOUS
<1> HIDE DEF h
<1>8. h = Gathered(h, buf, pos, end)
    BY <1>6, <1>7 DEF Gathered
<1>9. QED
    BY <1>5, <1>8

\* A varint goes on to the first byte that says no more follow, if there is one.
LEMMA ReadVarintUnfolds ==
    ASSUME NEW buf \in Seq(Byte), NEW pos \in 1 .. Len(buf) + 1
    PROVE  \/ /\ \A i \in pos .. Len(buf) : ~(buf[i] < 128)
              /\ ReadVarint(buf, pos) = Malformed
           \/ \E end \in pos .. Len(buf) : \E h \in [pos .. end -> Nat] :
                  /\ buf[end] < 128
                  /\ \A i \in pos .. end - 1 : ~(buf[i] < 128)
                  /\ h = Gathered(h, buf, pos, end)
                  /\ ReadVarint(buf, pos) =
                         IF 7 * (end - pos) >= VARINT_BITS THEN Malformed
                         ELSE [ok |-> TRUE, value |-> h[pos] % TwoTo[VARINT_BITS], next |-> end + 1]
<1> DEFINE ends == {i \in pos .. Len(buf) : buf[i] < Group}
           end  == Min(ends)
           h    == CHOOSE g : g = Gathered(g, buf, pos, end)
<1>1. ReadVarint(buf, pos) =
          IF ends = {} \/ 7 * (end - pos) >= VARINT_BITS THEN Malformed
          ELSE [ok |-> TRUE, value |-> h[pos] % TwoTo[VARINT_BITS], next |-> end + 1]
    BY DEF ReadVarint, Gathered
<1> HIDE DEF h
<1>2. CASE ends = {}
    <2>1. ReadVarint(buf, pos) = Malformed
        BY <1>1, <1>2
    <2>2. \A i \in pos .. Len(buf) : ~(buf[i] < 128)
        BY <1>2 DEF Group
    <2>3. QED
        BY <2>1, <2>2
<1>3. CASE ends # {}
    <2>1. ends \subseteq Nat
        BY SMT
    <2>2. PICK least \in ends : \A i \in ends : least <= i
        BY <1>3, <2>1, LeastOfNats
    <2>3. end \in ends /\ \A i \in ends : end <= i
        BY <2>2 DEF Min
    <2> HIDE DEF end
    <2>4. end \in pos .. Len(buf) /\ buf[end] < 128
        BY <2>3 DEF Group
    <2>5. pos \in 1 .. Len(buf) /\ end \in Nat
        BY <2>4, SMT
    <2>6. ASSUME NEW i \in pos .. end - 1 PROVE ~(buf[i] < 128)
        <3>1. i \in pos .. Len(buf) /\ ~(end <= i)
            BY <2>4, <2>5, SMT
        <3>2. QED
            BY <2>3, <3>1 DEF Group
    <2>7. \A i \in pos .. end - 1 : buf[i] >= 128
        <3> SUFFICES ASSUME NEW i \in pos .. end - 1 PROVE buf[i] >= 128
            OBVIOUS
        <3>1. i \in 1 .. Len(buf)
            BY <2>4, <2>5, SMT
        <3>2. QED
            BY <2>6, <3>1, BytesAreBytes
    <2>8. \E g \in [pos .. end -> Nat] : g = Gathered(g, buf, pos, end)
        BY <2>4, <2>5, <2>7, GatheredExists
    <2>9. h = Gathered(h, buf, pos, end)
        BY <2>8 DEF h
    <2>10. h \in [pos .. end -> Nat]
        <3>1. PICK g \in [pos .. end -> Nat] : g = Gathered(g, buf, pos, end)
            BY <2>8
        <3> DEFINE S == {n \in Nat : n <= end - pos => h[end - n] \in Nat}
        <3>2. \A i \in pos .. end : h[i] = IF i = end THEN buf[i] ELSE buf[i] - Group + Group * h[i + 1]
            BY <2>9, Zenon DEF Gathered
        <3>3. \A i \in pos .. end : buf[i] \in Nat /\ (i # end => buf[i] - 128 \in Nat)
            <4> SUFFICES ASSUME NEW i \in pos .. end
                         PROVE  buf[i] \in Nat /\ (i # end => buf[i] - 128 \in Nat)
                OBVIOUS
            <4>1. i \in 1 .. Len(buf)
                BY <2>4, <2>5, SMT
            <4>2. i # end => ~(buf[i] < 128)
                BY <2>4, <2>5, <2>6, SMT
            <4>3. QED
                BY <4>1, <4>2, BytesAreBytes
        <3>4. 0 \in S
            <4>1. end - 0 = end /\ end \in pos .. end
                BY <2>4, <2>5, SMT
            <4>2. QED
                BY <3>2, <3>3, <4>1
        <3>5. ASSUME NEW n \in Nat, n \in S PROVE n + 1 \in S
            <4> SUFFICES ASSUME n + 1 <= end - pos PROVE h[end - (n + 1)] \in Nat
                BY SMT
            <4> DEFINE i == end - (n + 1)
            <4>1. i \in pos .. end /\ i # end /\ i + 1 = end - n /\ n <= end - pos
                BY <2>4, <2>5, SMT
            <4> HIDE DEF i
            <4>2. h[i + 1] \in Nat
                BY <3>5, <4>1
            <4>3. h[i] = buf[i] - 128 + 128 * h[i + 1]
                BY <3>2, <4>1 DEF Group
            <4>4. buf[i] - 128 \in Nat
                BY <3>3, <4>1
            <4>5. h[i] \in Nat
                BY <4>2, <4>3, <4>4, SMT
            <4>6. QED
                BY <4>5 DEF i
        <3> HIDE DEF S
        <3>6. \A n \in Nat : n \in S
            BY <3>4, <3>5, StepInduction
        <3>7. ASSUME NEW i \in pos .. end PROVE h[i] \in Nat
            <4>1. end - i \in Nat /\ end - i <= end - pos /\ end - (end - i) = i
                BY <2>5, SMT
            <4>2. QED
                BY <3>6, <4>1 DEF S
        <3>8. h = [i \in pos .. end |-> h[i]]
            BY <2>9, Zenon DEF Gathered
        <3>9. QED
            BY <3>7, <3>8
    <2>11. ReadVarint(buf, pos) =
               IF 7 * (end - pos) >= VARINT_BITS THEN Malformed
               ELSE [ok |-> TRUE, value |-> h[pos] % TwoTo[VARINT_BITS], next |-> end + 1]
        BY <1>1, <1>3
    <2>12. QED
        BY <2>4, <2>6, <2>9, <2>10, <2>11
<1>4. QED
    BY <1>2, <1>3

-----------------------------------------------------------------------------
(* A varint is read where it was written *)

LEMMA SmallModulo ==
    ASSUME NEW v \in Nat, NEW m \in Nat, v < m
    PROVE  v % m = v
BY SMT

LEMMA Modulo ==
    ASSUME NEW v \in Nat, NEW m \in Nat, m > 0
    PROVE  v % m \in Nat /\ v % m < m
BY SMT

-----------------------------------------------------------------------------
(* Bytes that are found in a buffer, whole or cut short by its end *)

At(buf, pos, bytes) ==
    /\ pos + Len(bytes) <= Len(buf) + 1
    /\ \A i \in 1 .. Len(bytes) : buf[pos + i - 1] = bytes[i]

Cut(buf, pos, bytes) ==
    /\ pos <= Len(buf) + 1 /\ Len(buf) + 1 < pos + Len(bytes)
    /\ \A i \in 1 .. Len(buf) + 1 - pos : buf[pos + i - 1] = bytes[i]

LEMMA AtParts ==
    ASSUME NEW buf \in Seq(Byte), NEW pos \in Nat \ {0}, NEW s \in Seq(Byte), NEW t \in Seq(Byte),
           At(buf, pos, s \o t)
    PROVE  At(buf, pos, s) /\ At(buf, pos + Len(s), t)
<1>1. /\ Len(s \o t) = Len(s) + Len(t)
      /\ \A i \in 1 .. Len(s) : (s \o t)[i] = s[i]
      /\ \A i \in 1 .. Len(t) : (s \o t)[Len(s) + i] = t[i]
    BY SMT
<1>2. Len(s) \in Nat /\ Len(t) \in Nat /\ Len(buf) \in Nat
    BY LenProperties
<1> DEFINE st == s \o t
<1>3. \A i \in 1 .. Len(s) : i \in 1 .. Len(st)
    BY <1>1, <1>2, SMT
<1>4. \A i \in 1 .. Len(t) : Len(s) + i \in 1 .. Len(st) /\ pos + (Len(s) + i) - 1 = (pos + Len(s)) + i - 1
    BY <1>1, <1>2, SMT
<1>5. /\ pos + Len(st) <= Len(buf) + 1
      /\ \A i \in 1 .. Len(st) : buf[pos + i - 1] = st[i]
    BY DEF At
<1> HIDE DEF st
<1>6. At(buf, pos, s)
    <2>1. pos + Len(s) <= Len(buf) + 1
        BY <1>1, <1>2, <1>5, SMT DEF st
    <2>2. \A i \in 1 .. Len(s) : buf[pos + i - 1] = s[i]
        BY <1>1, <1>3, <1>5 DEF st
    <2>3. QED
        BY <2>1, <2>2 DEF At
<1>7. At(buf, pos + Len(s), t)
    <2>1. (pos + Len(s)) + Len(t) <= Len(buf) + 1
        BY <1>1, <1>2, <1>5, SMT DEF st
    <2>2. \A i \in 1 .. Len(t) : buf[(pos + Len(s)) + i - 1] = t[i]
        <3> SUFFICES ASSUME NEW i \in 1 .. Len(t) PROVE buf[(pos + Len(s)) + i - 1] = t[i]
            OBVIOUS
        <3>1. buf[pos + (Len(s) + i) - 1] = st[Len(s) + i]
            BY <1>4, <1>5
        <3>2. QED
            BY <1>1, <1>4, <3>1 DEF st
    <2>3. QED
        BY <2>1, <2>2 DEF At
<1>8. QED
    BY <1>6, <1>7

LEMMA CutParts ==
    ASSUME NEW buf \in Seq(Byte), NEW pos \in Nat \ {0}, NEW s \in Seq(Byte), NEW t \in Seq(Byte),
           Cut(buf, pos, s \o t)
    PROVE  Cut(buf, pos, s) \/ (At(buf, pos, s) /\ Cut(buf, pos + Len(s), t))
<1>1. /\ Len(s \o t) = Len(s) + Len(t)
      /\ \A i \in 1 .. Len(s) : (s \o t)[i] = s[i]
      /\ \A i \in 1 .. Len(t) : (s \o t)[Len(s) + i] = t[i]
    BY SMT
<1>2. Len(s) \in Nat /\ Len(t) \in Nat /\ Len(buf) \in Nat
    BY LenProperties
<1> DEFINE st   == s \o t
           left == Len(buf) + 1 - pos
<1>3. /\ pos <= Len(buf) + 1 /\ Len(buf) + 1 < pos + Len(st)
      /\ \A i \in 1 .. left : buf[pos + i - 1] = st[i]
    BY DEF Cut
<1>4. left \in Nat
    BY <1>2, <1>3, SMT
<1> HIDE DEF st, left
<1>5. CASE left < Len(s)
    <2>1. \A i \in 1 .. left : i \in 1 .. Len(s)
        BY <1>2, <1>4, <1>5, SMT
    <2>2. \A i \in 1 .. left : buf[pos + i - 1] = s[i]
        BY <1>1, <1>3, <2>1 DEF st
    <2>3. Len(buf) + 1 < pos + Len(s)
        BY <1>2, <1>5, SMT DEF left
    <2>4. Cut(buf, pos, s)
        BY <1>3, <2>2, <2>3 DEF Cut, left
    <2>5. QED
        BY <2>4
<1>6. CASE ~(left < Len(s))
    <2>1. \A i \in 1 .. Len(s) : i \in 1 .. left
        BY <1>2, <1>4, <1>6, SMT
    <2>2. \A i \in 1 .. Len(s) : buf[pos + i - 1] = s[i]
        BY <1>1, <1>3, <2>1 DEF st
    <2>3. pos + Len(s) <= Len(buf) + 1
        BY <1>2, <1>6, SMT DEF left
    <2>4. At(buf, pos, s)
        BY <2>2, <2>3 DEF At
    <2>5. Len(buf) + 1 < (pos + Len(s)) + Len(t)
        BY <1>1, <1>2, <1>3, SMT DEF st
    <2>6. ASSUME NEW i \in 1 .. Len(buf) + 1 - (pos + Len(s))
          PROVE  buf[(pos + Len(s)) + i - 1] = t[i]
        <3>1. /\ Len(s) + i \in 1 .. left /\ i \in 1 .. Len(t)
              /\ pos + (Len(s) + i) - 1 = (pos + Len(s)) + i - 1
            BY <1>2, <2>3, <2>5, SMT DEF left
        <3>2. buf[pos + (Len(s) + i) - 1] = st[Len(s) + i]
            BY <1>3, <3>1
        <3>3. QED
            BY <1>1, <3>1, <3>2 DEF st
    <2>7. Cut(buf, pos + Len(s), t)
        BY <2>3, <2>5, <2>6 DEF Cut
    <2>8. QED
        BY <2>4, <2>7
<1>7. QED
    BY <1>5, <1>6

-----------------------------------------------------------------------------

\* A varint that is read takes a byte at least, and none past the end.
LEMMA ReadVarintInside ==
    ASSUME NEW buf \in Seq(Byte), NEW pos \in 1 .. Len(buf) + 1
    PROVE  LET varint == ReadVarint(buf, pos)
           IN  /\ varint.ok \in BOOLEAN
               /\ ~varint.ok => varint = Malformed
               /\ varint.ok =>
                      /\ varint.value \in Nat /\ varint.value < TwoTo[VARINT_BITS]
                      /\ varint.next \in pos + 1 .. Len(buf) + 1
<1>1. CASE ReadVarint(buf, pos) = Malformed
    BY <1>1 DEF Malformed
<1>2. ASSUME NEW end \in pos .. Len(buf), NEW h \in [pos .. end -> Nat],
             ReadVarint(buf, pos) = [ok |-> TRUE, value |-> h[pos] % TwoTo[VARINT_BITS], next |-> end + 1]
      PROVE  /\ ReadVarint(buf, pos).ok
             /\ ReadVarint(buf, pos).value \in Nat /\ ReadVarint(buf, pos).value < TwoTo[VARINT_BITS]
             /\ ReadVarint(buf, pos).next \in pos + 1 .. Len(buf) + 1
    <2>1. end + 1 \in pos + 1 .. Len(buf) + 1 /\ pos \in pos .. end
        BY SMT
    <2>2. h[pos] \in Nat
        BY <2>1
    <2>3. TwoTo[VARINT_BITS] \in Nat /\ TwoTo[VARINT_BITS] > 0
        BY TwoToPositive, BitsAssumption
    <2>4. h[pos] % TwoTo[VARINT_BITS] \in Nat /\ h[pos] % TwoTo[VARINT_BITS] < TwoTo[VARINT_BITS]
        BY <2>2, <2>3, Modulo
    <2>5. QED
        BY <1>2, <2>1, <2>4
<1>3. QED
    BY <1>1, <1>2, ReadVarintUnfolds

\* A varint is read as it was written.
LEMMA ReadVarintAt ==
    ASSUME NEW buf \in Seq(Byte), NEW pos \in 1 .. Len(buf) + 1,
           NEW value \in Nat, value < TwoTo[VARINT_BITS], At(buf, pos, Varint[value])
    PROVE  ReadVarint(buf, pos) = [ok |-> TRUE, value |-> value, next |-> pos + Len(Varint[value])]
<1> DEFINE len == Len(Varint[value])
           last == pos + len - 1
<1>1. /\ len \in Nat /\ len >= 1
      /\ \A i \in 1 .. len : Varint[value][i] < 128 <=> i = len
    BY VarintShape
<1>2. 7 * (len - 1) < VARINT_BITS
    BY BitsAssumption, VarintShape, SMT
<1>3. last \in pos .. Len(buf) /\ Len(buf) \in Nat
    BY <1>1, SMT DEF At
<1>4. \A i \in 1 .. len : buf[pos + i - 1] = Varint[value][i]
    BY DEF At
<1> HIDE DEF len, last
<1>5. ASSUME NEW i \in pos .. last PROVE buf[i] < 128 <=> i = last
    <2>1. i - pos + 1 \in 1 .. len /\ pos + (i - pos + 1) - 1 = i /\ (i = last <=> i - pos + 1 = len)
        BY <1>1, <1>3, SMT DEF last
    <2>2. QED
        BY <1>1, <1>4, <2>1
<1>6. last \in pos .. last
    BY <1>3, SMT
<1>7. PICK end \in pos .. Len(buf) : \E h \in [pos .. end -> Nat] :
          /\ buf[end] < 128
          /\ \A i \in pos .. end - 1 : ~(buf[i] < 128)
          /\ h = Gathered(h, buf, pos, end)
          /\ ReadVarint(buf, pos) =
                 IF 7 * (end - pos) >= VARINT_BITS THEN Malformed
                 ELSE [ok |-> TRUE, value |-> h[pos] % TwoTo[VARINT_BITS], next |-> end + 1]
    BY <1>3, <1>5, <1>6, ReadVarintUnfolds
<1>a. PICK h \in [pos .. end -> Nat] :
          /\ buf[end] < 128
          /\ \A i \in pos .. end - 1 : ~(buf[i] < 128)
          /\ h = Gathered(h, buf, pos, end)
          /\ ReadVarint(buf, pos) =
                 IF 7 * (end - pos) >= VARINT_BITS THEN Malformed
                 ELSE [ok |-> TRUE, value |-> h[pos] % TwoTo[VARINT_BITS], next |-> end + 1]
    BY <1>7
<1>8. end = last
    <2>1. CASE end < last
        <3>1. end \in pos .. last
            BY <1>3, <2>1, SMT
        <3>2. QED
            BY <1>5, <1>a, <3>1
    <2>2. CASE last < end
        <3>1. last \in pos .. end - 1
            BY <1>3, <2>2, SMT
        <3>2. QED
            BY <1>5, <1>6, <1>a, <3>1
    <2>3. QED
        BY <1>3, <2>1, <2>2, SMT
<1>9. \A i \in pos .. end : h[i] = IF i = end THEN buf[i] ELSE buf[i] - 128 + 128 * h[i + 1]
    BY <1>a, Zenon DEF Gathered, Group
<1> DEFINE S == {v \in Nat : \A p \in pos .. end :
                     At(buf, p, Varint[v]) /\ p + Len(Varint[v]) - 1 = end => h[p] = v}
<1>10. ASSUME NEW v \in Nat, \A m \in Nat : m < v => m \in S PROVE v \in S
    <2> SUFFICES ASSUME NEW p \in pos .. end, At(buf, p, Varint[v]), p + Len(Varint[v]) - 1 = end
                 PROVE  h[p] = v
        OBVIOUS
    <2>1. buf[p] = Varint[v][1]
        <3>1. 1 \in 1 .. Len(Varint[v]) /\ p + 1 - 1 = p
            BY VarintShape, SMT
        <3>2. QED
            BY <3>1 DEF At
    <2>2. CASE v < 128
        <3>1. Varint[v] = <<v>>
            BY <2>2, VarintDef
        <3>2. p = end
            BY <3>1, SMT
        <3>3. QED
            BY <1>9, <2>1, <3>1, <3>2
    <2>3. CASE v >= 128
        <3> DEFINE first == (v % 128) + 128
                   w    == v \div 128
                   rest == Varint[w]
        <3>1. w \in Nat /\ w < v /\ first \in Byte /\ Varint[v] = <<first>> \o rest /\ rest \in Seq(Byte)
            BY <2>3, VarintDef
        <3>2. v = first - 128 + 128 * w
            BY SMT
        <3>3. Len(rest) \in Nat /\ Len(rest) >= 1
            BY <3>1, VarintShape
        <3> HIDE DEF first, w, rest
        <3>4. <<first>> \in Seq(Byte) /\ Len(<<first>>) = 1 /\ Len(<<first>> \o rest) = 1 + Len(rest)
            BY <3>1
        <3>5. p \in Nat \ {0} /\ p + 1 \in pos .. end /\ p # end /\ (p + 1) + Len(rest) - 1 = end
            BY <1>3, <3>1, <3>3, <3>4, SMT
        <3>6. At(buf, p + 1, rest)
            <4>1. At(buf, p, <<first>> \o rest)
                BY <3>1
            <4> DEFINE s == <<first>>
            <4>2. s \in Seq(Byte) /\ Len(s) = 1 /\ At(buf, p, s \o rest)
                BY <3>4, <4>1
            <4> HIDE DEF s
            <4>3. At(buf, p + Len(s), rest)
                BY <3>1, <3>5, <4>2, AtParts
            <4>4. QED
                BY <4>2, <4>3
        <3>7. h[p + 1] = w
            BY <1>10, <3>1, <3>5, <3>6 DEF rest
        <3>8. buf[p] = first
            BY <2>1, <3>1
        <3>9. h[p] = buf[p] - 128 + 128 * h[p + 1]
            BY <1>9, <3>5
        <3>10. QED
            BY <3>2, <3>7, <3>8, <3>9
    <2>4. QED
        BY <2>2, <2>3, SMT
<1> HIDE DEF S
<1>11. \A v \in Nat : v \in S
    BY <1>10, StrongInduction
<1>12. h[pos] = value
    <2>1. pos \in pos .. end /\ pos + Len(Varint[value]) - 1 = end
        BY <1>3, <1>8, SMT DEF last, len
    <2>2. QED
        BY <1>11, <2>1 DEF S
<1>13. value % TwoTo[VARINT_BITS] = value
    BY TwoToPositive, BitsAssumption, SmallModulo
<1>14. ~(7 * (end - pos) >= VARINT_BITS) /\ end + 1 = pos + len
    BY <1>1, <1>2, <1>3, <1>8, BitsAssumption, SMT DEF last
<1>15. QED
    BY <1>a, <1>12, <1>13, <1>14 DEF len

\* Of half a varint nothing is read.
LEMMA ReadVarintCut ==
    ASSUME NEW buf \in Seq(Byte), NEW pos \in 1 .. Len(buf) + 1,
           NEW value \in Nat, Cut(buf, pos, Varint[value])
    PROVE  ReadVarint(buf, pos) = Malformed
<1>1. /\ Len(Varint[value]) \in Nat
      /\ \A i \in 1 .. Len(Varint[value]) : Varint[value][i] < 128 <=> i = Len(Varint[value])
    BY VarintShape
<1>2. ASSUME NEW i \in pos .. Len(buf) PROVE ~(buf[i] < 128)
    <2>1. /\ i - pos + 1 \in 1 .. Len(buf) + 1 - pos /\ pos + (i - pos + 1) - 1 = i
          /\ i - pos + 1 \in 1 .. Len(Varint[value]) /\ i - pos + 1 # Len(Varint[value])
        BY <1>1, SMT DEF Cut
    <2>2. buf[i] = Varint[value][i - pos + 1]
        BY <2>1 DEF Cut
    <2>3. QED
        BY <1>1, <2>1, <2>2
<1>3. QED
    BY <1>2, ReadVarintUnfolds

-----------------------------------------------------------------------------
(* Fields *)

\* A field as read: its value lies behind its tag and inside the buffer.
IsInside(field, buf, pos) ==
    /\ field.ok \in BOOLEAN
    /\ ~field.ok => field = Malformed
    /\ field.ok =>
           /\ field.from \in pos + 1 .. Len(buf) + 1
           /\ field.next \in field.from .. Len(buf) + 1
           /\ field.num # 0
           /\ field.value \in Nat

LEMMA TakeInside ==
    ASSUME NEW b \in Seq(Byte), NEW pos \in Nat, NEW num, num # 0, NEW wire,
           NEW from \in pos + 1 .. Len(b) + 1, NEW size \in Nat
    PROVE  IsInside(Take(b, num, wire, from, size), b, pos)
<1>1. CASE size > Len(b) + 1 - from
    BY <1>1 DEF Take, Malformed, IsInside
<1>2. CASE ~(size > Len(b) + 1 - from)
    <2>1. from + size \in from .. Len(b) + 1
        BY <1>2, SMT
    <2>2. QED
        BY <1>2, <2>1 DEF Take, IsInside
<1>3. QED
    BY <1>1, <1>2

LEMMA FieldOfInside ==
    ASSUME NEW b \in Seq(Byte), NEW pos \in Nat, NEW num \in Nat, NEW wire,
           NEW from \in pos + 1 .. Len(b) + 1
    PROVE  IsInside(FieldOf(b, num, wire, from), b, pos)
<1> DEFINE varint == ReadVarint(b, from)
<1>1. from \in 1 .. Len(b) + 1 /\ Len(b) \in Nat
    BY SMT
<1>2. /\ varint.ok \in BOOLEAN
      /\ varint.ok => varint.value \in Nat /\ varint.next \in from + 1 .. Len(b) + 1
    BY <1>1, ReadVarintInside
<1>3. FieldOf(b, num, wire, from) =
          IF num = 0 \/ wire \notin {WIRE_VARINT, WIRE_FIXED64, WIRE_LEN, WIRE_FIXED32} THEN Malformed
          ELSE IF wire \in {WIRE_FIXED32, WIRE_FIXED64} THEN Take(b, num, wire, from, FixedSize(wire))
          ELSE IF ~varint.ok THEN Malformed
          ELSE IF wire = WIRE_LEN THEN Take(b, num, wire, varint.next, varint.value)
          ELSE [ok |-> TRUE, num |-> num, wire |-> wire, value |-> varint.value,
                from |-> from, next |-> varint.next]
    BY DEF FieldOf
<1> HIDE DEF varint
<1>4. IsInside(Malformed, b, pos)
    BY DEF Malformed, IsInside
<1>5. ASSUME num # 0 PROVE IsInside(Take(b, num, wire, from, FixedSize(wire)), b, pos)
    <2>1. FixedSize(wire) \in Nat
        BY DEF FixedSize
    <2>2. QED
        BY <1>5, <2>1, TakeInside
<1>6. ASSUME num # 0, varint.ok PROVE IsInside(Take(b, num, wire, varint.next, varint.value), b, pos)
    <2>1. varint.next \in pos + 1 .. Len(b) + 1 /\ varint.value \in Nat
        BY <1>1, <1>2, <1>6, SMT
    <2>2. QED
        BY <1>6, <2>1, TakeInside
<1>7. ASSUME num # 0, varint.ok
      PROVE  IsInside([ok |-> TRUE, num |-> num, wire |-> wire, value |-> varint.value,
                       from |-> from, next |-> varint.next], b, pos)
    <2>1. varint.next \in from .. Len(b) + 1 /\ varint.value \in Nat
        BY <1>1, <1>2, <1>7, SMT
    <2>2. QED
        BY <1>7, <2>1 DEF IsInside
<1>8. QED
    BY <1>3, <1>4, <1>5, <1>6, <1>7

\* Whatever the bytes are, a field that is found lies inside them.
LEMMA FieldInside ==
    ASSUME NEW b \in Seq(Byte), NEW pos \in 1 .. Len(b)
    PROVE  IsInside(Field(b, pos), b, pos)
<1> DEFINE tag == ReadVarint(b, pos)
           num == Word(tag.value \div 8)
<1>1. pos \in 1 .. Len(b) + 1 /\ pos \in Nat
    BY SMT
<1>2. /\ tag.ok \in BOOLEAN
      /\ tag.ok => tag.value \in Nat /\ tag.next \in pos + 1 .. Len(b) + 1
    BY <1>1, ReadVarintInside
<1>3. Field(b, pos) = IF ~tag.ok THEN Malformed ELSE FieldOf(b, num, tag.value % 8, tag.next)
    BY DEF Field
<1>4. tag.ok => num \in Nat
    <2>1. tag.ok => tag.value \div 8 \in Nat
        BY <1>2, SMT
    <2>2. TwoTo[WORD_BITS] \in Nat /\ TwoTo[WORD_BITS] > 0
        BY TwoToPositive, BitsAssumption
    <2>3. QED
        BY <2>1, <2>2, Modulo DEF Word
<1> HIDE DEF tag, num
<1>5. IsInside(Malformed, b, pos)
    BY DEF Malformed, IsInside
<1>6. tag.ok => IsInside(FieldOf(b, num, tag.value % 8, tag.next), b, pos)
    BY <1>1, <1>2, <1>4, FieldOfInside
<1>7. QED
    BY <1>3, <1>5, <1>6

LEMMA FourBytesAreBytes ==
    ASSUME NEW value \in Nat
    PROVE  FourBytes(value) \in Seq(Byte) /\ Len(FourBytes(value)) = 4
<1>1. /\ value % 256 \in Byte /\ (value \div 256) % 256 \in Byte
      /\ (value \div 65536) % 256 \in Byte /\ (value \div 16777216) % 256 \in Byte
    BY SMT DEF Byte
<1>2. QED
    BY <1>1 DEF FourBytes

LEMMA WireTypes ==
    /\ WIRE_VARINT = 0 /\ WIRE_FIXED64 = 1 /\ WIRE_LEN = 2 /\ WIRE_FIXED32 = 5
BY DEF WIRE_VARINT, WIRE_FIXED64, WIRE_LEN, WIRE_FIXED32

LEMMA BytesAssociate ==
    ASSUME NEW s \in Seq(Byte), NEW t \in Seq(Byte), NEW u \in Seq(Byte)
    PROVE  (s \o t) \o u = s \o (t \o u)
BY ConcatAssociative

-----------------------------------------------------------------------------
(* Fields whole and cut *)

LEMMA ContentAt ==
    ASSUME NEW b \in Seq(Byte), NEW pos \in Nat \ {0}, NEW bytes \in Seq(Byte), At(b, pos, bytes),
           NEW field, field.from = pos, field.next = pos + Len(bytes)
    PROVE  Content(b, field) = bytes
<1> DEFINE last == pos + Len(bytes) - 1
           part == SubSeq(b, pos, last)
<1>1. Len(bytes) \in Nat /\ Len(b) \in Nat /\ pos \in Int /\ last \in Int
    <2>1. Len(bytes) \in Nat /\ Len(b) \in Nat
        BY LenProperties
    <2>2. QED
        BY <2>1, SMT
<1>2. Content(b, field) = part
    BY <1>1, SMT DEF Content
<1>3. pos + Len(bytes) <= Len(b) + 1 /\ \A i \in 1 .. Len(bytes) : b[pos + i - 1] = bytes[i]
    BY DEF At
<1>4. \A i \in pos .. last : b[i] \in Byte
    <2> SUFFICES ASSUME NEW i \in pos .. last PROVE b[i] \in Byte
        OBVIOUS
    <2>1. i \in 1 .. Len(b)
        BY <1>1, <1>3, SMT
    <2>2. QED
        BY <2>1
<1> DEFINE n == Len(bytes)
<1>5. last - pos + 1 = n /\ (IF pos <= last THEN last - pos + 1 ELSE 0) = n
    BY <1>1, SMT
<1> HIDE DEF last
<1>6. /\ part \in Seq(Byte)
      /\ Len(part) = IF pos <= last THEN last - pos + 1 ELSE 0
      /\ \A i \in 1 .. last - pos + 1 : part[i] = b[pos + i - 1]
    BY <1>1, <1>4, SubSeqProperties
<1>7. Len(part) = Len(bytes) /\ \A i \in 1 .. Len(bytes) : part[i] = bytes[i]
    BY <1>3, <1>5, <1>6
<1> HIDE DEF part
<1>8. part = bytes
    BY <1>6, <1>7, SeqEqual
<1>9. QED
    BY <1>2, <1>8

\* A field of so many bytes.
Whole(num, wire, from, size) ==
    [ok |-> TRUE, num |-> num, wire |-> wire, value |-> 0, from |-> from, next |-> from + size]

LEMMA TakeWhole ==
    ASSUME NEW b \in Seq(Byte), NEW num, NEW wire, NEW from \in Nat \ {0}, NEW size \in Nat,
           from + size <= Len(b) + 1
    PROVE  Take(b, num, wire, from, size) = Whole(num, wire, from, size)
<1>1. ~(size > Len(b) + 1 - from)
    BY SMT
<1>2. QED
    BY <1>1 DEF Take, Whole

LEMMA TakeHalf ==
    ASSUME NEW b \in Seq(Byte), NEW num, NEW wire, NEW from \in Nat \ {0}, NEW size \in Nat,
           Len(b) + 1 < from + size
    PROVE  Take(b, num, wire, from, size) = Malformed
<1>1. size > Len(b) + 1 - from
    BY SMT
<1>2. QED
    BY <1>1 DEF Take

LEMMA TagNumbers ==
    ASSUME NEW num \in Nat, NEW wire \in {0, 1, 2, 5}, NEW small \in Nat, NEW large \in Nat,
           8 * num + 7 < small, small <= large
    PROVE  /\ 8 * num + wire \in Nat /\ 8 * num + wire < large
           /\ (8 * num + wire) \div 8 = num /\ (8 * num + wire) % 8 = wire
BY SMT

LEMMA EightBytes ==
    ASSUME NEW value \in Nat
    PROVE  Len(FourBytes(value) \o FourBytes(0)) = 8
<1> DEFINE s == FourBytes(value)
           t == FourBytes(0)
<1>1. s \in Seq(Byte) /\ Len(s) = 4 /\ t \in Seq(Byte) /\ Len(t) = 4
    BY FourBytesAreBytes
<1> HIDE DEF s, t
<1>2. Len(s \o t) = Len(s) + Len(t)
    BY <1>1, ConcatProperties
<1>3. Len(s \o t) = 8
    BY <1>1, <1>2
<1>4. QED
    BY <1>3 DEF s, t

\* What FieldOf comes to for the four wire types.
LEMMA FieldOfTypes ==
    ASSUME NEW b, NEW num, num # 0, NEW from
    PROVE  /\ FieldOf(b, num, 5, from) = Take(b, num, 5, from, 4)
           /\ FieldOf(b, num, 1, from) = Take(b, num, 1, from, 8)
           /\ FieldOf(b, num, 2, from) =
                  IF ~ReadVarint(b, from).ok THEN Malformed
                  ELSE Take(b, num, 2, ReadVarint(b, from).next, ReadVarint(b, from).value)
           /\ FieldOf(b, num, 0, from) =
                  IF ~ReadVarint(b, from).ok THEN Malformed
                  ELSE [ok |-> TRUE, num |-> num, wire |-> 0, value |-> ReadVarint(b, from).value,
                        from |-> from, next |-> ReadVarint(b, from).next]
<1>1. /\ 5 \in {WIRE_VARINT, WIRE_FIXED64, WIRE_LEN, WIRE_FIXED32}
      /\ 1 \in {WIRE_VARINT, WIRE_FIXED64, WIRE_LEN, WIRE_FIXED32}
      /\ 2 \in {WIRE_VARINT, WIRE_FIXED64, WIRE_LEN, WIRE_FIXED32}
      /\ 0 \in {WIRE_VARINT, WIRE_FIXED64, WIRE_LEN, WIRE_FIXED32}
      /\ 5 \in {WIRE_FIXED32, WIRE_FIXED64} /\ 1 \in {WIRE_FIXED32, WIRE_FIXED64}
      /\ 2 \notin {WIRE_FIXED32, WIRE_FIXED64} /\ 0 \notin {WIRE_FIXED32, WIRE_FIXED64}
      /\ 2 = WIRE_LEN /\ 0 # WIRE_LEN
      /\ FixedSize(5) = 4 /\ FixedSize(1) = 8
    BY WireTypes DEF FixedSize
<1>2. /\ FieldOf(b, num, 5, from) = Take(b, num, 5, from, 4)
      /\ FieldOf(b, num, 1, from) = Take(b, num, 1, from, 8)
    BY <1>1 DEF FieldOf
<1>3. FieldOf(b, num, 2, from) =
          IF ~ReadVarint(b, from).ok THEN Malformed
          ELSE Take(b, num, 2, ReadVarint(b, from).next, ReadVarint(b, from).value)
    BY <1>1 DEF FieldOf
<1>4. FieldOf(b, num, 0, from) =
          IF ~ReadVarint(b, from).ok THEN Malformed
          ELSE [ok |-> TRUE, num |-> num, wire |-> 0, value |-> ReadVarint(b, from).value,
                from |-> from, next |-> ReadVarint(b, from).next]
    BY <1>1 DEF FieldOf
<1>5. QED
    BY <1>2, <1>3, <1>4

-----------------------------------------------------------------------------
(* The walk over a buffer *)

\* The fields there are in some bytes, wherever one looks.
FieldsIn(b) == {Field(b, pos) : pos \in {p \in 1 .. Len(b) : Field(b, p).ok}}
Walks(b)    == [ok : BOOLEAN, fields : Seq(FieldsIn(b))]

\* What the walk finds from each place on.
Rest(rest, b) ==
    [pos \in 1 .. Len(b) + 1 |->
        IF pos = Len(b) + 1 THEN [ok |-> TRUE, fields |-> <<>>]
        ELSE IF Field(b, pos).ok THEN Prepended(Field(b, pos), rest[Field(b, pos).next])
                                 ELSE [ok |-> FALSE, fields |-> <<>>]]

LEMMA PrependedWalk ==
    ASSUME NEW b, NEW field \in FieldsIn(b), NEW walk \in Walks(b)
    PROVE  /\ Prepended(field, walk) \in Walks(b)
           /\ Prepended(field, walk).ok = walk.ok
           /\ Prepended(field, walk).fields = <<field>> \o walk.fields
<1>1. walk = [ok |-> walk.ok, fields |-> walk.fields] /\ walk.ok \in BOOLEAN /\ walk.fields \in Seq(FieldsIn(b))
    BY DEF Walks
<1>2. <<field>> \o walk.fields \in Seq(FieldsIn(b))
    BY <1>1
<1>3. Prepended(field, walk) = [ok |-> walk.ok, fields |-> <<field>> \o walk.fields]
    <2> DEFINE ok == walk.ok
               fs == walk.fields
               longer == <<field>> \o fs
    <2>1. walk = [ok |-> ok, fields |-> fs] /\ fs = walk.fields
        BY <1>1
    <2>2. Prepended(field, walk) = [walk EXCEPT !.fields = longer]
        BY DEF Prepended
    <2> HIDE DEF longer, ok, fs
    <2>3. Prepended(field, walk) = [ok |-> ok, fields |-> longer]
        BY <2>1, <2>2
    <2>4. QED
        BY <2>3 DEF longer, ok, fs
<1>4. QED
    BY <1>1, <1>2, <1>3 DEF Walks

LEMMA StoppedWalk ==
    ASSUME NEW b, NEW ok \in BOOLEAN
    PROVE  [ok |-> ok, fields |-> <<>>] \in Walks(b)
<1>1. <<>> \in Seq(FieldsIn(b))
    OBVIOUS
<1>2. QED
    BY <1>1 DEF Walks

LEMMA NextField ==
    ASSUME NEW b \in Seq(Byte), NEW pos \in 1 .. Len(b), Field(b, pos).ok
    PROVE  Field(b, pos) \in FieldsIn(b) /\ Field(b, pos).next \in pos + 1 .. Len(b) + 1
<1>1. /\ Field(b, pos).from \in pos + 1 .. Len(b) + 1
      /\ Field(b, pos).next \in Field(b, pos).from .. Len(b) + 1
    BY FieldInside DEF IsInside
<1> DEFINE from == Field(b, pos).from
           next == Field(b, pos).next
<1>2. from \in pos + 1 .. Len(b) + 1 /\ next \in from .. Len(b) + 1
    BY <1>1
<1> HIDE DEF from, next
<1>3. next \in pos + 1 .. Len(b) + 1
    BY <1>2, SMT
<1>4. QED
    BY <1>3 DEF FieldsIn, next

LEMMA RestExists ==
    ASSUME NEW b \in Seq(Byte)
    PROVE  \E rest : rest = Rest(rest, b)
<1> DEFINE N      == Len(b) + 1
           T      == Walks(b)
           Base   == {n \in Nat : n = 0 \/ n >= N \/ ~Field(b, N - n).ok}
           start  == [n \in Nat |-> [ok |-> n = 0, fields |-> <<>>]]
           before == [n \in Nat |-> N - Field(b, N - n).next]
           step   == [x \in Nat \X T |-> Prepended(Field(b, N - x[1]), x[2])]
<1>1. N \in Nat /\ Len(b) \in Nat
    BY SMT
<1>2. ASSUME NEW n \in Nat \ Base
      PROVE  /\ N - n \in 1 .. Len(b) /\ Field(b, N - n).ok
             /\ before[n] \in Nat /\ before[n] < n
    <2>1. n # 0 /\ ~(n >= N) /\ Field(b, N - n).ok
        OBVIOUS
    <2>2. N - n \in 1 .. Len(b)
        BY <1>1, <2>1, SMT
    <2> DEFINE next == Field(b, N - n).next
    <2>3. next \in (N - n) + 1 .. Len(b) + 1
        BY <2>1, <2>2, NextField
    <2>4. before[n] = N - next
        OBVIOUS
    <2> HIDE DEF next, before
    <2>5. before[n] \in Nat /\ before[n] < n
        BY <1>1, <2>2, <2>3, <2>4, SMT
    <2>6. QED
        BY <2>1, <2>2, <2>5
<1>3. \A n \in Nat : n \in Base => start[n] \in T
    <2> SUFFICES ASSUME NEW n \in Nat PROVE start[n] \in T
        OBVIOUS
    <2>1. (n = 0) \in BOOLEAN
        OBVIOUS
    <2>2. [ok |-> n = 0, fields |-> <<>>] \in Walks(b)
        BY <2>1, StoppedWalk
    <2>3. QED
        BY <2>2
<1>4. \A n \in Nat, x \in T : n \notin Base => step[<<n, x>>] \in T
    <2> SUFFICES ASSUME NEW n \in Nat, NEW x \in T, n \notin Base PROVE step[<<n, x>>] \in T
        OBVIOUS
    <2>1. Field(b, N - n) \in FieldsIn(b)
        BY <1>2, NextField
    <2>2. Prepended(Field(b, N - n), x) \in T
        BY <2>1, PrependedWalk
    <2>3. QED
        BY <2>2
<1>5. \A n \in Nat \ Base : before[n] \in Nat /\ before[n] < n
    BY <1>2
<1>6. \E f \in [Nat -> T] : f = Unfolded(f, Nat, Base, start, before, step)
    <2> HIDE DEF Base, start, before, step, T
    <2>1. QED
        BY <1>3, <1>4, <1>5, TypedRecursion
<1>7. PICK f \in [Nat -> T] : f = Unfolded(f, Nat, Base, start, before, step)
    BY <1>6
<1>8. ASSUME NEW n \in Nat
      PROVE  f[n] = IF n \in Base THEN start[n] ELSE step[<<n, f[before[n]]>>]
    BY <1>7, Zenon DEF Unfolded
<1> DEFINE rest == [pos \in 1 .. Len(b) + 1 |-> f[N - pos]]
<1>9. ASSUME NEW pos \in 1 .. Len(b) + 1
      PROVE  rest[pos] = IF pos = Len(b) + 1 THEN [ok |-> TRUE, fields |-> <<>>]
                         ELSE IF Field(b, pos).ok THEN Prepended(Field(b, pos), rest[Field(b, pos).next])
                         ELSE [ok |-> FALSE, fields |-> <<>>]
    <2> DEFINE n == N - pos
    <2>1. n \in Nat /\ N - n = pos /\ ~(n >= N) /\ (n = 0 <=> pos = Len(b) + 1)
        BY <1>1, SMT
    <2>2. rest[pos] = f[n]
        OBVIOUS
    <2> HIDE DEF n
    <2>3. CASE pos = Len(b) + 1
        <3>1. n \in Base /\ start[n] = [ok |-> TRUE, fields |-> <<>>]
            BY <2>1, <2>3
        <3>2. QED
            BY <1>8, <2>1, <2>2, <2>3, <3>1
    <2>4. CASE pos # Len(b) + 1 /\ ~Field(b, pos).ok
        <3>1. n \in Base /\ start[n] = [ok |-> FALSE, fields |-> <<>>]
            BY <2>1, <2>4
        <3>2. QED
            BY <1>8, <2>1, <2>2, <2>4, <3>1
    <2>5. CASE pos # Len(b) + 1 /\ Field(b, pos).ok
        <3>1. n \notin Base
            BY <2>1, <2>5
        <3>2. before[n] = N - Field(b, pos).next /\ before[n] \in Nat
            BY <1>2, <2>1, <3>1
        <3>3. pos \in 1 .. Len(b)
            BY <2>5, SMT
        <3>4. Field(b, pos).next \in 1 .. Len(b) + 1
            <4> DEFINE next == Field(b, pos).next
            <4>1. next \in pos + 1 .. Len(b) + 1
                BY <2>5, <3>3, NextField
            <4> HIDE DEF next
            <4>2. next \in 1 .. Len(b) + 1
                BY <4>1, SMT
            <4>3. QED
                BY <4>2 DEF next
        <3>5. rest[Field(b, pos).next] = f[before[n]]
            BY <3>2, <3>4
        <3>6. f[before[n]] \in T
            BY <3>2
        <3>7. step[<<n, f[before[n]]>>] = Prepended(Field(b, pos), f[before[n]])
            BY <2>1, <3>6
        <3>8. f[n] = step[<<n, f[before[n]]>>]
            BY <1>8, <2>1, <3>1
        <3>9. QED
            BY <2>2, <2>5, <3>5, <3>7, <3>8
    <2>6. QED
        BY <2>3, <2>4, <2>5
<1>10. rest = [pos \in 1 .. Len(b) + 1 |-> rest[pos]]
    OBVIOUS
<1> HIDE DEF rest
<1>11. rest = Rest(rest, b)
    BY <1>9, <1>10 DEF Rest
<1>12. QED
    BY <1>11

\* The walk, place by place.
LEMMA WalkUnfolds ==
    ASSUME NEW b \in Seq(Byte)
    PROVE  \E rest \in [1 .. Len(b) + 1 -> Walks(b)] :
               /\ Walk(b) = rest[1]
               /\ rest[Len(b) + 1] = [ok |-> TRUE, fields |-> <<>>]
               /\ \A pos \in 1 .. Len(b) :
                      IF Field(b, pos).ok
                      THEN /\ Field(b, pos).next \in pos + 1 .. Len(b) + 1
                           /\ rest[pos].ok = rest[Field(b, pos).next].ok
                           /\ rest[pos].fields = <<Field(b, pos)>> \o rest[Field(b, pos).next].fields
                      ELSE rest[pos] = [ok |-> FALSE, fields |-> <<>>]
<1> DEFINE rest == CHOOSE g : g = Rest(g, b)
           N    == Len(b) + 1
<1>1. rest = Rest(rest, b)
    BY RestExists
<1>2. Walk(b) = rest[1]
    BY DEF Walk, Rest
<1> HIDE DEF rest
<1>3. Len(b) \in Nat /\ N \in Nat /\ N \in 1 .. N /\ \A pos \in 1 .. Len(b) : pos \in 1 .. N /\ pos # N
    BY SMT
<1>4. rest[N] = [ok |-> TRUE, fields |-> <<>>]
    BY <1>1, <1>3 DEF Rest
<1>5. ASSUME NEW pos \in 1 .. Len(b)
      PROVE  rest[pos] = IF Field(b, pos).ok THEN Prepended(Field(b, pos), rest[Field(b, pos).next])
                         ELSE [ok |-> FALSE, fields |-> <<>>]
    BY <1>1, <1>3 DEF Rest
<1> DEFINE S == {n \in Nat : n < N => rest[N - n] \in Walks(b)}
<1>6. ASSUME NEW n \in Nat, \A m \in Nat : m < n => m \in S PROVE n \in S
    <2> SUFFICES ASSUME n < N PROVE rest[N - n] \in Walks(b)
        OBVIOUS
    <2>1. CASE n = 0
        <3>1. N - n = N
            BY <1>3, <2>1
        <3>2. rest[N] \in Walks(b)
            BY <1>4, StoppedWalk
        <3>3. QED
            BY <3>1, <3>2
    <2>2. CASE n # 0
        <3> DEFINE pos  == N - n
                   next == Field(b, pos).next
        <3>1. pos \in 1 .. Len(b)
            BY <1>3, <2>2, SMT
        <3>2. CASE ~Field(b, pos).ok
            <4>1. rest[pos] = [ok |-> FALSE, fields |-> <<>>]
                BY <1>5, <3>1, <3>2
            <4>2. QED
                BY <4>1, StoppedWalk
        <3>3. CASE Field(b, pos).ok
            <4>1. Field(b, pos) \in FieldsIn(b) /\ next \in pos + 1 .. Len(b) + 1
                BY <3>1, <3>3, NextField
            <4>2. rest[pos] = Prepended(Field(b, pos), rest[next])
                BY <1>5, <3>1, <3>3
            <4> HIDE DEF next
            <4>3. N - next \in Nat /\ N - next < n /\ N - next < N /\ N - (N - next) = next
                BY <1>3, <3>1, <4>1, SMT
            <4>4. rest[next] \in Walks(b)
                BY <1>6, <4>3
            <4>5. QED
                BY <4>1, <4>2, <4>4, PrependedWalk
        <3>4. QED
            BY <3>2, <3>3
    <2>3. QED
        BY <2>1, <2>2
<1> HIDE DEF S
<1>7. \A n \in Nat : n \in S
    BY <1>6, StrongInduction
<1>8. ASSUME NEW pos \in 1 .. Len(b) + 1 PROVE rest[pos] \in Walks(b)
    <2>1. N - pos \in Nat /\ N - pos < N /\ N - (N - pos) = pos
        BY <1>3, SMT
    <2>2. QED
        BY <1>7, <2>1 DEF S
<1>9. rest \in [1 .. Len(b) + 1 -> Walks(b)]
    <2>1. rest = [pos \in 1 .. Len(b) + 1 |-> rest[pos]]
        BY <1>1, Zenon DEF Rest
    <2>2. QED
        BY <1>8, <2>1
<1>10. ASSUME NEW pos \in 1 .. Len(b), Field(b, pos).ok
       PROVE  /\ Field(b, pos).next \in pos + 1 .. Len(b) + 1
              /\ rest[pos].ok = rest[Field(b, pos).next].ok
              /\ rest[pos].fields = <<Field(b, pos)>> \o rest[Field(b, pos).next].fields
    <2> DEFINE field == Field(b, pos)
    <2>1. field \in FieldsIn(b) /\ field.next \in pos + 1 .. Len(b) + 1
        BY <1>10, NextField
    <2>2. rest[pos] = Prepended(field, rest[field.next])
        BY <1>5, <1>10
    <2> HIDE DEF field
    <2>3. field.next \in 1 .. Len(b) + 1
        <3> DEFINE next == field.next
        <3>1. next \in pos + 1 .. Len(b) + 1
            BY <2>1
        <3> HIDE DEF next
        <3>2. next \in 1 .. Len(b) + 1
            BY <3>1, SMT
        <3>3. QED
            BY <3>2 DEF next
    <2>4. rest[field.next] \in Walks(b)
        BY <1>8, <2>3
    <2> DEFINE walk == rest[field.next]
    <2>5. walk \in Walks(b) /\ rest[pos] = Prepended(field, walk)
        BY <2>2, <2>4
    <2> HIDE DEF walk
    <2>6. rest[pos].ok = walk.ok /\ rest[pos].fields = <<field>> \o walk.fields
        BY <2>1, <2>5, PrependedWalk
    <2>7. QED
        BY <2>1, <2>6 DEF field, walk
<1>11. QED
    BY <1>2, <1>4, <1>5, <1>9, <1>10

-----------------------------------------------------------------------------

(* Whatever the bytes are, each field the walk comes to lies inside them,  *)
(* behind where it was looked for: no decoder reads past its buffer, and   *)
(* none takes the same bytes twice (mesh_data.c:47, phone_encode.c:183).   *)
THEOREM WalkStaysInside ==
    ASSUME NEW b \in Seq(Byte)
    PROVE  /\ Walk(b).ok \in BOOLEAN
           /\ Walk(b).fields \in Seq(FieldsIn(b))
           /\ \A field \in FieldsIn(b) :
                  /\ field.from \in 2 .. Len(b) + 1
                  /\ field.next \in field.from .. Len(b) + 1
                  /\ field.num # 0
<1>1. Walk(b) \in Walks(b)
    <2>1. 1 \in 1 .. Len(b) + 1
        BY SMT
    <2>2. PICK rest \in [1 .. Len(b) + 1 -> Walks(b)] : Walk(b) = rest[1]
        BY WalkUnfolds
    <2>3. QED
        BY <2>1, <2>2
<1>2. ASSUME NEW pos \in 1 .. Len(b), Field(b, pos).ok
      PROVE  /\ Field(b, pos).from \in 2 .. Len(b) + 1
             /\ Field(b, pos).next \in Field(b, pos).from .. Len(b) + 1
             /\ Field(b, pos).num # 0
    <2> DEFINE from == Field(b, pos).from
    <2>1. /\ from \in pos + 1 .. Len(b) + 1
          /\ Field(b, pos).next \in from .. Len(b) + 1
          /\ Field(b, pos).num # 0
        BY <1>2, FieldInside DEF IsInside
    <2> HIDE DEF from
    <2>2. from \in 2 .. Len(b) + 1
        BY <2>1, SMT
    <2>3. QED
        BY <2>1, <2>2 DEF from
<1>3. QED
    BY <1>1, <1>2 DEF Walks, FieldsIn

-----------------------------------------------------------------------------
(* Four bytes *)

LEMMA FourBytesValue ==
    ASSUME NEW v \in Nat, v \div 65536 < 65536
    PROVE  FourByteValue(FourBytes(v)) = v
<1>1. FourByteValue(FourBytes(v)) =
          (v % 256) + 256 * (((v \div 256) % 256) + 256 * (((v \div 65536) % 256) + 256 * ((v \div 16777216) % 256)))
    BY DEF FourByteValue, FourBytes
<1>2. (v % 256) + 256 * (((v \div 256) % 256) + 256 * (((v \div 65536) % 256) + 256 * ((v \div 16777216) % 256))) = v
    BY SMT
<1>3. QED
    BY <1>1, <1>2

=============================================================================
