--------------------------- MODULE Arithmetic_proofs ---------------------------
(***************************************************************************)
(* What the proofs about devices and sensors need to know of numbers:      *)
(* quotients and remainders, loops that end, folds over sequences, and the *)
(* bits of a byte and its fields.                                          *)
(***************************************************************************)
EXTENDS Integers, WellFoundedInduction, TLAPS

(* Quotient and remainder are the only ones.                               *)
LEMMA IntDivMod ==
  ASSUME NEW n \in Nat, NEW q \in Int, NEW r \in Nat, r < n, NEW x, x = q * n + r
  PROVE  x \div n = q /\ x % n = r
  <1> DEFINE d == x \div n
             m == x % n
  <1>1. q * n \in Int /\ x \in Int /\ n > 0
    OBVIOUS
  <1>2. d \in Int /\ m \in Nat /\ m < n /\ x = d * n + m
    BY <1>1
  <1>3. x = q * n + r
    OBVIOUS
  <1> HIDE DEF d, m
  <1>4. \A a \in Int, b \in Nat : (a + 1 + b) * n = a * n + n + b * n /\ b * n \in Nat /\ a * n \in Int
    OBVIOUS
  <1>5. CASE q < d
    <2>1. PICK e \in Nat : d = q + 1 + e
      BY <1>2, <1>5
    <2>2. d * n = q * n + n + e * n /\ e * n \in Nat
      BY <1>4, <2>1
    <2> QED
      BY <1>1, <1>2, <1>3, <2>2
  <1>6. CASE d < q
    <2>1. PICK e \in Nat : q = d + 1 + e
      BY <1>2, <1>6
    <2>2. q * n = d * n + n + e * n /\ e * n \in Nat /\ d * n \in Int
      BY <1>2, <1>4, <2>1
    <2> QED
      BY <1>1, <1>2, <1>3, <2>2
  <1>7. CASE d = q
    BY <1>1, <1>2, <1>3, <1>7 DEF d, m
  <1> QED
    BY <1>2, <1>5, <1>6, <1>7

LEMMA DivMod ==
  ASSUME NEW n \in Nat, NEW q \in Nat, NEW r \in Nat, r < n
  PROVE  (q * n + r) \div n = q /\ (q * n + r) % n = r
  BY IntDivMod

LEMMA SmallMod ==
  ASSUME NEW n \in Nat, NEW z \in Nat, z < n
  PROVE  z % n = z
  <1>1. z = 0 * n + z /\ 0 \in Int
    OBVIOUS
  <1> QED
    BY <1>1, IntDivMod

LEMMA DivIs ==
  ASSUME NEW n \in Nat, n > 0, NEW v \in Nat
  PROVE  /\ v \div n \in Nat /\ v % n \in Nat /\ v % n < n
         /\ v = (v \div n) * n + (v % n)
  OBVIOUS

(* The years since the epoch.                                              *)

-------------------------------------------------------------------------------
(***************************************************************************)
(* Loops: what the recursive functions of the dates stand for.  A set of    *)
(* numbers that holds 0 and with a number the next holds all of them; and a *)
(* loop that leaves less to do with each of its steps ends.                 *)
(***************************************************************************)
LEMMA NatSetInduction ==
  ASSUME NEW S, 0 \in S, \A n \in Nat : n \in S => n + 1 \in S
  PROVE  \A n \in Nat : n \in S
  <1> DEFINE R == {s \in Nat \X Nat : s[1] < s[2]}
             T == Nat \ S
  <1> SUFFICES ASSUME T # {} PROVE FALSE
    OBVIOUS
  <1>1. IsWellFoundedOn(R, Nat)
    BY NatLessThanWellFounded DEF OpToRel
  <1>2. \A x, y \in Nat : x < y => <<x, y>> \in R
    OBVIOUS
  <1> HIDE DEF R
  <1>3. PICK x \in T : \A y \in T : ~(<<y, x>> \in R)
    <2>1. T \subseteq Nat
      OBVIOUS
    <2> HIDE DEF T
    <2> QED
      BY <1>1, <2>1, WFMin
  <1>4. x # 0 /\ x - 1 \in Nat /\ x - 1 < x
    OBVIOUS
  <1>5. x - 1 \notin T
    BY <1>2, <1>3, <1>4
  <1> QED
    BY <1>3, <1>4, <1>5

(* A loop takes steps as long as there are more, and each leaves less to do; *)
(* f gives where it ends.                                                  *)
Descends(X, more, step, left) == \A x \in X : x \in more => left[step[x]] < left[x]
Ends(X, more, step, f) == \A x \in X : f[x] = IF x \in more THEN f[step[x]] ELSE x

LEMMA LoopDefined ==
  ASSUME NEW X, NEW more, NEW step, step \in [X -> X], NEW left, left \in [X -> Nat],
         Descends(X, more, step, left)
  PROVE  \E f \in [X -> X] : Ends(X, more, step, f)
  <1> DEFINE Closed(H) == /\ H \subseteq X \X X
                          /\ \A x \in X : x \notin more => <<x, x>> \in H
                          /\ \A x, v \in X : x \in more /\ <<step[x], v>> \in H => <<x, v>> \in H
             G == {p \in X \X X : \A H : Closed(H) => p \in H}
  <1>1. Closed(G)
    OBVIOUS
  <1>2. ASSUME NEW x \in X, NEW v \in X, <<x, v>> \in G
        PROVE  IF x \in more THEN <<step[x], v>> \in G ELSE v = x
    <2> SUFFICES ASSUME ~(IF x \in more THEN <<step[x], v>> \in G ELSE v = x) PROVE FALSE
      OBVIOUS
    <2>1. Closed(G \ {<<x, v>>})
      <3> HIDE DEF G
      <3>1. G \ {<<x, v>>} \subseteq X \X X
        BY <1>1
      <3>2. ASSUME NEW y \in X, y \notin more PROVE <<y, y>> \in G \ {<<x, v>>}
        BY <1>1, <3>2
      <3>3. ASSUME NEW y \in X, NEW w \in X, y \in more, <<step[y], w>> \in G \ {<<x, v>>}
            PROVE  <<y, w>> \in G \ {<<x, v>>}
        <4>1. <<y, w>> \in G
          BY <1>1, <3>3
        <4>2. ~(y = x /\ w = v)
          BY <3>3
        <4> QED
          BY <4>1, <4>2
      <3> QED
        BY <3>1, <3>2, <3>3
    <2> QED
      BY <1>2, <2>1
  <1> DEFINE One(x) == \E v \in X : \A w \in X : <<x, w>> \in G <=> w = v
             S == {n \in Nat : \A x \in X : left[x] <= n => One(x)}
  <1>3. ASSUME NEW x \in X, x \in more => One(step[x]) PROVE One(x)
    <2>1. CASE x \notin more
      <3>1. \A w \in X : <<x, w>> \in G <=> w = x
        BY <1>1, <1>2, <2>1
      <3> QED
        BY <3>1
    <2>2. CASE x \in more
      <3> HIDE DEF G
      <3>1. PICK v \in X : \A w \in X : <<step[x], w>> \in G <=> w = v
        BY <1>3, <2>2
      <3>2. \A w \in X : <<x, w>> \in G <=> w = v
        BY <1>1, <1>2, <2>2, <3>1
      <3> QED
        BY <3>2
    <2> QED
      BY <2>1, <2>2
  <1> HIDE DEF G, One
  <1>4. \A n \in Nat : n \in S
    <2>1. 0 \in S
      BY <1>3 DEF Descends
    <2>2. ASSUME NEW n \in Nat, n \in S PROVE n + 1 \in S
      <3> SUFFICES ASSUME NEW x \in X, left[x] <= n + 1 PROVE One(x)
        OBVIOUS
      <3>1. x \in more => step[x] \in X /\ left[step[x]] <= n
        BY DEF Descends
      <3> QED
        BY <1>3, <2>2, <3>1
    <2> HIDE DEF S
    <2> QED
      BY <2>1, <2>2, NatSetInduction
  <1>5. \A x \in X : One(x)
    BY <1>4
  <1> DEFINE f == [x \in X |-> CHOOSE v \in X : <<x, v>> \in G]
  <1>6. ASSUME NEW x \in X PROVE f[x] \in X /\ \A w \in X : <<x, w>> \in G <=> w = f[x]
    BY <1>5 DEF One
  <1>7. ASSUME NEW x \in X PROVE f[x] = IF x \in more THEN f[step[x]] ELSE x
    <2> HIDE DEF f
    <2> QED
      BY <1>2, <1>6
  <1>8. f \in [X -> X]
    BY <1>6
  <1> HIDE DEF f
  <1>9. Ends(X, more, step, f)
    BY <1>7 DEF Ends
  <1> QED
    BY <1>8, <1>9

-------------------------------------------------------------------------------
(***************************************************************************)
(* Folds over sequences.                                                    *)
(***************************************************************************)
(* A fold over a sequence of n elements defines its value on every set of    *)
(* their positions, from the last position down.                            *)
Top(s) == CHOOSE x \in s : \A y \in s : x >= y
Folds(n, base, g, iter) ==
  \A s \in SUBSET (1..n) :
     iter[s] = IF s = {} THEN base ELSE g[<<Top(s), iter[s \ {Top(s)}]>>]

LEMMA TopIs ==
  ASSUME NEW n \in Nat, NEW s \in SUBSET (1..n), NEW m \in s, \A y \in s : m >= y
  PROVE  Top(s) = m
  <1>1. Top(s) \in s /\ \A y \in s : Top(s) >= y
    BY DEF Top
  <1>2. Top(s) \in 1..n /\ m \in 1..n
    BY <1>1
  <1> QED
    BY <1>1, <1>2

LEMMA TopIn ==
  ASSUME NEW n \in Nat, NEW s \in SUBSET (1..n), s # {}
  PROVE  Top(s) \in s /\ \A y \in s : Top(s) >= y
  <1> DEFINE Bounded(m) == (\A y \in s : m >= y) => \E x \in s : \A y \in s : x >= y
             S == {m \in Nat : Bounded(m)}
  <1>1. Bounded(0)
    <2>1. PICK x \in s : x \in 1..n
      OBVIOUS
    <2> QED
      BY <2>1
  <1>2. ASSUME NEW m \in Nat, Bounded(m) PROVE Bounded(m + 1)
    <2> SUFFICES ASSUME \A y \in s : m + 1 >= y PROVE \E x \in s : \A y \in s : x >= y
      OBVIOUS
    <2>1. CASE m + 1 \in s
      BY <2>1
    <2>2. CASE m + 1 \notin s
      <3>1. ASSUME NEW y \in s PROVE m >= y
        <4>1. y \in Nat /\ y # m + 1 /\ m + 1 >= y
          BY <2>2
        <4> QED
          BY <4>1
      <3> QED
        BY <1>2, <3>1
    <2> QED
      BY <2>1, <2>2
  <1> HIDE DEF Bounded
  <1>3. 0 \in S /\ \A m \in Nat : m \in S => m + 1 \in S
    BY <1>1, <1>2
  <1> HIDE DEF S
  <1>4. n \in S
    BY <1>3, NatSetInduction
  <1> USE DEF S, Bounded
  <1>5. \A y \in s : n >= y
    OBVIOUS
  <1>6. PICK x \in s : \A y \in s : x >= y
    BY <1>4, <1>5
  <1> QED
    BY <1>6 DEF Top

LEMMA FoldDefined ==
  ASSUME NEW n \in Nat, NEW V, NEW base \in V, NEW g \in [(1..n) \X V -> V]
  PROVE  \E iter \in [SUBSET (1..n) -> V] : Folds(n, base, g, iter)
  <1> DEFINE Up(m) == m <= n => \E iter \in [SUBSET (1..m) -> V] : Folds(m, base, g, iter)
             S == {m \in Nat : Up(m)}
  <1>1. Up(0)
    <2> DEFINE it == [s \in SUBSET (1..0) |-> base]
    <2>1. it \in [SUBSET (1..0) -> V]
      OBVIOUS
    <2>2. Folds(0, base, g, it)
      <3> SUFFICES ASSUME NEW s \in SUBSET (1..0) PROVE it[s] = base /\ s = {}
        BY DEF Folds
      <3> QED
        OBVIOUS
    <2> QED
      BY <2>1, <2>2
  <1>2. ASSUME NEW m \in Nat, Up(m) PROVE Up(m + 1)
    <2> SUFFICES ASSUME m + 1 <= n
                 PROVE  \E iter \in [SUBSET (1..(m + 1)) -> V] : Folds(m + 1, base, g, iter)
      OBVIOUS
    <2>1. PICK old \in [SUBSET (1..m) -> V] : Folds(m, base, g, old)
      <3>1. m <= n
        OBVIOUS
      <3> QED
        BY <1>2, <3>1
    <2> DEFINE it == [s \in SUBSET (1..(m + 1)) |->
                         IF m + 1 \in s THEN g[<<m + 1, old[s \ {m + 1}]>>] ELSE old[s]]
    <2>2. \A s \in SUBSET (1..(m + 1)) :
             /\ s \ {m + 1} \in SUBSET (1..m)
             /\ m + 1 \notin s => s \in SUBSET (1..m)
      OBVIOUS
    <2>3. \A s \in SUBSET (1..m) : m + 1 \notin s /\ s \in SUBSET (1..(m + 1))
      OBVIOUS
    <2>4. it \in [SUBSET (1..(m + 1)) -> V]
      <3> SUFFICES ASSUME NEW s \in SUBSET (1..(m + 1)) PROVE it[s] \in V
        OBVIOUS
      <3>1. CASE m + 1 \in s
        <4>1. old[s \ {m + 1}] \in V
          BY <2>2
        <4>2. m + 1 \in 1..n
          OBVIOUS
        <4> QED
          BY <3>1, <4>1, <4>2
      <3>2. CASE m + 1 \notin s
        BY <2>2, <3>2
      <3> QED
        BY <3>1, <3>2
    <2>5. \A s \in SUBSET (1..m) : it[s] = old[s]
      BY <2>3
    <2>6. \A s \in SUBSET (1..(m + 1)) : m + 1 \in s => it[s] = g[<<m + 1, it[s \ {m + 1}]>>]
      BY <2>2, <2>5
    <2> HIDE DEF it
    <2>7. ASSUME NEW s \in SUBSET (1..(m + 1))
          PROVE  it[s] = IF s = {} THEN base ELSE g[<<Top(s), it[s \ {Top(s)}]>>]
      <3>1. CASE m + 1 \in s
        <4>1. Top(s) = m + 1
          <5>1. m + 1 \in Nat /\ \A y \in s : m + 1 >= y
            OBVIOUS
          <5> QED
            BY <3>1, <5>1, TopIs
        <4> QED
          BY <2>6, <3>1, <4>1
      <3>2. CASE m + 1 \notin s
        <4>1. s \in SUBSET (1..m)
          BY <2>2, <3>2
        <4>2. s \ {Top(s)} \in SUBSET (1..m)
          BY <4>1
        <4> QED
          BY <2>1, <2>5, <4>1, <4>2 DEF Folds
      <3> QED
        BY <3>1, <3>2
    <2> QED
      BY <2>4, <2>7 DEF Folds
  <1> HIDE DEF Up
  <1>3. 0 \in S /\ \A m \in Nat : m \in S => m + 1 \in S
    BY <1>1, <1>2
  <1> HIDE DEF S
  <1>4. n \in S
    BY <1>3, NatSetInduction
  <1> USE DEF S
  <1>5. Up(n)
    BY <1>4
  <1> USE DEF Up
  <1>6. n <= n
    OBVIOUS
  <1> QED
    BY <1>5, <1>6, Zenon

(* A loop that counts up to n: what it has made after each of its rounds.    *)
Counts(n, base, g, f) ==
  \A k \in 0..n : f[k] = IF k = 0 THEN base ELSE g[<<k, f[k - 1]>>]

LEMMA CountDefined ==
  ASSUME NEW n \in Nat, NEW V, NEW base \in V, NEW g \in [(1..n) \X V -> V]
  PROVE  \E f \in [0..n -> V] : Counts(n, base, g, f)
  <1>1. PICK iter \in [SUBSET (1..n) -> V] : Folds(n, base, g, iter)
    BY FoldDefined
  <1> DEFINE f == [k \in 0..n |-> iter[1..k]]
  <1>2. \A k \in 0..n : 1..k \in SUBSET (1..n)
    OBVIOUS
  <1>3. f \in [0..n -> V]
    BY <1>2
  <1>4. ASSUME NEW k \in 0..n PROVE f[k] = IF k = 0 THEN base ELSE g[<<k, f[k - 1]>>]
    <2>1. iter[1..k] = IF 1..k = {} THEN base ELSE g[<<Top(1..k), iter[(1..k) \ {Top(1..k)}]>>]
      BY <1>1, <1>2 DEF Folds
    <2>2. CASE k = 0
      BY <2>1, <2>2
    <2>3. CASE k # 0
      <3>1. k \in 1..k /\ \A y \in 1..k : k >= y
        BY <2>3
      <3>2. Top(1..k) = k
        BY <1>2, <3>1, TopIs
      <3>3. (1..k) \ {k} = 1..(k - 1) /\ k - 1 \in 0..n
        BY <2>3
      <3> QED
        BY <2>1, <2>3, <3>1, <3>2, <3>3
    <2> QED
      BY <2>2, <2>3
  <1> HIDE DEF f
  <1>5. Counts(n, base, g, f)
    BY <1>4 DEF Counts
  <1> QED
    BY <1>3, <1>5

-------------------------------------------------------------------------------
(***************************************************************************)
(* Bits.                                                                    *)
(***************************************************************************)
(* The powers of two that a byte needs, and a word's.                       *)
TwoTo(n) == 2^n

LEMMA PowersAre ==
  /\ TwoTo(0) = 1 /\ TwoTo(1) = 2 /\ TwoTo(2) = 4 /\ TwoTo(3) = 8 /\ TwoTo(4) = 16
  /\ TwoTo(5) = 32 /\ TwoTo(6) = 64 /\ TwoTo(7) = 128 /\ TwoTo(8) = 256 /\ TwoTo(9) = 512
  /\ TwoTo(10) = 1024 /\ TwoTo(11) = 2048 /\ TwoTo(12) = 4096
  /\ TwoTo(13) = 8192 /\ TwoTo(14) = 16384 /\ TwoTo(15) = 32768 /\ TwoTo(16) = 65536
  BY DEF TwoTo

LEMMA PowersPositive ==
  ASSUME NEW n \in 0..16 PROVE TwoTo(n) \in Nat /\ TwoTo(n) > 0
  <1>0. CASE n = 0
    BY <1>0, PowersAre
  <1>1. CASE n = 1
    BY <1>1, PowersAre
  <1>2. CASE n = 2
    BY <1>2, PowersAre
  <1>3. CASE n = 3
    BY <1>3, PowersAre
  <1>4. CASE n = 4
    BY <1>4, PowersAre
  <1>5. CASE n = 5
    BY <1>5, PowersAre
  <1>6. CASE n = 6
    BY <1>6, PowersAre
  <1>7. CASE n = 7
    BY <1>7, PowersAre
  <1>8. CASE n = 8
    BY <1>8, PowersAre
  <1>9. CASE n = 9
    BY <1>9, PowersAre
  <1>10. CASE n = 10
    BY <1>10, PowersAre
  <1>11. CASE n = 11
    BY <1>11, PowersAre
  <1>12. CASE n = 12
    BY <1>12, PowersAre
  <1>13. CASE n = 13
    BY <1>13, PowersAre
  <1>14. CASE n = 14
    BY <1>14, PowersAre
  <1>15. CASE n = 15
    BY <1>15, PowersAre
  <1>16. CASE n = 16
    BY <1>16, PowersAre
  <1> QED
    BY <1>0, <1>1, <1>2, <1>3, <1>4, <1>5, <1>6, <1>7, <1>8,
       <1>9, <1>10, <1>11, <1>12, <1>13, <1>14, <1>15, <1>16

LEMMA PowersMultiply ==
  ASSUME NEW m \in 0..8, NEW n \in 0..8, m + n <= 8
  PROVE  TwoTo(m + n) = TwoTo(m) * TwoTo(n)
  <1>0. CASE m = 0
    <2>0. CASE n = 0
      BY <1>0, <2>0, PowersAre
    <2>1. CASE n = 1
      BY <1>0, <2>1, PowersAre
    <2>2. CASE n = 2
      BY <1>0, <2>2, PowersAre
    <2>3. CASE n = 3
      BY <1>0, <2>3, PowersAre
    <2>4. CASE n = 4
      BY <1>0, <2>4, PowersAre
    <2>5. CASE n = 5
      BY <1>0, <2>5, PowersAre
    <2>6. CASE n = 6
      BY <1>0, <2>6, PowersAre
    <2>7. CASE n = 7
      BY <1>0, <2>7, PowersAre
    <2>8. CASE n = 8
      BY <1>0, <2>8, PowersAre
    <2> QED
      BY <1>0, <2>0, <2>1, <2>2, <2>3, <2>4, <2>5, <2>6, <2>7, <2>8
  <1>1. CASE m = 1
    <2>0. CASE n = 0
      BY <1>1, <2>0, PowersAre
    <2>1. CASE n = 1
      BY <1>1, <2>1, PowersAre
    <2>2. CASE n = 2
      BY <1>1, <2>2, PowersAre
    <2>3. CASE n = 3
      BY <1>1, <2>3, PowersAre
    <2>4. CASE n = 4
      BY <1>1, <2>4, PowersAre
    <2>5. CASE n = 5
      BY <1>1, <2>5, PowersAre
    <2>6. CASE n = 6
      BY <1>1, <2>6, PowersAre
    <2>7. CASE n = 7
      BY <1>1, <2>7, PowersAre
    <2> QED
      BY <1>1, <2>0, <2>1, <2>2, <2>3, <2>4, <2>5, <2>6, <2>7
  <1>2. CASE m = 2
    <2>0. CASE n = 0
      BY <1>2, <2>0, PowersAre
    <2>1. CASE n = 1
      BY <1>2, <2>1, PowersAre
    <2>2. CASE n = 2
      BY <1>2, <2>2, PowersAre
    <2>3. CASE n = 3
      BY <1>2, <2>3, PowersAre
    <2>4. CASE n = 4
      BY <1>2, <2>4, PowersAre
    <2>5. CASE n = 5
      BY <1>2, <2>5, PowersAre
    <2>6. CASE n = 6
      BY <1>2, <2>6, PowersAre
    <2> QED
      BY <1>2, <2>0, <2>1, <2>2, <2>3, <2>4, <2>5, <2>6
  <1>3. CASE m = 3
    <2>0. CASE n = 0
      BY <1>3, <2>0, PowersAre
    <2>1. CASE n = 1
      BY <1>3, <2>1, PowersAre
    <2>2. CASE n = 2
      BY <1>3, <2>2, PowersAre
    <2>3. CASE n = 3
      BY <1>3, <2>3, PowersAre
    <2>4. CASE n = 4
      BY <1>3, <2>4, PowersAre
    <2>5. CASE n = 5
      BY <1>3, <2>5, PowersAre
    <2> QED
      BY <1>3, <2>0, <2>1, <2>2, <2>3, <2>4, <2>5
  <1>4. CASE m = 4
    <2>0. CASE n = 0
      BY <1>4, <2>0, PowersAre
    <2>1. CASE n = 1
      BY <1>4, <2>1, PowersAre
    <2>2. CASE n = 2
      BY <1>4, <2>2, PowersAre
    <2>3. CASE n = 3
      BY <1>4, <2>3, PowersAre
    <2>4. CASE n = 4
      BY <1>4, <2>4, PowersAre
    <2> QED
      BY <1>4, <2>0, <2>1, <2>2, <2>3, <2>4
  <1>5. CASE m = 5
    <2>0. CASE n = 0
      BY <1>5, <2>0, PowersAre
    <2>1. CASE n = 1
      BY <1>5, <2>1, PowersAre
    <2>2. CASE n = 2
      BY <1>5, <2>2, PowersAre
    <2>3. CASE n = 3
      BY <1>5, <2>3, PowersAre
    <2> QED
      BY <1>5, <2>0, <2>1, <2>2, <2>3
  <1>6. CASE m = 6
    <2>0. CASE n = 0
      BY <1>6, <2>0, PowersAre
    <2>1. CASE n = 1
      BY <1>6, <2>1, PowersAre
    <2>2. CASE n = 2
      BY <1>6, <2>2, PowersAre
    <2> QED
      BY <1>6, <2>0, <2>1, <2>2
  <1>7. CASE m = 7
    <2>0. CASE n = 0
      BY <1>7, <2>0, PowersAre
    <2>1. CASE n = 1
      BY <1>7, <2>1, PowersAre
    <2> QED
      BY <1>7, <2>0, <2>1
  <1>8. CASE m = 8
    <2>0. CASE n = 0
      BY <1>8, <2>0, PowersAre
    <2> QED
      BY <1>8, <2>0
  <1> QED
    BY <1>0, <1>1, <1>2, <1>3, <1>4, <1>5, <1>6, <1>7, <1>8

LEMMA PowersAbove ==
  ASSUME NEW i \in 0..7, NEW n \in 0..8, i < n
  PROVE  \E M \in Nat : TwoTo(n) = M * (2 * TwoTo(i))
  <1>1. PICK d \in 0..8 : n = d + (i + 1)
    <2>1. n - (i + 1) \in 0..8
      OBVIOUS
    <2>2. n = (n - (i + 1)) + (i + 1)
      OBVIOUS
    <2> QED
      BY <2>1, <2>2
  <1>2. i + 1 \in 0..8 /\ d + (i + 1) <= 8 /\ i \in 0..8
    BY <1>1
  <1>3. TwoTo(n) = TwoTo(d) * TwoTo(i + 1)
    BY <1>1, <1>2, PowersMultiply
  <1>4. TwoTo(i + 1) = TwoTo(i) * TwoTo(1)
    BY <1>2, PowersMultiply
  <1>5. TwoTo(1) = 2
    BY PowersAre
  <1>6. TwoTo(d) \in Nat /\ TwoTo(i) \in Nat
    <2>1. d \in 0..16 /\ i \in 0..16
      OBVIOUS
    <2> QED
      BY <2>1, PowersPositive
  <1>7. TwoTo(i) * 2 = 2 * TwoTo(i)
    BY <1>6
  <1>8. TwoTo(n) = TwoTo(d) * (2 * TwoTo(i))
    BY <1>3, <1>4, <1>5, <1>7
  <1> QED
    BY <1>6, <1>8

LEMMA PowersWithin ==
  ASSUME NEW i \in 0..8, NEW n \in 0..8, n <= i
  PROVE  \E M \in Nat : M > 0 /\ TwoTo(i) = M * TwoTo(n)
  <1>1. PICK d \in 0..8 : i = d + n
    <2>1. i - n \in 0..8
      OBVIOUS
    <2>2. i = (i - n) + n
      OBVIOUS
    <2> QED
      BY <2>1, <2>2
  <1>2. TwoTo(i) = TwoTo(d) * TwoTo(n)
    BY <1>1, PowersMultiply
  <1>3. TwoTo(d) \in Nat /\ TwoTo(d) > 0
    <2>1. d \in 0..16
      OBVIOUS
    <2> QED
      BY <2>1, PowersPositive
  <1> QED
    BY <1>2, <1>3

LEMMA Distributes ==
  ASSUME NEW a \in Int, NEW b \in Int, NEW c \in Int, NEW d \in Int
  PROVE  (a * b + c) * d = a * (b * d) + c * d /\ (a - b) * c = a * c - b * c
  <1>1. (a * b + c) * d = a * (b * d) + c * d
    OBVIOUS
  <1>2. (a - b) * c = a * c - b * c
    OBVIOUS
  <1> QED
    BY <1>1, <1>2

LEMMA Divided ==
  ASSUME NEW n \in Nat, n > 0, NEW v \in Nat
  PROVE  \E q \in Nat, r \in Nat : q = v \div n /\ r = v % n /\ r < n /\ v = q * n + r
  BY DivIs

(* A digit and the digits below it.                                         *)
LEMMA Digits ==
  ASSUME NEW n \in Nat, NEW d \in Nat, NEW c \in Nat, c < n, NEW s \in Nat, s < d
  PROVE  c * d + s \in Nat /\ c * d + s < n * d
  <1>1. PICK e \in Nat : n = c + 1 + e
    <2>1. n = c + 1 + (n - c - 1) /\ n - c - 1 \in Nat
      OBVIOUS
    <2> QED
      BY <2>1
  <1>2. n * d = c * d + d + e * d
    BY <1>1
  <1>3. c * d \in Nat /\ e * d \in Nat
    OBVIOUS
  <1> QED
    BY <1>2, <1>3

LEMMA DivDiv ==
  ASSUME NEW d \in Nat, d > 0, NEW n \in Nat, n > 0, NEW b \in Nat
  PROVE  b \div (n * d) = (b \div d) \div n
  <1>1. PICK q \in Nat, s \in Nat : q = b \div d /\ s < d /\ b = q * d + s
    BY DivIs
  <1>2. PICK a \in Nat, c \in Nat : a = q \div n /\ c < n /\ q = a * n + c
    BY DivIs
  <1>3. c * d + s \in Nat /\ c * d + s < n * d
    BY <1>1, <1>2, Digits
  <1>4. b = a * (n * d) + (c * d + s)
    BY <1>1, <1>2
  <1>5. n * d \in Nat
    OBVIOUS
  <1>6. b \div (n * d) = a
    BY <1>3, <1>4, <1>5, IntDivMod
  <1> QED
    BY <1>1, <1>2, <1>6

BitOf(b, i) == (b \div TwoTo(i)) % 2

LEMMA HigherBits ==
  ASSUME NEW b \in 0..255, NEW c \in 0..255
  PROVE  /\ (b \div 128) % 2 = (c \div 128) % 2 => b \div 128 = c \div 128
         /\ (b \div 64) % 2 = (c \div 64) % 2 /\ b \div 128 = c \div 128 =>
               b \div 64 = c \div 64
         /\ (b \div 32) % 2 = (c \div 32) % 2 /\ b \div 64 = c \div 64 =>
               b \div 32 = c \div 32
         /\ (b \div 16) % 2 = (c \div 16) % 2 /\ b \div 32 = c \div 32 =>
               b \div 16 = c \div 16
         /\ (b \div 8) % 2 = (c \div 8) % 2 /\ b \div 16 = c \div 16 =>
               b \div 8 = c \div 8
         /\ (b \div 4) % 2 = (c \div 4) % 2 /\ b \div 8 = c \div 8 =>
               b \div 4 = c \div 4
         /\ (b \div 2) % 2 = (c \div 2) % 2 /\ b \div 4 = c \div 4 =>
               b \div 2 = c \div 2
         /\ (b \div 1) % 2 = (c \div 1) % 2 /\ b \div 2 = c \div 2 =>
               b \div 1 = c \div 1
         /\ b \div 1 = b /\ c \div 1 = c
  <1>1. (b \div 128) % 2 = (c \div 128) % 2 => b \div 128 = c \div 128
    OBVIOUS
  <1>2. (b \div 64) % 2 = (c \div 64) % 2 /\ b \div 128 = c \div 128 => b \div 64 = c \div 64
    OBVIOUS
  <1>3. (b \div 32) % 2 = (c \div 32) % 2 /\ b \div 64 = c \div 64 => b \div 32 = c \div 32
    OBVIOUS
  <1>4. (b \div 16) % 2 = (c \div 16) % 2 /\ b \div 32 = c \div 32 => b \div 16 = c \div 16
    OBVIOUS
  <1>5. (b \div 8) % 2 = (c \div 8) % 2 /\ b \div 16 = c \div 16 => b \div 8 = c \div 8
    OBVIOUS
  <1>6. (b \div 4) % 2 = (c \div 4) % 2 /\ b \div 8 = c \div 8 => b \div 4 = c \div 4
    OBVIOUS
  <1>7. (b \div 2) % 2 = (c \div 2) % 2 /\ b \div 4 = c \div 4 => b \div 2 = c \div 2
    OBVIOUS
  <1>8. (b \div 1) % 2 = (c \div 1) % 2 /\ b \div 2 = c \div 2 => b \div 1 = c \div 1
    OBVIOUS
  <1>9. b \div 1 = b /\ c \div 1 = c
    OBVIOUS
  <1> QED
    BY <1>1, <1>2, <1>3, <1>4, <1>5, <1>6, <1>7, <1>8, <1>9, Zenon

LEMMA BitsDetermine ==
  ASSUME NEW b \in 0..255, NEW c \in 0..255, \A i \in 0..7 : BitOf(b, i) = BitOf(c, i)
  PROVE  b = c
  <1>1. /\ (b \div 1) % 2 = (c \div 1) % 2 /\ (b \div 2) % 2 = (c \div 2) % 2
        /\ (b \div 4) % 2 = (c \div 4) % 2 /\ (b \div 8) % 2 = (c \div 8) % 2
        /\ (b \div 16) % 2 = (c \div 16) % 2 /\ (b \div 32) % 2 = (c \div 32) % 2
        /\ (b \div 64) % 2 = (c \div 64) % 2 /\ (b \div 128) % 2 = (c \div 128) % 2
    <2>1. \A i \in 0..7 : (b \div TwoTo(i)) % 2 = (c \div TwoTo(i)) % 2
      BY DEF BitOf
    <2> QED
      BY <2>1, PowersAre
  <1> QED
    BY <1>1, HigherBits, Zenon

(* A bit is not changed by what is added above it, and is clear in what is *)
(* below it.                                                               *)
LEMMA BitBelow ==
  ASSUME NEW i \in 0..7, NEW b \in Int, NEW e \in Int
  PROVE  /\ BitOf(b + e * (2 * TwoTo(i)), i) = BitOf(b, i)
         /\ b \in 0..(TwoTo(i) - 1) => BitOf(b + e * (2 * TwoTo(i)), i) = 0
  <1>0. CASE i = 0
    BY <1>0, PowersAre DEF BitOf
  <1>1. CASE i = 1
    BY <1>1, PowersAre DEF BitOf
  <1>2. CASE i = 2
    BY <1>2, PowersAre DEF BitOf
  <1>3. CASE i = 3
    BY <1>3, PowersAre DEF BitOf
  <1>4. CASE i = 4
    BY <1>4, PowersAre DEF BitOf
  <1>5. CASE i = 5
    BY <1>5, PowersAre DEF BitOf
  <1>6. CASE i = 6
    BY <1>6, PowersAre DEF BitOf
  <1>7. CASE i = 7
    BY <1>7, PowersAre DEF BitOf
  <1> QED
    BY <1>0, <1>1, <1>2, <1>3, <1>4, <1>5, <1>6, <1>7

(* Assigning a field of a byte.                                             *)
Assigned(b, lo, w, x) == b + (x - ((b \div TwoTo(lo)) % TwoTo(w))) * TwoTo(lo)

(* r is b with the bits inside a field assigned, cleared if v is 0.         *)
Assigns(r, b, inside, v) ==
  /\ r \in 0..255
  /\ \A i \in 0..7 : i \notin inside => BitOf(r, i) = BitOf(b, i)
  /\ v = 0 => \A i \in 0..7 : i \in inside => BitOf(r, i) = 0
FieldIn(lo, w) == {i \in 0..7 : lo <= i /\ i < lo + w}

LEMMA FieldBits ==
  ASSUME NEW lo \in 0..8, NEW w \in 0..8, lo + w <= 8, NEW x \in Nat, x < TwoTo(w),
         NEW b \in 0..255, NEW r, r = Assigned(b, lo, w, x)
  PROVE  Assigns(r, b, FieldIn(lo, w), x)
  <1>1. PICK L \in Nat : L = TwoTo(lo) /\ L > 0
    BY PowersPositive
  <1>2. PICK W \in Nat : W = TwoTo(w) /\ W > 0
    BY PowersPositive
  <1>0. PICK t \in 0..8 : t = lo + w /\ lo <= t
    OBVIOUS
  <1>3. PICK T \in Nat : T = TwoTo(t) /\ T > 0
    BY PowersPositive
  <1>5. T = W * L
    <2>1. TwoTo(lo + w) = TwoTo(lo) * TwoTo(w)
      BY PowersMultiply
    <2>2. L * W = W * L
      OBVIOUS
    <2> QED
      BY <1>0, <1>1, <1>2, <1>3, <2>1, <2>2
  <1>6. PICK H \in Nat : H * T = 256
    <2>1. 8 \in 0..8 /\ t <= 8
      OBVIOUS
    <2>2. PICK M \in Nat : M > 0 /\ TwoTo(8) = M * TwoTo(t)
      BY <2>1, PowersWithin, Zenon
    <2> QED
      BY <1>3, <2>2, PowersAre
  <1>7. PICK q \in Nat, low \in Nat : q = b \div L /\ low = b % L /\ low < L /\ b = q * L + low
    <2>1. b \in Nat
      OBVIOUS
    <2> QED
      BY <1>1, <2>1, Divided
  <1>8. PICK k \in Nat, h \in Nat : k = q \div W /\ h = q % W /\ h < W /\ q = k * W + h
    <2>1. W > 0
      BY <1>2
    <2> QED
      BY <2>1, Divided
  <1>9. r = b + (x - h) * L
    BY <1>1, <1>2, <1>7, <1>8 DEF Assigned
  <1>10. b = k * T + (h * L + low) /\ r = k * T + (x * L + low)
    <2>1. q * L = k * (W * L) + h * L
      <3>1. q = k * W + h
        BY <1>8
      <3>2. (k * W + h) * L = k * (W * L) + h * L
        BY Distributes
      <3> QED
        BY <3>1, <3>2, Zenon
    <2>2. (x - h) * L = x * L - h * L
      BY Distributes
    <2>3. h * L \in Int /\ x * L \in Int /\ k * T \in Int
      OBVIOUS
    <2>4. b = k * T + h * L + low
      BY <1>5, <1>7, <2>1
    <2>5. r = b + (x * L - h * L)
      BY <1>9, <2>2
    <2> QED
      BY <2>3, <2>4, <2>5
  <1>11. /\ h * L + low \in Nat /\ h * L + low < T
         /\ x * L + low \in Nat /\ x * L + low < T
    BY <1>2, <1>5, <1>7, <1>8, Digits
  <1>12. b \div T = k /\ r \div T = k
    <2>1. k \in Int
      OBVIOUS
    <2> QED
      BY <1>10, <1>11, <2>1, IntDivMod, Zenon
  <1>13. k < H
    <2> SUFFICES ASSUME k >= H PROVE FALSE
      OBVIOUS
    <2>1. PICK e \in Nat : k = H + e
      <3>1. k = H + (k - H) /\ k - H \in Nat
        OBVIOUS
      <3> QED
        BY <3>1
    <2>2. k * T = H * T + e * T /\ e * T \in Nat
      BY <2>1
    <2> QED
      BY <1>6, <1>10, <1>11, <2>2
  <1>14. r \in 0..255
    <2>1. k * T + (x * L + low) \in Nat /\ k * T + (x * L + low) < H * T
      BY <1>11, <1>13, Digits
    <2> QED
      BY <1>6, <1>10, <2>1
  <1>17. ASSUME NEW i \in 0..7, i < lo
         PROVE  BitOf(r, i) = BitOf(b, i)
    <2>1. PICK M \in Nat : L = M * (2 * TwoTo(i))
      BY <1>1, <1>17, PowersAbove
    <2>2. TwoTo(i) \in Nat
      BY PowersPositive
    <2>3. (x - h) * (M * (2 * TwoTo(i))) = ((x - h) * M) * (2 * TwoTo(i))
      BY <2>2
    <2>4. (x - h) * M \in Int
      OBVIOUS
    <2>5. r = b + ((x - h) * M) * (2 * TwoTo(i))
      BY <1>9, <2>1, <2>3
    <2>6. b \in Int
      OBVIOUS
    <2> QED
      BY <2>4, <2>5, <2>6, BitBelow, Zenon
  <1>18. ASSUME NEW i \in 0..7, i >= lo + w
         PROVE  BitOf(r, i) = BitOf(b, i)
    <2>1. PICK M \in Nat : M > 0 /\ TwoTo(i) = M * T
      <3>1. i \in 0..8 /\ t <= i
        BY <1>0, <1>18
      <3> QED
        BY <1>3, <3>1, PowersWithin
    <2>2. b \div TwoTo(i) = k \div M /\ r \div TwoTo(i) = k \div M
      <3>1. b \in Nat /\ r \in Nat
        BY <1>14
      <3>2. M > 0 /\ T > 0
        BY <1>3, <2>1
      <3>3. b \div (M * T) = (b \div T) \div M
        BY <3>1, <3>2, DivDiv
      <3>4. r \div (M * T) = (r \div T) \div M
        BY <3>1, <3>2, DivDiv
      <3> QED
        BY <1>12, <2>1, <3>3, <3>4
    <2> QED
      BY <2>2 DEF BitOf
  <1>19. ASSUME x = 0, NEW i \in 0..7, i >= lo, i < lo + w
         PROVE  BitOf(r, i) = 0
    <2>1. PICK M \in Nat : T = M * (2 * TwoTo(i))
      BY <1>0, <1>3, <1>19, PowersAbove
    <2>2. TwoTo(i) \in Nat
      BY PowersPositive
    <2>3. PICK N \in Nat : N > 0 /\ TwoTo(i) = N * L
      <3>1. i \in 0..8
        OBVIOUS
      <3> QED
        BY <1>1, <1>19, <3>1, PowersWithin
    <2>4. low < TwoTo(i)
      <3>1. PICK e \in Nat : N = 1 + e
        <4>1. N = 1 + (N - 1) /\ N - 1 \in Nat
          BY <2>3
        <4> QED
          BY <4>1
      <3>2. N * L = L + e * L /\ e * L \in Nat
        BY <3>1
      <3> QED
        BY <1>7, <2>2, <2>3, <3>2
    <2>5. r = low + (k * M) * (2 * TwoTo(i)) /\ k * M \in Int
      <3>1. x * L = 0
        BY <1>19
      <3>2. k * T = (k * M) * (2 * TwoTo(i))
        BY <2>1, <2>2
      <3> QED
        BY <1>10, <3>1, <3>2
    <2>6. low \in 0..(TwoTo(i) - 1)
      BY <2>2, <2>4
    <2> QED
      BY <2>5, <2>6, BitBelow
  <1> QED
    <2>1. ASSUME NEW i \in 0..7, i \notin FieldIn(lo, w)
          PROVE  BitOf(r, i) = BitOf(b, i)
      BY <1>17, <1>18, <2>1 DEF FieldIn
    <2>2. ASSUME x = 0, NEW i \in 0..7, i \in FieldIn(lo, w)
          PROVE  BitOf(r, i) = 0
      BY <1>19, <2>2 DEF FieldIn
    <2> QED
      BY <1>14, <2>1, <2>2 DEF Assigns

(* What a field of a byte holds.                                            *)
FieldOf(b, lo, w) == (b \div TwoTo(lo)) % TwoTo(w)

Fills(r, b, lo, w, x) ==
  /\ FieldOf(r, lo, w) = x
  /\ \A l \in 0..8, u \in 0..8 :
        l + u <= 8 /\ (l + u <= lo \/ lo + w <= l) => FieldOf(r, l, u) = FieldOf(b, l, u)

LEMMA FieldHolds ==
  ASSUME NEW lo \in 0..8, NEW w \in 0..8, lo + w <= 8, NEW x \in Nat, x < TwoTo(w),
         NEW b \in 0..255, NEW r, r = Assigned(b, lo, w, x)
  PROVE  Fills(r, b, lo, w, x)
  <1>1. PICK L \in Nat : L = TwoTo(lo) /\ L > 0
    BY PowersPositive
  <1>2. PICK W \in Nat : W = TwoTo(w) /\ W > 0
    BY PowersPositive
  <1>3. PICK q \in Nat, low \in Nat : q = b \div L /\ low = b % L /\ low < L /\ b = q * L + low
    <2>1. b \in Nat
      OBVIOUS
    <2> QED
      BY <1>1, <2>1, Divided
  <1>4. PICK k \in Nat, h \in Nat : k = q \div W /\ h = q % W /\ h < W /\ q = k * W + h
    <2>1. W > 0
      BY <1>2
    <2> QED
      BY <2>1, Divided
  <1>5. r = b + (x - h) * L /\ x < W
    BY <1>1, <1>2, <1>3, <1>4 DEF Assigned
  <1>6. r = (k * W + x) * L + low /\ k * W + x \in Nat
    <2>1. (x - h) * L = x * L - h * L
      BY Distributes
    <2>2. (k * W + h) * L = k * (W * L) + h * L /\ (k * W + x) * L = k * (W * L) + x * L
      BY Distributes
    <2>3. b = k * (W * L) + h * L + low
      BY <1>3, <1>4, <2>2
    <2>4. k * (W * L) \in Int /\ h * L \in Int /\ x * L \in Int /\ k * W \in Nat
      OBVIOUS
    <2> QED
      BY <1>5, <2>1, <2>2, <2>3, <2>4
  <1>7. r \in 0..255
    BY FieldBits DEF Assigns
  <1>8. r \div L = k * W + x
    <2>1. k * W + x \in Int
      BY <1>6
    <2> QED
      BY <1>1, <1>3, <1>6, <2>1, IntDivMod
  <1>9. FieldOf(r, lo, w) = x
    <2>1. (k * W + x) % W = x
      BY <1>2, <1>5, IntDivMod
    <2> QED
      BY <1>1, <1>2, <1>8, <2>1 DEF FieldOf
  <1>10. ASSUME NEW l \in 0..8, NEW u \in 0..8, l + u <= lo
         PROVE  FieldOf(r, l, u) = FieldOf(b, l, u)
    <2>1. PICK U \in Nat : U = TwoTo(u) /\ U > 0
      BY PowersPositive
    <2>2. PICK P \in Nat : P = TwoTo(l) /\ P > 0
      BY PowersPositive
    <2>3. PICK M \in Nat : L = M * (U * P)
      <3>1. l + u \in 0..8
        BY <1>10
      <3>2. PICK N \in Nat : N > 0 /\ TwoTo(lo) = N * TwoTo(l + u)
        BY <1>10, <3>1, PowersWithin
      <3>3. TwoTo(l + u) = P * U
        <4>1. l + u <= 8
          BY <3>1
        <4>2. TwoTo(l + u) = TwoTo(l) * TwoTo(u)
          BY <4>1, PowersMultiply
        <4> QED
          BY <2>1, <2>2, <4>2
      <3>4. P * U = U * P
        OBVIOUS
      <3> QED
        BY <1>1, <3>2, <3>3, <3>4
    <2>4. PICK c \in Nat, s \in Nat : c = b \div P /\ s < P /\ b = c * P + s
      <3>1. b \in Nat /\ P > 0
        BY <2>2
      <3> QED
        BY <3>1, Divided
    <2> DEFINE f == (x - h) * M
    <2>5. (x - h) * L = (f * U) * P
      <3>1. (x - h) * (M * (U * P)) = (((x - h) * M) * U) * P
        OBVIOUS
      <3> QED
        BY <2>3, <3>1
    <2>6. f \in Int
      OBVIOUS
    <2> HIDE DEF f
    <2>7. r = (f * U + c) * P + s /\ f * U + c \in Int
      <3>1. f * U \in Int /\ (f * U) * P \in Int /\ c * P \in Int
        BY <2>6
      <3>2. (f * U + c) * P = (f * U) * P + c * P
        BY <2>6
      <3> QED
        BY <1>5, <2>4, <2>5, <3>1, <3>2
    <2>8. r \div P = f * U + c
      BY <2>2, <2>4, <2>7, IntDivMod
    <2>9. PICK a \in Nat, d \in Nat : d = c % U /\ d < U /\ c = a * U + d
      <3> SUFFICES \E a \in Nat, d \in Nat : a = c \div U /\ d = c % U /\ d < U /\ c = a * U + d
        OBVIOUS
      <3>1. U > 0
        BY <2>1
      <3> QED
        BY <3>1, Divided
    <2>10. (f * U + c) % U = c % U
      <3>1. f * U + c = (f + a) * U + d /\ f + a \in Int
        <4>1. (f + a) * U = f * U + a * U /\ f * U \in Int /\ a * U \in Int
          BY <2>6
        <4> QED
          BY <2>6, <2>9, <4>1
      <3>2. ((f + a) * U + d) % U = d
        BY <2>1, <2>9, <3>1, IntDivMod
      <3> QED
        BY <2>9, <3>1, <3>2
    <2> QED
      BY <2>1, <2>2, <2>4, <2>8, <2>10 DEF FieldOf
  <1>11. ASSUME NEW l \in 0..8, NEW u \in 0..8, lo + w <= l
         PROVE  FieldOf(r, l, u) = FieldOf(b, l, u)
    <2>1. PICK d \in 0..8 : l = d + lo /\ w <= d
      <3>1. l - lo \in 0..8 /\ l = (l - lo) + lo /\ w <= l - lo
        BY <1>11
      <3> QED
        BY <3>1
    <2>2. PICK N \in Nat : N > 0 /\ TwoTo(d) = N * W
      BY <1>2, <2>1, PowersWithin
    <2>3. TwoTo(l) = (N * W) * L
      <3>1. d + lo <= 8
        BY <2>1
      <3>2. TwoTo(d + lo) = TwoTo(d) * TwoTo(lo)
        BY <3>1, PowersMultiply
      <3> QED
        BY <1>1, <2>1, <2>2, <3>2
    <2>4. (N * W) \in Nat /\ N * W > 0
      BY <1>2, <2>2
    <2>5. r \div TwoTo(l) = (r \div L) \div (N * W) /\ b \div TwoTo(l) = (b \div L) \div (N * W)
      <3>1. r \in Nat /\ b \in Nat
        BY <1>7
      <3>2. r \div ((N * W) * L) = (r \div L) \div (N * W)
        BY <1>1, <2>4, <3>1, DivDiv
      <3>3. b \div ((N * W) * L) = (b \div L) \div (N * W)
        BY <1>1, <2>4, <3>1, DivDiv
      <3> QED
        BY <2>3, <3>2, <3>3
    <2>6. (k * W + x) \div (N * W) = k \div N
      <3>1. (k * W + x) \div (N * W) = ((k * W + x) \div W) \div N
        BY <1>2, <1>6, <2>2, DivDiv
      <3>2. (k * W + x) \div W = k
        BY <1>2, <1>5, IntDivMod
      <3> QED
        BY <3>1, <3>2
    <2>7. (k * W + h) \div (N * W) = k \div N
      <3>1. k * W + h \in Nat
        BY <1>4
      <3>2. (k * W + h) \div (N * W) = ((k * W + h) \div W) \div N
        BY <1>2, <2>2, <3>1, DivDiv
      <3>3. (k * W + h) \div W = k
        BY <1>2, <1>4, IntDivMod
      <3> QED
        BY <3>2, <3>3
    <2>8. r \div TwoTo(l) = b \div TwoTo(l)
      BY <1>3, <1>4, <1>8, <2>5, <2>6, <2>7
    <2> QED
      BY <2>8 DEF FieldOf
  <1> QED
    BY <1>9, <1>10, <1>11 DEF Fills
================================================================================
