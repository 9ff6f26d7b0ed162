------------------------------ MODULE Recursion ------------------------------
(***************************************************************************)
(* Induction and recursion, stated with sets and functions in place of     *)
(* operators: what the proofs need about a function that is defined by     *)
(* recursion and about FlattenSeq.                                         *)
(***************************************************************************)
EXTENDS Integers, SequencesExt, SequenceTheorems, WellFoundedInduction, TLAPS

\* A set of numbers that has 0, and each successor, has them all.
LEMMA SetInduction ==
  ASSUME NEW S, 0 \in S, \A n \in Nat : n \in S => n + 1 \in S
  PROVE  Nat \subseteq S
<1> DEFINE T == Nat \ S
<1>1. SUFFICES ASSUME T # {} PROVE FALSE OBVIOUS
<1>2. PICK x \in T : \A y \in T : <<y, x>> \notin OpToRel(<, Nat)
  <2>1. IsWellFoundedOn(OpToRel(<, Nat), Nat) BY NatLessThanWellFounded
  <2> HIDE DEF T
  <2>2. T \subseteq Nat BY DEF T
  <2> QED BY <1>1, <2>1, <2>2, WFMin, Zenon
<1>3. \A y \in T : ~(y < x)
  BY <1>2, Zenon DEF OpToRel
<1>4. x \in Nat /\ x # 0 OBVIOUS
<1>5. x - 1 \in Nat /\ x - 1 < x BY <1>4
<1>6. x - 1 \in S BY <1>3, <1>5
<1>7. (x - 1) + 1 \in S BY <1>5, <1>6
<1> QED BY <1>4, <1>7

\* The functions on 0 .. n that are defined by recursion.
Recursions(S, start, step, n) ==
  {f \in [0 .. n -> S] :
     f[0] = start /\ \A k \in 1 .. n : f[k] = step[k][f[k - 1]]}

LEMMA RecursionExists ==
  ASSUME NEW S, NEW start \in S, NEW step \in [Nat -> [S -> S]], NEW n \in Nat
  PROVE  Recursions(S, start, step, n) # {}
<1> DEFINE Is(f, m) ==
      f[0] = start /\ \A k \in 1 .. m : f[k] = step[k][f[k - 1]]
    Good == {m \in Nat : \E f \in [0 .. m -> S] : Is(f, m)}
<1>1. 0 \in Good
  <2> DEFINE g == [k \in 0 .. 0 |-> start]
  <2>1. g \in [0 .. 0 -> S] /\ Is(g, 0) OBVIOUS
  <2> QED BY <2>1
<1>2. ASSUME NEW m \in Nat, m \in Good PROVE m + 1 \in Good
  <2>1. PICK f \in [0 .. m -> S] : Is(f, m) BY <1>2
  <2> DEFINE next == step[m + 1][f[m]]
             g == [k \in 0 .. m + 1 |-> IF k <= m THEN f[k] ELSE next]
  <2>2. f[m] \in S OBVIOUS
  <2>3. next \in S BY <2>2
  <2>4. g \in [0 .. m + 1 -> S] BY <2>3
  <2>5. ASSUME NEW k \in 1 .. m + 1 PROVE g[k] = step[k][g[k - 1]]
    <3>1. k - 1 \in 0 .. m /\ g[k - 1] = f[k - 1] OBVIOUS
    <3>2. CASE k <= m
      <4>1. k \in 1 .. m /\ g[k] = f[k] BY <3>2
      <4> QED BY <2>1, <3>1, <4>1
    <3>3. CASE k = m + 1
      <4>1. g[k] = next /\ k - 1 = m BY <3>3
      <4> QED BY <3>1, <3>3, <4>1
    <3> QED BY <3>2, <3>3
  <2>6. g[0] = start BY <2>1
  <2>7. Is(g, m + 1) BY <2>5, <2>6
  <2> HIDE DEF Is, g
  <2> QED BY <2>4, <2>7
<1>3. Nat \subseteq Good
  <2> HIDE DEF Good
  <2> QED BY <1>1, <1>2, SetInduction
<1> QED BY <1>3 DEF Recursions

\* FlattenSeq joins the elements one after the other.
LEMMA FlattenIsJoin ==
  ASSUME NEW T, NEW q \in Seq(Seq(T)), NEW f, f[0] = <<>>,
         \A i \in 1 .. Len(q) : f[i] = f[i - 1] \o q[i]
  PROVE  FlattenSeq(q) = f[Len(q)]
<1>1. Len(q) \in Nat /\ \A i \in 1 .. Len(q) : q[i] \in Seq(T) OBVIOUS
<1>2. CASE Len(q) = 0
  <2>1. q = <<>> BY <1>1, <1>2
  <2> QED BY <1>2, <2>1 DEF FlattenSeq
<1>3. CASE Len(q) # 0
  <2> DEFINE
    Is(g) == g = [i \in 1 .. Len(q) |-> IF i = 1 THEN q[i] ELSE g[i - 1] \o q[i]]
    e == [i \in 1 .. Len(q) |-> f[i]]
    c == CHOOSE g : Is(g)
  <2>1. f[1] = q[1]
    <3>1. 1 \in 1 .. Len(q) /\ 1 - 1 = 0 BY <1>1, <1>3
    <3>2. f[1] = <<>> \o q[1] BY <3>1
    <3> QED BY <1>1, <3>1, <3>2
  <2>2. Is(e)
    <3>1. ASSUME NEW i \in 1 .. Len(q), i # 1
          PROVE  f[i] = e[i - 1] \o q[i]
      <4>1. i - 1 \in 1 .. Len(q) BY <1>1, <3>1
      <4>2. e[i - 1] = f[i - 1] BY <4>1
      <4> QED BY <4>2
    <3> QED BY <2>1, <3>1
  <2>3. Is(c)
    <3> HIDE DEF Is
    <3> QED BY <2>2
  <2>4. FlattenSeq(q) = c[Len(q)] BY <1>3 DEF FlattenSeq
  <2> HIDE DEF c
  <2> DEFINE Same == {m \in Nat : m + 1 \in 1 .. Len(q) => c[m + 1] = f[m + 1]}
  <2>5. 0 \in Same
    <3>1. 1 \in 1 .. Len(q) /\ 0 + 1 = 1 BY <1>1, <1>3
    <3>2. c[1] = q[1] BY <2>3, <3>1
    <3> QED BY <2>1, <3>1, <3>2
  <2>6. ASSUME NEW m \in Nat, m \in Same PROVE m + 1 \in Same
    <3> SUFFICES ASSUME m + 2 \in 1 .. Len(q) PROVE c[m + 2] = f[m + 2]
      OBVIOUS
    <3>1. m + 1 \in 1 .. Len(q) BY <1>1
    <3>2. c[m + 1] = f[m + 1] BY <2>6, <3>1
    <3>3. (m + 2) - 1 = m + 1 /\ m + 2 # 1 OBVIOUS
    <3>4. c[m + 2] = c[m + 1] \o q[m + 2] BY <2>3, <3>3
    <3>5. f[m + 2] = f[m + 1] \o q[m + 2] BY <3>3
    <3> QED BY <3>2, <3>4, <3>5
  <2>7. Nat \subseteq Same
    <3> HIDE DEF Same
    <3> QED BY <2>5, <2>6, SetInduction
  <2>8. Len(q) - 1 \in Nat /\ (Len(q) - 1) + 1 = Len(q) /\ Len(q) \in 1 .. Len(q)
    BY <1>1, <1>3
  <2>9. Len(q) - 1 \in Same BY <2>7, <2>8
  <2>10. c[Len(q)] = f[Len(q)] BY <2>8, <2>9
  <2> QED BY <2>4, <2>10
<1> QED BY <1>2, <1>3

\* What the first elements join to, by their number.
Joins(T, s) ==
  {f \in [0 .. Len(s) -> Seq(T)] :
     /\ f[0] = <<>>
     /\ \A i \in 1 .. Len(s) : f[i] = f[i - 1] \o s[i]
     /\ \A n \in 0 .. Len(s) : FlattenSeq(SubSeq(s, 1, n)) = f[n]}

LEMMA FlattenPrefixes ==
  ASSUME NEW T, NEW s \in Seq(Seq(T)) PROVE Joins(T, s) # {}
<1> DEFINE step == [k \in Nat |-> [x \in Seq(T) |->
                      IF k \in 1 .. Len(s) THEN x \o s[k] ELSE x]]
<1>1. Len(s) \in Nat /\ \A i \in 1 .. Len(s) : s[i] \in Seq(T) OBVIOUS
<1>2. step \in [Nat -> [Seq(T) -> Seq(T)]]
  <2> SUFFICES ASSUME NEW k \in Nat, NEW x \in Seq(T)
               PROVE  (IF k \in 1 .. Len(s) THEN x \o s[k] ELSE x) \in Seq(T)
    OBVIOUS
  <2> QED BY <1>1
<1>3. PICK f \in [0 .. Len(s) -> Seq(T)] :
        f[0] = <<>> /\ \A k \in 1 .. Len(s) : f[k] = step[k][f[k - 1]]
  <2> DEFINE S == Seq(T)
             n == Len(s)
  <2>1. n \in Nat /\ <<>> \in S /\ step \in [Nat -> [S -> S]]
    BY <1>1, <1>2
  <2>2. Recursions(S, <<>>, step, n) # {}
    <3> HIDE DEF step, S, n
    <3> QED BY <2>1, RecursionExists
  <2> HIDE DEF step
  <2> QED BY <2>2 DEF Recursions
<1>4. ASSUME NEW k \in 1 .. Len(s) PROVE f[k] = f[k - 1] \o s[k]
  <2>1. k - 1 \in 0 .. Len(s) /\ k \in Nat BY <1>1
  <2>2. f[k - 1] \in Seq(T) BY <2>1
  <2>3. f[k] = step[k][f[k - 1]] BY <1>3
  <2> QED BY <2>1, <2>2, <2>3
<1>5. ASSUME NEW n \in 0 .. Len(s) PROVE FlattenSeq(SubSeq(s, 1, n)) = f[n]
  <2> DEFINE q == SubSeq(s, 1, n)
  <2>1. /\ q \in Seq(Seq(T)) /\ Len(q) = n
        /\ \A i \in 1 .. n : q[i] = s[i] /\ i \in 1 .. Len(s)
    BY <1>1
  <2>2. \A i \in 1 .. Len(q) : f[i] = f[i - 1] \o q[i] BY <1>4, <2>1
  <2> HIDE DEF q
  <2>3. FlattenSeq(q) = f[Len(q)] BY <1>3, <2>1, <2>2, FlattenIsJoin
  <2> QED BY <2>1, <2>3 DEF q
<1> QED BY <1>3, <1>4, <1>5 DEF Joins

LEMMA FlattenIsSeq ==
  ASSUME NEW T, NEW s \in Seq(Seq(T))
  PROVE  FlattenSeq(s) \in Seq(T) /\ FlattenSeq(SubSeq(s, 1, 0)) = <<>>
<1>1. Len(s) \in 0 .. Len(s) /\ 0 \in 0 .. Len(s) /\ SubSeq(s, 1, Len(s)) = s
  OBVIOUS
<1>2. PICK f \in [0 .. Len(s) -> Seq(T)] :
        /\ f[0] = <<>>
        /\ \A n \in 0 .. Len(s) : FlattenSeq(SubSeq(s, 1, n)) = f[n]
  <2>1. Joins(T, s) # {} BY FlattenPrefixes
  <2> QED BY <2>1 DEF Joins
<1>3. FlattenSeq(SubSeq(s, 1, Len(s))) = f[Len(s)] BY <1>1, <1>2
<1> QED BY <1>1, <1>2, <1>3

\* What CHOOSE finds of a set of numbers.
LEMMA Extremes ==
  ASSUME NEW S, S \subseteq Nat, NEW x \in S
  PROVE  /\ (\A m \in S : x <= m) =>
              (CHOOSE k \in S : \A m \in S : k <= m) = x
         /\ (\A m \in S : x >= m) =>
              (CHOOSE k \in S : \A m \in S : k >= m) = x
<1>1. ASSUME \A m \in S : x <= m
      PROVE  (CHOOSE k \in S : \A m \in S : k <= m) = x
  <2> DEFINE c == CHOOSE k \in S : \A m \in S : k <= m
  <2>1. c \in S /\ \A m \in S : c <= m BY <1>1
  <2> HIDE DEF c
  <2>2. c <= x /\ x <= c /\ c \in Nat /\ x \in Nat BY <1>1, <2>1
  <2>3. c = x BY <2>2
  <2> QED BY <2>3 DEF c
<1>2. ASSUME \A m \in S : x >= m
      PROVE  (CHOOSE k \in S : \A m \in S : k >= m) = x
  <2> DEFINE c == CHOOSE k \in S : \A m \in S : k >= m
  <2>1. c \in S /\ \A m \in S : c >= m BY <1>2
  <2> HIDE DEF c
  <2>2. c >= x /\ x >= c /\ c \in Nat /\ x \in Nat BY <1>2, <2>1
  <2>3. c = x BY <2>2
  <2> QED BY <2>3 DEF c
<1> QED BY <1>1, <1>2
=============================================================================
