------------------------- MODULE DriverCallsProofs --------------------------
(***************************************************************************)
(* The arithmetic properties of the driver hold for every sequence of      *)
(* calls with any duties and any periods up to PWM_PERIOD_MAX.  The        *)
(* checksum of a message of any length is the remainder of the division.   *)
(***************************************************************************)
EXTENDS DriverCalls, Protocol, DriverLemmas, Recursion

LEMMA DriverCallsInvariant == Spec => []DriverInv
<1>1. Init => DriverInv
  BY DriverResetInv DEF Init
<1>2. DriverInv /\ [Next]_driverVars => DriverInv'
  <2> SUFFICES ASSUME DriverInv, [Next]_driverVars PROVE DriverInv'
    OBVIOUS
  <2>1. CASE DriverInit
    BY <2>1, DriverInitInv
  <2>2. ASSUME NEW d \in Duties, NEW p \in Periods, DriverEnable(d, p)
        PROVE  DriverInv'
    <3>1. d \in DutyValues /\ p \in PeriodValues
      BY DutiesAssumption, PeriodsAssumption
    <3>2. CASE p = 0
      BY <2>2, <3>1, <3>2, DriverKeepInv
    <3>3. CASE p # 0
      BY <2>2, <3>1, <3>3, DriverEnableInv
    <3> QED BY <3>2, <3>3
  <2>3. CASE DriverDisable
    BY <2>3, DriverDisableInv
  <2>4. CASE UNCHANGED driverVars
    <3>1. DriverTypeOK'
      BY <2>4 DEF DriverInv, DriverTypeOK, PwmTypeOK, driverVars, pwmVars
    <3> QED BY <2>4, <3>1, DriverRestInv DEF driverVars, pwmVars
  <2> QED BY <2>1, <2>2, <2>3, <2>4 DEF Next
<1> QED BY <1>1, <1>2, PTL DEF Spec

\* pwm_enable and pwm_disable keep every register within its width, for every
\* period and duty.
THEOREM DriverTypeCorrect == Spec => []DriverTypeOK
BY DriverCallsInvariant, PTL DEF DriverInv

\* The timer runs with the period that driver.c reports, up to less than one
\* tick of the clock that set_period selected, unless that period is 0.
THEOREM PeriodAlwaysReported == Spec => []PeriodIsReported
BY DriverCallsInvariant, PTL DEF DriverInv

\* set_period never selects a coarser clock than it has to.
THEOREM ClockAlwaysFinest == Spec => []FinestClock
BY DriverCallsInvariant, PTL DEF DriverInv

\* The overflow in pwm_enable never makes the compare value pass TOP.
THEOREM CompareAlwaysBelowTop == Spec => []CompareBelowTop
BY DriverCallsInvariant, PTL DEF DriverInv

-----------------------------------------------------------------------------
(* Crc: polynomials and the division.                                      *)

\* Xor as a sum, and Times as a multiplication by a power of x.
LEMMA XorLaws ==
  \A a, b, c : /\ Xor(a, b) = Xor(b, a)
               /\ Xor(Xor(a, b), c) = Xor(Xor(a, c), b)
               /\ \A e : e \in Xor(a, b) <=> ~(e \in a <=> e \in b)
BY DEF Xor

LEMMA TimesLaws ==
  /\ \A a \in SUBSET Int, k \in Int : Times(a, k) \subseteq Int
  /\ \A a \in SUBSET Int, k \in Int, e \in Int : e \in Times(a, k) <=> e - k \in a
  /\ \A a \in SUBSET Int, j \in Int, k \in Int : Times(Times(a, j), k) = Times(a, j + k)
  /\ \A a \in SUBSET Int, b \in SUBSET Int, k \in Int :
       Times(Xor(a, b), k) = Xor(Times(a, k), Times(b, k))
<1>1. ASSUME NEW a \in SUBSET Int, NEW k \in Int
      PROVE  /\ Times(a, k) \subseteq Int
             /\ \A e \in Int : e \in Times(a, k) <=> e - k \in a
  <2>1. Times(a, k) \subseteq Int BY DEF Times
  <2>2. ASSUME NEW e \in Int, e - k \in a PROVE e \in Times(a, k)
    <3>1. (e - k) + k = e OBVIOUS
    <3> QED BY <2>2, <3>1 DEF Times
  <2>3. ASSUME NEW e \in Int, e \in Times(a, k) PROVE e - k \in a
    <3>1. PICK x \in a : e = x + k BY <2>3 DEF Times
    <3>2. e - k = x BY <3>1
    <3> QED BY <3>2
  <2> QED BY <2>1, <2>2, <2>3
<1>2. ASSUME NEW a \in SUBSET Int, NEW j \in Int, NEW k \in Int
      PROVE  Times(Times(a, j), k) = Times(a, j + k)
  <2>1. Times(Times(a, j), k) \subseteq Int /\ Times(a, j + k) \subseteq Int
    BY <1>1
  <2>2. ASSUME NEW e \in Int
        PROVE  e \in Times(Times(a, j), k) <=> e \in Times(a, j + k)
    <3>1. e \in Times(Times(a, j), k) <=> e - k \in Times(a, j) BY <1>1
    <3>2. e - k \in Times(a, j) <=> (e - k) - j \in a BY <1>1
    <3>3. e \in Times(a, j + k) <=> e - (j + k) \in a BY <1>1
    <3>4. (e - k) - j = e - (j + k) OBVIOUS
    <3> QED BY <3>1, <3>2, <3>3, <3>4
  <2> QED BY <2>1, <2>2
<1>3. ASSUME NEW a \in SUBSET Int, NEW b \in SUBSET Int, NEW k \in Int
      PROVE  Times(Xor(a, b), k) = Xor(Times(a, k), Times(b, k))
  <2>1. Xor(a, b) \in SUBSET Int BY DEF Xor
  <2>2. Times(Xor(a, b), k) \subseteq Int /\ Times(a, k) \subseteq Int
        /\ Times(b, k) \subseteq Int
    BY <1>1, <2>1
  <2>3. ASSUME NEW e \in Int
        PROVE  e \in Times(Xor(a, b), k) <=> e \in Xor(Times(a, k), Times(b, k))
    BY <1>1, <2>1, XorLaws
  <2>4. Xor(Times(a, k), Times(b, k)) \subseteq Int BY <2>2 DEF Xor
  <2> QED BY <2>2, <2>3, <2>4
<1> QED BY <1>1, <1>2, <1>3

\* The division as its equations.
LEMMA DivisionSteps ==
  ASSUME NEW a \in SUBSET Int, NEW n \in Nat
  PROVE  /\ Division(a, n) \in [0 .. n -> SUBSET Int]
         /\ Division(a, n)[0] = a
         /\ \A k \in 1 .. n :
              Division(a, n)[k] = Reduce(Division(a, n)[k - 1], n, k)
<1> DEFINE S == SUBSET Int
           step == [k \in Nat |-> [r \in S |-> Reduce(r, n, k)]]
           Is(g) == g = [k \in 0 .. n |-> IF k = 0 THEN a ELSE Reduce(g[k - 1], n, k)]
<1>1. ASSUME NEW r \in SUBSET Int, NEW k \in Nat
      PROVE  Reduce(r, n, k) \in SUBSET Int
  <2>1. Generator \in SUBSET Int /\ n - k \in Int BY DEF Generator
  <2>2. Times(Generator, n - k) \subseteq Int BY <2>1, TimesLaws
  <2> QED BY <2>2 DEF Reduce, Xor
<1>2. step \in [Nat -> [S -> S]] BY <1>1
<1>3. Recursions(S, a, step, n) # {}
  <2> HIDE DEF step
  <2>1. a \in S OBVIOUS
  <2> HIDE DEF S
  <2> QED BY <1>2, <2>1, RecursionExists
<1>4. PICK f \in [0 .. n -> S] :
        f[0] = a /\ \A k \in 1 .. n : f[k] = step[k][f[k - 1]]
  <2> HIDE DEF step, S
  <2> QED BY <1>3 DEF Recursions
<1>5. ASSUME NEW k \in 1 .. n PROVE f[k] = Reduce(f[k - 1], n, k)
  <2>1. k - 1 \in 0 .. n /\ k \in Nat OBVIOUS
  <2>2. f[k - 1] \in S BY <2>1
  <2> QED BY <1>4, <2>1, <2>2
<1>6. Is(f)
  <2>1. f = [k \in 0 .. n |-> f[k]] OBVIOUS
  <2>2. \A k \in 0 .. n : k # 0 => k \in 1 .. n OBVIOUS
  <2> QED BY <1>4, <1>5, <2>1, <2>2
<1>7. Is(CHOOSE g : Is(g))
  <2> HIDE DEF Is
  <2> QED BY <1>6
<1>8. Division(a, n) = CHOOSE g : Is(g) BY DEF Division
<1> DEFINE d == Division(a, n)
<1>9. Is(d) BY <1>7, <1>8
<1> HIDE DEF d
<1>10. /\ d[0] = a /\ DOMAIN d = 0 .. n
       /\ \A k \in 1 .. n : d[k] = Reduce(d[k - 1], n, k)
  <2>1. 0 \in 0 .. n /\ \A k \in 1 .. n : k \in 0 .. n /\ k # 0 OBVIOUS
  <2> QED BY <1>9, <2>1
<1>11. \A k \in 0 .. n : d[k] \in SUBSET Int
  <2> DEFINE Good == {k \in Nat : k <= n => d[k] \in SUBSET Int}
  <2>1. 0 \in Good BY <1>10
  <2>2. ASSUME NEW k \in Nat, k \in Good PROVE k + 1 \in Good
    <3> SUFFICES ASSUME k + 1 <= n PROVE d[k + 1] \in SUBSET Int OBVIOUS
    <3>1. k + 1 \in 1 .. n /\ (k + 1) - 1 = k /\ k <= n OBVIOUS
    <3>2. d[k] \in SUBSET Int BY <2>2, <3>1
    <3>3. d[k + 1] = Reduce(d[k], n, k + 1) BY <1>10, <3>1
    <3> QED BY <1>1, <3>2, <3>3
  <2>3. Nat \subseteq Good
    <3> HIDE DEF Good
    <3> QED BY <2>1, <2>2, SetInduction
  <2> QED BY <2>3
<1>12. d = [k \in 0 .. n |-> d[k]] BY <1>9
<1>13. d \in [0 .. n -> SUBSET Int] BY <1>11, <1>12
<1> QED BY <1>10, <1>13 DEF d

\* The k-th rest has a degree below n + 16 - k.
LEMMA DegreeFalls ==
  ASSUME NEW n \in Nat, NEW a, a \subseteq 0 .. n + 15
  PROVE  \A k \in 0 .. n : Division(a, n)[k] \subseteq 0 .. n + 15 - k
<1> DEFINE d == Division(a, n)
<1>1. /\ d \in [0 .. n -> SUBSET Int] /\ d[0] = a
      /\ \A k \in 1 .. n : d[k] = Reduce(d[k - 1], n, k)
  <2>1. a \in SUBSET Int OBVIOUS
  <2> QED BY <2>1, DivisionSteps
<1> HIDE DEF d
<1> DEFINE Good == {k \in Nat : k <= n => d[k] \subseteq 0 .. n + 15 - k}
<1>2. 0 \in Good BY <1>1
<1>3. ASSUME NEW k \in Nat, k \in Good PROVE k + 1 \in Good
  <2> SUFFICES ASSUME k + 1 <= n
               PROVE  d[k + 1] \subseteq 0 .. n + 15 - (k + 1)
    OBVIOUS
  <2> DEFINE r == d[k]
  <2>1. r \subseteq 0 .. n + 15 - k BY <1>3
  <2>2. k + 1 \in 1 .. n /\ (k + 1) - 1 = k OBVIOUS
  <2>3. d[k + 1] = Reduce(r, n, k + 1) BY <1>1, <2>2
  <2> HIDE DEF r
  <2>4. n + 16 - (k + 1) = n + 15 - k OBVIOUS
  <2>5. CASE n + 15 - k \notin r
    <3>1. d[k + 1] = r BY <2>3, <2>4, <2>5 DEF Reduce
    <3> QED BY <2>1, <2>5, <3>1
  <2>6. CASE n + 15 - k \in r
    <3> DEFINE j == n - (k + 1)
    <3>1. j \in Nat /\ n + 15 - k = 16 + j /\ n + 15 - (k + 1) = 15 + j OBVIOUS
    <3>2. Times(Generator, j) = {16 + j, 12 + j, 5 + j, 0 + j}
      BY DEF Times, Generator
    <3>3. d[k + 1] = Xor(r, Times(Generator, j))
      BY <2>3, <2>4, <2>6 DEF Reduce
    <3> HIDE DEF j
    <3>4. r \subseteq 0 .. 16 + j /\ 16 + j \in r BY <2>1, <2>6, <3>1
    <3>5. Xor(r, {16 + j, 12 + j, 5 + j, 0 + j}) \subseteq 0 .. 15 + j
      <4> SUFFICES ASSUME NEW e \in Xor(r, {16 + j, 12 + j, 5 + j, 0 + j})
                   PROVE  e \in 0 .. 15 + j
        OBVIOUS
      <4>1. e # 16 + j BY <3>4 DEF Xor
      <4>2. e \in 0 .. 16 + j BY <3>1, <3>4 DEF Xor
      <4> QED BY <3>1, <4>1, <4>2
    <3> QED BY <3>1, <3>2, <3>3, <3>5
  <2> QED BY <2>5, <2>6
<1>4. Nat \subseteq Good
  <2> HIDE DEF Good
  <2> QED BY <1>2, <1>3, SetInduction
<1> QED BY <1>4 DEF d

-----------------------------------------------------------------------------
(* One more byte.                                                          *)

\* A byte behind a message moves its polynomial up by eight.
LEMMA PolynomialStep ==
  ASSUME NEW message \in Seq(Byte), NEW byte \in Byte
  PROVE  /\ Polynomial(message) \subseteq 0 .. 8 * Len(message) - 1
         /\ Polynomial(Append(message, byte)) =
              Times(Polynomial(message), 8) \union Bits(byte)
<1> DEFINE n == Len(message)
           m == Append(message, byte)
           part(k) == Times(Bits(message[k]), 8 * (n - k))
<1>1. /\ n \in Nat /\ DOMAIN message = 1 .. n /\ DOMAIN m = 1 .. n + 1
      /\ Len(m) = n + 1 /\ m[n + 1] = byte
      /\ \A k \in 1 .. n : m[k] = message[k] /\ message[k] \in Byte
  OBVIOUS
<1> HIDE DEF n, m
<1>2. Polynomial(message) = UNION {part(k) : k \in 1 .. n}
  BY <1>1 DEF Polynomial, n
<1>3. ASSUME NEW k \in 1 .. n
      PROVE  /\ part(k) \subseteq 0 .. 8 * n - 1
             /\ Times(Bits(m[k]), 8 * (n + 1 - k)) = Times(part(k), 8)
  <2>1. Bits(message[k]) \subseteq 0 .. 7 BY <1>1, BytesAssumption
  <2>2. n - k \in Nat /\ 8 * (n - k) \in Nat /\ 8 * (n - k) + 8 = 8 * (n + 1 - k)
        /\ 8 * (n - k) + 7 <= 8 * n - 1
    BY <1>1
  <2>3. part(k) \subseteq 0 .. 8 * n - 1
    <3> SUFFICES ASSUME NEW e \in Bits(message[k])
                 PROVE  e + 8 * (n - k) \in 0 .. 8 * n - 1
      BY DEF Times
    <3>1. e \in 0 .. 7 BY <2>1
    <3> DEFINE j == 8 * (n - k)
    <3>2. j \in Nat /\ j + 7 <= 8 * n - 1 BY <2>2
    <3> HIDE DEF j
    <3>3. e + j \in 0 .. 8 * n - 1 BY <1>1, <3>1, <3>2
    <3> QED BY <3>3 DEF j
  <2>4. Bits(message[k]) \in SUBSET Int BY <2>1
  <2>5. Times(part(k), 8) = Times(Bits(message[k]), 8 * (n - k) + 8)
    BY <2>2, <2>4, TimesLaws
  <2> QED BY <1>1, <2>2, <2>3, <2>5
<1>4. Polynomial(message) \subseteq 0 .. 8 * n - 1 BY <1>2, <1>3
<1>5. Polynomial(m) =
        UNION {Times(Bits(m[k]), 8 * (n + 1 - k)) : k \in 1 .. n + 1}
  BY <1>1 DEF Polynomial
<1>6. Times(Bits(m[n + 1]), 8 * (n + 1 - (n + 1))) = Bits(byte)
  <2>1. 8 * (n + 1 - (n + 1)) = 0 BY <1>1
  <2>2. Bits(byte) \in SUBSET Int BY BytesAssumption
  <2>3. Times(Bits(byte), 0) = Bits(byte) BY <2>2 DEF Times
  <2> QED BY <1>1, <2>1, <2>3
<1>7. 1 .. n + 1 = (1 .. n) \union {n + 1} BY <1>1
<1>8. Polynomial(m) = (UNION {Times(part(k), 8) : k \in 1 .. n}) \union Bits(byte)
  <2> HIDE DEF part
  <2>1. Polynomial(m) =
          (UNION {Times(Bits(m[k]), 8 * (n + 1 - k)) : k \in 1 .. n})
            \union Times(Bits(m[n + 1]), 8 * (n + 1 - (n + 1)))
    BY <1>5, <1>7
  <2>2. {Times(Bits(m[k]), 8 * (n + 1 - k)) : k \in 1 .. n} =
          {Times(part(k), 8) : k \in 1 .. n}
    BY <1>3
  <2> QED BY <1>6, <2>1, <2>2
<1>9. UNION {Times(part(k), 8) : k \in 1 .. n} = Times(Polynomial(message), 8)
  <2> HIDE DEF part
  <2> QED BY <1>2 DEF Times
<1> QED BY <1>4, <1>8, <1>9 DEF m, n

\* Before the last eight steps the new byte has no part in the division.
LEMMA ByteWaits ==
  ASSUME NEW n \in Nat, NEW a \in SUBSET Int, NEW b, b \subseteq 0 .. 7
  PROVE  \A k \in 0 .. n :
           Division(Xor(Times(a, 8), Times(b, 16)), n + 8)[k] =
             Xor(Times(Division(a, n)[k], 8), Times(b, 16))
<1> DEFINE f == Division(a, n)
           x == Times(b, 16)
           start == Xor(Times(a, 8), x)
           g == Division(start, n + 8)
<1>1. b \in SUBSET Int /\ x \subseteq 16 .. 23 /\ start \in SUBSET Int
  <2>1. b \in SUBSET Int OBVIOUS
  <2>2. x \subseteq 16 .. 23 BY DEF Times
  <2>3. Times(a, 8) \subseteq Int BY TimesLaws
  <2>4. Xor(Times(a, 8), x) \subseteq Int BY <2>2, <2>3 DEF Xor
  <2> QED BY <2>1, <2>2, <2>4
<1>2. /\ f \in [0 .. n -> SUBSET Int] /\ f[0] = a
      /\ \A k \in 1 .. n : f[k] = Reduce(f[k - 1], n, k)
  BY DivisionSteps
<1>3. /\ g[0] = start
      /\ \A k \in 1 .. n + 8 : g[k] = Reduce(g[k - 1], n + 8, k)
  <2> HIDE DEF start
  <2>1. n + 8 \in Nat OBVIOUS
  <2> QED BY <1>1, <2>1, DivisionSteps
<1> HIDE DEF f, g, x
<1> DEFINE Good == {k \in Nat : k <= n => g[k] = Xor(Times(f[k], 8), x)}
<1>4. 0 \in Good BY <1>2, <1>3
<1>5. ASSUME NEW k \in Nat, k \in Good PROVE k + 1 \in Good
  <2> SUFFICES ASSUME k + 1 <= n PROVE g[k + 1] = Xor(Times(f[k + 1], 8), x)
    OBVIOUS
  <2> DEFINE r == f[k]
             t == Times(Generator, n - (k + 1))
             e == n + 23 - k
  <2>1. k + 1 \in 1 .. n /\ k + 1 \in 1 .. n + 8 /\ (k + 1) - 1 = k /\ k \in 0 .. n
    OBVIOUS
  <2>2. g[k] = Xor(Times(r, 8), x) /\ r \in SUBSET Int BY <1>2, <1>5, <2>1
  <2>3. f[k + 1] = IF e - 8 \in r THEN Xor(r, t) ELSE r
    <3>1. n + 16 - (k + 1) = e - 8 OBVIOUS
    <3>2. f[k + 1] = Reduce(r, n, k + 1) BY <1>2, <2>1
    <3> HIDE DEF e
    <3> QED BY <3>1, <3>2 DEF Reduce
  <2>4. t \in SUBSET Int /\ Times(Generator, n + 8 - (k + 1)) = Times(t, 8)
    <3>1. /\ Generator \in SUBSET Int /\ n - (k + 1) \in Int
          /\ n + 8 - (k + 1) = (n - (k + 1)) + 8
      BY DEF Generator
    <3> QED BY <3>1, TimesLaws
  <2>5. g[k + 1] = IF e \in g[k] THEN Xor(g[k], Times(t, 8)) ELSE g[k]
    <3>1. n + 8 + 16 - (k + 1) = e OBVIOUS
    <3>2. g[k + 1] = Reduce(g[k], n + 8, k + 1) BY <1>3, <2>1
    <3> HIDE DEF e, t
    <3> QED BY <2>4, <3>1, <3>2 DEF Reduce, t
  <2>6. e \in Int /\ e \notin x BY <1>1
  <2> HIDE DEF r, t, e
  <2>7. e \in g[k] <=> e - 8 \in r
    <3>1. e \in g[k] <=> e \in Times(r, 8) BY <2>2, <2>6, XorLaws
    <3> QED BY <2>2, <2>6, <3>1, TimesLaws
  <2>8. Times(Xor(r, t), 8) = Xor(Times(r, 8), Times(t, 8))
    BY <2>2, <2>4, TimesLaws
  <2>9. Xor(Xor(Times(r, 8), x), Times(t, 8)) = Xor(Xor(Times(r, 8), Times(t, 8)), x)
    BY XorLaws
  <2> QED BY <2>2, <2>3, <2>5, <2>7, <2>8, <2>9
<1>6. Nat \subseteq Good
  <2> HIDE DEF Good
  <2> QED BY <1>4, <1>5, SetInduction
<1> QED BY <1>6 DEF f, g, x

\* In the last eight steps the low byte of the checksum so far has none.
LEMMA LowByteWaits ==
  ASSUME NEW n \in Nat, NEW a \in SUBSET Int, NEW b, b \subseteq 0 .. 7,
         NEW c, c \subseteq 0 .. 15,
         Division(a, n + 8)[n] = Xor(Times(b, 16), ShiftLeft8(c))
  PROVE  Division(a, n + 8)[n + 8] =
           Xor(Remainder(Times(b, 16), 8), ShiftLeft8(c))
<1> DEFINE g == Division(a, n + 8)
           start == Times(b, 16)
           h == Division(start, 8)
           x == ShiftLeft8(c)
<1>1. b \in SUBSET Int /\ x \subseteq 8 .. 15 /\ start \in SUBSET Int
  BY DEF Times, ShiftLeft8
<1>2. /\ h \in [0 .. 8 -> SUBSET Int] /\ h[0] = start
      /\ \A k \in 1 .. 8 : h[k] = Reduce(h[k - 1], 8, k)
  <2>1. 8 \in Nat /\ start \in SUBSET Int BY <1>1
  <2> HIDE DEF start
  <2> QED BY <2>1, DivisionSteps
<1>3. \A k \in 1 .. n + 8 : g[k] = Reduce(g[k - 1], n + 8, k)
  <2>1. n + 8 \in Nat OBVIOUS
  <2> QED BY <2>1, DivisionSteps
<1> HIDE DEF g, h, x
<1> DEFINE Good == {k \in Nat : k <= 8 => g[n + k] = Xor(h[k], x)}
<1>4. 0 \in Good
  <2>1. n + 0 = n OBVIOUS
  <2>2. g[n] = Xor(start, x) BY DEF g, x
  <2> QED BY <1>2, <2>1, <2>2
<1>5. ASSUME NEW k \in Nat, k \in Good PROVE k + 1 \in Good
  <2> SUFFICES ASSUME k + 1 <= 8 PROVE g[n + (k + 1)] = Xor(h[k + 1], x)
    OBVIOUS
  <2> DEFINE r == h[k]
             q == g[n + k]
             t == Times(Generator, 7 - k)
             e == 23 - k
  <2>1. /\ k + 1 \in 1 .. 8 /\ (k + 1) - 1 = k
        /\ n + (k + 1) \in 1 .. n + 8 /\ (n + (k + 1)) - 1 = n + k
    OBVIOUS
  <2>2. q = Xor(r, x) BY <1>5, <2>1
  <2>3. h[k + 1] = IF e \in r THEN Xor(r, t) ELSE r
    <3>1. 8 + 16 - (k + 1) = e /\ 8 - (k + 1) = 7 - k OBVIOUS
    <3>2. h[k + 1] = Reduce(r, 8, k + 1) BY <1>2, <2>1
    <3> HIDE DEF e
    <3> QED BY <3>1, <3>2 DEF Reduce
  <2>4. g[n + (k + 1)] = IF e \in q THEN Xor(q, t) ELSE q
    <3>1. n + 8 + 16 - (n + (k + 1)) = e /\ n + 8 - (n + (k + 1)) = 7 - k
      OBVIOUS
    <3>2. g[n + (k + 1)] = Reduce(q, n + 8, n + (k + 1)) BY <1>3, <2>1
    <3> HIDE DEF e, q
    <3> QED BY <3>1, <3>2 DEF Reduce
  <2>5. e \notin x BY <1>1, <2>1
  <2> HIDE DEF r, q, t, e
  <2>6. e \in q <=> e \in r BY <2>2, <2>5, XorLaws
  <2>7. Xor(Xor(r, x), t) = Xor(Xor(r, t), x) BY XorLaws
  <2> QED BY <2>2, <2>3, <2>4, <2>6, <2>7
<1>6. Nat \subseteq Good
  <2> HIDE DEF Good
  <2> QED BY <1>4, <1>5, SetInduction
<1>7. 8 \in Nat /\ 8 <= 8 OBVIOUS
<1>8. g[n + 8] = Xor(h[8], x) BY <1>6, <1>7
<1> QED BY <1>8 DEF g, h, x, Remainder

\* A byte more is an iteration more.
LEMMA ChecksumStep ==
  ASSUME NEW message \in Seq(Byte), NEW byte \in Byte
  PROVE  Checksum(Append(message, byte)) = CrcStep(Checksum(message), byte)
<1> DEFINE n == 8 * Len(message)
           m == Polynomial(message)
           b == Bits(byte)
           a == Times(m, 16)
           c == Checksum(message)
           d == Xor(HighByte(c), b)
<1>1. n \in Nat /\ Len(Append(message, byte)) = Len(message) + 1
      /\ 8 * Len(Append(message, byte)) = n + 8
  OBVIOUS
<1>2. b \subseteq 0 .. 7 BY BytesAssumption
<1>3. m \subseteq 0 .. n - 1 /\ Polynomial(Append(message, byte)) = Times(m, 8) \union b
  BY PolynomialStep
<1>4. a \subseteq 0 .. n + 15
  <2> HIDE DEF m, n
  <2> QED BY <1>1, <1>3 DEF Times
<1>5. c = Division(a, n)[n] BY DEF Checksum, Remainder
<1>6. c \subseteq 0 .. 15
  <2> HIDE DEF a, n, c
  <2>1. n \in 0 .. n /\ n + 15 - n = 15 BY <1>1
  <2>2. Division(a, n)[n] \subseteq 0 .. n + 15 - n
    BY <1>1, <1>4, <2>1, DegreeFalls
  <2> QED BY <1>5, <2>1, <2>2
<1>7. Times(Times(m, 8) \union b, 16) = Xor(Times(a, 8), Times(b, 16))
  <2> HIDE DEF m, b, n
  <2>1. m \in SUBSET Int /\ b \in SUBSET Int BY <1>2, <1>3
  <2>2. Times(m, 8) \subseteq Int /\ Times(m, 8) \intersect (0 .. 7) = {}
    BY <1>1, <1>3 DEF Times
  <2>3. Times(m, 8) \union b = Xor(Times(m, 8), b)
    BY <1>2, <2>2 DEF Xor
  <2>4. Times(Xor(Times(m, 8), b), 16) = Xor(Times(Times(m, 8), 16), Times(b, 16))
    BY <2>1, <2>2, TimesLaws
  <2>5. Times(Times(m, 8), 16) = Times(m, 8 + 16)
        /\ Times(Times(m, 16), 8) = Times(m, 16 + 8)
    BY <2>1, TimesLaws
  <2>6. 8 + 16 = 16 + 8 OBVIOUS
  <2> QED BY <2>3, <2>4, <2>5, <2>6
<1> DEFINE start == Xor(Times(a, 8), Times(b, 16))
<1>8. Checksum(Append(message, byte)) = Division(start, n + 8)[n + 8]
  <2>1. Polynomial(Append(message, byte)) = Times(m, 8) \union b BY <1>3
  <2> HIDE DEF m, b, n, a
  <2> QED BY <1>1, <1>7, <2>1 DEF Checksum, Remainder
<1>9. Division(start, n + 8)[n] = Xor(Times(c, 8), Times(b, 16))
  <2> HIDE DEF n, a, b, c
  <2>1. n \in 0 .. n /\ a \in SUBSET Int BY <1>1, <1>4
  <2> QED BY <1>1, <1>2, <1>5, <2>1, ByteWaits
<1>10. /\ d \subseteq 0 .. 7
       /\ Xor(Times(c, 8), Times(b, 16)) = Xor(Times(d, 16), ShiftLeft8(c))
  <2> HIDE DEF b, c
  <2> DEFINE high == HighByte(c)
  <2>1. high \subseteq 0 .. 7 /\ ShiftLeft8(c) \subseteq 8 .. 15
    <3>1. \A e \in c : e \in 0 .. 15 BY <1>6
    <3>2. high \subseteq 0 .. 7 BY <3>1 DEF HighByte
    <3>3. ShiftLeft8(c) \subseteq 8 .. 15 BY <3>1 DEF ShiftLeft8
    <3> QED BY <3>2, <3>3
  <2>2. Times(c, 8) = Xor(Times(high, 16), ShiftLeft8(c))
    <3>1. Times(high, 16) \subseteq 16 .. 23 BY <2>1 DEF Times
    <3>2. Times(c, 8) = Times(high, 16) \union ShiftLeft8(c)
      <4> DEFINE upper == {e \in c : e >= 8}
                 lower == {e \in c : e < 8}
      <4>1. c = upper \union lower
        <5>1. \A e \in c : e >= 8 \/ e < 8 BY <1>6
        <5> QED BY <5>1
      <4>2. Times(c, 8) = {e + 8 : e \in upper} \union {e + 8 : e \in lower}
        <5> HIDE DEF upper, lower
        <5> QED BY <4>1 DEF Times
      <4>3. Times(high, 16) = {e + 8 : e \in upper}
        <5>1. Times(high, 16) = {(e - 8) + 16 : e \in upper}
          BY DEF Times, HighByte
        <5>2. \A e \in upper : (e - 8) + 16 = e + 8 BY <1>6
        <5> HIDE DEF upper
        <5> QED BY <5>1, <5>2
      <4>4. ShiftLeft8(c) = {e + 8 : e \in lower} BY DEF ShiftLeft8
      <4> HIDE DEF upper, lower
      <4> QED BY <4>2, <4>3, <4>4
    <3> QED BY <2>1, <3>1, <3>2 DEF Xor
  <2>3. d \subseteq 0 .. 7 BY <1>2, <2>1 DEF Xor
  <2>4. Times(d, 16) = Xor(Times(high, 16), Times(b, 16))
    BY <1>2, <2>1, TimesLaws
  <2> HIDE DEF high
  <2>5. Xor(Xor(Times(high, 16), ShiftLeft8(c)), Times(b, 16)) =
        Xor(Xor(Times(high, 16), Times(b, 16)), ShiftLeft8(c))
    BY XorLaws
  <2> QED BY <2>2, <2>3, <2>4, <2>5
<1>11. CRC16_TABLE[Number(d)] = Remainder(Times(d, 16), 8)
  <2> HIDE DEF d
  <2>1. d \in SUBSET (0 .. 7) BY <1>10
  <2> QED BY <2>1, TableAssumption
<1>12. Division(start, n + 8)[n + 8] = Xor(CRC16_TABLE[Number(d)], ShiftLeft8(c))
  <2>1. start \in SUBSET Int
    <3> HIDE DEF a, b
    <3>1. a \in SUBSET Int /\ b \in SUBSET Int BY <1>1, <1>2, <1>4
    <3>2. Times(a, 8) \subseteq Int /\ Times(b, 16) \subseteq Int
      BY <3>1, TimesLaws
    <3> QED BY <3>2 DEF Xor
  <2>2. Division(start, n + 8)[n] = Xor(Times(d, 16), ShiftLeft8(c))
    <3> HIDE DEF start, d, n, b, c
    <3> QED BY <1>9, <1>10
  <2> HIDE DEF start, d, n, b, c
  <2>3. Division(start, n + 8)[n + 8] = Xor(Remainder(Times(d, 16), 8), ShiftLeft8(c))
    BY <1>1, <1>6, <1>10, <2>1, <2>2, LowByteWaits
  <2> QED BY <1>11, <2>3
<1>13. Xor(CRC16_TABLE[Number(d)], ShiftLeft8(c)) = CrcStep(c, byte)
  <2>1. CrcStep(c, byte) = Xor(ShiftLeft8(c), CRC16_TABLE[Number(d)])
    BY DEF CrcStep
  <2> HIDE DEF d, c
  <2> QED BY <2>1, XorLaws
<1> HIDE DEF n, m, b, a, d, start
<1> QED BY <1>8, <1>12, <1>13

-----------------------------------------------------------------------------
\* Between two iterations the local crc is the checksum of the bytes read.
CrcInv ==
  /\ buffer \in Seq(Byte) /\ crc = Checksum(buffer)
  /\ crcPc = "return" => Len(buffer) = Covered

LEMMA ChecksumOfNothing == Checksum(<<>>) = {}
<1>1. Polynomial(<<>>) = {} BY DEF Polynomial
<1>2. Times({}, 16) = {} BY DEF Times
<1>3. 0 \in Nat /\ {} \in SUBSET Int OBVIOUS
<1>4. Division({}, 0)[0] = {} BY <1>3, DivisionSteps
<1>5. Len(<<>>) = 0 /\ 8 * 0 = 0 OBVIOUS
<1> QED BY <1>1, <1>2, <1>4, <1>5 DEF Checksum, Remainder

LEMMA CrcInitInv == CrcInit => CrcInv
<1>1. <<>> \in Seq(Byte) OBVIOUS
<1> QED BY <1>1, ChecksumOfNothing DEF CrcInit, CrcInv

LEMMA CrcStepInv == CrcInv /\ [CrcNext]_crcVars => CrcInv'
<1> SUFFICES ASSUME CrcInv, [CrcNext]_crcVars PROVE CrcInv' OBVIOUS
<1>1. CASE Iterate
  <2>1. PICK byte \in Values :
          buffer' = Append(buffer, byte) /\ crc' = CrcStep(crc, byte)
    BY <1>1 DEF Iterate
  <2>2. byte \in Byte /\ buffer \in Seq(Byte) /\ crc = Checksum(buffer)
    BY ValuesAssumption DEF CrcInv, Byte
  <2>3. buffer' \in Seq(Byte) BY <2>1, <2>2
  <2>4. crc' = Checksum(buffer') BY <2>1, <2>2, ChecksumStep
  <2>5. crcPc' = "loop" BY <1>1 DEF Iterate
  <2> QED BY <2>3, <2>4, <2>5 DEF CrcInv
<1>2. CASE LeaveLoop BY <1>2 DEF LeaveLoop, CrcInv
<1>3. CASE Call
  <2>1. <<>> \in Seq(Byte) OBVIOUS
  <2> QED BY <1>3, <2>1, ChecksumOfNothing DEF Call, CrcInv
<1>4. CASE UNCHANGED crcVars BY <1>4 DEF crcVars, CrcInv
<1> QED BY <1>1, <1>2, <1>3, <1>4 DEF CrcNext

\* protocol_crc16 computes the remainder that the comment of crc16_ccitt defines,
\* for every size of a message and every content (protocol.c:57-94).
THEOREM ChecksumIsAlwaysCcitt == CrcSpec => []IsCcitt
<1>1. CrcInv => IsCcitt
  <2> SUFFICES ASSUME CrcInv, crcPc = "return"
               PROVE  SubSeq(buffer, 1, MsgSize - ChecksumSize) = buffer
    BY DEF CrcInv, IsCcitt
  <2>1. buffer \in Seq(Byte) /\ Len(buffer) = MsgSize - ChecksumSize
    BY DEF CrcInv, Covered
  <2>2. SubSeq(buffer, 1, Len(buffer)) = buffer BY <2>1
  <2> QED BY <2>1, <2>2
<1> QED BY <1>1, CrcInitInv, CrcStepInv, PTL DEF CrcSpec
=============================================================================
