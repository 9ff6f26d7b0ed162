---------------------------- MODULE TimeProofs ----------------------------
(***************************************************************************)
(* For every width of a byte and every event period: the calls of time.c   *)
(* take effect at one instant (ImplementsClock).                           *)
(***************************************************************************)
EXTENDS Time, TLAPS

Modulus == Base * Base * Base * Base

-----------------------------------------------------------------------------
(* A byte on top of a number: how far it reaches and when it carries.      *)

\* One more digit: the number stays below the larger bound, and is the last
\* one only if both the digit and the rest are.
LEMMA DigitRange ==
  ASSUME NEW d \in Bytes, NEW n \in Nat, NEW m \in Nat, n < m
  PROVE  /\ Digit(d, n) \in Nat
         /\ Digit(d, n) < Base * m
         /\ Digit(d, n) = Base * m - 1 <=> d = Base - 1 /\ n = m - 1
<1>1. Base \in Nat /\ Base > 1 BY BaseAssumption
<1>2. Base * n \in Nat /\ Base * m \in Nat BY <1>1
<1>3. d \in Nat /\ d <= Base - 1 BY <1>1 DEF Bytes
<1>4. Base * (m - 1) = Base * m - Base BY <1>1
<1>5. PICK k \in Nat : m - 1 = n + k BY SMT
<1>6. Base * (m - 1) = Base * n + Base * k BY <1>1, <1>5
<1>7. Base * k \in Nat /\ (k # 0 => Base * k >= Base)
  BY <1>1, SMT
<1>8. Digit(d, n) = d + Base * n BY DEF Digit
<1> QED
  <2>1. d + Base * n \in Nat BY <1>2, <1>3
  <2>2. Base * m - Base = Base * n + Base * k BY <1>4, <1>6
  <2>3. d + Base * n < Base * m BY <2>2, <1>1, <1>2, <1>3, <1>7
  <2>4. CASE k = 0
    <3>1. Base * k = 0 BY <2>4, <1>1
    <3>2. n = m - 1 BY <2>4, <1>5
    <3> QED BY <2>1, <2>2, <2>3, <3>1, <3>2, <1>1, <1>2, <1>3, <1>8
  <2>5. CASE k # 0
    <3>1. n # m - 1 BY <2>5, <1>5
    <3>2. Base * k >= Base BY <2>5, <1>7
    <3> QED BY <2>1, <2>2, <2>3, <3>1, <3>2, <1>1, <1>2, <1>3, <1>7, <1>8
  <2> QED BY <2>4, <2>5

\* Adding one to the digit is adding one to the number; with a carry, the
\* digit becomes 0 and the rest takes the one.
LEMMA Carry ==
  ASSUME NEW n \in Nat
  PROVE  /\ Digit(0, n + 1) = Digit(Base - 1, n) + 1
         /\ \A d \in Nat : Digit(d + 1, n) = Digit(d, n) + 1
BY BaseAssumption DEF Digit

\* Four bytes stand for a number below the modulus.
LEMMA ValueRange ==
  ASSUME NEW w \in Words
  PROVE  /\ Value(w) \in Nat
         /\ Value(w) < Modulus
         /\ Value(w) = Modulus - 1 <=> \A i \in 1 .. 4 : w[i] = Base - 1
         /\ \A i \in 1 .. 4 : w[i] \in Nat
         /\ Digit(w[3], w[4]) \in Nat
         /\ Digit(w[2], Digit(w[3], w[4])) \in Nat
<1> DEFINE n3 == Digit(w[3], w[4])
           n2 == Digit(w[2], n3)
           n1 == Digit(w[1], n2)
           m2 == Base * Base
           m3 == Base * m2
           m4 == Base * m3
<1>1. Base \in Nat /\ Base > 1 BY BaseAssumption
<1>2. /\ w[1] \in Bytes /\ w[2] \in Bytes /\ w[3] \in Bytes
      /\ w[4] \in Bytes /\ w[4] \in Nat /\ w[4] < Base
  BY <1>1 DEF Words, Bytes
<1>3. m2 \in Nat /\ m3 \in Nat BY <1>1
<1>4. Modulus = m4 BY <1>1 DEF Modulus
<1>5. n3 \in Nat /\ n3 < m2 /\ (n3 = m2 - 1 <=> w[3] = Base - 1 /\ w[4] = Base - 1)
  BY <1>1, <1>2, DigitRange
<1> HIDE DEF n3, m2
<1>6. n2 \in Nat /\ n2 < m3 /\ (n2 = m3 - 1 <=> w[2] = Base - 1 /\ n3 = m2 - 1)
  BY <1>2, <1>3, <1>5, DigitRange
<1> HIDE DEF n2, m3
<1>7. n1 \in Nat /\ n1 < m4 /\ (n1 = m4 - 1 <=> w[1] = Base - 1 /\ n2 = m3 - 1)
  <2>1. w[1] \in Bytes /\ n2 \in Nat /\ m3 \in Nat /\ n2 < m3
    BY <1>2, <1>3, <1>6
  <2> QED BY <2>1, DigitRange
<1>8. Value(w) = n1 BY DEF Value, n2, n3
<1>9. (\A i \in 1 .. 4 : w[i] = Base - 1) <=>
         w[1] = Base - 1 /\ w[2] = Base - 1 /\ w[3] = Base - 1 /\ w[4] = Base - 1
  OBVIOUS
<1>10. Digit(w[3], w[4]) \in Nat /\ Digit(w[2], Digit(w[3], w[4])) \in Nat
  BY <1>5, <1>6 DEF n2, n3
<1>11. \A i \in 1 .. 4 : w[i] \in Nat BY <1>1 DEF Words, Bytes
<1> QED BY <1>4, <1>5, <1>6, <1>7, <1>8, <1>9, <1>10, <1>11

\* The bytes of the sum stand for the sum: the carry is right, also around
\* the end of the 32 bits.
LEMMA ValueIncrement ==
  ASSUME NEW w \in Words
  PROVE  /\ Increment(w) \in Words
         /\ Value(Increment(w)) =
              IF Value(w) = Modulus - 1 THEN 0 ELSE Value(w) + 1
<1> DEFINE v == Increment(w)
           full(i) == w[i] = Base - 1
           n3 == Digit(w[3], w[4])
           n2 == Digit(w[2], n3)
<1>1. Base \in Nat /\ Base > 1 BY BaseAssumption
<1>2. \A i \in 1 .. 4 : w[i] \in Bytes BY DEF Words
<1>3. v \in Words
  <2>1. \A i \in 1 .. 4 : w[i] # Base - 1 => w[i] + 1 \in Bytes
    BY <1>1, <1>2 DEF Bytes
  <2>2. 0 \in Bytes BY <1>1 DEF Bytes
  <2> QED BY <1>2, <2>1, <2>2 DEF Increment, Words
<1>4. /\ v[1] = IF full(1) THEN 0 ELSE w[1] + 1
      /\ v[2] = IF full(1) THEN IF full(2) THEN 0 ELSE w[2] + 1 ELSE w[2]
      /\ v[3] = IF full(1) /\ full(2)
                THEN IF full(3) THEN 0 ELSE w[3] + 1 ELSE w[3]
      /\ v[4] = IF full(1) /\ full(2) /\ full(3)
                THEN IF full(4) THEN 0 ELSE w[4] + 1 ELSE w[4]
  BY SMT DEF Increment
<1>5. /\ w[1] \in Nat /\ w[2] \in Nat /\ w[3] \in Nat /\ w[4] \in Nat
      /\ n3 \in Nat /\ n2 \in Nat
      /\ Value(w) = Digit(w[1], n2)
      /\ Value(w) = Modulus - 1 <=> full(1) /\ full(2) /\ full(3) /\ full(4)
  BY ValueRange DEF Value
<1>6. Value(v) = Digit(v[1], Digit(v[2], Digit(v[3], v[4]))) BY DEF Value
<1> HIDE DEF v
<1>7. CASE ~full(1)
  BY <1>3, <1>4, <1>5, <1>6, <1>7, Carry DEF v
<1>8. CASE full(1) /\ ~full(2)
  <2>1. Value(v) = Digit(0, n2 + 1) BY <1>4, <1>5, <1>6, <1>8, Carry
  <2> QED BY <1>3, <1>5, <1>8, <2>1, Carry DEF v
<1>9. CASE full(1) /\ full(2) /\ ~full(3)
  <2>1. Digit(v[3], v[4]) = n3 + 1 BY <1>4, <1>5, <1>9, Carry
  <2>2. Value(v) = Digit(0, n2 + 1) BY <1>4, <1>5, <1>6, <1>9, <2>1, Carry
  <2> QED BY <1>3, <1>5, <1>9, <2>2, Carry DEF v
<1>10. CASE full(1) /\ full(2) /\ full(3) /\ ~full(4)
  <2>1. Digit(v[3], v[4]) = n3 + 1 BY <1>4, <1>5, <1>10, Carry
  <2>2. Value(v) = Digit(0, n2 + 1) BY <1>4, <1>5, <1>6, <1>10, <2>1, Carry
  <2> QED BY <1>3, <1>5, <1>10, <2>2, Carry DEF v
<1>11. CASE full(1) /\ full(2) /\ full(3) /\ full(4)
  <2>1. Digit(0, 0) = 0 BY <1>1 DEF Digit
  <2>2. Value(v) = 0 BY <1>4, <1>6, <1>11, <2>1
  <2> QED BY <1>3, <1>5, <1>11, <2>2 DEF v
<1> QED BY <1>7, <1>8, <1>9, <1>10, <1>11

-----------------------------------------------------------------------------
(* The inductive invariant: the types, and that the two calls really are   *)
(* critical sections, so that nothing they have loaded is out of date.     *)

IInv == TimeTypeOK /\ Sections

LEMMA InitIInv == Init => IInv
<1> SUFFICES ASSUME Init PROVE IInv
  OBVIOUS
<1>1. 0 \in Bytes BY BaseAssumption DEF Bytes
<1>2. Zero \in Words BY <1>1 DEF Zero, Words
<1>3. 0 \in 0 .. EventPeriod - 1 BY EventPeriodAssumption
<1> QED BY <1>2, <1>3 DEF Init, IInv, TimeTypeOK, Sections, Loads

LEMMA NextIInv == IInv /\ [Next]_vars => IInv'
<1> SUFFICES ASSUME IInv, [Next]_vars PROVE IInv'
  OBVIOUS
<1> USE DEF IInv, TimeTypeOK, Sections, Loads
<1>1. CASE UNCHANGED vars BY <1>1 DEF vars, statics
<1>2. CASE Match BY <1>2 DEF Match, statics
<1>3. CASE CompareInterrupt
  <2>1. g_counter_ms' \in Words
    BY <1>3, ValueIncrement DEF CompareInterrupt
  <2>2. g_timer_counter' \in 0 .. EventPeriod - 1 /\ g_timer_reached' \in {0, 1}
    BY <1>3, EventPeriodAssumption DEF CompareInterrupt
  <2> QED BY <1>3, <2>1, <2>2 DEF CompareInterrupt
<1>4. CASE GetMs BY <1>4 DEF GetMs, statics
<1>5. CASE GetMsLoad
  <2> SUFFICES ASSUME NEW i \in 1 .. 4, NEW from, NEW to, Load(i, from, to),
                      \/ i = 1 /\ from = "load_1" /\ to = "load_2"
                      \/ i = 2 /\ from = "load_2" /\ to = "load_3"
                      \/ i = 3 /\ from = "load_3" /\ to = "load_4"
                      \/ i = 4 /\ from = "load_4" /\ to = "loaded"
               PROVE  IInv'
    BY <1>5 DEF GetMsLoad
  <2>1. g_counter_ms[i] \in Bytes BY DEF Words
  <2>2. regs' \in Words BY <2>1 DEF Load, Words
  <2>3. regs'[i] = g_counter_ms[i] /\ \A j \in 1 .. 4 : j # i => regs'[j] = regs[j]
    BY DEF Load, Words
  <2> QED BY <2>2, <2>3 DEF Load, statics
<1>6. CASE GetMsReturn BY <1>6 DEF GetMsReturn, statics
<1>7. CASE TakeEvent BY <1>7 DEF TakeEvent, statics
<1>8. CASE TakeStatus
  <2>1. g_timer_reached \in Bytes BY BaseAssumption DEF Bytes
  <2>2. regs' \in Words /\ regs'[1] = g_timer_reached
    BY <1>8, <2>1 DEF TakeStatus, Words
  <2> QED BY <1>8, <2>2 DEF TakeStatus, statics
<1>9. CASE TakeClear BY <1>9 DEF TakeClear
<1>10. CASE TakeReturn BY <1>10 DEF TakeReturn, statics
<1> QED
  BY <1>1, <1>2, <1>3, <1>4, <1>5, <1>6, <1>7, <1>8, <1>9, <1>10
  DEF Next, MainThread

LEMMA Invariance == Spec => []IInv
<1> QED BY InitIInv, NextIInv, PTL DEF Spec

\* Every variable of time.c keeps its type: the counter its four bytes, the
\* event counter its range below the period.
THEOREM TimeTypeCorrect == Spec => []TimeTypeOK
<1>1. IInv => TimeTypeOK BY DEF IInv
<1> QED BY <1>1, Invariance, PTL

\* The interrupts are off inside the calls and nowhere else, and what a call
\* has loaded is still what the statics hold.
THEOREM AlwaysSections == Spec => []Sections
<1>1. IInv => Sections BY DEF IInv
<1> QED BY <1>1, Invariance, PTL

-----------------------------------------------------------------------------
(* The refinement.                                                         *)

LEMMA InitAbstract == Init => Abstract!Init
<1> SUFFICES ASSUME Init PROVE Abstract!Init
  OBVIOUS
<1>1. Value(Zero) = 0
  <2>1. Digit(0, 0) = 0 BY BaseAssumption DEF Digit
  <2> QED BY <2>1 DEF Value, Zero
<1> QED BY <1>1 DEF Init, Abstract!Init

\* The mapped variables, and a step that leaves them alone.
Mapped == <<g_counter_ms, g_timer_counter, g_timer_reached, timestamp,
            IF pc = "taken" THEN regs[1] ELSE status>>

LEMMA Stutter ==
  ASSUME UNCHANGED Mapped
  PROVE  UNCHANGED <<Value(g_counter_ms), g_timer_counter, g_timer_reached,
                     Value(timestamp),
                     IF pc = "taken" THEN regs[1] ELSE status>>
BY DEF Mapped, Value

LEMMA NextAbstract ==
  IInv /\ [Next]_vars =>
    [Abstract!Next]_<<Value(g_counter_ms), g_timer_counter, g_timer_reached,
                      Value(timestamp),
                      IF pc = "taken" THEN regs[1] ELSE status>>
<1> SUFFICES ASSUME IInv, [Next]_vars
             PROVE  Abstract!Next \/ UNCHANGED Mapped
  BY Stutter
<1> USE DEF IInv, TimeTypeOK, Sections, Mapped
<1>1. CASE UNCHANGED vars BY <1>1 DEF vars, statics
<1>2. CASE Match BY <1>2 DEF Match, statics
<1>3. CASE CompareInterrupt
  <2>1. Value(g_counter_ms') =
          IF Value(g_counter_ms) = Modulus - 1 THEN 0 ELSE Value(g_counter_ms) + 1
    BY <1>3, ValueIncrement DEF CompareInterrupt
  <2>2. Value(timestamp') = Value(timestamp)
    BY <1>3 DEF CompareInterrupt
  <2>3. IF g_timer_counter = EventPeriod - 1
        THEN g_timer_counter' = 0 /\ g_timer_reached' = 1
        ELSE g_timer_counter' = g_timer_counter + 1 /\ UNCHANGED g_timer_reached
    BY <1>3, EventPeriodAssumption DEF CompareInterrupt
  <2>4. UNCHANGED <<pc, regs, status>> BY <1>3 DEF CompareInterrupt
  <2>5. Abstract!Tick
    BY <2>1, <2>2, <2>3, <2>4 DEF Abstract!Tick, Modulus, Value
  <2> QED BY <2>5 DEF Abstract!Next
<1>4. CASE GetMs BY <1>4 DEF GetMs, statics
<1>5. CASE GetMsLoad BY <1>5 DEF GetMsLoad, Load, statics
<1>6. CASE GetMsReturn
  <2>1. regs = g_counter_ms
    <3>1. \A i \in 1 .. 4 : regs[i] = g_counter_ms[i] BY <1>6 DEF GetMsReturn
    <3> QED BY <3>1 DEF Words
  <2>2. Abstract!Read
    BY <1>6, <2>1 DEF GetMsReturn, statics, Abstract!Read, Value
  <2> QED BY <2>2 DEF Abstract!Next
<1>7. CASE TakeEvent BY <1>7 DEF TakeEvent, statics
<1>8. CASE TakeStatus BY <1>8 DEF TakeStatus, statics
<1>9. CASE TakeClear
  <2>1. Abstract!Poll
    BY <1>9 DEF TakeClear, Abstract!Poll, Value
  <2> QED BY <2>1 DEF Abstract!Next
<1>10. CASE TakeReturn BY <1>10 DEF TakeReturn, statics
<1> QED
  BY <1>1, <1>2, <1>3, <1>4, <1>5, <1>6, <1>7, <1>8, <1>9, <1>10
  DEF Next, MainThread

\* time.c implements Clock, for every byte width and event period: no time
\* stamp is torn by the interrupt and no event is lost between the read and
\* the clearing of the flag.
THEOREM TimeImplementsClock == Spec => ImplementsClock
<1> QED
  BY InitAbstract, NextAbstract, Invariance, PTL
  DEF Spec, ImplementsClock, Abstract!Spec
=============================================================================
