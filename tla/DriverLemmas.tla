---------------------------- MODULE DriverLemmas ----------------------------
(***************************************************************************)
(* What set_period and the duty computation of pwm.c return, for every     *)
(* period and duty the program can ask for, and what the operations of the *)
(* driver therefore establish and preserve.  The theorems about            *)
(* DriverCalls and Tester rest on these lemmas.                            *)
(***************************************************************************)
EXTENDS Driver, TLAPS

\* The sets of duties and periods, as bounds.
LEMMA ValueBounds ==
  /\ \A d : d \in DutyValues <=> d \in Nat /\ d <= 1023
  /\ \A p : p \in PeriodValues <=> p \in Nat /\ p <= 4194240
<1>1. \A m \in Nat : \A n : n \in 0 .. m <=> n \in Nat /\ n <= m
  OBVIOUS
<1>2. PWM_DUTY_MAX \in Nat /\ PWM_PERIOD_MAX \in Nat
  BY DEF PWM_DUTY_MAX, PWM_PERIOD_MAX
<1>3. /\ \A d : d \in DutyValues <=> d \in Nat /\ d <= PWM_DUTY_MAX
      /\ \A p : p \in PeriodValues <=> p \in Nat /\ p <= PWM_PERIOD_MAX
  BY <1>1, <1>2 DEF DutyValues, PeriodValues
<1> QED BY <1>3 DEF PWM_DUTY_MAX, PWM_PERIOD_MAX

LEMMA PrescalerValues ==
  /\ Prescaler[1] = 1 /\ Prescaler[2] = 8 /\ Prescaler[3] = 64
  /\ Prescaler[4] = 256 /\ Prescaler[5] = 1024
BY DEF Prescaler, ClockSelects

\* The clocks that fit are the ones from some clock on: a coarser clock holds
\* whatever a finer one holds.
LEMMA FittingValues ==
  ASSUME NEW n \in Nat
  PROVE  /\ Fitting(n) \subseteq 1 .. 5
         /\ 1 \in Fitting(n) <=> n < 65536
         /\ 2 \in Fitting(n) <=> n < 524288
         /\ 3 \in Fitting(n) <=> n < 4194304
         /\ 4 \in Fitting(n) <=> n < 16777216
         /\ 5 \in Fitting(n) <=> n < 67108864
BY PrescalerValues DEF Fitting, ClockSelects, TIMER3_RESOLUTION

\* The five tests of set_period, in the order of the code.
LEMMA CsBitsValues ==
  ASSUME NEW n \in Nat
  PROVE  CsBits(n) = IF n < 65536 THEN 1
                     ELSE IF n < 524288 THEN 2
                     ELSE IF n < 4194304 THEN 3
                     ELSE IF n < 16777216 THEN 4 ELSE 5
<1> DEFINE F == Fitting(n)
           Least(c) == c \in F /\ \A d \in F : c <= d
<1> HIDE DEF F
<1>1. /\ F \subseteq 1 .. 5
      /\ 1 \in F <=> n < 65536
      /\ 2 \in F <=> n < 524288
      /\ 3 \in F <=> n < 4194304
      /\ 4 \in F <=> n < 16777216
      /\ 5 \in F <=> n < 67108864
  BY FittingValues DEF F
<1>2. \A c, d : Least(c) /\ Least(d) => c = d
  BY <1>1
<1>3. ASSUME NEW c, Least(c)
      PROVE  CsBits(n) = c
  <2>1. CsBits(n) = CHOOSE e \in F : \A d \in F : e <= d
    BY <1>3 DEF CsBits, F
  <2>2. Least(CHOOSE e \in F : \A d \in F : e <= d)
    BY <1>3
  <2> QED BY <1>2, <1>3, <2>1, <2>2
<1>4. CASE n < 65536
  <2>1. Least(1) BY <1>1, <1>4
  <2> QED BY <1>3, <1>4, <2>1
<1>5. CASE ~(n < 65536) /\ n < 524288
  <2>1. Least(2) BY <1>1, <1>5
  <2> QED BY <1>3, <1>5, <2>1
<1>6. CASE ~(n < 524288) /\ n < 4194304
  <2>1. Least(3) BY <1>1, <1>6
  <2> QED BY <1>3, <1>6, <2>1
<1>7. CASE ~(n < 4194304) /\ n < 16777216
  <2>1. Least(4) BY <1>1, <1>7
  <2> QED BY <1>3, <1>7, <2>1
<1>8. CASE ~(n < 16777216) /\ n < 67108864
  <2>1. Least(5) BY <1>1, <1>8
  <2> QED BY <1>3, <1>8, <2>1
<1>9. CASE ~(n < 67108864)
  <2>1. F = {} BY <1>1, <1>9
  <2> QED BY <1>9, <2>1 DEF CsBits, F
<1> QED BY <1>4, <1>5, <1>6, <1>7, <1>8, <1>9

\* No period up to PWM_PERIOD_MAX needs the last branch of set_period.  TOP
\* fits the 16-bit register, and with the clock it stands for the period up
\* to less than one tick.
LEMMA SetPeriodValues ==
  ASSUME NEW period \in PeriodValues,
         NEW c, c = CsBits(Cycles(period)),
         NEW top, top = TopValue(Cycles(period))
  PROVE  /\ c \in 1 .. 5
         /\ top \in Nat /\ top < UINT16
         /\ top * Prescaler[c] <= Cycles(period)
         /\ Cycles(period) < (top + 1) * Prescaler[c]
         /\ c > 1 => top >= TIMER3_RESOLUTION \div 8
<1> DEFINE n == Cycles(period)
<1>1. n \in Nat /\ n < 67108864
  BY ValueBounds DEF Cycles
<1> HIDE DEF n
<1>2. c = IF n < 65536 THEN 1
          ELSE IF n < 524288 THEN 2
          ELSE IF n < 4194304 THEN 3
          ELSE IF n < 16777216 THEN 4 ELSE 5
  BY <1>1, CsBitsValues DEF n
<1>3. top = n \div Prescaler[c]
  <2>1. Fitting(n) # {}
    BY <1>1, FittingValues
  <2> QED BY <2>1 DEF TopValue, n
<1>4. CASE c = 1
  BY <1>1, <1>2, <1>3, <1>4, PrescalerValues DEF n, UINT16, TIMER3_RESOLUTION
<1>5. CASE c = 2
  BY <1>1, <1>2, <1>3, <1>5, PrescalerValues DEF n, UINT16, TIMER3_RESOLUTION
<1>6. CASE c = 3
  BY <1>1, <1>2, <1>3, <1>6, PrescalerValues DEF n, UINT16, TIMER3_RESOLUTION
<1>7. CASE c = 4
  BY <1>1, <1>2, <1>3, <1>7, PrescalerValues DEF n, UINT16, TIMER3_RESOLUTION
<1>8. CASE c = 5
  BY <1>1, <1>2, <1>3, <1>8, PrescalerValues DEF n, UINT16, TIMER3_RESOLUTION
<1> QED BY <1>1, <1>2, <1>4, <1>5, <1>6, <1>7, <1>8

\* Whatever the 16-bit product loses, the compare value has six bits and does
\* not pass TOP.
LEMMA DutyCycleBounds ==
  ASSUME NEW top \in Nat, NEW d \in DutyValues
  PROVE  /\ DutyCycle(top, d) \in 0 .. 63
         /\ DutyCycle(top, d) <= top
<1> DEFINE x == top * d
           y == x % 65536
<1>1. d \in Nat /\ d <= 1023
  BY ValueBounds
<1>2. x \in Nat /\ x <= top * 1023
  <2>1. \A a, b, c \in Nat : b <= c => a * b \in Nat /\ a * b <= a * c
    OBVIOUS
  <2> QED BY <1>1, <2>1
<1> HIDE DEF x
<1>3. y \in Nat /\ y < 65536 /\ y <= x
  BY <1>2
<1>4. DutyCycle(top, d) = y \div 1024
  BY DEF DutyCycle, UINT16, x
<1> HIDE DEF y
<1>5. y \div 1024 \in 0 .. 63
  BY <1>3
<1>6. y \div 1024 <= top
  BY <1>1, <1>2, <1>3
<1> QED BY <1>4, <1>5, <1>6

-----------------------------------------------------------------------------
(* The operations.                                                         *)

DriverInv == DriverTypeOK /\ PeriodIsReported /\ FinestClock /\ CompareBelowTop

LEMMA DriverResetInv == DriverReset => DriverInv
<1> SUFFICES ASSUME DriverReset PROVE DriverInv
  OBVIOUS
<1>1. 0 \in DutyValues /\ 0 \in PeriodValues
  BY ValueBounds
<1>2. DriverTypeOK
  BY <1>1 DEF DriverReset, PwmReset, DriverTypeOK, PwmTypeOK, UINT16
<1> QED
  BY <1>2 DEF DriverReset, PwmReset, DriverInv, PeriodIsReported,
              FinestClock, CompareBelowTop

LEMMA DriverInitInv ==
  ASSUME DriverInv, DriverInit
  PROVE  DriverInv'
<1>1. /\ PWM_DEFAULT_PERIOD \in PeriodValues /\ PWM_DEFAULT_PERIOD > 0
      /\ 0 \in DutyValues
  BY ValueBounds DEF PWM_DEFAULT_PERIOD
<1>2. /\ cs' = CsBits(Cycles(PWM_DEFAULT_PERIOD))
      /\ icr' = TopValue(Cycles(PWM_DEFAULT_PERIOD))
      /\ g_pwm_period' = PWM_DEFAULT_PERIOD /\ g_pwm_duty' = 0
      /\ com' = 0 /\ clk' = 0 /\ timsk' = 0 /\ cb' = NoCallback
      /\ in1' = 0 /\ in2' = 0 /\ ocr' = ocr
  BY DEF DriverInit, PwmInit, SetPeriod
<1>3. /\ cs' \in 1 .. 5
      /\ icr' \in Nat /\ icr' < UINT16
      /\ icr' * Prescaler[cs'] <= Cycles(PWM_DEFAULT_PERIOD)
      /\ Cycles(PWM_DEFAULT_PERIOD) < (icr' + 1) * Prescaler[cs']
      /\ cs' > 1 => icr' >= TIMER3_RESOLUTION \div 8
  BY <1>1, <1>2, SetPeriodValues
<1>4. DriverTypeOK'
  BY <1>1, <1>2, <1>3 DEF DriverInv, DriverTypeOK, PwmTypeOK
<1>5. cs' = 4
  BY <1>2, CsBitsValues DEF Cycles, PWM_DEFAULT_PERIOD
<1>6. CompareBelowTop'
  BY <1>2, <1>3, <1>5 DEF DriverInv, DriverTypeOK, PwmTypeOK, CompareBelowTop,
                         TIMER3_RESOLUTION
<1> QED BY <1>2, <1>3, <1>4, <1>6 DEF DriverInv, PeriodIsReported, FinestClock

LEMMA DriverEnableInv ==
  ASSUME DriverInv,
         NEW d \in DutyValues, NEW p \in PeriodValues \ {0},
         DriverEnable(d, p)
  PROVE  /\ DriverInv'
         /\ com' = 1 /\ clk' = cs' /\ clk' # 0
         /\ cs' = CsBits(Cycles(p)) /\ icr' = TopValue(Cycles(p))
         /\ ocr' = DutyCycle(icr', d)
         /\ g_pwm_duty' = d /\ g_pwm_period' = p
<1>1. p \in PeriodValues /\ p > 0
  BY ValueBounds
<1>2. /\ cs' = CsBits(Cycles(p)) /\ icr' = TopValue(Cycles(p))
      /\ g_pwm_period' = p /\ g_pwm_duty' = d
      /\ com' = 1 /\ clk' = cs' /\ ocr' = DutyCycle(icr', d)
      /\ timsk' = timsk /\ cb' = cb /\ in1' = in1 /\ in2' = in2
  BY <1>1 DEF DriverEnable, PwmEnable, SetPeriod
<1>3. /\ cs' \in 1 .. 5
      /\ icr' \in Nat /\ icr' < UINT16
      /\ icr' * Prescaler[cs'] <= Cycles(p)
      /\ Cycles(p) < (icr' + 1) * Prescaler[cs']
      /\ cs' > 1 => icr' >= TIMER3_RESOLUTION \div 8
  BY <1>1, <1>2, SetPeriodValues
<1>4. ocr' \in 0 .. 63 /\ ocr' <= icr'
  BY <1>2, <1>3, DutyCycleBounds
<1>5. DriverTypeOK'
  BY <1>1, <1>2, <1>3, <1>4 DEF DriverInv, DriverTypeOK, PwmTypeOK
<1> QED
  BY <1>1, <1>2, <1>3, <1>4, <1>5
     DEF DriverInv, PeriodIsReported, FinestClock, CompareBelowTop

\* Without a period the clock and TOP stay; the compare value may change.
LEMMA DriverKeepInv ==
  ASSUME DriverInv, NEW d \in DutyValues, DriverEnable(d, 0)
  PROVE  DriverInv'
<1>1. /\ cs' = cs /\ icr' = icr /\ g_pwm_period' = 0 /\ g_pwm_duty' = d
      /\ com' = 1 /\ clk' = cs' /\ ocr' = DutyCycle(icr', d)
      /\ timsk' = timsk /\ cb' = cb /\ in1' = in1 /\ in2' = in2
  BY DEF DriverEnable, PwmEnable
<1>2. ocr' \in 0 .. 63 /\ ocr' <= icr'
  BY <1>1, DutyCycleBounds DEF DriverInv, DriverTypeOK, PwmTypeOK
<1>3. 0 \in PeriodValues
  BY ValueBounds
<1>4. DriverTypeOK'
  BY <1>1, <1>2, <1>3 DEF DriverInv, DriverTypeOK, PwmTypeOK
<1> QED
  BY <1>1, <1>2, <1>4
     DEF DriverInv, PeriodIsReported, FinestClock, CompareBelowTop

LEMMA DriverDisableInv ==
  ASSUME DriverInv, DriverDisable
  PROVE  DriverInv'
<1>1. 0 \in DutyValues
  BY ValueBounds
<1>2. DriverTypeOK'
  BY <1>1 DEF DriverInv, DriverDisable, PwmDisable, DriverTypeOK, PwmTypeOK
<1> QED
  BY <1>2 DEF DriverInv, DriverDisable, PwmDisable, PeriodIsReported,
              FinestClock, CompareBelowTop

\* The remaining operations leave the registers of the PWM and both copies of
\* the period alone.
LEMMA DriverRestInv ==
  ASSUME DriverInv, DriverTypeOK',
         UNCHANGED <<cs, icr, ocr, g_pwm_period>>
  PROVE  DriverInv'
BY DEF DriverInv, PeriodIsReported, FinestClock, CompareBelowTop
=============================================================================
