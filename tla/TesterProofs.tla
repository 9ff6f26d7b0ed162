---------------------------- MODULE TesterProofs ----------------------------
(***************************************************************************)
(* The invariants of Tester, for every set of pot readings and every bound *)
(* of the clock, and the refinement of HBridge.                            *)
(*                                                                         *)
(* The inductive invariant is IInv.  Its parts are named in                *)
(* TesterProperties; here each has a lemma that one step of the program    *)
(* preserves it, with one case for each action.                            *)
(***************************************************************************)
EXTENDS TesterProperties, DriverLemmas

-----------------------------------------------------------------------------
(* Messages and pot readings.                                              *)

\* msg_init makes an empty message of the given procedure.
LEMMA NewMsgFields ==
  ASSUME NEW p \in {0, 1, 2, Idle}
  PROVE  /\ NewMsg(p) \in Messages
         /\ NewMsg(p).running_proc = p
         /\ NewMsg(p).start_time = 0
<1>1. 0 \in DutyValues /\ 0 \in PeriodValues
  BY ValueBounds
<1> QED BY <1>1 DEF NewMsg, Messages

\* driver_get_state fills in the driver's part and leaves the rest.
LEMMA GetStateFields ==
  ASSUME DriverTypeOK, NEW m \in Messages
  PROVE  LET s == DriverGetState(m)
         IN  /\ s \in Messages
             /\ s.running_proc = m.running_proc /\ s.bt = m.bt
             /\ s.start_time = m.start_time /\ s.end_time = m.end_time
             /\ s.in1 = in1 /\ s.in2 = in2 /\ s.en = g_pwm_duty
BY DEF Messages, DriverGetState, DriverTypeOK

\* The other assignments to the fields of a message.
LEMMA MessageUpdates ==
  ASSUME NEW m \in Messages
  PROVE  /\ \A b \in SUBSET Buttons : [m EXCEPT !.bt = b] \in Messages
         /\ \A t \in Nat : [m EXCEPT !.start_time = t] \in Messages
         /\ \A t \in Nat : [m EXCEPT !.end_time = t] \in Messages
         /\ [m EXCEPT !.running_proc = Idle] \in Messages
         /\ \A t \in Nat : [m EXCEPT !.running_proc = Idle, !.start_time = t,
                                     !.end_time = t] \in Messages
         /\ \A d \in DutyValues : [m EXCEPT !.pwm_duty = d] \in Messages
         /\ \A d \in DutyValues, p \in PeriodValues :
              [m EXCEPT !.pwm_duty = d, !.pwm_period = p] \in Messages
BY DEF Messages

\* map_i32 takes every reading of the pots to a legal duty, and to a period
\* that is neither 0 nor longer than the procedure allows.
LEMMA PotValues ==
  ASSUME NEW pt \in AdcValues
  PROVE  /\ DutyOf(pt) \in DutyValues
         /\ \A max \in {100, 1000} :
              /\ PeriodOf(pt, max) \in PeriodValues
              /\ PeriodOf(pt, max) \in Nat
              /\ PeriodOf(pt, max) > 0 /\ PeriodOf(pt, max) <= 1000
<1>1. \A m \in Nat : \A n \in 0 .. m : n \in Nat /\ n <= m
  OBVIOUS
<1>2. pt \in Nat /\ pt <= 1023
  <2>1. ADC_VALUE_MAX \in Nat
    BY DEF ADC_VALUE_MAX
  <2>2. pt \in Nat /\ pt <= ADC_VALUE_MAX
    BY <1>1, <2>1, AdcAssumption
  <2> QED BY <2>2 DEF ADC_VALUE_MAX
<1>3. DutyOf(pt) = pt
  BY <1>2 DEF DutyOf, MapI32, ADC_VALUE_MAX, PWM_DUTY_MAX
<1>4. /\ PeriodOf(pt, 100) = (pt * 99) \div 1023 + 1
      /\ PeriodOf(pt, 1000) = (pt * 999) \div 1023 + 1
  BY <1>2 DEF PeriodOf, MapI32, ADC_VALUE_MAX
<1>5. \A max \in {100, 1000} : /\ PeriodOf(pt, max) \in Nat
                               /\ PeriodOf(pt, max) > 0
                               /\ PeriodOf(pt, max) <= 1000
  BY SMT, <1>2, <1>4
<1> QED BY SMT, <1>2, <1>3, <1>5, ValueBounds

-----------------------------------------------------------------------------
(* Type correctness.                                                       *)

\* Every message that is built or sent is well formed.
LEMMA MessagesStep ==
  ASSUME TypeOK, [Next]_vars
  PROVE  msg' \in Messages /\ sent' \in Messages
<1>1. /\ msg \in Messages /\ sent \in Messages
      /\ DriverTypeOK
      /\ pressed \in SUBSET Buttons
      /\ now \in Nat
  BY MaxMsAssumption DEF TypeOK, ProgramTypeOK
<1>2. CASE Boot
  BY <1>2, <1>1 DEF Boot
<1>3. CASE WaitForTransport
  <2>1. NewMsg(Idle) \in Messages
    BY NewMsgFields
  <2> QED BY <1>1, <1>3, <2>1 DEF WaitForTransport
<1>4. CASE MainLoop
  <2>1. [msg EXCEPT !.bt = pressed] \in Messages
    BY <1>1, MessageUpdates
  <2> QED BY <1>1, <1>4, <2>1 DEF MainLoop
<1>5. CASE MainIdle
  <2>1. [msg EXCEPT !.running_proc = Idle] \in Messages
    BY <1>1, MessageUpdates
  <2>2. [msg EXCEPT !.running_proc = Idle, !.start_time = now,
                    !.end_time = now] \in Messages
    BY <1>1, MessageUpdates
  <2>3. DriverGetState([msg EXCEPT !.running_proc = Idle, !.start_time = now,
                                   !.end_time = now]) \in Messages
    BY <1>1, <2>2, GetStateFields
  <2> QED BY <1>1, <1>5, <2>1, <2>3 DEF MainIdle, Send
<1>6. CASE DriverSetIn1
  BY <1>6, <1>1 DEF DriverSetIn1
<1>7. CASE DriverSetIn2
  BY <1>7, <1>1 DEF DriverSetIn2
<1>8. CASE P0Enter
  <2>1. NewMsg(0) \in Messages
    BY NewMsgFields
  <2> QED BY <1>1, <1>8, <2>1 DEF P0Enter
<1>9. CASE P0Input
  <2>1. DriverGetState([msg EXCEPT !.bt = pressed]) \in Messages
    BY <1>1, MessageUpdates, GetStateFields
  <2>2. PICK pt1 \in AdcValues :
          /\ duty' = DutyOf(pt1)
          /\ Send([DriverGetState([msg EXCEPT !.bt = pressed])
                    EXCEPT !.pwm_duty = duty'])
    BY <1>9 DEF P0Input
  <2>3. duty' \in DutyValues
    BY <2>2, PotValues
  <2>4. [DriverGetState([msg EXCEPT !.bt = pressed])
           EXCEPT !.pwm_duty = duty'] \in Messages
    BY <2>1, <2>3, MessageUpdates
  <2> QED BY <2>2, <2>4 DEF Send
<1>10. CASE P0Start
  <2>1. [msg EXCEPT !.start_time = now] \in Messages
    BY <1>1, MessageUpdates
  <2> QED BY <1>1, <1>10, <2>1 DEF P0Start
<1>11. CASE P0Enable
  BY <1>11, <1>1 DEF P0Enable
<1>12. CASE P0Run
  <2>1. DriverGetState([msg EXCEPT !.bt = pressed]) \in Messages
    BY <1>1, MessageUpdates, GetStateFields
  <2> QED BY <1>12, <2>1 DEF P0Run, Send
<1>13. CASE P0Check
  BY <1>13, <1>1 DEF P0Check
<1>14. CASE P0Stop
  BY <1>14, <1>1 DEF P0Stop
<1>15. CASE P0End
  <2>1. [msg EXCEPT !.end_time = now] \in Messages
    BY <1>1, MessageUpdates
  <2>2. DriverGetState([msg EXCEPT !.end_time = now]) \in Messages
    BY <1>1, <2>1, GetStateFields
  <2> QED BY <1>15, <2>2 DEF P0End, Finish, Send
<1>16. CASE P1Enter
  <2>1. NewMsg(1) \in Messages
    BY NewMsgFields
  <2>2. [NewMsg(1) EXCEPT !.start_time = now] \in Messages
    BY <1>1, <2>1, MessageUpdates
  <2> QED BY <1>1, <1>16, <2>2 DEF P1Enter
<1>17. CASE P1Input
  <2>1. DriverGetState([msg EXCEPT !.bt = pressed]) \in Messages
    BY <1>1, MessageUpdates, GetStateFields
  <2>2. PICK pt0, pt1 \in AdcValues :
          /\ duty' = DutyOf(pt1)
          /\ period' = PeriodOf(pt0, 100)
          /\ Send([DriverGetState([msg EXCEPT !.bt = pressed])
                    EXCEPT !.pwm_duty = duty', !.pwm_period = period'])
    BY <1>17 DEF P1Input
  <2>3. duty' \in DutyValues /\ period' \in PeriodValues
    BY <2>2, PotValues
  <2>4. [DriverGetState([msg EXCEPT !.bt = pressed])
           EXCEPT !.pwm_duty = duty', !.pwm_period = period'] \in Messages
    BY <2>1, <2>3, MessageUpdates
  <2> QED BY <2>2, <2>4 DEF Send
<1>18. CASE P1Start
  <2>1. [msg EXCEPT !.start_time = now] \in Messages
    BY <1>1, MessageUpdates
  <2> QED BY <1>1, <1>18, <2>1 DEF P1Start
<1>19. CASE P1Enable
  BY <1>19, <1>1 DEF P1Enable
<1>20. CASE P1Run
  <2>1. DriverGetState(msg) \in Messages
    BY <1>1, GetStateFields
  <2>2. [DriverGetState(msg) EXCEPT !.bt = pressed] \in Messages
    BY <1>1, <2>1, MessageUpdates
  <2> QED BY <1>20, <2>1, <2>2 DEF P1Run
<1>21. CASE P1Stop
  BY <1>21, <1>1 DEF P1Stop
<1>22. CASE P1Stopped
  <2>1. [msg EXCEPT !.end_time = now] \in Messages
    BY <1>1, MessageUpdates
  <2> QED BY <1>1, <1>22, <2>1 DEF P1Stopped, Send
<1>23. CASE P1Check
  BY <1>23, <1>1 DEF P1Check
<1>24. CASE P1Exit
  BY <1>24, <1>1 DEF P1Exit
<1>25. CASE P1End
  <2>1. [msg EXCEPT !.end_time = now] \in Messages
    BY <1>1, MessageUpdates
  <2>2. DriverGetState([msg EXCEPT !.end_time = now]) \in Messages
    BY <1>1, <2>1, GetStateFields
  <2> QED BY <1>25, <2>2 DEF P1End, Finish, Send
<1>26. CASE P2Enter
  <2>1. NewMsg(2) \in Messages
    BY NewMsgFields
  <2>2. [NewMsg(2) EXCEPT !.start_time = now] \in Messages
    BY <1>1, <2>1, MessageUpdates
  <2> QED BY <1>1, <1>26, <2>2 DEF P2Enter
<1>27. CASE P2Input
  <2>1. DriverGetState([msg EXCEPT !.bt = pressed]) \in Messages
    BY <1>1, MessageUpdates, GetStateFields
  <2>2. PICK pt0, pt1 \in AdcValues :
          /\ duty' = DutyOf(pt1)
          /\ period' = PeriodOf(pt0, 1000)
          /\ Send([DriverGetState([msg EXCEPT !.bt = pressed])
                    EXCEPT !.pwm_duty = duty', !.pwm_period = period'])
    BY <1>27 DEF P2Input
  <2>3. duty' \in DutyValues /\ period' \in PeriodValues
    BY <2>2, PotValues
  <2>4. [DriverGetState([msg EXCEPT !.bt = pressed])
           EXCEPT !.pwm_duty = duty', !.pwm_period = period'] \in Messages
    BY <2>1, <2>3, MessageUpdates
  <2> QED BY <2>2, <2>4 DEF Send
<1>28. CASE P2Start
  <2>1. [msg EXCEPT !.start_time = now] \in Messages
    BY <1>1, MessageUpdates
  <2> QED BY <1>1, <1>28, <2>1 DEF P2Start
<1>29. CASE P2Enable
  BY <1>29, <1>1 DEF P2Enable
<1>30. CASE P2Arm
  BY <1>30, <1>1 DEF P2Arm
<1>31. CASE P2Run
  <2>1. DriverGetState(msg) \in Messages
    BY <1>1, GetStateFields
  <2>2. [DriverGetState(msg) EXCEPT !.bt = pressed] \in Messages
    BY <1>1, <2>1, MessageUpdates
  <2> QED BY <1>31, <2>1, <2>2 DEF P2Run
<1>32. CASE P2LedOff
  BY <1>32, <1>1 DEF P2LedOff
<1>33. CASE P2Stop
  BY <1>33, <1>1 DEF P2Stop
<1>34. CASE P2Stopped
  <2>1. [msg EXCEPT !.end_time = now] \in Messages
    BY <1>1, MessageUpdates
  <2> QED BY <1>1, <1>34, <2>1 DEF P2Stopped, Send
<1>35. CASE P2Check
  BY <1>35, <1>1 DEF P2Check
<1>36. CASE P2Exit
  BY <1>36, <1>1 DEF P2Exit
<1>37. CASE P2Disarm
  BY <1>37, <1>1 DEF P2Disarm
<1>38. CASE P2End
  <2>1. [msg EXCEPT !.end_time = now] \in Messages
    BY <1>1, MessageUpdates
  <2>2. DriverGetState([msg EXCEPT !.end_time = now]) \in Messages
    BY <1>1, <2>1, GetStateFields
  <2> QED BY <1>38, <2>2 DEF P2End, Finish, Send
<1>39. CASE Timer3Interrupt
  BY <1>39, <1>1 DEF Timer3Interrupt
<1>40. CASE Tick
  BY <1>40, <1>1 DEF Tick
<1>41. CASE Press
  BY <1>41, <1>1 DEF Press
<1>42. CASE WatchdogReset
  <2>1. NewMsg(0) \in Messages
    BY NewMsgFields
  <2> QED BY <1>42, <2>1 DEF WatchdogReset
<1>43. CASE UNCHANGED vars
  BY <1>43, <1>1 DEF vars
<1> QED
  BY <1>2, <1>3, <1>4, <1>5, <1>6, <1>7, <1>8, <1>9, <1>10, <1>11, <1>12,
     <1>13, <1>14, <1>15, <1>16, <1>17, <1>18, <1>19, <1>20, <1>21, <1>22,
     <1>23, <1>24, <1>25, <1>26, <1>27, <1>28, <1>29, <1>30, <1>31, <1>32,
     <1>33, <1>34, <1>35, <1>36, <1>37, <1>38, <1>39, <1>40, <1>41, <1>42,
     <1>43
     DEF Next, MainThread, Procedure0, Procedure1, Procedure2

\* All other variables keep their types.
LEMMA ProgramTypeStep ==
  ASSUME TypeOK, CallIsSound, [Next]_vars
  PROVE  ProgramTypeOK'
<1>1. ProgramTypeOK /\ in1 \in {0, 1} /\ in2 \in {0, 1} /\ MaxMs \in Nat
  BY MaxMsAssumption DEF TypeOK, DriverTypeOK
<1>2. 0 \in DutyValues
  BY ValueBounds
<1> USE DEF At, GoTo, CallSetDirection, NoCall, Toggle, local, env, history,
            Steps, MainSteps, P0Steps, P1Steps, P2Steps, ProgramTypeOK
<1>3. CASE Boot
  BY <1>3, <1>1 DEF Boot
<1>4. CASE WaitForTransport
  BY <1>4, <1>1 DEF WaitForTransport
<1>5. CASE MainLoop
  BY <1>5, <1>1 DEF MainLoop
<1>6. CASE MainIdle
  BY <1>6, <1>1 DEF MainIdle
<1>7. CASE DriverSetIn1
  BY <1>7, <1>1 DEF DriverSetIn1
<1>8. CASE DriverSetIn2
  <2>1. call.ret # "none"
    BY <1>8 DEF DriverSetIn2, CallIsSound, InCall, Parking, Aiming
  <2> QED BY <1>1, <1>8, <2>1 DEF DriverSetIn2
<1>9. CASE P0Enter
  BY <1>9, <1>1 DEF P0Enter
<1>10. CASE P0Input
  BY <1>10, <1>1, PotValues DEF P0Input
<1>11. CASE P0Start
  BY <1>11, <1>1 DEF P0Start
<1>12. CASE P0Enable
  BY <1>12, <1>1 DEF P0Enable, SwitchOn
<1>13. CASE P0Run
  BY <1>13, <1>1 DEF P0Run
<1>14. CASE P0Check
  BY <1>14, <1>1 DEF P0Check
<1>15. CASE P0Stop
  BY <1>15, <1>1 DEF P0Stop, SwitchOff
<1>16. CASE P0End
  BY <1>16, <1>1 DEF P0End, Finish
<1>17. CASE P1Enter
  BY <1>17, <1>1 DEF P1Enter
<1>18. CASE P1Input
  BY <1>18, <1>1, PotValues DEF P1Input
<1>19. CASE P1Start
  BY <1>19, <1>1 DEF P1Start
<1>20. CASE P1Enable
  BY <1>20, <1>1 DEF P1Enable, SwitchOn
<1>21. CASE P1Run
  BY <1>21, <1>1 DEF P1Run
<1>22. CASE P1Stop
  BY <1>22, <1>1 DEF P1Stop, SwitchOff
<1>23. CASE P1Stopped
  BY <1>23, <1>1 DEF P1Stopped
<1>24. CASE P1Check
  BY <1>24, <1>1 DEF P1Check
<1>25. CASE P1Exit
  BY <1>25, <1>1 DEF P1Exit, SwitchOff
<1>26. CASE P1End
  BY <1>26, <1>1 DEF P1End, Finish
<1>27. CASE P2Enter
  BY <1>27, <1>1 DEF P2Enter
<1>28. CASE P2Input
  BY <1>28, <1>1, PotValues DEF P2Input
<1>29. CASE P2Start
  BY <1>29, <1>1 DEF P2Start
<1>30. CASE P2Enable
  BY <1>30, <1>1 DEF P2Enable, SwitchOn
<1>31. CASE P2Arm
  BY <1>31, <1>1 DEF P2Arm
<1>32. CASE P2Run
  BY <1>32, <1>1 DEF P2Run
<1>33. CASE P2LedOff
  BY <1>33, <1>1 DEF P2LedOff
<1>34. CASE P2Stop
  BY <1>34, <1>1 DEF P2Stop, SwitchOff
<1>35. CASE P2Stopped
  BY <1>35, <1>1 DEF P2Stopped
<1>36. CASE P2Check
  BY <1>36, <1>1 DEF P2Check
<1>37. CASE P2Exit
  BY <1>37, <1>1 DEF P2Exit, SwitchOff
<1>38. CASE P2Disarm
  BY <1>38, <1>1 DEF P2Disarm
<1>39. CASE P2End
  BY <1>39, <1>1 DEF P2End, Finish
<1>40. CASE Timer3Interrupt
  BY <1>40, <1>1 DEF Timer3Interrupt
<1>41. CASE Tick
  BY <1>41, <1>1 DEF Tick
<1>42. CASE Press
  BY <1>42, <1>1 DEF Press
<1>43. CASE WatchdogReset
  BY <1>43, <1>1, <1>2 DEF WatchdogReset
<1>44. CASE UNCHANGED vars
  BY <1>44, <1>1 DEF vars
<1> QED
  BY <1>3, <1>4, <1>5, <1>6, <1>7, <1>8, <1>9, <1>10, <1>11, <1>12, <1>13,
     <1>14, <1>15, <1>16, <1>17, <1>18, <1>19, <1>20, <1>21, <1>22, <1>23,
     <1>24, <1>25, <1>26, <1>27, <1>28, <1>29, <1>30, <1>31, <1>32, <1>33,
     <1>34, <1>35, <1>36, <1>37, <1>38, <1>39, <1>40, <1>41, <1>42, <1>43,
     <1>44
     DEF Next, MainThread, Procedure0, Procedure1, Procedure2

-----------------------------------------------------------------------------
(* The driver.                                                             *)

\* What the procedures pass to driver_enable.
LEMMA EnableArguments ==
  ASSUME TypeOK
  PROVE  /\ duty \in DutyValues
         /\ 5 \in PeriodValues \ {0}
         /\ period > 0 => period \in PeriodValues \ {0}
<1>1. duty \in DutyValues /\ period \in Nat /\ period <= 1000
  BY DEF TypeOK, ProgramTypeOK
<1> QED BY <1>1, ValueBounds

\* A port bit or the interrupt mask changes, or nothing of the driver.
LEMMA DriverUnchanged ==
  ASSUME DriverInv, UNCHANGED driverVars
  PROVE  DriverInv'
<1>1. DriverTypeOK'
  BY DEF DriverInv, DriverTypeOK, PwmTypeOK, driverVars, pwmVars
<1> QED BY <1>1, DriverRestInv DEF driverVars, pwmVars

\* The registers of the PWM stay consistent with the period that is reported.
LEMMA DriverStep ==
  ASSUME TypeOK, DriverInv, CallIsSound, PeriodIsReady, [Next]_vars
  PROVE  DriverInv'
<1>1. CASE Boot
  BY <1>1, DriverInitInv DEF Boot
<1>2. CASE WaitForTransport
  BY <1>2, DriverUnchanged DEF WaitForTransport
<1>3. CASE MainLoop
  BY <1>3, DriverUnchanged DEF MainLoop
<1>4. CASE MainIdle
  BY <1>4, DriverUnchanged DEF MainIdle
<1>5. CASE DriverSetIn1
  <2>1. call.in1 \in {0, 1}
    BY DEF TypeOK, ProgramTypeOK
  <2>2. DriverTypeOK'
    BY <1>5, <2>1 DEF DriverSetIn1, SetIn1, DriverInv, DriverTypeOK, PwmTypeOK,
                      pwmVars
  <2> QED BY <1>5, <2>2, DriverRestInv DEF DriverSetIn1, SetIn1, pwmVars
<1>6. CASE DriverSetIn2
  <2>1. call.in2 \in {0, 1}
    BY DEF TypeOK, ProgramTypeOK
  <2>2. DriverTypeOK'
    BY <1>6, <2>1 DEF DriverSetIn2, SetIn2, DriverInv, DriverTypeOK, PwmTypeOK,
                      pwmVars
  <2> QED BY <1>6, <2>2, DriverRestInv DEF DriverSetIn2, SetIn2, pwmVars
<1>7. CASE P0Enter
  BY <1>7, DriverUnchanged DEF P0Enter
<1>8. CASE P0Input
  BY <1>8, DriverUnchanged DEF P0Input
<1>9. CASE P0Start
  BY <1>9, DriverUnchanged DEF P0Start
<1>10. CASE P0Enable
  BY <1>10, EnableArguments, DriverEnableInv DEF P0Enable, SwitchOn
<1>11. CASE P0Run
  BY <1>11, DriverUnchanged DEF P0Run
<1>12. CASE P0Check
  BY <1>12, DriverUnchanged DEF P0Check
<1>13. CASE P0Stop
  BY <1>13, DriverDisableInv DEF P0Stop, SwitchOff
<1>14. CASE P0End
  BY <1>14, DriverUnchanged DEF P0End, Finish
<1>15. CASE P1Enter
  BY <1>15, DriverUnchanged DEF P1Enter
<1>16. CASE P1Input
  BY <1>16, DriverUnchanged DEF P1Input
<1>17. CASE P1Start
  BY <1>17, DriverUnchanged DEF P1Start
<1>18. CASE P1Enable
  <2>1. period > 0
    BY <1>18 DEF P1Enable, At, PeriodIsReady, Where, InCall
  <2> QED BY <1>18, <2>1, EnableArguments, DriverEnableInv DEF P1Enable, SwitchOn
<1>19. CASE P1Run
  BY <1>19, DriverUnchanged DEF P1Run
<1>20. CASE P1Stop
  BY <1>20, DriverDisableInv DEF P1Stop, SwitchOff
<1>21. CASE P1Stopped
  BY <1>21, DriverUnchanged DEF P1Stopped
<1>22. CASE P1Check
  BY <1>22, DriverUnchanged DEF P1Check
<1>23. CASE P1Exit
  BY <1>23, DriverDisableInv DEF P1Exit, SwitchOff
<1>24. CASE P1End
  BY <1>24, DriverUnchanged DEF P1End, Finish
<1>25. CASE P2Enter
  BY <1>25, DriverUnchanged DEF P2Enter
<1>26. CASE P2Input
  BY <1>26, DriverUnchanged DEF P2Input
<1>27. CASE P2Start
  BY <1>27, DriverUnchanged DEF P2Start
<1>28. CASE P2Enable
  <2>1. period > 0
    BY <1>28 DEF P2Enable, At, PeriodIsReady, Where, InCall
  <2> QED BY <1>28, <2>1, EnableArguments, DriverEnableInv DEF P2Enable, SwitchOn
<1>29. CASE P2Arm
  <2>1. DriverTypeOK'
    BY <1>29 DEF P2Arm, PwmSetInterruptCallback, DriverInv, DriverTypeOK, PwmTypeOK
  <2> QED BY <1>29, <2>1, DriverRestInv DEF P2Arm, PwmSetInterruptCallback
<1>30. CASE P2Run
  BY <1>30, DriverUnchanged DEF P2Run
<1>31. CASE P2LedOff
  BY <1>31, DriverUnchanged DEF P2LedOff
<1>32. CASE P2Stop
  BY <1>32, DriverDisableInv DEF P2Stop, SwitchOff
<1>33. CASE P2Stopped
  BY <1>33, DriverUnchanged DEF P2Stopped
<1>34. CASE P2Check
  BY <1>34, DriverUnchanged DEF P2Check
<1>35. CASE P2Exit
  BY <1>35, DriverDisableInv DEF P2Exit, SwitchOff
<1>36. CASE P2Disarm
  <2>1. DriverTypeOK'
    BY <1>36 DEF P2Disarm, PwmSetInterruptCallback, DriverInv, DriverTypeOK, PwmTypeOK
  <2> QED BY <1>36, <2>1, DriverRestInv DEF P2Disarm, PwmSetInterruptCallback
<1>37. CASE P2End
  BY <1>37, DriverUnchanged DEF P2End, Finish
<1>38. CASE Timer3Interrupt
  BY <1>38, DriverUnchanged DEF Timer3Interrupt
<1>39. CASE Tick
  BY <1>39, DriverUnchanged DEF Tick
<1>40. CASE Press
  BY <1>40, DriverUnchanged DEF Press
<1>41. CASE WatchdogReset
  <2>1. DriverReset'
    BY <1>41 DEF WatchdogReset, DriverReset, PwmReset
  <2>2. DriverReset' => DriverInv'
    BY DriverResetInv, PTL
  <2> QED BY <2>1, <2>2
<1>42. CASE UNCHANGED vars
  BY <1>42, DriverUnchanged DEF vars
<1> QED
  BY <1>1, <1>2, <1>3, <1>4, <1>5, <1>6, <1>7, <1>8, <1>9, <1>10, <1>11,
     <1>12, <1>13, <1>14, <1>15, <1>16, <1>17, <1>18, <1>19, <1>20, <1>21,
     <1>22, <1>23, <1>24, <1>25, <1>26, <1>27, <1>28, <1>29, <1>30, <1>31,
     <1>32, <1>33, <1>34, <1>35, <1>36, <1>37, <1>38, <1>39, <1>40, <1>41,
     <1>42
     DEF Next, MainThread, Procedure0, Procedure1, Procedure2

-----------------------------------------------------------------------------
(* The output and the direction inputs.                                    *)

Control == CallIsSound /\ OutputFollowsStep /\ DirectionFollowsStep

LEMMA ControlStep ==
  ASSUME TypeOK, DriverInv, Control, PeriodIsReady, [Next]_vars
  PROVE  Control'
<1> USE DEF Control, CallIsSound, OutputFollowsStep, DirectionFollowsStep,
            Where, InCall, Parking, Aiming, OnSteps, AimedSteps,
            At, GoTo, CallSetDirection, driverVars, pwmVars
<1>1. in1 \in {0, 1} /\ in2 \in {0, 1}
  BY DEF TypeOK, DriverTypeOK
<1>2. CASE Boot
  BY <1>2, <1>1 DEF Boot, DriverInit, PwmInit
<1>3. CASE WaitForTransport
  BY <1>3, <1>1 DEF WaitForTransport
<1>4. CASE MainLoop
  BY <1>4, <1>1 DEF MainLoop
<1>5. CASE MainIdle
  BY <1>5, <1>1 DEF MainIdle
<1>6. CASE DriverSetIn1
  BY <1>6, <1>1 DEF DriverSetIn1, SetIn1
<1>7. CASE DriverSetIn2
  BY <1>7, <1>1 DEF DriverSetIn2, SetIn2
<1>8. CASE P0Enter
  BY <1>8, <1>1 DEF P0Enter
<1>9. CASE P0Input
  BY <1>9, <1>1 DEF P0Input
<1>10. CASE P0Start
  BY <1>10, <1>1 DEF P0Start
<1>11. CASE P0Enable
  <2>1. DriverEnable(duty, 5) /\ 5 \in PeriodValues \ {0}
    BY <1>11, EnableArguments DEF P0Enable, SwitchOn
  <2>2. com' = 1 /\ clk' # 0
    BY <2>1, EnableArguments, DriverEnableInv
  <2> QED BY <1>11, <2>1, <2>2 DEF P0Enable, DriverEnable
<1>12. CASE P0Run
  BY <1>12, <1>1 DEF P0Run, Toggle
<1>13. CASE P0Check
  BY <1>13, <1>1 DEF P0Check
<1>14. CASE P0Stop
  BY <1>14, <1>1 DEF P0Stop, SwitchOff, DriverDisable, PwmDisable
<1>15. CASE P0End
  BY <1>15, <1>1 DEF P0End, Finish
<1>16. CASE P1Enter
  BY <1>16, <1>1 DEF P1Enter
<1>17. CASE P1Input
  BY <1>17, <1>1 DEF P1Input
<1>18. CASE P1Start
  BY <1>18, <1>1 DEF P1Start, Toggle
<1>19. CASE P1Enable
  <2>1. DriverEnable(duty, period) /\ period \in PeriodValues \ {0}
    BY <1>19, EnableArguments DEF P1Enable, SwitchOn, PeriodIsReady
  <2>2. com' = 1 /\ clk' # 0
    BY <2>1, EnableArguments, DriverEnableInv
  <2> QED BY <1>19, <2>1, <2>2 DEF P1Enable, DriverEnable
<1>20. CASE P1Run
  BY <1>20, <1>1 DEF P1Run
<1>21. CASE P1Stop
  BY <1>21, <1>1 DEF P1Stop, SwitchOff, DriverDisable, PwmDisable
<1>22. CASE P1Stopped
  BY <1>22, <1>1 DEF P1Stopped
<1>23. CASE P1Check
  BY <1>23, <1>1 DEF P1Check
<1>24. CASE P1Exit
  BY <1>24, <1>1 DEF P1Exit, SwitchOff, DriverDisable, PwmDisable
<1>25. CASE P1End
  BY <1>25, <1>1 DEF P1End, Finish
<1>26. CASE P2Enter
  BY <1>26, <1>1 DEF P2Enter
<1>27. CASE P2Input
  BY <1>27, <1>1 DEF P2Input
<1>28. CASE P2Start
  BY <1>28, <1>1 DEF P2Start
<1>29. CASE P2Enable
  <2>1. DriverEnable(duty, period) /\ period \in PeriodValues \ {0}
    BY <1>29, EnableArguments DEF P2Enable, SwitchOn, PeriodIsReady
  <2>2. com' = 1 /\ clk' # 0
    BY <2>1, EnableArguments, DriverEnableInv
  <2> QED BY <1>29, <2>1, <2>2 DEF P2Enable, DriverEnable
<1>30. CASE P2Arm
  BY <1>30, <1>1 DEF P2Arm, PwmSetInterruptCallback
<1>31. CASE P2Run
  BY <1>31, <1>1 DEF P2Run
<1>32. CASE P2LedOff
  BY <1>32, <1>1 DEF P2LedOff
<1>33. CASE P2Stop
  BY <1>33, <1>1 DEF P2Stop, SwitchOff, DriverDisable, PwmDisable
<1>34. CASE P2Stopped
  BY <1>34, <1>1 DEF P2Stopped
<1>35. CASE P2Check
  BY <1>35, <1>1 DEF P2Check
<1>36. CASE P2Exit
  BY <1>36, <1>1 DEF P2Exit, SwitchOff, DriverDisable, PwmDisable
<1>37. CASE P2Disarm
  BY <1>37, <1>1 DEF P2Disarm, PwmSetInterruptCallback
<1>38. CASE P2End
  BY <1>38, <1>1 DEF P2End, Finish
<1>39. CASE Timer3Interrupt
  BY <1>39, <1>1 DEF Timer3Interrupt
<1>40. CASE Tick
  BY <1>40, <1>1 DEF Tick
<1>41. CASE Press
  BY <1>41, <1>1 DEF Press
<1>42. CASE WatchdogReset
  BY <1>42, <1>1 DEF WatchdogReset
<1>43. CASE UNCHANGED vars
  BY <1>43, <1>1 DEF vars
<1> QED
  BY <1>2, <1>3, <1>4, <1>5, <1>6, <1>7, <1>8, <1>9, <1>10, <1>11, <1>12,
     <1>13, <1>14, <1>15, <1>16, <1>17, <1>18, <1>19, <1>20, <1>21, <1>22,
     <1>23, <1>24, <1>25, <1>26, <1>27, <1>28, <1>29, <1>30, <1>31, <1>32,
     <1>33, <1>34, <1>35, <1>36, <1>37, <1>38, <1>39, <1>40, <1>41, <1>42,
     <1>43
     DEF Next, MainThread, Procedure0, Procedure1, Procedure2

-----------------------------------------------------------------------------
(* The timer interrupts and the duty.                                      *)

\* Procedure 2 arms the interrupts after its run has started and disarms them
\* before it returns.
LEMMA ArmedStep ==
  ASSUME Control, ArmedOnlyInRun, [Next]_vars
  PROVE  ArmedOnlyInRun'
<1> USE DEF ArmedOnlyInRun, Where, InCall, P2Steps, At, GoTo, CallSetDirection,
            driverVars, pwmVars, NoCallback, LedCallback
<1>1. CASE Boot
  BY <1>1 DEF Boot, DriverInit, PwmInit
<1>2. CASE WaitForTransport
  BY <1>2 DEF WaitForTransport
<1>3. CASE MainLoop
  BY <1>3 DEF MainLoop
<1>4. CASE MainIdle
  BY <1>4 DEF MainIdle
<1>5. CASE DriverSetIn1
  BY <1>5 DEF DriverSetIn1, SetIn1
<1>6. CASE DriverSetIn2
  BY <1>6 DEF DriverSetIn2, SetIn2
<1>7. CASE P0Enter
  BY <1>7 DEF P0Enter
<1>8. CASE P0Input
  BY <1>8 DEF P0Input
<1>9. CASE P0Start
  BY <1>9 DEF P0Start
<1>10. CASE P0Enable
  BY <1>10 DEF P0Enable, SwitchOn, DriverEnable, PwmEnable
<1>11. CASE P0Run
  BY <1>11 DEF P0Run
<1>12. CASE P0Check
  BY <1>12 DEF P0Check
<1>13. CASE P0Stop
  BY <1>13 DEF P0Stop, SwitchOff, DriverDisable, PwmDisable
<1>14. CASE P0End
  BY <1>14 DEF P0End, Finish
<1>15. CASE P1Enter
  BY <1>15 DEF P1Enter
<1>16. CASE P1Input
  BY <1>16 DEF P1Input
<1>17. CASE P1Start
  BY <1>17 DEF P1Start
<1>18. CASE P1Enable
  BY <1>18 DEF P1Enable, SwitchOn, DriverEnable, PwmEnable
<1>19. CASE P1Run
  BY <1>19 DEF P1Run
<1>20. CASE P1Stop
  BY <1>20 DEF P1Stop, SwitchOff, DriverDisable, PwmDisable
<1>21. CASE P1Stopped
  BY <1>21 DEF P1Stopped
<1>22. CASE P1Check
  BY <1>22 DEF P1Check
<1>23. CASE P1Exit
  BY <1>23 DEF P1Exit, SwitchOff, DriverDisable, PwmDisable
<1>24. CASE P1End
  BY <1>24 DEF P1End, Finish
<1>25. CASE P2Enter
  BY <1>25 DEF P2Enter
<1>26. CASE P2Input
  BY <1>26 DEF P2Input
<1>27. CASE P2Start
  BY <1>27 DEF P2Start
<1>28. CASE P2Enable
  BY <1>28 DEF P2Enable, SwitchOn, DriverEnable, PwmEnable
<1>29. CASE P2Arm
  BY <1>29 DEF P2Arm, PwmSetInterruptCallback
<1>30. CASE P2Run
  BY <1>30 DEF P2Run
<1>31. CASE P2LedOff
  BY <1>31 DEF P2LedOff
<1>32. CASE P2Stop
  BY <1>32 DEF P2Stop, SwitchOff, DriverDisable, PwmDisable
<1>33. CASE P2Stopped
  BY <1>33 DEF P2Stopped
<1>34. CASE P2Check
  BY <1>34 DEF P2Check
<1>35. CASE P2Exit
  BY <1>35 DEF P2Exit, SwitchOff, DriverDisable, PwmDisable
<1>36. CASE P2Disarm
  BY <1>36 DEF P2Disarm, PwmSetInterruptCallback
<1>37. CASE P2End
  BY <1>37 DEF P2End, Finish
<1>38. CASE Timer3Interrupt
  BY <1>38 DEF Timer3Interrupt
<1>39. CASE Tick
  BY <1>39 DEF Tick
<1>40. CASE Press
  BY <1>40 DEF Press
<1>41. CASE WatchdogReset
  BY <1>41 DEF WatchdogReset
<1>42. CASE UNCHANGED vars
  BY <1>42 DEF vars
<1> QED
  BY <1>1, <1>2, <1>3, <1>4, <1>5, <1>6, <1>7, <1>8, <1>9, <1>10, <1>11,
     <1>12, <1>13, <1>14, <1>15, <1>16, <1>17, <1>18, <1>19, <1>20, <1>21,
     <1>22, <1>23, <1>24, <1>25, <1>26, <1>27, <1>28, <1>29, <1>30, <1>31,
     <1>32, <1>33, <1>34, <1>35, <1>36, <1>37, <1>38, <1>39, <1>40, <1>41,
     <1>42
     DEF Next, MainThread, Procedure0, Procedure1, Procedure2

\* A run starts with its own settings, and the procedure does not read the pots
\* again while the output is on.
LEMMA SettingsStep ==
  ASSUME TypeOK, DriverInv, Control, PeriodIsReady, SettingsAreApplied, [Next]_vars
  PROVE  SettingsAreApplied'
<1> USE DEF SettingsAreApplied, ChosenPeriod, P0Steps, Powered, driverVars,
            pwmVars, Where, InCall, At, GoTo, CallSetDirection
<1>1. CASE Boot
  BY <1>1 DEF Boot, DriverInit, PwmInit
<1>2. CASE WaitForTransport
  BY <1>2 DEF WaitForTransport, local
<1>3. CASE MainLoop
  BY <1>3 DEF MainLoop, Control, OutputFollowsStep, OnSteps
<1>4. CASE MainIdle
  BY <1>4 DEF MainIdle, local
<1>5. CASE DriverSetIn1
  BY <1>5 DEF DriverSetIn1, SetIn1, local
<1>6. CASE DriverSetIn2
  <2>1. call.ret \notin {"set_in1", "set_in2"}
    BY <1>6 DEF DriverSetIn2, Control, CallIsSound, Parking, Aiming
  <2> QED BY <1>6, <2>1 DEF DriverSetIn2, SetIn2, local
<1>7. CASE P0Enter
  BY <1>7 DEF P0Enter, local
<1>8. CASE P0Input
  <2>1. com = 0
    BY <1>8 DEF P0Input, At, Control, OutputFollowsStep, Where, InCall, OnSteps
  <2> QED BY <1>8, <2>1 DEF P0Input
<1>9. CASE P0Start
  BY <1>9 DEF P0Start, local
<1>10. CASE P0Enable
  <2>1. DriverEnable(duty, 5) /\ 5 \in PeriodValues \ {0}
    BY <1>10, EnableArguments DEF P0Enable, SwitchOn
  <2>2. /\ cs' = CsBits(Cycles(5)) /\ icr' = TopValue(Cycles(5))
        /\ ocr' = DutyCycle(icr', duty)
        /\ g_pwm_duty' = duty /\ g_pwm_period' = 5
    BY <2>1, EnableArguments, DriverEnableInv
  <2> QED BY <1>10, <2>2 DEF P0Enable, local
<1>11. CASE P0Run
  BY <1>11 DEF P0Run, local
<1>12. CASE P0Check
  BY <1>12 DEF P0Check, local
<1>13. CASE P0Stop
  BY <1>13 DEF P0Stop, SwitchOff, DriverDisable, PwmDisable
<1>14. CASE P0End
  BY <1>14 DEF P0End, Finish, Control, OutputFollowsStep, OnSteps
<1>15. CASE P1Enter
  BY <1>15 DEF P1Enter, local
<1>16. CASE P1Input
  <2>1. com = 0
    BY <1>16 DEF P1Input, At, Control, OutputFollowsStep, Where, InCall, OnSteps
  <2> QED BY <1>16, <2>1 DEF P1Input
<1>17. CASE P1Start
  BY <1>17 DEF P1Start, local
<1>18. CASE P1Enable
  <2>1. DriverEnable(duty, period) /\ period \in PeriodValues \ {0}
    BY <1>18, EnableArguments DEF P1Enable, SwitchOn, PeriodIsReady, At, Where, InCall
  <2>2. /\ cs' = CsBits(Cycles(period)) /\ icr' = TopValue(Cycles(period))
        /\ ocr' = DutyCycle(icr', duty)
        /\ g_pwm_duty' = duty /\ g_pwm_period' = period
    BY <2>1, EnableArguments, DriverEnableInv
  <2> QED BY <1>18, <2>2 DEF P1Enable, local
<1>19. CASE P1Run
  BY <1>19 DEF P1Run, local
<1>20. CASE P1Stop
  BY <1>20 DEF P1Stop, SwitchOff, DriverDisable, PwmDisable
<1>21. CASE P1Stopped
  BY <1>21 DEF P1Stopped, local
<1>22. CASE P1Check
  BY <1>22 DEF P1Check, local
<1>23. CASE P1Exit
  BY <1>23 DEF P1Exit, SwitchOff, DriverDisable, PwmDisable
<1>24. CASE P1End
  BY <1>24 DEF P1End, Finish, local
<1>25. CASE P2Enter
  BY <1>25 DEF P2Enter, local
<1>26. CASE P2Input
  <2>1. com = 0
    BY <1>26 DEF P2Input, At, Control, OutputFollowsStep, Where, InCall, OnSteps
  <2> QED BY <1>26, <2>1 DEF P2Input
<1>27. CASE P2Start
  BY <1>27 DEF P2Start, local
<1>28. CASE P2Enable
  <2>1. DriverEnable(duty, period) /\ period \in PeriodValues \ {0}
    BY <1>28, EnableArguments DEF P2Enable, SwitchOn, PeriodIsReady, At, Where, InCall
  <2>2. /\ cs' = CsBits(Cycles(period)) /\ icr' = TopValue(Cycles(period))
        /\ ocr' = DutyCycle(icr', duty)
        /\ g_pwm_duty' = duty /\ g_pwm_period' = period
    BY <2>1, EnableArguments, DriverEnableInv
  <2> QED BY <1>28, <2>2 DEF P2Enable, local
<1>29. CASE P2Arm
  BY <1>29 DEF P2Arm, PwmSetInterruptCallback, local
<1>30. CASE P2Run
  BY <1>30 DEF P2Run, local
<1>31. CASE P2LedOff
  BY <1>31 DEF P2LedOff, local
<1>32. CASE P2Stop
  BY <1>32 DEF P2Stop, SwitchOff, DriverDisable, PwmDisable
<1>33. CASE P2Stopped
  BY <1>33 DEF P2Stopped, local
<1>34. CASE P2Check
  BY <1>34 DEF P2Check, local
<1>35. CASE P2Exit
  BY <1>35 DEF P2Exit, SwitchOff, DriverDisable, PwmDisable
<1>36. CASE P2Disarm
  BY <1>36 DEF P2Disarm, PwmSetInterruptCallback, local
<1>37. CASE P2End
  BY <1>37 DEF P2End, Finish, local
<1>38. CASE Timer3Interrupt
  BY <1>38 DEF Timer3Interrupt, local
<1>39. CASE Tick
  BY <1>39 DEF Tick, local
<1>40. CASE Press
  BY <1>40 DEF Press, local
<1>41. CASE WatchdogReset
  BY <1>41 DEF WatchdogReset, local
<1>42. CASE UNCHANGED vars
  BY <1>42 DEF vars, local
<1> QED
  BY <1>1, <1>2, <1>3, <1>4, <1>5, <1>6, <1>7, <1>8, <1>9, <1>10, <1>11,
     <1>12, <1>13, <1>14, <1>15, <1>16, <1>17, <1>18, <1>19, <1>20, <1>21,
     <1>22, <1>23, <1>24, <1>25, <1>26, <1>27, <1>28, <1>29, <1>30, <1>31,
     <1>32, <1>33, <1>34, <1>35, <1>36, <1>37, <1>38, <1>39, <1>40, <1>41,
     <1>42
     DEF Next, MainThread, Procedure0, Procedure1, Procedure2

-----------------------------------------------------------------------------
(* The messages.                                                           *)

Announced == MessageFollowsStep /\ PeriodIsReady /\ RunIsAnnounced

LEMMA AnnouncedStep ==
  ASSUME TypeOK, CallIsSound, Announced, [Next]_vars
  PROVE  Announced'
<1>1. msg \in Messages /\ sent \in Messages /\ DriverTypeOK
  BY DEF TypeOK
<1> USE DEF Announced, MessageFollowsStep, PeriodIsReady, RunIsAnnounced,
            CallIsSound, Parking, Aiming, P0Steps, P1Steps, P2Steps, AimedSteps,
            Where, InCall, At, GoTo, CallSetDirection, local
<1>2. CASE Boot
  BY <1>2 DEF Boot
<1>3. CASE WaitForTransport
  BY <1>3, NewMsgFields DEF WaitForTransport
<1>4. CASE MainLoop
  BY <1>4, <1>1 DEF MainLoop, Messages
<1>5. CASE MainIdle
  <2>1. [msg EXCEPT !.running_proc = Idle].running_proc = Idle
    BY <1>1 DEF Messages
  <2>2. DriverGetState([msg EXCEPT !.running_proc = Idle, !.start_time = now,
                                   !.end_time = now]).running_proc = Idle
    BY <1>1 DEF Messages, DriverGetState
  <2> QED BY <1>5, <2>1, <2>2 DEF MainIdle, Send
<1>6. CASE DriverSetIn1
  BY <1>6 DEF DriverSetIn1
<1>7. CASE DriverSetIn2
  BY <1>7 DEF DriverSetIn2
<1>8. CASE P0Enter
  BY <1>8, NewMsgFields DEF P0Enter
<1>9. CASE P0Input
  BY <1>9, <1>1 DEF P0Input, Messages, DriverGetState, Send
<1>10. CASE P0Start
  BY <1>10, <1>1 DEF P0Start, Messages
<1>11. CASE P0Enable
  BY <1>11 DEF P0Enable
<1>12. CASE P0Run
  BY <1>12, <1>1 DEF P0Run, Messages, DriverGetState, Send
<1>13. CASE P0Check
  BY <1>13 DEF P0Check
<1>14. CASE P0Stop
  BY <1>14 DEF P0Stop
<1>15. CASE P0End
  BY <1>15, <1>1 DEF P0End, Messages, DriverGetState, Finish, Send
<1>16. CASE P1Enter
  BY <1>16, NewMsgFields DEF P1Enter, Messages, Idle
<1>17. CASE P1Input
  BY <1>17, <1>1, PotValues DEF P1Input, Messages, DriverGetState, Send
<1>18. CASE P1Start
  BY <1>18, <1>1 DEF P1Start, Messages
<1>19. CASE P1Enable
  BY <1>19 DEF P1Enable
<1>20. CASE P1Run
  BY <1>20, <1>1 DEF P1Run, Messages, DriverGetState
<1>21. CASE P1Stop
  BY <1>21 DEF P1Stop
<1>22. CASE P1Stopped
  BY <1>22, <1>1 DEF P1Stopped, Messages, Send
<1>23. CASE P1Check
  BY <1>23 DEF P1Check
<1>24. CASE P1Exit
  BY <1>24 DEF P1Exit
<1>25. CASE P1End
  BY <1>25, <1>1 DEF P1End, Messages, DriverGetState, Finish, Send
<1>26. CASE P2Enter
  BY <1>26, NewMsgFields DEF P2Enter, Messages, Idle
<1>27. CASE P2Input
  BY <1>27, <1>1, PotValues DEF P2Input, Messages, DriverGetState, Send
<1>28. CASE P2Start
  BY <1>28, <1>1 DEF P2Start, Messages
<1>29. CASE P2Enable
  BY <1>29 DEF P2Enable
<1>30. CASE P2Arm
  BY <1>30 DEF P2Arm
<1>31. CASE P2Run
  BY <1>31, <1>1 DEF P2Run, Messages, DriverGetState
<1>32. CASE P2LedOff
  BY <1>32 DEF P2LedOff
<1>33. CASE P2Stop
  BY <1>33 DEF P2Stop
<1>34. CASE P2Stopped
  BY <1>34, <1>1 DEF P2Stopped, Messages, Send
<1>35. CASE P2Check
  BY <1>35 DEF P2Check
<1>36. CASE P2Exit
  BY <1>36 DEF P2Exit
<1>37. CASE P2Disarm
  BY <1>37 DEF P2Disarm
<1>38. CASE P2End
  BY <1>38, <1>1 DEF P2End, Messages, DriverGetState, Finish, Send
<1>39. CASE Timer3Interrupt
  BY <1>39 DEF Timer3Interrupt
<1>40. CASE Tick
  BY <1>40 DEF Tick
<1>41. CASE Press
  BY <1>41 DEF Press
<1>42. CASE WatchdogReset
  BY <1>42, NewMsgFields DEF WatchdogReset
<1>43. CASE UNCHANGED vars
  BY <1>43 DEF vars
<1> QED
  BY <1>2, <1>3, <1>4, <1>5, <1>6, <1>7, <1>8, <1>9, <1>10, <1>11, <1>12,
     <1>13, <1>14, <1>15, <1>16, <1>17, <1>18, <1>19, <1>20, <1>21, <1>22,
     <1>23, <1>24, <1>25, <1>26, <1>27, <1>28, <1>29, <1>30, <1>31, <1>32,
     <1>33, <1>34, <1>35, <1>36, <1>37, <1>38, <1>39, <1>40, <1>41, <1>42,
     <1>43
     DEF Next, MainThread, Procedure0, Procedure1, Procedure2

-----------------------------------------------------------------------------
(* The stamps and the final report.                                        *)

LEMMA TimelineStep ==
  ASSUME TypeOK, CallIsSound, OutputFollowsStep, MessageFollowsStep, Timeline,
         [Next]_vars
  PROVE  Timeline'
<1>1. /\ msg \in Messages /\ sent \in Messages /\ DriverTypeOK
      /\ now \in Nat /\ onAt \in Nat /\ offAt \in Nat
  BY MaxMsAssumption DEF TypeOK, ProgramTypeOK
<1>2. com = 1 <=> Where \in OnSteps
  BY DEF OutputFollowsStep
<1> USE DEF Timeline, CallIsSound, Parking, Aiming, OnSteps,
            Where, InCall, At, GoTo, CallSetDirection, env, history
<1>3. CASE Boot
  BY <1>3, <1>1 DEF Boot
<1>4. CASE WaitForTransport
  BY <1>4, <1>1, NewMsgFields DEF WaitForTransport
<1>5. CASE MainLoop
  BY <1>5, <1>1 DEF MainLoop, Messages
<1>6. CASE MainIdle
  <2>1. /\ msg'.running_proc = Idle
        /\ msg'.start_time \in {msg.start_time, now}
    <3>1. DriverGetState([msg EXCEPT !.running_proc = Idle,
                          !.start_time = now, !.end_time = now]).start_time = now
      BY <1>1 DEF Messages, DriverGetState
    <3>2. DriverGetState([msg EXCEPT !.running_proc = Idle,
                          !.start_time = now, !.end_time = now]).running_proc = Idle
      BY <1>1 DEF Messages, DriverGetState
    <3> QED BY <1>1, <1>6, <3>1, <3>2 DEF MainIdle, Messages, Send
  <2> QED BY <1>1, <1>6, <2>1 DEF MainIdle
<1>7. CASE DriverSetIn1
  BY <1>7, <1>1 DEF DriverSetIn1
<1>8. CASE DriverSetIn2
  BY <1>8, <1>1 DEF DriverSetIn2
<1>9. CASE P0Enter
  BY <1>9, <1>1, NewMsgFields DEF P0Enter
<1>10. CASE P0Input
  BY <1>10, <1>1 DEF P0Input, Messages, DriverGetState, Send
<1>11. CASE P0Start
  BY <1>11, <1>1 DEF P0Start, Messages
<1>12. CASE P0Enable
  BY <1>12, <1>1 DEF P0Enable, SwitchOn
<1>13. CASE P0Run
  BY <1>13, <1>1 DEF P0Run, Messages, DriverGetState, Send
<1>14. CASE P0Check
  BY <1>14, <1>1 DEF P0Check
<1>15. CASE P0Stop
  BY <1>15, <1>1, <1>2 DEF P0Stop, SwitchOff
<1>16. CASE P0End
  BY <1>16, <1>1 DEF P0End, Messages, DriverGetState, Finish, Send
<1>17. CASE P1Enter
  BY <1>17, <1>1, NewMsgFields DEF P1Enter, Messages, Idle
<1>18. CASE P1Input
  BY <1>18, <1>1 DEF P1Input, Messages, DriverGetState, Send
<1>19. CASE P1Start
  BY <1>19, <1>1 DEF P1Start, Messages
<1>20. CASE P1Enable
  BY <1>20, <1>1 DEF P1Enable, SwitchOn
<1>21. CASE P1Run
  BY <1>21, <1>1 DEF P1Run, Messages, DriverGetState
<1>22. CASE P1Stop
  BY <1>22, <1>1, <1>2 DEF P1Stop, SwitchOff
<1>23. CASE P1Stopped
  BY <1>23, <1>1 DEF P1Stopped, Messages, Send
<1>24. CASE P1Check
  BY <1>24, <1>1 DEF P1Check
<1>25. CASE P1Exit
  BY <1>25, <1>1, <1>2 DEF P1Exit, SwitchOff
<1>26. CASE P1End
  BY <1>26, <1>1 DEF P1End, Messages, DriverGetState, Finish, Send
<1>27. CASE P2Enter
  BY <1>27, <1>1, NewMsgFields DEF P2Enter, Messages, Idle
<1>28. CASE P2Input
  BY <1>28, <1>1 DEF P2Input, Messages, DriverGetState, Send
<1>29. CASE P2Start
  BY <1>29, <1>1 DEF P2Start, Messages
<1>30. CASE P2Enable
  BY <1>30, <1>1 DEF P2Enable, SwitchOn
<1>31. CASE P2Arm
  BY <1>31, <1>1 DEF P2Arm
<1>32. CASE P2Run
  BY <1>32, <1>1 DEF P2Run, Messages, DriverGetState
<1>33. CASE P2LedOff
  BY <1>33, <1>1 DEF P2LedOff
<1>34. CASE P2Stop
  BY <1>34, <1>1, <1>2 DEF P2Stop, SwitchOff
<1>35. CASE P2Stopped
  BY <1>35, <1>1 DEF P2Stopped, Messages, Send
<1>36. CASE P2Check
  BY <1>36, <1>1 DEF P2Check
<1>37. CASE P2Exit
  BY <1>37, <1>1, <1>2 DEF P2Exit, SwitchOff
<1>38. CASE P2Disarm
  BY <1>38, <1>1 DEF P2Disarm
<1>39. CASE P2End
  BY <1>39, <1>1 DEF P2End, Messages, DriverGetState, Finish, Send
<1>40. CASE Timer3Interrupt
  BY <1>40, <1>1 DEF Timer3Interrupt
<1>41. CASE Tick
  BY <1>41, <1>1 DEF Tick, Messages
<1>42. CASE Press
  BY <1>42, <1>1 DEF Press
<1>43. CASE WatchdogReset
  BY <1>43, <1>1, NewMsgFields DEF WatchdogReset
<1>44. CASE UNCHANGED vars
  BY <1>44, <1>1 DEF vars
<1> QED
  BY <1>3, <1>4, <1>5, <1>6, <1>7, <1>8, <1>9, <1>10, <1>11, <1>12, <1>13,
     <1>14, <1>15, <1>16, <1>17, <1>18, <1>19, <1>20, <1>21, <1>22, <1>23,
     <1>24, <1>25, <1>26, <1>27, <1>28, <1>29, <1>30, <1>31, <1>32, <1>33,
     <1>34, <1>35, <1>36, <1>37, <1>38, <1>39, <1>40, <1>41, <1>42, <1>43,
     <1>44
     DEF Next, MainThread, Procedure0, Procedure1, Procedure2

\* All ways out of a procedure end in Finish, with the driver at rest.
LEMMA FinishReports ==
  ASSUME TypeOK, Control, Timeline, MessageFollowsStep,
         pc \in {"p0_end", "p1_end", "p2_end"}, Finish
  PROVE  FinalReport' /\ DarkOnReturn'
<1> DEFINE m == [msg EXCEPT !.end_time = now]
<1>1. /\ m \in Messages /\ m.end_time = now /\ m.start_time = msg.start_time
      /\ m.running_proc = msg.running_proc
  BY MaxMsAssumption DEF TypeOK, ProgramTypeOK, Messages
<1>2. /\ sent' = DriverGetState(m) /\ msg' = sent' /\ led' = 0
      /\ onAt' = onAt /\ offAt' = offAt
  BY DEF Finish, Send, history
<1> HIDE DEF m
<1>3. /\ sent'.in1 = in1 /\ sent'.in2 = in2 /\ sent'.en = g_pwm_duty
      /\ sent'.end_time = now /\ sent'.start_time = msg.start_time
  BY <1>1, <1>2, GetStateFields DEF TypeOK
<1>4. Where \notin OnSteps /\ ~InCall /\ pc \notin AimedSteps
  BY DEF Where, InCall, OnSteps, AimedSteps
<1>5. in1 = 0 /\ in2 = 0 /\ g_pwm_duty = 0
  BY <1>4 DEF Control, OutputFollowsStep, DirectionFollowsStep, Where
<1>6. msg.running_proc # Idle
  BY DEF MessageFollowsStep, Where, InCall, P0Steps, P1Steps, P2Steps, Idle
<1> QED
  BY <1>2, <1>3, <1>4, <1>5, <1>6 DEF FinalReport, DarkOnReturn, Timeline

LEMMA ReportStep ==
  ASSUME TypeOK, Control, ArmedOnlyInRun, MessageFollowsStep, Timeline,
         FinalReport, DarkOnReturn, [Next]_vars
  PROVE  FinalReport' /\ DarkOnReturn'
<1>1. CASE P0End \/ P1End \/ P2End
  BY <1>1, FinishReports DEF P0End, P1End, P2End, At
<1>2. CASE MainLoop
  <2>1. msg'.running_proc = Idle
    BY <1>2 DEF MainLoop, TypeOK, Messages, MessageFollowsStep, At, Where, InCall
  <2> QED BY <2>1 DEF FinalReport, DarkOnReturn, Returned
<1>3. CASE Timer3Interrupt
  <2>1. pc # "main_idle"
    BY <1>3 DEF Timer3Interrupt, ArmedOnlyInRun, Where, InCall
  <2> QED BY <1>3, <2>1 DEF Timer3Interrupt, FinalReport, DarkOnReturn, Returned
<1>4. CASE Tick \/ Press \/ UNCHANGED vars
  BY <1>4 DEF Tick, Press, vars, history, FinalReport, DarkOnReturn, Returned
<1>5. CASE DriverSetIn2
  BY <1>5 DEF DriverSetIn2, Control, CallIsSound, InCall, Parking, Aiming, At,
              FinalReport, DarkOnReturn, Returned
<1>6. CASE \/ Boot \/ WaitForTransport \/ MainIdle \/ DriverSetIn1
           \/ WatchdogReset
  BY <1>6 DEF Boot, WaitForTransport, MainIdle, DriverSetIn1, WatchdogReset,
              GoTo, FinalReport, DarkOnReturn, Returned
<1>7. CASE \/ P0Enter \/ P0Input \/ P0Start \/ P0Enable \/ P0Run \/ P0Check
           \/ P0Stop
  BY <1>7 DEF P0Enter, P0Input, P0Start, P0Enable, P0Run, P0Check, P0Stop,
              GoTo, CallSetDirection, FinalReport, DarkOnReturn, Returned
<1>8. CASE \/ P1Enter \/ P1Input \/ P1Start \/ P1Enable \/ P1Run \/ P1Stop
           \/ P1Stopped \/ P1Check \/ P1Exit
  BY <1>8 DEF P1Enter, P1Input, P1Start, P1Enable, P1Run, P1Stop, P1Stopped,
              P1Check, P1Exit,
              GoTo, CallSetDirection, FinalReport, DarkOnReturn, Returned
<1>9. CASE \/ P2Enter \/ P2Input \/ P2Start \/ P2Enable \/ P2Arm \/ P2Run
           \/ P2LedOff \/ P2Stop \/ P2Stopped \/ P2Check \/ P2Exit \/ P2Disarm
  BY <1>9 DEF P2Enter, P2Input, P2Start, P2Enable, P2Arm, P2Run, P2LedOff,
              P2Stop, P2Stopped, P2Check, P2Exit, P2Disarm,
              GoTo, CallSetDirection, FinalReport, DarkOnReturn, Returned
<1> QED
  BY <1>1, <1>2, <1>3, <1>4, <1>5, <1>6, <1>7, <1>8, <1>9
     DEF Next, MainThread, Procedure0, Procedure1, Procedure2

-----------------------------------------------------------------------------
(* The inductive invariant and what follows from it.                       *)

IInv == /\ TypeOK /\ DriverInv
        /\ Discipline
        /\ Timeline /\ FinalReport /\ DarkOnReturn

LEMMA InitIInv == Init => IInv
<1> SUFFICES ASSUME Init PROVE IInv
  OBVIOUS
<1>1. DriverInv
  BY DriverResetInv DEF Init
<1>2. TypeOK
  <2>1. NewMsg(0) \in Messages /\ 0 \in DutyValues
    BY NewMsgFields, ValueBounds
  <2>2. ProgramTypeOK
    BY <2>1, MaxMsAssumption
       DEF Init, ProgramTypeOK, Steps, MainSteps, NoCall, Buttons
  <2> QED BY <1>1, <2>1, <2>2 DEF TypeOK, DriverInv, Init
<1>3. Discipline
  BY DEF Init, DriverReset, PwmReset, Discipline, CallIsSound, OutputFollowsStep,
         DirectionFollowsStep, ArmedOnlyInRun, SettingsAreApplied, Powered,
         MessageFollowsStep, PeriodIsReady, RunIsAnnounced, Where, InCall,
         OnSteps, AimedSteps, P0Steps, P1Steps, P2Steps, NoCallback, LedCallback
<1>4. Timeline
  BY NewMsgFields DEF Init, Timeline, Where, InCall, OnSteps
<1>5. FinalReport /\ DarkOnReturn
  BY DEF Init, FinalReport, DarkOnReturn, Returned
<1> QED BY <1>1, <1>2, <1>3, <1>4, <1>5 DEF IInv

LEMMA NextIInv == IInv /\ [Next]_vars => IInv'
<1> SUFFICES ASSUME IInv, [Next]_vars PROVE IInv'
  OBVIOUS
<1>1. /\ TypeOK /\ DriverInv /\ Control /\ ArmedOnlyInRun /\ SettingsAreApplied
      /\ Announced /\ Timeline /\ FinalReport /\ DarkOnReturn
      /\ CallIsSound /\ OutputFollowsStep /\ MessageFollowsStep /\ PeriodIsReady
  BY DEF IInv, Discipline, Control, Announced
<1>2. DriverInv'
  BY <1>1, DriverStep
<1>3. TypeOK'
  BY <1>1, <1>2, MessagesStep, ProgramTypeStep DEF TypeOK, DriverInv
<1>4. Discipline'
  BY <1>1, ControlStep, ArmedStep, SettingsStep, AnnouncedStep
     DEF Discipline, Control, Announced
<1>5. Timeline' /\ FinalReport' /\ DarkOnReturn'
  BY <1>1, TimelineStep, ReportStep
<1> QED BY <1>2, <1>3, <1>4, <1>5 DEF IInv

LEMMA Invariance == Spec => []IInv
BY InitIInv, NextIInv, PTL DEF Spec

\* Every variable of the program keeps its type: no duty or period leaves its
\* range and no message is malformed.
THEOREM TypeCorrect == Spec => []TypeOK
BY Invariance, PTL DEF IInv

\* What holds at each step of the main thread.
THEOREM AlwaysDisciplined == Spec => []Discipline
BY Invariance, PTL DEF IInv

\* Outside the runs of a procedure the driver is at rest.
THEOREM AlwaysQuietBetweenRuns == Spec => []QuietBetweenRuns
<1>1. IInv => QuietBetweenRuns
  <2> SUFFICES ASSUME IInv PROVE QuietBetweenRuns
    OBVIOUS
  <2>1. Powered => Where \in OnSteps
    BY DEF IInv, Discipline, OutputFollowsStep, Powered
  <2>2. ASSUME ~InCall, pc \notin OnSteps \union AimedSteps
        PROVE  Quiet
    <3>1. com = 0 /\ clk = 0 /\ g_pwm_duty = 0 /\ in1 = 0 /\ in2 = 0
      BY <2>2 DEF IInv, Discipline, OutputFollowsStep, DirectionFollowsStep, Where
    <3>2. timsk = 0
      BY <2>2 DEF IInv, TypeOK, DriverTypeOK, PwmTypeOK, Discipline,
                  ArmedOnlyInRun, Where, OnSteps
    <3> QED BY <3>1, <3>2 DEF Quiet
  <2> QED BY <2>1, <2>2 DEF QuietBetweenRuns
<1> QED BY <1>1, Invariance, PTL

\* The timer interrupts are armed only inside a run of procedure 2.
THEOREM AlwaysArmedOnlyInRun == Spec => []ArmedOnlyInRun
BY Invariance, PTL DEF IInv, Discipline

\* The timer runs with the reported period, also across runs and resets.
THEOREM AlwaysPeriodIsReported == Spec => []PeriodIsReported
BY Invariance, PTL DEF IInv, DriverInv

\* The duty and the period in the timer are the ones of the current run.
THEOREM AlwaysSettingsAreApplied == Spec => []SettingsAreApplied
BY Invariance, PTL DEF IInv, Discipline

\* The stamps of the procedure and of the last run keep their order.
THEOREM AlwaysTimeline == Spec => []Timeline
BY Invariance, PTL DEF IInv

\* The last message of a procedure shows the driver off and spans the run.
THEOREM AlwaysFinalReport == Spec => []FinalReport
BY Invariance, PTL DEF IInv

\* The LED is off when a procedure has returned.
THEOREM AlwaysDarkOnReturn == Spec => []DarkOnReturn
BY Invariance, PTL DEF IInv

-----------------------------------------------------------------------------
(* Starting the motor, and the output of the bridge.                       *)

\* Only the three calls of driver_enable power the output.
LEMMA OnlyEnableStarts ==
  ASSUME [Next]_vars, ~Powered, Powered'
  PROVE  P0Enable \/ P1Enable \/ P2Enable
<1>1. com' # 0 /\ UNCHANGED <<com, clk>> => FALSE
  BY DEF Powered
<1>2. com' # 0
  BY DEF Powered
<1> USE <1>1, <1>2 DEF driverVars, pwmVars
<1>3. CASE Boot
  BY <1>3 DEF Boot, DriverInit, PwmInit
<1>4. CASE WaitForTransport
  BY <1>4 DEF WaitForTransport
<1>5. CASE MainLoop
  BY <1>5 DEF MainLoop
<1>6. CASE MainIdle
  BY <1>6 DEF MainIdle
<1>7. CASE DriverSetIn1
  BY <1>7 DEF DriverSetIn1, SetIn1
<1>8. CASE DriverSetIn2
  BY <1>8 DEF DriverSetIn2, SetIn2
<1>9. CASE P0Enter
  BY <1>9 DEF P0Enter
<1>10. CASE P0Input
  BY <1>10 DEF P0Input
<1>11. CASE P0Start
  BY <1>11 DEF P0Start
<1>12. CASE P0Enable
  BY <1>12
<1>13. CASE P0Run
  BY <1>13 DEF P0Run
<1>14. CASE P0Check
  BY <1>14 DEF P0Check
<1>15. CASE P0Stop
  BY <1>15 DEF P0Stop, SwitchOff, DriverDisable, PwmDisable
<1>16. CASE P0End
  BY <1>16 DEF P0End, Finish
<1>17. CASE P1Enter
  BY <1>17 DEF P1Enter
<1>18. CASE P1Input
  BY <1>18 DEF P1Input
<1>19. CASE P1Start
  BY <1>19 DEF P1Start
<1>20. CASE P1Enable
  BY <1>20
<1>21. CASE P1Run
  BY <1>21 DEF P1Run
<1>22. CASE P1Stop
  BY <1>22 DEF P1Stop, SwitchOff, DriverDisable, PwmDisable
<1>23. CASE P1Stopped
  BY <1>23 DEF P1Stopped
<1>24. CASE P1Check
  BY <1>24 DEF P1Check
<1>25. CASE P1Exit
  BY <1>25 DEF P1Exit, SwitchOff, DriverDisable, PwmDisable
<1>26. CASE P1End
  BY <1>26 DEF P1End, Finish
<1>27. CASE P2Enter
  BY <1>27 DEF P2Enter
<1>28. CASE P2Input
  BY <1>28 DEF P2Input
<1>29. CASE P2Start
  BY <1>29 DEF P2Start
<1>30. CASE P2Enable
  BY <1>30
<1>31. CASE P2Arm
  BY <1>31 DEF P2Arm, PwmSetInterruptCallback
<1>32. CASE P2Run
  BY <1>32 DEF P2Run
<1>33. CASE P2LedOff
  BY <1>33 DEF P2LedOff
<1>34. CASE P2Stop
  BY <1>34 DEF P2Stop, SwitchOff, DriverDisable, PwmDisable
<1>35. CASE P2Stopped
  BY <1>35 DEF P2Stopped
<1>36. CASE P2Check
  BY <1>36 DEF P2Check
<1>37. CASE P2Exit
  BY <1>37 DEF P2Exit, SwitchOff, DriverDisable, PwmDisable
<1>38. CASE P2Disarm
  BY <1>38 DEF P2Disarm, PwmSetInterruptCallback
<1>39. CASE P2End
  BY <1>39 DEF P2End, Finish
<1>40. CASE Timer3Interrupt
  BY <1>40 DEF Timer3Interrupt
<1>41. CASE Tick
  BY <1>41 DEF Tick
<1>42. CASE Press
  BY <1>42 DEF Press
<1>43. CASE WatchdogReset
  BY <1>43 DEF WatchdogReset
<1>44. CASE UNCHANGED vars
  BY <1>44 DEF vars
<1> QED
  BY <1>3, <1>4, <1>5, <1>6, <1>7, <1>8, <1>9, <1>10, <1>11, <1>12, <1>13,
     <1>14, <1>15, <1>16, <1>17, <1>18, <1>19, <1>20, <1>21, <1>22, <1>23,
     <1>24, <1>25, <1>26, <1>27, <1>28, <1>29, <1>30, <1>31, <1>32, <1>33,
     <1>34, <1>35, <1>36, <1>37, <1>38, <1>39, <1>40, <1>41, <1>42, <1>43,
     <1>44
     DEF Next, MainThread, Procedure0, Procedure1, Procedure2

\* The motor only starts as the last message announced it.
THEOREM AlwaysStartsAsAnnounced == Spec => StartsAsAnnounced
<1>1. IInv /\ [Next]_vars => Start
  <2> SUFFICES ASSUME IInv, [Next]_vars, ~Powered, Powered' PROVE Start
    BY DEF Start
  <2>1. MessageFollowsStep /\ RunIsAnnounced
    BY DEF IInv, Discipline
  <2> USE <2>1 DEF MessageFollowsStep, RunIsAnnounced, Where, InCall, At,
                   P0Steps, P1Steps, P2Steps, AimedSteps, SwitchOn, DriverEnable,
                   Start, Idle
  <2>2. CASE P0Enable
    BY <2>2 DEF P0Enable
  <2>3. CASE P1Enable
    BY <2>3 DEF P1Enable
  <2>4. CASE P2Enable
    BY <2>4 DEF P2Enable
  <2> QED BY <2>2, <2>3, <2>4, OnlyEnableStarts
<1> QED BY <1>1, Invariance, PTL DEF Spec, StartsAsAnnounced

\* What each step of the program is to the bridge: a start, half a turn, a cut,
\* or nothing.
LEMMA BridgeStep ==
  ASSUME IInv, [Next]_vars
  PROVE  [Bridge!Next]_Output
<1>1. /\ in1 \in {0, 1} /\ in2 \in {0, 1}
      /\ CallIsSound /\ OutputFollowsStep /\ DirectionFollowsStep
  BY DEF IInv, TypeOK, DriverTypeOK, Discipline
<1>2. ~Powered => Output = "coast"
  BY DEF Output
<1>3. ~Powered' => Output' = "coast"
  BY DEF Output
<1>4. ASSUME ~Powered' PROVE [Bridge!Next]_Output
  BY <1>3, <1>4 DEF Bridge!Next, Bridge!Cut
<1>5. ASSUME UNCHANGED <<com, clk, in1, in2>> PROVE [Bridge!Next]_Output
  BY <1>5 DEF Output, Powered
<1>6. ASSUME ~Powered, UNCHANGED <<in1, in2>>, in1 # in2
      PROVE  [Bridge!Next]_Output
  <2>1. Output' \in {"coast", "forward", "reverse"}
    BY <1>1, <1>6 DEF Output
  <2> QED BY <1>2, <1>6, <2>1 DEF Bridge!Next, Bridge!Start, Bridge!Change
<1>7. ASSUME UNCHANGED <<com, clk>>, ~Powered PROVE [Bridge!Next]_Output
  BY <1>4, <1>7 DEF Powered
<1>8. Powered => (InCall => call.ret = "p0_check")
  BY <1>1 DEF OutputFollowsStep, CallIsSound, Where, InCall, Powered, OnSteps,
              Parking, Aiming
<1>9. Powered <=> Where \in OnSteps
  BY <1>1 DEF OutputFollowsStep, Powered
<1> USE DEF driverVars, pwmVars
<1>10. CASE Boot
  BY <1>10, <1>4 DEF Boot, DriverInit, PwmInit, Powered
<1>11. CASE WaitForTransport
  BY <1>11, <1>5 DEF WaitForTransport
<1>12. CASE MainLoop
  BY <1>12, <1>5 DEF MainLoop
<1>13. CASE MainIdle
  BY <1>13, <1>5 DEF MainIdle
<1>14. CASE DriverSetIn1
  <2>1. CASE Powered
    <3>1. /\ call.ret = "p0_check" /\ in2 # call.in2
          /\ in1 # call.in1 /\ call.in1 # call.in2
      BY <1>14, <1>1, <1>8, <2>1
         DEF DriverSetIn1, At, InCall, CallIsSound, Parking
    <3>2. call.in1 \in {0, 1} /\ call.in2 \in {0, 1}
      BY DEF IInv, TypeOK, ProgramTypeOK
    <3>3. \/ Output = "forward" /\ Output' = "brake_to_reverse"
          \/ Output = "reverse" /\ Output' = "brake_to_forward"
      BY <1>14, <1>1, <2>1, <3>1, <3>2 DEF DriverSetIn1, SetIn1, Output, Powered
    <3> QED BY <3>3 DEF Bridge!Next, Bridge!Brake, Bridge!Change
  <2> QED BY <1>14, <1>7, <2>1 DEF DriverSetIn1, SetIn1
<1>15. CASE DriverSetIn2
  <2>1. CASE Powered
    <3>1. /\ call.ret = "p0_check" /\ in2 # call.in2
          /\ in1 = call.in1 /\ call.in1 # call.in2
      BY <1>15, <1>1, <1>8, <2>1
         DEF DriverSetIn2, At, InCall, CallIsSound, Parking
    <3>2. call.in1 \in {0, 1} /\ call.in2 \in {0, 1}
      BY DEF IInv, TypeOK, ProgramTypeOK
    <3>3. \/ Output = "brake_to_reverse" /\ Output' = "reverse"
          \/ Output = "brake_to_forward" /\ Output' = "forward"
      BY <1>15, <1>1, <2>1, <3>1, <3>2 DEF DriverSetIn2, SetIn2, Output, Powered
    <3> QED BY <3>3 DEF Bridge!Next, Bridge!Turn, Bridge!Change
  <2> QED BY <1>15, <1>7, <2>1 DEF DriverSetIn2, SetIn2
<1>16. CASE P0Enter
  BY <1>16, <1>5 DEF P0Enter
<1>17. CASE P0Input
  BY <1>17, <1>5 DEF P0Input
<1>18. CASE P0Start
  BY <1>18, <1>5 DEF P0Start
<1>19. CASE P0Enable
  <2>1. ~InCall /\ pc \notin OnSteps /\ pc \in AimedSteps
    BY <1>19 DEF P0Enable, At, InCall, OnSteps, AimedSteps
  <2>2. ~Powered /\ in1 # in2
    BY <1>1, <1>9, <2>1 DEF DirectionFollowsStep, Where
  <2> QED BY <1>19, <1>6, <2>2 DEF P0Enable, SwitchOn, DriverEnable
<1>20. CASE P0Run
  BY <1>20, <1>5 DEF P0Run
<1>21. CASE P0Check
  BY <1>21, <1>5 DEF P0Check
<1>22. CASE P0Stop
  BY <1>22, <1>4 DEF P0Stop, SwitchOff, DriverDisable, PwmDisable, Powered
<1>23. CASE P0End
  BY <1>23, <1>5 DEF P0End, Finish
<1>24. CASE P1Enter
  BY <1>24, <1>5 DEF P1Enter
<1>25. CASE P1Input
  BY <1>25, <1>5 DEF P1Input
<1>26. CASE P1Start
  BY <1>26, <1>5 DEF P1Start
<1>27. CASE P1Enable
  <2>1. ~InCall /\ pc \notin OnSteps /\ pc \in AimedSteps
    BY <1>27 DEF P1Enable, At, InCall, OnSteps, AimedSteps
  <2>2. ~Powered /\ in1 # in2
    BY <1>1, <1>9, <2>1 DEF DirectionFollowsStep, Where
  <2> QED BY <1>27, <1>6, <2>2 DEF P1Enable, SwitchOn, DriverEnable
<1>28. CASE P1Run
  BY <1>28, <1>5 DEF P1Run
<1>29. CASE P1Stop
  BY <1>29, <1>4 DEF P1Stop, SwitchOff, DriverDisable, PwmDisable, Powered
<1>30. CASE P1Stopped
  BY <1>30, <1>5 DEF P1Stopped
<1>31. CASE P1Check
  BY <1>31, <1>5 DEF P1Check
<1>32. CASE P1Exit
  BY <1>32, <1>4 DEF P1Exit, SwitchOff, DriverDisable, PwmDisable, Powered
<1>33. CASE P1End
  BY <1>33, <1>5 DEF P1End, Finish
<1>34. CASE P2Enter
  BY <1>34, <1>5 DEF P2Enter
<1>35. CASE P2Input
  BY <1>35, <1>5 DEF P2Input
<1>36. CASE P2Start
  BY <1>36, <1>5 DEF P2Start
<1>37. CASE P2Enable
  <2>1. ~InCall /\ pc \notin OnSteps /\ pc \in AimedSteps
    BY <1>37 DEF P2Enable, At, InCall, OnSteps, AimedSteps
  <2>2. ~Powered /\ in1 # in2
    BY <1>1, <1>9, <2>1 DEF DirectionFollowsStep, Where
  <2> QED BY <1>37, <1>6, <2>2 DEF P2Enable, SwitchOn, DriverEnable
<1>38. CASE P2Arm
  BY <1>38, <1>5 DEF P2Arm, PwmSetInterruptCallback
<1>39. CASE P2Run
  BY <1>39, <1>5 DEF P2Run
<1>40. CASE P2LedOff
  BY <1>40, <1>5 DEF P2LedOff
<1>41. CASE P2Stop
  BY <1>41, <1>4 DEF P2Stop, SwitchOff, DriverDisable, PwmDisable, Powered
<1>42. CASE P2Stopped
  BY <1>42, <1>5 DEF P2Stopped
<1>43. CASE P2Check
  BY <1>43, <1>5 DEF P2Check
<1>44. CASE P2Exit
  BY <1>44, <1>4 DEF P2Exit, SwitchOff, DriverDisable, PwmDisable, Powered
<1>45. CASE P2Disarm
  BY <1>45, <1>5 DEF P2Disarm, PwmSetInterruptCallback
<1>46. CASE P2End
  BY <1>46, <1>5 DEF P2End, Finish
<1>47. CASE Timer3Interrupt
  BY <1>47, <1>5 DEF Timer3Interrupt
<1>48. CASE Tick
  BY <1>48, <1>5 DEF Tick
<1>49. CASE Press
  BY <1>49, <1>5 DEF Press
<1>50. CASE WatchdogReset
  BY <1>50, <1>4 DEF WatchdogReset, Powered
<1>51. CASE UNCHANGED vars
  BY <1>51, <1>5 DEF vars
<1> QED
  BY <1>10, <1>11, <1>12, <1>13, <1>14, <1>15, <1>16, <1>17, <1>18, <1>19,
     <1>20, <1>21, <1>22, <1>23, <1>24, <1>25, <1>26, <1>27, <1>28, <1>29,
     <1>30, <1>31, <1>32, <1>33, <1>34, <1>35, <1>36, <1>37, <1>38, <1>39,
     <1>40, <1>41, <1>42, <1>43, <1>44, <1>45, <1>46, <1>47, <1>48, <1>49,
     <1>50, <1>51
     DEF Next, MainThread, Procedure0, Procedure1, Procedure2

\* The program implements HBridge, but for the liveness of the turn: every run
\* starts in a direction, reverses through one brake, and is cut.
THEOREM ImplementsHBridgeSafety == Spec => Bridge!SafetySpec
<1>1. Init => Bridge!Init
  BY DEF Init, DriverReset, PwmReset, Bridge!Init, Output, Powered
<1>2. IInv /\ [Next]_vars => [Bridge!Next]_Output
  BY BridgeStep
<1> QED BY <1>1, <1>2, Invariance, PTL DEF Spec, Bridge!SafetySpec

-----------------------------------------------------------------------------
(* How long it takes, in steps of the main thread.                         *)

\* The main thread takes the step that pc names.
LEMMA MainThreadAt ==
  ASSUME MainThread
  PROVE  /\ pc = "set_in1" => DriverSetIn1
         /\ pc = "set_in2" => DriverSetIn2
         /\ pc = "p0_run" => P0Run
         /\ pc = "p0_check" => P0Check
         /\ pc = "p0_stop" => P0Stop
         /\ pc = "p1_input" => P1Input
         /\ pc = "p1_start" => P1Start
         /\ pc = "p1_enable" => P1Enable
         /\ pc = "p1_run" => P1Run
         /\ pc = "p1_stop" => P1Stop
         /\ pc = "p1_stopped" => P1Stopped
         /\ pc = "p1_check" => P1Check
         /\ pc = "p1_exit" => P1Exit
         /\ pc = "p1_end" => P1End
         /\ pc = "p2_input" => P2Input
         /\ pc = "p2_start" => P2Start
         /\ pc = "p2_enable" => P2Enable
         /\ pc = "p2_arm" => P2Arm
         /\ pc = "p2_run" => P2Run
         /\ pc = "p2_led_off" => P2LedOff
         /\ pc = "p2_stop" => P2Stop
         /\ pc = "p2_stopped" => P2Stopped
         /\ pc = "p2_check" => P2Check
         /\ pc = "p2_exit" => P2Exit
         /\ pc = "p2_disarm" => P2Disarm
         /\ pc = "p2_end" => P2End
<1>1. /\ Boot => At("boot")
      /\ WaitForTransport => At("wait_for_transport")
      /\ MainLoop => At("main")
      /\ MainIdle => At("main_idle")
      /\ DriverSetIn1 => At("set_in1")
      /\ DriverSetIn2 => At("set_in2")
  BY DEF Boot, WaitForTransport, MainLoop, MainIdle, DriverSetIn1, DriverSetIn2
<1>2. /\ P0Enter => At("p0_enter")
      /\ P0Input => At("p0_input")
      /\ P0Start => At("p0_start")
      /\ P0Enable => At("p0_enable")
      /\ P0Run => At("p0_run")
      /\ P0Check => At("p0_check")
      /\ P0Stop => At("p0_stop")
      /\ P0End => At("p0_end")
  BY DEF P0Enter, P0Input, P0Start, P0Enable, P0Run, P0Check, P0Stop, P0End
<1>3. /\ P1Enter => At("p1_enter")
      /\ P1Input => At("p1_input")
      /\ P1Start => At("p1_start")
      /\ P1Enable => At("p1_enable")
      /\ P1Run => At("p1_run")
      /\ P1Stop => At("p1_stop")
      /\ P1Stopped => At("p1_stopped")
      /\ P1Check => At("p1_check")
      /\ P1Exit => At("p1_exit")
      /\ P1End => At("p1_end")
  BY DEF P1Enter, P1Input, P1Start, P1Enable, P1Run, P1Stop, P1Stopped, P1Check, P1Exit, P1End
<1>4. /\ P2Enter => At("p2_enter")
      /\ P2Input => At("p2_input")
      /\ P2Start => At("p2_start")
      /\ P2Enable => At("p2_enable")
      /\ P2Arm => At("p2_arm")
      /\ P2Run => At("p2_run")
      /\ P2LedOff => At("p2_led_off")
      /\ P2Stop => At("p2_stop")
      /\ P2Stopped => At("p2_stopped")
      /\ P2Check => At("p2_check")
      /\ P2Exit => At("p2_exit")
      /\ P2Disarm => At("p2_disarm")
      /\ P2End => At("p2_end")
  BY DEF P2Enter, P2Input, P2Start, P2Enable, P2Arm, P2Run, P2LedOff, P2Stop, P2Stopped, P2Check, P2Exit, P2Disarm, P2End
<1> QED BY <1>1, <1>2, <1>3, <1>4
        DEF At, MainThread, Procedure0, Procedure1, Procedure2

\* The output brakes when it is on and both inputs are equal.
LEMMA BrakeIsEqualInputs ==
  ASSUME in1 \in {0, 1}, in2 \in {0, 1}
  PROVE  Braking <=> Powered /\ in1 = in2
<1>1. CASE Powered /\ in1 = in2
  <2>1. Output \in {"brake_to_forward", "brake_to_reverse"}
    BY <1>1 DEF Output
  <2> QED BY <1>1, <2>1 DEF Braking
<1>2. CASE Powered /\ in1 # in2
  <2>1. Output \in {"forward", "reverse"}
    BY <1>2 DEF Output
  <2> QED BY <1>2, <2>1 DEF Braking
<1>3. CASE ~Powered
  <2>1. Output = "coast"
    BY <1>3 DEF Output
  <2> QED BY <1>3, <2>1 DEF Braking
<1> QED BY <1>1, <1>2, <1>3

\* The brake is the step between the two port writes of a turn.
THEOREM BrakesAreBrief == Spec => BrakeIsBrief
<1>1. ASSUME IInv, Braking, MainThread PROVE ~Braking'
  <2>1. /\ in1 \in {0, 1} /\ in2 \in {0, 1}
        /\ call.in1 \in {0, 1} /\ call.in2 \in {0, 1}
    BY <1>1 DEF IInv, TypeOK, DriverTypeOK, ProgramTypeOK
  <2>2. Powered /\ in1 = in2
    BY <1>1, <2>1, BrakeIsEqualInputs
  <2>3. OutputFollowsStep /\ DirectionFollowsStep /\ CallIsSound
    BY <1>1 DEF IInv, Discipline
  <2>4. Where \in OnSteps
    BY <2>2, <2>3 DEF OutputFollowsStep, Powered
  <2>5. InCall
    BY <2>2, <2>3, <2>4 DEF DirectionFollowsStep, Where
  <2>6. call.ret = "p0_check"
    BY <2>3, <2>4, <2>5 DEF CallIsSound, Where, OnSteps, Parking, Aiming
  <2>7. /\ call.in1 # call.in2 /\ in2 # call.in2
        /\ pc = "set_in1" => in1 # call.in1
        /\ pc = "set_in2" => in1 = call.in1
    BY <2>3, <2>5, <2>6 DEF CallIsSound, Parking
  <2>8. pc = "set_in2" /\ in1 = call.in1
    BY <2>1, <2>2, <2>5, <2>7 DEF InCall
  <2>9. DriverSetIn2
    BY <1>1, <2>8, MainThreadAt
  <2>10. in1' = in1 /\ in2' = call.in2
    BY <2>9 DEF DriverSetIn2, SetIn2
  <2>11. in1' \in {0, 1} /\ in2' \in {0, 1} /\ in1' # in2'
    BY <2>1, <2>7, <2>8, <2>10
  <2>12. Output' \in {"coast", "forward", "reverse"}
    BY <2>11 DEF Output
  <2> QED BY <2>12 DEF Braking
<1> QED BY <1>1, Invariance, PTL DEF Spec, BrakeIsBrief

\* What the main thread finds on its way to driver_disable.
LEMMA OnItsWay ==
  ASSUME IInv, Powered
  PROVE  /\ Where \in OnSteps
         /\ InCall => call.ret = "p0_check"
         /\ ~InCall => pc = Where
<1>1. OutputFollowsStep /\ CallIsSound
  BY DEF IInv, Discipline
<1>2. Where \in OnSteps
  BY <1>1 DEF OutputFollowsStep, Powered
<1>3. InCall => call.ret = "p0_check"
  BY <1>1, <1>2 DEF CallIsSound, Where, OnSteps, Parking, Aiming
<1> QED BY <1>2, <1>3 DEF Where

LEMMA StopsInBound ==
  ASSUME IInv, Powered
  PROVE  StopsIn \in 1 .. 8
<1>1. CASE InCall
  <2>1. Where = "p0_check" /\ CallSteps \in {1, 2}
    BY <1>1, OnItsWay DEF Where, InCall, CallSteps
  <2> QED BY <2>1 DEF StopsIn
<1>2. CASE ~InCall
  <2>1. CallSteps = 0 BY <1>2 DEF InCall, CallSteps
  <2> QED BY <2>1, OnItsWay DEF StopsIn, OnSteps
<1> QED BY <1>1, <1>2

\* One case for each step with the output on.
LEMMA StopStep ==
  ASSUME IInv, Powered, StopAsked, Powered', MainThread
  PROVE  StopsIn' \in 0 .. StopsIn - 1
<1> USE DEF At, GoTo, CallSetDirection
<1>1. StopsIn \in 1 .. 8
  BY StopsInBound
<1>2. CASE pc = "set_in1"
  <2>1. DriverSetIn1 /\ call.ret = "p0_check"
    BY <1>2, MainThreadAt, OnItsWay DEF InCall
  <2>2. pc' = "set_in2" /\ call' = call /\ msg' = msg
    BY <2>1 DEF DriverSetIn1
  <2>3. Where = "p0_check" /\ Where' = "p0_check" /\ CallSteps = 2 /\ CallSteps' = 1
    BY <1>2, <2>1, <2>2 DEF Where, InCall, CallSteps
  <2> QED BY <2>2, <2>3 DEF StopsIn
<1>3. CASE pc = "set_in2"
  <2>1. DriverSetIn2 /\ call.ret = "p0_check"
    BY <1>3, MainThreadAt, OnItsWay DEF InCall
  <2>2. pc' = "p0_check" /\ msg' = msg
    BY <2>1 DEF DriverSetIn2
  <2>3. Where = "p0_check" /\ Where' = "p0_check" /\ CallSteps = 1 /\ CallSteps' = 0
    BY <1>3, <2>1, <2>2 DEF Where, InCall, CallSteps
  <2> QED BY <2>2, <2>3 DEF StopsIn
<1>4. CASE ~InCall
  <2>1. pc \in OnSteps /\ Where = pc /\ CallSteps = 0
    BY <1>4, OnItsWay DEF InCall, CallSteps
  <2>2. CASE pc = "p0_run"
    <3>1. P0Run /\ {"bt1", "bt2"} \intersect pressed # {}
      BY <2>1, <2>2, MainThreadAt DEF StopAsked, P0Steps, P1Steps, P2Steps
    <3>2. pc' = "set_in1" /\ call'.ret = "p0_check"
      BY <3>1 DEF P0Run
    <3>3. msg'.bt = pressed
      <4>1. msg' = DriverGetState([msg EXCEPT !.bt = pressed])
        BY <3>1 DEF P0Run, Send
      <4>2. [msg EXCEPT !.bt = pressed] \in Messages /\ msg \in Messages
        BY MessageUpdates DEF IInv, TypeOK, ProgramTypeOK
      <4>3. DriverTypeOK BY DEF IInv, TypeOK
      <4> QED BY <4>1, <4>2, <4>3, GetStateFields DEF Messages
    <3>4. Where' = "p0_check" /\ CallSteps' = 2
      BY <3>2 DEF Where, InCall, CallSteps
    <3> QED BY <2>1, <2>2, <3>1, <3>3, <3>4 DEF StopsIn
  <2>3. CASE pc = "p0_check"
    <3>1. P0Check BY <2>3, MainThreadAt
    <3>2. msg' = msg /\ pc' = IF {"bt1", "bt2"} \intersect msg.bt = {}
                               THEN "p0_run" ELSE "p0_stop"
      BY <3>1 DEF P0Check, Pressed
    <3>3. Where' = pc' /\ CallSteps' = 0
      BY <3>2 DEF Where, InCall, CallSteps
    <3> QED BY <2>1, <2>3, <3>2, <3>3 DEF StopsIn
  <2>4. CASE pc = "p1_run"
    <3>1. P1Run /\ ~({"bt1", "bt2"} \subseteq pressed)
      BY <2>1, <2>4, MainThreadAt DEF StopAsked, P0Steps, P1Steps, P2Steps
    <3>2. pc' = "p1_stop" BY <3>1 DEF P1Run
    <3>3. Where' = "p1_stop" /\ CallSteps' = 0
      BY <3>2 DEF Where, InCall, CallSteps
    <3> QED BY <2>1, <2>4, <3>3 DEF StopsIn
  <2>5. CASE pc = "p2_arm"
    <3>1. P2Arm BY <2>5, MainThreadAt
    <3>2. pc' = "p2_run" BY <3>1 DEF P2Arm
    <3>3. Where' = "p2_run" /\ CallSteps' = 0
      BY <3>2 DEF Where, InCall, CallSteps
    <3> QED BY <2>1, <2>5, <3>3 DEF StopsIn
  <2>6. CASE pc = "p2_run"
    <3>1. P2Run /\ ~({"bt0", "bt2"} \subseteq pressed)
      BY <2>1, <2>6, MainThreadAt DEF StopAsked, P0Steps, P1Steps, P2Steps
    <3>2. pc' = "p2_led_off" BY <3>1 DEF P2Run
    <3>3. Where' = "p2_led_off" /\ CallSteps' = 0
      BY <3>2 DEF Where, InCall, CallSteps
    <3> QED BY <2>1, <2>6, <3>3 DEF StopsIn
  <2>7. CASE pc = "p2_led_off"
    <3>1. P2LedOff BY <2>7, MainThreadAt
    <3>2. pc' = "p2_stop" BY <3>1 DEF P2LedOff
    <3>3. Where' = "p2_stop" /\ CallSteps' = 0
      BY <3>2 DEF Where, InCall, CallSteps
    <3> QED BY <2>1, <2>7, <3>3 DEF StopsIn
  <2>8. CASE pc \in {"p0_stop", "p1_stop", "p2_stop"}
    <3>1. P0Stop \/ P1Stop \/ P2Stop BY <2>8, MainThreadAt
    <3>2. com' = 0
      BY <3>1 DEF P0Stop, P1Stop, P2Stop, SwitchOff, DriverDisable, PwmDisable
    <3> QED BY <3>2 DEF Powered
  <2> QED BY <2>1, <2>2, <2>3, <2>4, <2>5, <2>6, <2>7, <2>8 DEF OnSteps
<1> QED BY <1>2, <1>3, <1>4 DEF InCall

\* Where the main thread is changes in steps of its own, or in a reset.
LEMMA OthersLeaveThread ==
  ASSUME [Next]_vars
  PROVE  MainThread \/ WatchdogReset \/ UNCHANGED <<pc, call, msg>>
BY DEF Next, Timer3Interrupt, Tick, Press, vars

\* The motor stops within eight steps of the main thread.
THEOREM MotorStopsSoon == Spec => StopsSoon
<1>1. ASSUME IInv, [Next]_vars PROVE Stopping
  <2>1. SUFFICES ASSUME Powered, StopAsked, Powered'
                 PROVE  StopsIn' <= StopsIn /\ (MainThread => StopsIn' < StopsIn)
    BY <1>1, StopsInBound DEF Stopping
  <2>2. StopsIn \in 1 .. 8 BY <1>1, <2>1, StopsInBound
  <2>4. CASE MainThread
    <3>1. StopsIn' \in 0 .. StopsIn - 1 BY <1>1, <2>1, <2>4, StopStep
    <3> QED BY <2>2, <3>1
  <2>5. CASE WatchdogReset
    BY <2>1, <2>5 DEF WatchdogReset, Powered
  <2>6. CASE ~MainThread /\ UNCHANGED <<pc, call, msg>>
    <3>1. Where' = Where /\ CallSteps' = CallSteps
      BY <2>6 DEF Where, InCall, CallSteps
    <3>2. StopsIn' = StopsIn BY <2>6, <3>1 DEF StopsIn
    <3> QED BY <2>2, <2>6, <3>2
  <2> QED BY <1>1, <2>4, <2>5, <2>6, OthersLeaveThread
<1> QED BY <1>1, Invariance, PTL DEF Spec, StopsSoon

\* The steps of the outer loops, with those inside a call.
LEMMA AwaySteps ==
  ASSUME IInv, Away
  PROVE  /\ Where \in DOMAIN ReturnSteps
         /\ InCall => Where \notin {"p1_check", "p2_check"}
         /\ ~InCall => pc = Where
<1>1. CallIsSound BY DEF IInv, Discipline
<1>2. Where \in DOMAIN ReturnSteps
  BY DEF Away, P1Steps, P2Steps, ReturnSteps
<1>3. InCall => Where \notin {"p1_check", "p2_check"}
  BY <1>1 DEF CallIsSound, Where, Parking, Aiming
<1> QED BY <1>2, <1>3 DEF Where

LEMMA ReturnsInBound ==
  ASSUME IInv, Away
  PROVE  ReturnsIn \in 1 .. 19
<1>1. CASE InCall
  <2>1. /\ Where \in {"p1_stopped", "p1_end", "p2_stopped", "p2_disarm",
                     "p1_start", "p1_enable", "p2_start"}
    <3>1. CallIsSound BY DEF IInv, Discipline
    <3> QED BY <1>1, <3>1
            DEF CallIsSound, Where, Parking, Aiming, Away, P1Steps, P2Steps
  <2>2. CallSteps \in {1, 2} BY <1>1 DEF InCall, CallSteps
  <2>3. ~GoesRound BY <2>1 DEF GoesRound
  <2> QED BY <2>1, <2>2, <2>3 DEF ReturnsIn, ReturnSteps
<1>2. CASE ~InCall
  <2>1. CallSteps = 0 BY <1>2 DEF InCall, CallSteps
  <2>2. ReturnSteps[Where] \in 1 .. 17 BY AwaySteps DEF ReturnSteps
  <2> QED BY <2>1, <2>2 DEF ReturnsIn
<1> QED BY <1>1, <1>2

\* What the steps to go are in front of a step and in front of a call.
LEMMA ArrivesAt ==
  ASSUME pc' \notin {"set_in1", "set_in2", "p1_check", "p2_check"},
         pc' \in DOMAIN ReturnSteps
  PROVE  ReturnsIn' = ReturnSteps[pc']
<1>1. Where' = pc' /\ CallSteps' = 0 BY DEF Where, InCall, CallSteps
<1>2. ~GoesRound' BY <1>1 DEF GoesRound
<1>3. ReturnSteps[pc'] \in Nat BY DEF ReturnSteps
<1>4. ReturnsIn' = ReturnSteps'[Where'] + 0 + 0 BY <1>1, <1>2 DEF ReturnsIn
<1> QED BY <1>1, <1>3, <1>4 DEF ReturnSteps

LEMMA ArrivesAtCheck ==
  ASSUME pc' \in {"p1_check", "p2_check"}
  PROVE  ReturnsIn' \in {ReturnSteps[pc'], ReturnSteps[pc'] + 2}
<1>1. Where' = pc' /\ CallSteps' = 0 BY DEF Where, InCall, CallSteps
<1> QED BY <1>1 DEF ReturnsIn, ReturnSteps

LEMMA CallsFor ==
  ASSUME pc' = "set_in1", call'.ret \notin {"p1_check", "p2_check"},
         call'.ret \in DOMAIN ReturnSteps
  PROVE  ReturnsIn' = ReturnSteps[call'.ret] + 2
<1>1. Where' = call'.ret /\ CallSteps' = 2 BY DEF Where, InCall, CallSteps
<1>2. ~GoesRound' BY <1>1 DEF GoesRound
<1>3. ReturnSteps[call'.ret] \in Nat BY DEF ReturnSteps
<1>4. ReturnsIn' = ReturnSteps'[Where'] + 2 + 0 BY <1>1, <1>2 DEF ReturnsIn
<1> QED BY <1>1, <1>3, <1>4 DEF ReturnSteps

LEMMA LeavesFrom ==
  ASSUME pc \in DOMAIN ReturnSteps, pc \notin {"p1_check", "p2_check"}
  PROVE  ReturnsIn = ReturnSteps[pc]
<1>1. Where = pc /\ CallSteps = 0 BY DEF Where, InCall, CallSteps, ReturnSteps
<1>2. ~GoesRound BY <1>1 DEF GoesRound
<1>3. ReturnSteps[pc] \in Nat BY DEF ReturnSteps
<1> QED BY <1>1, <1>2, <1>3 DEF ReturnsIn

\* The input steps of both procedures read the buttons as they are.
LEMMA InputReads ==
  ASSUME IInv, P1Input \/ P2Input
  PROVE  msg'.bt = pressed
<1> DEFINE m == DriverGetState([msg EXCEPT !.bt = pressed])
<1>1. [msg EXCEPT !.bt = pressed] \in Messages /\ msg \in Messages
  BY MessageUpdates DEF IInv, TypeOK, ProgramTypeOK
<1>2. DriverTypeOK BY DEF IInv, TypeOK
<1>3. m \in Messages /\ m.bt = pressed
  BY <1>1, <1>2, GetStateFields DEF Messages
<1>4. \E d, p : msg' = [m EXCEPT !.pwm_duty = d, !.pwm_period = p]
  <2> HIDE DEF m
  <2>1. CASE P1Input BY <2>1 DEF P1Input, Send, m
  <2>2. CASE P2Input BY <2>2 DEF P2Input, Send, m
  <2> QED BY <2>1, <2>2
<1> HIDE DEF m
<1> QED BY <1>3, <1>4 DEF Messages

\* One case for each step of the outer loops.
LEMMA ReturnStep ==
  ASSUME IInv, Away, pressed = {}, Away', MainThread
  PROVE  ReturnsIn' \in 0 .. ReturnsIn - 1
<1> USE DEF At, GoTo, CallSetDirection
<1>1. /\ ReturnsIn \in 1 .. 19 /\ Where \in DOMAIN ReturnSteps
      /\ InCall => Where \notin {"p1_check", "p2_check"}
      /\ ~InCall => pc = Where
  BY ReturnsInBound, AwaySteps
<1>2. \A S : S \subseteq pressed => S = {}
  OBVIOUS
<1>3. CASE pc = "set_in1"
  <2>1. DriverSetIn1 /\ InCall BY <1>3, MainThreadAt DEF InCall
  <2>2. pc' = "set_in2" /\ call' = call BY <2>1 DEF DriverSetIn1
  <2>3. Where' = Where /\ CallSteps = 2 /\ CallSteps' = 1
    BY <1>3, <2>2 DEF Where, InCall, CallSteps
  <2>4. Where \notin {"p1_check", "p2_check"} BY <1>1, <2>1
  <2>5. ~GoesRound BY <2>4 DEF GoesRound
  <2>6. ~GoesRound' BY <2>3, <2>4 DEF GoesRound
  <2>7. ReturnSteps[Where] \in Nat BY <1>1 DEF ReturnSteps
  <2>8. ReturnsIn = ReturnSteps[Where] + 2 BY <2>3, <2>5, <2>7 DEF ReturnsIn
  <2>9. ReturnsIn' = ReturnSteps[Where] + 1
    <3>1. ReturnsIn' = ReturnSteps'[Where'] + 1 + 0
      BY <2>3, <2>6 DEF ReturnsIn
    <3>2. ReturnSteps' = ReturnSteps BY DEF ReturnSteps
    <3> QED BY <2>3, <2>7, <3>1, <3>2
  <2> QED BY <2>7, <2>8, <2>9
<1>4. CASE pc = "set_in2"
  <2>1. DriverSetIn2 /\ InCall BY <1>4, MainThreadAt DEF InCall
  <2>2. pc' = call.ret BY <2>1 DEF DriverSetIn2
  <2>3. Where = call.ret /\ CallSteps = 1 BY <1>4 DEF Where, InCall, CallSteps
  <2>4. /\ Where \in DOMAIN ReturnSteps /\ Where \notin {"p1_check", "p2_check"}
    BY <1>1, <2>1, AwaySteps
  <2>5. ReturnsIn' = ReturnSteps[Where]
    BY <2>2, <2>3, <2>4, ArrivesAt DEF ReturnSteps
  <2>6. ReturnSteps[Where] \in Nat BY <2>4 DEF ReturnSteps
  <2>7. ~GoesRound BY <2>4 DEF GoesRound
  <2>8. ReturnsIn = ReturnSteps[Where] + 1 BY <2>3, <2>6, <2>7 DEF ReturnsIn
  <2> QED BY <2>5, <2>6, <2>8
<1>5. CASE pc = "p1_enable"
  <2>1. P1Enable BY <1>5, MainThreadAt
  <2>2. pc' = "p1_run" BY <2>1, <1>2 DEF P1Enable
  <2> QED BY <1>5, <2>2, ArrivesAt, LeavesFrom DEF ReturnSteps
<1>6. CASE pc = "p1_run"
  <2>1. P1Run BY <1>6, MainThreadAt
  <2>2. pc' = "p1_stop" BY <2>1, <1>2 DEF P1Run
  <2> QED BY <1>6, <2>2, ArrivesAt, LeavesFrom DEF ReturnSteps
<1>7. CASE pc = "p2_start"
  <2>1. P2Start BY <1>7, MainThreadAt
  <2>2. pc' = "p2_enable" BY <2>1, <1>2 DEF P2Start
  <2> QED BY <1>7, <2>2, ArrivesAt, LeavesFrom DEF ReturnSteps
<1>8. CASE pc = "p2_enable"
  <2>1. P2Enable BY <1>8, MainThreadAt
  <2>2. pc' = "p2_arm" BY <2>1, <1>2 DEF P2Enable
  <2> QED BY <1>8, <2>2, ArrivesAt, LeavesFrom DEF ReturnSteps
<1>9. CASE pc = "p2_arm"
  <2>1. P2Arm BY <1>9, MainThreadAt
  <2>2. pc' = "p2_run" BY <2>1, <1>2 DEF P2Arm
  <2> QED BY <1>9, <2>2, ArrivesAt, LeavesFrom DEF ReturnSteps
<1>10. CASE pc = "p2_run"
  <2>1. P2Run BY <1>10, MainThreadAt
  <2>2. pc' = "p2_led_off" BY <2>1, <1>2 DEF P2Run
  <2> QED BY <1>10, <2>2, ArrivesAt, LeavesFrom DEF ReturnSteps
<1>11. CASE pc = "p2_led_off"
  <2>1. P2LedOff BY <1>11, MainThreadAt
  <2>2. pc' = "p2_stop" BY <2>1, <1>2 DEF P2LedOff
  <2> QED BY <1>11, <2>2, ArrivesAt, LeavesFrom DEF ReturnSteps
<1>12. CASE pc = "p2_disarm"
  <2>1. P2Disarm BY <1>12, MainThreadAt
  <2>2. pc' = "p2_end" BY <2>1, <1>2 DEF P2Disarm
  <2> QED BY <1>12, <2>2, ArrivesAt, LeavesFrom DEF ReturnSteps
<1>13. CASE pc = "p1_stop"
  <2>1. P1Stop BY <1>13, MainThreadAt
  <2>2. pc' = "set_in1" /\ call'.ret = "p1_stopped" BY <2>1 DEF P1Stop
  <2> QED BY <1>13, <2>2, CallsFor, LeavesFrom DEF ReturnSteps
<1>14. CASE pc = "p1_exit"
  <2>1. P1Exit BY <1>14, MainThreadAt
  <2>2. pc' = "set_in1" /\ call'.ret = "p1_end" BY <2>1 DEF P1Exit
  <2> QED BY <1>14, <2>2, CallsFor, LeavesFrom DEF ReturnSteps
<1>15. CASE pc = "p2_stop"
  <2>1. P2Stop BY <1>15, MainThreadAt
  <2>2. pc' = "set_in1" /\ call'.ret = "p2_stopped" BY <2>1 DEF P2Stop
  <2> QED BY <1>15, <2>2, CallsFor, LeavesFrom DEF ReturnSteps
<1>16. CASE pc = "p2_exit"
  <2>1. P2Exit BY <1>16, MainThreadAt
  <2>2. pc' = "set_in1" /\ call'.ret = "p2_disarm" BY <2>1 DEF P2Exit
  <2> QED BY <1>16, <2>2, CallsFor, LeavesFrom DEF ReturnSteps
<1>17. CASE pc = "p1_start"
  <2>1. P1Start BY <1>17, MainThreadAt
  <2>2. \/ pc' = "set_in1" /\ call'.ret = "p1_enable"
        \/ pc' = "p1_enable"
    BY <2>1 DEF P1Start
  <2> QED BY <1>17, <2>2, CallsFor, ArrivesAt, LeavesFrom DEF ReturnSteps
<1>18. CASE pc = "p1_stopped"
  <2>1. P1Stopped BY <1>18, MainThreadAt
  <2>2. pc' = "p1_check" BY <2>1 DEF P1Stopped
  <2> QED BY <1>18, <2>2, ArrivesAtCheck, LeavesFrom DEF ReturnSteps
<1>19. CASE pc = "p1_check"
  <2>1. P1Check BY <1>19, MainThreadAt
  <2>2. pc' = IF Pressed("bt1") THEN "p1_input" ELSE "p1_exit"
    BY <2>1 DEF P1Check
  <2>3. Where = pc /\ CallSteps = 0 BY <1>19 DEF Where, InCall, CallSteps
  <2>4. ReturnsIn = ReturnSteps[pc] + IF Pressed("bt1") THEN 2 ELSE 0
    BY <1>19, <2>3 DEF ReturnsIn, ReturnSteps, GoesRound
  <2> QED BY <1>19, <2>2, <2>4, ArrivesAt DEF ReturnSteps
<1>20. CASE pc = "p1_input"
  <2>1. P1Input BY <1>20, MainThreadAt
  <2>2. pc' = "p1_check" BY <1>2, <2>1 DEF P1Input
  <2>3. msg'.bt = pressed BY <2>1, InputReads
  <2>4. Where' = pc' /\ CallSteps' = 0 BY <2>2 DEF Where, InCall, CallSteps
  <2>5. ~GoesRound' BY <1>2, <2>2, <2>3, <2>4 DEF GoesRound, Pressed
  <2>6. ReturnsIn' = ReturnSteps["p1_check"]
    BY <2>2, <2>4, <2>5 DEF ReturnsIn, ReturnSteps
  <2> QED BY <1>20, <2>6, LeavesFrom DEF ReturnSteps
<1>21. CASE pc = "p2_stopped"
  <2>1. P2Stopped BY <1>21, MainThreadAt
  <2>2. pc' = "p2_check" BY <2>1 DEF P2Stopped
  <2> QED BY <1>21, <2>2, ArrivesAtCheck, LeavesFrom DEF ReturnSteps
<1>22. CASE pc = "p2_check"
  <2>1. P2Check BY <1>22, MainThreadAt
  <2>2. pc' = IF Pressed("bt2") THEN "p2_input" ELSE "p2_exit"
    BY <2>1 DEF P2Check
  <2>3. Where = pc /\ CallSteps = 0 BY <1>22 DEF Where, InCall, CallSteps
  <2>4. ReturnsIn = ReturnSteps[pc] + IF Pressed("bt2") THEN 2 ELSE 0
    BY <1>22, <2>3 DEF ReturnsIn, ReturnSteps, GoesRound
  <2> QED BY <1>22, <2>2, <2>4, ArrivesAt DEF ReturnSteps
<1>23. CASE pc = "p2_input"
  <2>1. P2Input BY <1>23, MainThreadAt
  <2>2. pc' = "p2_check" BY <1>2, <2>1 DEF P2Input
  <2>3. msg'.bt = pressed BY <2>1, InputReads
  <2>4. Where' = pc' /\ CallSteps' = 0 BY <2>2 DEF Where, InCall, CallSteps
  <2>5. ~GoesRound' BY <1>2, <2>2, <2>3, <2>4 DEF GoesRound, Pressed
  <2>6. ReturnsIn' = ReturnSteps["p2_check"]
    BY <2>2, <2>4, <2>5 DEF ReturnsIn, ReturnSteps
  <2> QED BY <1>23, <2>6, LeavesFrom DEF ReturnSteps
<1>24. CASE pc \in {"p1_end", "p2_end"}
  <2>1. P1End \/ P2End BY <1>24, MainThreadAt
  <2>2. pc' = "main_idle" BY <2>1 DEF P1End, P2End, Finish
  <2>3. Where' = "main_idle" BY <2>2 DEF Where, InCall
  <2> QED BY <2>3 DEF Away, P1Steps, P2Steps
<1> QED BY <1>1, <1>3, <1>4, <1>5, <1>6, <1>7, <1>8, <1>9, <1>10, <1>11,
        <1>12, <1>13, <1>14, <1>15, <1>16, <1>17, <1>18, <1>19, <1>20,
        <1>21, <1>22, <1>23, <1>24 DEF InCall, ReturnSteps

\* Procedures 1 and 2 return within nineteen steps of the main thread when no
\* button is pressed.
THEOREM ProceduresReturnSoon == Spec => ReturnsSoon
<1>1. ASSUME IInv, [Next]_vars PROVE Returning
  <2>1. SUFFICES ASSUME Away, pressed = {}, Away'
                 PROVE  /\ ReturnsIn' <= ReturnsIn
                        /\ MainThread => ReturnsIn' < ReturnsIn
    BY <1>1, ReturnsInBound DEF Returning
  <2>2. ReturnsIn \in 1 .. 19 BY <1>1, <2>1, ReturnsInBound
  <2>3. CASE MainThread
    <3>1. ReturnsIn' \in 0 .. ReturnsIn - 1 BY <1>1, <2>1, <2>3, ReturnStep
    <3> QED BY <2>2, <3>1
  <2>4. CASE WatchdogReset
    <3>1. Where' = "boot" BY <2>4 DEF WatchdogReset, Where, InCall
    <3> QED BY <2>1, <3>1 DEF Away, P1Steps, P2Steps
  <2>5. CASE ~MainThread /\ UNCHANGED <<pc, call, msg>>
    <3>1. Where' = Where /\ CallSteps' = CallSteps
      BY <2>5 DEF Where, InCall, CallSteps
    <3>2. GoesRound' <=> GoesRound BY <2>5, <3>1 DEF GoesRound, Pressed
    <3>3. ReturnsIn' = ReturnsIn BY <3>1, <3>2 DEF ReturnsIn, ReturnSteps
    <3> QED BY <2>2, <2>5, <3>3
  <2> QED BY <1>1, <2>3, <2>4, <2>5, OthersLeaveThread
<1> QED BY <1>1, Invariance, PTL DEF Spec, ReturnsSoon
=============================================================================
