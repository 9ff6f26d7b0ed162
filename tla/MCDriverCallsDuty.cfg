\* The duty that the hardware produces against the one that is reported, in the
\* range of the pot of procedure 1, where the product passes 16 bits.
SPECIFICATION Spec
CONSTANTS
  Duties = {0, 512, 1023}
  Periods = {1, 5, 8, 100}
INVARIANT DutyIsProportional
