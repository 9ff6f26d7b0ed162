\* Both ends of both pots; the clock ticks between any two steps.
SPECIFICATION Spec
CONSTANTS
  AdcValues <- PotEnds
  MaxMs = 1
INVARIANTS
  TypeOK
  QuietBetweenRuns
  ArmedOnlyInRun
  SettingsAreApplied
  Timeline
  FinalReport
  DarkOnReturn
PROPERTY StartsAsAnnounced
