SPECIFICATION Spec
CONSTANTS
  MinTicks = 2
  MaxTicks = 4
  UsPerTick = 500
  Timeout = 3
  Period = 2
  MaxLag = 1
  MaxHigh = 5
  Wrap = 12
  One = 2
  TrimSet <- Trims
  None = None
INVARIANTS TypeOK NeutralWhenSilent 
PROPERTY MeasuresPulses
