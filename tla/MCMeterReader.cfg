CONSTANTS
  DATA_PACKAGE = 3
  ENERGY_FLOW_NUM = 2
  UintModulus = 41
  UlongModulus = 50
  Readings <- MCReadings
  MaxFrames = 3
  MaxNoise = 1
  MaxLine = 6
SPECIFICATION Spec
INVARIANTS TypeOK EnergyExact
PROPERTIES EnergySettles SpikeHidden
\* open, the line's set-up or a division by zero may end the process.
CHECK_DEADLOCK FALSE
