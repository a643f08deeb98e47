SPECIFICATION Spec
CONSTANTS
  Sensed = {1, 2, 3}
  Fuse = 250
  Margin = 20
  Limits <- MCLimits
  HouseLoads <- MCLoads
  Glitches <- MCGlitches
  MeterMayLag = FALSE
INVARIANTS TypeOK FuseHolds
PROPERTY SteadySetpoint
