CONSTANTS
  h1 = h1
  h2 = h2
  parakeet = parakeet
  tiny = tiny
  NoHandler = NoHandler
  Unknown = Unknown
  NoModel = NoModel
  NoAudio = NoAudio
  Handler <- MCHandler
  Model <- MCModel
  Fluid <- MCFluid
  Default = parakeet
  MaxPcm = 1
  MaxStops = 2
  MaxSets = 2
  MaxBuilds = 2
  MaxFaults = 1
  MaxFails = 1
SPECIFICATION FairSpec
INVARIANTS
  TypeOK
  TextUnlessClosed
  MicSettles
  ClosedHasNoProcess
PROPERTIES
  WholeOnceOrNothing
  SetTakesEffect
  CommandEnds
CHECK_DEADLOCK FALSE
