CONSTANTS
  i1 = i1
  i2 = i2
  i3 = i3
  Installer <- MCInstaller
  Blocks = 2
  MaxFiles = 3
SPECIFICATION InstallSpec
INVARIANTS
  InstalledIsVerified
  NoTempLeft
PROPERTIES
  BinaryStays
SYMMETRY CallSymmetry
CHECK_DEADLOCK FALSE
