SPECIFICATION Spec
CONSTANTS
  IrWidth = 3
  IdcodeWidth = 2
  IdcodeValue <- MCIdcodeValue
  HasIdcode = TRUE
  NoOpcode = NoOpcode
  IjtagAccessOpcode = NoOpcode
  DataRegisters <- MCDataRegisters
  MaxScan = 4
INVARIANTS
  TypeOK
  FiveOnesReachReset
  SixOnesDeselect
  IrHoldsScan
  DrHoldsScan
PROPERTIES
  NullIrScanIsSafe
  NetworkSelectedByItsOpcode
