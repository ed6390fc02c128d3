SPECIFICATION Spec
CONSTANTS
  IrWidth = 3
  IdcodeWidth = 1
  IdcodeValue <- MCIdcodeValue
  HasIdcode = TRUE
  NoOpcode = NoOpcode
  IjtagAccessOpcode <- MCIjtagAccessOpcode
  StatusWidth = 2
  Words <- MCWords
INVARIANTS
  NothingSurvivesReset
  TrstCostsNoScan
  StatusIsCaptured
PROPERTIES
  ImplementsTapModel
