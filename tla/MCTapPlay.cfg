SPECIFICATION Spec
CONSTANTS
  Sibs <- MCSibs
  Muxes <- MCMuxes
  Instruments <- MCInstruments
  Writes <- MCWrites
  Order <- MCOrder
  Path <- MCPath
  Width <- MCWidth
  CaptureValue <- MCCaptureValue
  IrWidth = 3
  IdcodeWidth = 2
  IdcodeValue <- MCIdcodeValue
  HasIdcode = TRUE
  NoOpcode = NoOpcode
  IjtagAccessOpcode = NoOpcode
  DataRegisters <- MCDataRegisters
  ScanLengths = {1, 3}
  Inputs <- MCInputs
  OtherPins <- MCOtherPins
  PinOps <- MCPinOps
  MaxBlocks = 3
  Plans <- MCPlans
INVARIANTS
  ScanIsAtomic
  LoadSelects
  ResetNeedsNoLeadIn
  ResetCommitsOnlyAScan
  RaisesOnlyOnMisuse
  TraceCorrelates
  StilIsTheProgram
  IntegrityCoversTheTap
CHECK_DEADLOCK FALSE
