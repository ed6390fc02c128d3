SPECIFICATION SimSpec
CONSTANTS
  Sibs <- MCSibs
  Muxes <- MCMuxes
  Instruments <- MCInstruments
  Writes <- MCWrites
  Order <- MCOrder
  Path <- MCPath
  Width <- MCWidth
  CaptureValue <- MCCaptureValue
  MaxShifts = 8
INVARIANTS
  CommittedStateAgrees
  TdoAgreesWhenSelected
  LiveCellsAgree
  TailHoldsUnlessRelayed
