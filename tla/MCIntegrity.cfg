SPECIFICATION ProbeSpec
CONSTANTS
  Sibs <- MCSibs
  Muxes <- MCMuxes
  Instruments <- MCInstruments
  Writes <- MCWrites
  Order <- MCOrder
  Path <- MCPath
  Width <- MCWidth
  CaptureValue <- MCCaptureValue
  LiveInstruments = {"sense"}
  Margins = {1, 3, 4, 8}
INVARIANTS
  CareBitsAreSound
  LiveValuesNeverCommit
  NetworkIsAsTracked
  SentinelReturnsOnTime
CHECK_DEADLOCK FALSE
