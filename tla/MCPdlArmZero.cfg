SPECIFICATION Spec
CONSTANTS
  Sibs <- MCSibs
  Muxes <- MCMuxes
  Instruments <- MCInstruments
  Writes <- MCWrites
  Order <- MCOrder
  Path <- MCPath
  Width <- MCWidth
  CaptureValue <- MCCaptureValue
  Fields <- MCFields
  OtherScopes <- MCOtherScopes
  WriteValues = {1, 2}
  ReadValues = {1}
  MaxEdits = 1
  MaxPending = 1
  MaxAccesses = 1
  MaxWaits = 1
INVARIANT TrackedWritesArePhysical
