SPECIFICATION Spec
CONSTANTS
  Sibs <- MCSibs
  Muxes <- MCMuxes
  Instruments <- MCInstruments
  Writes <- MCWrites
  Order <- MCOrder
  Path <- MCPath
  Width <- MCWidth
  CaptureValue <- MCCaptureValue
  Fields <- MCFields
  OtherScopes <- MCOtherScopes
  WriteValues = {3}
  ReadValues = {1}
  MaxEdits = 1
  MaxPending = 1
  MaxAccesses = 1
  MaxWaits = 1
INVARIANTS
  TrackedOpenIsPhysical
  TrackedWritesArePhysical
  ScanFitsChain
PROPERTIES
  ImplementsInstrumentFile
