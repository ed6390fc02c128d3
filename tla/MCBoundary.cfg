SPECIFICATION BoundarySpec
CONSTANTS
  PortLists <- MCPortLists
  Excluded <- MCExcluded
  Instructions = {"EXTEST", "SAMPLE_PRELOAD", "BYPASS"}
INVARIANTS
  ModelPinsAgree
  ModelScanAgrees
  ExtestDrivesLoaded
  NormalModePinsUnchanged
