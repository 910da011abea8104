CONSTANTS
  Plain = Plain
  Other = Other
  Tick = Tick
  Lost = Lost
  NoHandle = NoHandle
  Rule = {Plain, Other, Tick, Lost}
  Kind <- Ranks
  Counters = {Tick}
  Fixed = {Lost}
  Unresolved = {Lost}
  MaxRules = 2
  MaxValue = 1
  SequenceModulus = 8
  MaxAllocations = 3
  MaxEpoch = 7
  FrameBytes = 3
  Package <- Packages
  Source = {"gear"}
  Reading <- Gears
  Payload <- Payloads
  Physical <- Words
  Output = {0, 5, 12}
  Setting = {1, 7}
  WordSpan = 16
  MaxRewrites = 2
SPECIFICATION EngineSpec
INVARIANTS
  EngineTypeOK
  TablesAgree
  HandleFidelity
  RunsOnceInOrder
  FieldsReadBack
  RestOfTheFrame
PROPERTY NothingIsClaimedTwice
