CONSTANTS
  Plain = Plain
  Other = Other
  Tick = Tick
  Lost = Lost
  NoHandle = NoHandle
  Rule = {Plain, Other, Tick, Lost}
  Kind <- Ranks
  Counters = {Tick}
  Fixed = {Lost}
  Unresolved = {Lost}
  MaxRules = 2
  MaxValue = 1
  SequenceModulus = 8
  MaxAllocations = 3
  MaxEpoch = 7
SPECIFICATION Spec
PROPERTY EnableOnlyCommitKeepsValue
