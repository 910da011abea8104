CONSTANTS
  Can = Can
  App = App
  Ui = Ui
  Reader = {Can, Ui}
  Committer = {App, Ui}
  Outranks <- AppAboveUi
  SlotCount = 2
  MaxCommits = 3
  NoTask = NoTask
  NoVersion = NoVersion
SPECIFICATION FairSpec
INVARIANTS
  TypeOK
  QuiescentPublication
  ReaderSeesOneCommit
  EpochNamesTable
PROPERTIES
  CommitsAreAtomic
  UnlessPreempted
