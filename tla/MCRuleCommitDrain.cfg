CONSTANTS
  Can = Can
  App = App
  Ui = Ui
  Reader = {Can, Ui}
  Committer = {App, Ui}
  Outranks <- AppAboveUi
  SlotCount = 2
  MaxCommits = 1
  NoTask = NoTask
  NoVersion = NoVersion
SPECIFICATION FairSpec
PROPERTY CommitCompletes
