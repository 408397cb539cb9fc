SPECIFICATION FairSpec
CONSTANTS
  LastChannel = 1
  Entries <- MCEntries
  Width <- MCWidth
  Top = 4
  CountMod = 3
  Visible = 7
  MaxWrites = 3
INVARIANTS HaltedExactlyForDma HdmaFollowsTable
PROPERTIES TransfersWhole CpuReleased
