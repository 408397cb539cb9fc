SPECIFICATION FairSpec
CONSTANTS
  Size = 3
  MaxCalls = 4
  SemMax = 1
INVARIANTS SyncDrains ExitDrains NoRace
PROPERTIES ImplementsChannel CallsReturn LinesRendered
