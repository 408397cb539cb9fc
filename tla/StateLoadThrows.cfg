SPECIFICATION Spec
CONSTANTS
  SemWaiters = {"a", "b"}
  SemLone = "a"
  SemPosters = {"p", "q"}
  SemMax = 2
  SemPosts = 2
  SemSecond = 10
  BusA = {0, 1, 2}
  BusB = {2}
  BusAPairs <- MCAPairs
  BusBPairs <- MCBPairs
  BusSets = 2
  BusValues = {0, 1}
  BusRam = 9
  BusBase = 3
  BusCalls = 3
  PadWidth = 2
  PadReads = 3
  PadActive = {0, 2}
  PadHot = {2}
  PadPatterns <- MCPatterns
  PadSaves <- MCSaves
  PadCuts <- MCCuts
  RegValues = {0, 1}
  RegQueue = 2
  RegWrites = 3
  ScreenTypes = {"weave", "bob", "bob_offset", "blend"}
  ScreenRows = {1, 3}
  ScreenWidths = {1, 2}
  FrameInputs = {0, 1}
  FrameSizes = {3, 4, 5}
  FrameMost = 3
  CoreAffinities = {0, 2}
  CoreOwn = 7
  CoreTaps <- MCTaps
  CoreActive <- MCActive
  CoreCodes = {"c1", "c2", "c3", ""}
  CoreGood <- MCGood
  CoreSlots = 2
INVARIANT LoadsThrow
CHECK_DEADLOCK FALSE
