SPECIFICATION Spec
CONSTANTS
  GsuSize = 4
  GsuLine = 2
  GsuLines = 1
  GsuCost = 1
  GsuPeriod = 1
  CxPages = {0, 1}
  CxWords = 2
  CxDepth = 1
  CxElapse = 1
  SaCost = 1
  SaLength = 1
  SaSlice = 2
  DspVersions = {0, 1}
  DspLens = {1, 2, 3}
  DspLimit = 2
  DspDump = 2
  MsuTracks = {"t1"}
  MsuNone = "none"
  MsuFrames = 3
  MsuLead = 2
  MsuBusy = 2
  MsuNever = 8
  MsuStep = 2
  MsuFrameTime = 2
  MsuEnd = 5
  MsuWrites = 2
INVARIANTS BoardIsSound GsuRuns Cx4Runs Sa1Answers DataConverted DspAnswers Msu1InStep ChipsCompute
PROPERTY Cx4Locks
CHECK_DEADLOCK FALSE
