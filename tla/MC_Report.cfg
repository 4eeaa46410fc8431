SPECIFICATION Spec
CONSTANTS
  a = a
  b = b
  Alpha = 6
  MinReliableN = 5
  None = None
  Judges = {j1, j2}
  ScoreRange <- MCScores
  Missing = Missing
  Garbled = Garbled
  NoScore = NoScore
  Variants = {base, exp}
  Epochs = {1, 2}
  NoEpoch = NoEpoch
  TaskRuns = {f1, f2}
  MaxSamples = 3
  MaxRows = 3
  MaxCells = 3
  PRange <- MCPRange
  Words <- MCWords
  EpochTexts = {1, 2}
  FixtureMark = FixtureMark
  MaxTaskWords = 1
  MaxVariantWords = 2
  MaxFixtureWords = 1
  NoTag = NoTag
  BadTag = BadTag
  Counts = {0, 1}
  MaxChats = 2
INVARIANTS
  MarkersExact
  SamplesAgree
  BatchLikeSingle
  ScoresFindTheirCell
  SizesHonest
  GateFailsClosed
