SPECIFICATION Spec
CONSTANTS
  c1 = c1
  c2 = c2
  style = style
  facts = facts
  Cells = {c1, c2}
  Judges = {style, facts}
  JudgesOf <- MCJudgesOf
  Inline = {c1}
  Gated = {c1}
  Again = {c1}
  Old = {style}
  Untraced = {c1}
  Flaky = {facts}
  Batches = {TRUE, FALSE}
  MaxExec = 2
  MaxAnalyses = 2
  MaxActive = 1
  MaxRaces = 1
  NoEntry = NoEntry
  Torn = Torn
INVARIANTS
  NotPaidTwice
PROPERTIES
  KeepsScores
  FinishedIsComplete
  ImplementsTable
  VerdictLands
  AnalysisEnds
