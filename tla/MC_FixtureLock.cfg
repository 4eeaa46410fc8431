SPECIFICATION LockSpec
CONSTANTS
  data = data
  review = review
  Fixtures = {data, review}
  Explicit = {data}
  Paths = {a, b}
  Contents = {x}
  MaxEdits = 2
  Missing = Missing
  Malformed = Malformed
  Cut = Cut
INVARIANTS
  RunsOnRecord
