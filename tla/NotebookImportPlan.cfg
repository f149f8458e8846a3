SPECIFICATION Spec
CONSTANTS
  Process = {p1}
  Book = {1, 2, 3, 4}
  SourceId = {1, 2, 3}
  Title = {1, 2, 3}
  Asset = {a1}
  NoHeading = NoHeading
  PageId <- MCPageId
  IdTail <- MCIdTail
  IdOf <- MCIdOf
  Nodes <- MCNodes
  MaxSegs = 3
  MaxHops = 4
  MaxRuns = 3
  MaxPeople = 2
INVARIANT PlanIsOfThisWiki
CHECK_DEADLOCK FALSE
