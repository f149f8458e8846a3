SPECIFICATION SourceSpec
CONSTANTS
  Piece <- MCPiece
  Key <- MCKey
  Sources <- MCSources
  Lines <- MCLines
  Parents <- MCParents
  TagLists <- MCTagLists
  Texts <- MCTexts
  MaxChanges = 2
  MaxEdits = 1
INVARIANT UnknownLinesStay
PROPERTY ReadAsSaved
CHECK_DEADLOCK FALSE
