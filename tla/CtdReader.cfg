SPECIFICATION ReaderSpec
CONSTANTS
  Files <- MCFiles
  Width <- MCWidth
  NewLine = "nl"
  NotBase64 = "bad"
INVARIANTS TreeAsWritten ContentInPlace
CHECK_DEADLOCK FALSE
