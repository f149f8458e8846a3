SPECIFICATION Spec
CONSTANTS
  Path = {here, there}
  Nowhere = Nowhere
  Page = {g1}
  MaxEdits = 2
  MaxCommands = 4
  MaxLosses = 2
INVARIANTS BackupWhole RestoreBringsAll
PROPERTY CommandsKeepWork
SYMMETRY Symmetry
CHECK_DEADLOCK FALSE
