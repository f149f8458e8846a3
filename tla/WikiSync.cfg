SPECIFICATION FairSpec
CONSTANTS
  Page = {p1, p2}
  Sidebar = Sidebar
  FirstPages = {p1}
  MaxAttempts = 3
  MaxEdits = 3
  MaxOps = 3
  MaxCrashes = 1
  MaxTerminal = 1
INVARIANTS NoWorkLost NoMarkersCommitted MergeNotAbsorbed
PROPERTIES NoClobber OneCommitPerSave SidebarInSameCommit DivergedIsTrue KeepsHistory OperationsEnd
CHECK_DEADLOCK FALSE
