SPECIFICATION Spec
CONSTANTS
    a = a
    b = b
    n = n
    c1 = c1
    c2 = c2
    Client <- MCClient
    NoClient = NoClient
    Slow <- MCSlow
    Page <- MCPage
    NoPage = NoPage
    Unmanaged = {}
    FirstTree <- MCFirstTree
    MaxPosition = 1
    HeadsOf <- MCHeadsOf
    Typed = {1}
    Upload <- MCUpload
    MaxAttachment = 1
    MaxEnvelope = 1
    Deadline = 2
    PerRead = 1
    Targets = {a, b}
    ByHand = {b}
    MaxRequests = 2
    MaxEdits = 1
CHECK_DEADLOCK FALSE
PROPERTIES EveryConnectionEnds MoveFromWhatWasSeen FormsKeepTheForest
