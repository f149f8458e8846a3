SPECIFICATION Spec
CONSTANTS
    Files = 3
    Id = {1, 2, 3}
    NoParent = 0
    Missing = 9
    Position = {0, 1}
    Archived = {TRUE, FALSE}
    MaximumDepth = 2
INVARIANTS WalkIsPreOrder SidebarIsVisiblePart
