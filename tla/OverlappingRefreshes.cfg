\* Two refreshes at once: the refresh button of the transport bar, and the
\* scan that follows "Add Folder" in the settings.
SPECIFICATION Spec
CONSTANTS
    Roots = {"outer", "inner"}
    Sounds = {"deep", "top"}
    Refreshes = {a, b}
    RootsOf <- Nested
    MaxRefreshes = 3
    MaxChanges = 0
    CallsMayFail = FALSE
CHECK_DEADLOCK FALSE
INVARIANTS
    RefreshIsAtomic
