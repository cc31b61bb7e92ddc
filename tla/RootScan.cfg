\* One refresh at a time, with crashes, cancellations, failing requests and
\* folders added and removed meanwhile. The system stops when its bounds are
\* used up.
SPECIFICATION Spec
CONSTANTS
    Roots = {"outer", "inner"}
    Sounds = {"deep", "top"}
    Refreshes = {a}
    RootsOf <- Nested
    MaxRefreshes = 3
    MaxChanges = 3
    CallsMayFail = TRUE
CHECK_DEADLOCK FALSE
INVARIANTS
    RefreshIsAtomic
    ReconciledHotkeysAreListed
PROPERTIES
    StagingIsInvisible
    FoundSoundsKeepHotkeys
