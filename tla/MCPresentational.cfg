SPECIFICATION CapSpec
CONSTANTS
    Parent <- McParent
    Tag <- McTag
    Changing = {3}
    Optional = {}
    Presentational = {4}
    Texts = {"a", "b"}
    MaxDirty = 2
    MaxChanges = 2
INVARIANT
    PresentationalIsLeftOut
CHECK_DEADLOCK FALSE
