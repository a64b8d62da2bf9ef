\* An instance, another of the same name, and one of another manager; one image to update to.
SPECIFICATION FairSpec
CONSTANTS
    a = a
    b = b
    f = f
    v1 = v1
    Given = Given
    Brought = Brought
    NoImage = NoImage
    Hosted = {a, b}
    Foreign = {f}
    Existing = {a}
    Name <- SameName
    Images = {v1}
    MaxAsks = 3
    MaxTroubles = 1
    MaxRestarts = 1
    MaxExits = 1
INVARIANTS ImagesKept LifecycleInv
PROPERTIES OperationsEnd
CHECK_DEADLOCK FALSE
