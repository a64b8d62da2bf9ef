\* One thread: a turn that takes a file off .gitignore, its revert and the revert of that.
SPECIFICATION Spec
CONSTANTS
    Files = {"x", "y"}
    Ignorable = {"y"}
    Contents = {"a"}
    Threads = {"t"}
    MaxTurns = 2
    MaxEdits = 2
    MaxReverts = 2
    MaxTroubles = 0
PROPERTY RevertUndone
CHECK_DEADLOCK FALSE
