SPECIFICATION Spec
CONSTANTS
    mcp = mcp
    own = own
    step = step
    Tools = {mcp, own, step}
    Authored = {own}
    CodeStep = step
    Policies <- MCPolicies
    MaxCalls = 2
    MaxRounds = 1
    MaxEdits = 1
    MaxRestarts = 0
INVARIANTS AnswersOwnAsk
CHECK_DEADLOCK FALSE
