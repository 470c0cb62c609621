CONSTANTS
    Users = {u1, u2}
    Tasks = {1, 2}
    MaxTokens = 4
    MaxTasks = 3
    MaxSessions = 3
    MaxNow = 1
    Lifetime = 0
SPECIFICATION Spec
SYMMETRY AnyUser
INVARIANT AccountsSafe
CHECK_DEADLOCK FALSE
