CONSTANTS
    Sessions = {s1}
    Calls = {1, 2}
    Requests = {1, 2}
    Kinds = {"sleep", "err"}
    Crashes = {s1}
    MaxCalls = 3
SPECIFICATION Spec
INVARIANT RunnerSound
PROPERTY CallsEnd
CHECK_DEADLOCK FALSE
