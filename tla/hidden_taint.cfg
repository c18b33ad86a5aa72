SPECIFICATION Spec
CONSTANTS
    c1 = c1
    NoCaps = NoCaps
    Unset = Unset
    MaxGen = 3
    Actions = {"implementation", "checkpoint"}
    Policies <- AnyPolicy
    Capabilities = {NoCaps, c1}
    Outcomes = {"success", "failed"}
    Reports = {TRUE}
CHECK_DEADLOCK FALSE
INVARIANT TaintIsNotHidden
