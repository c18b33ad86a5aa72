SPECIFICATION Spec
CONSTANTS
    o1 = o1
    o2 = o2
    b1 = b1
    b2 = b2
    b3 = b3
    d1 = d1
    d2 = d2
    Operators <- BothOperators
    Commits <- ThreeCommits
    Descends <- Branches
    PolicyOf <- Policies
    FirstCommit = b1
    Digests <- TwoDigests
    Qualified = {d2}
    Names = {"r1", "r2"}
    FirstName = "r1"
    Pasts <- EitherPast
    None = None
    Partial = Partial
    MaxActs = 4
SYMMETRY Symmetry
CHECK_DEADLOCK FALSE
INVARIANT ReleaseRuns
INVARIANT InstallBinds
INVARIANT InstallationPaired
INVARIANT BuildQualified
PROPERTY BoundaryAdvances
