SPECIFICATION Spec
SYMMETRY Symmetry
CONSTANTS
    a = a
    b1 = b1
    b2 = b2
    q1 = q1
    q2 = q2
    p1 = p1
    p2 = p2
    d = d
    c1 = c1
    c2 = c2
    k1 = k1
    s1 = s1
    s2 = s2
    s3 = s3
    NoSnapshot = NoSnapshot
    NoFact = NoFact
    Facts <- MCFacts
    Derived = {d}
    SlotOf <- MCSlotOf
    Batches <- MCBatches
    ProofsOf <- MCProofsOf
    Snapshots = {s1, s2, s3}
    MaxEdges = 2
    Cases = {k1}
    Candidates <- MCCandidates
    RealizesSlot <- MCRealizes
    ReadSlots <- MCReads
    CostSlot <- MCCost
    Covering <- MCCovering
    Shown <- MCFacts
    Exact <- MCExact
    CostOf <- MCCostOf
PROPERTY HistoryIsNotRewritten
