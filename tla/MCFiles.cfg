SPECIFICATION Spec
CONSTANTS
    Call = {p1, p2, p3}
    Id = {b1, b2, b3}
    Content = {x, y}
    Key = {k}
    MaxCalls = 3
    Partial = Partial
    Absent = Absent
    None = None
SYMMETRY Symmetry
INVARIANTS EffectDisplacesWhatItSaw LatestReceiptRestorable 
CHECK_DEADLOCK FALSE
