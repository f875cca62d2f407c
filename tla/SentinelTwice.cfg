SPECIFICATION Spec
CONSTANTS
    Proc = {p}
    Source = {s1}
    Key = {k1, k2}
    EditorialModes = {TRUE}
    MaxAlerts = 1
    MaxPost = 1
    Locked = TRUE
    MaxCrashes = 1
    MaxRaises = 0
    NoSource = NoSource
    NoKey = NoKey
    Nobody = Nobody
SYMMETRY Symmetry
INVARIANT NeverPingedTwice
