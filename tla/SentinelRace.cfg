SPECIFICATION Spec
CONSTANTS
    Proc = {p, q}
    Source = {s1}
    Key = {k1, k2}
    EditorialModes = {TRUE, FALSE}
    MaxAlerts = 1
    MaxPost = 1
    Locked = FALSE
    MaxCrashes = 1
    MaxRaises = 0
    NoSource = NoSource
    NoKey = NoKey
    Nobody = Nobody
SYMMETRY Symmetry
INVARIANT OneSightingPerIdentity
PROPERTY ImplementsTripwire
