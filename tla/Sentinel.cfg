SPECIFICATION Spec
CONSTANTS
    Proc = {p, q}
    Source = {s1}
    Key = {k1, k2, k3}
    EditorialModes = {TRUE}
    MaxAlerts = 1
    MaxPost = 1
    Locked = TRUE
    MaxCrashes = 1
    MaxRaises = 1
    NoSource = NoSource
    NoKey = NoKey
    Nobody = Nobody
SYMMETRY Symmetry
INVARIANT SightingsAreDecided
PROPERTIES
    PingsOnlyWhenArmed
    ArmedOnAKnownCatalogue
