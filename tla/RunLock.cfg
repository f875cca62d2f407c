SPECIFICATION FairSpec
CONSTANTS
    timer = timer
    manual = manual
    multi = multi
    dash = dash
    japan = japan
    both = both
    shared = shared
    Proc = {timer, multi}
    Probe = {dash}
    Lane = {japan, both}
    LockFile = {shared}
    LaneOf <- MCLaneOf
    FileOf <- MCFileOf
    Run = {r1, r2}
    NoRun = NoRun
    NoLane = NoLane
    Nobody = Nobody
INVARIANTS
    OneLiveRunPerFile
PROPERTIES
    ClosedRowsAreTheirOwners
    ImplementsOverlapGuard
    RowsEventuallyClose
    LocksAreFreed
