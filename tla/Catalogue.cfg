SPECIFICATION Spec
CONSTANTS
    timex = timex
    p = p
    i1 = i1
    i2 = i2
    i3 = i3
    i4 = i4
    q = q
    retail = retail
    Proc = {p, q}
    Lane = {timex, retail}
    LanesOf <- Lanes
    Item = {i1, i2}
    Region = {timex, retail}
    RegionOf <- MCRegionOf
    Budget <- One
    PassBudget = 1
    SmallBudget = 0
    Invocations = {"default"}
    DetailCap <- MCDetailCap
    FillRuns = 2
    FirstSeenOptIn = FALSE
    Listing <- MCListing
    Position <- AtHead
    Ceiling <- Two
    Moved <- NoneMoved
    Newsworthy = {}
    Baselining = FALSE
    MaxFaults = 1
    NoItem = NoItem
    Nobody = Nobody
SYMMETRY Symmetry
INVARIANTS
    OneNoveltyPerWatch
    PostsAreAccountedFor
