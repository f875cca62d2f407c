SPECIFICATION FairSpec
CONSTANTS
    timex = timex
    p = p
    i1 = i1
    i2 = i2
    i3 = i3
    i4 = i4
    q = q
    retail = retail
    Proc = {p}
    Lane = {timex}
    LanesOf <- Lanes
    Item = {i1, i2, i3}
    Region = {timex}
    RegionOf <- MCRegionOf
    Budget <- Two
    PassBudget = 2
    SmallBudget = 1
    Invocations = {"default", "smoke", "forced"}
    DetailCap <- MCDetailCap
    FillRuns = 2
    FirstSeenOptIn = FALSE
    Listing <- AllButFirst
    Position <- InOrder
    Ceiling <- Two
    Moved <- NoneMoved
    Newsworthy = {i1}
    Baselining = TRUE
    MaxFaults = 1
    NoItem = NoItem
    Nobody = Nobody
PROPERTIES
    SilentWhileFilling
    CandidatesAreObserved
