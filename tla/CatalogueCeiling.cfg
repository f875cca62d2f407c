SPECIFICATION FairSpec
CONSTANTS
    timex = timex
    p = p
    i1 = i1
    i2 = i2
    i3 = i3
    i4 = i4
    q = q
    retail = retail
    Proc = {p}
    Lane = {timex}
    LanesOf <- Lanes
    Item = {i1, i2, i3}
    Region = {timex}
    RegionOf <- MCRegionOf
    Budget <- Two
    PassBudget = 1
    SmallBudget = 2
    Invocations = {"default"}
    DetailCap <- MCDetailCap
    FillRuns = 1
    FirstSeenOptIn = FALSE
    Listing <- MCListing
    Position <- InOrder
    Ceiling <- Two
    Moved <- NoneMoved
    Newsworthy = {}
    Baselining = FALSE
    MaxFaults = 0
    NoItem = NoItem
    Nobody = Nobody
PROPERTY ListedIsObserved
