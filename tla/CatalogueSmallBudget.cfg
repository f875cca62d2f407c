SPECIFICATION Spec
CONSTANTS
    timex = timex
    p = p
    i1 = i1
    i2 = i2
    i3 = i3
    i4 = i4
    q = q
    retail = retail
    Proc = {p}
    Lane = {timex}
    LanesOf <- Lanes
    Item = {i1, i2}
    Region = {timex}
    RegionOf <- MCRegionOf
    Budget <- One
    PassBudget = 2
    SmallBudget = 0
    Invocations = {"default"}
    DetailCap <- MCDetailCap
    FillRuns = 2
    FirstSeenOptIn = FALSE
    Listing <- MCListing
    Position <- AtHead
    Ceiling <- Two
    Moved <- NoneMoved
    Newsworthy = {}
    Baselining = FALSE
    MaxFaults = 0
    NoItem = NoItem
    Nobody = Nobody
SYMMETRY Symmetry
PROPERTY DefaultRunsArePasses
