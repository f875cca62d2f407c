SPECIFICATION NoveltySpec
CONSTANTS
    us = us  uk = uk  a = a  b = b  dress = dress  sport = sport
    US = US  UK = UK  anna = anna  bert = bert  None = None
    Lane = {us}
    Operator = {anna}
    Ref = {a, b}
    Region = {US, UK}
    Collection = {dress, sport}
    RegionOf <- MCRegionOf
    FirstParty <- MCFirstParty
    Family <- MCFamily
    NewsRegion = US
    Served <- MCServed
    Announced = {}
    MinSize = 3
    MinCollections = 2
    Fresh = 1
    CatchUp = 1
    Recent = 0
    BurstCount = 2
    MaxDay = 0
    MaxRuns = 1
    MaxNews = 0
    MaxLooks = 0
    MaxFaults = 0
CHECK_DEADLOCK FALSE
INVARIANTS
    VerdictsAreOrderFree
