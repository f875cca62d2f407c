SPECIFICATION NoveltySpec
CONSTANTS
    us = us  uk = uk  a = a  b = b   dress = dress  sport = sport
    US = US  UK = UK  anna = anna  bert = bert  None = None
    Lane = {us}
    Operator = {anna, bert}
    Ref = {a, b}
    Region = {US, UK}
    Collection = {dress, sport}
    RegionOf <- MCRegionOf
    FirstParty <- MCFirstParty
    Family <- MCFamily
    NewsRegion = US
    Served <- MCServed
    MinSize = 2
    MinCollections = 2
    Fresh = 0
    CatchUp = 1
    Recent = 0
    BurstCount = 2
    MaxDay = 1
    MaxFaults = 0
    Announced = {a}
    MaxRuns = 1
    MaxNews = 0
    MaxLooks = 2
CHECK_DEADLOCK FALSE
INVARIANTS
    CatchUpsNeverDoubleFire
