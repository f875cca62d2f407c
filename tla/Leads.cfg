SPECIFICATION FairSpec
CONSTANTS
    blog = blog
    club = club
    magazine = magazine
    operator = operator
    one = one
    two = two
    a = a
    b = b
    casio = casio
    colour = colour
    Standing = {blog}
    Publication = {magazine}
    Manual = {operator}
    Url = {one, two}
    Ref = {a, b}
    Watch = {colour}
    Maker = {casio}
    Makers <- MCMakers
    MakerOf <- MCMakerOf
    RefsOf <- MCRefsOf
    Exact <- MCExact
    Family <- MCFamily
    Stale = {}
    Weak = {}
    Feeds <- MCFeeds
    Configs <- MCConfigs
    MaxFaults = 1
    NoUrl = NoUrl
    Nobody = Nobody
INVARIANTS
    EveryLeadHasAnOutcome
    OneWarningPerReference
PROPERTIES LeadsAreFinal MatchesAreFound
