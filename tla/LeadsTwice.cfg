SPECIFICATION Spec
CONSTANTS
    blog = blog
    club = club
    magazine = magazine
    operator = operator
    one = one
    two = two
    a = a
    b = b
    casio = casio
    colour = colour
    Standing = {blog, club}
    Publication = {}
    Manual = {}
    Url = {one, two}
    Ref = {a, b}
    Watch = {colour}
    Maker = {casio}
    Makers <- MCMakers
    MakerOf <- MCMakerOf
    RefsOf <- MCRefsOf
    Exact <- MCExact
    Family <- MCFamily
    Stale = {}
    Weak = {}
    Feeds <- BusyFeeds
    Configs <- MCConfigs
    MaxFaults = 0
    NoUrl = NoUrl
    Nobody = Nobody
INVARIANT FollowedUpOnce
