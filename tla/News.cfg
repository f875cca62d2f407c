SPECIFICATION FairSpec
CONSTANTS
    launch = launch
    review = review
    strap = strap
    gshock = gshock
    oceanus = oceanus
    edifice = edifice
    Announcement = {launch, review, strap}
    Watch = {gshock, oceanus, edifice}
    Refs <- MCRefs
    Key <- MCKey
    Accessory = {strap}
    Stale = {}
    Sitemap <- MCSitemap
    MaxCandidates = 2
    MaxItems = 1
    Modes <- FullOnly
    MaxFaults = 2
    None = None
INVARIANTS
    WatchIsNewOnce
    LeadRemembersAll
    StatusHidesNothing
PROPERTIES
    LeadsAreLinked
    CandidatesAreRead
