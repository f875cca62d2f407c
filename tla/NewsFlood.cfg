SPECIFICATION Spec
CONSTANTS
    launch = launch
    review = review
    strap = strap
    gshock = gshock
    oceanus = oceanus
    edifice = edifice
    Announcement = {launch, review, strap}
    Watch = {gshock, oceanus}
    Refs <- MCRefs
    Key <- MCKey
    Accessory = {strap}
    Stale = {}
    Sitemap <- OneItem
    MaxCandidates = 1
    MaxItems = 1
    Modes <- MCModes
    MaxFaults = 3
    None = None
PROPERTY FirstCatalogueIsSilent
