SPECIFICATION FairSpec
CONSTANTS
    multi = multi
    japan = japan
    t1 = t1
    t2 = t2
    Source = {multi, japan}
    Reports <- MCReports
    Outcomes <- MCOutcomes
    SafeIds <- MCSafeIds
    Thread = {t1, t2}
    Nobody = Nobody
    Timer = Timer
    Window = 2
    Streak = 2
    MaxRows = 3
INVARIANTS
    BlockedStaysVisible
    HealthyIsEarned
    OneCollectionAtATime
PROPERTY CollectionsEnd
