SPECIFICATION FairSpec
CONSTANTS
    catalogue = catalogue
    multi = multi
    old = old
    new = new
    soak = soak
    Proc = {p, q}
    Lane = {catalogue, multi}
    JudgesAs <- MCJudgesAs
    Code = {old, new, soak}
    Experimental <- MCExperimental
    Started = {"SCHEDULED", "MANUAL"}
    MaxDeploys = 2
    MaxFaults = 1
    NoCode = NoCode
    Nobody = Nobody
INVARIANTS
    DeliversQualifiedCode
PROPERTY DeliveryComesBack
