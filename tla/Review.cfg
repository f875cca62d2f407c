SPECIFICATION Spec
CONSTANTS
    ann = ann
    ben = ben
    useful = useful
    rejected = rejected
    soldout = soldout
    r = r
    Operator = {ann, ben}
    Reader = {ann}
    Items = 3
    Reference = {r}
    ReferenceOf <- MCReferenceOf
    Tier <- OneTier
    Weak = {2}
    Faint = {1}
    Verdict = {useful, rejected}
    Negative = {rejected}
    PageSize = 1
    MaxVerdicts = 2
INVARIANTS
    RacersAreRecorded
    RecallFirst
    PagesAreTraversable
PROPERTY OriginalVerdictKept
CHECK_DEADLOCK FALSE
