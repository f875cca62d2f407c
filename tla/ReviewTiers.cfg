SPECIFICATION Spec
CONSTANTS
    ann = ann
    ben = ben
    useful = useful
    rejected = rejected
    soldout = soldout
    r = r
    Operator = {ann, ben}
    Reader = {ann}
    Items = 3
    Reference = {r}
    ReferenceOf <- MCReferenceOf
    Tier <- LateWeak
    Weak = {}
    Faint = {}
    Verdict = {useful, rejected}
    Negative = {rejected}
    PageSize = 1
    MaxVerdicts = 2
INVARIANT PagesAreTraversable
CHECK_DEADLOCK FALSE
