SPECIFICATION Spec
CONSTANTS
    ann = ann
    ben = ben
    useful = useful
    rejected = rejected
    soldout = soldout
    r = r
    Operator = {ann, ben}
    Reader = {}
    Items = 1
    Reference = {r}
    ReferenceOf <- MCReferenceOf
    Tier <- OneTier
    Weak = {}
    Faint = {}
    Verdict = {useful, rejected, soldout}
    Negative = {rejected}
    PageSize = 1
    MaxVerdicts = 3
INVARIANT VerdictsStayAuditable
CHECK_DEADLOCK FALSE
