SPECIFICATION D1Spec
CONSTANTS
    w1 = w1
    w2 = w2
    l1 = l1
    l2 = l2
    old = old
    new = new
    b1 = b1
    Writer = {w1, w2}
    Lead = {l1, l2}
    Blob = {b1}
    Version = {old, new}
    BlobsOf <- MCBlobsOf
    Labels = {"editorial_keep"}
    Exports <- MCExports
    Roots <- MCRoots
    MaxObservations = 2
    MaxVerdicts = 1
    MaxInterrupts = 1
SYMMETRY Alike
INVARIANTS
    EvidenceIsOwned
PROPERTIES
    OnlyOverlapLoses
    ImplementsInbox
CHECK_DEADLOCK FALSE
