\* Two sessions on one profile Insert and Remove untagged entries, with one
\* statement error: update must implement the atomic EntryStore.
CONSTANTS
    p1 = p1  p2 = p2  e1 = e1  e2 = e2  v1 = v1  v2 = v2  t1 = t1  t2 = t2
    NoTags = NoTags  Absent = Absent  NoCall = NoCall
    Procs <- MCProcs
    Profiles = {1}
    Idents <- MCIdents
    Vals <- MCVals
    Tags <- MCTags
    TagArgs <- MCUntagged
    UpdateOps <- MCInsRem
    MaxItems = 4
    MaxFailures = 1
    TagsCascade = TRUE
SPECIFICATION Spec
SYMMETRY MCSymmetry
PROPERTY EntryStoreRefined
