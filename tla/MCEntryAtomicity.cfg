\* Two sessions Insert and Remove entries with tags: the tag statements run
\* after the items row is committed.
CONSTANTS
    p1 = p1  p2 = p2  e1 = e1  e2 = e2  v1 = v1  v2 = v2  t1 = t1  t2 = t2
    NoTags = NoTags  Absent = Absent  NoCall = NoCall
    Procs <- MCProcs
    Profiles = {1}
    Idents <- MCIdents
    Vals <- MCOneVal
    Tags <- MCTags
    TagArgs <- MCOneTag
    UpdateOps <- MCInsRem
    MaxItems = 2
    MaxFailures = 0
    TagsCascade = TRUE
SPECIFICATION Spec
PROPERTY EntryStoreRefined
