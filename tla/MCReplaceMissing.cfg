\* One session: Replace of an entry that does not exist.
CONSTANTS
    p1 = p1  p2 = p2  e1 = e1  e2 = e2  v1 = v1  v2 = v2  t1 = t1  t2 = t2
    NoTags = NoTags  Absent = Absent  NoCall = NoCall
    Procs <- MCOneProc
    Profiles = {1}
    Idents <- MCIdents
    Vals <- MCOneVal
    Tags <- MCTags
    TagArgs <- MCOneTag
    UpdateOps <- MCAllOps
    MaxItems = 2
    MaxFailures = 0
    TagsCascade = TRUE
SPECIFICATION Spec
PROPERTY ReplaceUpserts
