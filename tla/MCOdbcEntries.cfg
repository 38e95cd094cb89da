\* Two sessions on profile 1 issue Insert, Replace and Remove with and
\* without tags; one statement error; items_tags has no foreign key (the
\* logical layout of spec section 6).  Sessions are interchangeable.
\* Item ids 1..3 allow two entries and a remove and re-insert, so a tag
\* loop can run after its entry was removed and another inserted.
CONSTANTS
    p1 = p1  p2 = p2  e1 = e1  e2 = e2  v1 = v1  v2 = v2  t1 = t1  t2 = t2
    NoTags = NoTags  Absent = Absent  NoCall = NoCall
    Procs <- MCProcs
    Profiles = {1}
    Idents <- MCIdents
    Vals <- MCVals
    Tags <- MCTags
    TagArgs <- MCOneTag
    UpdateOps <- MCAllOps
    MaxItems = 3
    MaxFailures = 1
    TagsCascade = FALSE
SPECIFICATION Spec
SYMMETRY MCSymmetry
INVARIANT TypeOK
PROPERTY TagsAttachToOwnEntry
