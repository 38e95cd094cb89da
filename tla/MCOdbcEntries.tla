---------------------------- MODULE MCOdbcEntries ----------------------------
(* OdbcEntries instantiated for TLC: model values for the sessions,       *)
(* identities, values and tags.                                           *)
EXTENDS OdbcEntries, TLC

CONSTANTS p1, p2, e1, e2, v1, v2, t1, t2

MCProcs    == {p1, p2}
MCOneProc  == {p1}
MCIdents   == {e1, e2}
MCVals     == {v1, v2}
MCTags     == {t1, t2}
MCTagArgs  == {NoTags, {t1, t2}}
MCOneVal   == {v1}
MCOneTag   == {NoTags, {t1}}
MCUntagged == {NoTags}
MCAllOps   == {"Insert", "Replace", "Remove"}
MCInsRem   == {"Insert", "Remove"}

MCSymmetry == Permutations(MCProcs)

=============================================================================
