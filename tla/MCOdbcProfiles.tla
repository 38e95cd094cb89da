--------------------------- MODULE MCOdbcProfiles ---------------------------
(* Small instances of OdbcProfiles for TLC.                                *)
EXTENDS OdbcProfiles, TLC

CONSTANTS p1, p2, n1, n2, k1, k2

MCProcs == {p1, p2}
MCNames == {n1, n2}
MCStoreKeys == {k1, k2}

\* Tasks are interchangeable; names and store keys are not (the default
\* profile and the initial store key are distinguished).
MCSymmetry == Permutations(MCProcs)

=============================================================================
