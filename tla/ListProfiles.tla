---------------------------- MODULE ListProfiles ----------------------------
(***************************************************************************)
(* OdbcBackend::list_profiles (mod.rs 144-164) over a profiles table that *)
(* create_profile and remove_profile change.  A name is a number; rows    *)
(* are kept in storage order, a new row going last.  list_profiles binds  *)
(* a RowVec of BatchSize rows, calls fetch() once and unwraps its answer. *)
(***************************************************************************)
EXTENDS Naturals, Sequences

CONSTANTS
    BatchSize,    \* RowVec::new(10)
    MaxProfiles,  \* bound on the profiles ever created
    Panic         \* the task panics instead of returning

ASSUME BatchSize \in Nat \ {0} /\ MaxProfiles \in Nat \ {0}

VARIABLES
    rows,      \* the names of the profiles table, in storage order
    nextName   \* the name the next create_profile uses

vars == <<rows, nextName>>

TypeOK ==
    /\ rows \in Seq(1..MaxProfiles)
    /\ nextName \in 1..MaxProfiles + 1

LesserOf(a, b) == IF a < b THEN a ELSE b

\* What list_profiles returns for the table rows: the first batch, or a
\* panic when fetch() answers None because the table is empty.
ListProfilesResult(r) ==
    IF r = <<>> THEN Panic ELSE SubSeq(r, 1, LesserOf(BatchSize, Len(r)))

\* A provisioned store holds the default profile.
Init == rows = <<1>> /\ nextName = 2

CreateProfile ==
    /\ nextName <= MaxProfiles
    /\ rows' = Append(rows, nextName)
    /\ nextName' = nextName + 1

\* remove_profile(name) of an existing name; nothing keeps the default or
\* the last profile from being removed.
RemoveProfile(n) ==
    /\ \E i \in 1..Len(rows) : rows[i] = n
    /\ rows' = SelectSeq(rows, LAMBDA x : x # n)
    /\ UNCHANGED nextName

Next == CreateProfile \/ \E n \in 1..MaxProfiles : RemoveProfile(n)

Spec == Init /\ [][Next]_vars

(* list_profiles returns every profile name of the table (spec 4.2: "all  *)
(* profile names"), the empty list when there are none.                   *)
ListProfilesComplete == ListProfilesResult(rows) = rows

=============================================================================
