----------------------------- MODULE ProfileKeys -----------------------------
(***************************************************************************)
(* What the profile lifecycle promises (spec 3, 4.2, 4.3, 8): a map from   *)
(* profile name to profile key.  create_profile binds a name that has no   *)
(* profile to a key never used before (a name already in use is refused, *)
(* never overwritten); remove_profile unbinds a name; rekey re-wraps keys *)
(* under a new store key and so changes nothing here.                      *)
(***************************************************************************)
CONSTANTS
    Names,     \* profile names
    Keys,      \* profile keys
    Absent     \* no profile of that name

VARIABLES
    keys,      \* name -> the profile's key, or Absent
    used       \* every key some profile was ever created with

TypeOK ==
    /\ keys \in [Names -> Keys \cup {Absent}]
    /\ used \subseteq Keys

Init ==
    /\ keys \in [Names -> Keys \cup {Absent}]
    /\ used = {keys[n] : n \in {m \in Names : keys[m] # Absent}}

Create(n, k) ==
    /\ keys[n] = Absent /\ k \notin used
    /\ keys' = [keys EXCEPT ![n] = k]
    /\ used' = used \cup {k}

Remove(n) ==
    /\ keys[n] # Absent
    /\ keys' = [keys EXCEPT ![n] = Absent]
    /\ UNCHANGED used

Next == \E n \in Names : Remove(n) \/ \E k \in Keys : Create(n, k)

Spec == Init /\ [][Next]_<<keys, used>>

=============================================================================
