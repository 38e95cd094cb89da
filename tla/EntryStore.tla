----------------------------- MODULE EntryStore -----------------------------
(***************************************************************************)
(* What the entry operations of a session promise (spec 4.4): a store of   *)
(* entries keyed by identity (profile, kind, category, name), each with a  *)
(* value and a tag set, on which Insert, Replace and Remove take effect    *)
(* atomically.  A caller invokes an operation; it takes effect at one      *)
(* instant (Apply) and then returns, or it fails and has no effect.        *)
(***************************************************************************)
CONSTANTS
    Procs,     \* callers (sessions)
    Keys,      \* entry identities
    Vals,      \* entry values
    TagVals,   \* tags
    Absent,    \* no entry under an identity
    NoCall     \* the caller has no operation in progress

VARIABLES store, call

Ops   == {"Insert", "Replace", "Remove"}
Calls == [op: Ops, key: Keys, val: Vals, tags: SUBSET TagVals, done: BOOLEAN]

TypeOK ==
    /\ store \in [Keys -> [val: Vals, tags: SUBSET TagVals] \cup {Absent}]
    /\ call \in [Procs -> Calls \cup {NoCall}]

\* The entry store after the operation c takes effect.  An Insert of an
\* existing identity fails with Duplicate and changes nothing; Replace
\* creates or overwrites the entry with exactly the new value and tags.
Effect(s, c) ==
    CASE c.op = "Insert"  -> IF s[c.key] = Absent
                             THEN [s EXCEPT ![c.key] = [val |-> c.val, tags |-> c.tags]]
                             ELSE s
      [] c.op = "Replace" -> [s EXCEPT ![c.key] = [val |-> c.val, tags |-> c.tags]]
      [] c.op = "Remove"  -> [s EXCEPT ![c.key] = Absent]

Init ==
    /\ store \in [Keys -> [val: Vals, tags: SUBSET TagVals] \cup {Absent}]
    /\ call = [p \in Procs |-> NoCall]

Invoke(p) ==
    /\ call[p] = NoCall
    /\ \E c \in Calls : ~c.done /\ call' = [call EXCEPT ![p] = c]
    /\ UNCHANGED store

Apply(p) ==
    /\ call[p] # NoCall /\ ~call[p].done
    /\ store' = Effect(store, call[p])
    /\ call' = [call EXCEPT ![p].done = TRUE]

Fail(p) ==
    /\ call[p] # NoCall /\ ~call[p].done
    /\ call' = [call EXCEPT ![p] = NoCall]
    /\ UNCHANGED store

Respond(p) ==
    /\ call[p] # NoCall /\ call[p].done
    /\ call' = [call EXCEPT ![p] = NoCall]
    /\ UNCHANGED store

Next == \E p \in Procs : Invoke(p) \/ Apply(p) \/ Fail(p) \/ Respond(p)

Spec == Init /\ [][Next]_<<store, call>>

=============================================================================
