----------------------------- MODULE OdbcEntries -----------------------------
(***************************************************************************)
(* OdbcSession::update (mod.rs 392-547) on the items and items_tags        *)
(* tables.  Profiles are fixed here (their lifecycle is OdbcProfiles);     *)
(* acquire_key and the encryption of category, name, value and tags are   *)
(* one step, since encryption is deterministic per profile key and so     *)
(* encrypted identities are equal exactly when the plain ones are.  Each  *)
(* SQL statement is one action and runs in autocommit mode: no code path  *)
(* opens a transaction ("XXX: Can we use a transaction here???").         *)
(***************************************************************************)
EXTENDS Naturals, FiniteSets

CONSTANTS
    Procs,        \* sessions, each on its own pooled connection
    Profiles,     \* profile ids (numbers, like the item ids)
    Idents,       \* entry identities (kind, category, name) within a profile
    Vals,         \* entry values
    Tags,         \* tags (name, value, plaintext)
    NoTags,       \* update(.., tags = None)
    TagArgs,      \* tag arguments callers pass: NoTags or a set of Tags
    UpdateOps,    \* the operations callers issue
    MaxItems,     \* bound on the items identity column
    MaxFailures,  \* bound on injected statement errors
    TagsCascade,  \* items_tags.item_id references items(id) ON DELETE CASCADE
    Absent,       \* no entry (abstract view)
    NoCall        \* no update in progress (abstract view)

ASSUME /\ Profiles \subseteq Nat \ {0}
       /\ TagArgs \subseteq {NoTags} \cup SUBSET Tags
       /\ UpdateOps \subseteq {"Insert", "Replace", "Remove"}
       /\ MaxItems \in Nat /\ MaxFailures \in Nat
       /\ TagsCascade \in BOOLEAN

VARIABLES
    items,     \* rows [id, pid, ident, val] of items
    tagRows,   \* rows [item, tag] of items_tags
    nextItem,  \* the next value of the items identity column
    failures,  \* statement errors injected so far
    pc,        \* per session: where its current update is
    sess,      \* per session: the profile id acquire_key resolved (0: none)
    op,        \* per session: the EntryOperation in progress
    eid,       \* per session: the identity argument
    val,       \* per session: the value argument
    targ,      \* per session: the tags argument
    itemId,    \* per session: item_id read by GET_ITEM_ID (0: not read)
    pending    \* per session: tags of the loop still to insert

vars == <<items, tagRows, nextItem, failures, pc, sess, op, eid, val, targ,
          itemId, pending>>

ItemIds   == 1..MaxItems
DefVal    == CHOOSE v \in Vals : TRUE
DefIdent  == CHOOSE e \in Idents : TRUE
ArgTags(a) == IF a = NoTags THEN {} ELSE a

States == {"idle", "open", "ins_item", "upd_item", "del_tags", "get_id",
           "ins_tag", "del_item", "ok"}

TypeOK ==
    /\ items \subseteq [id: ItemIds, pid: Profiles, ident: Idents, val: Vals]
    /\ tagRows \subseteq [item: ItemIds, tag: Tags]
    /\ nextItem \in 1..MaxItems + 1
    /\ failures \in 0..MaxFailures
    /\ pc \in [Procs -> States]
    /\ sess \in [Procs -> Profiles \cup {0}]
    /\ op \in [Procs -> UpdateOps]
    /\ eid \in [Procs -> Idents]
    /\ val \in [Procs -> Vals]
    /\ targ \in [Procs -> TagArgs]
    /\ itemId \in [Procs -> ItemIds \cup {0}]
    /\ pending \in [Procs -> SUBSET Tags]

\* The items row of the identity (pid, e), or the empty set.
RowOf(pid, e) == {i \in items : i.pid = pid /\ i.ident = e}

Init ==
    /\ items = {} /\ tagRows = {} /\ nextItem = 1 /\ failures = 0
    /\ pc = [p \in Procs |-> "idle"]
    /\ sess = [p \in Procs |-> 0]
    /\ op = [p \in Procs |-> CHOOSE o \in UpdateOps : TRUE]
    /\ eid = [p \in Procs |-> DefIdent]
    /\ val = [p \in Procs |-> DefVal]
    /\ targ = [p \in Procs |-> NoTags]
    /\ itemId = [p \in Procs |-> 0]
    /\ pending = [p \in Procs |-> {}]

\* A statement fails with a Backend error (spends one of MaxFailures).
IOError == failures < MaxFailures /\ failures' = failures + 1

\* update has returned to its caller (at l: "open" after an error, "idle"
\* after a panic): the arguments and locals of the call are gone.
Finish(p, l) ==
    /\ pc' = [pc EXCEPT ![p] = l]
    /\ sess' = IF l = "idle" THEN [sess EXCEPT ![p] = 0] ELSE sess
    /\ op' = [op EXCEPT ![p] = CHOOSE o \in UpdateOps : TRUE]
    /\ eid' = [eid EXCEPT ![p] = DefIdent]
    /\ val' = [val EXCEPT ![p] = DefVal]
    /\ targ' = [targ EXCEPT ![p] = NoTags]
    /\ itemId' = [itemId EXCEPT ![p] = 0]
    /\ pending' = [pending EXCEPT ![p] = {}]

Goto(p, l) == pc' = [pc EXCEPT ![p] = l]

\* After the row statements: the tag loop runs only when tags were given.
AfterRow(p) == IF targ[p] = NoTags THEN "ok" ELSE "get_id"

(* Backend::session(profile) with the profile resolved by acquire_key.    *)
OpenSession(p, pid) ==
    /\ pc[p] = "idle"
    /\ pc' = [pc EXCEPT ![p] = "open"]
    /\ sess' = [sess EXCEPT ![p] = pid]
    /\ UNCHANGED <<items, tagRows, nextItem, failures, op, eid, val, targ,
                   itemId, pending>>

(* update(kind, op, category, name, value, tags): acquire_key, then the   *)
(* offloaded encryption; then the first statement of the operation.       *)
Update(p, o, e, v, ta) ==
    /\ pc[p] = "open"
    /\ pc' = [pc EXCEPT ![p] = CASE o = "Insert"  -> "ins_item"
                                 [] o = "Replace" -> "upd_item"
                                 [] o = "Remove"  -> "del_item"]
    /\ op' = [op EXCEPT ![p] = o]
    /\ eid' = [eid EXCEPT ![p] = e]
    /\ val' = [val EXCEPT ![p] = IF o = "Remove" THEN DefVal ELSE v]
    /\ targ' = [targ EXCEPT ![p] = IF o = "Remove" THEN NoTags ELSE ta]
    /\ UNCHANGED <<items, tagRows, nextItem, failures, sess, itemId, pending>>

\* Mutant: the Insert branch upserts (as UPDATE_ITEM would) instead of
\* failing with Duplicate.
InsertItemOverwrites(p) ==
    /\ pc[p] = "ins_item"
    /\ \/ /\ RowOf(sess[p], eid[p]) # {}
          /\ items' = (items \ RowOf(sess[p], eid[p]))
                      \cup {[i EXCEPT !.val = val[p]] : i \in RowOf(sess[p], eid[p])}
          /\ Goto(p, AfterRow(p))
          /\ UNCHANGED <<tagRows, nextItem, failures, sess, op, eid, val, targ,
                         itemId, pending>>
       \/ /\ RowOf(sess[p], eid[p]) = {} /\ nextItem <= MaxItems
          /\ items' = items \cup {[id |-> nextItem, pid |-> sess[p],
                                   ident |-> eid[p], val |-> val[p]]}
          /\ nextItem' = nextItem + 1
          /\ Goto(p, AfterRow(p))
          /\ UNCHANGED <<tagRows, failures, sess, op, eid, val, targ, itemId,
                         pending>>

(* INSERT_ITEM: fails on the unique (profile_id, kind, category, name);  *)
(* past MaxItems the identity column is exhausted and it fails too.      *)
InsertItem(p) ==
    /\ pc[p] = "ins_item"
    /\ \/ /\ IOError
          /\ Finish(p, "open") /\ UNCHANGED <<items, tagRows, nextItem>>
       \/ /\ RowOf(sess[p], eid[p]) # {} \/ nextItem > MaxItems
          /\ Finish(p, "open") /\ UNCHANGED <<items, tagRows, nextItem, failures>>
       \/ /\ RowOf(sess[p], eid[p]) = {} /\ nextItem <= MaxItems
          /\ items' = items \cup {[id |-> nextItem, pid |-> sess[p],
                                   ident |-> eid[p], val |-> val[p]]}
          /\ nextItem' = nextItem + 1
          /\ Goto(p, AfterRow(p))
          /\ UNCHANGED <<tagRows, failures, sess, op, eid, val, targ, itemId,
                         pending>>

(* UPDATE_ITEM: sets the value of the row of the identity, if any.       *)
UpdateItem(p) ==
    /\ pc[p] = "upd_item"
    /\ \/ /\ IOError
          /\ Finish(p, "open") /\ UNCHANGED <<items, tagRows, nextItem>>
       \/ /\ items' = (items \ RowOf(sess[p], eid[p]))
                      \cup {[i EXCEPT !.val = val[p]] : i \in RowOf(sess[p], eid[p])}
          /\ Goto(p, "del_tags")
          /\ UNCHANGED <<tagRows, nextItem, failures, sess, op, eid, val, targ,
                         itemId, pending>>

(* DELETE_TAG, bound to pid: it deletes the tags of the item whose id     *)
(* equals the profile id (mod.rs 485-486).                                *)
DeleteTags(p) ==
    /\ pc[p] = "del_tags"
    /\ \/ /\ IOError
          /\ Finish(p, "open") /\ UNCHANGED <<items, tagRows, nextItem>>
       \/ /\ tagRows' = {t \in tagRows : t.item # sess[p]}
          /\ Goto(p, AfterRow(p))
          /\ UNCHANGED <<items, nextItem, failures, sess, op, eid, val, targ,
                         itemId, pending>>

\* Mutant: item_id is never read back from the cursor (stays 0).
GetItemIdUnread(p) ==
    /\ pc[p] = "get_id"
    /\ RowOf(sess[p], eid[p]) # {}
    /\ pending' = [pending EXCEPT ![p] = ArgTags(targ[p])]
    /\ Goto(p, IF ArgTags(targ[p]) = {} THEN "ok" ELSE "ins_tag")
    /\ UNCHANGED <<items, tagRows, nextItem, failures, sess, op, eid, val,
                   targ, itemId>>

\* Mutant: GET_ITEM_ID binds only the profile id, so any item of the
\* profile may answer.
GetItemIdByProfile(p) ==
    /\ pc[p] = "get_id"
    /\ \/ /\ \/ IOError
             \/ RowOf(sess[p], eid[p]) = {} /\ UNCHANGED failures
          /\ Finish(p, "idle") /\ UNCHANGED <<items, tagRows, nextItem>>
       \/ \E i \in {r \in items : r.pid = sess[p]} :
          /\ itemId' = [itemId EXCEPT ![p] = i.id]
          /\ pending' = [pending EXCEPT ![p] = ArgTags(targ[p])]
          /\ Goto(p, IF ArgTags(targ[p]) = {} THEN "ok" ELSE "ins_tag")
          /\ UNCHANGED <<items, tagRows, nextItem, failures, sess, op, eid,
                         val, targ>>

(* GET_ITEM_ID, then prepare(INSERT_TAG): both unwrap, so an error or a   *)
(* missing row panics and the session is dropped.                         *)
GetItemId(p) ==
    /\ pc[p] = "get_id"
    /\ \/ /\ \/ IOError
             \/ RowOf(sess[p], eid[p]) = {} /\ UNCHANGED failures
          /\ Finish(p, "idle") /\ UNCHANGED <<items, tagRows, nextItem>>
       \/ \E i \in RowOf(sess[p], eid[p]) :
          /\ itemId' = [itemId EXCEPT ![p] = i.id]
          /\ pending' = [pending EXCEPT ![p] = ArgTags(targ[p])]
          /\ Goto(p, IF ArgTags(targ[p]) = {} THEN "ok" ELSE "ins_tag")
          /\ UNCHANGED <<items, tagRows, nextItem, failures, sess, op, eid,
                         val, targ>>

(* One INSERT_TAG of the loop; an error ends update with the tags so far. *)
(* With the cascading foreign key, a row for a deleted item is refused.   *)
InsertTag(p) ==
    /\ pc[p] = "ins_tag"
    /\ \/ /\ \/ IOError
             \/ /\ TagsCascade /\ \A i \in items : i.id # itemId[p]
                /\ UNCHANGED failures
          /\ Finish(p, "open") /\ UNCHANGED <<items, tagRows, nextItem>>
       \/ /\ ~TagsCascade \/ \E i \in items : i.id = itemId[p]
          /\ LET t == CHOOSE x \in pending[p] : TRUE IN
             /\ tagRows' = tagRows \cup {[item |-> itemId[p], tag |-> t]}
             /\ pending' = [pending EXCEPT ![p] = @ \ {t}]
             /\ Goto(p, IF pending[p] = {t} THEN "ok" ELSE "ins_tag")
          /\ UNCHANGED <<items, nextItem, failures, sess, op, eid, val, targ,
                         itemId>>

(* DELETE_ITEM of the identity; a missing row is not an error.  Its tags  *)
(* go with it only through the cascade.                                   *)
DeleteItem(p) ==
    /\ pc[p] = "del_item"
    /\ \/ /\ IOError
          /\ Finish(p, "open") /\ UNCHANGED <<items, tagRows, nextItem>>
       \/ /\ items' = items \ RowOf(sess[p], eid[p])
          /\ tagRows' = IF TagsCascade
                        THEN {t \in tagRows : t.item \notin {i.id : i \in RowOf(sess[p], eid[p])}}
                        ELSE tagRows
          /\ Goto(p, "ok")
          /\ UNCHANGED <<nextItem, failures, sess, op, eid, val, targ, itemId,
                         pending>>

(* update returns Ok to its caller.                                       *)
Returned(p) ==
    /\ pc[p] = "ok"
    /\ Finish(p, "open")
    /\ UNCHANGED <<items, tagRows, nextItem, failures>>

(* The session is dropped and its connection goes back to the pool.       *)
SessionDrop(p) ==
    /\ pc[p] = "open"
    /\ pc' = [pc EXCEPT ![p] = "idle"]
    /\ sess' = [sess EXCEPT ![p] = 0]
    /\ UNCHANGED <<items, tagRows, nextItem, failures, op, eid, val, targ,
                   itemId, pending>>

Next ==
    \E p \in Procs :
        \/ \E pid \in Profiles : OpenSession(p, pid)
        \/ \E o \in UpdateOps, e \in Idents, v \in Vals, ta \in TagArgs :
              Update(p, o, e, v, ta)
        \/ InsertItem(p) \/ UpdateItem(p) \/ DeleteTags(p) \/ GetItemId(p)
        \/ InsertTag(p) \/ DeleteItem(p) \/ Returned(p) \/ SessionDrop(p)

Spec == Init /\ [][Next]_vars

-----------------------------------------------------------------------------
(* The entry store a reader of the tables sees: an identity maps to the   *)
(* value of its row and the tags whose item_id is that row's id.          *)
StoreView ==
    [k \in Profiles \X Idents |->
        IF RowOf(k[1], k[2]) = {} THEN Absent
        ELSE LET i == CHOOSE r \in RowOf(k[1], k[2]) : TRUE
             IN  [val |-> i.val, tags |-> {t.tag : t \in {x \in tagRows : x.item = i.id}}]]

\* Where an update takes effect: at its last statement, and for Replace at
\* UPDATE_ITEM, after which only the tag statements remain.
Linearized(p) ==
    \/ pc[p] = "ok"
    \/ op[p] = "Replace" /\ pc[p] \in {"del_tags", "get_id", "ins_tag"}

CallView ==
    [p \in Procs |->
        IF pc[p] \in {"idle", "open"} THEN NoCall
        ELSE [op |-> op[p], key |-> <<sess[p], eid[p]>>, val |-> val[p],
              tags |-> ArgTags(targ[p]), done |-> Linearized(p)]]

Abs == INSTANCE EntryStore
         WITH Keys <- Profiles \X Idents, TagVals <- Tags,
              store <- StoreView, call <- CallView

(* update implements the atomic entry store of spec 4.4: every step of    *)
(* the sessions is an invocation, the one instant an operation takes      *)
(* effect, a failure without effect, or a return.                         *)
EntryStoreRefined == Abs!Spec

(* A Replace that returns Ok leaves its entry with exactly the tags it    *)
(* was given: all prior tags are discarded (spec 4.4, scenario 93).       *)
ReplaceLeavesOnlyNewTags ==
    [][\A p \in Procs :
         (op[p] = "Replace" /\ pc[p] # "ok" /\ pc'[p] = "ok")
           => {t.tag : t \in {x \in tagRows' : x.item \in {i.id : i \in RowOf(sess[p], eid[p])'}}}
                = ArgTags(targ[p])]_vars

(* Replace upserts (spec 4.4): when it returns Ok the entry exists.       *)
ReplaceUpserts ==
    [][\A p \in Procs :
         (op[p] = "Replace" /\ pc[p] # "ok" /\ pc'[p] = "ok")
           => RowOf(sess[p], eid[p])' # {}]_vars


(* The tag loop writes tags only onto the item of the update's own        *)
(* identity.  item_id is read by GET_ITEM_ID and used after it, while     *)
(* other sessions may remove the entry and insert others; since the       *)
(* identity column never reuses an id, an INSERT_TAG row names either the *)
(* item of (pid, category, name) or an item that no longer exists, never  *)
(* another entry.                                                         *)
TagsAttachToOwnEntry ==
    [][\A t \in tagRows' \ tagRows :
         \A i \in items' : i.id = t.item =>
            \E p \in Procs : /\ pc[p] = "ins_tag" /\ itemId[p] = t.item
                            /\ i.pid = sess[p] /\ i.ident = eid[p]]_tagRows

=============================================================================
