---------------------------- MODULE OdbcProfiles ----------------------------
(***************************************************************************)
(* The profile-key lifecycle of OdbcBackend (backend/odbc/mod.rs):        *)
(* create_profile, remove_profile, set_default_profile, rekey, session()  *)
(* and OdbcSession::acquire_key, run by concurrent async tasks (Procs)    *)
(* against the profiles and config tables and the shared KeyCache.        *)
(*                                                                         *)
(* Every SQL statement is one atomic step (autocommit, no transaction).   *)
(* Between two statements, or across an .await, other tasks interleave.  *)
(* A statement may fail with an I/O error (at most MaxFailures times);    *)
(* where the code propagates it with ? the task returns an error, where  *)
(* it calls unwrap() the task panics.  The process may crash and restart  *)
(* (at most MaxCrashes times): the tables survive, the KeyCache does not. *)
(***************************************************************************)
EXTENDS Naturals, FiniteSets, KeyCache

CONSTANTS
    Procs,         \* async tasks calling the backend or holding a session
    Names,         \* profile names
    DefaultName,   \* the profile created when the store was provisioned
    StoreKeys,     \* store (master) keys a rekey may derive
    InitStoreKey,  \* the store key named by config at start
    MaxIds,        \* profile rows the run may insert (ids 1..MaxIds)
    MaxKeys,       \* profile keys the run may generate
    MaxFailures,   \* I/O errors the run may inject
    MaxCrashes,    \* process aborts the run may take
    PoolSize       \* r2d2 pool max_size

ASSUME DefaultName \in Names /\ InitStoreKey \in StoreKeys
ASSUME PoolSize \in Nat \ {0}
\* Each insert uses a key generated before it, so ids never run out.
ASSUME MaxKeys <= MaxIds

VARIABLES
    profiles,     \* rows of table profiles: [id, name, blob]
    cfgKey,       \* config 'key': the store key the store opens with
    cfgDefault,   \* config 'default_profile'
    cache,        \* KeyCache.profile_info: name -> [pid, key] or NoEntry
    cacheSK,      \* KeyCache.store_key
    nextId,       \* the next identity value of profiles.id
    nextKey,      \* the next ProfileKey::new() value
    issued,       \* history: every [id, name, key] ever inserted
    pc,           \* where each task is
    arg,          \* the profile name the task works on
    pkey,         \* the profile key the task holds
    pblob,        \* the wrapped key the task holds
    ppid,         \* the profile id the task holds
    newSK,        \* rekey: the new store key
    todo,         \* rekey: snapshot entries not yet re-wrapped
    failures,     \* I/O errors so far
    crashes       \* process aborts so far

storeVars == <<profiles, cfgKey, cfgDefault, nextId, issued>>
cacheVars == <<cache, cacheSK>>
taskVars  == <<pc, arg, pkey, pblob, ppid, newSK, todo>>
vars == <<storeVars, cacheVars, nextKey, taskVars, failures, crashes>>

Ids     == 1..MaxIds
KeyIds  == 1..MaxKeys
Blobs   == [key: KeyIds, sk: StoreKeys]
Rows    == [id: Ids, name: Names, blob: Blobs]
NoBlob  == [key |-> 0, sk |-> InitStoreKey]
\* What a call returns to its caller.  No caller in the model branches on
\* it, so it is not kept in the state.
Results == {"ok", "true", "false", "Duplicate", "Backend", "Crypto",
            "Unsupported", "panic"}

CreateStates  == {"cr_insert", "cr_getid", "cr_cache"}
RemoveStates  == {"rm_count", "rm_delete"}
RekeyStates   == {"rk_snapshot", "rk_load", "rk_update", "rk_config"}
SessionStates == {"ss_open", "ss_query", "ss_load", "ss_add", "ss_ready"}
PCs == {"idle", "ss_get"} \cup CreateStates \cup RemoveStates
         \cup RekeyStates \cup SessionStates

\* Tasks inside a &self method of OdbcBackend.
InBackendCall == {q \in Procs : pc[q] \in CreateStates \cup RemoveStates
                                               \cup {"ss_get"}}
\* rekey takes &mut self: no &self call overlaps it.
RekeyRunning == \E q \in Procs : pc[q] \in RekeyStates
\* A session holds its PooledConnection; rekey holds `binding`.
Held == Cardinality({q \in Procs :
            pc[q] \in SessionStates \cup (RekeyStates \ {"rk_snapshot"})})
PoolFree == Held < PoolSize

RowsNamed(n) == {r \in profiles : r.name = n}

TypeOK ==
    /\ profiles \in SUBSET Rows
    /\ cfgKey \in StoreKeys /\ cfgDefault \in Names
    /\ cache \in [Names -> [pid: Ids, key: KeyIds] \cup {NoEntry}]
    /\ cacheSK \in StoreKeys
    /\ nextId \in 1..MaxIds+1 /\ nextKey \in 1..MaxKeys+1
    /\ issued \in SUBSET [id: Ids, name: Names, key: KeyIds]
    /\ pc \in [Procs -> PCs] /\ arg \in [Procs -> Names]
    /\ pkey \in [Procs -> 0..MaxKeys] /\ ppid \in [Procs -> 0..MaxIds]
    /\ pblob \in [Procs -> Blobs \cup {NoBlob}]
    /\ newSK \in [Procs -> StoreKeys]
    /\ todo \in [Procs -> SUBSET [id: Ids, blob: Blobs]]
    /\ failures \in 0..MaxFailures /\ crashes \in 0..MaxCrashes

\* Task-local state of a task that is not inside any call.
IdleTasks == [pc |-> [p \in Procs |-> "idle"],
              pkey |-> [p \in Procs |-> 0], ppid |-> [p \in Procs |-> 0],
              pblob |-> [p \in Procs |-> NoBlob]]

Init ==
    /\ profiles = {[id |-> 1, name |-> DefaultName,
                    blob |-> Wrap(1, InitStoreKey)]}
    /\ cfgKey = InitStoreKey /\ cfgDefault = DefaultName
    /\ cache = EmptyCache(Names) /\ cacheSK = InitStoreKey
    /\ nextId = 2 /\ nextKey = 2
    /\ issued = {[id |-> 1, name |-> DefaultName, key |-> 1]}
    /\ pc = IdleTasks.pc /\ arg = [p \in Procs |-> DefaultName]
    /\ pkey = IdleTasks.pkey /\ ppid = IdleTasks.ppid
    /\ pblob = IdleTasks.pblob
    /\ newSK = [p \in Procs |-> InitStoreKey]
    /\ todo = [p \in Procs |-> {}]
    /\ failures = 0 /\ crashes = 0

-----------------------------------------------------------------------------
(* Helpers for ending a call.                                              *)

\* The task returns r (a member of Results) and forgets its locals.
Return(p, r) ==
    /\ pc' = [pc EXCEPT ![p] = "idle"]
    /\ pkey' = [pkey EXCEPT ![p] = 0]
    /\ ppid' = [ppid EXCEPT ![p] = 0]
    /\ pblob' = [pblob EXCEPT ![p] = NoBlob]
    /\ todo' = [todo EXCEPT ![p] = {}]
    /\ arg' = [arg EXCEPT ![p] = DefaultName]
    /\ newSK' = [newSK EXCEPT ![p] = InitStoreKey]

\* A statement fails with an I/O error.
IOError == failures < MaxFailures /\ failures' = failures + 1

Goto(p, l) == pc' = [pc EXCEPT ![p] = l]

-----------------------------------------------------------------------------
(* create_profile (mod.rs 84-117)                                          *)

\* ProfileKey::new() and encode_profile_key under key_cache.store_key, on
\* the blocking pool; the name is given or random (a member of Names).
CreateProfile(p, n) ==
    /\ pc[p] = "idle" /\ ~RekeyRunning
    /\ nextKey <= MaxKeys
    /\ Goto(p, "cr_insert")
    /\ arg' = [arg EXCEPT ![p] = n]
    /\ pkey' = [pkey EXCEPT ![p] = nextKey]
    /\ pblob' = [pblob EXCEPT ![p] = Wrap(nextKey, cacheSK)]
    /\ nextKey' = nextKey + 1
    /\ UNCHANGED <<storeVars, cacheVars, ppid, newSK, todo,
                   failures, crashes>>

\* INSERT_PROFILE on a pooled connection: the unique name constraint
\* rejects a duplicate; an I/O error is returned with ?.
CreateInsert(p) ==
    /\ pc[p] = "cr_insert" /\ PoolFree
    /\ \/ /\ IOError
          /\ Return(p, "Backend")
          /\ UNCHANGED <<storeVars, nextKey>>
       \/ /\ RowsNamed(arg[p]) # {}
          /\ Return(p, "Duplicate")
          /\ UNCHANGED <<storeVars, nextKey, failures>>
       \/ /\ RowsNamed(arg[p]) = {}
          /\ profiles' = profiles \cup
                {[id |-> nextId, name |-> arg[p], blob |-> pblob[p]]}
          /\ issued' = issued \cup
                {[id |-> nextId, name |-> arg[p], key |-> pkey[p]]}
          /\ nextId' = nextId + 1
          /\ Goto(p, "cr_getid")
          /\ UNCHANGED <<cfgKey, cfgDefault, nextKey, arg, pkey, pblob,
                         ppid, newSK, todo, failures>>
    /\ UNCHANGED <<cacheVars, crashes>>

\* Mutant: the id is looked up by name alone.
CreateGetIdByName(p) ==
    /\ pc[p] = "cr_getid" /\ PoolFree
    /\ \E r \in RowsNamed(arg[p]) :
          /\ Goto(p, "cr_cache")
          /\ ppid' = [ppid EXCEPT ![p] = r.id]
    /\ UNCHANGED <<storeVars, cacheVars, nextKey, arg, pkey, pblob, newSK,
                   todo, failures, crashes>>

\* Mutant: the id is never read back; pid keeps its initial 0.
CreateGetIdSkipped(p) ==
    /\ pc[p] = "cr_getid"
    /\ Goto(p, "cr_cache")
    /\ UNCHANGED <<storeVars, cacheVars, nextKey, arg, pkey, pblob, ppid,
                   newSK, todo, failures, crashes>>

\* GET_PROFILE_ID by name and profile_key, on another pooled connection:
\* execute(..).unwrap() and next_row().unwrap().unwrap() panic on an I/O
\* error and on a missing row.
CreateGetId(p) ==
    /\ pc[p] = "cr_getid" /\ PoolFree
    /\ \/ /\ IOError
          /\ Return(p, "panic")
       \/ /\ \E r \in RowsNamed(arg[p]) :
                /\ r.blob = pblob[p]
                /\ Goto(p, "cr_cache")
                /\ ppid' = [ppid EXCEPT ![p] = r.id]
                /\ UNCHANGED <<arg, pkey, pblob, newSK, todo>>
          /\ UNCHANGED failures
       \/ /\ ~\E r \in RowsNamed(arg[p]) : r.blob = pblob[p]
          /\ Return(p, "panic")
          /\ UNCHANGED failures
    /\ UNCHANGED <<storeVars, cacheVars, nextKey, crashes>>

\* key_cache.add_profile(name, pid, profile_key).
CreateCache(p) ==
    /\ pc[p] = "cr_cache"
    /\ cache' = AddProfile(cache, arg[p], ppid[p], pkey[p])
    /\ Return(p, "ok")
    /\ UNCHANGED <<storeVars, cacheSK, nextKey, failures, crashes>>

-----------------------------------------------------------------------------
(* remove_profile (mod.rs 166-190)                                         *)

RemoveProfile(p, n) ==
    /\ pc[p] = "idle" /\ ~RekeyRunning
    /\ Goto(p, "rm_count")
    /\ arg' = [arg EXCEPT ![p] = n]
    /\ UNCHANGED <<storeVars, cacheVars, nextKey, pkey, pblob, ppid, newSK,
                   todo, failures, crashes>>

\* GET_PROFILE_COUNT_FOR_NAME on one pooled connection; execute().unwrap()
\* panics on an I/O error.
RemoveCount(p) ==
    /\ pc[p] = "rm_count" /\ PoolFree
    /\ \/ /\ IOError
          /\ Return(p, "panic")
       \/ /\ RowsNamed(arg[p]) = {}
          /\ Return(p, "false")
          /\ UNCHANGED failures
       \/ /\ RowsNamed(arg[p]) # {}
          /\ Goto(p, "rm_delete")
          /\ UNCHANGED <<arg, pkey, pblob, ppid, newSK, todo, failures>>
    /\ UNCHANGED <<storeVars, cacheVars, nextKey, crashes>>

\* DELETE_PROFILE on another pooled connection returns true, whatever it
\* deleted.  The key cache is left as it is.
RemoveDeleted(p) ==
    /\ pc[p] = "rm_delete" /\ PoolFree
    /\ profiles' = profiles \ RowsNamed(arg[p])
    /\ Return(p, "true")
    /\ UNCHANGED <<cfgKey, cfgDefault, nextId, issued, cacheVars, nextKey,
                   failures, crashes>>

\* An I/O error of the DELETE is returned with ?.
RemoveDelete(p) ==
    \/ /\ pc[p] = "rm_delete" /\ PoolFree
       /\ IOError
       /\ Return(p, "Backend")
       /\ UNCHANGED <<storeVars, cacheVars, nextKey, crashes>>
    \/ RemoveDeleted(p)

-----------------------------------------------------------------------------
(* set_default_profile (mod.rs 136-142): one UPDATE_CONFIG_PROFILE.        *)

SetDefaultProfile(p, n) ==
    /\ pc[p] = "idle" /\ ~RekeyRunning /\ PoolFree
    /\ \/ /\ IOError
          /\ Return(p, "Backend")
          /\ UNCHANGED cfgDefault
       \/ /\ cfgDefault' = n
          /\ Return(p, "ok")
          /\ UNCHANGED failures
    /\ UNCHANGED <<profiles, cfgKey, nextId, issued, cacheVars, nextKey,
                   crashes>>

(* get_default_profile (mod.rs 122-134): one GET_DEFAULT_PROFILE read of  *)
(* config.  execute(..).unwrap() panics on an I/O error; a successful read *)
(* changes no state (the name it returns need not be a profile: neither    *)
(* set_default_profile nor remove_profile checks), so only the panic is a  *)
(* step.                                                                   *)
GetDefaultProfile(p) ==
    /\ pc[p] = "idle" /\ ~RekeyRunning /\ PoolFree
    /\ IOError
    /\ Return(p, "panic")
    /\ UNCHANGED <<storeVars, cacheVars, nextKey, crashes>>

-----------------------------------------------------------------------------
(* rekey (mod.rs 192-246)                                                  *)

\* method.resolve(pass_key) on the blocking pool derives the new key.
Rekey(p, sk) ==
    /\ pc[p] = "idle" /\ InBackendCall = {} /\ ~RekeyRunning
    /\ Goto(p, "rk_snapshot")
    /\ newSK' = [newSK EXCEPT ![p] = sk]
    /\ UNCHANGED <<storeVars, cacheVars, nextKey, arg, pkey, pblob, ppid,
                   todo, failures, crashes>>

\* binding = pool.get(); GET_PROFILES read into upd_keys; an error of the
\* query is reported as Unsupported.
RekeySnapshot(p) ==
    /\ pc[p] = "rk_snapshot" /\ PoolFree
    /\ \/ /\ IOError
          /\ Return(p, "Unsupported")
       \/ /\ todo' = [todo EXCEPT ![p] =
                         {[id |-> r.id, blob |-> r.blob] : r \in profiles}]
          /\ Goto(p, IF profiles = {} THEN "rk_config" ELSE "rk_load")
          /\ UNCHANGED <<arg, pkey, pblob, ppid, newSK, failures>>
    /\ UNCHANGED <<storeVars, cacheVars, nextKey, crashes>>

\* The BTreeMap is walked in ascending profile id.
NextEntry(p) == CHOOSE e \in todo[p] : \A f \in todo[p] : e.id <= f.id

\* Mutant: the key decrypted for an earlier profile is reused.
RekeyLoadKeyStale(p) ==
    /\ pc[p] = "rk_load"
    /\ LET e == NextEntry(p) IN
       \/ /\ CanUnwrap(e.blob, cacheSK)
          /\ Goto(p, "rk_update")
          /\ pkey' = [pkey EXCEPT ![p] = IF @ = 0 THEN LoadKey(e.blob) ELSE @]
          /\ ppid' = [ppid EXCEPT ![p] = e.id]
          /\ UNCHANGED <<arg, pblob, newSK, todo>>
       \/ /\ ~CanUnwrap(e.blob, cacheSK)
          /\ Return(p, "Crypto")
    /\ UNCHANGED <<storeVars, cacheVars, nextKey, failures, crashes>>

\* key_cache.load_key(key) under the cache's store key, then
\* encode_profile_key under the new one (both on the blocking pool).
RekeyLoadKey(p) ==
    /\ pc[p] = "rk_load"
    /\ LET e == NextEntry(p) IN
       \/ /\ CanUnwrap(e.blob, cacheSK)
          /\ Goto(p, "rk_update")
          /\ pkey' = [pkey EXCEPT ![p] = LoadKey(e.blob)]
          /\ ppid' = [ppid EXCEPT ![p] = e.id]
          /\ UNCHANGED <<arg, pblob, newSK, todo>>
       \/ /\ ~CanUnwrap(e.blob, cacheSK)
          /\ Return(p, "Crypto")
    /\ UNCHANGED <<storeVars, cacheVars, nextKey, failures, crashes>>

\* Mutant: the loop ends after the first profile.
RekeyUpdateOnce(p) ==
    /\ pc[p] = "rk_update"
    /\ profiles' = {IF r.id = ppid[p]
                    THEN [r EXCEPT !.blob = Wrap(pkey[p], newSK[p])]
                    ELSE r : r \in profiles}
    /\ Goto(p, "rk_config")
    /\ UNCHANGED <<cfgKey, cfgDefault, nextId, issued, cacheVars, nextKey,
                   arg, pkey, pblob, ppid, newSK, todo, failures, crashes>>

\* UPDATE_PROFILE on binding.
RekeyUpdate(p) ==
    /\ pc[p] = "rk_update"
    /\ \/ /\ IOError
          /\ Return(p, "Backend")
          /\ UNCHANGED profiles
       \/ /\ profiles' = {IF r.id = ppid[p]
                            THEN [r EXCEPT !.blob = Wrap(pkey[p], newSK[p])]
                            ELSE r : r \in profiles}
          /\ todo' = [todo EXCEPT ![p] = @ \ {NextEntry(p)}]
          /\ Goto(p, IF todo'[p] = {} THEN "rk_config" ELSE "rk_load")
          /\ UNCHANGED <<arg, pkey, pblob, ppid, newSK, failures>>
    /\ UNCHANGED <<cfgKey, cfgDefault, nextId, issued, cacheVars, nextKey,
                   crashes>>

\* UPDATE_CONFIG_KEY on binding.  key_cache.store_key is not replaced.
RekeyConfig(p) ==
    /\ pc[p] = "rk_config"
    /\ \/ /\ IOError
          /\ Return(p, "Backend")
          /\ UNCHANGED cfgKey
       \/ /\ cfgKey' = newSK[p]
          /\ Return(p, "ok")
          /\ UNCHANGED failures
    /\ UNCHANGED <<profiles, cfgDefault, nextId, issued, cacheVars, nextKey,
                   crashes>>

-----------------------------------------------------------------------------
(* session (mod.rs 263-273) and OdbcSession::acquire_key (310-335)         *)

\* session(profile, transaction): a transactional session is refused;
\* otherwise the call goes on to pool.get().
OpenSession(p, n) ==
    /\ pc[p] = "idle" /\ ~RekeyRunning
    /\ \E transaction \in BOOLEAN :
         IF transaction
         THEN Return(p, "Unsupported")
         ELSE /\ Goto(p, "ss_get")
              /\ arg' = [arg EXCEPT ![p] = n]
              /\ UNCHANGED <<pkey, pblob, ppid, newSK, todo>>
    /\ UNCHANGED <<storeVars, cacheVars, nextKey, failures, crashes>>

\* pool.get().unwrap() hands the session its PooledConnection.
SessionGetConn(p) ==
    /\ pc[p] = "ss_get" /\ PoolFree
    /\ Goto(p, "ss_open")
    /\ UNCHANGED <<storeVars, cacheVars, nextKey, arg, pkey, pblob, ppid,
                   newSK, todo, failures, crashes>>

\* An entry operation calls acquire_key: cache.get_profile(profile).
AcquireKey(p) ==
    /\ pc[p] = "ss_open"
    /\ LET hit == GetProfile(cache, arg[p]) IN
       IF hit # NoEntry
       THEN /\ Goto(p, "ss_ready")
            /\ ppid' = [ppid EXCEPT ![p] = hit.pid]
            /\ pkey' = [pkey EXCEPT ![p] = hit.key]
       ELSE /\ Goto(p, "ss_query")
            /\ UNCHANGED <<ppid, pkey>>
    /\ UNCHANGED <<storeVars, cacheVars, nextKey, arg, pblob, newSK, todo,
                   failures, crashes>>

\* GET_PROFILE on the session's connection.  A SELECT always yields a
\* cursor, so a missing row reaches next_row().unwrap().unwrap() and
\* panics; the session is dropped with the task.
AcquireQuery(p) ==
    /\ pc[p] = "ss_query"
    /\ \/ /\ IOError
          /\ Goto(p, "ss_open")
          /\ UNCHANGED <<arg, pkey, pblob, ppid, newSK, todo>>
       \/ /\ \E r \in RowsNamed(arg[p]) :
                /\ Goto(p, "ss_load")
                /\ ppid' = [ppid EXCEPT ![p] = r.id]
                /\ pblob' = [pblob EXCEPT ![p] = r.blob]
                /\ UNCHANGED <<arg, pkey, newSK, todo>>
          /\ UNCHANGED failures
       \/ /\ RowsNamed(arg[p]) = {}
          /\ Return(p, "panic")
          /\ UNCHANGED failures
    /\ UNCHANGED <<storeVars, cacheVars, nextKey, crashes>>

\* cache.load_key(enc_key) under the cache's store key.
AcquireLoad(p) ==
    /\ pc[p] = "ss_load"
    /\ IF CanUnwrap(pblob[p], cacheSK)
       THEN /\ Goto(p, "ss_add")
            /\ pkey' = [pkey EXCEPT ![p] = LoadKey(pblob[p])]
       ELSE /\ Goto(p, "ss_open")     \* Err(Crypto)
            /\ UNCHANGED pkey
    /\ UNCHANGED <<storeVars, cacheVars, nextKey, arg, pblob, ppid, newSK,
                   todo, failures, crashes>>

\* cache.add_profile(profile, pid, key).
AcquireCache(p) ==
    /\ pc[p] = "ss_add"
    /\ cache' = AddProfile(cache, arg[p], ppid[p], pkey[p])
    /\ Goto(p, "ss_ready")
    /\ UNCHANGED <<storeVars, cacheSK, nextKey, arg, pkey, pblob, ppid,
                   newSK, todo, failures, crashes>>

\* The entry operation runs with the resolved (pid, key); its effect on
\* the items tables is the subject of OdbcEntries.
SessionUseKey(p) ==
    /\ pc[p] = "ss_ready"
    /\ Goto(p, "ss_open")
    /\ pkey' = [pkey EXCEPT ![p] = 0]
    /\ ppid' = [ppid EXCEPT ![p] = 0]
    /\ pblob' = [pblob EXCEPT ![p] = NoBlob]
    /\ UNCHANGED <<storeVars, cacheVars, nextKey, arg, newSK, todo,
                   failures, crashes>>

\* Dropping the session returns its connection to the pool.
SessionDrop(p) ==
    /\ pc[p] = "ss_open"
    /\ Return(p, "ok")
    /\ UNCHANGED <<storeVars, cacheVars, nextKey, failures, crashes>>

-----------------------------------------------------------------------------
(* Pool exhaustion, crash and restart                                      *)

\* pool.get() gives up after the connection timeout; unwrap() panics.
PoolTimeout(p) ==
    /\ pc[p] \in {"cr_insert", "cr_getid", "rm_count", "rm_delete",
                   "rk_snapshot", "ss_get"}
    /\ ~PoolFree
    /\ Return(p, "panic")
    /\ UNCHANGED <<storeVars, cacheVars, nextKey, failures, crashes>>

\* The process dies and the store is opened again: the tables survive,
\* a new KeyCache is built on the store key that config names.
Reopen ==
    /\ pc' = IdleTasks.pc /\ pkey' = IdleTasks.pkey
    /\ ppid' = IdleTasks.ppid /\ pblob' = IdleTasks.pblob
    /\ todo' = [p \in Procs |-> {}]
    /\ arg' = [p \in Procs |-> DefaultName]
    /\ newSK' = [p \in Procs |-> InitStoreKey]
    /\ cache' = EmptyCache(Names) /\ cacheSK' = cfgKey
    /\ UNCHANGED <<storeVars, nextKey, failures>>

\* A crash at any point (an injected fault).
Crash ==
    /\ crashes < MaxCrashes /\ crashes' = crashes + 1
    /\ Reopen

\* BackendSession::close calls self.close(commit), which resolves to
\* itself: the recursion overflows the stack and aborts the process.
SessionClose(p) ==
    /\ pc[p] = "ss_open"
    /\ Reopen
    /\ UNCHANGED crashes

-----------------------------------------------------------------------------

Next ==
    \/ \E p \in Procs :
          \/ \E n \in Names : \/ CreateProfile(p, n) \/ RemoveProfile(p, n)
                             \/ SetDefaultProfile(p, n) \/ OpenSession(p, n)
          \/ \E sk \in StoreKeys : Rekey(p, sk)
          \/ CreateInsert(p) \/ CreateGetId(p) \/ CreateCache(p)
          \/ RemoveCount(p) \/ RemoveDelete(p)
          \/ RekeySnapshot(p) \/ RekeyLoadKey(p) \/ RekeyUpdate(p)
          \/ RekeyConfig(p) \/ GetDefaultProfile(p)
          \/ SessionGetConn(p) \/ AcquireKey(p) \/ AcquireQuery(p)
          \/ AcquireLoad(p) \/ AcquireCache(p) \/ SessionUseKey(p)
          \/ SessionDrop(p) \/ SessionClose(p) \/ PoolTimeout(p)
    \/ Crash

Spec == Init /\ [][Next]_vars

-----------------------------------------------------------------------------
(* Properties                                                              *)

\* Every (name, pid, key) the key cache holds was inserted together as one
\* profile row: create_profile re-reads the id by name AND wrapped key,
\* and acquire_key takes id and key from the same row, so no interleaving
\* of creates and removes of the same name can pair an id with a key of
\* another profile.
CacheEntriesGenuine ==
    \A n \in Names : cache[n] # NoEntry =>
        [id |-> cache[n].pid, name |-> n, key |-> cache[n].key] \in issued

\* rekey writes the new store key to config only after every profile row
\* has been re-wrapped under it (spec 4.3, step 4 after step 3).
RekeyConfigLast ==
    [][cfgKey' # cfgKey => \A r \in profiles' : r.blob.sk = cfgKey']_cfgKey

\* The profile key each name stands for in the profiles table (0: no row).
KeyOfName ==
    [n \in Names |-> IF RowsNamed(n) = {} THEN 0
                     ELSE (CHOOSE r \in RowsNamed(n) : TRUE).blob.key]

Abs == INSTANCE ProfileKeys
         WITH Keys <- KeyIds, Absent <- 0, keys <- KeyOfName,
              used <- {i.key : i \in issued}

\* The profiles table implements the profile-key map of spec 4.2 and 4.3:
\* every step is a create_profile binding a free name to a fresh key, a
\* remove_profile unbinding a name, or leaves every name's key as it is.
\* So no interleaving of creates, removes, rekeys, errors and crashes
\* overwrites a profile's key, reuses one, or lets rekey re-wrap a row
\* with another row's key.
ProfileKeysRefined == Abs!Spec

\* The key cache never holds a key under an id that does not match the
\* current profile row of that name (spec 3); remove_profile deletes the
\* row and leaves the cache entry.
CacheMatchesRow ==
    \A n \in Names : cache[n] # NoEntry =>
        \E r \in RowsNamed(n) : r.id = cache[n].pid /\ r.blob.key = cache[n].key

\* Every load_key the code issues succeeds: the model never corrupts a
\* blob, so a failing unwrap means the key cache's store key is not the
\* one the row was wrapped with (spec 8: after rekey every profile key
\* resolves under the new store key).
LoadKeySucceeds ==
    \A p \in Procs :
        /\ pc[p] = "ss_load" => CanUnwrap(pblob[p], cacheSK)
        /\ pc[p] = "rk_load" => CanUnwrap(NextEntry(p).blob, cacheSK)

\* A rekey that ends without setting config to the new key (an error
\* return, or the process dying) leaves every row unwrappable by the key
\* cache a retry of the rekey would use (spec 4.3: a failure mid-loop
\* must keep a retry of the whole rekey possible).
RekeyFailureRetryable ==
    [][\A p \in Procs :
          (pc[p] \in RekeyStates /\ pc'[p] = "idle" /\ cfgKey' # newSK[p])
          => \A r \in profiles' : CanUnwrap(r.blob, cacheSK')]_vars

\* remove_profile returns true only when its DELETE removed a row (spec
\* 4.2); the count and the delete run on two pooled connections.
RemoveReportsDeletion ==
    [][\A p \in Procs : RemoveDeleted(p) => profiles' # profiles]_vars

=============================================================================
