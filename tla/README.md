# TLA+ model of the askar ODBC storage backend

This project models `src/askar-storage/src/backend/odbc/mod.rs`. That file is the ODBC
storage backend of askar: profile keys, rekey, sessions and encrypted entry updates.
The modules are checked with TLC. `PROJECT.json` lists the components, the runs, the
mutants, the map from definitions to source lines, the findings and the hazards.

## 1. Inventory

### Components and their state

| Component | State it keeps | Operations (mod.rs lines) |
|---|---|---|
| **KeyCache** (crate::protect, outside this excerpt) | `profile_info`: name -> (profile id, `Arc<ProfileKey>`); `store_key` | `get_profile`, `add_profile`, `load_key` (unwrap under `store_key`) |
| **OdbcBackend** (the store) | the pool, `active_profile`, `Arc<KeyCache>`; in the DB: `profiles(id, name, profile_key)` and `config(default_profile, key)` | `create_profile` 84, `remove_profile` 166, `set_default_profile` 136, `get_default_profile` 123, `list_profiles` 144, `get_active_profile` 119, `rekey` 192, `session` 263, `scan` 248 (stub), `close` 275 |
| **OdbcSession** | one `PooledConnection`, the profile name, the shared cache; in the DB: `items`, `items_tags` | `acquire_key` 310, `update` 392 (Insert/Replace/Remove), `close` 556, and the stubs `count`, `fetch`, `fetch_all`, `remove_all`, `ping` |
| **Connection pool** (r2d2) | connections checked out, up to `max_size` | `pool.get()`: it blocks until the connection timeout, and the code then calls `unwrap()` |

### How the components interact

- Every backend method and every session shares one `Arc<KeyCache>`. It is the only
  in-memory state that is shared.
- The tables are shared by everyone. Every statement runs in autocommit mode, because no
  code path opens a transaction.
- `create_profile`, `remove_profile` and `set_default_profile` take `&self`. They call
  `pool.get()` once per statement, so one call may use two different connections.
- `rekey` takes `&mut self`, so no other backend call of this process overlaps it.
  Open sessions are separate objects and keep running during a rekey.
- A session holds its connection until it is dropped. `rekey` holds `binding` for its
  whole loop.
- Awaits are suspension points: `unblock(..)`, `get_profile`, `load_key` and
  `add_profile`. The ODBC calls themselves block. On a multi-threaded runtime, other
  tasks interleave between any two statements.

### What is hard here

- **Cache-aside under concurrency.** `acquire_key` reads a row and then adds it to the
  cache after two awaits. A concurrent remove and re-create of the same name can land
  in between. `create_profile` reads the new id back on a second connection.
- **Rekey.** It takes a snapshot of the rows, then for each row calls `load_key` under
  `key_cache.store_key`, re-wraps the key and runs an UPDATE. Last it writes config.
  There is no transaction, and `key_cache.store_key` is never replaced.
- **Failures.** Each statement may fail. With `?` the error goes back to the caller;
  with `unwrap()` the task panics. The process may crash. The tables survive a crash;
  the cache is rebuilt on the store key that config names.
- **Replace with tags.** It runs UPDATE item, DELETE tags and INSERT tag as separate
  statements. The DELETE is bound to the profile id instead of the item id.
- **Pool exhaustion.** Open sessions can use up the pool, and then every other
  `pool.get().unwrap()` panics.
- **Session close.** `BackendSession::close` calls `self.close(commit)`, which resolves
  to the same trait method. The recursion overflows the stack and aborts the process.

### Properties that make each component correct

- **KeyCache.** The cache holds only genuine (name, id, key) triples, and only for rows
  that exist (spec §3). `load_key` succeeds on every row the store wrote (spec §8).
- **Profiles.** Names are unique. `remove_profile` reports whether it deleted a row
  (§4.2). A removed profile no longer resolves.
- **Rekey.**
  - Config is written last (§4.3, step 4 after step 3).
  - Profile keys keep their value.
  - When no rekey is running, every row unwraps under the key config names.
  - A failed rekey can be retried.
- **Session / entries.**
  - An Insert never overwrites.
  - A Replace leaves exactly the new tags.
  - A Remove leaves no orphan tags.
  - A reader never sees a half-done Replace.
  - A removed profile fails with NotFound.
  - `close` returns and releases the connection.

## 2. Modules and plan

| Order | Module | Models | Status |
|---|---|---|---|
| 1 | `KeyCache` | the KeyCache and key-codec interface as operators (from the spec, since `protect` is not in `src/`) | done |
| 2 | `OdbcProfiles` + `MCOdbcProfiles` | create/remove/set-default profile, rekey, session open/drop/close, acquire_key, pool, I/O errors, crashes | done |
| 3 | `OdbcEntries` + `MCOdbcEntries` | `update` Insert/Replace/Remove on `items` and `items_tags`, one action per statement. It is a separate module with fixed profiles, so that the entry statements can be checked with a state space TLC finishes. | done |
| 4 | `EntryStore` | the abstract entry store: identity -> (value, tags), with atomic Insert/Replace/Remove. `OdbcEntries` is checked against it through `INSTANCE ... WITH`. | done |
| 5 | `ProfileKeys` | the abstract profile-key map: name -> key. Create binds a free name to a never-used key, remove unbinds it, and rekey changes nothing. `OdbcProfiles` is checked against it through `INSTANCE ... WITH` (`ProfileKeysRefined`) in both profile pass runs. The mapping reads the profiles table, not the key cache, so the cache findings stay separate violation runs. | done |
| 6 | `ListProfiles` | the one-batch (10 rows) fetch of `list_profiles` as the operator `ListProfilesResult`, checked against the table over 0..12 profiles | done |

Not given a run of their own:
- `close` aborting the process. `SessionClose` restarts the whole model, and every run
  checks its properties across that step. A property "close returns" would be broken
  by that one step and would only restate line 557.
- acquire_key of a removed profile. `AcquireQuery` panics where the spec asks for
  NotFound. Its trace has the same prefix as `cache_after_remove`'s.

A project's checks are limited to 12 runs, and these two would each need a run that
restates one branch of the code.

## 3. OdbcProfiles: how the model maps to the code

**State.**
- `profiles` is the profiles table. A row is `[id, name, blob]`, where `blob` is the
  wrapped key `[key, sk]`.
- `cfgKey` and `cfgDefault` are the config rows.
- `cache` and `cacheSK` are the KeyCache's `profile_info` and `store_key`.
- `nextId` and `nextKey` are the identity column and the `ProfileKey::new()` source.
- `issued` is a history variable: every (id, name, key) ever inserted.
- Each task `p` in `Procs` has `pc[p]` and its locals `arg` (profile name), `pkey`,
  `pblob`, `ppid`, `newSK` and `todo` (the rekey snapshot still to do).
- What a call returns is not kept in the state, because no modelled caller branches on
  it. `Return(p, r)` names the result.

**Actions.** There is one action per statement or await segment:

- **create_profile:**
  - `CreateProfile`: key generation and wrapping under `cacheSK`.
  - `CreateInsert`: INSERT. It fails with Duplicate or Backend.
  - `CreateGetId`: SELECT id by name and key. It panics on an I/O error or a missing row.
  - `CreateCache`: `add_profile`.
- **remove_profile:**
  - `RemoveProfile`, then `RemoveCount`: COUNT, which panics on an I/O error.
  - `RemoveDelete` / `RemoveDeleted`: DELETE, returning true.
- **set_default_profile:** `SetDefaultProfile`.
- **get_default_profile:** `GetDefaultProfile`. Only its panic (an I/O error under
  `execute(..).unwrap()`) is a step. A successful read changes nothing.
- **rekey:**
  - `Rekey`: resolve the new key.
  - `RekeySnapshot`: GET_PROFILES. An error becomes Unsupported.
  - `RekeyLoadKey`: `load_key` and encode, in ascending id order.
  - `RekeyUpdate`: UPDATE_PROFILE.
  - `RekeyConfig`: UPDATE_CONFIG_KEY. The cache's store key is left unchanged, as in the code.
- **session:**
  - `OpenSession`: a transactional session is refused.
  - `SessionGetConn`: `pool.get()`.
- **acquire_key:**
  - `AcquireKey`: cache lookup.
  - `AcquireQuery`: GET_PROFILE. It panics on a missing row.
  - `AcquireLoad`: `load_key`.
  - `AcquireCache`: `add_profile`.
- **update:** `SessionUseKey` stands for the rest of the update. The items tables are
  the job of `OdbcEntries`.
- **Session end:**
  - `SessionDrop` releases the connection.
  - `SessionClose` aborts the process (`Reopen`).
- **Environment:**
  - `PoolTimeout`: `pool.get().unwrap()` gives up.
  - `Crash`: an injected crash, followed by `Reopen`.

**Guards.**
- `RekeyRunning` and `InBackendCall` encode `&mut self` against `&self`.
- `PoolFree` compares the connections held (`Held`) with `PoolSize`.
- `IOError` spends one of `MaxFailures`.

**Refinement.** `KeyOfName` maps each name to the profile key of its row in
`profiles`, or to 0 when there is no row. The `issued` history gives the abstract `used`
set. Under this mapping, the steps map as follows:
- `CreateInsert`'s successful INSERT is the abstract `Create`.
- `RemoveDeleted` is the abstract `Remove`.
- Every other step, rekey's UPDATE_PROFILE and crashes included, leaves the map
  unchanged.

## 4. OdbcEntries and EntryStore: how the model maps to the code

**State.**
- `items` is the items table. A row is `[id, pid, ident, val]`. `ident` stands for
  (kind, category, name). Entry encryption is deterministic per profile key, so two
  encrypted identities are equal exactly when the plain ones are.
- `tagRows` is items_tags as `[item, tag]`. Duplicate rows are not told apart.
- `nextItem` is the identity column.
- Per session: `pc`, and the locals of `update`:
  - `sess`: the pid that acquire_key returned;
  - `op`, `eid`, `val`, `targ`: the arguments;
  - `itemId`: the value GET_ITEM_ID read;
  - `pending`: what the tag loop still has to insert.
- Profiles are the constant `Profiles`; their lifecycle is `OdbcProfiles`.

**Actions.**
- `Update`: acquire_key and the offloaded encryption, lines 392-437 and 523-531.
- `InsertItem`: INSERT_ITEM. It fails with Duplicate on the unique key, or with an
  error.
- `UpdateItem`: UPDATE_ITEM. It changes the row of the identity, if there is one.
- `DeleteTags`: DELETE_TAG bound to `pid`, as the code binds it (line 486).
- `GetItemId`: GET_ITEM_ID and the `prepare(INSERT_TAG)`. Both unwrap, so an error or a
  missing row panics, and the session is dropped.
- `InsertTag`: one iteration of the loop. With the constant `TagsCascade` (a foreign key
  with ON DELETE CASCADE), a row for a deleted item is refused.
- `DeleteItem`: DELETE_ITEM. Without the cascade, the tags stay. The schema is not in
  this source, so no run asks whether tags are orphaned.
- `Returned`: Ok goes back to the caller.
- `OpenSession` and `SessionDrop` start and end a session.
- Every statement may fail once per `MaxFailures`. `?` returns the error to the caller.

**Refinement.** `EntryStore` is the spec's promise: each operation takes effect at one
instant. An Insert of an existing identity changes nothing. Replace writes exactly the
new value and tags. Remove deletes. `OdbcEntries` instantiates it with:
- `StoreView`: what a reader of the tables sees;
- `CallView`: each in-flight update as an abstract call. It is marked done at its
  linearization point, which is its last statement, or UPDATE_ITEM for Replace.

`EntryStoreRefined == Abs!Spec` is then checked as a PROPERTY.

## 5. ListProfiles

- `rows` is the profiles table as a sequence of names in storage order. A name is a
  number, and a created row goes last.
- `CreateProfile` appends a name. `RemoveProfile(n)` deletes one. Nothing protects the
  default or the last profile.
- `ListProfilesResult(r)` is what `list_profiles` returns for `r`:
  - the first `BatchSize` (10) rows, from a single `fetch()` into `RowVec::new(10)`;
  - `Panic` when `fetch()` answers None on an empty table, since it is unwrapped.
- `ListProfilesComplete` compares that result with the whole table.
- `MaxProfiles = 12` puts table sizes on both sides of the batch size.

## 6. Runs

Every run uses two tasks (`p1`, `p2`, symmetric) and two names (`n1` is the
provisioned default). There are two store keys (`k1` is the initial one), ids 1..3 and
profile keys 1..3. That allows two profile creations beyond the default, which is
enough for the following in `profiles_concurrency`:
- two rows at rekey time;
- a remove followed by a re-create of the same name while another task is between two
  statements.

`profiles_faults` has profile keys 1..2 (one creation), which keeps it near ten
seconds beside the larger concurrency run. One creation still allows
the following, together with errors, crashes and pool timeouts:
- a remove followed by a re-create;
- two rows at rekey time.

It cannot reach the create race that `CacheEntriesGenuine` is about, which needs a third
key. So that invariant is checked only in `profiles_concurrency`.

| Run | cfg | Expect | Shows |
|---|---|---|---|
| profiles_concurrency | MCOdbcProfiles.cfg | pass (~700k states) | No faults, pool of 2. `CacheEntriesGenuine`, `RekeyConfigLast` and `ProfileKeysRefined` hold under every interleaving, including sessions that abort the process on close. |
| profiles_faults | MCOdbcProfilesFaults.cfg | pass (~12 s) | 1 I/O error, 1 crash, a pool of 1, profile keys 1..2. Error returns, panics and pool timeouts interleave, and `RekeyConfigLast` and `ProfileKeysRefined` still hold. |
| cache_after_remove | MCCacheAfterRemove.cfg | violation of `CacheMatchesRow` | create n2, then remove n2: the cache still holds n2's id and key. |
| load_key_after_rekey | MCLoadKeyAfterRekey.cfg | violation of `LoadKeySucceeds` | After a successful rekey, the next `load_key` (a second rekey or a session cache miss) unwraps with the old key. The same stale key makes `create_profile` wrap new rows under the old key. |
| rekey_partial_failure | MCRekeyPartialFailure.cfg | violation of `RekeyFailureRetryable` | The snapshot holds only `n1`. Its row is re-wrapped, then an I/O error falls on UPDATE_CONFIG_KEY (mod.rs:241). The row is left under a store key that config does not name, and the retrying cache cannot unwrap it. An error on a later UPDATE_PROFILE has the same effect. |
| remove_race | MCRemoveRace.cfg | violation of `RemoveReportsDeletion` | Two removes both count the row. p1 deletes it, then p2's DELETE removes nothing and p2 still returns true. |
| entries_concurrency | MCOdbcEntries.cfg | pass (~1M states, symmetry, ~30 s) | Two sessions on one profile, all three operations, tags, 1 error, no foreign key, item ids 1..3. `TagsAttachToOwnEntry`: INSERT_TAG, using the item id read before other sessions' steps, writes only onto the item of its own identity or onto an id that is gone, never onto another entry. Tags on a dead id are orphans that this property accepts. |
| entries_linearizable | MCEntriesLinearizable.cfg | pass (~16k states) | Untagged Insert/Remove by two sessions with 1 error implement `EntryStore`. |
| replace_tags | MCReplaceTags.cfg | violation of `ReplaceLeavesOnlyNewTags` | Entries e1 (item 1) and e2 (item 2, tag t1). `Replace(e2)` deletes the tags of item 1 = pid and returns Ok with t1 still on e2. |
| replace_missing | MCReplaceMissing.cfg | violation of `ReplaceUpserts` | Replace of a missing entry returns Ok and creates nothing. |
| entry_atomicity | MCEntryAtomicity.cfg | violation of `EntryStoreRefined` | An Insert with tags commits its row before its tags. |
| list_profiles | MCListProfiles.cfg | violation of `ListProfilesComplete` | remove_profile of the only profile, then list_profiles: `fetch()` answers None and the unwrap panics. With 11 or more profiles the same property fails on the 10-row batch. |

The entry runs use profile 1, two identities and item ids up to 3 (the concurrency
run), 2 (the violation runs) or 4 (linearizability). That is enough for an item id that differs from the pid, which the
`replace_tags` case needs, and for a remove followed by a re-insert. The concurrency
run uses two values and the tag arguments `NoTags` and `{t1}` (`MCOneTag`). A two-tag
loop with two values took close to five minutes, and a one-tag loop already separates
the item row from its tags.

**Mutants.** Each property of the passing runs is broken by a plausible bug of the code
it is about:
- `CreateGetIdSkipped` (the id is never read back) breaks `TypeOK`.
- `CreateGetIdByName` (the id is looked up by name only) breaks `CacheEntriesGenuine`.
- `RekeyUpdateOnce` (the loop ends early) breaks `RekeyConfigLast`.
- `RekeyLoadKeyStale` (the previous profile's key is reused) breaks
  `ProfileKeysRefined`: a row's key changes in a step that is no create or remove. A
  one-off check with an INSERT that upserts on a name in use breaks it too.
- `GetItemIdUnread` (item_id is never read from the cursor) breaks `TypeOK`: tag rows
  point at id 0.
- `InsertItemOverwrites` (Insert upserts) breaks `EntryStoreRefined`.
- `GetItemIdByProfile` (GET_ITEM_ID bound to the profile only) breaks
  `TagsAttachToOwnEntry`: the tag lands on the other entry's item.

**Fairness.** No run checks a liveness property, and no module states fairness. Every
path of `update`, of the profile calls and of a pool checkout is straight-line code
that ends in a return, an error or a panic. A property that "every call ends" holds
by the shape of the model, and so it says nothing about the code. All runs check
safety under `Spec`. Symmetry of the two tasks is used where the properties are
safety properties.

## 7. Not modelled, and why

- `get_active_profile` reads one field and changes no state. `list_profiles` is modelled in `ListProfiles`.
- The `scan`/`fetch`/`fetch_all`/`count`/`remove_all`/`ping` stubs touch no table.
- Provisioning, the r2d2 connection manager, and the ciphers are not in this excerpt.
  A wrapped key is modelled as the pair (key, store key).
- Expiry: it only selects the `_WITH_EXPIRY` form of the same statement, and
  `expiry_timestamp` errors before any statement runs.
- `OdbcEntries` does not model the profile lifecycle, so a profile removed under an open
  session is not combined with entry updates.
- Other processes sharing the database are not modelled. Within one process, `&mut
  self` already makes rekey exclusive.
