------------------------------ MODULE KeyCache ------------------------------
(***************************************************************************)
(* The interface of askar's KeyCache and profile-key codec, as the ODBC    *)
(* backend uses them (crate::protect, db_utils; not part of this excerpt). *)
(* A profile key is an opaque number; its wrapped form under a store key   *)
(* is the pair of the two, so a blob unwraps under exactly the store key   *)
(* it was wrapped with and yields the key it was made from.               *)
(***************************************************************************)

CONSTANT NoEntry   \* the answer of get_profile for a name not in the cache

\* encode_profile_key(profile_key, store_key)
Wrap(key, storeKey) == [key |-> key, sk |-> storeKey]

\* KeyCache::load_key succeeds exactly when the blob was wrapped under the
\* cache's store key.
CanUnwrap(blob, storeKey) == blob.sk = storeKey

\* The profile key that a successful KeyCache::load_key returns.
LoadKey(blob) == blob.key

\* KeyCache::get_profile(name): the cached (id, key) pair or NoEntry.
GetProfile(cache, name) == cache[name]

\* KeyCache::add_profile(name, pid, key): last writer wins.
AddProfile(cache, name, pid, key) ==
    [cache EXCEPT ![name] = [pid |-> pid, key |-> key]]

\* A freshly constructed KeyCache holds no profile.
EmptyCache(names) == [n \in names |-> NoEntry]

=============================================================================
