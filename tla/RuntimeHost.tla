----------------------------- MODULE RuntimeHost -----------------------------
(***************************************************************************)
(* A runtime call and the storage it sees (executor/runtime_host.rs): the  *)
(* changes of the call kept as an overlay over the storage of the parent   *)
(* block (storage_diff.rs), the storage transaction with what reverts it,  *)
(* and the cache of Merkle values from which the storage root is           *)
(* calculated (module Trie), carried from a call to the next.              *)
(*                                                                         *)
(* A value is 0 (none), the number of items of an encoded list, or Raw     *)
(* (bytes that do not decode as a list).  The virtual machine waits for    *)
(* each answer, so that a request and its answer are one step.             *)
(***************************************************************************)
EXTENDS Trie, Integers, FiniteSetsExt

CONSTANTS StorageKeys,          \* storage keys: bytes, hence pairs of nibbles
          ClearPrefixes,        \* prefixes that the runtime clears
          Limits,               \* limits to the number of keys to clear (0 = no limit)
          MaxItems,             \* length of the longest list
          MaxChanges,           \* keys that one call changes
          InsertAbove,          \* a key may be inserted above a cached node
          AppendInTransaction   \* a key the call has not touched may be appended to in a transaction

VARIABLES base,      \* storage of the parent block
          diff,      \* top_trie_changes: key -> value, 0 when the key is erased
          revert,    \* top_trie_transaction_revert: key -> previous entry of diff
          within,    \* within_storage_transaction
          cache,     \* top_trie_root_calculation_cache
          store,     \* what the storage is, step by step
          saved      \* what it was when the transaction started

hostVars == <<base, diff, revert, within, cache, store, saved>>

Raw == MaxItems + 1
NoEntry == MaxItems + 2       \* the key had no entry in diff
NoMap == <<>>
NoValues == [k \in StorageKeys |-> 0]

\* Lexicographic order of the keys.
BelowTable ==
  [k \in StorageKeys |-> [l \in StorageKeys |->
     LET n == CommonLen(k, l) + 1
     IN  n <= Len(l) /\ (n <= Len(k) => k[n] < l[n])]]
Below(k, l) == BelowTable[k][l]
LeastOf(S) == CHOOSE k \in S : \A l \in S \ {k} : Below(k, l)
-----------------------------------------------------------------------------
(* The overlay *)

storage_get(k) == IF k \in DOMAIN diff THEN diff[k] ELSE base[k]
\* diff_insert and diff_insert_erase
DiffInsert(k, v) == [l \in DOMAIN diff \cup {k} |-> IF l = k THEN v ELSE diff[l]]
MayChange(S) == Cardinality(DOMAIN diff \cup S) <= MaxChanges
DiffGet(k) == IF k \in DOMAIN diff THEN diff[k] ELSE NoEntry

\* The key after k in the parent storage, as a set of at most one key.
ParentNext(k) ==
  LET after == {l \in StorageKeys : base[l] # 0 /\ Below(k, l)}
  IN  IF after = {} THEN {} ELSE {LeastOf(after)}

\* NextKey::inject_key over StorageDiff::storage_next_key, asked again for the
\* key after the erased one as long as the answer is NextOf.
RECURSIVE storage_next_key(_)
storage_next_key(k) ==
  LET a == ParentNext(k)
      later == {l \in DOMAIN diff : Below(k, l)}
      b == LeastOf(later)
      kept == {l \in later : diff[l] # 0}
      first(S) == IF S = {} THEN {} ELSE {LeastOf(S)}
  IN  IF later = {} THEN a
      ELSE IF a = {} THEN first(kept)
      ELSE IF \E x \in a : Below(x, b) \/ (x = b /\ diff[b] # 0) THEN a
      ELSE IF diff[b] # 0 THEN {b}
      ELSE storage_next_key(b)

\* The keys with a prefix after the overlay, in order.
storage_prefix_keys_ordered(prefix) ==
  LET kept == {k \in StorageKeys : IsPrefix(prefix, k) /\ base[k] # 0 /\ k \notin DOMAIN diff}
      added == {k \in DOMAIN diff : IsPrefix(prefix, k) /\ diff[k] # 0}
  IN  SetToSortSeq(kept \cup added, Below)
-----------------------------------------------------------------------------
(* Requests of the runtime *)

NotedAlways(k) ==
  IF within THEN [l \in DOMAIN revert \cup {k} |-> IF l = k THEN DiffGet(k) ELSE revert[l]] ELSE revert

\* What takes an entry back to what it was is noted once per transaction.
Noted(k) ==
  IF within /\ k \notin DOMAIN revert
  THEN [l \in DOMAIN revert \cup {k} |-> IF l = k THEN DiffGet(k) ELSE revert[l]]
  ELSE revert

\* ext_storage_set and ext_storage_clear (v = 0).
ExternalStorageSet(k, v) ==
  /\ MayChange({k})
  /\ v # 0 => InsertAbove \/ ~InsertsAboveCached(cache, k)
  /\ cache' = storage_value_update(cache, k, v # 0)
  /\ diff' = DiffInsert(k, v)
  /\ revert' = Noted(k)
  /\ store' = [store EXCEPT ![k] = v]
  /\ UNCHANGED <<base, within, saved>>

append_to_storage_value(v) == IF v \in {0, Raw} THEN 1 ELSE v + 1

Appended(k) ==
  /\ MayChange({k})
  /\ storage_get(k) # MaxItems
  /\ InsertAbove \/ ~InsertsAboveCached(cache, k)
  /\ cache' = storage_value_update(cache, k, TRUE)
  /\ diff' = DiffInsert(k, append_to_storage_value(storage_get(k)))
  /\ store' = [store EXCEPT ![k] = append_to_storage_value(@)]
  /\ UNCHANGED <<base, within, saved>>

ExternalStorageAppend(k) ==
  /\ k \in DOMAIN diff
  /\ Appended(k)
  /\ revert' = Noted(k)

\* When the call has no entry for the key, the value is asked for, and the entry
\* is written without noting how to revert it (StorageGet::inject_value).
AppendAfterFetch(k) ==
  /\ k \notin DOMAIN diff
  /\ within => AppendInTransaction
  /\ Appended(k)
  /\ UNCHANGED revert

\* The keys that go: the first ones, up to the limit.
ToRemove(prefix, max) ==
  LET all == storage_prefix_keys_ordered(prefix)
  IN  IF max = 0 \/ Len(all) <= max THEN all ELSE SubSeq(all, 1, max)

ExternalStorageClearPrefix(prefix, max) ==
  LET gone == ToRemove(prefix, max)
      here == SetToSortSeq({k \in StorageKeys : IsPrefix(prefix, k) /\ store[k] # 0}, Below)
      first == IF max = 0 THEN Range(here) ELSE {here[i] : i \in 1..Len(here) \cap 1..max}
  IN  /\ MayChange(Range(gone))
      /\ cache' = FoldLeft(LAMBDA t, k : storage_value_update(t, k, FALSE), cache, gone)
      /\ diff' = [k \in DOMAIN diff \cup Range(gone) |-> IF k \in Range(gone) THEN 0 ELSE diff[k]]
      /\ revert' = IF within
                   THEN [k \in DOMAIN revert \cup Range(gone) |->
                           IF k \in DOMAIN revert THEN revert[k] ELSE DiffGet(k)]
                   ELSE revert
      /\ store' = [k \in StorageKeys |-> IF k \in first THEN 0 ELSE store[k]]
      /\ UNCHANGED <<base, within, saved>>

\* ext_storage_root: the calculation asks for all the keys when the cache is
\* empty, then for the values of the nodes it has to hash.
ExternalStorageRoot ==
  /\ cache' = root_merkle_value(cache, [k \in StorageKeys |-> storage_get(k)])
  /\ UNCHANGED <<base, diff, revert, within, store, saved>>

StartStorageTransaction ==
  /\ ~within
  /\ within' = TRUE
  /\ revert' = NoMap
  /\ saved' = store
  /\ UNCHANGED <<base, diff, cache, store>>

\* Each noted entry goes back to what it was, or away; the cache restarts.
RevertedDiff ==
  [k \in {l \in DOMAIN diff \cup DOMAIN revert :
            IF l \in DOMAIN revert THEN revert[l] # NoEntry ELSE TRUE} |->
     IF k \in DOMAIN revert THEN revert[k] ELSE diff[k]]

EndStorageTransaction(rollback) ==
  /\ within
  /\ within' = FALSE
  /\ revert' = NoMap
  /\ diff' = IF rollback THEN RevertedDiff ELSE diff
  /\ cache' = IF rollback THEN NoTrie ELSE cache
  /\ store' = IF rollback THEN saved ELSE store
  /\ saved' = NoValues
  /\ UNCHANGED base

\* The block is complete: the next call runs over the storage that results,
\* with the same cache.
Finished ==
  /\ ~within
  /\ diff # NoMap
  /\ base' = [k \in StorageKeys |-> storage_get(k)]
  /\ diff' = NoMap
  /\ UNCHANGED <<revert, within, cache, store, saved>>

\* A trap, or the end of the call within a transaction: nothing remains.
HostError ==
  /\ diff' = NoMap
  /\ revert' = NoMap
  /\ within' = FALSE
  /\ cache' = NoTrie
  /\ store' = base
  /\ saved' = NoValues
  /\ UNCHANGED base
-----------------------------------------------------------------------------
HostInit ==
  /\ base \in {[k \in StorageKeys |-> IF k \in S THEN Raw ELSE 0] : S \in SUBSET StorageKeys}
  /\ diff = NoMap
  /\ revert = NoMap
  /\ within = FALSE
  /\ cache = NoTrie
  /\ store = base
  /\ saved = NoValues

\* The host functions that change the storage; a nested transaction, or the
\* end of none, is an error (host.rs).
ext_storage ==
  \/ \E k \in StorageKeys, v \in {0, 1} : ExternalStorageSet(k, v)
  \/ \E k \in StorageKeys : ExternalStorageAppend(k) \/ AppendAfterFetch(k)
  \/ \E p \in ClearPrefixes, max \in Limits : ExternalStorageClearPrefix(p, max)
  \/ ExternalStorageRoot

ext_storage_transaction ==
  \/ StartStorageTransaction
  \/ \E rollback \in BOOLEAN : EndStorageTransaction(rollback)

HostNext ==
  \/ ext_storage
  \/ ext_storage_transaction
  \/ Finished
  \/ HostError

HostSpec == HostInit /\ [][HostNext]_hostVars
-----------------------------------------------------------------------------
(* What a runtime relies on: every read, whether of a value, of the next     *)
(* key or of the keys with a prefix, answers as if the calls wrote directly  *)
(* to one storage in which a transaction that rolls back never took place.   *)
OverlayTransparent ==
  LET present == {k \in StorageKeys : store[k] # 0}
      after(k) == {l \in present : Below(k, l)}
  IN  /\ \A k \in StorageKeys : storage_get(k) = store[k]
      /\ \A k \in StorageKeys : storage_next_key(k) = IF after(k) = {} THEN {} ELSE {LeastOf(after(k))}
      /\ \A p \in ClearPrefixes :
           storage_prefix_keys_ordered(p) = SetToSortSeq({k \in present : IsPrefix(p, k)}, Below)

(* After any insertions, removals and rollbacks, the structure in the cache  *)
(* is the trie of the keys of the storage, as if built from nothing.         *)
TrieCanonical ==
  cache.built => IsTrieOf(cache, {k \in StorageKeys : store[k] # 0})

RootTable == [s \in [StorageKeys -> 0..Raw] |-> MerkleRoot(s)]

(* The root that the cache answers with is the Merkle root of the storage:   *)
(* every Merkle value that a change makes wrong has been invalidated.        *)
RootExact ==
  cache.root # 0 /\ RootOf(cache) # <<>> => RootOf(cache) = RootTable[store]
=============================================================================
