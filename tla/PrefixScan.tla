----------------------------- MODULE PrefixScan -----------------------------
(***************************************************************************)
(* Listing the storage keys that start with a prefix through proofs asked  *)
(* from peers: trie/prefix_proof.rs, driven by storage_prefix_keys_query   *)
(* of the light client's sync service.                                     *)
(*                                                                         *)
(* The trie is the one of a set of keys, fixed by its root hash.  A proof  *)
(* is a set of nodes of that trie: a peer may leave nodes out, and may add *)
(* nodes that no query needs.  A small leaf is inlined in its parent       *)
(* instead of being an entry of the proof.                                 *)
(***************************************************************************)
EXTENDS Trie

CONSTANTS ScanKeys,       \* keys that the trie may hold
          ScanPrefixes,   \* prefixes that are listed
          MaxAttempts,    \* total_attempts
          UnevenProofs    \* a proof may reach further for one query than for another

VARIABLES remote,         \* the trie: its keys and its inlined leaves
          scan            \* the query: [prefix, queries, found, attempts, phase]

scanVars == <<remote, scan>>

\* An empty trie has a root node all the same.
RemoteNodes == IF remote.keys = {} THEN {<<>>} ELSE NodeKeys(remote.keys)
Leaves(keys) == {k \in keys : \A l \in keys : ~IsStrictPrefix(k, l)}
Info(proof, q) == trie_node_info(RemoteNodes, remote.keys, proof \cup remote.inlined, q)
ValuesIn(proof, queries) == SelectSeq(queries, LAMBDA q : Info(proof, q).ok /\ Info(proof, q).value)
Longer(proof, q) == LET next == SetToSortSeq(Info(proof, q).next, <)
                    IN  [i \in DOMAIN next |-> q \o <<next[i]>>]

\* The queries of the next round: those that the proof does not answer are not
\* among them.
NextQueries(proof, queries) ==
  LET ok == SelectSeq(queries, LAMBDA q : Info(proof, q).ok)
  IN  FlattenSeq([i \in DOMAIN ok |-> Longer(proof, ok[i])])

\* PrefixScan::resume: rounds as long as the proof answers a query.  In the
\* first round an error stops at the query that the proof does not answer.
RECURSIVE resume(_, _, _, _)
resume(proof, queries, found, first) ==
  LET bad == {i \in DOMAIN queries : ~Info(proof, queries[i]).ok}
      before == SubSeq(queries, 1, (CHOOSE i \in bad : \A j \in bad : i <= j) - 1)
      more == found \o ValuesIn(proof, queries)
      next == NextQueries(proof, queries)
  IN  IF first /\ bad # {}
      THEN [outcome |-> "error", queries |-> queries, found |-> found \o ValuesIn(proof, before)]
      ELSE IF bad = DOMAIN queries
      THEN [outcome |-> "progress", queries |-> queries, found |-> found]
      ELSE IF next = <<>> THEN [outcome |-> "success", queries |-> <<>>, found |-> more]
      ELSE resume(proof, next, more, FALSE)

\* Whether every round of the proof answers all the queries or none of them.
RECURSIVE Even(_, _)
Even(proof, queries) ==
  LET bad == {i \in DOMAIN queries : ~Info(proof, queries[i]).ok}
  IN  IF bad = DOMAIN queries THEN TRUE
      ELSE bad = {} /\ Even(proof, NextQueries(proof, queries))

\* Another attempt with the next peer, or the end of the query.
Attempted(s) ==
  IF s.attempts + 1 = MaxAttempts THEN [s EXCEPT !.phase = "failed", !.attempts = 0]
  ELSE [s EXCEPT !.attempts = @ + 1]

ProofReceived(proof) ==
  LET r == resume(proof, scan.queries, scan.found, TRUE)
      now == [scan EXCEPT !.queries = r.queries, !.found = r.found]
  IN  /\ scan.phase = "asking"
      /\ UnevenProofs \/ Even(proof, scan.queries)
      /\ scan' = CASE r.outcome = "error" -> Attempted(now)
                   [] r.outcome = "progress" -> [now EXCEPT !.attempts = 0]
                   [] r.outcome = "success" -> [now EXCEPT !.phase = "done", !.attempts = 0]
      /\ UNCHANGED remote

RequestFailed ==
  /\ scan.phase = "asking"
  /\ scan' = Attempted(scan)
  /\ UNCHANGED remote
-----------------------------------------------------------------------------
ScanInit ==
  /\ remote \in {[keys |-> K, inlined |-> I] : K \in SUBSET ScanKeys, I \in SUBSET ScanKeys}
  /\ remote.inlined \subseteq {k \in Leaves(remote.keys) : ParentKeys(RemoteNodes, k) # {}}
  /\ \E p \in ScanPrefixes :
       scan = [prefix |-> p, queries |-> <<p>>, found |-> <<>>, attempts |-> 0, phase |-> "asking"]

ScanNext ==
  \/ \E proof \in SUBSET (RemoteNodes \ remote.inlined) : ProofReceived(proof)
  \/ RequestFailed

ScanSpec == ScanInit /\ [][ScanNext]_scanVars
-----------------------------------------------------------------------------
(* The outcome of storage_prefix_keys_query is the keys of the block that   *)
(* start with the prefix, each of them once: over proofs that stop at       *)
(* different depths, retries after a failed proof, and inlined leaves.      *)
ScanExact ==
  scan.phase = "done" =>
    /\ IsInjective(scan.found)
    /\ Range(scan.found) = {k \in remote.keys : IsPrefix(scan.prefix, k)}
=============================================================================
