-------------------------------- MODULE Trie --------------------------------
(***************************************************************************)
(* The radix trie of the storage: the structure kept by trie_structure.rs, *)
(* the Merkle values that calculate_root.rs caches in its nodes, and the   *)
(* lookup of a key in a proof (proof_verify.rs).  No state of its own:     *)
(* RuntimeHost keeps one cache, PrefixScan reads proofs of a remote trie.  *)
(*                                                                         *)
(* A key is a sequence of nibbles.  A trie is a record                     *)
(*   built  whether the cache holds a structure at all                     *)
(*   root   root_index (0 when absent)                                     *)
(*   nodes  the slab: index -> [parent, at, key, kids, has, merkle]        *)
(* where "at" is the child index under the parent, "key" the partial key   *)
(* and "merkle" the cached Merkle value (<<>> when there is none).  A      *)
(* Merkle value is the tuple of what is hashed: an ideal hash.             *)
(***************************************************************************)
EXTENDS Naturals, FiniteSets, Sequences, SequencesExt, TLC

CONSTANT Nibbles        \* the alphabet of the keys, a prefix 0..n of 0..15

NoKids == [x \in Nibbles |-> 0]
NoTrie == [built |-> FALSE, root |-> 0, nodes |-> <<>>]
Empty == [built |-> TRUE, root |-> 0, nodes |-> <<>>]
Drop(s, n) == SubSeq(s, n + 1, Len(s))
CommonLen(s, t) == CHOOSE n \in 0..Len(s) :
                     /\ IsPrefix(SubSeq(s, 1, n), t)
                     /\ n < Len(s) => ~IsPrefix(SubSeq(s, 1, n + 1), t)
KidsOf(n) == {n.kids[x] : x \in Nibbles} \ {0}
\* The slab gives the free index of its choice: the smallest one here.
Free(nodes) == CHOOSE i \in 1..Cardinality(DOMAIN nodes) + 1 :
                 /\ i \notin DOMAIN nodes
                 /\ 1..i - 1 \subseteq DOMAIN nodes
-----------------------------------------------------------------------------
(* Lookup *)

RECURSIVE node_full_key(_, _)
node_full_key(t, i) ==
  LET n == t.nodes[i]
  IN  IF n.parent = 0 THEN n.key ELSE node_full_key(t, n.parent) \o <<n.at>> \o n.key

RECURSIVE FindBelow(_, _, _, _)
FindBelow(t, i, rest, ancestor) ==
  LET n == t.nodes[i]
      next == n.kids[rest[Len(n.key) + 1]]
  IN  IF ~IsPrefix(n.key, rest) THEN [found |-> FALSE, node |-> ancestor]
      ELSE IF Len(rest) = Len(n.key) THEN [found |-> TRUE, node |-> i]
      ELSE IF next = 0 THEN [found |-> FALSE, node |-> i]
      ELSE FindBelow(t, next, Drop(rest, Len(n.key) + 1), i)

\* The node of a key, or the closest ancestor that it would have.
existing_node_inner(t, key) ==
  IF t.root = 0 THEN [found |-> FALSE, node |-> 0] ELSE FindBelow(t, t.root, key, 0)
-----------------------------------------------------------------------------
(* Insertion *)

\* A new node takes the place of its only child, whose partial key loses what
\* the new node now spells, and its parent (or the root index) points to it.
Put(t, parent, at, key, kids, has) ==
  LET i == Free(t.nodes)
      new == [parent |-> parent, at |-> at, key |-> key, kids |-> kids, has |-> has, merkle |-> <<>>]
      moved(j) == CHOOSE x \in Nibbles : kids[x] = j
      around == [j \in DOMAIN t.nodes |->
                   IF j \in KidsOf(new)
                   THEN [t.nodes[j] EXCEPT !.parent = i, !.at = moved(j), !.key = Drop(@, Len(key) + 1)]
                   ELSE IF j = parent THEN [t.nodes[j] EXCEPT !.kids[at] = i]
                   ELSE t.nodes[j]]
  IN  [trie |-> [t EXCEPT !.nodes = around @@ (i :> new), !.root = IF parent = 0 THEN i ELSE @],
       node |-> i]

\* PrepareInsertTwo: a branch node where the two keys part, with the existing
\* node and a new leaf below it.
InsertTwo(t, ancestor, at, partial, existing) ==
  LET old == t.nodes[existing].key
      len == CommonLen(partial, old)
      two == Put(t, ancestor, at, SubSeq(partial, 1, len), [NoKids EXCEPT ![old[len + 1]] = existing], FALSE)
      one == Put(two.trie, two.node, partial[len + 1], Drop(partial, len + 1), NoKids, TRUE)
  IN  [one EXCEPT !.trie.nodes[two.node].kids[partial[len + 1]] = one.node] @@ [branch |-> two.node]

\* Vacant::insert_storage_value and the insertion it prepares: a leaf, a node
\* in between, or a branch node ("branch", otherwise 0) and a leaf.
insert_storage_value(t, key, ancestor) ==
  LET skip == IF ancestor = 0 THEN 0 ELSE Len(node_full_key(t, ancestor)) + 1
      at == IF ancestor = 0 THEN 0 ELSE key[skip]
      partial == Drop(key, skip)
      existing == IF ancestor = 0 THEN t.root ELSE t.nodes[ancestor].kids[at]
      old == t.nodes[existing].key
      one(kids) == Put(t, ancestor, at, partial, kids, TRUE) @@ [branch |-> 0]
  IN  IF existing = 0 THEN one(NoKids)
      ELSE IF IsPrefix(partial, old) THEN one([NoKids EXCEPT ![old[Len(partial) + 1]] = existing])
      ELSE InsertTwo(t, ancestor, at, partial, existing)
-----------------------------------------------------------------------------
(* Removal *)

\* Takes node i, which has at most one child, out of the trie: the child, with
\* the partial key that covers both, takes its place.
Splice(t, i) ==
  LET n == t.nodes[i]
      c == IF KidsOf(n) = {} THEN 0 ELSE CHOOSE k \in KidsOf(n) : TRUE
      at == t.nodes[c].at
      around == [j \in DOMAIN t.nodes \ {i} |->
                   IF j = c THEN [t.nodes[j] EXCEPT !.parent = n.parent, !.at = n.at,
                                                    !.key = n.key \o <<at>> \o @]
                   ELSE IF j = n.parent THEN [t.nodes[j] EXCEPT !.kids[n.at] = c]
                   ELSE t.nodes[j]]
  IN  [trie |-> [t EXCEPT !.nodes = around, !.root = IF n.parent = 0 THEN c ELSE @], child |-> c]

RemoveBranchNever(t, parent) == [trie |-> t, touched |-> parent]

\* The parent was a branch node and has one child left, which takes its place.
RemoveBranch(t, parent) ==
  LET two == Splice(t, parent) IN [trie |-> two.trie, touched |-> two.child]

\* StorageNodeAccess::remove; "touched" is the node that the outcome reports
\* (0 when the trie is now empty).
remove(t, i) ==
  LET n == t.nodes[i]
      one == Splice(t, i)
      p == one.trie.nodes[n.parent]
  IN  IF Cardinality(KidsOf(n)) >= 2
      THEN [trie |-> [t EXCEPT !.nodes[i].has = FALSE], touched |-> i]
      ELSE IF n.parent = 0 THEN [trie |-> one.trie, touched |-> one.child]
      ELSE IF p.has \/ Cardinality(KidsOf(p)) >= 2
      THEN [trie |-> one.trie, touched |-> IF one.child # 0 THEN one.child ELSE n.parent]
      ELSE RemoveBranch(one.trie, n.parent)
-----------------------------------------------------------------------------
(* The cache of Merkle values *)

\* From i upwards, up to the first node that has no Merkle value already.
RECURSIVE InvalidateAbove(_, _)
InvalidateAbove(t, i) ==
  IF i = 0 \/ t.nodes[i].merkle = <<>> THEN t
  ELSE InvalidateAbove([t EXCEPT !.nodes[i].merkle = <<>>], t.nodes[i].parent)

InvalidateOnly(t, i) == IF i = 0 THEN t ELSE [t EXCEPT !.nodes[i].merkle = <<>>]

Invalidate(t, i) ==
  IF i = 0 THEN t
  ELSE InvalidateAbove([t EXCEPT !.nodes[i].merkle = <<>>], t.nodes[i].parent)

Forget(t, nodes) ==
  [t EXCEPT !.nodes = [j \in DOMAIN t.nodes |->
                         IF j \in nodes THEN [t.nodes[j] EXCEPT !.merkle = <<>>] ELSE t.nodes[j]]]

\* The Merkle values of the children of a new branch node are dropped; those of
\* the children of a new storage node are not.
AfterInsert(ins) ==
  IF ins.branch # 0
  THEN Invalidate(Forget(ins.trie, KidsOf(ins.trie.nodes[ins.branch])), ins.trie.nodes[ins.branch].parent)
  ELSE Invalidate(ins.trie, ins.trie.nodes[ins.node].parent)

storage_value_update(t, key, has) ==
  LET r == existing_node_inner(t, key)
      rm == remove(t, r.node)
  IN  IF ~t.built THEN t
      ELSE IF ~r.found
      THEN IF has THEN AfterInsert(insert_storage_value(t, key, r.node)) ELSE t
      ELSE IF has THEN Invalidate([t EXCEPT !.nodes[r.node].has = TRUE], r.node)
      ELSE IF t.nodes[r.node].has THEN Invalidate(rm.trie, rm.touched)
      ELSE t

\* Whether the update puts a storage node above a node whose Merkle value is
\* cached.
InsertsAboveCached(t, key) ==
  LET r == existing_node_inner(t, key)
      ins == insert_storage_value(t, key, r.node)
  IN  /\ t.built /\ ~r.found
      /\ ins.branch = 0
      /\ \E c \in KidsOf(ins.trie.nodes[ins.node]) : ins.trie.nodes[c].merkle # <<>>

\* AllKeys::inject: the structure is built from nothing.
BuildTrie(keys) ==
  FoldLeft(LAMBDA t, k : insert_storage_value(t, k, existing_node_inner(t, k).node).trie,
           Empty, SetToSeq(keys))

\* The Merkle value of node i, whose children have theirs: StorageValue::inject
\* or, for a branch node, CalcInner::next itself.
HashNode(t, i, value) ==
  LET n == t.nodes[i]
      child(x) == IF n.kids[x] = 0 THEN <<>> ELSE t.nodes[n.kids[x]].merkle
  IN  [t EXCEPT !.nodes[i].merkle = <<n.parent = 0, n.key, [x \in Nibbles |-> child(x)], value>>]

\* CalcInner::next: depth first, the Merkle values that are missing; a subtree
\* whose root has one is not entered.  store[k] is the value of key k.
RECURSIVE Fill(_, _, _)
Fill(t, i, store) ==
  LET n == t.nodes[i]
      below == FoldLeft(LAMBDA u, c : Fill(u, c, store), t, SetToSeq(KidsOf(n)))
  IN  IF n.merkle # <<>> THEN t
      ELSE HashNode(below, i, IF n.has THEN store[node_full_key(t, i)] ELSE 0)

RootOf(t) == IF t.root = 0 THEN <<>> ELSE t.nodes[t.root].merkle

\* root_merkle_value driven to its end over the given storage.
root_merkle_value(t, store) ==
  LET s == IF t.built THEN t ELSE BuildTrie({k \in DOMAIN store : store[k] # 0})
  IN  IF s.root = 0 THEN s ELSE Fill(s, s.root, store)
-----------------------------------------------------------------------------
(* The trie of a set of keys, defined without any structure: its nodes are  *)
(* the keys and the points where two of them part.                          *)

NodeKeys(keys) == {SubSeq(k, 1, CommonLen(k, l)) : k \in keys, l \in keys}
ParentKeys(nodes, k) == {n \in nodes : IsStrictPrefix(n, k)}
Longest(S) == CHOOSE k \in S : \A l \in S : Len(l) <= Len(k)
\* What leads to a node from the root, up to the child index under its parent.
Stem(nodes, k) ==
  IF ParentKeys(nodes, k) = {} THEN <<>> ELSE SubSeq(k, 1, Len(Longest(ParentKeys(nodes, k))) + 1)
ChildKeys(nodes, k) ==
  {n \in nodes : /\ IsStrictPrefix(k, n)
                 /\ Longest(ParentKeys(nodes, n)) = k}

RECURSIVE MerkleOf(_, _, _)
MerkleOf(nodes, k, store) ==
  LET at(x) == {c \in ChildKeys(nodes, k) : c[Len(k) + 1] = x}
      child(x) == IF at(x) = {} THEN <<>> ELSE MerkleOf(nodes, CHOOSE c \in at(x) : TRUE, store)
      value == IF k \in DOMAIN store THEN store[k] ELSE 0
  IN  <<ParentKeys(nodes, k) = {}, Drop(k, Len(Stem(nodes, k))), [x \in Nibbles |-> child(x)], value>>

MerkleRoot(store) ==
  LET nodes == NodeKeys({k \in DOMAIN store : store[k] # 0})
  IN  IF nodes = {} THEN <<>> ELSE MerkleOf(nodes, CHOOSE n \in nodes : ParentKeys(nodes, n) = {}, store)

\* The structure is the trie of these keys: one node for each node key, marked
\* when it holds a value, linked both ways with its nearest ancestor.
IsTrieOf(t, keys) ==
  LET nodes == NodeKeys(keys)
      full == [i \in DOMAIN t.nodes |-> node_full_key(t, i)]
  IN  /\ {full[i] : i \in DOMAIN full} = nodes
      /\ Cardinality(DOMAIN full) = Cardinality(nodes)
      /\ (t.root = 0) = (nodes = {})
      /\ \A i \in DOMAIN full :
           LET n == t.nodes[i]
           IN  /\ n.has <=> full[i] \in keys
               /\ (i = t.root) <=> (n.parent = 0)
               /\ n.parent = 0 <=> ParentKeys(nodes, full[i]) = {}
               /\ n.parent # 0 => /\ full[n.parent] = Longest(ParentKeys(nodes, full[i]))
                                  /\ t.nodes[n.parent].kids[n.at] = i
               /\ \A x \in Nibbles : n.kids[x] # 0 =>
                    t.nodes[n.kids[x]].parent = i /\ t.nodes[n.kids[x]].at = x
-----------------------------------------------------------------------------
(* Proofs *)

trie_node_info_only(nodes, keys, readable, key) ==
  [ok |-> {n \in nodes : IsPrefix(Stem(nodes, n), key)} \subseteq readable,
   value |-> key \in keys,
   next |-> IF key \in nodes THEN {c[Len(key) + 1] : c \in ChildKeys(nodes, key)} ELSE {}]

\* trie_node_info against the nodes whose values can be read: an error as soon
\* as a node on the way to the key is missing.
trie_node_info(nodes, keys, readable, key) ==
  LET way == {n \in nodes : IsPrefix(Stem(nodes, n), key)}
      end == Longest(way)
  IN  IF ~(way \subseteq readable) THEN [ok |-> FALSE, value |-> FALSE, next |-> {}]
      ELSE IF end = key
      THEN [ok |-> TRUE, value |-> key \in keys,
            next |-> {c[Len(key) + 1] : c \in ChildKeys(nodes, key)}]
      ELSE [ok |-> TRUE, value |-> FALSE,
            next |-> IF IsPrefix(key, end) THEN {end[Len(key) + 1]} ELSE {}]
=============================================================================
