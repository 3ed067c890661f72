---------------------------- MODULE MCStructures ----------------------------
(***************************************************************************)
(* Small instances of the components that are one data structure or one    *)
(* verification: the verification of headers (Babe) and of finality proofs *)
(* (GrandpaVerify), the fork tree, the storage overlay and the Merkle      *)
(* values of a runtime call, and the listing of keys through proofs.  They *)
(* share no state: each behaviour is one of a single component.            *)
(***************************************************************************)
EXTENDS Babe, GrandpaVerify, ForkTree, RuntimeHost, PrefixScan

CONSTANTS Active            \* the components to check

VARIABLES active

mcVars == <<active, babeVars, grandpaVars, vars, hostVars, scanVars>>

\* Keys of whole bytes over the nibbles 0 and 1, one of them the prefix of another.
TwoNibbles == 0..1
HostKeys == {<<0, 0>>, <<0, 0, 0, 1>>, <<0, 1>>}
RemoteKeys == HostKeys \cup {<<0, 0, 1, 0>>, <<0, 1, 1, 1>>}
SomePrefixes == {<<>>, <<0, 0>>}

MCInit ==
    /\ active \in Active
    /\ BabeInit
    /\ Init
    /\ IF active = "GrandpaVerify" THEN GrandpaInit
       ELSE /\ message = [kind |-> "commit", setIdOk |-> FALSE, signed |-> FALSE, precommits |-> <<>>]
            /\ asking = "start" /\ index = 1 /\ numVerified = 0 /\ result = "none"
    /\ HostInit
    /\ active # "RuntimeHost" => base = NoValues
    /\ IF active = "PrefixScan" THEN ScanInit
       ELSE /\ remote = [keys |-> {}, inlined |-> {}]
            /\ scan = [prefix |-> <<>>, queries |-> <<>>, found |-> <<>>, attempts |-> 0, phase |-> "off"]

MCNext ==
    \/ active = "Babe" /\ BabeNext /\ UNCHANGED <<active, grandpaVars, vars, hostVars, scanVars>>
    \/ active = "GrandpaVerify" /\ GrandpaNext /\ UNCHANGED <<active, babeVars, vars, hostVars, scanVars>>
    \/ active = "ForkTree" /\ Next /\ UNCHANGED <<active, babeVars, grandpaVars, hostVars, scanVars>>
    \/ active = "RuntimeHost" /\ HostNext /\ UNCHANGED <<active, babeVars, grandpaVars, vars, scanVars>>
    \/ active = "PrefixScan" /\ ScanNext /\ UNCHANGED <<active, babeVars, grandpaVars, vars, hostVars>>

MCSpec == MCInit /\ [][MCNext]_mcVars

\* The links that the slab keeps agree with one another, the order in which a
\* walk visits the nodes is complete, and the common ancestor found by climbing
\* is the deepest one (fork_tree.rs): see ForkTree.
LinksSound ==
    active = "ForkTree" => LinksConsistent /\ AncestryOrderComplete /\ CommonAncestorDeepest
=============================================================================
