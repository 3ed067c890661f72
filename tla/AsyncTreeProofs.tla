--------------------------- MODULE AsyncTreeProofs ---------------------------
(***************************************************************************)
(* The safety invariants of AsyncTree, for every set of blocks, every retry *)
(* delay and every bound.                                                   *)
(***************************************************************************)
EXTENDS AsyncTree, BlockForestProofs

(* The block the input declared best descends from the one it finalized, as *)
(* the assert!s of input_set_best_block and input_finalize demand: it is    *)
(* why the best block is never pruned.                                      *)
InputBestBelowFinalized ==
    inputFinalized # Nil => inputBest # Nil /\ inputFinalized \in Anc(inputBest)

(* The inductive invariant. *)
IInv ==
    /\ TypeOK
    /\ Acyclic(Nodes, parent)
    /\ InputBestBelowFinalized
    /\ ReportedClosed
    /\ OutputBestReported
    /\ SameAsParentPending
    /\ WeightsDistinct
    /\ SharedLifecycle
    /\ InProgressAwaited

(* Nil is not the index of a node. *)
LEMMA NodesAreBlocks == Nodes \subseteq Blocks /\ Nil \notin Nodes
  BY NilAssumption DEF Nodes

(* A new AsyncTree satisfies the invariant. *)
LEMMA InitIInv == Init => IInv
<1> SUFFICES ASSUME Init PROVE IInv
  OBVIOUS
<1>1. Nodes = {}
  BY DEF Init, Nodes
<1>2. Reported = {}
  BY DEF Init, Reported
<1>3. TypeOK
  BY <1>1 DEF Init, TypeOK, States, ParentsPresent, ClosedUnderParent
<1>4. Acyclic(Nodes, parent)
  BY <1>1 DEF Acyclic
<1> QED BY <1>1, <1>2, <1>3, <1>4 DEF Init, IInv, InputBestBelowFinalized,
          ReportedClosed, OutputBestReported, SameAsParentPending, WeightsDistinct,
          SharedLifecycle, InProgressAwaited

(* start_necessary_async_op only starts pending blocks, and starts together *)
(* with a block everything that shares its operation.                       *)
LEMMA SharedOpFacts ==
    ASSUME IInv, NEW b \in Nodes, state[b] = "pending"
    PROVE  /\ b \in SharedOp(b)
           /\ SharedOp(b) \subseteq Nodes
           /\ \A c \in SharedOp(b) : state[c] = "pending"
           /\ \A c \in SharedOp(b) : c # b => parent[c] \in SharedOp(b)
           /\ \A c \in Nodes :
                state[c] = "pending" /\ sameAsParent[c] /\ parent[c] \in SharedOp(b)
                    => c \in SharedOp(b)
<1> USE NodesAreBlocks
<1>0. ParentsPresent(Nodes, parent) /\ Acyclic(Nodes, parent)
  BY DEF IInv, TypeOK
<1>1. \A x \in Nodes : x \in Anc(x) /\ Anc(x) \subseteq Nodes
  BY AncestorSelf DEF Anc, AncestorsOf
<1>2. b \in SharedOp(b)
  <2>1. ASSUME NEW x \in PathTo(b, b) PROVE FALSE
    <3>1. x \in Anc(b) /\ b \in Anc(x) /\ x # b /\ x \in Nodes
      BY <1>1, <2>1 DEF PathTo
    <3> QED BY <1>0, <3>1, AncestorAntisymmetric DEF Anc
  <2> QED BY <1>1, <2>1 DEF SharedOp
<1>3. ASSUME NEW c \in SharedOp(b) PROVE state[c] = "pending"
  <2>1. CASE c = b
    BY <2>1
  <2>2. CASE c # b
    <3>1. c \in PathTo(b, c)
      BY <1>1, <2>2 DEF PathTo, SharedOp
    <3> QED BY <3>1 DEF SharedOp
  <2> QED BY <2>1, <2>2
<1>4. ASSUME NEW c \in SharedOp(b), c # b PROVE parent[c] \in SharedOp(b)
  <2>1. c \in Nodes /\ b \in Anc(c)
    BY DEF SharedOp
  <2>2. parent[c] # Nil /\ b \in Anc(parent[c])
    BY <1>0, <1>4, <2>1, AncestorStep DEF Anc
  <2>3. parent[c] \in Nodes
    BY <1>0, <2>1, <2>2 DEF ParentsPresent, ClosedUnderParent
  <2>4. PathTo(b, parent[c]) \subseteq PathTo(b, c)
    BY <2>1, <2>2, AncestorOfParent DEF PathTo, Anc
  <2> QED BY <2>2, <2>3, <2>4 DEF SharedOp
<1>5. ASSUME NEW c \in Nodes, state[c] = "pending", sameAsParent[c],
             parent[c] \in SharedOp(b)
      PROVE  c \in SharedOp(b)
  <2>1. parent[c] \in Nodes /\ parent[c] # Nil /\ b \in Anc(parent[c])
    BY <1>5 DEF SharedOp
  <2>2. b \in Anc(c)
    BY <2>1, AncestorOfParent DEF Anc
  <2>3. ASSUME NEW x \in PathTo(b, c) PROVE state[x] = "pending" /\ sameAsParent[x]
    <3>1. CASE x = c
      BY <1>5, <3>1
    <3>2. CASE x # c
      <4>1. x \in Anc(parent[c])
        BY <1>0, <2>3, <3>2, AncestorStep DEF PathTo, Anc
      <4> QED BY <1>5, <2>3, <4>1 DEF SharedOp, PathTo
    <3> QED BY <3>1, <3>2
  <2> QED BY <2>2, <2>3 DEF SharedOp
<1> QED BY <1>2, <1>3, <1>4, <1>5 DEF SharedOp

(* input_insert_block preserves the invariant. *)
LEMMA InsertIInv ==
    ASSUME IInv, NEW b \in Blocks, NEW p \in Blocks \cup {Nil},
           NEW same \in BOOLEAN, NEW isNewBest \in BOOLEAN,
           InsertBlock(b, p, same, isNewBest)
    PROVE  IInv'
<1> USE NodesAreBlocks, NilAssumption
<1> DEFINE newState == InsertedState(p, same)
<1>1. /\ b \in Blocks \ Nodes
      /\ p \in Nodes \cup {Nil}
      /\ p \in Nodes => BelowInputFinalized(p)
      /\ p = Nil => inputFinalized = Nil
  BY DEF InsertBlock, Nodes
<1>2. newState \in {"pending", "in_progress", "finished"}
  BY <1>1 DEF InsertedState, IInv, TypeOK, States, Nodes
<1>3. /\ Nodes' = Nodes \cup {b}
      /\ \A c \in Nodes :
            /\ parent'[c] = parent[c] /\ state'[c] = state[c] /\ opId'[c] = opId[c]
            /\ sameAsParent'[c] = sameAsParent[c] /\ wantsSame'[c] = wantsSame[c]
      /\ parent'[b] = p /\ state'[b] = newState /\ wantsSame'[b] = same
      /\ sameAsParent'[b] = (same /\ newState = "pending")
  BY <1>1, <1>2 DEF InsertBlock, IInv, TypeOK, Nodes
<1>4. ParentsPresent(Nodes, parent) /\ ParentsPresent(Nodes', parent')
  BY <1>1, <1>3 DEF IInv, TypeOK, ParentsPresent, ClosedUnderParent
<1>5. Reported' = Reported
  BY <1>1, <1>2, <1>3 DEF Reported, Nodes, InsertBlock, IInv, TypeOK
<1>6. /\ \A c \in Nodes : weight'[c] = weight[c]
      /\ weight'[b] = IF isNewBest THEN nextWeight ELSE 0
      /\ nextWeight' = IF isNewBest THEN nextWeight + 1 ELSE nextWeight
  BY <1>1 DEF InsertBlock, IInv, TypeOK
<1>7. TypeOK'
  <2>1. /\ parent' \in [Blocks -> Blocks \cup {Nil}] /\ state' \in [Blocks -> States]
        /\ sameAsParent' \in [Blocks -> BOOLEAN] /\ wantsSame' \in [Blocks -> BOOLEAN]
    BY <1>1, <1>2 DEF InsertBlock, IInv, TypeOK, States
  <2>2. opId' \in [Blocks -> Nat]
    <3>1. (CASE ~same -> 0 [] same /\ p = Nil -> finalizedData [] OTHER -> opId[p]) \in Nat
      BY <1>1 DEF IInv, TypeOK
    <3> QED BY <3>1 DEF InsertBlock, IInv, TypeOK
  <2>3. weight' \in [Blocks -> Nat] /\ nextWeight' \in Nat /\ timeout' \in [Blocks -> Nat]
    BY DEF InsertBlock, IInv, TypeOK
  <2> QED BY <1>3, <1>4, <2>1, <2>2, <2>3 DEF InsertBlock, IInv, TypeOK, outVars
<1>8. Acyclic(Nodes', parent')
  <2>1. parent' = [parent EXCEPT ![b] = p]
    BY DEF InsertBlock
  <2>2. /\ Nodes \in SUBSET Blocks /\ parent \in [Blocks -> Blocks \cup {Nil}]
        /\ Acyclic(Nodes, parent)
    BY DEF IInv, TypeOK
  <2>3. Acyclic(Nodes \cup {b}, [parent EXCEPT ![b] = p])
    BY Zenon, <1>1, <1>4, <2>2, AcyclicInsert
  <2> QED BY <1>3, <2>1, <2>3
<1>9. InputBestBelowFinalized'
  <2>1. SUFFICES ASSUME inputFinalized # Nil
                 PROVE  inputBest' # Nil /\ (inputFinalized \in Anc(inputBest))'
    BY DEF InputBestBelowFinalized, InsertBlock, outVars
  <2>2. inputFinalized' = inputFinalized /\ parent' = [parent EXCEPT ![b] = p]
    BY DEF InsertBlock, outVars
  <2>3. ASSUME NEW c \in Nodes, inputFinalized \in Anc(c)
        PROVE  inputFinalized \in AncestorsOf(c, Nodes', parent')
    <3>1. Nodes \in SUBSET Blocks /\ parent \in [Blocks -> Blocks \cup {Nil}]
      BY DEF IInv, TypeOK
    <3>2. inputFinalized \in AncestorsOf(c, Nodes \cup {b}, [parent EXCEPT ![b] = p])
      BY Zenon, <1>1, <1>4, <2>3, <3>1, AncestorInsert DEF Anc
    <3> QED BY <1>3, <2>2, <3>2
  <2>4. CASE ~isNewBest
    <3>1. inputBest' = inputBest /\ inputBest \in Nodes /\ inputFinalized \in Anc(inputBest)
      BY <2>1, <2>4 DEF InsertBlock, IInv, TypeOK, InputBestBelowFinalized
    <3> QED BY Zenon, <2>2, <2>3, <3>1 DEF Anc
  <2>5. CASE isNewBest
    <3>1. inputBest' = b /\ p \in Nodes /\ inputFinalized \in Anc(p)
      BY <1>1, <2>1, <2>5 DEF InsertBlock, BelowInputFinalized
    <3>2. inputFinalized \in AncestorsOf(p, Nodes', parent')
      BY <2>3, <3>1
    <3>3. inputFinalized \in AncestorsOf(b, Nodes', parent')
      BY <1>3, <3>1, <3>2, AncestorOfParent
    <3> QED BY <2>2, <3>1, <3>3 DEF Anc
  <2> QED BY <2>4, <2>5
<1>10. ReportedClosed' /\ OutputBestReported'
  BY <1>3, <1>5 DEF ReportedClosed, OutputBestReported, InsertBlock, outVars, IInv,
                    Reported, Nodes
<1>11. SameAsParentPending'
  <2>1. SUFFICES ASSUME NEW c \in Nodes', state'[c] = "pending", sameAsParent'[c]
                 PROVE  parent'[c] # Nil /\ state'[parent'[c]] = "pending"
    BY DEF SameAsParentPending
  <2>2. CASE c = b
    BY <1>1, <1>3, <2>1, <2>2 DEF InsertedState
  <2>3. CASE c \in Nodes
    BY SMTT(30), <1>3, <1>4, <2>1, <2>3
       DEF IInv, SameAsParentPending, ParentsPresent, ClosedUnderParent
  <2> QED BY <1>3, <2>2, <2>3
<1>12. WeightsDistinct'
  BY SMTT(30), <1>1, <1>3, <1>6 DEF WeightsDistinct, IInv, TypeOK, InsertBlock, outVars
<1>13. SharedLifecycle'
  <2>1. finalizedData' = finalizedData
    BY DEF InsertBlock, outVars
  <2>2. ASSUME NEW c \in Nodes, wantsSame'[c] PROVE SharedWithParent(c)'
    <3>1. SharedWithParent(c)
      BY <1>3, <2>2 DEF SharedLifecycle, IInv
    <3>2. parent[c] # Nil => parent[c] \in Nodes
      BY <1>4 DEF ParentsPresent, ClosedUnderParent
    <3> QED BY SMTT(30), <1>3, <2>1, <3>1, <3>2 DEF SharedWithParent
  <2>3. ASSUME same PROVE SharedWithParent(b)'
    <3>1. CASE p = Nil
      <4>1. newState = "finished" /\ opId'[b] = finalizedData
        BY <2>3, <3>1 DEF InsertedState, InsertBlock, IInv, TypeOK
      <4> QED BY <1>3, <2>1, <3>1, <4>1 DEF SharedWithParent
    <3>2. CASE p \in Nodes
      <4>1. /\ newState = IF state[p] = "reported" THEN "finished" ELSE state[p]
            /\ opId'[b] = opId[p]
        BY <2>3, <3>2 DEF InsertedState, InsertBlock, IInv, TypeOK
      <4>2. state[p] \in {"pending", "in_progress", "finished", "reported"}
        BY <3>2 DEF IInv, TypeOK, States, Nodes
      <4>3. newState = "pending" => sameAsParent'[b]
        BY Zenon, <1>3, <2>3
      <4>4. parent'[b] = p /\ p # Nil /\ state'[p] = state[p] /\ opId'[p] = opId[p]
        BY Zenon, <1>3, <3>2
      <4> QED BY <1>3, <4>1, <4>2, <4>3, <4>4 DEF SharedWithParent
    <3> QED BY <1>1, <3>1, <3>2
  <2> QED BY <1>3, <2>2, <2>3 DEF SharedLifecycle
<1>14. InProgressAwaited'
  <2>1. inFlight' = inFlight
    BY DEF InsertBlock
  <2>2. newState = "in_progress" => p \in Nodes /\ state[p] = "in_progress" /\ opId'[b] = opId[p]
    BY <1>1 DEF InsertedState, InsertBlock, IInv, TypeOK
  <2> QED BY <1>3, <2>1, <2>2 DEF InProgressAwaited, IInv
<1> QED BY <1>7, <1>8, <1>9, <1>10, <1>11, <1>12, <1>13, <1>14 DEF IInv
(* The weight given to the new best block is larger than any other, so that *)
(* the weights stay distinct.                                               *)
LEMMA BumpWeightDistinct ==
    ASSUME IInv, NEW b \in Nodes, BumpWeight(b),
           Nodes' = Nodes, finalizedWeight' = finalizedWeight
    PROVE  /\ WeightsDistinct'
           /\ weight' \in [Blocks -> Nat] /\ nextWeight' \in Nat
<1>1. CASE weight[b] = nextWeight - 1
  BY <1>1 DEF BumpWeight, IInv, TypeOK, WeightsDistinct
<1>2. CASE weight[b] # nextWeight - 1
  <2>1. /\ weight' = [weight EXCEPT ![b] = nextWeight]
        /\ nextWeight' = nextWeight + 1
    BY <1>2 DEF BumpWeight
  <2>2. \A c \in Nodes : weight'[c] = IF c = b THEN nextWeight ELSE weight[c]
    BY <2>1, NodesAreBlocks DEF IInv, TypeOK
  <2>3. nextWeight \in Nat /\ weight \in [Blocks -> Nat] /\ finalizedWeight \in Nat
    BY DEF IInv, TypeOK
  <2>4. WeightsDistinct'
    BY <2>1, <2>2, <2>3, NodesAreBlocks DEF WeightsDistinct, IInv
  <2>5. weight' \in [Blocks -> Nat] /\ nextWeight' \in Nat
    BY <2>1, <2>3, NodesAreBlocks
  <2> QED BY <2>4, <2>5
<1> QED BY <1>1, <1>2

(* input_set_best_block and input_finalize preserve the invariant. *)
LEMMA BestIInv ==
    ASSUME IInv,
           NEW b \in Blocks, NEW n \in Blocks,
           SetBestBlock(b) \/ Finalize(n, b)
    PROVE  IInv'
<1> USE NodesAreBlocks, NilAssumption
<1>1. /\ UNCHANGED <<parent, state, sameAsParent, timeout, opId, bestBlock,
                     finalizedWeight, finalizedData, now, inFlight, wantsSame, nextOpId>>
      /\ b \in Nodes /\ BumpWeight(b) /\ inputBest' = b
      /\ inputFinalized' \in Nodes \cup {Nil}
      /\ inputFinalized' # Nil => inputFinalized' \in Anc(b)
  BY DEF SetBestBlock, Finalize, outVars, BelowInputFinalized, IInv, TypeOK
<1>2. Nodes' = Nodes /\ Reported' = Reported /\ Anc(b)' = Anc(b)
  BY <1>1 DEF Nodes, Reported, Anc
<1>3. WeightsDistinct' /\ weight' \in [Blocks -> Nat] /\ nextWeight' \in Nat
  BY <1>1, <1>2, BumpWeightDistinct
<1>4. TypeOK'
  BY <1>1, <1>2, <1>3 DEF IInv, TypeOK
<1>5. Acyclic(Nodes, parent)'
  BY <1>1, <1>2 DEF IInv
<1>6. InputBestBelowFinalized'
  BY Zenon, <1>1, <1>2 DEF InputBestBelowFinalized, Anc
<1>7. ReportedClosed' /\ OutputBestReported' /\ SameAsParentPending' /\ InProgressAwaited'
  BY Zenon, <1>1, <1>2 DEF IInv, ReportedClosed, OutputBestReported, SameAsParentPending,
                    InProgressAwaited
<1>8. SharedLifecycle'
  BY <1>1, <1>2 DEF IInv, SharedLifecycle, SharedWithParent
<1> QED BY Zenon, <1>3, <1>4, <1>5, <1>6, <1>7, <1>8 DEF IInv

(* next_necessary_async_op preserves the invariant. *)
LEMMA StartIInv ==
    ASSUME IInv, NEW b \in Blocks, NextNecessaryAsyncOp(b)
    PROVE  IInv'
<1> USE NodesAreBlocks, NilAssumption
<1> DEFINE shared == SharedOp(b)
<1>1. b \in Nodes /\ state[b] = "pending" /\ ~sameAsParent[b]
  BY Zenon DEF NextNecessaryAsyncOp, Startable
<1>2. /\ b \in shared /\ shared \subseteq Nodes
      /\ \A c \in shared : state[c] = "pending"
      /\ \A c \in shared : c # b => parent[c] \in shared
      /\ \A c \in Nodes :
            state[c] = "pending" /\ sameAsParent[c] /\ parent[c] \in shared => c \in shared
  BY Zenon, <1>1, SharedOpFacts
<1>3. /\ state' = [c \in Blocks |-> IF c \in shared THEN "in_progress" ELSE state[c]]
      /\ opId' = [c \in Blocks |-> IF c \in shared THEN nextOpId ELSE opId[c]]
      /\ sameAsParent' = [c \in Blocks |-> sameAsParent[c] /\ c \notin shared]
      /\ timeout' = [c \in Blocks |-> IF c \in shared THEN 0 ELSE timeout[c]]
      /\ nextOpId' = nextOpId + 1 /\ inFlight' = inFlight \cup {nextOpId}
      /\ UNCHANGED <<parent, weight, bestBlock, inputFinalized, finalizedWeight,
                     finalizedData, nextWeight, now, inputBest, wantsSame>>
  BY Zenon DEF NextNecessaryAsyncOp, outVars
<1>4. Nodes' = Nodes /\ Reported' = Reported
  BY Zenon, <1>2, <1>3 DEF Nodes, Reported
<1>5. TypeOK'
  <2>1. /\ state' \in [Blocks -> States] /\ opId' \in [Blocks -> Nat]
        /\ timeout' \in [Blocks -> Nat] /\ nextOpId' \in Nat /\ inFlight' \subseteq Nat
    BY SMTT(30), <1>3 DEF IInv, TypeOK, States
  <2>2. sameAsParent' \in [Blocks -> BOOLEAN]
    BY Zenon, <1>3
  <2> QED BY Zenon, <1>3, <1>4, <2>1, <2>2 DEF IInv, TypeOK
<1>6. Acyclic(Nodes, parent)'
  BY Zenon, <1>3, <1>4 DEF IInv
<1>7. InputBestBelowFinalized'
  BY <1>3, <1>4 DEF InputBestBelowFinalized, Anc, IInv
<1>8. ReportedClosed' /\ OutputBestReported'
  BY <1>3, <1>4 DEF IInv, ReportedClosed, OutputBestReported
<1>9. \A c \in Nodes : parent[c] # Nil => parent[c] \in Nodes
  BY Zenon DEF IInv, TypeOK, ParentsPresent, ClosedUnderParent
<1>10. SameAsParentPending'
  <2>1. SUFFICES ASSUME NEW c \in Nodes, state'[c] = "pending", sameAsParent'[c]
                 PROVE  parent'[c] # Nil /\ state'[parent'[c]] = "pending"
    BY <1>4 DEF SameAsParentPending
  <2>2. c \notin shared /\ state[c] = "pending" /\ sameAsParent[c]
    BY Zenon, <1>3, <2>1
  <2>3. parent[c] # Nil /\ state[parent[c]] = "pending" /\ parent[c] \in Nodes
    BY <1>9, <2>2 DEF IInv, SameAsParentPending
  <2>4. parent[c] \notin shared
    BY Zenon, <1>2, <2>2
  <2> QED BY <1>3, <2>3, <2>4
<1>11. WeightsDistinct'
  BY <1>3, <1>4 DEF IInv, WeightsDistinct
<1>12. SharedLifecycle'
  <2>1. SUFFICES ASSUME NEW c \in Nodes, wantsSame[c] PROVE SharedWithParent(c)'
    BY <1>3, <1>4 DEF SharedLifecycle
  <2>2. SharedWithParent(c)
    BY Zenon, <2>1 DEF IInv, SharedLifecycle
  <2>3. CASE c \in shared
    <3>1. c # b /\ parent[c] # Nil
      BY Zenon, <1>1, <1>2, <2>2, <2>3 DEF SharedWithParent
    <3>2. parent[c] \in shared /\ parent[c] \in Blocks
      BY Zenon, <1>2, <2>3, <3>1
    <3> QED BY Zenon, <1>3, <2>3, <3>1, <3>2 DEF SharedWithParent
  <2>4. CASE c \notin shared
    <3>1. parent[c] \notin shared
      BY <1>2, <2>2, <2>4 DEF SharedWithParent
    <3>2. /\ state'[c] = state[c] /\ opId'[c] = opId[c]
          /\ sameAsParent[c] => sameAsParent'[c]
      BY Zenon, <1>3, <2>4
    <3>3. parent[c] # Nil => state'[parent[c]] = state[parent[c]]
                             /\ opId'[parent[c]] = opId[parent[c]]
      BY Zenon, <1>3, <1>9, <3>1
    <3> QED BY Zenon, <1>3, <2>2, <3>2, <3>3 DEF SharedWithParent
  <2> QED BY Zenon, <2>3, <2>4
<1>13. InProgressAwaited'
  BY <1>3, <1>4 DEF IInv, InProgressAwaited
<1> QED BY Zenon, <1>5, <1>6, <1>7, <1>8, <1>10, <1>11, <1>12, <1>13 DEF IInv
(* async_op_finished and async_op_failure preserve the invariant. *)
LEMMA AnswerIInv ==
    ASSUME IInv, NEW id \in inFlight, AsyncOpFinished(id) \/ AsyncOpFailure(id)
    PROVE  IInv'
<1> USE NodesAreBlocks, NilAssumption
<1> DEFINE mine == Performing(id)
<1>1. /\ mine \subseteq Nodes
      /\ \A c \in Nodes : c \in mine <=> state[c] = "in_progress" /\ opId[c] = id
  BY Zenon DEF Performing
<1>2. /\ UNCHANGED <<parent, weight, bestBlock, inputFinalized, finalizedWeight,
                     finalizedData, nextWeight, nextOpId, now, inputBest, wantsSame>>
      /\ inFlight' = inFlight \ {id}
      /\ \A c \in Blocks : c \notin mine => /\ state'[c] = state[c] /\ opId'[c] = opId[c]
                                           /\ sameAsParent'[c] = sameAsParent[c]
      /\ \/ \A c \in mine : state'[c] = "finished" /\ opId'[c] = id
         \/ \A c \in mine : state'[c] = "pending"
                             /\ sameAsParent'[c] = (parent[c] \in mine)
  <2>1. CASE AsyncOpFinished(id)
    BY Zenon, <2>1, <1>1 DEF AsyncOpFinished, outVars, IInv, TypeOK
  <2>2. CASE AsyncOpFailure(id)
    BY Zenon, <2>2, <1>1 DEF AsyncOpFailure, RetriedWithParent, outVars, IInv, TypeOK
  <2> QED BY Zenon, <2>1, <2>2
<1>3. Nodes' = Nodes /\ Reported' = Reported
  BY SMTT(30), <1>1, <1>2 DEF Nodes, Reported
<1>4. \A c \in Nodes : parent[c] # Nil => parent[c] \in Nodes
  BY Zenon DEF IInv, TypeOK, ParentsPresent, ClosedUnderParent
<1>5. TypeOK'
  <2>1. /\ state' \in [Blocks -> States] /\ opId' \in [Blocks -> Nat]
        /\ timeout' \in [Blocks -> Nat] /\ inFlight' \subseteq Nat
        /\ sameAsParent' \in [Blocks -> BOOLEAN]
    <3>1. CASE AsyncOpFinished(id)
      BY Zenon, <3>1 DEF IInv, TypeOK, States, AsyncOpFinished
    <3>2. CASE AsyncOpFailure(id)
      <4>1. now + RetryAfterFailed \in Nat
        BY SMTT(30), AsyncTreeAssumption DEF IInv, TypeOK
      <4>2. sameAsParent' \in [Blocks -> BOOLEAN]
        <5>1. \A c \in Blocks : sameAsParent[c] \in BOOLEAN
          BY Zenon DEF IInv, TypeOK
        <5>2. sameAsParent' = [c \in Blocks |-> IF c \in mine THEN parent[c] \in mine
                                                             ELSE sameAsParent[c]]
          BY Zenon, <3>2 DEF AsyncOpFailure, RetriedWithParent
        <5> HIDE DEF mine
        <5>3. ASSUME NEW c \in Blocks
              PROVE  (IF c \in mine THEN parent[c] \in mine ELSE sameAsParent[c]) \in BOOLEAN
          <6>1. CASE c \in mine
            BY <6>1
          <6>2. CASE c \notin mine
            BY Zenon, <5>1, <6>2
          <6> QED BY <6>1, <6>2
        <5> QED BY <5>2, <5>3
      <4> QED BY Zenon, <3>2, <4>1, <4>2 DEF IInv, TypeOK, States, AsyncOpFailure
    <3> QED BY <3>1, <3>2
  <2> QED BY <1>2, <1>3, <2>1 DEF IInv, TypeOK
<1>6. Acyclic(Nodes, parent)'
  BY Zenon, <1>2, <1>3 DEF IInv
<1>7. InputBestBelowFinalized'
  BY Zenon, <1>2, <1>3 DEF InputBestBelowFinalized, Anc, IInv
<1>8. ReportedClosed' /\ OutputBestReported'
  BY Zenon, <1>2, <1>3 DEF IInv, ReportedClosed, OutputBestReported
<1>9. SameAsParentPending'
  <2>1. SUFFICES ASSUME NEW c \in Nodes, state'[c] = "pending", sameAsParent'[c]
                 PROVE  parent'[c] # Nil /\ state'[parent'[c]] = "pending"
    BY Zenon, <1>3 DEF SameAsParentPending
  <2>2. CASE c \in mine
    <3>1. parent[c] \in mine /\ \A d \in mine : state'[d] = "pending"
      BY Zenon, <1>2, <2>1, <2>2
    <3> QED BY Zenon, <1>1, <1>2, <3>1
  <2>3. CASE c \notin mine
    <3>1. state[c] = "pending" /\ sameAsParent[c]
      BY Zenon, <1>2, <2>1, <2>3
    <3>2. parent[c] # Nil /\ parent[c] \in Nodes /\ state[parent[c]] = "pending"
      BY Zenon, <1>4, <3>1 DEF IInv, SameAsParentPending
    <3> QED BY Zenon, <1>1, <1>2, <3>2
  <2> QED BY Zenon, <2>2, <2>3
<1>10. WeightsDistinct'
  BY Zenon, <1>2, <1>3 DEF IInv, WeightsDistinct
<1>11. SharedLifecycle'
  <2>1. SUFFICES ASSUME NEW c \in Nodes, wantsSame[c] PROVE SharedWithParent(c)'
    BY <1>2, <1>3 DEF SharedLifecycle
  <2>2. SharedWithParent(c)
    BY Zenon, <2>1 DEF IInv, SharedLifecycle
  <2>3. CASE c \in mine
    <3>1. parent[c] # Nil /\ parent[c] \in mine
      BY <1>1, <1>4, <2>2, <2>3 DEF SharedWithParent
    <3> QED BY Zenon, <1>2, <2>3, <3>1 DEF SharedWithParent
  <2>4. CASE c \notin mine
    <3>1. parent[c] \notin mine
      BY Zenon, <1>1, <2>2, <2>4 DEF SharedWithParent
    <3>2. state'[c] = state[c] /\ opId'[c] = opId[c] /\ sameAsParent'[c] = sameAsParent[c]
      BY Zenon, <1>2, <2>4
    <3>3. parent[c] # Nil => state'[parent[c]] = state[parent[c]]
                             /\ opId'[parent[c]] = opId[parent[c]]
      BY Zenon, <1>2, <1>4, <3>1
    <3> QED BY Zenon, <1>2, <2>2, <3>2, <3>3 DEF SharedWithParent
  <2> QED BY Zenon, <2>3, <2>4
<1>12. InProgressAwaited'
  BY <1>1, <1>2, <1>3 DEF IInv, InProgressAwaited
<1> QED BY <1>5, <1>6, <1>7, <1>8, <1>9, <1>10, <1>11, <1>12 DEF IInv

(* Reporting a block and moving the output best block preserve the          *)
(* invariant.                                                               *)
LEMMA ReportIInv ==
    ASSUME IInv, NEW b \in Blocks, AdvanceReport(b) \/ AdvanceBest
    PROVE  IInv'
<1> USE NodesAreBlocks, NilAssumption
<1>1. \A c \in Nodes : parent[c] # Nil => parent[c] \in Nodes
  BY DEF IInv, TypeOK, ParentsPresent, ClosedUnderParent
<1>2. CASE AdvanceReport(b)
  <2>1. /\ state[b] = "finished" /\ b \in Nodes
        /\ parent[b] # Nil => state[parent[b]] = "reported"
        /\ state' = [state EXCEPT ![b] = "reported"]
        /\ bestBlock' \in {b, bestBlock}
        /\ UNCHANGED <<parent, sameAsParent, timeout, opId, weight, inputFinalized,
                       finalizedWeight, finalizedData, now, inputBest, inFlight,
                       wantsSame, nextWeight, nextOpId>>
    BY Zenon, <1>2 DEF AdvanceReport, CanReport, envVars, Nodes
  <2>2. /\ Nodes' = Nodes /\ Reported' = Reported \cup {b}
        /\ \A c \in Blocks : state'[c] = IF c = b THEN "reported" ELSE state[c]
    BY SMTT(30), <2>1 DEF Nodes, Reported, IInv, TypeOK
  <2>3. TypeOK'
    BY Zenon, <2>1, <2>2 DEF IInv, TypeOK, States
  <2>4. Acyclic(Nodes, parent)' /\ InputBestBelowFinalized' /\ WeightsDistinct'
    BY Zenon, <2>1, <2>2 DEF IInv, InputBestBelowFinalized, Anc, WeightsDistinct
  <2>5. ReportedClosed' /\ OutputBestReported'
    BY Zenon, <1>1, <2>1, <2>2 DEF IInv, ReportedClosed, OutputBestReported, Reported
  <2>6. SameAsParentPending' /\ InProgressAwaited'
    BY SMTT(30), <2>1, <2>2, <1>1 DEF IInv, SameAsParentPending, InProgressAwaited
  <2>7. SharedLifecycle'
    BY <2>1, <2>2, <1>1 DEF IInv, SharedLifecycle, SharedWithParent
  <2> QED BY Zenon, <2>3, <2>4, <2>5, <2>6, <2>7 DEF IInv
<1>3. CASE AdvanceBest
  <2>1. /\ UNCHANGED <<parent, state, sameAsParent, timeout, opId, weight, inputFinalized,
                       finalizedWeight, finalizedData, now, inputBest, inFlight,
                       wantsSame, nextWeight, nextOpId>>
        /\ bestBlock' \in Reported
    BY Zenon, <1>3 DEF AdvanceBest, BestAfterScan, Heaviest, HeavierReported, Nodes, Reported,
                treeVars, envVars
  <2>2. Nodes' = Nodes /\ Reported' = Reported /\ Reported \subseteq Blocks
    BY Zenon, <2>1 DEF Nodes, Reported
  <2>3. TypeOK'
    BY Zenon, <2>1, <2>2 DEF IInv, TypeOK
  <2>4. Acyclic(Nodes, parent)' /\ InputBestBelowFinalized' /\ WeightsDistinct'
    BY Zenon, <2>1, <2>2 DEF IInv, InputBestBelowFinalized, Anc, WeightsDistinct
  <2>5. /\ ReportedClosed' /\ OutputBestReported' /\ SameAsParentPending'
        /\ InProgressAwaited'
    BY Zenon, <2>1, <2>2 DEF IInv, ReportedClosed, OutputBestReported, SameAsParentPending,
                      InProgressAwaited
  <2>6. SharedLifecycle'
    BY Zenon, <2>1, <2>2 DEF IInv, SharedLifecycle, SharedWithParent
  <2> QED BY Zenon, <2>3, <2>4, <2>5, <2>6 DEF IInv
<1> QED BY Zenon, <1>2, <1>3
(* What finalizing n in the output keeps and forgets. *)
LEMMA FinalizedFacts ==
    ASSUME IInv, NEW n \in Blocks, AdvanceFinalized(n)
    PROVE  LET kept == KeptByPrune(n, Nodes, parent) IN
           /\ n \in Nodes /\ parent[n] = Nil /\ state[n] = "reported"
           /\ inputFinalized # Nil /\ n \in Anc(inputFinalized)
           /\ kept \subseteq Nodes \ {n}
           /\ Nodes' = kept /\ Reported' = Reported \cap kept
           /\ \A c \in kept :
                /\ state'[c] = state[c] /\ opId'[c] = opId[c] /\ weight'[c] = weight[c]
                /\ sameAsParent'[c] = sameAsParent[c] /\ wantsSame'[c] = wantsSame[c]
                /\ parent'[c] = (IF parent[c] = n THEN Nil ELSE parent[c])
                /\ parent[c] # Nil
                /\ parent[c] # n => parent[c] \in kept
<1> USE NodesAreBlocks, NilAssumption
<1> DEFINE kept == KeptByPrune(n, Nodes, parent)
<1>1. /\ parent[n] = Nil /\ state[n] = "reported" /\ n \in Nodes
      /\ inputFinalized # Nil /\ n \in Anc(inputFinalized)
  BY Zenon DEF AdvanceFinalized, CanFinalize, Nodes
<1>2. kept \subseteq Nodes \ {n}
  BY Zenon DEF KeptByPrune
<1>3. /\ \A c \in kept : state'[c] = state[c] /\ opId'[c] = opId[c] /\ weight'[c] = weight[c]
      /\ \A c \in Nodes \ kept : state'[c] = "gone"
      /\ \A c \in Blocks \ Nodes : state'[c] = state[c]
  BY Zenon, <1>2 DEF AdvanceFinalized
<1>4. \A c \in kept : sameAsParent'[c] = sameAsParent[c] /\ wantsSame'[c] = wantsSame[c]
  <2>1. \A c \in Blocks : sameAsParent[c] \in BOOLEAN /\ wantsSame[c] \in BOOLEAN
    BY Zenon DEF IInv, TypeOK
  <2>2. /\ sameAsParent' = [c \in Blocks |-> c \in kept /\ sameAsParent[c]]
        /\ wantsSame' = [c \in Blocks |-> c \in kept /\ wantsSame[c]]
    BY Zenon DEF AdvanceFinalized
  <2> HIDE DEF kept
  <2> QED BY <1>2, <2>1, <2>2
<1>5. Nodes' = kept /\ Reported' = Reported \cap kept
  BY Zenon, <1>2, <1>3 DEF Nodes, Reported
<1>6. ASSUME NEW c \in kept
      PROVE  /\ parent'[c] = IF parent[c] = n THEN Nil ELSE parent[c]
             /\ parent[c] # Nil
             /\ parent[c] # n => parent[c] \in kept
  <2>1. parent'[c] = IF parent[c] = n THEN Nil ELSE parent[c]
    BY Zenon, <1>2 DEF AdvanceFinalized, ParentAfterPrune
  <2>2. ParentsPresent(Nodes, parent) /\ Nodes \in SUBSET Blocks
    BY Zenon DEF IInv, TypeOK
  <2>3. parent[c] # Nil
    BY Zenon, <1>1, <1>2, <2>2, AncestorStep DEF KeptByPrune, IsAncestor
  <2>4. ParentsPresent(kept, ParentAfterPrune(n, Nodes, parent))
    BY <1>1, <2>2, PruneParentsPresent
  <2> QED BY Zenon, <1>2, <2>1, <2>3, <2>4
          DEF AdvanceFinalized, ParentsPresent, ClosedUnderParent
<1> QED BY Zenon, <1>1, <1>2, <1>3, <1>4, <1>5, <1>6

(* The output best block chosen after a finalization is a reported block    *)
(* that is kept, or the finalized block.                                    *)
LEMMA FinalizedBest ==
    ASSUME IInv, NEW n \in Blocks, AdvanceFinalized(n)
    PROVE  /\ bestBlock' \in Reported' \cup {Nil}
           /\ bestBlock \in Reported' => bestBlock' # Nil
<1> USE NodesAreBlocks, NilAssumption
<1> DEFINE kept == KeptByPrune(n, Nodes, parent)
           best1 == IF bestBlock \in kept THEN bestBlock ELSE Nil
           current == OutputWeight(best1, weight[n])
           heavier == HeavierReported(kept, current)
<1>1. bestBlock' \in BestAfterScan(kept, best1, current)
  BY Zenon DEF AdvanceFinalized
<1>2. bestBlock' = best1 \/ bestBlock' \in heavier
  BY Zenon, <1>1 DEF BestAfterScan, Heaviest
<1>3. kept \subseteq Nodes \ {n} /\ Reported' = Reported \cap kept
  BY Zenon, FinalizedFacts
<1>4. heavier \subseteq Reported \cap kept
  BY <1>3 DEF HeavierReported, Reported
<1>5. best1 # Nil => best1 \in Reported \cap kept
  BY Zenon DEF IInv, OutputBestReported
<1> HIDE DEF kept, heavier
<1> QED BY Zenon, <1>2, <1>3, <1>4, <1>5

(* Finalizing a block in the output preserves the invariant. *)
LEMMA FinalizedIInv ==
    ASSUME IInv, NEW n \in Blocks, AdvanceFinalized(n)
    PROVE  IInv'
<1> USE NodesAreBlocks, NilAssumption
<1> DEFINE kept == KeptByPrune(n, Nodes, parent)
<1>1. /\ n \in Nodes /\ parent[n] = Nil /\ state[n] = "reported"
      /\ inputFinalized # Nil /\ n \in Anc(inputFinalized)
      /\ kept \subseteq Nodes \ {n} /\ kept \subseteq Blocks
      /\ Nodes' = kept /\ Reported' = Reported \cap kept
  BY Zenon, FinalizedFacts
<1>2. \A c \in kept :
        /\ state'[c] = state[c] /\ opId'[c] = opId[c] /\ weight'[c] = weight[c]
        /\ sameAsParent'[c] = sameAsParent[c] /\ wantsSame'[c] = wantsSame[c]
        /\ parent'[c] = (IF parent[c] = n THEN Nil ELSE parent[c])
        /\ parent[c] # Nil
        /\ parent[c] # n => parent[c] \in kept
  BY Zenon, FinalizedFacts
<1>3. /\ inputFinalized' = IF inputFinalized = n THEN Nil ELSE inputFinalized
      /\ inputBest' = IF inputBest = n THEN Nil ELSE inputBest
      /\ finalizedWeight' = weight[n] /\ finalizedData' = opId[n]
      /\ parent' = ParentAfterPrune(n, Nodes, parent)
      /\ UNCHANGED <<nextWeight, nextOpId, now, inFlight>>
  BY Zenon DEF AdvanceFinalized
<1>4. /\ inputFinalized \in kept \cup {n}
      /\ inputBest \in kept \cup {n}
      /\ inputFinalized \in Anc(inputBest)
  <2>1. inputBest \in Nodes /\ inputFinalized \in Nodes /\ inputFinalized \in Anc(inputBest)
    BY Zenon, <1>1 DEF IInv, TypeOK, InputBestBelowFinalized
  <2>2. n \in Anc(inputBest)
    BY Zenon, <1>1, <2>1, AncestorTransitive DEF Anc
  <2> QED BY Zenon, <1>1, <2>1, <2>2 DEF KeptByPrune, IsAncestor, Anc
<1>5. /\ Nodes \in SUBSET Blocks /\ ParentsPresent(Nodes, parent) /\ Acyclic(Nodes, parent)
      /\ Nil \notin Blocks
  BY Zenon DEF IInv, TypeOK
<1>6. TypeOK'
  <2>1. ParentsPresent(Nodes, parent)'
    BY Zenon, <1>1, <1>3, <1>5, PruneParentsPresent
  <2>2. /\ parent' \in [Blocks -> Blocks \cup {Nil}]
        /\ state' \in [Blocks -> States] /\ timeout' \in [Blocks -> Nat]
        /\ opId' \in [Blocks -> Nat] /\ weight' \in [Blocks -> Nat]
    <3>1. parent' \in [Blocks -> Blocks \cup {Nil}]
      BY Zenon, <1>3 DEF ParentAfterPrune, IInv, TypeOK
    <3> HIDE DEF kept
    <3>2. /\ state' = [c \in Blocks |-> IF c \in Nodes \ kept THEN "gone" ELSE state[c]]
          /\ timeout' = [c \in Blocks |-> IF c \in kept THEN timeout[c] ELSE 0]
          /\ opId' = [c \in Blocks |-> IF c \in kept THEN opId[c] ELSE 0]
          /\ weight' = [c \in Blocks |-> IF c \in kept THEN weight[c] ELSE 0]
      BY Zenon DEF AdvanceFinalized, kept
    <3> QED BY Zenon, <3>1, <3>2 DEF IInv, TypeOK, States
  <2>3. sameAsParent' \in [Blocks -> BOOLEAN] /\ wantsSame' \in [Blocks -> BOOLEAN]
    BY Zenon DEF AdvanceFinalized
  <2>4. bestBlock' \in Blocks \cup {Nil}
    BY <1>1, FinalizedBest
  <2>5. finalizedWeight' \in Nat /\ finalizedData' \in Nat
    BY Zenon, <1>3 DEF IInv, TypeOK
  <2> HIDE DEF kept
  <2> QED BY Zenon, <1>1, <1>3, <1>4, <2>1, <2>2, <2>3, <2>4, <2>5 DEF IInv, TypeOK
<1>7. Acyclic(Nodes, parent)'
  BY Zenon, <1>1, <1>3, <1>5, AcyclicPrune
<1>8. InputBestBelowFinalized'
  <2>1. SUFFICES ASSUME inputFinalized # n
                 PROVE  inputBest # n /\ (inputFinalized \in Anc(inputBest))'
    <3> HIDE DEF kept
    <3> QED BY Zenon, <1>1, <1>3, <1>4 DEF InputBestBelowFinalized
  <2>2. inputBest # n
    \* the only ancestor of the root n is n itself
    BY Zenon, <1>1, <1>4, <1>5, <2>1, AncestorStep DEF Anc
  <2>3. inputFinalized \in AncestorsOf(inputBest, kept, ParentAfterPrune(n, Nodes, parent))
    BY Zenon, <1>1, <1>4, <1>5, <2>1, <2>2, AncestorPrune DEF Anc
  <2> QED BY Zenon, <1>1, <1>3, <2>1, <2>2, <2>3 DEF Anc
<1>9. ReportedClosed' /\ OutputBestReported'
  <2>1. OutputBestReported'
    BY Zenon, FinalizedBest DEF OutputBestReported
  <2>2. ReportedClosed'
    <3> HIDE DEF kept
    <3> QED BY Zenon, <1>1, <1>2 DEF IInv, ReportedClosed
  <2> QED BY <2>1, <2>2
<1> HIDE DEF kept
<1>10. SameAsParentPending'
  BY SMTT(30), <1>1, <1>2 DEF IInv, SameAsParentPending
<1>11. WeightsDistinct'
  <2>1. /\ nextWeight \in Nat /\ \A c \in Nodes : weight[c] \in Nat /\ weight[c] < nextWeight
        /\ \A c, d \in Nodes : c # d /\ weight[c] = weight[d] => weight[c] = 0
    BY Zenon DEF IInv, WeightsDistinct, TypeOK
  <2>2. \A c \in Nodes' : c \in Nodes /\ c # n /\ weight'[c] = weight[c]
    BY Zenon, <1>1, <1>2
  <2> QED BY SMTT(30), <1>1, <1>3, <2>1, <2>2 DEF WeightsDistinct
<1>12. SharedLifecycle'
  <2>1. SUFFICES ASSUME NEW c \in kept, wantsSame[c] PROVE SharedWithParent(c)'
    BY Zenon, <1>1, <1>2 DEF SharedLifecycle
  <2>2. SharedWithParent(c)
    BY Zenon, <1>1, <2>1 DEF IInv, SharedLifecycle
  <2> QED BY SMTT(30), <1>1, <1>2, <1>3, <2>2 DEF SharedWithParent
<1>13. InProgressAwaited'
  BY Zenon, <1>1, <1>2, <1>3 DEF IInv, InProgressAwaited
<1> QED BY <1>6, <1>7, <1>8, <1>9, <1>10, <1>11, <1>12, <1>13 DEF IInv
(* Every step preserves the invariant. *)
LEMMA NextIInv == IInv /\ [Next]_vars => IInv'
<1> SUFFICES ASSUME IInv, [Next]_vars PROVE IInv'
  OBVIOUS
<1>1. CASE Input
  BY Zenon, <1>1, InsertIInv, BestIInv DEF Input
<1>2. CASE StartOp
  BY <1>2, StartIInv DEF StartOp
<1>3. CASE \E id \in inFlight : AsyncOpFinished(id) \/ AsyncOpFailure(id)
  BY <1>3, AnswerIInv
<1>4. CASE Tick \/ UNCHANGED vars
  <2>1. /\ UNCHANGED <<treeVars, outVars, nextWeight, nextOpId, inputBest, inFlight, wantsSame>>
        /\ now' \in Nat
    BY <1>4 DEF Tick, vars, envVars, IInv, TypeOK
  <2>2. Nodes' = Nodes /\ Reported' = Reported
    BY Zenon, <2>1 DEF treeVars, Nodes, Reported
  <2>3. TypeOK' /\ Acyclic(Nodes, parent)' /\ InputBestBelowFinalized'
    BY Zenon, <2>1, <2>2 DEF treeVars, outVars, IInv, TypeOK, InputBestBelowFinalized, Anc
  <2>4. /\ ReportedClosed' /\ OutputBestReported' /\ SameAsParentPending'
        /\ WeightsDistinct' /\ InProgressAwaited'
    BY Zenon, <2>1, <2>2 DEF treeVars, outVars, IInv, ReportedClosed, OutputBestReported,
                      SameAsParentPending, WeightsDistinct, InProgressAwaited
  <2>5. SharedLifecycle'
    BY Zenon, <2>1, <2>2 DEF treeVars, outVars, IInv, SharedLifecycle, SharedWithParent
  <2> QED BY <2>3, <2>4, <2>5 DEF IInv
<1>5. CASE Advance
  <2>1. AdvanceBest => \E b \in Blocks : TRUE
    BY Zenon DEF AdvanceBest, HeavierReported, Nodes
  <2> QED BY Zenon, <1>5, <2>1, FinalizedIInv, ReportIInv DEF Advance
<1> QED BY <1>1, <1>2, <1>3, <1>4, <1>5 DEF Next

(* The invariant holds in every reachable state of AsyncTree. *)
THEOREM Invariance == Spec => []IInv
  BY InitIInv, NextIInv, PTL DEF Spec

(* Indices kept in and next to the tree always denote nodes of the tree. *)
THEOREM TypeCorrect == Spec => []TypeOK
<1>1. IInv => TypeOK
  BY DEF IInv
<1> QED BY Invariance, <1>1, PTL

(* A block is never reported before its parent, and the output best block   *)
(* is always one that has been reported.                                    *)
THEOREM OutputWellFormed == Spec => [](ReportedClosed /\ OutputBestReported)
<1>1. IInv => ReportedClosed /\ OutputBestReported
  BY DEF IInv
<1> QED BY Invariance, <1>1, PTL

(* A block that shares the operation of its parent is always at the same    *)
(* point of its life as the parent, and is never left pending behind it.    *)
THEOREM SharingCorrect == Spec => [](SharedLifecycle /\ SameAsParentPending)
<1>1. IInv => SharedLifecycle /\ SameAsParentPending
  BY DEF IInv
<1> QED BY Invariance, <1>1, PTL

(* A block in progress always has an operation that will be answered. *)
THEOREM NobodyForgotten == Spec => []InProgressAwaited
<1>1. IInv => InProgressAwaited
  BY DEF IInv
<1> QED BY Invariance, <1>1, PTL

(* The debug_assert!s on the weights never fail. *)
THEOREM WeightsUnique == Spec => []WeightsDistinct
<1>1. IInv => WeightsDistinct
  BY Zenon DEF IInv
<1> QED BY Invariance, <1>1, PTL
(***************************************************************************)
(* The updates of try_advance_output implement OutputChain.                *)
(***************************************************************************)
KnownParent == [b \in Blocks |-> IF b \in Reported THEN parent[b] ELSE Nil]

(* Steps that leave the reported blocks alone are invisible to a consumer. *)
LEMMA Invisible ==
    ASSUME Reported' = Reported, \A b \in Reported : parent'[b] = parent[b],
           bestBlock' = bestBlock
    PROVE  UNCHANGED Output!vars
<1>1. KnownParent' = KnownParent
  BY Zenon DEF KnownParent
<1> QED BY Zenon, <1>1 DEF Output!vars, KnownParent

(* Among reported blocks, being an ancestor in the tree and in the eyes of  *)
(* a consumer are the same.                                                 *)
LEMMA SameAncestors ==
    ASSUME IInv, NEW b \in Reported, NEW a \in Reported
    PROVE  a \in Anc(b) <=> a \in AncestorsOf(b, Reported, KnownParent)
<1>1. Reported \subseteq Nodes /\ Reported \subseteq Blocks
  BY DEF Reported, Nodes
<1>2. \A x \in Reported : KnownParent[x] = parent[x]
  BY Zenon, <1>1 DEF KnownParent
<1>3. ASSUME a \in Anc(b), NEW S \in SUBSET Reported, b \in S,
             ClosedUnderParent(S, KnownParent)
      PROVE  a \in S
  <2>1. S \in SUBSET Nodes /\ ClosedUnderParent(S, parent)
    BY <1>1, <1>2, <1>3 DEF ClosedUnderParent
  <2> QED BY <1>3, <2>1 DEF Anc, AncestorsOf
<1>4. ASSUME a \in AncestorsOf(b, Reported, KnownParent),
             NEW S \in SUBSET Nodes, b \in S, ClosedUnderParent(S, parent)
      PROVE  a \in S
  <2>1. ClosedUnderParent(S \cap Reported, KnownParent)
    BY <1>1, <1>2, <1>4 DEF ClosedUnderParent, IInv, ReportedClosed
  <2>2. S \cap Reported \in SUBSET Reported /\ b \in S \cap Reported
    BY Zenon, <1>4
  <2> QED BY Zenon, <1>4, <2>1, <2>2 DEF AncestorsOf
<1> QED BY Zenon, <1>1, <1>3, <1>4 DEF Anc, AncestorsOf

(* OutputUpdate::Block. *)
LEMMA ReportRefines ==
    ASSUME IInv, NEW b \in Blocks, AdvanceReport(b), NEW p \in Blocks \cup {Nil},
           p = parent[b]
    PROVE  Output!Block(b, p)
<1>1. /\ state[b] = "finished" /\ state' = [state EXCEPT ![b] = "reported"]
      /\ parent[b] # Nil => state[parent[b]] = "reported"
      /\ parent' = parent /\ bestBlock' \in {bestBlock, b}
  BY Zenon DEF AdvanceReport, CanReport
<1>2. b \notin Reported /\ Reported' = Reported \cup {b}
  BY Zenon, <1>1 DEF Reported, IInv, TypeOK
<1>3. parent[b] \in Reported \cup {Nil}
  BY <1>1 DEF Reported, IInv, TypeOK
<1>4. KnownParent' = [KnownParent EXCEPT ![b] = parent[b]]
  BY Zenon, <1>1, <1>2 DEF KnownParent
<1> QED BY Zenon, <1>1, <1>2, <1>3, <1>4 DEF Output!Block, KnownParent

(* OutputUpdate::Finalized. *)
LEMMA FinalizedRefines ==
    ASSUME IInv, NEW n \in Blocks, AdvanceFinalized(n)
    PROVE  Output!Finalized(n)
<1> USE NodesAreBlocks, NilAssumption
<1> DEFINE kept == KeptByPrune(n, Nodes, parent)
           keptKnown == KeptByPrune(n, Reported, KnownParent)
<1>1. /\ n \in Nodes /\ parent[n] = Nil /\ n \in Reported
      /\ kept \subseteq Nodes \ {n} /\ Reported' = Reported \cap kept
  BY Zenon, FinalizedFacts DEF Reported
<1>2. \A c \in kept : parent'[c] = IF parent[c] = n THEN Nil ELSE parent[c]
  BY Zenon, FinalizedFacts
<1>3. keptKnown = Reported \cap kept
  <2>1. Reported \subseteq Nodes
    BY Zenon DEF Reported, Nodes
  <2> QED BY <1>1, <2>1, SameAncestors DEF KeptByPrune, IsAncestor, Anc
<1>4. KnownParent[n] = Nil
  BY Zenon, <1>1 DEF KnownParent
<1>5. KnownParent' = ParentAfterPrune(n, Reported, KnownParent)
  <2>1. SUFFICES ASSUME NEW c \in Blocks
                 PROVE  KnownParent'[c] = ParentAfterPrune(n, Reported, KnownParent)[c]
    BY Zenon DEF KnownParent, ParentAfterPrune
  <2> HIDE DEF kept, keptKnown
  <2>2. ParentAfterPrune(n, Reported, KnownParent)[c] =
          IF c \in keptKnown /\ KnownParent[c] # n THEN KnownParent[c] ELSE Nil
    BY DEF ParentAfterPrune, keptKnown
  <2> QED BY Zenon, <1>1, <1>2, <1>3, <2>2 DEF KnownParent
<1>6. bestBlock' \in Reported' \cup {Nil} /\ (bestBlock \in Reported' => bestBlock' # Nil)
  BY Zenon, FinalizedBest
<1>7. keptKnown = Output!KeptByPrune(n, Reported, KnownParent)
  BY Zenon DEF KeptByPrune, IsAncestor, AncestorsOf, ClosedUnderParent, Output!KeptByPrune,
         Output!IsAncestor, Output!AncestorsOf, Output!ClosedUnderParent
<1>8. ParentAfterPrune(n, Reported, KnownParent)
        = Output!ParentAfterPrune(n, Reported, KnownParent)
  BY <1>7 DEF ParentAfterPrune, Output!ParentAfterPrune
<1> HIDE DEF kept, keptKnown
<1> QED BY Zenon, <1>1, <1>3, <1>4, <1>5, <1>6, <1>7, <1>8 DEF Output!Finalized, KnownParent

(* Every step of AsyncTree is a step of OutputChain or invisible. *)
LEMMA StepRefines == IInv /\ [Next]_vars => [Output!Next]_(Output!vars)
<1> SUFFICES ASSUME IInv, [Next]_vars PROVE [Output!Next]_(Output!vars)
  OBVIOUS
<1> USE NodesAreBlocks
<1>0. Reported \subseteq Nodes /\ Reported \subseteq Blocks
  BY DEF Reported, Nodes
<1>1. CASE Input
  <2>1. ASSUME NEW b \in Blocks, NEW p \in Blocks \cup {Nil},
               NEW same \in BOOLEAN, NEW isNewBest \in BOOLEAN,
               InsertBlock(b, p, same, isNewBest)
        PROVE  UNCHANGED Output!vars
    <3>1. state[b] = "absent" /\ p \in Nodes \cup {Nil} /\ bestBlock' = bestBlock
      BY <2>1 DEF InsertBlock, outVars
    <3>2. InsertedState(p, same) # "reported"
      BY <3>1 DEF InsertedState
    <3>3. Reported' = Reported /\ \A c \in Reported : parent'[c] = parent[c]
      BY <2>1, <3>1, <3>2 DEF InsertBlock, Reported, IInv, TypeOK
    <3> QED BY <3>1, <3>3, Invisible
  <2>2. ASSUME NEW b \in Blocks, NEW n \in Blocks, SetBestBlock(b) \/ Finalize(n, b)
        PROVE  UNCHANGED Output!vars
    <3>1. Reported' = Reported /\ parent' = parent /\ bestBlock' = bestBlock
      BY <2>2 DEF SetBestBlock, Finalize, outVars, Reported
    <3> QED BY Zenon, <3>1, Invisible
  <2> QED BY Zenon, <1>1, <2>1, <2>2 DEF Input
<1>2. CASE StartOp
  <2>1. PICK b \in Blocks : NextNecessaryAsyncOp(b)
    BY Zenon, <1>2 DEF StartOp
  <2>2. b \in Nodes /\ state[b] = "pending"
    BY Zenon, <2>1 DEF NextNecessaryAsyncOp, Startable
  <2>3. \A c \in SharedOp(b) : state[c] = "pending"
    BY Zenon, <2>2, SharedOpFacts
  <2>4. Reported' = Reported /\ parent' = parent /\ bestBlock' = bestBlock
    BY Zenon, <2>1, <2>3 DEF NextNecessaryAsyncOp, Reported, outVars
  <2> QED BY <2>4, Invisible
<1>3. CASE \E id \in inFlight : AsyncOpFinished(id) \/ AsyncOpFailure(id)
  <2>1. Reported' = Reported /\ parent' = parent /\ bestBlock' = bestBlock
    BY <1>3 DEF AsyncOpFinished, AsyncOpFailure, Performing, Reported, outVars
  <2> QED BY Zenon, <2>1, Invisible
<1>4. CASE Tick \/ UNCHANGED vars
  <2>1. Reported' = Reported /\ parent' = parent /\ bestBlock' = bestBlock
    BY <1>4 DEF Tick, vars, treeVars, outVars, Reported
  <2> QED BY <2>1, Invisible
<1>5. CASE \E n \in Blocks : AdvanceFinalized(n)
  BY <1>5, FinalizedRefines DEF Output!Next
<1>6. ASSUME NEW b \in Blocks, AdvanceReport(b) PROVE Output!Next
  <2>1. PICK p \in Blocks \cup {Nil} : p = parent[b]
    BY Zenon DEF IInv, TypeOK
  <2>2. Output!Block(b, p)
    BY <1>6, <2>1, ReportRefines
  <2> QED BY <2>2 DEF Output!Next
<1>7. CASE AdvanceBest
  <2>1. /\ UNCHANGED <<parent, state>>
        /\ bestBlock' \in HeavierReported(Nodes, OutputWeight(bestBlock, finalizedWeight))
    BY <1>7 DEF AdvanceBest, treeVars, BestAfterScan, Heaviest
  <2>2. bestBlock' \in Reported
    BY Zenon, <2>1 DEF HeavierReported, Reported, Nodes
  <2>3. UNCHANGED <<Reported, KnownParent>>
    BY Zenon, <2>1 DEF Reported, KnownParent
  <2>4. CASE bestBlock' = bestBlock
    BY Zenon, <2>3, <2>4 DEF Output!vars, KnownParent
  <2>5. CASE bestBlock' # bestBlock
    BY <2>2, <2>3, <2>5 DEF Output!Next, Output!BestBlockChanged, KnownParent
  <2> QED BY <2>4, <2>5
<1>8. Next \/ UNCHANGED vars
  OBVIOUS
<1> QED BY <1>1, <1>2, <1>3, <1>4, <1>5, <1>6, <1>7, <1>8 DEF Next, Advance

(* What a consumer of try_advance_output sees is a behaviour of OutputChain: *)
(* every block after its parent, finalized one by one and without a gap,     *)
(* pruned exactly when it cannot be finalized any more.                      *)
THEOREM OutputRefinement == Spec => OutputSpec
<1>1. Init => Output!Init
  BY DEF Init, Output!Init, Reported
<1> QED BY <1>1, Invariance, StepRefines, PTL DEF Spec, OutputSpec, Output!Spec

-----------------------------------------------------------------------------
(* What the output converges to.                                           *)

(* input_best_block_next_weight is above every weight given so far, and the *)
(* block the input declared best last, or the output finalized block once   *)
(* that one is finalized, has been given the last one.                      *)
InputBestHeaviest ==
    /\ nextWeight >= 2
    /\ IF inputBest = Nil THEN finalizedWeight = nextWeight - 1
                          ELSE weight[inputBest] = nextWeight - 1

(* An input that declares only leaves of its tree best keeps its best block *)
(* a leaf; once it is finalized in the output, no block is left.            *)
InputBestChildless == InputBestIsLeaf => \A c \in Nodes : parent[c] # inputBest

BestInv == InputBestHeaviest /\ InputBestChildless

(* A new AsyncTree has no block. *)
LEMMA InitBestInv == Init => BestInv
<1> SUFFICES ASSUME Init PROVE BestInv
  OBVIOUS
<1>1. Nodes = {}
  BY DEF Init, Nodes
<1> QED BY <1>1 DEF Init, BestInv, InputBestHeaviest, InputBestChildless

(* input_insert_block: a block inserted under the best block is the new best. *)
LEMMA InsertBestInv ==
    ASSUME IInv, BestInv, NEW b \in Blocks, NEW p \in Blocks \cup {Nil},
           NEW same \in BOOLEAN, NEW isNewBest \in BOOLEAN,
           InsertBlock(b, p, same, isNewBest)
    PROVE  BestInv'
<1> USE NodesAreBlocks, NilAssumption
<1>1. /\ b \notin Nodes /\ p \in Nodes \cup {Nil}
      /\ parent' = [parent EXCEPT ![b] = p]
      /\ weight' = [weight EXCEPT ![b] = IF isNewBest THEN nextWeight ELSE 0]
      /\ nextWeight' = IF isNewBest THEN nextWeight + 1 ELSE nextWeight
      /\ inputBest' = IF isNewBest THEN b ELSE inputBest
      /\ finalizedWeight' = finalizedWeight
  BY Zenon DEF InsertBlock, outVars, Nodes
<1>2. InputBestIsLeaf /\ p = inputBest => isNewBest
  BY Zenon DEF InsertBlock
<1>3. /\ inputBest \in Nodes \cup {Nil} /\ nextWeight \in Nat
      /\ parent \in [Blocks -> Blocks \cup {Nil}] /\ weight \in [Blocks -> Nat]
      /\ \A c \in Nodes : parent[c] # Nil => parent[c] \in Nodes
  BY Zenon DEF IInv, TypeOK, ParentsPresent, ClosedUnderParent
<1>4. Nodes' \subseteq Nodes \cup {b}
  <2>1. \A c \in Blocks : c # b => state'[c] = state[c]
    BY DEF InsertBlock
  <2> QED BY Zenon, <2>1 DEF Nodes
<1>5. InputBestHeaviest'
  BY <1>1, <1>3 DEF BestInv, InputBestHeaviest
<1>6. InputBestChildless'
  <2>1. SUFFICES ASSUME InputBestIsLeaf, NEW c \in Nodes \cup {b}
                 PROVE  parent'[c] # inputBest'
    BY Zenon, <1>4 DEF InputBestChildless
  <2>2. c \in Nodes => parent[c] # inputBest
    BY Zenon, <2>1 DEF BestInv, InputBestChildless
  <2>3. parent'[c] = IF c = b THEN p ELSE parent[c]
    BY <1>1, <1>3
  <2> QED BY Zenon, <1>1, <1>2, <1>3, <2>1, <2>2, <2>3
<1> QED BY Zenon, <1>5, <1>6 DEF BestInv

(* input_set_best_block and input_finalize give the new best block the last *)
(* weight, if it has not got it already.                                    *)
LEMMA SetBestInv ==
    ASSUME IInv, BestInv, NEW b \in Blocks,
           SetBestBlock(b) \/ \E n \in Blocks : Finalize(n, b)
    PROVE  BestInv'
<1> USE NodesAreBlocks, NilAssumption
<1>1. /\ b \in Nodes /\ MayBecomeBest(b) /\ BumpWeight(b) /\ inputBest' = b
      /\ parent' = parent /\ state' = state
  BY Zenon DEF SetBestBlock, Finalize
<1>2. Nodes' = Nodes /\ b # Nil
  BY Zenon, <1>1 DEF Nodes
<1>3. nextWeight \in Nat /\ weight \in [Blocks -> Nat]
  BY Zenon DEF IInv, TypeOK
<1>4. nextWeight >= 2
  BY Zenon DEF BestInv, InputBestHeaviest
<1>5. InputBestHeaviest'
  BY <1>1, <1>2, <1>3, <1>4 DEF BumpWeight, InputBestHeaviest
<1>6. InputBestChildless'
  BY Zenon, <1>1, <1>2 DEF InputBestChildless, MayBecomeBest
<1> QED BY Zenon, <1>5, <1>6 DEF BestInv

(* OutputUpdate::Finalized: the input's best block is kept, or finalized    *)
(* itself, and then nothing descends from it.                               *)
LEMMA FinalizedBestInv ==
    ASSUME IInv, BestInv, NEW n \in Blocks, AdvanceFinalized(n)
    PROVE  BestInv'
<1> USE NodesAreBlocks, NilAssumption
<1> DEFINE kept == KeptByPrune(n, Nodes, parent)
<1>1. /\ n \in Nodes /\ parent[n] = Nil /\ inputFinalized # Nil /\ n \in Anc(inputFinalized)
      /\ kept \subseteq Nodes \ {n} /\ Nodes' = kept
  BY Zenon, FinalizedFacts
<1>2. \A c \in kept : /\ weight'[c] = weight[c]
                      /\ parent'[c] = (IF parent[c] = n THEN Nil ELSE parent[c])
                      /\ parent[c] # Nil
                      /\ parent[c] # n => parent[c] \in kept
  BY Zenon, FinalizedFacts
<1>3. /\ inputBest' = IF inputBest = n THEN Nil ELSE inputBest
      /\ finalizedWeight' = weight[n] /\ nextWeight' = nextWeight
  BY Zenon DEF AdvanceFinalized
<1>4. inputBest \in kept \cup {n}
  <2>1. inputBest \in Nodes /\ inputFinalized \in Anc(inputBest)
    BY Zenon, <1>1 DEF IInv, TypeOK, InputBestBelowFinalized
  <2>2. n \in Anc(inputBest)
    BY Zenon, <1>1, <2>1, AncestorTransitive DEF Anc
  <2> QED BY Zenon, <1>1, <2>1, <2>2 DEF KeptByPrune, IsAncestor, Anc
<1>5. Acyclic(Nodes, parent)
  BY Zenon DEF IInv
<1> HIDE DEF kept
<1>6. InputBestHeaviest'
  <2>1. inputBest # Nil /\ n # Nil
    BY Zenon, <1>1, <1>4
  <2> QED BY <1>2, <1>3, <1>4, <2>1 DEF BestInv, InputBestHeaviest
<1>7. InputBestChildless'
  <2>1. SUFFICES ASSUME InputBestIsLeaf, NEW c \in kept PROVE parent'[c] # inputBest'
    BY Zenon, <1>1 DEF InputBestChildless
  <2>2. \A d \in kept : parent[d] # inputBest
    BY Zenon, <1>1, <2>1 DEF BestInv, InputBestChildless
  <2>3. CASE inputBest = n
    \* every node of kept would have its parent in kept
    <3>1. PICK x \in kept : parent[x] \notin kept
      BY Zenon, <1>1, <1>5, <2>1 DEF Acyclic
    <3> QED BY Zenon, <1>2, <2>2, <2>3, <3>1
  <2>4. CASE inputBest # n
    BY Zenon, <1>1, <1>2, <1>3, <1>4, <2>1, <2>2, <2>4
  <2> QED BY <2>3, <2>4
<1> QED BY Zenon, <1>6, <1>7 DEF BestInv

(* Every step keeps the input's best block the heaviest. *)
LEMMA NextBestInv == IInv /\ BestInv /\ [Next]_vars => BestInv'
<1> SUFFICES ASSUME IInv, BestInv, [Next]_vars PROVE BestInv'
  OBVIOUS
<1>1. CASE Input
  BY Zenon, <1>1, InsertBestInv, SetBestInv DEF Input
<1>2. CASE \E n \in Blocks : AdvanceFinalized(n)
  BY Zenon, <1>2, FinalizedBestInv
<1>3. ASSUME /\ UNCHANGED <<parent, weight, nextWeight, finalizedWeight, inputBest>>
             /\ Nodes' \subseteq Nodes
      PROVE  BestInv'
  BY Zenon, <1>3 DEF BestInv, InputBestHeaviest, InputBestChildless
<1>4. CASE StartOp
  <2>1. PICK b \in Blocks : NextNecessaryAsyncOp(b)
    BY Zenon, <1>4 DEF StartOp
  <2>2. SharedOp(b) \subseteq Nodes
    BY Zenon DEF SharedOp
  <2>3. Nodes' \subseteq Nodes
    <3>1. \A c \in Blocks \ SharedOp(b) : state'[c] = state[c]
      BY Zenon, <2>1 DEF NextNecessaryAsyncOp
    <3> QED BY Zenon, <2>2, <3>1 DEF Nodes
  <2> QED BY Zenon, <1>3, <2>1, <2>3 DEF NextNecessaryAsyncOp, outVars
<1>5. CASE \E id \in inFlight : AsyncOpFinished(id) \/ AsyncOpFailure(id)
  <2>1. PICK id \in inFlight : AsyncOpFinished(id) \/ AsyncOpFailure(id)
    BY Zenon, <1>5
  <2>2. Nodes' \subseteq Nodes
    <3>1. \A c \in Blocks \ Performing(id) : state'[c] = state[c]
      BY Zenon, <2>1 DEF AsyncOpFinished, AsyncOpFailure
    <3> QED BY Zenon, <3>1 DEF Nodes, Performing
  <2> QED BY Zenon, <1>3, <2>1, <2>2 DEF AsyncOpFinished, AsyncOpFailure, outVars
<1>6. CASE Tick \/ UNCHANGED vars
  BY Zenon, <1>3, <1>6 DEF Tick, vars, treeVars, outVars, envVars, Nodes
<1>7. CASE \E b \in Blocks : AdvanceReport(b)
  <2>1. PICK b \in Blocks : AdvanceReport(b)
    BY Zenon, <1>7
  <2>2. b \in Nodes /\ \A c \in Blocks \ {b} : state'[c] = state[c]
    BY <2>1 DEF AdvanceReport, CanReport, Nodes
  <2>3. Nodes' \subseteq Nodes
    BY Zenon, <2>2 DEF Nodes
  <2> QED BY Zenon, <1>3, <2>1, <2>3 DEF AdvanceReport, envVars
<1>8. CASE AdvanceBest
  BY Zenon, <1>3, <1>8 DEF AdvanceBest, treeVars, envVars, Nodes
<1> QED BY Zenon, <1>1, <1>2, <1>4, <1>5, <1>6, <1>7, <1>8 DEF Next, Advance

(* When try_advance_output has nothing to return and no operation is        *)
(* missing, the output has the blocks, the finalized block and the best     *)
(* block of the input.                                                      *)
LEMMA IdleConverged == InputBestIsLeaf /\ IInv /\ BestInv => ConvergedWhenIdle
<1> SUFFICES ASSUME InputBestIsLeaf, IInv, BestInv, NothingToAdvance,
                    \A b \in Nodes : state[b] \in {"finished", "reported"}
             PROVE  OutputCaughtUp
  BY DEF ConvergedWhenIdle
<1> USE NodesAreBlocks, NilAssumption
<1>1. /\ Acyclic(Nodes, parent) /\ ParentsPresent(Nodes, parent)
      /\ inputFinalized \in Nodes \cup {Nil} /\ inputBest \in Nodes \cup {Nil}
      /\ nextWeight \in Nat /\ finalizedWeight \in Nat
      /\ \A b \in Nodes : weight[b] \in Nat
  BY Zenon DEF IInv, TypeOK
<1>2. Nodes = Reported
  <2> DEFINE late == {b \in Nodes : state[b] = "finished"}
  <2>1. late = {}
    <3>1. SUFFICES ASSUME late # {} PROVE FALSE
      OBVIOUS
    <3>2. PICK x \in late : parent[x] \notin late
      BY Zenon, <1>1, <3>1 DEF Acyclic
    <3>3. parent[x] # Nil => parent[x] \in Nodes /\ state[parent[x]] = "reported"
      BY Zenon, <1>1, <3>2 DEF ParentsPresent, ClosedUnderParent
    <3> QED BY Zenon, <3>2, <3>3 DEF NothingToAdvance, CanReport
  <2> QED BY Zenon, <2>1 DEF Nodes, Reported
<1>3. inputFinalized = Nil
  <2>1. SUFFICES ASSUME inputFinalized # Nil PROVE FALSE
    OBVIOUS
  <2>2. inputFinalized \in Anc(inputFinalized) /\ Anc(inputFinalized) \in SUBSET Nodes
    BY Zenon, <1>1, <2>1, AncestorSelf DEF Anc, AncestorsOf
  <2>3. PICK n \in Anc(inputFinalized) : parent[n] \notin Anc(inputFinalized)
    BY Zenon, <1>1, <2>2 DEF Acyclic
  <2>4. parent[n] = Nil
    BY Zenon, <1>1, <2>3, AncestorParent DEF Anc
  <2> QED BY Zenon, <1>2, <2>1, <2>2, <2>3, <2>4 DEF NothingToAdvance, CanFinalize, Reported
<1>4. bestBlock = inputBest
  <2>1. bestBlock \in Nodes \cup {Nil}
    BY Zenon, <1>2 DEF IInv, OutputBestReported
  <2>2. CASE inputBest = Nil
    <3>1. Nodes = {}
      <4>1. SUFFICES ASSUME Nodes # {} PROVE FALSE
        OBVIOUS
      <4>2. PICK x \in Nodes : parent[x] \notin Nodes
        BY Zenon, <1>1, <4>1 DEF Acyclic
      <4> QED BY Zenon, <1>1, <2>2, <4>2
              DEF ParentsPresent, ClosedUnderParent, BestInv, InputBestChildless
    <3> QED BY Zenon, <2>1, <2>2, <3>1
  <2>3. CASE inputBest # Nil
    <3>1. inputBest \in Nodes /\ weight[inputBest] = nextWeight - 1 /\ nextWeight >= 2
      BY Zenon, <1>1, <2>3 DEF BestInv, InputBestHeaviest
    <3>2. ~(weight[inputBest] > OutputWeight(bestBlock, finalizedWeight))
      BY Zenon, <1>2, <3>1 DEF NothingToAdvance, HeavierReported, Reported
    <3>3. /\ finalizedWeight < nextWeight
          /\ weight[inputBest] # 0 => weight[inputBest] # finalizedWeight
          /\ bestBlock \in Nodes => weight[bestBlock] < nextWeight
          /\ bestBlock \in Nodes \ {inputBest} =>
               (weight[inputBest] = weight[bestBlock] => weight[inputBest] = 0)
      BY Zenon, <3>1 DEF IInv, WeightsDistinct
    <3> QED BY <1>1, <2>1, <3>1, <3>2, <3>3 DEF OutputWeight
  <2> QED BY <2>2, <2>3
<1> QED BY <1>2, <1>3, <1>4 DEF OutputCaughtUp

(* Whatever the order in which the operations finish, fail and are retried, *)
(* once try_advance_output has nothing left to return and no operation is   *)
(* missing, the output of async_tree.rs is its input: no block is left out, *)
(* none waits for its finalization, and the best block is the one the input *)
(* declared best last.  The input declares leaves of its tree best.         *)
THEOREM Convergence == InputBestIsLeaf => (Spec => []ConvergedWhenIdle)
<1>1. Init => BestInv
  BY InitBestInv
<1>2. IInv /\ IInv' /\ BestInv /\ [Next]_vars => BestInv'
  BY NextBestInv
<1>3. SUFFICES ASSUME InputBestIsLeaf PROVE Spec => []ConvergedWhenIdle
  OBVIOUS
<1>4. IInv /\ BestInv => ConvergedWhenIdle
  BY <1>3, IdleConverged
<1> QED BY Invariance, <1>1, <1>2, <1>4, PTL DEF Spec
=============================================================================
