---------------------------- MODULE Transactions ----------------------------
(***************************************************************************)
(* The transactions service of the light client                            *)
(* (bin/light-base/src/transactions_service.rs) and the pool it is built   *)
(* on, LightPool of transactions/light_pool.rs.                            *)
(*                                                                         *)
(* The pool follows a tree of blocks, knows the bodies that have been      *)
(* downloaded, and which transactions they include.  The service follows   *)
(* the runtime service, whose notifications are the actions on the chain,  *)
(* validates the transactions, downloads the bodies, announces, and        *)
(* reports the status of every transaction to whoever watches it.          *)
(*                                                                         *)
(* Everything is in one record: an iteration of the loop of the background *)
(* task is one event followed by the work at the start of the loop, which  *)
(* Settled computes.                                                       *)
(***************************************************************************)
EXTENDS Integers, FiniteSets, Sequences, SequencesExt

CONSTANTS LastBlock,       \* blocks are 1 .. LastBlock, 0 is the genesis
          Parents,         \* the shapes of the chain: the parent of each block, lower than it
          Body,            \* the transactions in its body
          LastTx,          \* transactions are 1 .. LastTx
          Watchers,        \* channels for status updates
          Longevities,     \* what a validation may tell
          MaxPending,      \* max_pending_transactions
          MaxDownloads, MaxValidations,
          MaxLag           \* finality lag that makes everything be reset

VARIABLE s

BlockSet == 1 .. LastBlock
Txs == 1 .. LastTx
None == [ok |-> FALSE, until |-> -1]      \* no validation
Unset == [st |-> "none", block |-> 0]
Included(b) == [st |-> "Included", block |-> b]
Retracted == [st |-> "Retracted", block |-> 0]
Dropped(why) == [st |-> why, block |-> 0]

\* Ancestry in the chain.
AncestorsIn[f \in Parents, b \in 0 .. LastBlock] ==
    IF b = 0 THEN {0} ELSE {b} \cup AncestorsIn[f, f[b]]
AncestorTable == [f \in Parents |-> [b \in 0 .. LastBlock |-> AncestorsIn[f, b]]]
ParentOf == s.shape
Ancestors(b) == AncestorTable[s.shape][b]
IsAncestor(a, b) == a \in Ancestors(b)
HeightOf(b) == Cardinality(Ancestors(b)) - 1

-----------------------------------------------------------------------------
(* The pool.                                                               *)

NewPool(root) ==
    [txs |-> {}, tree |-> {}, root |-> root, rootRel |-> 0, base |-> root,
     best |-> root, fin |-> root,
     rel |-> [b \in BlockSet |-> 0],
     body |-> [b \in BlockSet |-> "none"],
     incl |-> {},
     val |-> [t \in Txs |-> [b \in BlockSet |-> None]],
     bestVal |-> [t \in Txs |-> None], finVal |-> [t \in Txs |-> None]]

BestRel(p) == IF p.best = p.root THEN p.rootRel ELSE p.rel[p.best]

add_unvalidated(p, t) ==
    [p EXCEPT !.txs = @ \cup {t}, !.bestVal[t] = None, !.finVal[t] = None]

remove_transaction(p, t) ==
    [p EXCEPT !.txs = @ \ {t}, !.incl = {x \in @ : x[2] # t}, !.val[t] = [b \in BlockSet |-> None],
              !.bestVal[t] = None, !.finVal[t] = None]

unvalidated_transactions(p) ==
    {t \in p.txs : \/ p.bestVal[t] = None
                   \/ p.bestVal[t].ok /\ p.bestVal[t].until < BestRel(p)}

is_included_best_chain(p, t) == \E x \in p.incl : x[2] = t /\ p.best # p.root /\ IsAncestor(x[1], p.best)
is_valid_against_best_block(p, t) == p.bestVal[t].ok /\ p.bestVal[t].until >= BestRel(p)
invalid_transactions_finalized_block(p) == {t \in p.txs : p.finVal[t] # None /\ ~ p.finVal[t].ok}

\* longevity 0 stands for an error.
set_validation_result(p, t, b, longevity) ==
    LET result == [ok |-> longevity # 0, until |-> p.rel[b] + longevity] IN
    [p EXCEPT !.val[t][b] = result,
              !.bestVal[t] = IF p.best # p.root /\ IsAncestor(b, p.best) THEN result ELSE @,
              !.finVal[t] = IF p.fin # p.root /\ IsAncestor(b, p.fin) THEN result ELSE @]

add_block(p, b) ==
    IF b \in p.tree THEN p
    ELSE [p EXCEPT !.tree = @ \cup {b},
                   !.rel[b] = 1 + IF ParentOf[b] = p.root THEN p.rootRel ELSE p.rel[ParentOf[b]],
                   !.body[b] = IF p.txs = {} THEN "NotNeeded" ELSE "Needed"]

\* The blocks of the tree that leave and join the best chain.
PathTo(p, b) == IF b = p.root THEN {} ELSE Ancestors(b) \cap p.tree
Ascend(p, new) == PathTo(p, p.best) \ PathTo(p, new)
Descend(p, new) == PathTo(p, new) \ PathTo(p, p.best)
TxsIn(p, B) == {t \in p.txs : \E b \in B : <<b, t>> \in p.incl}

set_best_block(p, new) ==
    LET validated(t, B) == {b \in B : p.val[t][b] # None} IN
    [p EXCEPT !.best = new,
              !.bestVal = [t \in Txs |->
                  IF validated(t, Descend(p, new)) # {} THEN p.val[t][Max(validated(t, Descend(p, new)))]
                  ELSE IF validated(t, Ascend(p, new)) # {} THEN p.finVal[t] ELSE @[t]]]

\* A transaction found in a parent isn't counted again, and one found in a
\* child leaves the child.  Returns the transactions that have become
\* included in the best chain.
Fresh(p, b, t) == ~ \E x \in p.incl : x[2] = t /\ IsAncestor(x[1], b)
set_block_body(p, b) ==
    LET found == {t \in Body[b] \cap p.txs : Fresh(p, b, t)}
        below(t) == {x \in p.incl : x[2] = t /\ IsAncestor(b, x[1])}
        inBest(c) == p.best # p.root /\ IsAncestor(c, p.best)
    IN [pool |-> [p EXCEPT !.body[b] = "Known",
                           !.incl = (@ \ UNION {below(t) : t \in found}) \cup {<<b, t>> : t \in found}],
        now |-> {t \in found : inBest(b) /\ \A x \in below(t) : ~ inBest(x[1])}]

missing_block_bodies(p) == {b \in p.tree : p.body[b] = "Needed"}

ForgetBlocks(p, B) ==
    [p EXCEPT !.tree = @ \ B, !.incl = {x \in @ : x[1] \notin B},
              !.rel = [b \in BlockSet |-> IF b \in B THEN 0 ELSE @[b]],
              !.body = [b \in BlockSet |-> IF b \in B THEN "none" ELSE @[b]],
              !.val = [t \in Txs |-> [b \in BlockSet |-> IF b \in B THEN None ELSE @[t][b]]]]

set_finalized_block(p, new) ==
    IF new = p.root THEN p
    ELSE LET newly == PathTo(p, new) \ (IF p.fin = p.root THEN {} ELSE PathTo(p, p.fin))
             validated(t) == {b \in newly : p.val[t][b] # None}
             uncles == {b \in p.tree : ~ IsAncestor(b, new) /\ ~ IsAncestor(new, b)}
         IN ForgetBlocks([p EXCEPT !.fin = new,
                            !.finVal = [t \in Txs |-> IF validated(t) = {} THEN @[t]
                                                      ELSE p.val[t][Max(validated(t))]]], uncles)

PrunableWithoutBody(p) == IF p.fin = p.root THEN {} ELSE PathTo(p, p.fin)

\* The finalized blocks from the root on whose body isn't needed any more.
Prunable(p) ==
    IF p.fin = p.root THEN {}
    ELSE {b \in PathTo(p, p.fin) : \A a \in Ancestors(b) \cap p.tree : p.body[a] # "Needed"}

prune_finalized_with_body(p) ==
    LET B == Prunable(p)
        upmost == Max(B)
        q == FoldLeft(remove_transaction, p, SetToSeq(TxsIn(p, B)))
    IN IF B = {} THEN p
       ELSE [ForgetBlocks(q, B) EXCEPT !.root = IF upmost = p.fin THEN upmost ELSE @,
                                       !.fin = IF upmost = p.fin THEN upmost ELSE @,
                                       !.best = IF upmost = p.best THEN upmost ELSE @]

oldest_block_finality_lag(p) == IF p.fin = p.root THEN 0 ELSE Cardinality(PathTo(p, p.fin))

-----------------------------------------------------------------------------
(* The status reports.                                                     *)

swap_remove(q, n) ==
    IF n = Len(q) THEN Front(q) ELSE [Front(q) EXCEPT ![n] = Last(q)]

\* The loop over the channels of update_status, as it is written.
SendNth(acc, n) ==
    IF n > Len(acc.chans) THEN [acc EXCEPT !.fault = TRUE]
    ELSE LET w == acc.chans[n]
             rest == swap_remove(acc.chans, n)
         IN IF w \in acc.closed THEN [acc EXCEPT !.chans = rest]
            ELSE [acc EXCEPT !.chans = Append(rest, w), !.got[w] = acc.status]

update_status(v, t, status) ==
    LET n == Len(v.chans[t])
        sent == FoldLeft(SendNth, [chans |-> v.chans[t], got |-> v.got, closed |-> v.closed,
                                   status |-> status, fault |-> v.fault], [i \in 1 .. n |-> i])
    IN [v EXCEPT !.chans[t] = sent.chans, !.got = sent.got, !.fault = sent.fault, !.latest[t] = status]

Report(v, T, status) ==
    IF T = {} THEN v ELSE FoldLeft(LAMBDA u, t : update_status(u, t, status), v, SetToSeq(T))
Forgotten(v, T) ==
    IF T = {} THEN v
    ELSE [v EXCEPT !.chans = [t \in Txs |-> IF t \in T THEN <<>> ELSE @[t]],
                             !.latest = [t \in Txs |-> IF t \in T THEN Unset ELSE @[t]],
                             !.validating = [t \in Txs |-> IF t \in T THEN 0 ELSE @[t]],
                             !.since = [t \in Txs |-> IF t \in T THEN {} ELSE @[t]],
                             !.hints = @ \ T, !.timer = @ \ T]

-----------------------------------------------------------------------------
(* The start of the loop of the background task.                           *)

\* As long as there is room, the first transaction that needs it starts being
\* validated, against the best block; not if that one is the root.
RECURSIVE StartValidations(_)
StartValidations(v) ==
    LET todo == {t \in unvalidated_transactions(v.pool) : v.validating[t] = 0}
        running == {t \in Txs : v.validating[t] # 0}
    IN IF Cardinality(running) >= MaxValidations \/ todo = {} \/ v.pool.best = v.pool.root THEN v
       ELSE StartValidations([v EXCEPT !.validating[Min(todo)] = v.pool.best])

DiscardInvalid(v) ==
    LET bad == invalid_transactions_finalized_block(v.pool)
    IN IF bad = {} THEN v
       ELSE [Forgotten(Report(v, bad, Dropped("Invalid")), bad) EXCEPT
                !.pool = FoldLeft(remove_transaction, @, SetToSeq(bad))]

RECURSIVE StartDownloads(_)
StartDownloads(v) ==
    LET todo == missing_block_bodies(v.pool) \ (v.downloading \cup v.failed) IN
    IF Cardinality(v.downloading) >= MaxDownloads \/ todo = {} THEN v
    ELSE StartDownloads([v EXCEPT !.downloading = @ \cup {Min(todo)}])

PruneFinalized(v) ==
    LET B == Prunable(v.pool)
        T == TxsIn(v.pool, B)
    IN IF B = {} THEN v
       ELSE [Forgotten(Report(v, T, Dropped("Finalized")), T) EXCEPT
                !.pool = prune_finalized_with_body(@), !.pinned = @ \ B]

ReportBest(v, new) ==
    LET p == v.pool
        out == TxsIn(p, Ascend(p, new))
        in == Descend(p, new)
        each(u, b) == Report(u, TxsIn(p, {b}), Included(b))
    IN [FoldLeft(each, Report(v, out, Retracted), SetToSeq(in)) EXCEPT !.pool = set_best_block(p, new)]

\* A subscription to the runtime service, at the start or after a gap.
Subscribed(v) ==
    LET old == v.pool.txs
        dropped == Forgotten(Report(v, old, Dropped("GapInChain")), old)
        live == {b \in v.seen : IsAncestor(v.finalized, b) /\ b # v.finalized}
    IN [dropped EXCEPT
          !.pool = [FoldLeft(add_block, NewPool(v.finalized), SetToSortSeq(live, <)) EXCEPT !.best = v.best],
          !.pinned = live, !.downloading = {}, !.failed = {}, !.hints = {}, !.timer = {},
          !.validating = [t \in Txs |-> 0]]

Settled(v) ==
    LET reset == oldest_block_finality_lag(v.pool) >= MaxLag
        u == IF reset THEN Subscribed(v) ELSE v
        w == PruneFinalized(StartDownloads(DiscardInvalid(StartValidations(u))))
    IN [w EXCEPT !.failed = @ \cap w.pool.tree]

TransactionsInit ==
    \E f \in Parents :
    s = [shape |-> f, pool |-> NewPool(0), pinned |-> {},
         seen |-> {}, best |-> 0, finalized |-> 0,                  \* the chain
         downloading |-> {}, failed |-> {},
         validating |-> [t \in Txs |-> 0],
         hints |-> {}, timer |-> {},
         chans |-> [t \in Txs |-> <<>>], latest |-> [t \in Txs |-> Unset],
         got |-> [w \in Watchers |-> Unset], watching |-> [w \in Watchers |-> 0], closed |-> {},
         since |-> [t \in Txs |-> {}],         \* what had been seen when it was submitted
         fault |-> FALSE]

-----------------------------------------------------------------------------
(* The events of the loop.                                                 *)

Running == ~ s.fault

NotifyBlock(b, isNewBest) ==
    /\ Running /\ b \notin s.seen
    /\ ParentOf[b] \in s.seen \cup {0} /\ IsAncestor(s.finalized, b)
    /\ LET v == [s EXCEPT !.pool = add_block(@, b), !.pinned = @ \cup {b}, !.seen = @ \cup {b}]
       IN s' = Settled(IF isNewBest THEN [ReportBest(v, b) EXCEPT !.best = b] ELSE v)

NotifyBestBlockChanged(b) ==
    /\ Running /\ b \in (s.seen \cup {0}) \ {s.best} /\ IsAncestor(s.finalized, b)
    /\ s' = Settled([ReportBest(s, b) EXCEPT !.best = b])

NotifyFinalized(f, b) ==
    /\ Running /\ f \in s.seen \ {s.finalized} /\ IsAncestor(s.finalized, f)
    /\ b \in s.seen /\ IsAncestor(f, b)
    /\ LET v == [ReportBest(s, b) EXCEPT !.best = b, !.finalized = f]
           p == set_finalized_block(v.pool, f)
       IN s' = Settled([v EXCEPT !.pool = p, !.pinned = @ \ (v.pool.tree \ p.tree)])

\* The runtime service has given up the subscription.
SubscriptionEnds ==
    /\ Running
    /\ s' = Settled(Subscribed(s))

DownloadFinished(b, success) ==
    /\ Running /\ b \in s.downloading
    /\ LET v == [s EXCEPT !.downloading = @ \ {b}]
           done == set_block_body(v.pool, b)
       IN s' = Settled(CASE b \notin v.pool.tree -> v
                         [] b \in v.pool.tree /\ ~ success -> [v EXCEPT !.failed = @ \cup {b}]
                         [] OTHER -> Report([v EXCEPT !.pool = done.pool], done.now, Included(b)))

\* What the runtime call tells of a transaction: how long it is valid, or 0
\* if it is invalid or couldn't be validated.
validate_transaction == Longevities \cup {0}

\* A validation has finished; its block may be gone.
ValidationFinished(t, longevity) ==
    /\ Running /\ s.validating[t] # 0
    /\ LET b == s.validating[t]
           v == [s EXCEPT !.validating[t] = 0]
       IN s' = Settled(IF b \notin v.pool.tree THEN v
                       ELSE [v EXCEPT !.pool = set_validation_result(@, t, b, longevity),
                                      !.hints = IF longevity # 0 THEN @ \cup {t} ELSE @])

\* A transaction may have to be announced (again): right after a validation,
\* or when the timer of the previous announce fires.
Announce(v, t, sent) ==
    IF t \notin v.pool.txs \/ is_included_best_chain(v.pool, t) \/ ~ is_valid_against_best_block(v.pool, t)
       \/ t \in v.timer
    THEN v
    ELSE LET u == [v EXCEPT !.timer = @ \cup {t}]
         IN IF sent THEN [Report(u, {t}, Dropped("Broadcast")) EXCEPT !.latest[t] = Dropped("Broadcast")] ELSE u

Reannounce(t, sent) ==
    /\ Running
    /\ \/ t \in s.hints /\ s' = Settled(Announce([s EXCEPT !.hints = @ \ {t}], t, sent))
       \/ t \in s.timer /\ s' = Settled(Announce([s EXCEPT !.timer = @ \ {t}], t, sent))

\* SubmitTransaction: another watcher of a pending transaction gets its
\* latest status.  W is empty for submit_transaction.
SubmitTransaction(t, W) ==
    /\ Running /\ \A w \in W : s.watching[w] = 0
    /\ LET tell(v, status) == [v EXCEPT !.got = [w \in Watchers |-> IF w \in W THEN status ELSE @[w]]]
           v == [s EXCEPT !.watching = [w \in Watchers |-> IF w \in W THEN t ELSE @[w]]]
           full == Cardinality(v.pool.txs) >= MaxPending
       IN s' = Settled(CASE t \in v.pool.txs ->
                              [tell(v, v.latest[t]) EXCEPT !.chans[t] = @ \o SetToSeq(W)]
                         [] t \notin v.pool.txs /\ full -> tell(v, Dropped("MaxPendingTransactionsReached"))
                         [] OTHER -> [v EXCEPT !.pool = add_unvalidated(@, t), !.chans[t] = SetToSeq(W),
                                               !.since[t] = v.seen])

\* The receiving side of a channel goes away (or its buffer is full).
CloseReceiver(w) ==
    /\ Running /\ w \notin s.closed /\ s.watching[w] # 0
    /\ s' = [s EXCEPT !.closed = @ \cup {w}, !.got[w] = Unset]

TransactionsNext ==
    \/ \E b \in BlockSet, isNewBest \in BOOLEAN : NotifyBlock(b, isNewBest)
    \/ \E b \in 0 .. LastBlock : NotifyBestBlockChanged(b)
    \/ \E f, b \in BlockSet : NotifyFinalized(f, b)
    \/ SubscriptionEnds
    \/ \E b \in BlockSet, success \in BOOLEAN : DownloadFinished(b, success)
    \/ \E t \in Txs, longevity \in validate_transaction : ValidationFinished(t, longevity)
    \/ \E t \in Txs, sent \in BOOLEAN : Reannounce(t, sent)
    \/ \E t \in Txs, W \in {{}} \cup {{w} : w \in Watchers} : SubmitTransaction(t, W)
    \/ \E w \in Watchers : CloseReceiver(w)

TransactionsSpec == TransactionsInit /\ [][TransactionsNext]_s

-----------------------------------------------------------------------------
(* Properties.                                                             *)

Ended == {"Finalized", "Invalid", "GapInChain"}

\* The docs of the fields of LightPool and of Worker: a transaction is
\* included only in the earliest block of any fork; the blocks that
\* inclusions and validations are about are in the tree; the blocks of the
\* tree are the ones pinned in the runtime service, so that each is unpinned
\* exactly when it leaves; and the finalized blocks that wait for their body
\* stay below the limit.
PoolExact ==
    LET p == s.pool IN
    /\ \A x, y \in p.incl : x[2] = y[2] /\ x # y => ~ IsAncestor(x[1], y[1])
    /\ \A x \in p.incl : x[1] \in p.tree /\ x[2] \in p.txs
    /\ \A t \in Txs, b \in BlockSet : p.val[t][b] # None => b \in p.tree /\ t \in p.txs
    /\ s.pinned = p.tree
    /\ oldest_block_finality_lag(p) < MaxLag

\* What the watchers are told agrees with the chain, whatever
\* re-organisations, late or failed downloads and finalisations come in
\* between: the last report about a pending transaction is that it is
\* included exactly if it is in a downloaded block of the best chain; a
\* transaction leaves the pool only with a report that says so; and none is
\* still pending once a block that includes it, and that came after it, is
\* finalized and gone from the pool.
StatusTruthful ==
    /\ \A w \in Watchers \ s.closed :
          LET t == s.watching[w]
              got == s.got[w].st
          IN t # 0 /\ got # "MaxPendingTransactionsReached" =>
                IF t \in s.pool.txs /\ w \in Range(s.chans[t])
                THEN (got = "Included") = is_included_best_chain(s.pool, t)
                ELSE got \in Ended
    /\ \A t \in s.pool.txs, b \in s.seen \ s.pool.tree :
          t \in Body[b] /\ IsAncestor(b, s.finalized) => b \in s.since[t]

\* status_update is the list of channels that should receive changes to the
\* transaction status: every watcher of a pending transaction whose channel
\* is open has received the latest one.
AllWatchersInformed ==
    ~ s.fault /\ \A t \in s.pool.txs, w \in Watchers \ s.closed :
                     w \in Range(s.chans[t]) => s.got[w] = s.latest[t]

\* The doc of relative_block_height: the height of the block minus the height
\* of the block that was passed as Config::finalized_block_hash.
HeightsRelative ==
    \A b \in s.pool.tree : s.pool.rel[b] = HeightOf(b) - HeightOf(s.pool.base)

=============================================================================
