----------------------------- MODULE MCFrontend -----------------------------
(***************************************************************************)
(* Small instances of what stands between the chain and a JSON-RPC client: *)
(* the runtime service with its tree of runtimes and its pins, the queues  *)
(* of requests and of notifications of the client, the chainHead           *)
(* subscriptions, the legacy ones, and the cache of pinned blocks.  Each   *)
(* behaviour is one of a single component.                                 *)
(***************************************************************************)
EXTENDS RuntimeService

CONSTANTS s1, s2, w1, w2, NoClient, Nobody

VARIABLES
    active,
    \* RequestsSubscriptions
    clients, joined, dead, inFly, unpulled, pending, responses, messages, subscriptions, inactive,
    owner, requester, reader, worker, pusher, slotEvent, pullEvent, popEvent,
    \* ChainHead
    up, feed, entry, task, sm, subs, follower, op,
    \* LegacySubscriptions
    upstream, notifications, runner, queue, user,
    \* JsonRpc
    source, subscription, cache, roots, handler, vm, left, fault

\* Blocks 1 and 2 have the same code, block 3 another one.  The clock advances only
\* when a failed download waits for it.
Codes == <<"x", "x", "y">>

\* Either two workers and no subscription, or two subscriptions, a single worker and
\* one request at a time.
Queues == INSTANCE RequestsSubscriptions
    WITH Workers <- {w1, w2}, Subs <- {s1, s2}, MaxClients <- 1, MaxRequests <- 2,
         MaxSubscriptions <- 2, Capacity <- 1, active <- subscriptions

\* Two branches of one block.
Follow == INSTANCE ChainHead
    WITH LastBlock <- 2, Parent <- <<0, 0>>, RuntimeUpdates <- TRUE, FeedCap <- 1, QueueCap <- 2,
         MaxSubs <- 2, MaxOps <- 1, client <- follower

\* Two branches (1, 2 and 3), with an update of the runtime on each.
Legacy == INSTANCE LegacySubscriptions
    WITH LastBlock <- 3, Parent <- <<0, 1, 0>>, Updates <- {2, 3}, Keys <- {"k"},
         Value <- <<[k |-> 0], [k |-> 1], [k |-> 0], [k |-> 1]>>, MayFail <- FALSE,
         FeedCap <- 2, QueueCap <- 2, up <- upstream, feed <- notifications,
         task <- runner, client <- user

Cache == INSTANCE JsonRpc
    WITH LastBlock <- 2, Workers <- {w1}, FeedCap <- 1, CacheCap <- 1, MaxRequests <- 2, MaxGaps <- 1,
         up <- source, feed <- subscription, worker <- handler

requestsVars ==
    <<clients, joined, dead, inFly, unpulled, pending, responses, messages, subscriptions, inactive,
      owner, requester, reader, worker, pusher, slotEvent, pullEvent, popEvent>>
headVars == <<up, feed, entry, task, sm, subs, follower, op>>
legacyVars == <<upstream, notifications, runner, queue, user>>
cacheVars == <<source, subscription, cache, roots, handler, vm, left, fault>>

MCInit ==
    /\ active \in {"RuntimeService", "Requests", "Notifications", "ChainHead",
                   "LegacySubscriptions", "JsonRpc"}
    /\ Init /\ Queues!Init /\ Follow!HeadInit /\ Legacy!LegacyInit /\ Cache!RpcInit

MCNext ==
    \/ /\ active = "RuntimeService" /\ Next
       /\ now' # now => \E b \in Blocks : timeout[b] > now
       /\ UNCHANGED <<active, requestsVars, headVars, legacyVars, cacheVars>>
    \/ /\ active \in {"Requests", "Notifications"} /\ Queues!Next
       /\ IF active = "Requests" THEN UNCHANGED subscriptions
          ELSE worker'[w2] = worker[w2] /\ \A c \in Clients : inFly'[c] <= 1
       /\ UNCHANGED <<active, vars, headVars, legacyVars, cacheVars>>
    \/ /\ active = "ChainHead" /\ Follow!HeadNext
       /\ UNCHANGED <<active, vars, requestsVars, legacyVars, cacheVars>>
    \/ /\ active = "LegacySubscriptions" /\ Legacy!LegacyNext
       /\ UNCHANGED <<active, vars, requestsVars, headVars, cacheVars>>
    \/ /\ active = "JsonRpc" /\ Cache!RpcNext
       /\ UNCHANGED <<active, vars, requestsVars, headVars, legacyVars>>

MCSpec == MCInit /\ [][MCNext]_<<active, vars, requestsVars, headVars, legacyVars, cacheVars>>

\* The subscribers of the runtime service mirror its tree with the runtime of each
\* block, and hold no more pins than the limit (runtime_service.rs): see RuntimeService.
RuntimeServiceSound == active = "RuntimeService" => SubscriptionExact /\ PinsBounded

\* A chainHead subscriber mirrors the chain, and can use every block reported to it
\* (json_rpc_service/chain_head.rs): see ChainHead.
ChainHeadSound == active = "ChainHead" => Follow!FollowerMirrors /\ Follow!ReportedBlocksUsable

\* The legacy subscriptions report the heads that the runtime service has, and find
\* the header of each of them (state_chain.rs, sub_utils.rs): see LegacySubscriptions.
LegacySound == active = "LegacySubscriptions" => Legacy!HeadsDelivered /\ Legacy!HeadersFound

\* The limits of a client count exactly what is in its queues, and no task of its
\* requests and subscriptions misses its wake-up (requests_subscriptions.rs); the
\* cache of recent blocks holds exactly what is pinned for it (json_rpc_service.rs):
\* see RequestsSubscriptions and JsonRpc.
RequestsSound ==
    /\ active \in {"Requests", "Notifications"} => Queues!QueuesAccounted /\ Queues!WakeupsNotLost
    /\ active = "JsonRpc" => Cache!CacheMirrorsPins
=============================================================================
