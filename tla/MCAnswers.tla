----------------------------- MODULE MCAnswers -----------------------------
(***************************************************************************)
(* What must eventually happen at the two edges of the client: towards the *)
(* peers (the handshake, the substreams of a connection, the requests of   *)
(* the network state machine and of the network service) and towards the   *)
(* JSON-RPC clients (the workers, the chainHead and the legacy             *)
(* subscriptions).  Each behaviour is one of a single component.           *)
(***************************************************************************)
EXTENDS Handshake, ChainNetwork

CONSTANTS c1, r1, w1, w2, Nobody

VARIABLES
    active,
    \* Collection
    slots, sub, buffered, remote, answered, nextPing, now, task, mapped, toConn, toCoord,
    conn, shutting, outReq, outNot, inReq, inNot, asked, done, broken,
    \* NetworkService
    lock, main, target, woken, connection, inbox, out, known, reqs, reqConn, toMain, toTask,
    newTasks, events, peerEvents, running, tasks, news, panicked,
    \* ChainHead
    up, feed, entry, followTask, sm, subs, follower, op,
    \* LegacySubscriptions
    upstream, notifications, runner, queue, user,
    \* JsonRpc
    source, subscription, cache, roots, handler, vm, left, fault

Connection == INSTANCE Collection
    WITH SlotSets <- {{"reqOut"}}, MaxTime <- 2, MaxQueue <- 2, MaxUnits <- 3,
         CancelsPending <- FALSE, BothShutDown <- FALSE, fault <- broken

Service == INSTANCE NetworkService
    WITH Conns <- {c1}, Reqs <- {r1}, FullNode <- FALSE, MainCap <- 1, ConnCap <- 1,
         TaskCap <- 1, EventCap <- 1, MaxDials <- 2, MaxNews <- 1, conn <- connection,
         toConn <- toTask, subscriber <- peerEvents, active <- running, task <- tasks

Follow == INSTANCE ChainHead
    WITH LastBlock <- 1, Parent <- <<0>>, RuntimeUpdates <- TRUE, FeedCap <- 1, QueueCap <- 1,
         MaxSubs <- 1, MaxOps <- 1, task <- followTask, client <- follower

Legacy == INSTANCE LegacySubscriptions
    WITH LastBlock <- 1, Parent <- <<0>>, Updates <- {1}, Keys <- {"k"},
         Value <- <<[k |-> 0], [k |-> 1]>>, MayFail <- FALSE, FeedCap <- 1, QueueCap <- 1,
         up <- upstream, feed <- notifications, task <- runner, client <- user

Handlers == INSTANCE JsonRpc
    WITH LastBlock <- 0, Workers <- {w1, w2}, FeedCap <- 1, CacheCap <- 1, MaxRequests <- 2,
         MaxGaps <- 1, up <- source, feed <- subscription, worker <- handler

connectionVars ==
    <<slots, sub, buffered, remote, answered, nextPing, now, task, mapped, toConn, toCoord,
      conn, shutting, outReq, outNot, inReq, inNot, asked, done, broken>>
serviceVars ==
    <<lock, main, target, woken, connection, inbox, out, known, reqs, reqConn, toMain, toTask,
      newTasks, events, peerEvents, running, tasks, news, panicked>>
followVars == <<up, feed, entry, followTask, sm, subs, follower, op>>
legacyVars == <<upstream, notifications, runner, queue, user>>
handlersVars == <<source, subscription, cache, roots, handler, vm, left, fault>>
peersVars == <<hsVars, connectionVars, net, serviceVars>>
clientsVars == <<followVars, legacyVars, handlersVars>>
strongVars == <<net, serviceVars, handlersVars>>
mcVars == <<active, peersVars, clientsVars>>

Init ==
    /\ active \in {"Handshake", "Collection", "ChainNetwork", "NetworkService",
                   "ChainHead", "LegacySubscriptions", "JsonRpc"}
    /\ HandshakeInit /\ Connection!CollectionInit /\ ChainNetworkInit /\ Service!NetworkServiceInit
    /\ Follow!HeadInit /\ Legacy!LegacyInit /\ Handlers!RpcInit
    /\ active # "Handshake" => supported = {}

HandshakeOnly(A) ==
    active = "Handshake" /\ A /\ UNCHANGED <<active, connectionVars, net, serviceVars, clientsVars>>
ConnectionOnly(A) ==
    active = "Collection" /\ A /\ UNCHANGED <<active, hsVars, net, serviceVars, clientsVars>>
NetOnly(A) ==
    active = "ChainNetwork" /\ A /\ UNCHANGED <<active, hsVars, connectionVars, serviceVars, clientsVars>>
ServiceOnly(A) ==
    active = "NetworkService" /\ A /\ UNCHANGED <<active, hsVars, connectionVars, net, clientsVars>>
FollowOnly(A) ==
    active = "ChainHead" /\ A /\ UNCHANGED <<active, peersVars, legacyVars, handlersVars>>
LegacyOnly(A) ==
    active = "LegacySubscriptions" /\ A /\ UNCHANGED <<active, peersVars, followVars, handlersVars>>
HandlersOnly(A) ==
    active = "JsonRpc" /\ A /\ UNCHANGED <<active, peersVars, followVars, legacyVars>>

Next ==
    \/ HandshakeOnly(HandshakeNext) \/ ConnectionOnly(Connection!CollectionNext)
    \/ NetOnly(ChainNetworkNext) \/ ServiceOnly(Service!NetworkServiceNext)
    \/ FollowOnly(Follow!HeadNext)
    \/ LegacyOnly(Legacy!LegacyNext) \/ HandlersOnly(Handlers!RpcNext)

In(component, A) == active = component /\ A
NetStrong(A) == In("ChainNetwork", A) /\ UNCHANGED <<serviceVars, handlersVars>>
ServiceStrong(A) == In("NetworkService", A) /\ UNCHANGED <<net, handlersVars>>
HandlerStrong(A) == In("JsonRpc", A) /\ UNCHANGED <<net, serviceVars>>

\* A behaviour takes the steps of one component only, so that strong fairness to a
\* disjunction of steps of different components is strong fairness to each of them.
FairSpec ==
    /\ Init /\ [][Next]_mcVars
    /\ \A e \in Sides : WF_hsVars(In("Handshake", HandshakeStep(e)))
    /\ WF_connectionVars(In("Collection", broken = "none" /\ Connection!Tick))
    /\ WF_connectionVars(In("Collection", broken = "none" /\ Connection!inject_coordinator_message))
    /\ WF_connectionVars(In("Collection", broken = "none" /\ (Connection!CancelOne \/ Connection!next_event)))
    /\ WF_connectionVars(In("Collection", broken = "none" /\
                              (\/ Connection!process_substream("reqOut", "empty")
                               \/ Connection!process_substream("reqOut", "closed"))))
    /\ WF_net(In("ChainNetwork", NextKademliaError)) /\ WF_net(In("ChainNetwork", NextFake))
    /\ WF_net(In("ChainNetwork", Cancel(1)))
    /\ WF_serviceVars(In("NetworkService", Service!MainNext))
    /\ WF_serviceVars(In("NetworkService", Service!NewConnec))
    /\ WF_serviceVars(In("NetworkService", Service!Receive))
    /\ WF_serviceVars(In("NetworkService", Service!InjectTask(c1)))
    /\ WF_serviceVars(In("NetworkService", Service!WakeByMessage(c1)))
    /\ WF_serviceVars(In("NetworkService", Service!InjectWhileSending(c1)))
    /\ WF_serviceVars(In("NetworkService", Service!Io(c1)))
    /\ WF_serviceVars(In("NetworkService", tasks[c1].reqs # {} /\ Service!WakeBySocket(c1)))
    /\ WF_followVars(In("ChainHead", Follow!FollowTask)) /\ WF_followVars(In("ChainHead", Follow!ClientReads))
    /\ WF_followVars(In("ChainHead", Follow!call_finished \/ Follow!storage_finished \/ Follow!body_finished))
    /\ WF_followVars(In("ChainHead", Follow!RuntimeKnown))
    /\ WF_legacyVars(In("LegacySubscriptions", Legacy!LegacyTask))
    /\ WF_legacyVars(In("LegacySubscriptions", Legacy!ClientReads))
    /\ WF_legacyVars(In("LegacySubscriptions", Legacy!RuntimeKnown))
    /\ WF_handlersVars(In("JsonRpc", Handlers!RuntimeKnown)) /\ WF_handlersVars(In("JsonRpc", Handlers!CacheTask))
    /\ WF_handlersVars(In("JsonRpc", \E ok \in BOOLEAN : Handlers!Fetched(0, ok)))
    /\ SF_strongVars(\/ NetStrong(NoMoreEvents) \/ ServiceStrong(Service!Lock)
                     \/ HandlerStrong(Handlers!Handles(w1)))
    /\ SF_strongVars(\/ NetStrong(NextResponse(r1))
                     \/ ServiceStrong(Service!set_local_grandpa_state)
                     \/ HandlerStrong(Handlers!Handles(w2)))
    /\ SF_strongVars(\/ NetStrong(NextShutdown(1)) \/ ServiceStrong(Service!SendToCoordinator(c1)))
    /\ SF_strongVars(\/ NetStrong(net.conns[1].st = "ShuttingApi" /\ NextStartShutdown(1))
                     \/ ServiceStrong(Service!Exit(c1)))
    /\ SF_strongVars(ServiceStrong(Service!DialOk(c1) \/ Service!DialError(c1)))
    /\ SF_strongVars(ServiceStrong(Service!IoRespond(c1)))

\* A handshake ends at both ends (handshake.rs), a request gets its
\* response or an error (substream.rs, collection.rs), and so does a request of the
\* network state machine (network/service.rs): see Handshake, Collection and
\* ChainNetwork.
PeersAnswer ==
    /\ active = "Handshake" => HandshakeConcludes
    /\ Connection!EveryRequestAnswered
    /\ AllRequestsLeadToAnOutcome

\* The tasks of the network service do not wait for one another for ever: the
\* requests are answered and the connections that shut down are gone
\* (network_service.rs): see NetworkService.
TasksProgress == Service!RequestsAnswered /\ Service!ShutdownFinishes

\* The workers answer every request of the JSON-RPC clients, although a runtime call
\* waits for the virtual machine and a request for the lock of the cache
\* (json_rpc_service.rs): see JsonRpc.
ClientsServed == Handlers!EveryRequestServed

\* A subscriber ends up with the current state or is told to stop (chain_head.rs,
\* sub_utils.rs): see ChainHead and LegacySubscriptions.
SubscribersInformed == Follow!ClosedLeadsToStop /\ Legacy!EventuallyDelivered
=============================================================================
