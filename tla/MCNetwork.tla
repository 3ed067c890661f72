------------------------------ MODULE MCNetwork ------------------------------
(***************************************************************************)
(* Small instances of the network stack, from the bytes up: the handshake  *)
(* of a connection, the multiplexing of its substreams, a connection and   *)
(* its coordinator, the peers and the chains of the network state machine, *)
(* and the tasks of the network service of the full node.  Each behaviour  *)
(* is one of a single component.                                           *)
(***************************************************************************)
EXTENDS Yamux, Handshake, NetworkService

CONSTANTS p1, NoPeer

VARIABLES
    component,
    \* Collection
    slots, sub, buffered, remote, answered, nextPing, now, driver, mapped, toDriver, toCoord,
    link, shutting, outReq, outNot, inReq, inNot, asked, done, broken,
    \* ChainNetwork
    net

\* A request, a notifications substream or a ping, in one direction or the other.
Connection == INSTANCE Collection
    WITH SlotSets <- {{"reqOut"}, {"notOut"}, {"reqIn"}, {"notIn"}, {"pingOut", "pingIn"}},
         MaxTime <- 2, MaxQueue <- 2, MaxUnits <- 3, CancelsPending <- FALSE, BothShutDown <- FALSE,
         task <- driver, toConn <- toDriver, conn <- link, fault <- broken

\* A peer and two connections; inbound requests come over the first one only.
Chains == INSTANCE ChainNetwork
    WITH Peers <- {p1}, MaxConns <- 2, LastProto <- 1, InSlots <- 1, OutSlots <- 1, Reqs <- {},
         MaxKeys <- 4

connectionVars ==
    <<slots, sub, buffered, remote, answered, nextPing, now, driver, mapped, toDriver, toCoord,
      link, shutting, outReq, outNot, inReq, inNot, asked, done, broken>>

MCInit ==
    /\ component \in {"Yamux", "Handshake", "Collection", "ChainNetwork", "NetworkService"}
    /\ YamuxInit /\ HandshakeInit /\ Connection!CollectionInit /\ Chains!ChainNetworkInit
    /\ NetworkServiceInit
    /\ component # "Handshake" => supported = {}
    /\ component # "Collection" => slots = {"reqOut"}

MCNext ==
    \/ /\ component = "Yamux" /\ YamuxNext
       /\ UNCHANGED <<component, hsVars, connectionVars, net, nsVars>>
    \/ /\ component = "Handshake" /\ HandshakeNext
       /\ UNCHANGED <<component, yamuxVars, connectionVars, net, nsVars>>
    \/ /\ component = "Collection" /\ Connection!CollectionNext
       /\ UNCHANGED <<component, yamuxVars, hsVars, net, nsVars>>
    \/ /\ component = "ChainNetwork" /\ Chains!ChainNetworkNext
       /\ net'.inReq \subseteq {1}
       /\ UNCHANGED <<component, yamuxVars, hsVars, connectionVars, nsVars>>
    \/ /\ component = "NetworkService" /\ NetworkServiceNext
       /\ UNCHANGED <<component, yamuxVars, hsVars, connectionVars, net>>

MCSpec == MCInit /\ [][MCNext]_<<component, yamuxVars, hsVars, connectionVars, net, nsVars>>

\* Two ends that have both protocols in common give each other no error in a
\* handshake, and know each other when it ends (handshake.rs); from then on the data
\* of a frame follow its header and belong to its substream, and what an end sends
\* stays within the window that the other one grants (yamux.rs): see Handshake and
\* Yamux.
StreamsSound ==
    /\ component = "Handshake" => HandshakeSound
    /\ component = "Yamux" => StreamIntact /\ WindowsAgree

\* Whatever the order of messages, timeouts and closings, neither side of a
\* connection panics, every substream ends once, and the coordinator knows exactly
\* the substreams that have not ended (collection.rs, substream.rs): see Collection.
CollectionSound ==
    component = "Collection" =>
        Connection!NoFault /\ Connection!EachEndsOnce /\ Connection!CoordinatorAgrees

\* A chain is open with a peer only over a connection whose substreams are open, and
\* every substream that is open is recorded (network/service.rs, peers.rs): see
\* ChainNetwork.
ChainNetworkSound ==
    component = "ChainNetwork" =>
        Chains!OpenChainsBacked /\ Chains!SubstreamsRecorded
=============================================================================
