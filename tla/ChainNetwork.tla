---------------------------- MODULE ChainNetwork ----------------------------
(***************************************************************************)
(* ChainNetwork of network/service.rs on top of Peers of libp2p/peers.rs,  *)
(* for one chain.  The collection of connections below them is abstracted  *)
(* to the events it may yield (its own promises are in module Collection). *)
(*                                                                         *)
(* The three layers live in one record, because next_event goes through    *)
(* all of them: a collection event is turned by Peers into an event of its *)
(* own, which ChainNetwork handles.  When ChainNetwork returns an event to *)
(* its user it first opens the substreams that have become desired; when   *)
(* it does not, it loops.  net.busy tells that it is in that loop, during  *)
(* which no other function can be called.                                  *)
(*                                                                         *)
(* Notifications protocol 0 is the block announces protocol, the one that  *)
(* decides whether the chain is open with a peer; the others (transactions *)
(* and Grandpa) follow it.                                                 *)
(***************************************************************************)
EXTENDS Integers, FiniteSets, Sequences, SequencesExt

CONSTANTS Peers,        \* the peer identities
          NoPeer,
          MaxConns,     \* connections that can ever exist
          LastProto,    \* protocols are 0 .. LastProto
          InSlots, OutSlots,
          Reqs,         \* outgoing requests, each started at most once
          MaxKeys       \* keys of the slab desired_out_notifications

VARIABLE net

ConnIds == 1 .. MaxConns
Protos == 0 .. LastProto
Keys == 1 .. MaxKeys
Secondary == [i \in 1 .. LastProto |-> i]

NoConn == [st |-> "free", peer |-> NoPeer, addr |-> NoPeer, was |-> FALSE]
Absent == [open |-> "Absent", id |-> 0, desired |-> FALSE]
FreeKey == [st |-> "free", peer |-> NoPeer, conn |-> 0, proto |-> 0]

\* Peers::new and ChainNetwork::new.
ChainNetworkInit ==
    net = [conns |-> [c \in ConnIds |-> NoConn],
           shutting |-> 0,
           outSub |-> [c \in ConnIds |-> [k \in Protos |-> "none"]],
           inSub |-> [c \in ConnIds |-> [k \in Protos |-> "none"]],
           inReq |-> {},                                             \* collection
           exists |-> {},
           entry |-> [p \in Peers |-> [k \in Protos |-> Absent]],
           notIn |-> {},
           slab |-> [i \in Keys |-> FreeKey],
           pending |-> <<>>,                                         \* Peers
           open |-> {}, inPeers |-> {}, outPeers |-> {},
           dialing |-> {}, book |-> [p \in Peers |-> "unknown"],
           inTypes |-> {}, reqs |-> [r \in Reqs |-> [st |-> "idle", conn |-> 0]],
           busy |-> FALSE, fault |-> "none"]

Fault(n, cond, what) == IF cond /\ n.fault = "none" THEN [n EXCEPT !.fault = what] ELSE n

-----------------------------------------------------------------------------
(* The collection.                                                         *)

established(n, c) == \/ n.conns[c].st = "Established"
                     \/ n.conns[c].st \in {"ShuttingApi", "Shutting"} /\ n.conns[c].was
InUse(n, c) == n.conns[c].st \notin {"free", "gone"}

close_out_notifications(n, c, k) ==
    Fault([n EXCEPT !.outSub[c][k] = "none"], n.outSub[c][k] = "none", "closing an unknown substream")

open_out_notifications(n, c, k) ==
    Fault([n EXCEPT !.outSub[c][k] = "Pending"], n.conns[c].st # "Established", "opening on a connection that is over")

-----------------------------------------------------------------------------
(* Peers.                                                                  *)

ConnsOf(n, p) == {c \in ConnIds : InUse(n, c) /\ n.conns[c].peer = p}
EstablishedOf(n, p) == {c \in ConnsOf(n, p) : established(n, c)}

\* connection_id_for_peer: the connection to use, 0 if there is none that
\* isn't shutting down; and one that is shutting down otherwise.
Usable(n, p) == {c \in EstablishedOf(n, p) : n.conns[c].st = "Established"}
connection_id_for_peer(n, p) == IF Usable(n, p) = {} THEN 0 ELSE Min(Usable(n, p))
ConnectedButShuttingDown(n, p) == Max(EstablishedOf(n, p))
has_established_connection(n, p) == EstablishedOf(n, p) # {}

\* No difference left with a peer nobody has heard of.
try_clean_up_peer(n, p) ==
    IF ConnsOf(n, p) = {} /\ \A k \in Protos : n.entry[p][k].open = "Absent"
    THEN [n EXCEPT !.exists = @ \ {p}] ELSE n

\* A new element of desired_out_notifications, for the API user to open.
Want(n, p, c, k) ==
    LET i == Min({j \in Keys : n.slab[j].st = "free"}) IN
    [n EXCEPT !.slab[i] = [st |-> "wanted", peer |-> p, conn |-> c, proto |-> k],
              !.entry[p][k].open = "ApiHandshakeWait", !.entry[p][k].id = i,
              !.pending = Append(@, [key |-> i, peer |-> p])]

\* set_peer_notifications_out_desired with DesiredReset.
DesiredReset(n, p, k) ==
    LET m == [n EXCEPT !.exists = @ \cup {p},
                       !.entry[p][k].desired = TRUE,
                       !.entry[p][k].open = IF @ = "Absent" THEN "Closed" ELSE @]
        c == connection_id_for_peer(m, p)
    IN IF m.entry[p][k].open = "Closed" /\ c # 0 THEN Want(m, p, c, k) ELSE m

\* set_peer_notifications_out_desired with NotDesired.
NotDesired(n, p, k) ==
    LET m == [n EXCEPT !.exists = @ \cup {p}]
        e == m.entry[p][k]
        off == [m EXCEPT !.entry[p][k].desired = FALSE]
        closed == CASE e.open = "ApiHandshakeWait" ->
                          Fault([off EXCEPT !.slab[e.id].st = IF @ = "free" THEN @ ELSE "obsolete"],
                                n.slab[e.id].st = "free", "unknown desired substream")
                    [] e.open \in {"Opening", "Open"} ->
                          [close_out_notifications(off, e.id, k) EXCEPT
                              !.entry[p][k].open = "Closed", !.entry[p][k].id = 0]
                    [] OTHER -> off
    IN IF e.desired THEN try_clean_up_peer(closed, p) ELSE m

\* next_unfulfilled_desired_outbound_substream and open_out_notification.
open_out_notification(n, w) ==
    LET s == n.slab[w.key]
        m == Fault([n EXCEPT !.slab[w.key] = FreeKey],
                   w.peer \notin n.exists \/ s.st = "free", "unknown desired substream")
    IN IF s.st # "wanted" THEN m
       ELSE Fault([open_out_notifications(m, s.conn, s.proto) EXCEPT
                      !.entry[s.peer][s.proto].open = "Opening", !.entry[s.peer][s.proto].id = s.conn],
                  n.entry[s.peer][s.proto].open = "Absent", "opening for an unknown entry")

\* A connection that is ending: nothing more is opened on it.
Obsolete(n, c) ==
    [n EXCEPT !.slab = [i \in Keys |-> IF @[i].st = "wanted" /\ @[i].conn = c
                                       THEN [@[i] EXCEPT !.st = "obsolete"] ELSE @[i]]]

\* A substream of (p, k) is over: the entry goes unless it is desired.
EntryClosed(n, p, k) ==
    [n EXCEPT !.entry[p][k] = IF @.desired THEN [@ EXCEPT !.open = "Closed", !.id = 0] ELSE Absent]

-----------------------------------------------------------------------------
(* ChainNetwork.                                                           *)

DesireSecondary(n, p) == FoldLeft(LAMBDA m, k : DesiredReset(m, p, k), n, Secondary)
LeaveSecondary(n, p) == FoldLeft(LAMBDA m, k : NotDesired(m, p, k), n, Secondary)

HasSlot(n, p) == p \in n.inPeers \cup n.outPeers

unassign_slot(n, p) ==
    [NotDesired(n, p, 0) EXCEPT !.outPeers = @ \ {p}, !.inPeers = @ \ {p}]

\* unassign_slot(..).unwrap().
UnassignTheSlot(n, p) == Fault(unassign_slot(n, p), ~ HasSlot(n, p), "no slot to unassign")

\* Addresses: set_connected and set_disconnected.
set_connected(n, p) ==
    IF n.book[p] = "unknown" THEN n
    ELSE Fault([n EXCEPT !.book[p] = "Connected"], n.book[p] = "Connected", "address connected twice")
set_disconnected(n, p, addr) ==
    IF addr # p \/ n.book[p] = "unknown" THEN n
    ELSE Fault([n EXCEPT !.book[p] = CASE @ = "Connected" -> "DisconnectedReachable"
                                       [] @ = "PendingConnect" -> "NotTried"
                                       [] OTHER -> @],
               n.book[p] \notin {"Connected", "PendingConnect"}, "address disconnected twice")

\* The end of next_event: what has become desired is opened.
Returned(n) ==
    [FoldLeft(open_out_notification, n, n.pending) EXCEPT !.pending = <<>>, !.busy = FALSE]
Continues(n) == [n EXCEPT !.busy = TRUE]

-----------------------------------------------------------------------------
(* The events of the collection, through Peers and ChainNetwork.           *)

\* The peer of an outgoing connection may turn out to be another one.
HandshakeFinished(n, c, p) ==
    LET m == [n EXCEPT !.conns[c].st = "Established", !.conns[c].peer = p, !.exists = @ \cup {p}]
        first == Cardinality(EstablishedOf(m, p)) = 1
        WantDesired(l, k) == IF l.entry[p][k].desired THEN Want(l, p, c, k) ELSE l
    IN IF first THEN Returned(FoldLeft(WantDesired, m, <<0>> \o Secondary)) ELSE Continues(m)

StartShutdown(n, c) ==
    LET m == IF n.conns[c].st = "ShuttingApi" THEN n
             ELSE Obsolete([n EXCEPT !.conns[c].was = (n.conns[c].st = "Established")], c)
    IN Continues([m EXCEPT !.conns[c].st = "Shutting", !.shutting = c])

\* A failed ping: the connection is shut down from our side.
PingOutFailed(n, c) ==
    Continues(Obsolete([n EXCEPT !.conns[c].st = "ShuttingApi", !.conns[c].was = TRUE], c))

\* Disconnected: the last connection of p is gone.
Disconnected(n, p, addr) ==
    LET m == IF p \in n.open THEN unassign_slot(n, p) ELSE n
    IN Returned([set_disconnected(m, p, addr) EXCEPT !.open = @ \ {p}])

ShutdownWithoutFakes(n, c) ==
    LET p == n.conns[c].peer
        gone == [n EXCEPT !.conns[c] = [NoConn EXCEPT !.st = "gone"]]
        m == try_clean_up_peer(gone, p)
    IN CASE p = NoPeer -> Continues(gone)
         [] p # NoPeer /\ ~ n.conns[c].was -> Continues(m)
         [] p # NoPeer /\ n.conns[c].was /\ ConnsOf(m, p) \cap {d \in ConnIds : established(m, d)} = {} ->
                Disconnected(m, p, n.conns[c].addr)
         [] OTHER -> Continues(set_disconnected(m, p, n.conns[c].addr))

Shutdown(n, c) ==
    LET p == n.conns[c].peer
        gone == [n EXCEPT !.conns[c] = [NoConn EXCEPT !.st = "gone"]]
        m == [try_clean_up_peer(gone, p) EXCEPT
                !.reqs = [r \in Reqs |-> IF @[r].st = "fake" /\ @[r].conn = c
                                         THEN [st |-> "fakeToReport", conn |-> c] ELSE @[r]]]
    IN CASE p = NoPeer -> Continues(gone)
         [] p # NoPeer /\ ~ n.conns[c].was -> Continues(m)
         [] p # NoPeer /\ n.conns[c].was /\ ConnsOf(m, p) \cap {d \in ConnIds : established(m, d)} = {} ->
                Disconnected(m, p, n.conns[c].addr)
         [] OTHER -> Continues(set_disconnected(m, p, n.conns[c].addr))

\* Opening an outbound substream has succeeded or failed: what Peers does,
\* then what ChainNetwork does when it is the block announces one.
PeersOutResult(n, c, k, ok) ==
    LET p == n.conns[c].peer
        m == Fault(n, n.entry[p][k].open = "Absent", "result for an unknown substream")
    IN IF ok THEN [m EXCEPT !.outSub[c][k] = "Open", !.entry[p][k].open = "Open", !.entry[p][k].id = c]
       ELSE EntryClosed([m EXCEPT !.outSub[c][k] = "none"], p, k)

BlockAnnouncesOpened(n, p, handshake) ==
    CASE handshake = "badHandshake" -> n
      [] handshake = "otherGenesis" -> UnassignTheSlot(DesireSecondary(n, p), p)
      [] OTHER -> [DesireSecondary(n, p) EXCEPT !.open = @ \cup {p}]

NotificationsOutResult(n, c, k, result) ==
    LET p == n.conns[c].peer
        m == PeersOutResult(n, c, k, result # "err")
    IN CASE k # 0 -> Continues(m)
         [] k = 0 /\ result = "err" -> Returned(UnassignTheSlot(m, p))
         [] OTHER -> Returned(BlockAnnouncesOpened(m, p, result))

PeersOutReset(n, c, k) ==
    LET p == n.conns[c].peer IN
    EntryClosed(Fault([n EXCEPT !.outSub[c][k] = "none"],
                      n.entry[p][k].open = "Absent", "reset of an unknown substream"), p, k)

ResetKeepingOpen(n, c, k) ==
    LET p == n.conns[c].peer
        m == PeersOutReset(n, c, k)
        l == LeaveSecondary(m, p)
    IN CASE k = 0 /\ p \in n.open -> Returned(UnassignTheSlot(l, p))
         [] k = 0 /\ p \notin n.open -> Continues(l)
         [] k # 0 /\ p \in n.open -> Continues(DesiredReset(m, p, k))
         [] OTHER -> Continues(m)

NotificationsOutReset(n, c, k) ==
    LET p == n.conns[c].peer
        m == PeersOutReset(n, c, k)
        l == [LeaveSecondary(m, p) EXCEPT !.open = @ \ {p}]
    IN CASE k = 0 /\ p \in n.open -> Returned(UnassignTheSlot(l, p))
         [] k = 0 /\ p \notin n.open -> Continues(l)
         [] k # 0 /\ p \in n.open -> Continues(DesiredReset(m, p, k))
         [] OTHER -> Continues(m)

\* The remote opens an inbound substream; at most one for a peer and protocol.
in_notification_accept(n, c, k) == [n EXCEPT !.inSub[c][k] = "Open", !.notIn = @ \cup {<<n.conns[c].peer, k>>}]

DesiredInNotification(n, c, k, valid) ==
    LET p == n.conns[c].peer
        accepted == in_notification_accept(n, c, k)
        hasOut == p \in n.outPeers
    IN CASE k # 0 -> Continues(IF p \in n.open THEN accepted ELSE n)
         [] k = 0 /\ ~ valid -> Returned(n)
         [] k = 0 /\ valid /\ hasOut -> Continues(accepted)
         [] k = 0 /\ valid /\ ~ hasOut /\ Cardinality(n.inPeers) < InSlots ->
                Returned([DesiredReset(accepted, p, 0) EXCEPT !.inPeers = @ \cup {p}])
         [] OTHER -> Continues(n)

NotificationsInOpen(n, c, k, valid) ==
    IF <<n.conns[c].peer, k>> \in n.notIn THEN Continues(n) ELSE DesiredInNotification(n, c, k, valid)

\* Only what comes from a peer the chain is open with is reported.
NotificationsIn(n, c, k) ==
    IF n.conns[c].peer \in n.open /\ k # 1 THEN Returned(n) ELSE Continues(n)

NotificationsInClose(n, c, k) ==
    Continues(Fault([n EXCEPT !.inSub[c][k] = "none", !.notIn = @ \ {<<n.conns[c].peer, k>>}],
                    <<n.conns[c].peer, k>> \notin n.notIn, "closing an unknown inbound substream"))

\* Requests.
Response(n, r) == Returned([n EXCEPT !.reqs[r].st = "done"])

RequestIn(n, c, valid) ==
    IF valid THEN Returned([n EXCEPT !.inReq = @ \cup {c}, !.inTypes = @ \cup {c}]) ELSE Returned(n)

RequestInCancel(n, c) ==
    Returned(Fault([n EXCEPT !.inReq = @ \ {c}, !.inTypes = @ \ {c}], c \notin n.inTypes, "unknown inbound request"))

-----------------------------------------------------------------------------
(* next_event.                                                             *)

FakesToReport == {r \in Reqs : net.reqs[r].st = "fakeToReport"}
KademliaErrors == {r \in Reqs : net.reqs[r].st = "kademliaError"}

\* The collection may yield an event.
Yields == /\ net.fault = "none"
          /\ FakesToReport = {}
          /\ net.busy \/ KademliaErrors = {}
YieldsMessage == Yields /\ net.shutting = 0
Live(c) == net.conns[c].st = "Established"

NextKademliaError ==
    /\ net.fault = "none" /\ ~ net.busy
    /\ \E r \in KademliaErrors : net' = [net EXCEPT !.reqs[r].st = "done"]

NextFake ==
    /\ net.fault = "none" /\ (net.busy \/ KademliaErrors = {})
    /\ \E r \in FakesToReport : net' = Response(net, r)

NextHandshake(c) ==
    /\ YieldsMessage /\ net.conns[c].st = "Handshaking"
    /\ \E p \in Peers : net' = HandshakeFinished(net, c, p)

NextStartShutdown(c) ==
    /\ YieldsMessage /\ net.conns[c].st \in {"Handshaking", "Established", "ShuttingApi"}
    /\ net' = StartShutdown(net, c)

NextPingFailed(c) == YieldsMessage /\ Live(c) /\ net' = PingOutFailed(net, c)

NextShutdown(c) == YieldsMessage /\ net.conns[c].st = "Shutting" /\ net' = Shutdown(net, c)

NextOutResult(c, k) ==
    /\ YieldsMessage /\ Live(c) /\ net.outSub[c][k] = "Pending"
    /\ \E result \in {"ok", "err"} \cup (IF k = 0 THEN {"badHandshake", "otherGenesis"} ELSE {}) :
          net' = NotificationsOutResult(net, c, k, result)

NextOutReset(c, k) ==
    /\ YieldsMessage /\ Live(c) /\ net.outSub[c][k] = "Open"
    /\ net' = NotificationsOutReset(net, c, k)

NextInOpen(c, k) ==
    /\ YieldsMessage /\ Live(c) /\ net.inSub[c][k] = "none"
    /\ \E valid \in BOOLEAN : net' = NotificationsInOpen(net, c, k, valid)

NextIn(c, k) == YieldsMessage /\ Live(c) /\ net.inSub[c][k] = "Open" /\ net' = NotificationsIn(net, c, k)

NextInClose(c, k) ==
    /\ YieldsMessage /\ Live(c) /\ net.inSub[c][k] = "Open"
    /\ net' = NotificationsInClose(net, c, k)

NextResponse(r) ==
    /\ YieldsMessage /\ net.reqs[r].st = "real" /\ Live(net.reqs[r].conn)
    /\ net' = Response(net, r)

NextRequestIn(c) ==
    /\ YieldsMessage /\ Live(c) /\ c \notin net.inReq
    /\ \E valid \in BOOLEAN : net' = RequestIn(net, c, valid)

\* While a connection shuts down, what is left of it is cancelled first.
Cancel(c) ==
    LET outs == {k \in Protos : net.outSub[c][k] # "none"}
        ins == {k \in Protos : net.inSub[c][k] # "none"}
        reals == {r \in Reqs : net.reqs[r].st = "real" /\ net.reqs[r].conn = c}
    IN /\ Yields /\ net.shutting = c
       /\ CASE outs # {} -> \E k \in outs : net' = IF net.outSub[c][k] = "Open"
                                                   THEN NotificationsOutReset(net, c, k)
                                                   ELSE NotificationsOutResult(net, c, k, "err")
            [] outs = {} /\ ins # {} -> \E k \in ins : net' = NotificationsInClose(net, c, k)
            [] outs = {} /\ ins = {} /\ reals # {} -> \E r \in reals : net' = Response(net, r)
            [] outs = {} /\ ins = {} /\ reals = {} /\ c \in net.inReq -> net' = RequestInCancel(net, c)
            [] OTHER -> net' = [net EXCEPT !.shutting = 0]

NoMoreEvents == net.fault = "none" /\ net.busy /\ FakesToReport = {} /\ net.shutting = 0 /\ net' = Returned(net)

-----------------------------------------------------------------------------
(* The other functions.                                                    *)

Callable == net.fault = "none" /\ ~ net.busy

discover(p) ==
    /\ Callable /\ net.book[p] = "unknown"
    /\ net' = [net EXCEPT !.book[p] = "NotTried"]

assign_slots(p) ==
    /\ Callable /\ net.book[p] # "unknown"
    /\ Cardinality(net.outPeers) < OutSlots
    /\ ~ HasSlot(net, p)
    /\ net' = [DesiredReset(net, p, 0) EXCEPT !.outPeers = @ \cup {p}]

unfulfilled_desired_peers ==
    {p \in net.exists : /\ \E k \in Protos : net.entry[p][k].desired
                        /\ \A c \in ConnsOf(net, p) : net.conns[c].st \in {"ShuttingApi", "Shutting"}}

next_start_connect(p) ==
    /\ Callable
    /\ p \in unfulfilled_desired_peers \ net.dialing
    /\ net.book[p] \in {"NotTried", "DisconnectedReachable"}
    /\ net' = [net EXCEPT !.dialing = @ \cup {p}, !.book[p] = "PendingConnect"]

NewConn(c) == net.conns[c].st = "free" /\ \A d \in 1 .. c - 1 : net.conns[d].st # "free"

pending_outcome_ok_single_stream(p, c) ==
    /\ Callable /\ p \in net.dialing /\ NewConn(c)
    /\ net' = [set_connected(net, p) EXCEPT
                  !.conns[c] = [NoConn EXCEPT !.st = "Handshaking", !.peer = p, !.addr = p],
                  !.exists = @ \cup {p}, !.dialing = @ \ {p}]

\* The last address of a peer is never removed, even if it is unreachable.
pending_outcome_err(p, unreachable) ==
    /\ Callable /\ p \in net.dialing
    /\ LET m == IF has_established_connection(net, p) THEN net ELSE unassign_slot(net, p)
       IN net' = [(IF unreachable THEN m ELSE set_disconnected(m, p, p)) EXCEPT !.dialing = @ \ {p}]

add_single_stream_incoming_connection(c) ==
    /\ Callable /\ NewConn(c)
    /\ net' = [net EXCEPT !.conns[c] = [NoConn EXCEPT !.st = "Handshaking"]]

\* start_request: on a connection that is shutting down the request is a
\* fake one, that fails once the connection is gone.
start_request(n, r, p) ==
    LET c == connection_id_for_peer(n, p) IN
    [n EXCEPT !.reqs[r] = IF c # 0 THEN [st |-> "real", conn |-> c]
                          ELSE [st |-> "fake", conn |-> ConnectedButShuttingDown(n, p)]]

\* start_blocks_request and the other requests about the chain.
start_chain_request(r, p) ==
    /\ Callable /\ net.reqs[r].st = "idle" /\ has_established_connection(net, p)
    /\ net' = start_request(net, r, p)

\* A discovery round asks a peer with a connected address, if there is one.
start_kademlia_discovery_round(r) ==
    /\ Callable /\ net.reqs[r].st = "idle"
    /\ \/ \E p \in Peers : /\ net.book[p] = "Connected" /\ has_established_connection(net, p)
                          /\ net' = start_request(net, r, p)
       \/ /\ \/ \A p \in Peers : net.book[p] # "Connected"
             \/ \E p \in Peers : net.book[p] = "Connected" /\ ~ has_established_connection(net, p)
          /\ net' = [net EXCEPT !.reqs[r].st = "kademliaError"]

\* respond_identify and respond_blocks.
respond(c) ==
    /\ Callable /\ c \in net.inReq
    /\ net' = Fault([net EXCEPT !.inReq = @ \ {c}, !.inTypes = @ \ {c}], c \notin net.inTypes, "unknown inbound request")

-----------------------------------------------------------------------------

next_event ==
    \/ NextKademliaError
    \/ NextFake
    \/ NoMoreEvents
    \/ \E r \in Reqs : NextResponse(r)
    \/ \E c \in ConnIds : \/ NextHandshake(c) \/ NextStartShutdown(c) \/ NextPingFailed(c)
                        \/ NextShutdown(c) \/ Cancel(c) \/ NextRequestIn(c)
    \/ \E c \in ConnIds, k \in Protos : \/ NextOutResult(c, k) \/ NextOutReset(c, k)
                                      \/ NextInOpen(c, k) \/ NextIn(c, k) \/ NextInClose(c, k)

ChainNetworkNext ==
    \/ next_event
    \/ \E p \in Peers : discover(p) \/ assign_slots(p) \/ next_start_connect(p)
    \/ \E p \in Peers, unreachable \in BOOLEAN : pending_outcome_err(p, unreachable)
    \/ \E p \in Peers, c \in ConnIds : pending_outcome_ok_single_stream(p, c)
    \/ \E c \in ConnIds : add_single_stream_incoming_connection(c) \/ respond(c)
    \/ \E r \in Reqs : start_kademlia_discovery_round(r) \/ \E p \in Peers : start_chain_request(r, p)

ChainNetworkSpec == ChainNetworkInit /\ [][ChainNetworkNext]_net

\* The messages of the connections are processed in the order they arrive,
\* so that the answer to a request (which comes, if only as a timeout: module
\* Collection) and the end of a shutdown are not overtaken for ever; the
\* messages run out and next_event returns.
ChainNetworkFairness ==
    /\ WF_net(NextKademliaError) /\ WF_net(NextFake) /\ SF_net(NoMoreEvents)
    /\ \A r \in Reqs : SF_net(NextResponse(r))
    /\ \A c \in ConnIds : /\ WF_net(Cancel(c)) /\ SF_net(NextShutdown(c))
                         /\ SF_net(net.conns[c].st = "ShuttingApi" /\ NextStartShutdown(c))

-----------------------------------------------------------------------------
(* Properties.                                                             *)

\* The peers the user has been told the chain is open with (the field
\* open_chains) hold a slot and an open block announces substream, on a
\* connection with that peer; and the slots are within their limits, a peer
\* holding one of a kind.  The substream is opened, lost and closed in the
\* collection, recorded by Peers and granted its slot by ChainNetwork.
OpenChainsBacked ==
    /\ \A p \in net.open :
          /\ HasSlot(net, p)
          /\ net.entry[p][0].open = "Open"
          /\ net.outSub[net.entry[p][0].id][0] = "Open"
          /\ net.conns[net.entry[p][0].id].peer = p
    /\ net.inPeers \cap net.outPeers = {}
    /\ Cardinality(net.inPeers) <= InSlots /\ Cardinality(net.outPeers) <= OutSlots

\* Every substream that is open or being opened in the collection is the one
\* Peers has recorded for its peer and protocol, and conversely: events
\* about it find their entry.
SubstreamsRecorded ==
    \A c \in ConnIds, k \in Protos :
        LET p == net.conns[c].peer IN
        /\ net.outSub[c][k] # "none" =>
              /\ net.entry[p][k].id = c
              /\ net.entry[p][k].open = IF net.outSub[c][k] = "Open" THEN "Open" ELSE "Opening"
        /\ net.inSub[c][k] # "none" => <<p, k>> \in net.notIn

\* The doc of Event::Response: all requests lead to an outcome, even if the
\* connection is closed while the request is in progress.
AllRequestsLeadToAnOutcome ==
    \A r \in Reqs : net.reqs[r].st \in {"real", "fake", "kademliaError"} ~>
                        (net.reqs[r].st = "done" \/ net.fault # "none")

\* A comment of next_event: the desirability of the transactions and Grandpa
\* substreams is always equal to whether the block announces substream is
\* open.  In particular none of them is desired once that one is closed.
SecondaryFollowsBlockAnnounces ==
    ~ net.busy => \A p \in Peers, k \in Protos \ {0} :
                      net.entry[p][k].desired => net.entry[p][0].open = "Open"

=============================================================================
