----------------------------- MODULE Collection -----------------------------
(***************************************************************************)
(* One connection of the collection (src/libp2p/collection.rs): the         *)
(* coordinator `Network`, the task of the connection                        *)
(* (collection/single_stream.rs), the established connection it drives      *)
(* (connection/established/single_stream.rs) with its substreams            *)
(* (substream.rs), the two queues of messages between task and coordinator,     *)
(* and the user of the coordinator and the remote as environments.          *)
(*                                                                         *)
(* A slot is one possible substream of each kind.  What the remote sends on *)
(* a slot is in the order that the protocol prescribes, but it can be       *)
(* undecodable, and the remote can close or reset the substream, or end the *)
(* connection, at any moment.                                               *)
(***************************************************************************)
EXTENDS Integers, Sequences, FiniteSets

CONSTANTS
    SlotSets,        \* the sets of slots of which an initial state picks one
    MaxTime,         \* bound on the clock
    MaxQueue,        \* bound on each queue of messages
    MaxUnits,        \* bound on what the remote sends on a slot, and receives
    CancelsPending,  \* may the remote close a substream that waits for an answer?
    BothShutDown     \* may both sides end the connection at the same time?

(***************************************************************************)
(* The state machine of one substream of an established connection         *)
(* (src/libp2p/connection/established/substream.rs), as operators on its    *)
(* state: one call of `read_write`, `reset`, and the calls of the owner.    *)
(*                                                                         *)
(* A payload (negotiation, handshake, request, response, notification) is   *)
(* one unit.  What `read_write` finds in its incoming buffer is one of      *)
(*   "empty"   no data             "closed"  the remote has closed          *)
(*   "nego"    protocol accepted   "na"      protocol not available         *)
(*   "msg"     a whole frame       "bad"     data that can't be decoded     *)
(***************************************************************************)
\* A substream: its SubstreamInner variant, its timeout, the number of units
\* it has yet to write, and for the ping substream the timeouts of the queued
\* pings (0 once a ping has been reported as timed out).
Sub(st, timeout, out) == [st |-> st, timeout |-> timeout, out |-> out, pings |-> <<>>]

\* No substream (never opened, or gone).
NoSub == Sub("None", 0, 0)

\* Substream::ingoing, notifications_out, request_out and ping_out.
ingoing == Sub("InboundNegotiating", 0, 0)
notifications_out(timeout) == Sub("NotificationsOutNegotiating", timeout, 1)
request_out(timeout) == Sub("RequestOutNegotiating", timeout, 1)
ping_out == Sub("PingOutNegotiating", 0, 0)

\* What one call of read_write gives: the substream afterwards, the event,
\* the number of units written and whether it has consumed its input.
Outcome(sub, event, wrote, read) ==
    [sub |-> sub, event |-> event, wrote |-> wrote, read |-> read]

To(sub, st) == [sub EXCEPT !.st = st]
Idle(sub) == Outcome(sub, "none", 0, FALSE)

\* The states that only wait for the remote to close its side: incoming data
\* is discarded, the writing side closed, and the substream ends when dead.
Draining == {"InboundFailed", "NotificationsOutNegotiationFailed",
             "NotificationsOutClosed", "NotificationsInRefused", "NotificationsInClosed"}

Drain(sub, in) ==
    Outcome(IF in = "closed" THEN NoSub ELSE sub, "none", 0, in # "closed")

\* An inbound substream negotiates, and set_inbound_ty gives it the state of
\* the protocol that was negotiated.
set_inbound_ty(kind) ==
    CASE kind = "ping"    -> Sub("PingIn", 0, 0)
      [] kind = "request" -> Sub("RequestInRecv", 0, 0)
      [] kind = "notif"   -> Sub("NotificationsInHandshake", 0, 0)

InboundNegotiating(sub, in, kind) ==
    CASE in = "nego" -> Outcome(set_inbound_ty(kind), "none", 0, TRUE)
      [] in = "na"   -> Outcome(To(sub, "InboundFailed"), "none", 0, TRUE)
      [] in \in {"bad", "closed"} -> Outcome(NoSub, "InboundError", 0, TRUE)
      [] OTHER       -> Idle(sub)

NotificationsOutNegotiating(sub, in, now) ==
    CASE sub.timeout < now ->
            Outcome(To(sub, "NotificationsOutNegotiationFailed"), "NotificationsOutErr", 0, FALSE)
      [] sub.timeout >= now /\ in = "nego" ->
            Outcome(To(sub, "NotificationsOutHandshakeRecv"), "none", 0, TRUE)
      [] sub.timeout >= now /\ in = "na" ->
            Outcome(To(sub, "NotificationsOutNegotiationFailed"), "NotificationsOutErr", 0, TRUE)
      [] sub.timeout >= now /\ in \in {"bad", "closed"} ->
            Outcome(NoSub, "NotificationsOutErr", 0, TRUE)
      [] OTHER -> Idle(sub)

\* The handshake is written; the timeout is no longer looked at.
NotificationsOutHandshakeRecv(sub, in) ==
    LET next == [sub EXCEPT !.out = 0] IN
    CASE in = "closed" -> Outcome(To(next, "NotificationsOutNegotiationFailed"),
                                  "NotificationsOutErr", sub.out, FALSE)
      [] in = "msg"    -> Outcome(To(next, "NotificationsOut"), "NotificationsOutOk", sub.out, TRUE)
      [] in = "bad"    -> Outcome(NoSub, "NotificationsOutErr", sub.out, TRUE)
      [] OTHER         -> Outcome(next, "none", sub.out, FALSE)

\* Notifications are written, whatever comes in is discarded.
NotificationsOut(sub, in) ==
    Outcome([sub EXCEPT !.out = 0], "none", sub.out, in # "closed")

RequestOutNegotiating(sub, in, now) ==
    CASE sub.timeout < now -> Outcome(NoSub, "ResponseErr", 0, FALSE)
      [] sub.timeout >= now /\ in = "nego" -> Outcome(To(sub, "RequestOut"), "none", 0, TRUE)
      [] sub.timeout >= now /\ in \in {"na", "bad", "closed"} -> Outcome(NoSub, "ResponseErr", 0, TRUE)
      [] OTHER -> Idle(sub)

RequestOut(sub, in, now) ==
    CASE sub.timeout < now -> Outcome(NoSub, "ResponseErr", 0, FALSE)
      [] sub.timeout >= now /\ in \in {"closed", "bad"} -> Outcome(NoSub, "ResponseErr", sub.out, TRUE)
      [] sub.timeout >= now /\ in = "msg" -> Outcome(NoSub, "ResponseOk", sub.out, TRUE)
      [] OTHER -> Outcome([sub EXCEPT !.out = 0], "none", sub.out, FALSE)

RequestInRecv(sub, in) ==
    CASE in = "msg" -> Outcome(To(sub, "RequestInApiWait"), "RequestIn", 0, TRUE)
      [] in \in {"closed", "bad"} -> Outcome(NoSub, "InboundError", 0, TRUE)
      [] OTHER -> Idle(sub)

\* The response is written and the substream is over.
RequestInRespond(sub) == Outcome(NoSub, "none", sub.out, FALSE)

NotificationsInHandshake(sub, in) ==
    CASE in = "msg" -> Outcome(To(sub, "NotificationsInWait"), "NotificationsInOpen", 0, TRUE)
      [] in \in {"closed", "bad"} -> Outcome(NoSub, "InboundError", 0, TRUE)
      [] OTHER -> Idle(sub)

\* Waits for the owner to accept or refuse; nothing is read.
NotificationsInWait(sub, in) ==
    IF in = "closed"
    THEN Outcome(To(sub, "NotificationsInRefused"), "NotificationsInOpenCancel", 0, FALSE)
    ELSE Idle(sub)

NotificationsIn(sub, in) ==
    LET next == [sub EXCEPT !.out = 0] IN
    CASE in \in {"closed", "bad"} ->
            Outcome(To(next, "NotificationsInClosed"), "NotificationsInClose", sub.out, TRUE)
      [] in = "msg" -> Outcome(next, "NotificationIn", sub.out, TRUE)
      [] OTHER -> Outcome(next, "none", sub.out, FALSE)

PingIn(sub, in) ==
    IF in = "msg" THEN Outcome(sub, "none", 1, TRUE) ELSE Idle(sub)

\* The first ping that is past its timeout is reported, once.
Late(sub, now) == {i \in DOMAIN sub.pings : sub.pings[i] # 0 /\ sub.pings[i] < now}

ReportLate(sub, now) ==
    LET i == CHOOSE i \in Late(sub, now) : \A j \in Late(sub, now) : i <= j
    IN  Outcome([sub EXCEPT !.pings[i] = 0], "PingOutError", 0, FALSE)

\* While negotiating, the pings already given up at the front are forgotten.
DropGivenUp(sub) ==
    LET live == {i \in DOMAIN sub.pings : sub.pings[i] # 0}
        first == IF live = {} THEN Len(sub.pings) + 1
                 ELSE CHOOSE i \in live : \A j \in live : i <= j
    IN  [sub EXCEPT !.pings = SubSeq(@, first, Len(@)), !.out = @ - (first - 1)]

PingOutNegotiating(sub, in, now) ==
    LET kept == DropGivenUp(sub) IN
    CASE Late(sub, now) # {} -> ReportLate(sub, now)
      [] Late(sub, now) = {} /\ in = "nego" -> Outcome(To(kept, "PingOut"), "none", 0, TRUE)
      [] Late(sub, now) = {} /\ in \in {"na", "bad", "closed"} ->
            Outcome(To(kept, "PingOutFailed"), "none", 0, TRUE)
      [] OTHER -> Outcome(kept, "none", 0, FALSE)

\* Every queued ping is reported as failed, one call after the other.
PingOutFailed(sub) ==
    IF sub.pings = <<>> THEN Idle(sub)
    ELSE Outcome([sub EXCEPT !.pings = Tail(@)], "PingOutError", 0, FALSE)

\* An echo that matches answers the oldest ping, which is reported unless it
\* was given up; one that does not fails the substream.
PingOut(sub, in, now) ==
    LET next == [sub EXCEPT !.out = 0] IN
    CASE Late(sub, now) # {} -> [ReportLate(next, now) EXCEPT !.wrote = sub.out]
      [] Late(sub, now) = {} /\ in = "msg" /\ sub.pings # <<>> ->
            Outcome([next EXCEPT !.pings = Tail(@)],
                    IF Head(sub.pings) # 0 THEN "PingOutSuccess" ELSE "none", sub.out, TRUE)
      [] Late(sub, now) = {} /\ (in = "bad" \/ (in = "msg" /\ sub.pings = <<>>)) ->
            Outcome(To(next, "PingOutFailed"), "none", sub.out, TRUE)
      [] OTHER -> Outcome(next, "none", sub.out, FALSE)

\* Substream::read_write.
read_write(sub, in, now, kind) ==
    CASE sub.st = "InboundNegotiating" -> InboundNegotiating(sub, in, kind)
      [] sub.st \in Draining -> Drain(sub, in)
      [] sub.st = "NotificationsOutNegotiating" -> NotificationsOutNegotiating(sub, in, now)
      [] sub.st = "NotificationsOutHandshakeRecv" -> NotificationsOutHandshakeRecv(sub, in)
      [] sub.st = "NotificationsOut" -> NotificationsOut(sub, in)
      [] sub.st = "RequestOutNegotiating" -> RequestOutNegotiating(sub, in, now)
      [] sub.st = "RequestOut" -> RequestOut(sub, in, now)
      [] sub.st = "RequestInRecv" -> RequestInRecv(sub, in)
      [] sub.st = "RequestInRespond" -> RequestInRespond(sub)
      [] sub.st = "NotificationsInHandshake" -> NotificationsInHandshake(sub, in)
      [] sub.st = "NotificationsInWait" -> NotificationsInWait(sub, in)
      [] sub.st = "NotificationsIn" -> NotificationsIn(sub, in)
      [] sub.st = "PingIn" -> PingIn(sub, in)
      [] sub.st = "PingOutNegotiating" -> PingOutNegotiating(sub, in, now)
      [] sub.st = "PingOutFailed" -> PingOutFailed(sub)
      [] sub.st = "PingOut" -> PingOut(sub, in, now)
      [] OTHER -> Idle(sub)

\* Substream::reset: the event that a substream destroyed by the remote yields.
reset(sub) ==
    CASE sub.st \in {"RequestOutNegotiating", "RequestOut"} -> "ResponseErr"
      [] sub.st = "NotificationsInWait" -> "NotificationsInOpenCancel"
      [] sub.st = "NotificationsIn" -> "NotificationsInClose"
      [] sub.st \in {"NotificationsOutNegotiating", "NotificationsOutHandshakeRecv"} ->
            "NotificationsOutErr"
      [] sub.st = "NotificationsOut" -> "NotificationsOutReset"
      [] sub.st \in {"PingOut", "PingOutNegotiating", "PingOutFailed"} /\ sub.pings # <<>> ->
            "PingOutError"
      [] OTHER -> "none"

\* The calls of the owner, and the states in which each of them panics.
accept_in_notifications_substream(sub) ==
    IF sub.st = "NotificationsInWait" THEN Sub("NotificationsIn", 0, 1) ELSE sub

RejectPanics(sub) == sub.st # "NotificationsInWait"
reject_in_notifications_substream(sub) == To(sub, "NotificationsInRefused")

WritePanics(sub) == sub.st # "NotificationsOut"
write_notification_unbounded(sub) == [sub EXCEPT !.out = @ + 1]

ClosePanics(sub) ==
    sub.st \notin {"NotificationsOutNegotiating", "NotificationsOutHandshakeRecv", "NotificationsOut"}
close_notifications_substream(sub) == Sub("NotificationsOutClosed", 0, 0)

RespondPanics(sub) == sub.st # "RequestInApiWait"
respond_in_request(sub, ok) == Sub("RequestInRespond", 0, IF ok THEN 1 ELSE 0)

\* A ping has its place in the queue; its payload is not sent once the
\* substream has failed.
queue_ping(sub, timeout) ==
    [sub EXCEPT !.pings = Append(@, timeout), !.out = IF sub.st = "PingOutFailed" THEN @ ELSE @ + 1]

(***************************************************************************)
(* The connection.                                                         *)
(***************************************************************************)
AllSlots == {"reqOut", "notOut", "reqIn", "notIn", "pingOut", "pingIn"}
OutboundSlots == {"reqOut", "notOut"}
InboundSlots == {"reqIn", "notIn", "pingIn"}

\* The protocol that an inbound slot negotiates.
Kind(s) == CASE s \in {"reqOut", "reqIn"} -> "request"
             [] s \in {"notOut", "notIn"} -> "notif"
             [] OTHER -> "ping"

VARIABLES
    slots,      \* the slots of this behaviour
    \* the connection and its substreams
    sub,        \* slot -> its state machine
    buffered,   \* slot -> units written to Yamux and not extracted yet
    remote,     \* slot -> [sent, got, closed]: what the remote has done and received
    answered,   \* slots whose request the task was told to answer
    nextPing,   \* next_ping
    now,
    \* the task
    task,       \* [st, reset]: SingleStreamConnectionTaskInner and was_api_reset
    mapped,     \* domain of outbound_substreams_map
    \* the messages
    toConn, toCoord,
    \* the coordinator
    conn,       \* [st, was, api]: InnerConnectionState
    shutting,   \* shutting_down_connection is Some
    outReq, outNot, inReq, inNot,
    \* the user
    asked,      \* slots opened by the user or reported to them
    done,       \* slot -> number of times that its end was reported to the user
    fault       \* a panic of the code, or an event that its documentation rules out

connVars == <<slots, sub, buffered, remote, answered, nextPing, now>>
taskVars == <<task, mapped>>
coordVars == <<conn, shutting, outReq, outNot, inReq, inNot>>
collectionVars == <<connVars, taskVars, toConn, toCoord, coordVars, asked, done, fault>>

RequestTimeout == 0
OpenTimeout == 0
PingTimeout == 1
PingInterval == 2

Msg(m, s) == [m |-> m, s |-> s]
None == [s \in AllSlots |-> "none"]

CollectionInit ==
    /\ slots \in SlotSets
    /\ sub = [s \in AllSlots |-> NoSub]
    /\ buffered = [s \in AllSlots |-> 0]
    /\ remote = [s \in AllSlots |-> [sent |-> 0, got |-> 0, closed |-> FALSE]]
    /\ answered = {}
    /\ nextPing = 1
    /\ now = 0
    /\ task = [st |-> "Handshake", reset |-> FALSE]
    /\ mapped = {}
    /\ toConn = <<>>
    /\ toCoord = <<>>
    /\ conn = [st |-> "Handshaking", was |-> FALSE, api |-> FALSE]
    /\ shutting = FALSE
    /\ outReq = {}
    /\ outNot = None
    /\ inReq = {}
    /\ inNot = None
    /\ asked = {}
    /\ done = [s \in AllSlots |-> 0]
    /\ fault = "none"

-----------------------------------------------------------------------------
(* The user of the coordinator.                                            *)

Room(queue) == Len(queue) < MaxQueue
Order(m, s, timeout) == [m |-> m, s |-> s, timeout |-> timeout]
Post(m, s) == Room(toConn) /\ toConn' = Append(toConn, Order(m, s, 0))
PostUntil(m, s, timeout) ==
    Room(toConn) /\ timeout < MaxTime /\ toConn' = Append(toConn, Order(m, s, timeout))
UserOnly == UNCHANGED <<connVars, taskVars, toCoord, shutting, fault>>

start_request ==
    /\ "reqOut" \in slots \ asked
    /\ conn.st = "Established"
    /\ outReq' = outReq \cup {"reqOut"}
    /\ PostUntil("StartRequest", "reqOut", now + RequestTimeout)
    /\ asked' = asked \cup {"reqOut"}
    /\ UserOnly /\ UNCHANGED <<conn, outNot, inReq, inNot, done>>

open_out_notifications ==
    /\ "notOut" \in slots \ asked
    /\ conn.st = "Established"
    /\ outNot' = [outNot EXCEPT !["notOut"] = "Pending"]
    /\ PostUntil("OpenOutNotifications", "notOut", now + OpenTimeout)
    /\ asked' = asked \cup {"notOut"}
    /\ UserOnly /\ UNCHANGED <<conn, outReq, inReq, inNot, done>>

close_out_notifications(s) ==
    /\ outNot[s] # "none"
    /\ outNot' = [outNot EXCEPT ![s] = "none"]
    /\ Post("CloseOutNotifications", s)
    /\ done' = [done EXCEPT ![s] = @ + 1]
    /\ UserOnly /\ UNCHANGED <<conn, outReq, inReq, inNot, asked>>

queue_notification(s) ==
    /\ outNot[s] = "Open"
    /\ ~ \E i \in DOMAIN toConn : toConn[i].m = "QueueNotification"
    /\ remote[s].got + buffered[s] + sub[s].out < MaxUnits
    /\ Post("QueueNotification", s)
    /\ UserOnly /\ UNCHANGED <<conn, outReq, outNot, inReq, inNot, asked, done>>

accept_in_notifications(s) ==
    /\ inNot[s] = "Pending"
    /\ inNot' = [inNot EXCEPT ![s] = "Open"]
    /\ Post("AcceptInNotifications", s)
    /\ UserOnly /\ UNCHANGED <<conn, outReq, outNot, inReq, asked, done>>

reject_in_notifications(s) ==
    /\ inNot[s] = "Pending"
    /\ inNot' = [inNot EXCEPT ![s] = "none"]
    /\ Post("RejectInNotifications", s)
    /\ done' = [done EXCEPT ![s] = @ + 1]
    /\ UserOnly /\ UNCHANGED <<conn, outReq, outNot, inReq, asked>>

respond_in_request_user(s, ok) ==
    /\ s \in inReq
    /\ inReq' = inReq \ {s}
    /\ Post(IF ok THEN "AnswerOk" ELSE "AnswerErr", s)
    /\ done' = [done EXCEPT ![s] = @ + 1]
    /\ UserOnly /\ UNCHANGED <<conn, outReq, outNot, inNot, asked>>

start_shutdown ==
    /\ conn.st \in {"Handshaking", "Established"}
    /\ BothShutDown \/ task.st \in {"Handshake", "Established"} \/ task.reset
    /\ conn' = [st |-> "ShuttingDown", was |-> conn.st = "Established", api |-> TRUE]
    /\ Post("StartShutdown", "none")
    /\ UserOnly /\ UNCHANGED <<outReq, outNot, inReq, inNot, asked, done>>

User ==
    \/ start_request \/ open_out_notifications
    \/ start_shutdown
    \/ \E s \in slots : \/ close_out_notifications(s)
                        \/ queue_notification(s)
                        \/ accept_in_notifications(s)
                        \/ reject_in_notifications(s)
                        \/ \E ok \in BOOLEAN : respond_in_request_user(s, ok)

-----------------------------------------------------------------------------
(* The connection and its task.                                            *)

TaskOnly == UNCHANGED <<slots, now, coordVars, asked, done>>

\* The handshake of the connection is over: the connection is created with
\* its outgoing ping substream.
HandshakeSuccess ==
    /\ task.st = "Handshake"
    /\ Room(toCoord)
    /\ task' = [task EXCEPT !.st = "Established"]
    /\ toCoord' = Append(toCoord, Msg("HandshakeFinished", "none"))
    /\ sub' = [sub EXCEPT !["pingOut"] = IF "pingOut" \in slots THEN ping_out ELSE @]
    /\ TaskOnly /\ UNCHANGED <<buffered, remote, answered, nextPing, mapped, toConn, fault>>

\* The remote opens a substream.
IncomingSubstream(s) ==
    /\ task.st = "Established"
    /\ s \in InboundSlots
    /\ sub[s] = NoSub /\ remote[s].sent = 0 /\ ~ remote[s].closed
    /\ sub' = [sub EXCEPT ![s] = ingoing]
    /\ remote' = [remote EXCEPT ![s].sent = 1]
    /\ TaskOnly /\ UNCHANGED <<buffered, answered, nextPing, taskVars, toConn, toCoord, fault>>

\* What may be in the incoming buffer of a slot: the answer to a negotiation,
\* then a frame once the remote has received what it answers to.
Awaited(s) ==
    CASE remote[s].closed -> {"closed"}
      [] ~ remote[s].closed /\ s \in InboundSlots /\ remote[s].sent = 1 -> {"empty", "nego", "bad"}
      [] ~ remote[s].closed /\ s \notin InboundSlots /\ remote[s].sent = 0 -> {"empty", "nego", "na", "bad"}
      [] ~ remote[s].closed /\ s \in InboundSlots /\ remote[s].sent = 2 -> {"empty", "msg", "bad"}
      [] ~ remote[s].closed /\ s \in {"reqOut", "notOut", "notIn"}
            /\ remote[s].sent < MaxUnits /\ remote[s].got > 0 -> {"empty", "msg", "bad"}
      [] ~ remote[s].closed /\ s = "pingOut"
            /\ remote[s].sent < MaxUnits /\ remote[s].got > remote[s].sent - 1 -> {"empty", "msg", "bad"}
      [] OTHER -> {"empty"}

\* The message for the coordinator that an event becomes, and whether the
\* task finds the slot in its mapping when the event is about it.
NeedsMapping == {"ResponseOk", "ResponseErr", "NotificationsOutOk",
                 "NotificationsOutErr", "NotificationsOutReset"}
EndsMapping == NeedsMapping \ {"NotificationsOutOk"}

Report(event, s) ==
    /\ toCoord' = toCoord \o (IF event = "none" THEN <<>> ELSE <<Msg(event, s)>>)
    /\ mapped' = IF event \in EndsMapping THEN mapped \ {s} ELSE mapped
    /\ fault' = IF event \in NeedsMapping /\ s \notin mapped THEN "no mapping" ELSE fault

\* process_substream: the substream reads and writes.  A substream that is
\* over is reset in Yamux, with everything it had yet to send.
process_substream(s, in) ==
    /\ task.st = "Established"
    /\ sub[s] # NoSub
    /\ Room(toCoord)
    /\ in \in Awaited(s)
    /\ LET r == read_write(sub[s], in, now, Kind(s)) IN
       /\ in \in {"empty", "closed"} \/ r.read
       /\ sub' = [sub EXCEPT ![s] = r.sub]
       /\ buffered' = [buffered EXCEPT ![s] = IF r.sub = NoSub THEN 0 ELSE @ + r.wrote]
       /\ remote' = [remote EXCEPT ![s].sent = IF in \in {"empty", "closed"} THEN @ ELSE @ + 1]
       /\ Report(r.event, s)
    /\ TaskOnly /\ UNCHANGED <<answered, nextPing, task, toConn>>

\* The end of read_write: what Yamux holds is sent.
extract_out ==
    /\ task.st = "Established"
    /\ \E s \in slots : buffered[s] > 0
    /\ remote' = [s \in AllSlots |-> [remote[s] EXCEPT !.got = @ + buffered[s]]]
    /\ buffered' = [s \in AllSlots |-> 0]
    /\ TaskOnly /\ UNCHANGED <<sub, answered, nextPing, taskVars, toConn, toCoord, fault>>

\* A new ping is due; without a ping substream it has failed already.
queue_ping_due ==
    /\ task.st = "Established"
    /\ "pingOut" \in slots
    /\ now >= nextPing
    /\ Room(toCoord)
    /\ nextPing' = now + PingInterval
    /\ IF sub["pingOut"] # NoSub
       THEN /\ sub' = [sub EXCEPT !["pingOut"] = queue_ping(@, now + PingTimeout)]
            /\ UNCHANGED toCoord
       ELSE /\ toCoord' = Append(toCoord, Msg("PingOutError", "pingOut"))
            /\ UNCHANGED sub
    /\ TaskOnly /\ UNCHANGED <<buffered, remote, answered, taskVars, toConn, fault>>

\* The remote may close or reset a substream that waits for the user only
\* if CancelsPending.
MayLeave(s) == CancelsPending \/ sub[s].st # "NotificationsInWait"

RemoteCloses(s) ==
    /\ task.st = "Established"
    /\ sub[s] # NoSub /\ ~ remote[s].closed
    /\ MayLeave(s)
    /\ remote' = [remote EXCEPT ![s].closed = TRUE]
    /\ TaskOnly /\ UNCHANGED <<sub, buffered, answered, nextPing, taskVars, toConn, toCoord, fault>>

StreamReset(s) ==
    /\ task.st = "Established"
    /\ sub[s] # NoSub
    /\ Room(toCoord)
    /\ MayLeave(s)
    /\ sub' = [sub EXCEPT ![s] = NoSub]
    /\ buffered' = [buffered EXCEPT ![s] = 0]
    /\ Report(reset(sub[s]), s)
    /\ TaskOnly /\ UNCHANGED <<remote, nextPing, task, toConn>>
    /\ answered' = answered \ {s}

\* The end of the connection: by the remote, by a timeout or an error, or by
\* reset() when the socket is broken.
StartsShutdown(cause) ==
    /\ toCoord' = toCoord \o <<Msg("StartShutdown", cause), Msg("ShutdownFinished", "none")>>
    /\ sub' = [s \in AllSlots |-> NoSub]
    /\ mapped' = {}

Ordered == ~ \E i \in DOMAIN toConn : toConn[i].m = "StartShutdown"

ConnectionEnds ==
    /\ task.st \in {"Handshake", "Established"}
    /\ Room(toCoord)
    /\ BothShutDown \/ Ordered
    /\ StartsShutdown("remote")
    /\ task' = [st |-> "WaitingAck", reset |-> FALSE]
    /\ TaskOnly /\ UNCHANGED <<buffered, remote, answered, nextPing, toConn, fault>>

reset_connection ==
    /\ ~ task.reset /\ task.st # "Acked"
    /\ Room(toCoord)
    /\ BothShutDown \/ task.st # "WaitingAck"
    /\ StartsShutdown("remote")
    /\ task' = [st |-> "WaitingAck", reset |-> TRUE]
    /\ TaskOnly /\ UNCHANGED <<buffered, remote, answered, nextPing, toConn, fault>>

\* add_request and open_notifications_substream.
add_request(timeout) == request_out(timeout)
open_notifications_substream(timeout) == notifications_out(timeout)

\* inject_coordinator_message.
Applied(m, s, timeout) ==
    CASE m = "StartRequest" -> add_request(timeout)
      [] m = "OpenOutNotifications" -> open_notifications_substream(timeout)
      [] m = "CloseOutNotifications" /\ s \in mapped -> close_notifications_substream(sub[s])
      [] m = "QueueNotification" /\ s \in mapped -> write_notification_unbounded(sub[s])
      [] m = "AcceptInNotifications" -> accept_in_notifications_substream(sub[s])
      [] m = "RejectInNotifications" -> reject_in_notifications_substream(sub[s])
      [] m = "AnswerOk" /\ sub[s] # NoSub -> respond_in_request(sub[s], TRUE)
      [] m = "AnswerErr" /\ sub[s] # NoSub -> respond_in_request(sub[s], FALSE)
      [] OTHER -> sub[s]

InjectPanics(m, s) ==
    \/ m = "CloseOutNotifications" /\ s \in mapped /\ ClosePanics(sub[s])
    \/ m = "QueueNotification" /\ s \in mapped /\ WritePanics(sub[s])
    \/ m = "AcceptInNotifications" /\ sub[s] = NoSub
    \/ m = "RejectInNotifications" /\ RejectPanics(sub[s])
    \/ m \in {"AnswerOk", "AnswerErr"} /\ sub[s] # NoSub /\ RespondPanics(sub[s])

InjectEstablished(m, s, timeout) ==
    /\ sub' = [t \in AllSlots |-> IF t = s THEN Applied(m, s, timeout) ELSE sub[t]]
    /\ mapped' = CASE m \in {"StartRequest", "OpenOutNotifications"} -> mapped \cup {s}
                   [] m = "CloseOutNotifications" -> mapped \ {s}
                   [] OTHER -> mapped
    /\ answered' = IF m = "AnswerOk" /\ sub[s] # NoSub THEN answered \cup {s} ELSE answered
    /\ fault' = IF InjectPanics(m, s) THEN "substream in another state" ELSE fault
    /\ UNCHANGED <<task, toCoord>>

InjectStartShutdown ==
    IF task.st \in {"Handshake", "Established"}
    THEN /\ StartsShutdown("none")
         /\ task' = [st |-> "WaitingAck", reset |-> FALSE]
         /\ UNCHANGED <<answered, fault>>
    ELSE /\ fault' = IF task.st = "WaitingAck" /\ task.reset THEN fault ELSE "unexpected StartShutdown"
         /\ UNCHANGED <<sub, mapped, answered, toCoord, task>>

InjectAck ==
    /\ IF task.st = "WaitingAck"
       THEN task' = [task EXCEPT !.st = "Acked"] /\ UNCHANGED fault
       ELSE fault' = "unexpected acknowledgment" /\ UNCHANGED task
    /\ UNCHANGED <<sub, mapped, answered, toCoord>>

inject_coordinator_message ==
    /\ toConn # <<>>
    /\ toConn' = Tail(toConn)
    /\ LET m == Head(toConn).m  s == Head(toConn).s  timeout == Head(toConn).timeout IN
       CASE m = "StartShutdown" -> InjectStartShutdown
         [] m = "ShutdownFinishedAck" -> InjectAck
         [] m \notin {"StartShutdown", "ShutdownFinishedAck"} /\ task.st = "Established" ->
                InjectEstablished(m, s, timeout)
         [] OTHER -> /\ fault' = IF task.st = "WaitingAck" THEN fault ELSE "message out of place"
                     /\ UNCHANGED <<sub, mapped, answered, toCoord, task>>
    /\ TaskOnly /\ UNCHANGED <<buffered, remote, nextPing>>

Tick ==
    /\ now < MaxTime
    /\ now' = now + 1
    /\ UNCHANGED <<slots, sub, buffered, remote, answered, nextPing, taskVars, toConn, toCoord,
                   coordVars, asked, done, fault>>

-----------------------------------------------------------------------------
(* The coordinator: next_event.                                            *)

CoordOnly == UNCHANGED <<connVars, taskVars>>
Ends(s) == done' = [done EXCEPT ![s] = @ + 1]

\* While a connection is shutting down, what is in progress on it is
\* cancelled, one event after the other, before any message is processed.
CancelOne ==
    /\ shutting
    /\ CASE \E s \in slots : outNot[s] # "none" ->
              /\ \E s \in slots : outNot[s] # "none" /\ Ends(s) /\ outNot' = [outNot EXCEPT ![s] = "none"]
              /\ UNCHANGED <<shutting, outReq, inReq, inNot>>
         [] (\A s \in slots : outNot[s] = "none") /\ (\E s \in slots : inNot[s] # "none") ->
              /\ \E s \in slots : inNot[s] # "none" /\ Ends(s) /\ inNot' = [inNot EXCEPT ![s] = "none"]
              /\ UNCHANGED <<shutting, outReq, outNot, inReq>>
         [] (\A s \in slots : outNot[s] = "none" /\ inNot[s] = "none") /\ outReq # {} ->
              /\ \E s \in outReq : Ends(s) /\ outReq' = outReq \ {s}
              /\ UNCHANGED <<shutting, outNot, inReq, inNot>>
         [] (\A s \in slots : outNot[s] = "none" /\ inNot[s] = "none") /\ outReq = {} /\ inReq # {} ->
              /\ \E s \in inReq : Ends(s) /\ inReq' = inReq \ {s}
              /\ UNCHANGED <<shutting, outReq, outNot, inNot>>
         [] OTHER -> /\ shutting' = FALSE
                     /\ UNCHANGED <<outReq, outNot, inReq, inNot, done>>
    /\ CoordOnly /\ UNCHANGED <<toConn, toCoord, conn, asked, fault>>

\* A message about the connection as a whole.
OnStartShutdown ==
    /\ conn' = [conn EXCEPT !.st = "ShuttingDown", !.was = (conn.st = "Established") \/ @]
    /\ shutting' = TRUE
    /\ fault' = IF conn.st = "ShuttingDown" /\ ~ conn.api THEN "shutting down twice" ELSE fault
    /\ UNCHANGED <<toConn, outReq, outNot, inReq, inNot, asked, done>>

OnShutdownFinished ==
    /\ conn' = [conn EXCEPT !.st = "gone"]
    /\ toConn' = Append(toConn, Order("ShutdownFinishedAck", "none", 0))
    /\ fault' = IF conn.st # "ShuttingDown" THEN "not shutting down" ELSE fault
    /\ UNCHANGED <<shutting, outReq, outNot, inReq, inNot, asked, done>>

OnHandshakeFinished ==
    /\ conn' = IF conn.st = "Handshaking" THEN [conn EXCEPT !.st = "Established"] ELSE conn
    /\ fault' = IF conn.st = "Established" THEN "established twice" ELSE fault
    /\ UNCHANGED <<toConn, shutting, outReq, outNot, inReq, inNot, asked, done>>

\* A message about a slot of a connection that isn't shutting down.
OnResponse(s) ==
    /\ outReq' = outReq \ {s}
    /\ fault' = IF s \notin outReq THEN "unknown request" ELSE fault
    /\ Ends(s)
    /\ UNCHANGED <<outNot, inReq, inNot, asked>>

OnRequestIn(s) ==
    /\ inReq' = inReq \cup {s}
    /\ asked' = asked \cup {s}
    /\ UNCHANGED <<outReq, outNot, inNot, done, fault>>

OnNotificationsInOpen(s) ==
    /\ inNot' = [inNot EXCEPT ![s] = "Pending"]
    /\ asked' = asked \cup {s}
    /\ UNCHANGED <<outReq, outNot, inReq, done, fault>>

OnNotificationsInClose(s) ==
    /\ inNot' = [inNot EXCEPT ![s] = "none"]
    /\ fault' = IF inNot[s] = "none" THEN "unknown inbound substream" ELSE fault
    /\ Ends(s)
    /\ UNCHANGED <<outReq, outNot, inReq, asked>>

OnNotificationIn(s) ==
    /\ fault' = IF inNot[s] # "Open" THEN "notification on a substream not accepted" ELSE fault
    /\ UNCHANGED <<outReq, outNot, inReq, inNot, asked, done>>

ResultAlwaysKnown(s, ok) ==
    /\ IF ok THEN outNot' = [outNot EXCEPT ![s] = "Open"] /\ UNCHANGED done
       ELSE outNot' = [outNot EXCEPT ![s] = "none"] /\ Ends(s)
    /\ fault' = IF outNot[s] = "Open" THEN "opened twice" ELSE fault
    /\ UNCHANGED <<outReq, inReq, inNot, asked>>

\* A substream that the user has closed in the meantime is no longer known.
OnNotificationsOutResult(s, ok) ==
    /\ IF outNot[s] = "none" THEN UNCHANGED <<outNot, done>>
       ELSE IF ok THEN outNot' = [outNot EXCEPT ![s] = "Open"] /\ UNCHANGED done
       ELSE outNot' = [outNot EXCEPT ![s] = "none"] /\ Ends(s)
    /\ fault' = IF outNot[s] = "Open" THEN "opened twice" ELSE fault
    /\ UNCHANGED <<outReq, inReq, inNot, asked>>

OnNotificationsOutReset(s) ==
    /\ IF outNot[s] = "none" THEN UNCHANGED <<outNot, done>>
       ELSE outNot' = [outNot EXCEPT ![s] = "none"] /\ Ends(s)
    /\ fault' = IF outNot[s] = "Pending" THEN "reset before it was open" ELSE fault
    /\ UNCHANGED <<outReq, inReq, inNot, asked>>

OnSlot(m, s) ==
    CASE m \in {"ResponseOk", "ResponseErr"} -> OnResponse(s)
      [] m = "RequestIn" -> OnRequestIn(s)
      [] m = "NotificationsInOpen" -> OnNotificationsInOpen(s)
      [] m \in {"NotificationsInOpenCancel", "NotificationsInClose"} -> OnNotificationsInClose(s)
      [] m = "NotificationIn" -> OnNotificationIn(s)
      [] m \in {"NotificationsOutOk", "NotificationsOutErr"} ->
            OnNotificationsOutResult(s, m = "NotificationsOutOk")
      [] m = "NotificationsOutReset" -> OnNotificationsOutReset(s)
      [] OTHER -> UNCHANGED <<outReq, outNot, inReq, inNot, asked, done, fault>>

\* Events of a connection whose shutdown the user has started are ignored.
Ignores == conn.st = "ShuttingDown" /\ conn.api

next_event ==
    /\ ~ shutting
    /\ toCoord # <<>>
    /\ toCoord' = Tail(toCoord)
    /\ LET m == Head(toCoord).m  s == Head(toCoord).s IN
       CASE conn.st = "gone" ->
                /\ fault' = "message of an unknown connection"
                /\ UNCHANGED <<toConn, conn, shutting, outReq, outNot, inReq, inNot, asked, done>>
         [] conn.st # "gone" /\ m = "StartShutdown" -> OnStartShutdown
         [] conn.st # "gone" /\ m = "ShutdownFinished" -> OnShutdownFinished
         [] conn.st # "gone" /\ m = "HandshakeFinished" -> OnHandshakeFinished
         [] OTHER -> /\ IF Ignores
                        THEN UNCHANGED <<outReq, outNot, inReq, inNot, asked, done, fault>>
                        ELSE OnSlot(m, s)
                     /\ UNCHANGED <<toConn, conn, shutting>>
    /\ CoordOnly

-----------------------------------------------------------------------------
Task ==
    \/ HandshakeSuccess
    \/ \E s \in slots : \/ IncomingSubstream(s)
                        \/ \E in \in {"empty", "nego", "na", "msg", "bad", "closed"} :
                               process_substream(s, in)
                        \/ RemoteCloses(s)
                        \/ StreamReset(s)
    \/ extract_out \/ queue_ping_due
    \/ ConnectionEnds \/ reset_connection
    \/ inject_coordinator_message

\* A panic ends the program.
CollectionNext == fault = "none" /\ (User \/ Task \/ Tick \/ CancelOne \/ next_event)

CollectionSpec == CollectionInit /\ [][CollectionNext]_collectionVars

\* The task is woken up by its timers and by the messages sent to it, the
\* coordinator by the messages of the tasks; the clock advances.
CollectionFairness ==
    /\ WF_collectionVars(fault = "none" /\ Tick)
    /\ WF_collectionVars(fault = "none" /\ inject_coordinator_message)
    /\ WF_collectionVars(fault = "none" /\ (CancelOne \/ next_event))
    /\ \A s \in {"reqOut", "notOut"} :
          WF_collectionVars(fault = "none" /\ (process_substream(s, "empty") \/ process_substream(s, "closed")))

-----------------------------------------------------------------------------
(* Properties.                                                             *)

\* Neither the coordinator nor the task of a connection ever panics, whatever
\* the order in which their messages cross, and no notification is reported
\* for a substream that was not accepted.
NoFault == fault = "none"

\* The end of every request and of every substream is reported to the user
\* exactly once, be it by the remote, by the user or by the shutdown of the
\* connection: never twice, and never forgotten by the time that the
\* connection is gone ("*All* requests always lead to an outcome").
Known(s) == s \in outReq \/ s \in inReq \/ outNot[s] # "none" \/ inNot[s] # "none"
EachEndsOnce ==
    \A s \in slots :
        /\ done[s] = IF s \in asked /\ ~ Known(s) THEN 1 ELSE 0
        /\ conn.st = "gone" => ~ Known(s)

\* When no message is under way, the coordinator and the task agree on the
\* state of every substream of an established connection.
Quiet == toConn = <<>> /\ toCoord = <<>> /\ task.st = "Established" /\ fault = "none"
CoordinatorAgrees ==
    Quiet =>
        /\ outReq = {s \in slots : sub[s].st \in {"RequestOutNegotiating", "RequestOut"}}
        /\ {s \in slots : outNot[s] = "Open"} = {s \in slots : sub[s].st = "NotificationsOut"}
        /\ {s \in slots : outNot[s] = "Pending"} =
              {s \in slots : sub[s].st \in {"NotificationsOutNegotiating", "NotificationsOutHandshakeRecv"}}
        /\ mapped = outReq \cup {s \in slots : outNot[s] # "none"}
        /\ {s \in slots : inNot[s] = "Pending"} = {s \in slots : sub[s].st = "NotificationsInWait"}
        /\ {s \in slots : inNot[s] = "Open"} = {s \in slots : sub[s].st = "NotificationsIn"}

\* Every request gets an answer: the remote's, or an error once its timeout
\* has passed or its connection is gone.
EveryRequestAnswered == \A s \in {"reqOut"} : (s \in outReq) ~> (s \notin outReq)

\* A response reaches the remote that asked: once the task is done with the
\* substream, the response is sent or about to be.
ResponseDelivered ==
    \A s \in answered :
        task.st = "Established" /\ sub[s] = NoSub => buffered[s] + remote[s].got > 0
=============================================================================
