------------------------------- MODULE Yamux -------------------------------
(***************************************************************************)
(* The Yamux multiplexer (src/src/libp2p/connection/yamux.rs) as the       *)
(* single-stream connections drive it (established/single_stream.rs): the  *)
(* two ends of one connection, each running this code, and the two byte    *)
(* streams between them.  Every substream has a flow-control window in     *)
(* each direction; headers, data and window updates of all the substreams  *)
(* share one ordered stream.                                               *)
(*                                                                         *)
(* Data is counted in units; a 12-byte header is one item of the stream.   *)
(* The n-th unit written on a substream carries the number n, so that a    *)
(* unit that is lost, doubled or attributed to another substream shows.    *)
(* SingleStream never calls close(), and reset() sends nothing (both are   *)
(* marked TODO in the code), so no FIN or RST flag is ever on the wire.    *)
(***************************************************************************)
EXTENDS Naturals, Sequences, Functions

CONSTANTS
    Ids,         \* substream identifiers the two ends may allocate
    Window,      \* DEFAULT_FRAME_SIZE, and the credit granted per data frame
    BufLen,      \* length of one write_buffers element
    MaxWrites,   \* bound: buffers written in all
    MaxFrames,   \* bound: data frames per end
    MaxInFlight, \* bound: items in the stream of one direction
    MaxPings,    \* bound: pings received per end
    MidFrame     \* whether pings and resets may come in the middle of a frame

ASSUME YamuxAssumption == Window \in Nat \ {0} /\ BufLen \in Nat \ {0}

Ends == {"dialer", "listener"}
Peer(e) == IF e = "dialer" THEN "listener" ELSE "dialer"

VARIABLES
    substreams,   \* [Ends -> [subset of Ids -> substream record]]
    incoming,     \* [Ends -> what is expected next on the socket]
    outHeader,    \* [Ends -> pending_out_header: at most one header]
    writingOut,   \* [Ends -> writing_out_substream: at most one frame]
    nextOutbound, \* [Ends -> next_outbound_substream]
    wire,         \* [Ends -> items on their way to that end]
    written,      \* [Ends -> [Ids -> units handed to write()]]
    got,          \* [Ends -> [Ids -> units delivered]]
    frames, pings,\* bounds
    fault         \* [Ends -> "none", or the error or panic that ended it]

yamuxVars == <<substreams, incoming, outHeader, writingOut, nextOutbound,
               wire, written, got, frames, pings, fault>>

Expect(id, remaining) == [id |-> id, remaining |-> remaining]
Header == Expect(0, 0)          \* Incoming::Header
NoHeader == <<>>
SumSeq(s) == FoldFunction(LAMBDA x, y : x + y, 0, s)

Frame(kind, id, syn, len) == [kind |-> kind, id |-> id, syn |-> syn, n |-> len]
Unit(id, n) == Frame("unit", id, FALSE, n)

\* the substream has not sent its first message: SYN for the end that opened it
SynFlag(e, id) == id % 2 = nextOutbound[e] % 2

FreshSubstream(window) ==
    [first |-> FALSE, remoteAllowed |-> Window, increase |-> 0,
     allowed |-> window, buffers |-> <<>>, offset |-> 0]

YamuxInit ==
    /\ substreams = [e \in Ends |-> <<>>]
    /\ incoming = [e \in Ends |-> Header]
    /\ outHeader = [e \in Ends |-> NoHeader]
    /\ writingOut = [e \in Ends |-> <<>>]
    /\ nextOutbound = [e \in Ends |-> IF e = "dialer" THEN 1 ELSE 2]
    /\ wire = [e \in Ends |-> <<>>]
    /\ written = [e \in Ends |-> [id \in Ids |-> 0]]
    /\ got = [e \in Ends |-> [id \in Ids |-> 0]]
    /\ frames = [e \in Ends |-> 0]
    /\ pings = [e \in Ends |-> 0]
    /\ fault = [e \in Ends |-> "none"]

Alive(e) == fault[e] = "none"
Has(e, id) == id \in DOMAIN substreams[e]
With(e, id, sub) ==
    [substreams EXCEPT ![e] = [i \in DOMAIN @ \cup {id} |-> IF i = id THEN sub ELSE @[i]]]
Without(e, id) ==
    [substreams EXCEPT ![e] = [i \in DOMAIN @ \ {id} |-> @[i]]]

(***************************************************************************)
(* The user of the multiplexer.                                            *)
(***************************************************************************)
\* open_substream; the SYN travels with the first frame
OpenSubstream(e) ==
    LET id == nextOutbound[e] IN
    /\ Alive(e) /\ id \in Ids
    /\ substreams' = With(e, id, FreshSubstream(Window))
    /\ nextOutbound' = [nextOutbound EXCEPT ![e] = @ + 2]
    /\ UNCHANGED <<incoming, outHeader, writingOut, wire, written, got, frames, pings, fault>>

\* write
Write(e, id) ==
    /\ Alive(e) /\ Has(e, id)
    /\ SumSeq(written["dialer"]) + SumSeq(written["listener"]) < MaxWrites * BufLen
    /\ substreams' = [substreams EXCEPT ![e][id].buffers = Append(@, BufLen)]
    /\ written' = [written EXCEPT ![e][id] = @ + BufLen]
    /\ UNCHANGED <<incoming, outHeader, writingOut, nextOutbound, wire, got, frames, pings, fault>>

\* reset: the substream and whatever it had left to send disappear
Reset(e, id) ==
    /\ Alive(e) /\ Has(e, id)
    /\ MidFrame \/ ~\E r \in Range(writingOut[e]) : r.id = id
    /\ substreams' = Without(e, id)
    /\ UNCHANGED <<incoming, outHeader, writingOut, nextOutbound, wire, written, got,
                   frames, pings, fault>>

\* Some other implementation at the peer's end pings; this one never does.
PeerPings(e) ==
    /\ pings[e] < MaxPings /\ Len(wire[e]) < MaxInFlight
    /\ writingOut[Peer(e)] = <<>> /\ outHeader[Peer(e)] = NoHeader
    /\ pings' = [pings EXCEPT ![e] = @ + 1]
    /\ wire' = [wire EXCEPT ![e] = Append(@, Frame("ping", 0, FALSE, 0))]
    /\ UNCHANGED <<substreams, incoming, outHeader, writingOut, nextOutbound, written,
                   got, frames, fault>>

(***************************************************************************)
(* incoming_data, one iteration of its loop.                               *)
(***************************************************************************)
Consume(e) == wire' = [wire EXCEPT ![e] = Tail(@)]
InHeader(e, kinds) ==
    /\ Alive(e) /\ wire[e] # <<>>
    /\ incoming[e] = Header
    /\ outHeader[e] = NoHeader     \* "we can't proceed with any reading if it isn't empty"
    /\ Head(wire[e]).kind \in kinds
    /\ Consume(e)

\* A ping queues the pong; the other implementation understands the pong.
ReadPing(e) ==
    /\ InHeader(e, {"ping"})
    /\ MidFrame \/ writingOut[e] = <<>>
    /\ outHeader' = [outHeader EXCEPT ![e] = <<Frame("pong", 0, FALSE, 0)>>]
    /\ UNCHANGED <<substreams, incoming, writingOut, nextOutbound, written, got, frames,
                   pings, fault>>
ReadPong(e) ==
    /\ InHeader(e, {"pong"})
    /\ UNCHANGED <<substreams, incoming, outHeader, writingOut, nextOutbound, written, got,
                   frames, pings, fault>>

\* accept_pending_substream: the data of the frame is not counted against
\* the window.
AcceptPending(e, h) ==
    /\ substreams' = With(e, h.id, FreshSubstream(
           IF h.kind = "window" THEN Window + h.n ELSE Window))
    /\ incoming' = [incoming EXCEPT ![e] =
           IF h.kind = "data" /\ h.n # 0 THEN Expect(h.id, h.n) ELSE Header]

\* SYN: IncomingSubstream, which SingleStream accepts at once.
ReadSyn(e) ==
    LET h == Head(wire[e]) IN
    /\ InHeader(e, {"data", "window"}) /\ h.syn
    /\ IF Has(e, h.id)
         THEN /\ fault' = [fault EXCEPT ![e] = "UnexpectedSyn"]
              /\ UNCHANGED <<substreams, incoming>>
         ELSE AcceptPending(e, h) /\ UNCHANGED fault
    /\ UNCHANGED <<outHeader, writingOut, nextOutbound, written, got, frames, pings>>

\* the credit a received data frame gives back to the sender
Credit(len) == Window

CheckedWindow(sub, len) == sub.remoteAllowed - len
ReadDataHeader(e) ==
    LET h == Head(wire[e]) IN
    /\ InHeader(e, {"data"}) /\ ~h.syn
    /\ CASE ~Has(e, h.id) -> UNCHANGED <<substreams, fault>>
         [] Has(e, h.id) /\ h.n > substreams[e][h.id].remoteAllowed ->
              /\ fault' = [fault EXCEPT ![e] = "CreditsExceeded"]
              /\ UNCHANGED substreams
         [] OTHER ->
              /\ substreams' = [substreams EXCEPT ![e][h.id] =
                    [@ EXCEPT !.remoteAllowed = CheckedWindow(substreams[e][h.id], h.n),
                              !.first = TRUE,
                              !.increase = @ + Credit(h.n)]]
              /\ UNCHANGED fault
    /\ incoming' = [incoming EXCEPT ![e] = Expect(h.id, h.n)]
    /\ UNCHANGED <<outHeader, writingOut, nextOutbound, written, got, frames, pings>>

ReadWindow(e) ==
    LET h == Head(wire[e]) IN
    /\ InHeader(e, {"window"}) /\ ~h.syn
    /\ substreams' = IF Has(e, h.id)
                       THEN [substreams EXCEPT ![e][h.id].allowed = @ + h.n]
                       ELSE substreams
    /\ UNCHANGED <<incoming, outHeader, writingOut, nextOutbound, written, got, frames,
                   pings, fault>>

\* Incoming::DataFrame.  Whatever comes next is taken for data of the frame;
\* the data of an unknown substream is skipped.  An empty frame ends when
\* more data arrives.  A unit where a header should be is UnknownVersion,
\* BadFrameType or another error.
ReadUnit(e) ==
    LET f == incoming[e]
        h == Head(wire[e]) IN
    /\ Alive(e) /\ wire[e] # <<>>
    /\ f # Header \/ h.kind = "unit"
    /\ incoming' = [incoming EXCEPT ![e] =
                       IF f.remaining <= 1 THEN Header ELSE Expect(f.id, f.remaining - 1)]
    /\ IF f.remaining = 0
         THEN /\ fault' = IF f = Header THEN [fault EXCEPT ![e] = "garbage"] ELSE fault
              /\ UNCHANGED <<wire, got>>
         ELSE /\ Consume(e)
              /\ got' = IF Has(e, f.id) THEN [got EXCEPT ![e][f.id] = @ + 1] ELSE got
              /\ fault' = IF h.kind = "unit" /\ h.id = f.id /\ (Has(e, f.id) => h.n = got[e][f.id] + 1)
                            THEN fault ELSE [fault EXCEPT ![e] = "garbage"]
    /\ UNCHANGED <<substreams, outHeader, writingOut, nextOutbound, written, frames, pings>>

(***************************************************************************)
(* extract_out, one iteration of its loop; it stops wherever the number of *)
(* bytes that the socket takes is used up.                                 *)
(***************************************************************************)
Out(e) == Alive(e) /\ Len(wire[Peer(e)]) < MaxInFlight
Emit(e, item) == wire' = [wire EXCEPT ![Peer(e)] = Append(@, item)]

WriteHeader(e) ==
    /\ Out(e) /\ outHeader[e] # NoHeader
    /\ Emit(e, outHeader[e][1])
    /\ outHeader' = [outHeader EXCEPT ![e] = NoHeader]
    /\ UNCHANGED <<substreams, incoming, writingOut, nextOutbound, written, got, frames,
                   pings, fault>>

\* number of the next unit the substream sends
NextUnit(e, id) ==
    written[e][id] + 1 + substreams[e][id].offset - BufLen * Len(substreams[e][id].buffers)
WriteUnit(e) ==
    LET r == writingOut[e][1]
        s == substreams[e][r.id] IN
    /\ Out(e) /\ outHeader[e] = NoHeader /\ writingOut[e] # <<>>
    /\ IF ~Has(e, r.id) \/ (r.remaining > 0 /\ s.buffers = <<>>)
         THEN \* get_mut(..).unwrap(), write_buffers[0]
              /\ fault' = [fault EXCEPT ![e] = "panic"]
              /\ UNCHANGED <<substreams, writingOut, wire>>
         ELSE /\ writingOut' = [writingOut EXCEPT ![e] =
                    IF r.remaining <= 1 THEN <<>> ELSE <<Expect(r.id, r.remaining - 1)>>]
              /\ IF r.remaining = 0
                   THEN UNCHANGED <<substreams, wire>>
                   ELSE /\ Emit(e, Unit(r.id, NextUnit(e, r.id)))
                        /\ substreams' = [substreams EXCEPT ![e][r.id] =
                              IF s.offset + 1 = Head(s.buffers)
                                THEN [s EXCEPT !.buffers = Tail(@), !.offset = 0]
                                ELSE [s EXCEPT !.offset = @ + 1]]
              /\ UNCHANGED fault
    /\ UNCHANGED <<incoming, outHeader, nextOutbound, written, got, frames, pings>>

Between(e) == Out(e) /\ outHeader[e] = NoHeader /\ writingOut[e] = <<>>

\* queue_window_size_frame_header
QueueWindow(e, id) ==
    LET s == substreams[e][id] IN
    /\ Between(e) /\ Has(e, id) /\ s.increase # 0
    /\ outHeader' = [outHeader EXCEPT ![e] =
                        <<Frame("window", id, ~s.first /\ SynFlag(e, id), s.increase)>>]
    /\ substreams' = [substreams EXCEPT ![e][id] =
                        [s EXCEPT !.first = TRUE, !.increase = 0,
                                  !.remoteAllowed = @ + s.increase]]
    /\ UNCHANGED <<incoming, writingOut, nextOutbound, wire, written, got, frames, pings, fault>>

\* queue_data_frame_header.  pending_len counts the whole first buffer, what
\* has already been sent of it included.
PendingLen(s) == SumSeq(s.buffers)
FrameLenAll(s) == PendingLen(s)
FrameLen(s) == IF PendingLen(s) < s.allowed THEN PendingLen(s) ELSE s.allowed
QueueData(e, id) ==
    LET s == substreams[e][id]
        len == FrameLen(s) IN
    /\ Between(e) /\ Has(e, id) /\ frames[e] < MaxFrames
    /\ \A i \in DOMAIN substreams[e] : substreams[e][i].increase = 0
    /\ s.buffers # <<>>
    /\ outHeader' = [outHeader EXCEPT ![e] =
                        <<Frame("data", id, ~s.first /\ SynFlag(e, id), len)>>]
    /\ writingOut' = [writingOut EXCEPT ![e] = <<Expect(id, len)>>]
    /\ substreams' = [substreams EXCEPT ![e][id] =
                        [s EXCEPT !.first = TRUE, !.allowed = @ - len]]
    /\ frames' = [frames EXCEPT ![e] = @ + 1]
    /\ UNCHANGED <<incoming, nextOutbound, wire, written, got, pings, fault>>

YamuxStep(e) ==
    \/ OpenSubstream(e)
    \/ \E id \in Ids : Write(e, id)
    \/ \E id \in Ids : Reset(e, id)
    \/ PeerPings(e)
    \/ ReadPing(e)
    \/ ReadPong(e)
    \/ ReadSyn(e)
    \/ ReadDataHeader(e)
    \/ ReadWindow(e)
    \/ ReadUnit(e)
    \/ WriteHeader(e)
    \/ WriteUnit(e)
    \/ \E id \in Ids : QueueWindow(e, id)
    \/ \E id \in Ids : QueueData(e, id)

YamuxNext == \E e \in Ends : YamuxStep(e)
YamuxSpec == YamuxInit /\ [][YamuxNext]_yamuxVars

(***************************************************************************)
(* Properties.                                                             *)
(***************************************************************************)
\* Frames of a kind on their way from e, the header that waits included.
InFlight(e, kind, id) ==
    LET items == wire[Peer(e)] \o outHeader[e]
    IN  SumSeq([i \in 1..Len(items) |->
                   IF items[i].kind = kind /\ items[i].id = id /\ ~items[i].syn
                     THEN items[i].n ELSE 0])

\* Flow control: what an end may still send on a substream, the data frames
\* it has sent and the window updates on their way to it together never
\* exceed what the other end is ready to take.  This is why two ends running
\* incoming_data and extract_out never give each other CreditsExceeded.
WindowsAgree ==
    \A e \in Ends : \A id \in Ids :
        Has(e, id) /\ Has(Peer(e), id) /\ Alive(e) /\ Alive(Peer(e)) =>
            substreams[e][id].allowed + InFlight(e, "data", id) + InFlight(Peer(e), "window", id)
                <= substreams[Peer(e)][id].remoteAllowed

\* "A data frame header has been written to the socket, and the number of
\* bytes stored in there is the number of bytes remaining in this frame":
\* the units of a frame follow its header without anything in between and
\* belong to its substream, so that neither end meets garbage, an error of
\* the protocol, or the unwrap of extract_out.
StreamIntact == \A e \in Ends : Alive(e)
=============================================================================
