----------------------------- MODULE Handshake -----------------------------
(***************************************************************************)
(* The handshake that turns a socket into a connection                     *)
(* (src/src/libp2p/connection/handshake.rs): a multistream-select          *)
(* negotiation of the encryption (multistream_select.rs), the three        *)
(* messages of the Noise XX handshake (noise.rs), a multistream-select     *)
(* negotiation of the multiplexer inside the encryption.  Both ends run    *)
(* this code over two bounded byte streams, and the connection may be cut. *)
(*                                                                         *)
(* Every message is two units of a stream, so that writes and reads stop   *)
(* in the middle of a message.  A frame of multistream-select is read by   *)
(* whoever is negotiating, in every state of the negotiation.              *)
(***************************************************************************)
EXTENDS Naturals, Sequences

CONSTANTS
    Capacity,   \* bound: units on their way in one direction
    MayCut      \* whether the connection may be cut

Sides == {"dialer", "listener"}
Remote(e) == IF e = "dialer" THEN "listener" ELSE "dialer"
Stages == <<"noise", "yamux">>    \* what the two negotiations are about

VARIABLES
    stage,     \* [Sides -> state of the handshake]
    nego,      \* [Sides -> InProgressState of the negotiation]
    sentUnits, \* [Sides -> num_bytes_written]
    recv,      \* [Sides -> recv_buffer: the units of the frame being read]
    txNoise,   \* [Sides -> tx_buffer_encrypted]
    turn,      \* [Sides -> messages of the XX pattern written or read]
    txPayload, rxPayload, rxRemain, \* of HandshakeInProgress
    peerId,    \* [Sides -> identity of the remote, once known]
    stream,    \* [Sides -> units on their way to that side]
    supported, \* protocols the listener supports
    cut,       \* the connection has been cut
    verdict    \* [Sides -> "none", or how the handshake ended]

hsVars == <<stage, nego, sentUnits, recv, txNoise, turn, txPayload, rxPayload, rxRemain,
            peerId, stream, supported, cut, verdict>>
noiseVars == <<txNoise, turn, txPayload, rxPayload, rxRemain, peerId>>

Message(name, from) == [name |-> name, from |-> from, payload |-> FALSE]
Halves(m) == <<[m |-> m, half |-> 1], [m |-> m, half |-> 2]>>

NegotiationStart(e) == "SendHandshake"
HandshakeInit ==
    /\ stage = [e \in Sides |-> "EncryptionProtocol"]
    /\ nego = [e \in Sides |-> NegotiationStart(e)]
    /\ sentUnits = [e \in Sides |-> 0]
    /\ recv = [e \in Sides |-> <<>>]
    /\ txNoise = [e \in Sides |-> <<>>]
    /\ turn = [e \in Sides |-> 0]
    /\ txPayload = [e \in Sides |-> <<>>]
    /\ rxPayload = [e \in Sides |-> 0]
    /\ rxRemain = [e \in Sides |-> 0]
    /\ peerId = [e \in Sides |-> "unknown"]
    /\ stream = [e \in Sides |-> <<>>]
    /\ supported \in SUBSET {Stages[1], Stages[2]}
    /\ cut = FALSE
    /\ verdict = [e \in Sides |-> "none"]

Running(e) == verdict[e] = "none"
\* the socket: closed once the remote has given up or the connection is cut
SocketClosed(e) == cut \/ verdict[Remote(e)] \notin {"none", "Success"}
ReadClosed(e) == SocketClosed(e) /\ stream[e] = <<>>
CanWrite(e) == Len(stream[Remote(e)]) < Capacity /\ ~SocketClosed(e)
Put(e, unit) == stream' = [stream EXCEPT ![Remote(e)] = Append(@, unit)]
Take(e) == stream' = [stream EXCEPT ![e] = Tail(@)]
Fail(e, why) == verdict' = [verdict EXCEPT ![e] = why]

(***************************************************************************)
(* multistream_select::InProgress::read_write                              *)
(***************************************************************************)
Negotiating(e) == Running(e) /\ stage[e] \in {"EncryptionProtocol", "Multiplexing"}
Subject(e) == IF stage[e] = "EncryptionProtocol" THEN Stages[1] ELSE Stages[2]
Sending == {"SendHandshake", "SendProtocolRequest", "SendProtocolOk", "SendProtocolNa"}

\* the beginning of every iteration: incoming data goes to recv_buffer until
\* it holds a frame, whatever the state
Inject(e) ==
    /\ Negotiating(e)
    /\ stream[e] # <<>> /\ Len(recv[e]) < 2
    /\ recv' = [recv EXCEPT ![e] = Append(@, Head(stream[e]))]
    /\ Take(e)
    /\ UNCHANGED <<stage, nego, sentUnits, noiseVars, supported, cut, verdict>>

MessageOut(e) ==
    CASE nego[e] = "SendHandshake" -> Message("multistream", e)
      [] nego[e] = "SendProtocolRequest" -> Message(Subject(e), e)
      [] nego[e] = "SendProtocolOk" -> Message(Subject(e), e)
      [] nego[e] = "SendProtocolNa" -> Message("na", e)
AfterSend(e) ==
    CASE nego[e] = "SendHandshake" /\ e = "dialer" -> "SendProtocolRequest"
      [] nego[e] = "SendHandshake" /\ e = "listener" -> "HandshakeExpected"
      [] nego[e] = "SendProtocolRequest" -> "HandshakeExpected"
      [] nego[e] = "SendProtocolOk" -> "Success"
      [] nego[e] = "SendProtocolNa" -> "CommandExpected"

RxPayloadFirst(e) == 0

\* HealthyHandshake::read_write on Negotiation::Success: the Noise key is
\* asked for and given (NoiseKeyRequired::resume), or the connection is open
\* HandshakeInProgress::new sets up the XX pattern
TxPayload(e) == IF e = "dialer" THEN <<1>> ELSE <<0>>
RxPayload(e) == IF e = "dialer" THEN 0 ELSE 1
RxMessages(e) == IF e = "dialer" THEN 1 ELSE 2
NoisePending(e, payload) ==
    Halves([name |-> "xx", from |-> e, payload |-> payload])

NegotiationSuccess(e) ==
    /\ recv' = [recv EXCEPT ![e] = <<>>]
    /\ IF stage[e] = "EncryptionProtocol"
         THEN /\ stage' = [stage EXCEPT ![e] = "Encryption"]
              /\ rxPayload' = [rxPayload EXCEPT ![e] = RxPayload(e)]
              /\ rxRemain' = [rxRemain EXCEPT ![e] = RxMessages(e)]
              /\ IF e = "dialer"     \* update_message_write: my turn
                   THEN /\ txNoise' = [txNoise EXCEPT ![e] = NoisePending(e, FALSE)]
                        /\ txPayload' = [txPayload EXCEPT ![e] = <<0>>]
                        /\ turn' = [turn EXCEPT ![e] = 1]
                   ELSE /\ txPayload' = [txPayload EXCEPT ![e] = TxPayload(e)]
                        /\ UNCHANGED <<txNoise, turn>>
              /\ UNCHANGED <<verdict, peerId>>
         ELSE /\ Fail(e, "Success")
              /\ stage' = [stage EXCEPT ![e] = "Established"]
              /\ UNCHANGED noiseVars

\* write_out of one message; partial writes leave the state as it is
NegoSend(e) ==
    /\ Negotiating(e) /\ nego[e] \in Sending
    /\ CanWrite(e)
    /\ Put(e, Halves(MessageOut(e))[sentUnits[e] + 1])
    /\ IF sentUnits[e] = 0
         THEN /\ sentUnits' = [sentUnits EXCEPT ![e] = 1]
              /\ UNCHANGED <<stage, nego, recv, noiseVars, verdict>>
         ELSE /\ sentUnits' = [sentUnits EXCEPT ![e] = 0]
              /\ IF AfterSend(e) = "Success"
                   THEN NegotiationSuccess(e) /\ UNCHANGED nego
                   ELSE /\ nego' = [nego EXCEPT ![e] = AfterSend(e)]
                        /\ UNCHANGED <<stage, recv, noiseVars, verdict>>
    /\ UNCHANGED <<supported, cut>>

Expecting == {"HandshakeExpected", "CommandExpected", "ProtocolRequestAnswerExpected"}
FirstFrame(e) == recv[e][1].m
\* a frame is complete and the state expects one
NegoReceive(e) ==
    /\ Negotiating(e) /\ nego[e] \in Expecting
    /\ Len(recv[e]) = 2
    /\ CASE nego[e] = "HandshakeExpected" /\ FirstFrame(e).name = "multistream" ->
              /\ nego' = [nego EXCEPT ![e] = IF e = "dialer" THEN "ProtocolRequestAnswerExpected"
                                             ELSE "CommandExpected"]
              /\ recv' = [recv EXCEPT ![e] = <<>>]
              /\ UNCHANGED <<stage, noiseVars, verdict>>
         [] nego[e] = "HandshakeExpected" /\ FirstFrame(e).name # "multistream" ->
              /\ Fail(e, "BadHandshake")
              /\ UNCHANGED <<stage, nego, recv, noiseVars>>
         [] nego[e] = "CommandExpected" ->
              /\ nego' = [nego EXCEPT ![e] =
                             IF FirstFrame(e).name \in supported /\ FirstFrame(e).name = Subject(e)
                               THEN "SendProtocolOk" ELSE "SendProtocolNa"]
              /\ recv' = [recv EXCEPT ![e] = <<>>]
              /\ UNCHANGED <<stage, noiseVars, verdict>>
         [] nego[e] = "ProtocolRequestAnswerExpected" /\ FirstFrame(e).name = Subject(e) ->
              NegotiationSuccess(e) /\ UNCHANGED nego
         [] OTHER ->
              /\ Fail(e, IF FirstFrame(e).name = "na" THEN "NotAvailable" ELSE "UnexpectedAnswer")
              /\ UNCHANGED <<stage, nego, recv, noiseVars>>
    /\ UNCHANGED <<sentUnits, stream, supported, cut>>

(***************************************************************************)
(* noise::HandshakeInProgress::read_write                                  *)
(***************************************************************************)
InNoise(e) == Running(e) /\ stage[e] = "Encryption"

\* tx_buffer_encrypted is copied to the socket; try_finish
NoiseFinish(e, tx, t) == tx = <<>> /\ t = 3
ToMultiplexing(e) ==
    /\ stage' = [stage EXCEPT ![e] = "Multiplexing"]
    /\ nego' = [nego EXCEPT ![e] = NegotiationStart(e)]
NoiseWrite(e) ==
    /\ InNoise(e) /\ txNoise[e] # <<>> /\ CanWrite(e)
    /\ Put(e, Head(txNoise[e]))
    /\ txNoise' = [txNoise EXCEPT ![e] = Tail(@)]
    /\ IF NoiseFinish(e, Tail(txNoise[e]), turn[e])
         THEN ToMultiplexing(e)
         ELSE UNCHANGED <<stage, nego>>
    /\ UNCHANGED <<sentUnits, recv, turn, txPayload, rxPayload, rxRemain, peerId,
                   supported, cut, verdict>>

\* update_message_write after a message has been read: t messages are done
MyTurn(e, t) == t < 3 /\ (t % 2 = 0) = (e = "dialer")
UpdateMessageWrite(e, t) ==
    IF MyTurn(e, t)
      THEN /\ txNoise' = [txNoise EXCEPT ![e] = NoisePending(e, txPayload[e] = <<0>>)]
           /\ txPayload' = [txPayload EXCEPT ![e] = IF @ = <<0>> THEN <<>> ELSE <<@[1] - 1>>]
           /\ turn' = [turn EXCEPT ![e] = t + 1]
           /\ UNCHANGED <<stage, nego>>
      ELSE /\ turn' = [turn EXCEPT ![e] = t]
           /\ UNCHANGED <<txNoise, txPayload>>
           /\ IF NoiseFinish(e, txNoise[e], t) THEN ToMultiplexing(e) ELSE UNCHANGED <<stage, nego>>

\* the units of a handshake message are copied; the whole message is decoded,
\* its payload checked against the index it must come with
NoiseRead(e) ==
    LET m == Head(stream[e]).m
        expected == rxPayload[e] = 0 IN
    /\ InNoise(e) /\ rxRemain[e] > 0
    /\ stream[e] # <<>>
    /\ Take(e)
    /\ IF Len(recv[e]) = 0
         THEN /\ recv' = [recv EXCEPT ![e] = <<Head(stream[e])>>]
              /\ UNCHANGED <<stage, nego, noiseVars, verdict>>
         ELSE /\ recv' = [recv EXCEPT ![e] = <<>>]
              /\ CASE m.name # "xx" -> Fail(e, "Cipher") /\ UNCHANGED <<stage, nego, noiseVars>>
                   [] m.name = "xx" /\ expected # m.payload /\ peerId[e] = "unknown" ->
                        /\ Fail(e, IF expected THEN "PayloadDecode" ELSE "UnexpectedPayload")
                        /\ UNCHANGED <<stage, nego, noiseVars>>
                   [] OTHER ->
                        /\ rxRemain' = [rxRemain EXCEPT ![e] = @ - 1]
                        /\ IF m.payload
                             THEN /\ peerId' = [peerId EXCEPT ![e] = m.from]
                                  /\ UNCHANGED rxPayload
                             ELSE /\ rxPayload' = [rxPayload EXCEPT ![e] = @ - 1]
                                  /\ UNCHANGED peerId
                        /\ UpdateMessageWrite(e, turn[e] + 1)
                        /\ UNCHANGED verdict
    /\ UNCHANGED <<sentUnits, supported, cut>>

(***************************************************************************)
(* The socket.                                                             *)
(***************************************************************************)
\* ReadClosed and WriteClosed, in whatever state needs to read or to write
Closed(e) ==
    /\ Running(e)
    /\ \/ SocketClosed(e) /\ Negotiating(e) /\ nego[e] \in Sending
       \/ SocketClosed(e) /\ InNoise(e) /\ txNoise[e] # <<>>
       \/ ReadClosed(e) /\ Negotiating(e) /\ nego[e] \in Expecting /\ Len(recv[e]) < 2
       \/ ReadClosed(e) /\ InNoise(e) /\ rxRemain[e] > 0
    /\ Fail(e, "Closed")
    /\ UNCHANGED <<stage, nego, sentUnits, recv, noiseVars, stream, supported, cut>>

Cut ==
    /\ MayCut /\ ~cut
    /\ cut' = TRUE
    /\ UNCHANGED <<stage, nego, sentUnits, recv, noiseVars, stream, supported, verdict>>

HandshakeStep(e) ==
    \/ Inject(e) \/ NegoSend(e) \/ NegoReceive(e)
    \/ NoiseWrite(e) \/ NoiseRead(e) \/ Closed(e)
HandshakeNext == Cut \/ \E e \in Sides : HandshakeStep(e)
HandshakeFairness == \A e \in Sides : WF_hsVars(HandshakeStep(e))
HandshakeSpec == HandshakeInit /\ [][HandshakeNext]_hsVars

(***************************************************************************)
(* Properties.                                                             *)
(***************************************************************************)
\* Two ends that have both protocols in common never give each other an
\* error of the protocol; an end that is through knows the identity of the
\* other one; and the unit of a later phase is never taken for a part of an
\* earlier one: an end whose handshake has ended has left nothing behind in
\* the buffer of the negotiation.
HandshakeSound ==
    /\ \A e \in Sides :
         /\ verdict[e] = "Success" => peerId[e] = Remote(e)
         /\ verdict[e] \in {"none", "Success", "Closed", "NotAvailable"}
         /\ verdict[e] = "NotAvailable" => supported # {Stages[1], Stages[2]}
    /\ (\A e \in Sides : verdict[e] = "Success") => \A e \in Sides : stream[e] = <<>>

\* The handshake always ends, at both ends: whatever the sizes of the writes
\* the two ends never wait for each other, and a cut reaches both.
HandshakeConcludes == <>(\A e \in Sides : verdict[e] # "none")
=============================================================================
