------------------------ MODULE NetworkServiceProofs ------------------------
(***************************************************************************)
(* The tasks of the network service never miss each other, for every set   *)
(* of connections and requests and every capacity of the channels, in the  *)
(* light client and in the full node.                                      *)
(*                                                                         *)
(* The argument follows the two messages that end a connection.  The task  *)
(* of a connection says ShutdownFinished after everything else it has to   *)
(* say, and the state machine answers it with ShutdownFinishedAck after    *)
(* everything else it has to say to that connection.                       *)
(***************************************************************************)
EXTENDS NetworkService, SequenceTheorems, TLAPS

Finished == "ShutdownFinished"
Ack == "ShutdownFinishedAck"

(* q has no message of, or for, connection c. *)
Silent(q, c) == \A i \in 1 .. Len(q) : q[i].conn # c

(* q has a message of kind k of, or for, connection c. *)
Holds(q, c, k) == \E i \in 1 .. Len(q) : q[i].conn = c /\ q[i].m.k = k

(* The message of kind k is the last one of connection c in q. *)
Ends(q, c, k) ==
    \A i \in 1 .. Len(q) : q[i].conn = c /\ q[i].m.k = k =>
        \A j \in 1 .. Len(q) : i < j => q[j].conn # c

(* The same, in a sequence of messages of a single connection. *)
HoldsMsg(q, k) == \E i \in 1 .. Len(q) : q[i].k = k
EndsMsg(q, k) == \A i \in 1 .. Len(q) : q[i].k = k => i = Len(q)

(* The task of the connection is running, or about to. *)
Started == {"handover", "run?", "inject", "io", "sending", "idle", "exit"}

(* The running tasks that have nothing in their hands. *)
Quiet == {"handover", "run?", "inject", "io", "idle"}

(* The connection task t has something left to say. *)
Speaking(t) == t.pend # <<>> \/ t.pc = "sending"

(* The steps of a connection c whose task is t, in the state k of the state  *)
(* machine, act being active_connections, q the channel to the task, and up, *)
(* in and down the messages to the main task, in its state machine and from  *)
(* it.                                                                       *)
TaskOK(c, t, k, act) ==
    /\ c \in act <=> t.pc \in Started
    /\ t.pc = "none" => k \in {"none", "pending"}
    /\ k = "none" => t.pc = "none"
    /\ t.pc \in {"dial?", "dial"} => k = "pending"
    /\ t.pc \in Started => k \notin {"none", "pending"}
    /\ k \notin {"none", "pending", "gone"} => t.pc \in Started
    /\ t.pc = "exit" => t.st = "Acked"
    /\ t.st \notin {"Handshake", "Established"} => t.reqs = {}

(* What the task says: ShutdownFinished is the last of it. *)
SaysOK(c, t, k, up, in) ==
    /\ EndsMsg(t.pend, Finished)
    /\ t.pc = "sending" /\ t.msg.k = Finished => t.pend = <<>>
    /\ Ends(up, c, Finished) /\ Ends(in, c, Finished)
    /\ Holds(up, c, Finished) => ~Speaking(t)
    /\ Holds(in, c, Finished) => ~Speaking(t) /\ Silent(up, c)
    /\ k = "gone" => ~Speaking(t) /\ Silent(up, c) /\ Silent(in, c)
    /\ t.pc \notin Started => t.pend = <<>> /\ Silent(up, c) /\ Silent(in, c)
    /\ t.st \in {"Handshake", "Established"} =>
          /\ ~HoldsMsg(t.pend, Finished) /\ ~(t.pc = "sending" /\ t.msg.k = Finished)
          /\ ~Holds(up, c, Finished) /\ ~Holds(in, c, Finished)
          /\ t.pc \in Started => k # "gone"

(* What it is told: ShutdownFinishedAck is the last of it. *)
ToldOK(c, t, k, q, down) ==
    /\ EndsMsg(q, Ack) /\ Ends(down, c, Ack)
    /\ HoldsMsg(q, Ack) => Silent(down, c)
    /\ t.st = "Acked" => q = <<>> /\ Silent(down, c)
    /\ k # "gone" => t.st # "Acked" /\ ~HoldsMsg(q, Ack) /\ ~Holds(down, c, Ack)
    /\ t.pc \notin Started => q = <<>> /\ Silent(down, c)

AllOK(c, t, k, act, q, up, in, down) ==
    TaskOK(c, t, k, act) /\ SaysOK(c, t, k, up, in) /\ ToldOK(c, t, k, q, down)

ConnectionOK(c) == AllOK(c, task[c], conn[c], active, toConn[c], toMain, inbox, out)

(* The tasks handed over and not started yet. *)
HandedOver ==
    /\ \A i \in 1 .. Len(newTasks) : task[newTasks[i]].pc \in {"dial?", "run?"}
    /\ \A i, j \in 1 .. Len(newTasks) : newTasks[i] = newTasks[j] => i = j
    /\ main = "newTask" => conn[target] = "pending" /\ task[target].pc = "none"

(* What the main task has done when it gets to a place of its round. *)
RoundOK ==
    /\ ~woken /\ main \notin {"listen", "lock", "inject"} => toMain = <<>>
    /\ main \in {"connect", "newTask", "pull", "wait"} => inbox = <<>>
    /\ main = "wait" /\ ~woken => \A i \in 1 .. Len(out) : out[i].m.k = "neighbor"

Kinds == {None, "HandshakeFinished", "news", "pingFailed", "StartShutdown", Finished, Ack,
          "response", "request", "neighbor"}
Msgs == [k : Kinds, r : Reqs \cup {None}]
Sent == [conn : Conns, m : Msgs]
ConnStates == {"none", "pending", "Handshaking", "Open", "ShuttingApi", "ShuttingEarly",
               "Shutting", "gone"}
Tasks == [pc : {"none", "dial?", "dial", "done"} \cup Started,
          st : {"Handshake", "Established", "WaitingAck", "Acked"},
          pend : Seq(Msgs), msg : Msgs, reqs : SUBSET (Reqs \cup {None}), socket : BOOLEAN]

TypeOK ==
    /\ task \in [Conns -> Tasks]
    /\ conn \in [Conns -> ConnStates]
    /\ toConn \in [Conns -> Seq(Msgs)]
    /\ toMain \in Seq(Sent) /\ inbox \in Seq(Sent) /\ out \in Seq(Sent)
    /\ newTasks \in Seq(Conns)
    /\ active \in SUBSET Conns /\ known \in SUBSET Conns
    /\ main = "newTask" => target \in Conns
    /\ woken \in BOOLEAN /\ panicked \in BOOLEAN

(* The inductive invariant. *)
ServiceInv ==
    /\ TypeOK
    /\ \A c \in Conns : ConnectionOK(c)
    /\ HandedOver
    /\ RoundOK
    /\ ~panicked

-----------------------------------------------------------------------------
(* Queues.                                                                 *)

(* Sending a message at the end of a queue. *)
LEMMA AppendQueue ==
    ASSUME NEW q \in Seq(Sent), NEW x \in Sent, NEW c, NEW k
    PROVE  /\ Silent(Append(q, x), c) <=> Silent(q, c) /\ x.conn # c
           /\ Holds(Append(q, x), c, k) <=> Holds(q, c, k) \/ (x.conn = c /\ x.m.k = k)
           /\ Ends(q, c, k) /\ (x.conn = c => ~Holds(q, c, k)) => Ends(Append(q, x), c, k)
<1> DEFINE a == Append(q, x)
<1>1. /\ Len(q) \in Nat /\ Len(a) = Len(q) + 1 /\ a[Len(q) + 1] = x
      /\ \A i \in 1 .. Len(q) : a[i] = q[i]
  OBVIOUS
<1>2. \A i \in 1 .. Len(a) : i \in 1 .. Len(q) \/ i = Len(q) + 1
  BY <1>1
<1>3. \A i \in 1 .. Len(q) : i \in 1 .. Len(a)
  BY <1>1
<1>4. Len(q) + 1 \in 1 .. Len(a)
  BY <1>1
<1> HIDE DEF a
<1>5. Silent(a, c) <=> Silent(q, c) /\ x.conn # c
  BY <1>1, <1>2, <1>3, <1>4, Zenon DEF Silent
<1>6. Holds(a, c, k) <=> Holds(q, c, k) \/ (x.conn = c /\ x.m.k = k)
  BY <1>1, <1>2, <1>3, <1>4, Zenon DEF Holds
<1>7. ASSUME Ends(q, c, k), x.conn = c => ~Holds(q, c, k) PROVE Ends(a, c, k)
  <2> SUFFICES ASSUME NEW i \in 1 .. Len(a), a[i].conn = c, a[i].m.k = k,
                      NEW j \in 1 .. Len(a), i < j
               PROVE  a[j].conn # c
    BY DEF Ends
  <2>1. i \in 1 .. Len(q)
    BY <1>1
  <2>2. Holds(q, c, k)
    BY <1>1, <2>1, Zenon DEF Holds
  <2>3. CASE j = Len(q) + 1
    BY <1>1, <1>7, <2>2, <2>3, Zenon
  <2>4. CASE j \in 1 .. Len(q)
    BY <1>1, <1>7, <2>1, <2>4, Zenon DEF Ends
  <2> QED BY <1>2, <2>3, <2>4
<1> QED BY <1>5, <1>6, <1>7 DEF a

(* Taking the first message of a queue. *)
LEMMA TailQueue ==
    ASSUME NEW q \in Seq(Sent), q # <<>>, NEW c, NEW k
    PROVE  /\ Head(q) \in Sent /\ Tail(q) \in Seq(Sent)
           /\ Silent(q, c) => Silent(Tail(q), c) /\ Head(q).conn # c
           /\ Holds(Tail(q), c, k) => Holds(q, c, k)
           /\ Ends(q, c, k) => Ends(Tail(q), c, k)
           /\ Head(q).conn = c /\ Head(q).m.k = k => Holds(q, c, k)
           /\ Ends(q, c, k) /\ Head(q).conn = c /\ Head(q).m.k = k => Silent(Tail(q), c)
<1> DEFINE a == Tail(q)
<1>1. /\ Len(q) \in Nat \ {0} /\ a \in Seq(Sent) /\ Len(a) = Len(q) - 1 /\ Head(q) = q[1]
      /\ \A i \in 1 .. Len(a) : a[i] = q[i + 1]
      /\ Head(q) \in Sent
  OBVIOUS
<1>2. \A i \in 1 .. Len(a) : i + 1 \in 1 .. Len(q) /\ 1 < i + 1
  BY <1>1
<1>3. 1 \in 1 .. Len(q)
  BY <1>1
<1> HIDE DEF a
<1>4. Silent(q, c) => Silent(a, c) /\ Head(q).conn # c
  BY <1>1, <1>2, <1>3, Zenon DEF Silent
<1>5. Holds(a, c, k) => Holds(q, c, k)
  BY <1>1, <1>2, Zenon DEF Holds
<1>6. Ends(q, c, k) => Ends(a, c, k)
  <2> SUFFICES ASSUME Ends(q, c, k), NEW i \in 1 .. Len(a), a[i].conn = c, a[i].m.k = k,
                      NEW j \in 1 .. Len(a), i < j
               PROVE  a[j].conn # c
    BY DEF Ends
  <2>1. i + 1 < j + 1
    BY <1>1
  <2> QED BY <1>1, <1>2, <2>1, Zenon DEF Ends
<1>7. Head(q).conn = c /\ Head(q).m.k = k => Holds(q, c, k)
  BY <1>1, <1>3, Zenon DEF Holds
<1>8. Ends(q, c, k) /\ Head(q).conn = c /\ Head(q).m.k = k => Silent(a, c)
  BY <1>1, <1>2, <1>3, Zenon DEF Ends, Silent
<1> QED BY <1>1, <1>4, <1>5, <1>6, <1>7, <1>8 DEF a

(* The same for the messages of a single connection. *)
LEMMA AppendMsg ==
    ASSUME NEW q \in Seq(Msgs), NEW x \in Msgs, NEW k
    PROVE  /\ HoldsMsg(Append(q, x), k) <=> HoldsMsg(q, k) \/ x.k = k
           /\ ~HoldsMsg(q, k) => EndsMsg(Append(q, x), k)
<1> DEFINE a == Append(q, x)
<1>1. /\ Len(q) \in Nat /\ Len(a) = Len(q) + 1 /\ a[Len(q) + 1] = x
      /\ \A i \in 1 .. Len(q) : a[i] = q[i]
  OBVIOUS
<1>2. \A i \in 1 .. Len(a) : i \in 1 .. Len(q) \/ i = Len(q) + 1
  BY <1>1
<1>3. /\ \A i \in 1 .. Len(q) : i \in 1 .. Len(a)
      /\ Len(q) + 1 \in 1 .. Len(a)
  BY <1>1
<1> HIDE DEF a
<1>4. HoldsMsg(a, k) <=> HoldsMsg(q, k) \/ x.k = k
  BY <1>1, <1>2, <1>3, Zenon DEF HoldsMsg
<1>5. ~HoldsMsg(q, k) => EndsMsg(a, k)
  BY <1>1, <1>2, Zenon DEF HoldsMsg, EndsMsg
<1> QED BY <1>4, <1>5 DEF a

(* Taking the first message of such a sequence. *)
LEMMA TailMsg ==
    ASSUME NEW q \in Seq(Msgs), q # <<>>, NEW k
    PROVE  /\ Head(q) \in Msgs /\ Tail(q) \in Seq(Msgs)
           /\ HoldsMsg(Tail(q), k) => HoldsMsg(q, k)
           /\ EndsMsg(q, k) => EndsMsg(Tail(q), k)
           /\ Head(q).k = k => HoldsMsg(q, k)
           /\ EndsMsg(q, k) /\ Head(q).k = k => Tail(q) = <<>>
<1> DEFINE a == Tail(q)
<1>1. /\ Len(q) \in Nat \ {0} /\ a \in Seq(Msgs) /\ Len(a) = Len(q) - 1 /\ Head(q) = q[1]
      /\ \A i \in 1 .. Len(a) : a[i] = q[i + 1]
      /\ Head(q) \in Msgs
  OBVIOUS
<1> HIDE DEF a
<1>2. \A i \in 1 .. Len(a) : i + 1 \in 1 .. Len(q) /\ (i + 1 = Len(q) => i = Len(a))
  BY <1>1
<1>3. 1 \in 1 .. Len(q)
  BY <1>1
<1>4. 1 = Len(q) => a = <<>>
  <2>1. a # <<>> => Len(a) # 0
    BY <1>1, EmptySeq
  <2> QED BY <1>1, <2>1
<1>8. HoldsMsg(a, k) => HoldsMsg(q, k)
  BY <1>1, <1>2, Zenon DEF HoldsMsg
<1>5. EndsMsg(q, k) => EndsMsg(a, k)
  BY <1>1, <1>2, Zenon DEF EndsMsg
<1>6. Head(q).k = k => HoldsMsg(q, k)
  BY <1>1, <1>3, Zenon DEF HoldsMsg
<1>7. EndsMsg(q, k) /\ Head(q).k = k => a = <<>>
  BY <1>1, <1>3, <1>4, Zenon DEF EndsMsg
<1> QED BY <1>1, <1>8, <1>5, <1>6, <1>7 DEF a

(* Nothing new of connection c in the queue q2, where q was. *)
Fewer(q2, q, c, k) ==
    /\ Silent(q, c) => Silent(q2, c)
    /\ Holds(q2, c, k) => Holds(q, c, k)
    /\ Ends(q, c, k) => Ends(q2, c, k)

(* A message of another connection. *)
LEMMA FewerAppend ==
    ASSUME NEW q \in Seq(Sent), NEW x \in Sent, NEW c, NEW k, x.conn # c
    PROVE  Fewer(Append(q, x), q, c, k)
BY AppendQueue, Zenon DEF Fewer

(* Taking the first message of a queue adds nothing to it. *)
LEMMA FewerTail ==
    ASSUME NEW q \in Seq(Sent), q # <<>>, NEW c, NEW k
    PROVE  Fewer(Tail(q), q, c, k)
BY TailQueue, Zenon DEF Fewer

(* A queue that is left alone. *)
LEMMA FewerSame ==
    ASSUME NEW q, NEW c, NEW k
    PROVE  Fewer(q, q, c, k)
BY Zenon DEF Fewer

(* What the other connections do changes nothing for connection c. *)
LEMMA FrameAll ==
    ASSUME NEW c, NEW t, NEW k, NEW act, NEW q, NEW up, NEW in, NEW down,
           NEW act2, NEW up2, NEW in2, NEW down2,
           AllOK(c, t, k, act, q, up, in, down), c \in act2 <=> c \in act,
           Fewer(up2, up, c, Finished), Fewer(in2, in, c, Finished), Fewer(down2, down, c, Ack)
    PROVE  AllOK(c, t, k, act2, q, up2, in2, down2)
<1>1. TaskOK(c, t, k, act2)
  BY Zenon DEF AllOK, TaskOK
<1>2. SaysOK(c, t, k, up2, in2)
  BY Zenon DEF AllOK, SaysOK, Fewer
<1>3. ToldOK(c, t, k, q, down2)
  BY Zenon DEF AllOK, ToldOK, Fewer
<1> QED BY <1>1, <1>2, <1>3, Zenon DEF AllOK

-----------------------------------------------------------------------------
(* The steps of a task, on its own state.                                  *)

(* The task moves on in its loop. *)
LEMMA LoopOK ==
    ASSUME NEW c, NEW t \in Tasks, NEW k, NEW act, NEW q, NEW up, NEW in, NEW down,
           AllOK(c, t, k, act, q, up, in, down),
           NEW p \in Quiet, t.pc \in Quiet
    PROVE  /\ [t EXCEPT !.pc = p] \in Tasks
           /\ AllOK(c, [t EXCEPT !.pc = p], k, act, q, up, in, down)
<1> DEFINE u == [t EXCEPT !.pc = p]
<1>1. /\ u \in Tasks /\ u.pc = p /\ u.st = t.st /\ u.pend = t.pend /\ u.msg = t.msg /\ u.reqs = t.reqs
  BY DEF Tasks, Started, Quiet
<1>2. /\ u.pc \in Started /\ u.pc \notin {"none", "dial?", "dial", "exit"} /\ u.pc # "sending"
      /\ t.pc \in Started /\ t.pc \notin {"none", "dial?", "dial", "exit"} /\ t.pc # "sending"
  BY <1>1 DEF Started, Quiet
<1> HIDE DEF u
<1>3. TaskOK(c, u, k, act)
  BY <1>1, <1>2, Zenon DEF AllOK, TaskOK
<1>4. SaysOK(c, u, k, up, in)
  BY <1>1, <1>2, Zenon DEF AllOK, SaysOK, Speaking
<1>5. ToldOK(c, u, k, q, down)
  BY <1>1, <1>2, Zenon DEF AllOK, ToldOK
<1> QED BY <1>1, <1>3, <1>4, <1>5 DEF AllOK, u

(* A live connection has one more message, other than ShutdownFinished, to *)
(* say.                                                                    *)
LEMMA SaysMore ==
    ASSUME NEW c, NEW t \in Tasks, NEW k, NEW act, NEW q, NEW up, NEW in, NEW down,
           AllOK(c, t, k, act, q, up, in, down), t.pc \in Started,
           t.st \in {"Handshake", "Established"},
           NEW u \in Tasks, u.pc = t.pc, u.msg = t.msg, u.st \in {"Handshake", "Established"},
           NEW m \in Msgs, m.k # Finished, u.pend = Append(t.pend, m)
    PROVE  AllOK(c, u, k, act, q, up, in, down)
<1>1. t.pend \in Seq(Msgs)
  BY DEF Tasks
<1>2. /\ t.pc # "exit" /\ u.pc # "exit" /\ k # "gone"
      /\ ~HoldsMsg(t.pend, Finished) /\ ~(t.pc = "sending" /\ t.msg.k = Finished)
      /\ ~Holds(up, c, Finished) /\ ~Holds(in, c, Finished)
  <2>1. t.st # "Acked" /\ t.pc \in Started /\ t.st \in {"Handshake", "Established"}
    OBVIOUS
  <2> QED BY <2>1, Zenon DEF AllOK, TaskOK, SaysOK
<1>3. ~HoldsMsg(u.pend, Finished) /\ EndsMsg(u.pend, Finished)
  <2>1. /\ HoldsMsg(Append(t.pend, m), Finished) <=> HoldsMsg(t.pend, Finished) \/ m.k = Finished
        /\ ~HoldsMsg(t.pend, Finished) => EndsMsg(Append(t.pend, m), Finished)
    BY <1>1, AppendMsg, Zenon
  <2> QED BY <1>2, <2>1, Zenon
<1>4. TaskOK(c, u, k, act)
  BY <1>2, Zenon DEF AllOK, TaskOK
<1>5. SaysOK(c, u, k, up, in)
  BY <1>2, <1>3, Zenon DEF AllOK, SaysOK
<1>6. u.st # "Acked"
  OBVIOUS
<1>7. ToldOK(c, u, k, q, down)
  BY <1>6, Zenon DEF AllOK, ToldOK
<1> QED BY <1>4, <1>5, <1>7, Zenon DEF AllOK

(* A live connection shuts down. *)
LEMMA ShutDownOK ==
    ASSUME NEW c, NEW t \in Tasks, NEW k, NEW act, NEW q, NEW up, NEW in, NEW down,
           AllOK(c, t, k, act, q, up, in, down), t.pc \in Started,
           t.st \in {"Handshake", "Established"}
    PROVE  /\ ShutDown(t) \in Tasks /\ ShutDown(t).pc = t.pc /\ ShutDown(t).socket = t.socket
           /\ AllOK(c, ShutDown(t), k, act, q, up, in, down)
<1> DEFINE u == ShutDown(t)
           m1 == Msg("StartShutdown", None)
           m2 == Msg("ShutdownFinished", None)
<1>1. t.pend \in Seq(Msgs) /\ m1 \in Msgs /\ m2 \in Msgs /\ m1.k # Finished /\ m2.k = Finished
  BY DEF Tasks, Msg, Msgs, Kinds, Finished
<1>2. t.pend \o <<m1, m2>> = Append(Append(t.pend, m1), m2)
  BY <1>1
<1>3. /\ u \in Tasks /\ u.pc = t.pc /\ u.st = "WaitingAck" /\ u.reqs = {} /\ u.msg = t.msg
      /\ u.socket = t.socket
      /\ u.pend = Append(Append(t.pend, m1), m2)
  <2> HIDE DEF m1, m2
  <2>1. Append(Append(t.pend, m1), m2) \in Seq(Msgs)
    BY <1>1
  <2>2. u = [t EXCEPT !.st = "WaitingAck", !.reqs = {}, !.pend = Append(Append(t.pend, m1), m2)]
    BY <1>2, Zenon DEF ShutDown, m1, m2
  <2> HIDE DEF u
  <2> QED BY <2>1, <2>2 DEF Tasks
<1> HIDE DEF u, m1, m2
<1>4. /\ t.pc # "exit" /\ k # "gone"
      /\ ~HoldsMsg(t.pend, Finished) /\ ~(t.pc = "sending" /\ t.msg.k = Finished)
      /\ ~Holds(up, c, Finished) /\ ~Holds(in, c, Finished)
  <2>1. t.st # "Acked" /\ t.pc \in Started /\ t.st \in {"Handshake", "Established"}
    OBVIOUS
  <2> QED BY <2>1, Zenon DEF AllOK, TaskOK, SaysOK
<1>5. Append(t.pend, m1) \in Seq(Msgs)
  BY <1>1
<1>6. ~HoldsMsg(Append(t.pend, m1), Finished)
  BY <1>1, <1>4, AppendMsg, Zenon
<1>7. EndsMsg(u.pend, Finished)
  <2>1. ~HoldsMsg(Append(t.pend, m1), Finished) => EndsMsg(Append(Append(t.pend, m1), m2), Finished)
    BY <1>1, <1>5, AppendMsg, Zenon
  <2> QED BY <1>3, <1>6, <2>1, Zenon
<1>8. TaskOK(c, u, k, act)
  BY <1>3, <1>4, Zenon DEF AllOK, TaskOK
<1>9. u.st \notin {"Handshake", "Established"} /\ u.st # "Acked"
  BY <1>3
<1>10. SaysOK(c, u, k, up, in)
  BY <1>3, <1>4, <1>7, <1>9, Zenon DEF AllOK, SaysOK
<1>11. ToldOK(c, u, k, q, down)
  BY <1>3, <1>9, Zenon DEF AllOK, ToldOK
<1> QED BY <1>3, <1>8, <1>10, <1>11 DEF AllOK, u

(* inject_coordinator_message. *)
LEMMA InjectedOK ==
    ASSUME NEW c, NEW t \in Tasks, NEW k, NEW act, NEW q \in Seq(Msgs), NEW up, NEW in, NEW down,
           AllOK(c, t, k, act, q, up, in, down), t.pc \in {"inject", "sending"}, q # <<>>
    PROVE  /\ Injected(t, Head(q)) \in Tasks /\ Injected(t, Head(q)).pc = t.pc
           /\ AllOK(c, Injected(t, Head(q)), k, act, Tail(q), up, in, down)
<1> DEFINE m == Head(q)
           r == Tail(q)
<1>1. /\ m \in Msgs /\ r \in Seq(Msgs) /\ t.pc \in Started /\ t.pc # "exit"
      /\ t.st \in {"Handshake", "Established", "WaitingAck", "Acked"}
  BY DEF Started, Tasks
<1>2. HoldsMsg(r, Ack) => HoldsMsg(q, Ack)
  BY TailMsg, Zenon
<1>3. EndsMsg(q, Ack) => EndsMsg(r, Ack)
  BY TailMsg, Zenon
<1>4. m.k = Ack => HoldsMsg(q, Ack)
  BY TailMsg, Zenon
<1>5. EndsMsg(q, Ack) /\ m.k = Ack => r = <<>>
  BY TailMsg, Zenon
<1> HIDE DEF m, r
<1>6. t.st # "Acked"
  BY Zenon DEF AllOK, ToldOK
<1>7. AllOK(c, t, k, act, r, up, in, down)
  <2>1. ToldOK(c, t, k, r, down)
    BY <1>1, <1>2, <1>3, <1>6, Zenon DEF AllOK, ToldOK
  <2> QED BY <2>1, Zenon DEF AllOK
<1>8. CASE m.k = "StartShutdown" /\ t.st # "WaitingAck"
  <2>1. Injected(t, m) = ShutDown(t)
    BY <1>8 DEF Injected
  <2>2. t.st \in {"Handshake", "Established"}
    BY <1>1, <1>6, <1>8
  <2> QED BY <1>1, <1>7, <2>1, <2>2, ShutDownOK, Zenon DEF m, r
<1>9. CASE m.k = Ack
  <2> DEFINE u == Injected(t, m)
  <2>1. u = [t EXCEPT !.st = "Acked"]
    BY <1>9 DEF Injected, Ack
  <2>2. /\ u \in Tasks /\ u.pc = t.pc /\ u.st = "Acked" /\ u.pend = t.pend /\ u.msg = t.msg
        /\ u.reqs = t.reqs
    BY <2>1 DEF Tasks
  <2> HIDE DEF u
  <2>3. /\ EndsMsg(q, Ack) /\ HoldsMsg(q, Ack) /\ r = <<>> /\ Silent(down, c) /\ k = "gone"
    BY <1>4, <1>5, <1>9, Zenon DEF AllOK, ToldOK
  <2>4. t.st \notin {"Handshake", "Established"} /\ u.st \notin {"Handshake", "Established"}
    BY <1>1, <2>2, <2>3, SMT DEF AllOK, SaysOK
  <2>5. TaskOK(c, u, k, act)
    BY <1>1, <2>2, <2>4, Zenon DEF AllOK, TaskOK
  <2>6. SaysOK(c, u, k, up, in)
    BY <2>2, <2>4, Zenon DEF AllOK, SaysOK, Speaking
  <2>7. ToldOK(c, u, k, r, down)
    BY <1>7, <2>2, <2>3, Zenon DEF AllOK, ToldOK
  <2> QED BY <2>2, <2>5, <2>6, <2>7, Zenon DEF AllOK, u, m, r
<1>10. CASE m.k = "request" /\ t.st = "Established"
  <2> DEFINE u == Injected(t, m)
  <2>1. u = [t EXCEPT !.reqs = @ \cup {m.r}]
    BY <1>10 DEF Injected
  <2>2. m.r \in Reqs \cup {None}
    BY <1>1 DEF Msgs
  <2>3. /\ u \in Tasks /\ u.pc = t.pc /\ u.st = t.st /\ u.pend = t.pend /\ u.msg = t.msg
    BY <2>1, <2>2 DEF Tasks
  <2>4. u.st \in {"Handshake", "Established"}
    BY <1>10, <2>3
  <2> HIDE DEF u
  <2>5. TaskOK(c, u, k, act)
    BY <1>1, <2>3, <2>4, Zenon DEF AllOK, TaskOK
  <2>6. SaysOK(c, u, k, up, in)
    BY <2>3, <2>4, Zenon DEF AllOK, SaysOK, Speaking
  <2>7. ToldOK(c, u, k, r, down)
    BY <1>7, <2>3, Zenon DEF AllOK, ToldOK
  <2> QED BY <2>3, <2>5, <2>6, <2>7, Zenon DEF AllOK, u, m, r
<1>11. CASE Injected(t, m) = t
  BY <1>7, <1>11, Zenon DEF m, r
<1>12. \/ m.k = "StartShutdown" /\ t.st # "WaitingAck"
       \/ m.k = Ack
       \/ m.k = "request" /\ t.st = "Established"
       \/ Injected(t, m) = t
  BY DEF Injected, Ack
<1> QED BY <1>8, <1>9, <1>10, <1>11, <1>12, Zenon

(* read_write, then pull_message_to_coordinator. *)
LEMMA PulledOK ==
    ASSUME NEW c, NEW t \in Tasks, NEW k, NEW act, NEW q, NEW up, NEW in, NEW down,
           AllOK(c, t, k, act, q, up, in, down), t.pc = "io"
    PROVE  /\ Pulled(t) \in Tasks /\ AllOK(c, Pulled(t), k, act, q, up, in, down)
<1> DEFINE u == Pulled(t)
<1>1. t.pc \in Started /\ t.pc # "sending" /\ t.pend \in Seq(Msgs)
  BY DEF Tasks, Started
<1>2. CASE t.st = "Acked"
  <2>1. u = [t EXCEPT !.pc = "exit"]
    BY <1>2 DEF Pulled
  <2>2. /\ u \in Tasks /\ u.pc = "exit" /\ u.st = "Acked" /\ u.pend = t.pend /\ u.msg = t.msg
        /\ u.reqs = t.reqs /\ u.pc \in Started
    BY <1>2, <2>1 DEF Tasks, Started
  <2> HIDE DEF u
  <2>3. TaskOK(c, u, k, act)
    BY <1>1, <1>2, <2>2, Zenon DEF AllOK, TaskOK
  <2>4. SaysOK(c, u, k, up, in)
    BY <1>1, <1>2, <2>2, Zenon DEF AllOK, SaysOK, Speaking
  <2>5. ToldOK(c, u, k, q, down)
    BY <1>1, <1>2, <2>2, Zenon DEF AllOK, ToldOK
  <2> QED BY <2>2, <2>3, <2>4, <2>5, Zenon DEF AllOK, u
<1>3. CASE t.st # "Acked" /\ t.pend # <<>>
  <2>1. u = [t EXCEPT !.pc = "sending", !.msg = Head(t.pend), !.pend = Tail(t.pend)]
    BY <1>3 DEF Pulled
  <2>2. Head(t.pend) \in Msgs /\ Tail(t.pend) \in Seq(Msgs)
    BY <1>1, <1>3
  <2>3. /\ u \in Tasks /\ u.pc = "sending" /\ u.st = t.st /\ u.pend = Tail(t.pend)
        /\ u.msg = Head(t.pend) /\ u.reqs = t.reqs /\ u.pc \in Started
    BY <2>1, <2>2 DEF Tasks, Started
  <2> HIDE DEF u
  <2>4. TaskOK(c, u, k, act)
    BY <1>1, <2>3, Zenon DEF AllOK, TaskOK
  <2>5. /\ EndsMsg(t.pend, Finished) => EndsMsg(u.pend, Finished)
        /\ HoldsMsg(u.pend, Finished) => HoldsMsg(t.pend, Finished)
        /\ u.msg.k = Finished => HoldsMsg(t.pend, Finished)
        /\ EndsMsg(t.pend, Finished) /\ u.msg.k = Finished => u.pend = <<>>
    BY <1>1, <1>3, <2>3, TailMsg, Zenon
  <2>6. SaysOK(c, u, k, up, in)
    BY <1>1, <1>3, <2>3, <2>5, Zenon DEF AllOK, SaysOK, Speaking
  <2>7. ToldOK(c, u, k, q, down)
    BY <1>1, <1>3, <2>3, Zenon DEF AllOK, ToldOK
  <2> QED BY <2>3, <2>4, <2>6, <2>7, Zenon DEF AllOK, u
<1>4. CASE t.st # "Acked" /\ t.pend = <<>>
  <2>1. Pulled(t) = [t EXCEPT !.pc = "idle"]
    BY <1>4 DEF Pulled
  <2>2. "idle" \in Quiet /\ t.pc \in Quiet
    BY DEF Quiet
  <2>3. /\ [t EXCEPT !.pc = "idle"] \in Tasks
        /\ AllOK(c, [t EXCEPT !.pc = "idle"], k, act, q, up, in, down)
    BY <2>2, LoopOK, Zenon
  <2> QED BY <2>1, <2>3
<1> QED BY <1>2, <1>3, <1>4, Zenon

(* The message is sent to the main task. *)
LEMMA SendOK ==
    ASSUME NEW c \in Conns, NEW t \in Tasks, NEW k, NEW act, NEW q, NEW up \in Seq(Sent), NEW in,
           NEW down, AllOK(c, t, k, act, q, up, in, down), t.pc = "sending",
           NEW u \in Tasks, u.pc \in {"idle", "inject"}, u.st = t.st, u.pend = t.pend, u.reqs = t.reqs
    PROVE  AllOK(c, u, k, act, q, Append(up, From(c, t.msg)), in, down)
<1> DEFINE x == From(c, t.msg)
           up2 == Append(up, x)
<1>1. x \in Sent /\ x.conn = c /\ x.m = t.msg
  BY DEF From, Sent, Tasks
<1>2. /\ t.pc \in Started /\ u.pc \in Started /\ u.pc # "sending"
      /\ u.pc \notin {"none", "dial?", "dial", "exit"}
      /\ t.pc \notin {"none", "dial?", "dial", "exit"}
  BY DEF Started
<1>3. Speaking(t)
  BY Zenon DEF Speaking
<1>4. Holds(up2, c, Finished) <=> Holds(up, c, Finished) \/ t.msg.k = Finished
  <2> HIDE DEF x
  <2>1. Holds(up2, c, Finished) <=> Holds(up, c, Finished) \/ (x.conn = c /\ x.m.k = Finished)
    BY <1>1, AppendQueue, Zenon
  <2> QED BY <1>1, <2>1, Zenon
<1>5. Ends(up, c, Finished) /\ ~Holds(up, c, Finished) => Ends(up2, c, Finished)
  BY <1>1, AppendQueue, Zenon
<1> HIDE DEF up2
<1>6. TaskOK(c, u, k, act)
  BY <1>2, Zenon DEF AllOK, TaskOK
<1>7. SaysOK(c, u, k, up2, in)
  <2>1. /\ Ends(up2, c, Finished) /\ ~Holds(in, c, Finished) /\ k # "gone"
        /\ ~Holds(up, c, Finished)
    BY <1>3, <1>5, Zenon DEF AllOK, SaysOK
  <2>2. Holds(up2, c, Finished) => ~Speaking(u)
    BY <1>2, <1>4, <2>1, Zenon DEF AllOK, SaysOK, Speaking
  <2> QED BY <1>2, <1>4, <2>1, <2>2, Zenon DEF AllOK, SaysOK
<1>8. ToldOK(c, u, k, q, down)
  BY <1>2, Zenon DEF AllOK, ToldOK
<1> QED BY <1>6, <1>7, <1>8, Zenon DEF AllOK, up2

-----------------------------------------------------------------------------
(* The tasks.                                                              *)

(* A step that concerns one connection keeps the invariant when it leaves   *)
(* that connection, the tasks handed over and the round in order, and adds  *)
(* nothing of the other connections to the queues.                          *)
LEMMA OneConnInv ==
    ASSUME ServiceInv, TypeOK', HandedOver', RoundOK', panicked' = panicked,
           NEW c \in Conns, ConnectionOK(c)',
           \A d \in Conns \ {c} :
               /\ task'[d] = task[d] /\ conn'[d] = conn[d] /\ toConn'[d] = toConn[d]
               /\ d \in active' <=> d \in active
               /\ Fewer(toMain', toMain, d, Finished) /\ Fewer(inbox', inbox, d, Finished)
               /\ Fewer(out', out, d, Ack)
    PROVE  ServiceInv'
<1>1. ASSUME NEW d \in Conns, d # c PROVE ConnectionOK(d)'
  <2>1. /\ task'[d] = task[d] /\ conn'[d] = conn[d] /\ toConn'[d] = toConn[d]
        /\ d \in active' <=> d \in active
        /\ Fewer(toMain', toMain, d, Finished) /\ Fewer(inbox', inbox, d, Finished)
        /\ Fewer(out', out, d, Ack)
    BY <1>1
  <2>2. AllOK(d, task[d], conn[d], active, toConn[d], toMain, inbox, out)
    BY Zenon DEF ServiceInv, ConnectionOK
  <2>3. AllOK(d, task[d], conn[d], active', toConn[d], toMain', inbox', out')
    BY <2>1, <2>2, FrameAll, Zenon
  <2> QED BY <2>1, <2>3, Zenon DEF ConnectionOK
<1>2. \A d \in Conns : ConnectionOK(d)'
  BY <1>1, Zenon
<1>3. ~panicked'
  BY DEF ServiceInv
<1> QED BY <1>2, <1>3, Zenon DEF ServiceInv

(* A step of the task of one connection, once it runs: the invariant is kept *)
(* when that connection is left in order, what is said is said by it, and    *)
(* the main task is woken up when something is.                              *)
LEMMA TaskStepInv ==
    ASSUME ServiceInv, NEW c \in Conns, NEW t \in Tasks, NEW q \in Seq(Msgs), NEW up \in Seq(Sent),
           task' = [task EXCEPT ![c] = t], toConn' = [toConn EXCEPT ![c] = q], toMain' = up,
           task[c].pc \in {"inject", "io", "sending", "idle"},
           AllOK(c, t, conn[c], active, q, up, inbox, out),
           \A d \in Conns \ {c} : Fewer(up, toMain, d, Finished),
           (up = toMain /\ woken' = woken) \/ woken' = TRUE,
           OnlyTask
    PROVE  ServiceInv'
<1> USE DEF OnlyTask, TaskUnchanged, mainVars, userVars
<1>1. TypeOK'
  <2>1. /\ task' \in [Conns -> Tasks] /\ toConn' \in [Conns -> Seq(Msgs)] /\ toMain' \in Seq(Sent)
        /\ woken' \in BOOLEAN
    BY DEF ServiceInv, TypeOK
  <2> QED BY <2>1, Zenon DEF ServiceInv, TypeOK
<1>2. ConnectionOK(c)'
  <2>1. task'[c] = t /\ toConn'[c] = q
    BY DEF ServiceInv, TypeOK
  <2> QED BY <2>1, Zenon DEF ConnectionOK
<1>3. HandedOver'
  <2>1. \A d \in Conns : task[d].pc \in {"none", "dial?", "run?"} => task'[d] = task[d]
    BY DEF ServiceInv, TypeOK
  <2>2. \A i \in 1 .. Len(newTasks) : newTasks[i] \in Conns
    BY DEF ServiceInv, TypeOK
  <2>3. \A i \in 1 .. Len(newTasks) : task'[newTasks[i]].pc \in {"dial?", "run?"}
    BY <2>1, <2>2 DEF ServiceInv, HandedOver
  <2>4. main = "newTask" => conn[target] = "pending" /\ task'[target].pc = "none"
    BY <2>1 DEF ServiceInv, HandedOver, TypeOK
  <2> QED BY <2>3, <2>4, Zenon DEF ServiceInv, HandedOver
<1>4. RoundOK'
  BY Zenon DEF ServiceInv, RoundOK
<1>5. \A d \in Conns \ {c} :
         /\ task'[d] = task[d] /\ conn'[d] = conn[d] /\ toConn'[d] = toConn[d]
         /\ d \in active' <=> d \in active
  BY DEF ServiceInv, TypeOK
<1>6. \A d \in Conns \ {c} :
         /\ Fewer(toMain', toMain, d, Finished) /\ Fewer(inbox', inbox, d, Finished)
         /\ Fewer(out', out, d, Ack)
  BY FewerSame, Zenon
<1> QED BY <1>1, <1>2, <1>3, <1>4, <1>5, <1>6, OneConnInv, Zenon

(* The facts of a connection that its steps start from. *)
LEMMA InvOf ==
    ASSUME ServiceInv, NEW c \in Conns
    PROVE  /\ task[c] \in Tasks /\ toConn[c] \in Seq(Msgs) /\ toMain \in Seq(Sent)
           /\ inbox \in Seq(Sent) /\ out \in Seq(Sent) /\ conn[c] \in ConnStates
           /\ AllOK(c, task[c], conn[c], active, toConn[c], toMain, inbox, out)
BY DEF ServiceInv, TypeOK, ConnectionOK

(* A step of a task that only changes its own state. *)
LEMMA OwnStepInv ==
    ASSUME ServiceInv, NEW c \in Conns, NEW t \in Tasks, task' = [task EXCEPT ![c] = t],
           task[c].pc \in {"inject", "io", "sending", "idle"},
           AllOK(c, t, conn[c], active, toConn[c], toMain, inbox, out),
           OnlyTask, UNCHANGED <<woken, toMain, toConn>>
    PROVE  ServiceInv'
<1>1. toConn[c] \in Seq(Msgs) /\ toMain \in Seq(Sent)
  BY InvOf, Zenon
<1>2. toConn' = [toConn EXCEPT ![c] = toConn[c]]
  BY DEF ServiceInv, TypeOK
<1>3. \A d \in Conns \ {c} : Fewer(toMain, toMain, d, Finished)
  BY FewerSame, Zenon
<1> HIDE DEF OnlyTask
<1> QED BY <1>1, <1>2, <1>3, TaskStepInv

(* A step of a task that takes a message of the main task. *)
LEMMA TakeStepInv ==
    ASSUME ServiceInv, NEW c \in Conns, task[c].pc \in {"inject", "sending"}, toConn[c] # <<>>,
           task' = [task EXCEPT ![c] = Injected(@, Head(toConn[c]))],
           toConn' = [toConn EXCEPT ![c] = Tail(@)],
           OnlyTask, UNCHANGED <<woken, toMain>>
    PROVE  ServiceInv'
<1> DEFINE t == Injected(task[c], Head(toConn[c]))
           q == Tail(toConn[c])
<1>1. /\ task[c] \in Tasks /\ toConn[c] \in Seq(Msgs) /\ toMain \in Seq(Sent)
      /\ AllOK(c, task[c], conn[c], active, toConn[c], toMain, inbox, out)
  BY InvOf, Zenon
<1>2. t \in Tasks /\ AllOK(c, t, conn[c], active, q, toMain, inbox, out)
  BY <1>1, InjectedOK, Zenon
<1>3. q \in Seq(Msgs)
  BY <1>1
<1>4. task' = [task EXCEPT ![c] = t] /\ toConn' = [toConn EXCEPT ![c] = q]
  BY DEF ServiceInv, TypeOK
<1>5. \A d \in Conns \ {c} : Fewer(toMain, toMain, d, Finished)
  BY FewerSame, Zenon
<1>6. task[c].pc \in {"inject", "io", "sending", "idle"}
  OBVIOUS
<1> HIDE DEF t, q
<1> QED BY <1>1, <1>2, <1>3, <1>4, <1>5, <1>6, TaskStepInv

(* The start of the loop of connection_task takes a message, or goes on. *)
LEMMA InjectTaskInv ==
    ASSUME ServiceInv, NEW c \in Conns, InjectTask(c)
    PROVE  ServiceInv'
<1>1. CASE toConn[c] = <<>>
  <2>1. /\ task[c] \in Tasks
        /\ AllOK(c, task[c], conn[c], active, toConn[c], toMain, inbox, out)
    BY InvOf, Zenon
  <2>2. /\ task[c].pc \in Quiet /\ "io" \in Quiet
        /\ task[c].pc \in {"inject", "io", "sending", "idle"}
    BY DEF InjectTask, Quiet
  <2>3. /\ [task[c] EXCEPT !.pc = "io"] \in Tasks
        /\ AllOK(c, [task[c] EXCEPT !.pc = "io"], conn[c], active, toConn[c], toMain, inbox, out)
    BY <2>1, <2>2, LoopOK, Zenon
  <2>4. /\ task' = [task EXCEPT ![c] = [task[c] EXCEPT !.pc = "io"]]
        /\ OnlyTask /\ UNCHANGED <<woken, toMain, toConn>>
    BY <1>1 DEF InjectTask, ServiceInv, TypeOK
  <2> QED BY <2>2, <2>3, <2>4, OwnStepInv, Zenon
<1>2. CASE toConn[c] # <<>>
  <2>1. task[c].pc \in {"inject", "sending"}
    BY DEF InjectTask
  <2>2. /\ task' = [task EXCEPT ![c] = Injected(@, Head(toConn[c]))]
        /\ toConn' = [toConn EXCEPT ![c] = Tail(@)]
        /\ OnlyTask /\ UNCHANGED <<woken, toMain>>
    BY <1>2, Zenon DEF InjectTask
  <2> QED BY <1>2, <2>1, <2>2, TakeStepInv, Zenon
<1> QED BY <1>1, <1>2, Zenon

(* A message taken while the task waits for room in the channel. *)
LEMMA InjectWhileSendingInv ==
    ASSUME ServiceInv, NEW c \in Conns, InjectWhileSending(c)
    PROVE  ServiceInv'
<1>1. task[c].pc \in {"inject", "sending"} /\ toConn[c] # <<>>
  BY DEF InjectWhileSending
<1>2. /\ task' = [task EXCEPT ![c] = Injected(@, Head(toConn[c]))]
      /\ toConn' = [toConn EXCEPT ![c] = Tail(@)]
      /\ OnlyTask /\ UNCHANGED <<woken, toMain>>
  BY Zenon DEF InjectWhileSending
<1> QED BY <1>1, <1>2, TakeStepInv, Zenon

(* The wait at the end of the loop ends. *)
LEMMA WakeInv ==
    ASSUME ServiceInv, NEW c \in Conns, WakeByMessage(c) \/ WakeBySocket(c)
    PROVE  ServiceInv'
<1>1. /\ task[c] \in Tasks
      /\ AllOK(c, task[c], conn[c], active, toConn[c], toMain, inbox, out)
  BY InvOf, Zenon
<1>2. /\ task[c].pc \in Quiet /\ "inject" \in Quiet
      /\ task[c].pc \in {"inject", "io", "sending", "idle"}
  BY DEF WakeByMessage, WakeBySocket, Quiet
<1>3. /\ [task[c] EXCEPT !.pc = "inject"] \in Tasks
      /\ AllOK(c, [task[c] EXCEPT !.pc = "inject"], conn[c], active, toConn[c], toMain, inbox, out)
  BY <1>1, <1>2, LoopOK, Zenon
<1>4. /\ task' = [task EXCEPT ![c] = [task[c] EXCEPT !.pc = "inject"]]
      /\ OnlyTask /\ UNCHANGED <<woken, toMain, toConn>>
  BY DEF WakeByMessage, WakeBySocket, ServiceInv, TypeOK
<1> QED BY <1>2, <1>3, <1>4, OwnStepInv, Zenon

(* The end of every read_write: what the task has to say is pulled. *)
LEMMA PulledStepInv ==
    ASSUME ServiceInv, NEW c \in Conns, task[c].pc = "io",
           NEW t \in Tasks, t.pc = "io", AllOK(c, t, conn[c], active, toConn[c], toMain, inbox, out),
           task' = [task EXCEPT ![c] = Pulled(t)],
           OnlyTask, UNCHANGED <<woken, toMain, toConn>>
    PROVE  ServiceInv'
<1>1. Pulled(t) \in Tasks /\ AllOK(c, Pulled(t), conn[c], active, toConn[c], toMain, inbox, out)
  BY PulledOK, Zenon
<1>2. task[c].pc \in {"inject", "io", "sending", "idle"}
  OBVIOUS
<1> QED BY <1>1, <1>2, OwnStepInv, Zenon

(* A read_write that has nothing new to say. *)
LEMMA IoNothingInv ==
    ASSUME ServiceInv, NEW c \in Conns, IoNothing(c)
    PROVE  ServiceInv'
<1>1. /\ task[c] \in Tasks
      /\ AllOK(c, task[c], conn[c], active, toConn[c], toMain, inbox, out)
  BY InvOf, Zenon
<1>2. /\ task[c].pc = "io" /\ task' = [task EXCEPT ![c] = Pulled(task[c])]
      /\ OnlyTask /\ UNCHANGED <<woken, toMain, toConn>>
  BY DEF IoNothing, ServiceInv, TypeOK
<1> QED BY <1>1, <1>2, PulledStepInv, Zenon

(* The same when a live connection has one more message to say. *)
LEMMA SaysStepInv ==
    ASSUME ServiceInv, NEW c \in Conns, task[c].pc = "io",
           task[c].st \in {"Handshake", "Established"},
           NEW t \in Tasks, t.pc = "io", t.msg = task[c].msg, t.st \in {"Handshake", "Established"},
           NEW m \in Msgs, m.k # Finished, t.pend = Append(task[c].pend, m),
           task' = [task EXCEPT ![c] = Pulled(t)],
           OnlyTask, UNCHANGED <<woken, toMain, toConn>>
    PROVE  ServiceInv'
<1>1. /\ task[c] \in Tasks
      /\ AllOK(c, task[c], conn[c], active, toConn[c], toMain, inbox, out)
  BY InvOf, Zenon
<1>2. task[c].pc \in Started /\ t.pc = task[c].pc
  BY DEF Started
<1>3. AllOK(c, t, conn[c], active, toConn[c], toMain, inbox, out)
  BY <1>1, <1>2, SaysMore, Zenon
<1> QED BY <1>3, PulledStepInv, Zenon

(* One more message to say. *)
LEMMA SaysRecord ==
    ASSUME NEW t \in Tasks, NEW m \in Msgs
    PROVE  /\ Says(t, m) \in Tasks /\ Says(t, m).pc = t.pc /\ Says(t, m).msg = t.msg
           /\ Says(t, m).st = t.st /\ Says(t, m).pend = Append(t.pend, m)
<1>1. Append(t.pend, m) \in Seq(Msgs)
  BY DEF Tasks
<1> QED BY <1>1 DEF Says, Tasks

(* The response to a request. *)
LEMMA IoRespondInv ==
    ASSUME ServiceInv, NEW c \in Conns, IoRespond(c)
    PROVE  ServiceInv'
<1>1. PICK r \in task[c].reqs : task' = [task EXCEPT ![c] = Pulled(Responds(task[c], r))]
  BY Zenon DEF IoRespond
<1> DEFINE s == [task[c] EXCEPT !.reqs = @ \ {r}]
           m == Msg("response", r)
<1>2. /\ task[c] \in Tasks
      /\ AllOK(c, task[c], conn[c], active, toConn[c], toMain, inbox, out)
  BY InvOf, Zenon
<1>3. task[c].pc = "io" /\ OnlyTask /\ UNCHANGED <<woken, toMain, toConn>>
  BY Zenon DEF IoRespond
<1>4. task[c].st \in {"Handshake", "Established"}
  <2>1. task[c].reqs # {}
    OBVIOUS
  <2> QED BY <1>2, <2>1, Zenon DEF AllOK, TaskOK
<1>5. m \in Msgs /\ m.k # Finished
  BY <1>2 DEF Tasks, Msg, Msgs, Kinds, Finished
<1>6. /\ s \in Tasks /\ s.pc = "io" /\ s.msg = task[c].msg /\ s.st = task[c].st
      /\ s.pend = task[c].pend
  BY <1>2, <1>3 DEF Tasks
<1>7. Responds(task[c], r) = Says(s, m)
  BY Zenon DEF Responds
<1> HIDE DEF s, m
<1>8. /\ Says(s, m) \in Tasks /\ Says(s, m).pc = s.pc /\ Says(s, m).msg = s.msg
      /\ Says(s, m).st = s.st /\ Says(s, m).pend = Append(s.pend, m)
  BY <1>5, <1>6, SaysRecord, Zenon
<1> QED BY <1>1, <1>3, <1>4, <1>5, <1>6, <1>7, <1>8, SaysStepInv, Zenon

(* The end of the handshake. *)
LEMMA IoHandshakeInv ==
    ASSUME ServiceInv, NEW c \in Conns, IoHandshake(c)
    PROVE  ServiceInv'
<1> DEFINE m == Msg("HandshakeFinished", None)
           s == [task[c] EXCEPT !.st = "Established"]
<1>1. task[c] \in Tasks
  BY InvOf, Zenon
<1>2. /\ task[c].pc = "io" /\ OnlyTask /\ UNCHANGED <<woken, toMain, toConn>>
      /\ task[c].st \in {"Handshake", "Established"}
  BY DEF IoHandshake
<1>3. m \in Msgs /\ m.k # Finished
  BY DEF Msg, Msgs, Kinds, Finished
<1>4. task' = [task EXCEPT ![c] = Pulled(Says(s, m))]
  BY Zenon DEF IoHandshake, Established
<1>5. /\ s \in Tasks /\ s.pc = "io" /\ s.msg = task[c].msg /\ s.st \in {"Handshake", "Established"}
      /\ s.pend = task[c].pend
  BY <1>1, <1>2 DEF Tasks
<1> HIDE DEF s, m
<1>6. /\ Says(s, m) \in Tasks /\ Says(s, m).pc = s.pc /\ Says(s, m).msg = s.msg
      /\ Says(s, m).st = s.st /\ Says(s, m).pend = Append(s.pend, m)
  BY <1>3, <1>5, SaysRecord, Zenon
<1> QED BY <1>2, <1>3, <1>4, <1>5, <1>6, SaysStepInv, Zenon

(* A notification, or a ping that fails. *)
LEMMA IoNewsInv ==
    ASSUME ServiceInv, NEW c \in Conns, IoNews(c)
    PROVE  ServiceInv'
<1>1. PICK k \in {"news", "pingFailed"} : task' = [task EXCEPT ![c] = Pulled(Says(task[c], Msg(k, None)))]
  BY Zenon DEF IoNews
<1> DEFINE m == Msg(k, None)
<1>2. task[c] \in Tasks
  BY InvOf, Zenon
<1>3. /\ task[c].pc = "io" /\ OnlyTask /\ UNCHANGED <<woken, toMain, toConn>>
      /\ task[c].st \in {"Handshake", "Established"}
  BY DEF IoNews
<1>4. m \in Msgs /\ m.k # Finished
  BY DEF Msg, Msgs, Kinds, Finished
<1> HIDE DEF m
<1>5. /\ Says(task[c], m) \in Tasks /\ Says(task[c], m).pc = task[c].pc
      /\ Says(task[c], m).msg = task[c].msg /\ Says(task[c], m).st = task[c].st
      /\ Says(task[c], m).pend = Append(task[c].pend, m)
  BY <1>2, <1>4, SaysRecord, Zenon
<1>6. task' = [task EXCEPT ![c] = Pulled(Says(task[c], m))]
  BY <1>1, Zenon DEF m
<1> QED BY <1>3, <1>4, <1>5, <1>6, SaysStepInv, Zenon

(* The end of the socket, in the light client and in the full node. *)
LEMMA IoErrorInv ==
    ASSUME ServiceInv, NEW c \in Conns, IoError(c)
    PROVE  ServiceInv'
<1> DEFINE s == ShutDown(task[c])
<1>1. /\ task[c] \in Tasks
      /\ AllOK(c, task[c], conn[c], active, toConn[c], toMain, inbox, out)
  BY InvOf, Zenon
<1>2. /\ task[c].pc = "io" /\ OnlyTask /\ UNCHANGED <<woken, toMain, toConn>>
      /\ task[c].st \in {"Handshake", "Established"} /\ task[c].pc \in Started
      /\ task[c].pc \in {"inject", "io", "sending", "idle"}
  BY DEF IoError, Started
<1>3. /\ s \in Tasks /\ s.pc = task[c].pc
      /\ AllOK(c, s, conn[c], active, toConn[c], toMain, inbox, out)
  BY <1>1, <1>2, ShutDownOK, Zenon
<1>4. task' = [task EXCEPT ![c] = IF FullNode THEN Unplugged(s) ELSE Pulled(s)]
  BY Zenon DEF IoError
<1> HIDE DEF s
<1>5. CASE FullNode
  <2> DEFINE p == [s EXCEPT !.pc = "inject"]
             t == Unplugged(s)
  <2>1. "inject" \in Quiet /\ s.pc \in Quiet
    BY <1>2, <1>3 DEF Quiet
  <2>2. p \in Tasks /\ AllOK(c, p, conn[c], active, toConn[c], toMain, inbox, out)
    BY <1>3, <2>1, LoopOK, Zenon
  <2>3. /\ t \in Tasks /\ t.pc = p.pc /\ t.st = p.st /\ t.pend = p.pend /\ t.msg = p.msg
        /\ t.reqs = p.reqs
    BY <1>3 DEF Tasks, Unplugged, Started
  <2> HIDE DEF p, t
  <2>4. AllOK(c, t, conn[c], active, toConn[c], toMain, inbox, out)
    BY <2>2, <2>3, Zenon DEF AllOK, TaskOK, SaysOK, ToldOK, Speaking
  <2>5. task' = [task EXCEPT ![c] = t]
    BY <1>4, <1>5, Zenon DEF t
  <2> QED BY <1>2, <2>3, <2>4, <2>5, OwnStepInv, Zenon
<1>6. CASE ~FullNode
  <2>1. task' = [task EXCEPT ![c] = Pulled(s)]
    BY <1>4, <1>6, Zenon
  <2> QED BY <1>2, <1>3, <2>1, PulledStepInv, Zenon
<1> QED BY <1>5, <1>6, Zenon

(* The message in the hands of the task is sent, and the main task woken up. *)
LEMMA SendToCoordinatorInv ==
    ASSUME ServiceInv, NEW c \in Conns, SendToCoordinator(c)
    PROVE  ServiceInv'
<1> DEFINE x == From(c, task[c].msg)
           up == Append(toMain, x)
           t == [task[c] EXCEPT !.pc = AfterMessage, !.msg = Msg(None, None)]
<1>1. /\ task[c] \in Tasks /\ toConn[c] \in Seq(Msgs) /\ toMain \in Seq(Sent)
      /\ AllOK(c, task[c], conn[c], active, toConn[c], toMain, inbox, out)
  BY InvOf, Zenon
<1>2. /\ task[c].pc = "sending" /\ OnlyTask /\ UNCHANGED toConn
      /\ toMain' = up /\ woken' = TRUE
      /\ task[c].pc \in {"inject", "io", "sending", "idle"}
  BY DEF SendToCoordinator
<1>3. task' = [task EXCEPT ![c] = t]
  BY DEF SendToCoordinator, ServiceInv, TypeOK
<1>4. /\ t \in Tasks /\ t.pc \in {"idle", "inject"} /\ t.st = task[c].st /\ t.pend = task[c].pend
      /\ t.reqs = task[c].reqs
  <2>1. AfterMessage \in {"idle", "inject"} /\ Msg(None, None) \in Msgs
    BY DEF AfterMessage, Msg, Msgs, Kinds, None
  <2> HIDE DEF AfterMessage
  <2> QED BY <1>1, <2>1 DEF Tasks, Started
<1>5. x \in Sent /\ x.conn = c
  BY <1>1 DEF From, Sent, Tasks
<1> HIDE DEF t
<1>6. AllOK(c, t, conn[c], active, toConn[c], up, inbox, out)
  BY <1>1, <1>2, <1>4, SendOK, Zenon
<1> HIDE DEF x
<1>7. up \in Seq(Sent)
  BY <1>1, <1>5
<1>8. \A d \in Conns \ {c} : Fewer(up, toMain, d, Finished)
  <2> TAKE d \in Conns \ {c}
  <2>1. x.conn # d
    BY <1>5
  <2> QED BY <1>1, <1>5, <2>1, FewerAppend, Zenon
<1> HIDE DEF up
<1>9. toConn' = [toConn EXCEPT ![c] = toConn[c]]
  BY <1>2 DEF ServiceInv, TypeOK
<1> QED BY <1>1, <1>2, <1>3, <1>4, <1>6, <1>7, <1>8, <1>9, TaskStepInv, Zenon

-----------------------------------------------------------------------------
(* The life of a connection.                                               *)

(* A queue without messages of a connection. *)
LEMMA SilentQueue ==
    ASSUME NEW q, NEW c, NEW k, Silent(q, c)
    PROVE  ~Holds(q, c, k) /\ Ends(q, c, k)
BY Zenon DEF Silent, Holds, Ends

(* Where a task is, and nothing else about it, changes. *)
LEMMA PcRecord ==
    ASSUME NEW t \in Tasks, NEW p \in {"none", "dial?", "dial", "done"} \cup Started
    PROVE  /\ [t EXCEPT !.pc = p] \in Tasks /\ [t EXCEPT !.pc = p].pc = p
           /\ [t EXCEPT !.pc = p].st = t.st /\ [t EXCEPT !.pc = p].pend = t.pend
           /\ [t EXCEPT !.pc = p].msg = t.msg /\ [t EXCEPT !.pc = p].reqs = t.reqs
BY DEF Tasks

(* A connection that starts: its dialling has succeeded, or it is accepted. *)
LEMMA StartOK ==
    ASSUME NEW c, NEW t \in Tasks, NEW k, NEW act, NEW q, NEW up, NEW in, NEW down,
           AllOK(c, t, k, act, q, up, in, down), t.pc \in {"none", "dial"}, k # "gone",
           NEW u \in Tasks, u.pc \in Quiet, u.st = t.st, u.pend = t.pend, u.reqs = t.reqs
    PROVE  AllOK(c, u, "Handshaking", act \cup {c}, q, up, in, down)
<1>1. /\ t.pc \notin Started /\ t.pc # "sending"
      /\ u.pc \in Started /\ u.pc # "sending" /\ u.pc \notin {"none", "dial?", "dial", "exit"}
      /\ "Handshaking" \notin {"none", "pending"}
      /\ "Handshaking" # "gone" /\ "Handshaking" # "none"
  BY DEF Started, Quiet
<1>2. c \in act \cup {c}
  OBVIOUS
<1>3. TaskOK(c, u, "Handshaking", act \cup {c})
  BY <1>1, <1>2, Zenon DEF AllOK, TaskOK
<1>4. Silent(up, c) /\ Silent(in, c) /\ Silent(down, c) /\ t.pend = <<>> /\ q = <<>>
  BY <1>1, Zenon DEF AllOK, SaysOK, ToldOK
<1>5. ~Holds(up, c, Finished) /\ ~Holds(in, c, Finished)
  BY <1>4, SilentQueue, Zenon
<1>6. SaysOK(c, u, "Handshaking", up, in)
  BY <1>1, <1>5, Zenon DEF AllOK, SaysOK
<1>7. ToldOK(c, u, "Handshaking", q, down)
  BY <1>1, Zenon DEF AllOK, ToldOK
<1> QED BY <1>3, <1>6, <1>7, Zenon DEF AllOK

(* A connection whose dialling fails. *)
LEMMA DialErrorOK ==
    ASSUME NEW c, NEW t \in Tasks, NEW k, NEW act, NEW q, NEW up, NEW in, NEW down,
           AllOK(c, t, k, act, q, up, in, down), t.pc = "dial",
           NEW u \in Tasks, u.pc = "done", u.st = t.st, u.pend = t.pend, u.reqs = t.reqs
    PROVE  AllOK(c, u, "gone", act, q, up, in, down)
<1>1. /\ t.pc \notin Started /\ t.pc # "sending" /\ t.pc \in {"dial?", "dial"}
      /\ u.pc \notin Started /\ u.pc # "sending" /\ u.pc \notin {"none", "dial?", "dial", "exit"}
      /\ "gone" # "none"
  BY DEF Started
<1>2. TaskOK(c, u, "gone", act)
  BY <1>1, Zenon DEF AllOK, TaskOK
<1>3. SaysOK(c, u, "gone", up, in)
  BY <1>1, Zenon DEF AllOK, SaysOK, Speaking
<1>4. ToldOK(c, u, "gone", q, down)
  BY <1>1, Zenon DEF AllOK, ToldOK
<1> QED BY <1>2, <1>3, <1>4, Zenon DEF AllOK

(* A task that ends. *)
LEMMA ExitOK ==
    ASSUME NEW c, NEW t \in Tasks, NEW k, NEW act, NEW q, NEW up, NEW in, NEW down,
           AllOK(c, t, k, act, q, up, in, down), t.pc = "exit",
           NEW u \in Tasks, u.pc = "done", u.st = t.st, u.pend = t.pend, u.reqs = t.reqs
    PROVE  AllOK(c, u, k, act \ {c}, q, up, in, down)
<1>1. /\ t.pc \in Started /\ t.pc # "sending"
      /\ u.pc \notin Started /\ u.pc # "sending" /\ u.pc \notin {"none", "dial?", "dial", "exit"}
  BY DEF Started
<1>2. t.st = "Acked" /\ k = "gone" /\ k # "none" /\ c \notin act \ {c}
  BY SMT DEF AllOK, TaskOK, ToldOK
<1>3. TaskOK(c, u, k, act \ {c})
  BY <1>1, <1>2, Zenon DEF AllOK, TaskOK
<1>4. SaysOK(c, u, k, up, in)
  BY <1>1, <1>2, Zenon DEF AllOK, SaysOK, Speaking
<1>5. ToldOK(c, u, k, q, down)
  BY <1>1, <1>2, Zenon DEF AllOK, ToldOK
<1> QED BY <1>3, <1>4, <1>5, Zenon DEF AllOK

(* A step in the life of one connection keeps the invariant when it leaves *)
(* that connection, and the tasks handed over, in order.                   *)
LEMMA LifeStepInv ==
    ASSUME ServiceInv, NEW c \in Conns, NEW t \in Tasks, NEW k \in ConnStates, NEW act \in SUBSET Conns,
           task' = [task EXCEPT ![c] = t], conn' = [conn EXCEPT ![c] = k], active' = act,
           \A d \in Conns \ {c} : d \in act <=> d \in active,
           AllOK(c, t, k, act, toConn[c], toMain, inbox, out),
           newTasks' \in Seq(Conns), HandedOver',
           TaskUnchanged, UNCHANGED <<out, toMain, toConn>>,
           woken' = woken \/ woken' = TRUE
    PROVE  ServiceInv'
<1> USE DEF TaskUnchanged, mainVars, userVars
<1>1. TypeOK'
  <2>1. /\ task' \in [Conns -> Tasks] /\ conn' \in [Conns -> ConnStates] /\ woken' \in BOOLEAN
    BY DEF ServiceInv, TypeOK
  <2> QED BY <2>1, Zenon DEF ServiceInv, TypeOK
<1>2. ConnectionOK(c)'
  <2>1. task'[c] = t /\ conn'[c] = k
    BY DEF ServiceInv, TypeOK
  <2> QED BY <2>1, Zenon DEF ConnectionOK
<1>3. RoundOK'
  BY Zenon DEF ServiceInv, RoundOK
<1>4. \A d \in Conns \ {c} :
         /\ task'[d] = task[d] /\ conn'[d] = conn[d] /\ toConn'[d] = toConn[d]
         /\ d \in active' <=> d \in active
  BY DEF ServiceInv, TypeOK
<1>5. \A d \in Conns \ {c} :
         /\ Fewer(toMain', toMain, d, Finished) /\ Fewer(inbox', inbox, d, Finished)
         /\ Fewer(out', out, d, Ack)
  BY FewerSame, Zenon
<1> QED BY <1>1, <1>2, <1>3, <1>4, <1>5, OneConnInv, Zenon

(* The connection isn't one of those handed over, or about to be. *)
LEMMA HandedOverOther ==
    ASSUME ServiceInv, NEW c \in Conns, NEW t, NEW k,
           task' = [task EXCEPT ![c] = t], conn' = [conn EXCEPT ![c] = k],
           task[c].pc \notin {"dial?", "run?"}, conn[c] # "pending" \/ task[c].pc # "none",
           UNCHANGED <<newTasks, main, target>>
    PROVE  HandedOver'
<1>1. \A i \in 1 .. Len(newTasks) : newTasks[i] \in Conns
  BY DEF ServiceInv, TypeOK
<1>2. \A i \in 1 .. Len(newTasks) : newTasks[i] # c
  BY DEF ServiceInv, HandedOver
<1>3. \A i \in 1 .. Len(newTasks) : task'[newTasks[i]] = task[newTasks[i]]
  BY <1>1, <1>2 DEF ServiceInv, TypeOK
<1>4. main = "newTask" => target \in Conns /\ target # c
  BY DEF ServiceInv, TypeOK, HandedOver
<1>5. main = "newTask" => conn'[target] = conn[target] /\ task'[target] = task[target]
  BY <1>4 DEF ServiceInv, TypeOK
<1> QED BY <1>3, <1>5, Zenon DEF ServiceInv, HandedOver

(* The dialling fails. *)
LEMMA DialErrorInv ==
    ASSUME ServiceInv, NEW c \in Conns, DialError(c)
    PROVE  ServiceInv'
<1> DEFINE t == [task[c] EXCEPT !.pc = "done"]
<1>1. /\ task[c] \in Tasks /\ conn[c] \in ConnStates
      /\ AllOK(c, task[c], conn[c], active, toConn[c], toMain, inbox, out)
  BY InvOf, Zenon
<1>2. /\ task[c].pc = "dial" /\ task[c].pc \notin {"dial?", "run?"}
      /\ conn[c] # "pending" \/ task[c].pc # "none"
  BY DEF DialError
<1>3. /\ t \in Tasks /\ t.pc = "done" /\ t.st = task[c].st /\ t.pend = task[c].pend
      /\ t.reqs = task[c].reqs
  <2>1. "done" \in {"none", "dial?", "dial", "done"} \cup Started
    BY DEF Started
  <2> QED BY <1>1, <2>1, PcRecord, Zenon
<1>4. /\ task' = [task EXCEPT ![c] = t] /\ conn' = [conn EXCEPT ![c] = "gone"]
      /\ active' = active
  BY DEF DialError, ServiceInv, TypeOK
<1>5. /\ TaskUnchanged /\ UNCHANGED <<out, toMain, toConn, newTasks>> /\ UNCHANGED <<main, target>>
      /\ woken' = woken \/ woken' = TRUE
  BY DEF DialError, TaskUnchanged, mainVars, ServiceInv, TypeOK
<1> HIDE DEF t
<1>6. AllOK(c, t, "gone", active, toConn[c], toMain, inbox, out)
  BY <1>1, <1>2, <1>3, DialErrorOK, Zenon
<1>7. /\ "gone" \in ConnStates /\ active \in SUBSET Conns
      /\ \A d \in Conns \ {c} : d \in active <=> d \in active
      /\ newTasks' \in Seq(Conns)
  BY <1>1, <1>5 DEF ConnStates, ServiceInv, TypeOK
<1>8. HandedOver'
  BY <1>2, <1>4, <1>5, HandedOverOther, Zenon
<1> QED BY <1>3, <1>4, <1>5, <1>6, <1>7, <1>8, LifeStepInv, Zenon

(* The dialling succeeds: the connection enters active_connections. *)
LEMMA DialOkInv ==
    ASSUME ServiceInv, NEW c \in Conns, DialOk(c)
    PROVE  ServiceInv'
<1> DEFINE t == [task[c] EXCEPT !.pc = "inject"]
<1>1. /\ task[c] \in Tasks /\ conn[c] \in ConnStates
      /\ AllOK(c, task[c], conn[c], active, toConn[c], toMain, inbox, out)
  BY InvOf, Zenon
<1>2. /\ task[c].pc = "dial" /\ task[c].pc \notin {"dial?", "run?"}
      /\ conn[c] # "pending" \/ task[c].pc # "none"
      /\ task[c].pc \in {"none", "dial"} /\ conn[c] # "gone"
  <2>1. task[c].pc = "dial"
    BY DEF DialOk
  <2>2. conn[c] = "pending"
    BY <1>1, <2>1 DEF AllOK, TaskOK
  <2> QED BY <2>1, <2>2
<1>3. /\ t \in Tasks /\ t.pc = "inject" /\ t.st = task[c].st /\ t.pend = task[c].pend
      /\ t.reqs = task[c].reqs
  <2>1. "inject" \in {"none", "dial?", "dial", "done"} \cup Started
    BY DEF Started
  <2> QED BY <1>1, <2>1, PcRecord, Zenon
<1>4. /\ task' = [task EXCEPT ![c] = t] /\ conn' = [conn EXCEPT ![c] = "Handshaking"]
      /\ active' = active \cup {c}
  BY DEF DialOk, ServiceInv, TypeOK
<1>5. /\ TaskUnchanged /\ UNCHANGED <<out, toMain, toConn, newTasks>> /\ UNCHANGED <<main, target>>
      /\ woken' = woken \/ woken' = TRUE
  BY DEF DialOk, TaskUnchanged, mainVars, ServiceInv, TypeOK
<1> HIDE DEF t
<1>6. AllOK(c, t, "Handshaking", active \cup {c}, toConn[c], toMain, inbox, out)
  <2>1. t.pc \in Quiet
    BY <1>3 DEF Quiet
  <2> QED BY <1>1, <1>2, <1>3, <2>1, StartOK, Zenon
<1>7. /\ "Handshaking" \in ConnStates /\ active \cup {c} \in SUBSET Conns
      /\ \A d \in Conns \ {c} : d \in active \cup {c} <=> d \in active
      /\ newTasks' \in Seq(Conns)
  BY <1>1, <1>5 DEF ConnStates, ServiceInv, TypeOK
<1>8. HandedOver'
  BY <1>2, <1>4, <1>5, HandedOverOther, Zenon
<1> QED BY <1>3, <1>4, <1>5, <1>6, <1>7, <1>8, LifeStepInv, Zenon

(* The full node accepts a connection. *)
LEMMA AcceptInv ==
    ASSUME ServiceInv, NEW c \in Conns, Accept(c)
    PROVE  ServiceInv'
<1> DEFINE t == [task[c] EXCEPT !.pc = "handover"]
<1>1. /\ task[c] \in Tasks /\ conn[c] \in ConnStates
      /\ AllOK(c, task[c], conn[c], active, toConn[c], toMain, inbox, out)
  BY InvOf, Zenon
<1>2. /\ task[c].pc = "none" /\ task[c].pc \notin {"dial?", "run?"}
      /\ conn[c] # "pending" \/ task[c].pc # "none"
      /\ task[c].pc \in {"none", "dial"} /\ conn[c] # "gone"
  <2>1. conn[c] = "none"
    BY DEF Accept
  <2>2. task[c].pc = "none"
    BY <1>1, <2>1 DEF AllOK, TaskOK
  <2> QED BY <2>1, <2>2
<1>3. /\ t \in Tasks /\ t.pc = "handover" /\ t.st = task[c].st /\ t.pend = task[c].pend
      /\ t.reqs = task[c].reqs
  <2>1. "handover" \in {"none", "dial?", "dial", "done"} \cup Started
    BY DEF Started
  <2> QED BY <1>1, <2>1, PcRecord, Zenon
<1>4. /\ task' = [task EXCEPT ![c] = t] /\ conn' = [conn EXCEPT ![c] = "Handshaking"]
      /\ active' = active \cup {c}
  BY DEF Accept, ServiceInv, TypeOK
<1>5. /\ TaskUnchanged /\ UNCHANGED <<out, toMain, toConn, newTasks>> /\ UNCHANGED <<main, target>>
      /\ woken' = woken \/ woken' = TRUE
  BY DEF Accept, TaskUnchanged, mainVars, ServiceInv, TypeOK
<1> HIDE DEF t
<1>6. AllOK(c, t, "Handshaking", active \cup {c}, toConn[c], toMain, inbox, out)
  <2>1. t.pc \in Quiet
    BY <1>3 DEF Quiet
  <2> QED BY <1>1, <1>2, <1>3, <2>1, StartOK, Zenon
<1>7. /\ "Handshaking" \in ConnStates /\ active \cup {c} \in SUBSET Conns
      /\ \A d \in Conns \ {c} : d \in active \cup {c} <=> d \in active
      /\ newTasks' \in Seq(Conns)
  BY <1>1, <1>5 DEF ConnStates, ServiceInv, TypeOK
<1>8. HandedOver'
  BY <1>2, <1>4, <1>5, HandedOverOther, Zenon
<1> QED BY <1>3, <1>4, <1>5, <1>6, <1>7, <1>8, LifeStepInv, Zenon

(* The task leaves active_connections and ends. *)
LEMMA ExitInv ==
    ASSUME ServiceInv, NEW c \in Conns, Exit(c)
    PROVE  ServiceInv'
<1> DEFINE t == [task[c] EXCEPT !.pc = "done"]
<1>1. /\ task[c] \in Tasks /\ conn[c] \in ConnStates
      /\ AllOK(c, task[c], conn[c], active, toConn[c], toMain, inbox, out)
  BY InvOf, Zenon
<1>2. /\ task[c].pc = "exit" /\ task[c].pc \notin {"dial?", "run?"}
      /\ conn[c] # "pending" \/ task[c].pc # "none"
  BY DEF Exit
<1>3. /\ t \in Tasks /\ t.pc = "done" /\ t.st = task[c].st /\ t.pend = task[c].pend
      /\ t.reqs = task[c].reqs
  <2>1. "done" \in {"none", "dial?", "dial", "done"} \cup Started
    BY DEF Started
  <2> QED BY <1>1, <2>1, PcRecord, Zenon
<1>4. /\ task' = [task EXCEPT ![c] = t] /\ conn' = [conn EXCEPT ![c] = conn[c]]
      /\ active' = active \ {c}
  BY DEF Exit, ServiceInv, TypeOK
<1>5. /\ TaskUnchanged /\ UNCHANGED <<out, toMain, toConn, newTasks>> /\ UNCHANGED <<main, target>>
      /\ woken' = woken \/ woken' = TRUE
  BY DEF Exit, TaskUnchanged, mainVars, ServiceInv, TypeOK
<1> HIDE DEF t
<1>6. AllOK(c, t, conn[c], active \ {c}, toConn[c], toMain, inbox, out)
  BY <1>1, <1>2, <1>3, ExitOK, Zenon
<1>7. /\ conn[c] \in ConnStates /\ active \ {c} \in SUBSET Conns
      /\ \A d \in Conns \ {c} : d \in active \ {c} <=> d \in active
      /\ newTasks' \in Seq(Conns)
  BY <1>1, <1>5 DEF ConnStates, ServiceInv, TypeOK
<1>8. HandedOver'
  BY <1>2, <1>4, <1>5, HandedOverOther, Zenon
<1> QED BY <1>3, <1>4, <1>5, <1>6, <1>7, <1>8, LifeStepInv, Zenon

(* The task of an accepted connection is handed over. *)
LEMMA HandOverInv ==
    ASSUME ServiceInv, NEW c \in Conns, HandOver(c)
    PROVE  ServiceInv'
<1> DEFINE t == [task[c] EXCEPT !.pc = "run?"]
<1>1. /\ task[c] \in Tasks /\ conn[c] \in ConnStates
      /\ AllOK(c, task[c], conn[c], active, toConn[c], toMain, inbox, out)
  BY InvOf, Zenon
<1>2. /\ task[c].pc = "handover" /\ newTasks' = Append(newTasks, c)
      /\ TaskUnchanged /\ UNCHANGED <<out, toMain, toConn>> /\ UNCHANGED <<main, target, conn, active>>
      /\ woken' = woken
  BY DEF HandOver, TaskUnchanged, mainVars
<1>3. t \in Tasks /\ AllOK(c, t, conn[c], active, toConn[c], toMain, inbox, out)
  <2>1. "run?" \in Quiet /\ task[c].pc \in Quiet
    BY <1>2 DEF Quiet
  <2> QED BY <1>1, <2>1, LoopOK, Zenon
<1>4. t.pc = "run?"
  BY <1>1 DEF Tasks
<1>5. /\ task' = [task EXCEPT ![c] = t] /\ conn' = [conn EXCEPT ![c] = conn[c]]
      /\ active' = active
  BY DEF HandOver, ServiceInv, TypeOK
<1> HIDE DEF t
<1>6. /\ active \in SUBSET Conns /\ newTasks \in Seq(Conns) /\ newTasks' \in Seq(Conns)
      /\ \A d \in Conns \ {c} : d \in active <=> d \in active
  BY <1>2 DEF ServiceInv, TypeOK
<1>7. HandedOver'
  <2>1. /\ Len(newTasks) \in Nat /\ Len(newTasks') = Len(newTasks) + 1
        /\ newTasks'[Len(newTasks) + 1] = c
        /\ \A i \in 1 .. Len(newTasks) : newTasks'[i] = newTasks[i] /\ newTasks[i] \in Conns
    BY <1>2, <1>6
  <2>2. \A i \in 1 .. Len(newTasks') : i \in 1 .. Len(newTasks) \/ i = Len(newTasks) + 1
    BY <2>1
  <2>3. \A i \in 1 .. Len(newTasks) : newTasks[i] # c
    BY <1>2 DEF ServiceInv, HandedOver
  <2>4. /\ task'[c] = t /\ \A d \in Conns \ {c} : task'[d] = task[d]
    BY <1>5 DEF ServiceInv, TypeOK
  <2>5. \A i \in 1 .. Len(newTasks') : task'[newTasks'[i]].pc \in {"dial?", "run?"}
    BY <1>4, <2>1, <2>2, <2>3, <2>4 DEF ServiceInv, HandedOver
  <2>6. \A i, j \in 1 .. Len(newTasks') : newTasks'[i] = newTasks'[j] => i = j
    <3>1. \A i, j \in 1 .. Len(newTasks) : newTasks[i] = newTasks[j] => i = j
      BY Zenon DEF ServiceInv, HandedOver
    <3> QED BY <2>1, <2>2, <2>3, <3>1
  <2>7. main = "newTask" => target \in Conns /\ target # c
    BY <1>2 DEF ServiceInv, TypeOK, HandedOver
  <2>8. main' = "newTask" => conn'[target'] = "pending" /\ task'[target'].pc = "none"
    BY <1>2, <2>4, <2>7 DEF ServiceInv, HandedOver
  <2> QED BY <2>5, <2>6, <2>8, Zenon DEF HandedOver
<1> QED BY <1>1, <1>2, <1>3, <1>5, <1>6, <1>7, LifeStepInv, Zenon

(* A task that was handed over starts. *)
LEMMA NewConnecInv ==
    ASSUME ServiceInv, NewConnec
    PROVE  ServiceInv'
<1> DEFINE c == Head(newTasks)
           t == [task[c] EXCEPT !.pc = IF @ = "dial?" THEN "dial" ELSE "inject"]
<1>1. /\ newTasks \in Seq(Conns) /\ newTasks # <<>> /\ newTasks' = Tail(newTasks)
      /\ active \in SUBSET Conns
  BY DEF NewConnec, ServiceInv, TypeOK
<1>2. /\ c \in Conns /\ newTasks' \in Seq(Conns) /\ c = newTasks[1] /\ 1 \in 1 .. Len(newTasks)
      /\ Len(newTasks) \in Nat /\ Len(newTasks') = Len(newTasks) - 1
      /\ \A i \in 1 .. Len(newTasks') : newTasks'[i] = newTasks[i + 1]
  BY <1>1
<1>3. task[c].pc \in {"dial?", "run?"}
  BY <1>2 DEF ServiceInv, HandedOver
<1>4. /\ TaskUnchanged /\ UNCHANGED <<out, toMain, toConn>> /\ UNCHANGED <<main, target, conn, active>>
      /\ woken' = woken
  BY DEF NewConnec, TaskUnchanged, mainVars
<1>5. /\ task' = [task EXCEPT ![c] = t] /\ conn' = [conn EXCEPT ![c] = conn[c]]
  BY <1>2 DEF NewConnec, ServiceInv, TypeOK
<1> HIDE DEF c
<1>6. /\ task[c] \in Tasks /\ conn[c] \in ConnStates
      /\ AllOK(c, task[c], conn[c], active, toConn[c], toMain, inbox, out)
  BY <1>2, InvOf, Zenon
<1>7. t \in Tasks /\ AllOK(c, t, conn[c], active, toConn[c], toMain, inbox, out)
  <2>1. CASE task[c].pc = "dial?"
    <3>1. /\ t \in Tasks /\ t.pc = "dial" /\ t.st = task[c].st /\ t.pend = task[c].pend
          /\ t.msg = task[c].msg /\ t.reqs = task[c].reqs
      BY <1>6, <2>1 DEF Tasks
    <3>2. /\ t.pc \notin Started /\ task[c].pc \notin Started /\ t.pc # "none" /\ t.pc # "exit"
          /\ t.pc # "sending" /\ task[c].pc # "sending" /\ task[c].pc # "none"
          /\ task[c].pc \in {"dial?", "dial"}
      BY <2>1, <3>1 DEF Started
    <3> HIDE DEF t
    <3>3. TaskOK(c, t, conn[c], active)
      BY <1>6, <3>1, <3>2, Zenon DEF AllOK, TaskOK
    <3>4. SaysOK(c, t, conn[c], toMain, inbox)
      BY <1>6, <3>1, <3>2, Zenon DEF AllOK, SaysOK, Speaking
    <3>5. ToldOK(c, t, conn[c], toConn[c], out)
      BY <1>6, <3>1, <3>2, Zenon DEF AllOK, ToldOK
    <3> QED BY <3>1, <3>3, <3>4, <3>5, Zenon DEF AllOK
  <2>2. CASE task[c].pc = "run?"
    <3>1. t = [task[c] EXCEPT !.pc = "inject"]
      BY <2>2
    <3>2. "inject" \in Quiet /\ task[c].pc \in Quiet
      BY <2>2 DEF Quiet
    <3> HIDE DEF t
    <3> QED BY <1>6, <3>1, <3>2, LoopOK, Zenon
  <2> QED BY <1>3, <2>1, <2>2
<1> HIDE DEF t
<1>8. HandedOver'
  <2>1. \A i \in 1 .. Len(newTasks') : i + 1 \in 1 .. Len(newTasks) /\ i + 1 # 1
    BY <1>2
  <2>2. \A i \in 1 .. Len(newTasks') : newTasks[i + 1] # c
    BY <1>2, <2>1, Zenon DEF ServiceInv, HandedOver
  <2>3. \A d \in Conns : d # c => task'[d] = task[d]
    BY <1>2, <1>5 DEF ServiceInv, TypeOK
  <2>4. \A i \in 1 .. Len(newTasks') : newTasks[i + 1] \in Conns
    BY <1>1, <2>1
  <2>5. \A i \in 1 .. Len(newTasks') : task'[newTasks'[i]].pc \in {"dial?", "run?"}
    <3>1. \A i \in 1 .. Len(newTasks) : task[newTasks[i]].pc \in {"dial?", "run?"}
      BY Zenon DEF ServiceInv, HandedOver
    <3> TAKE i \in 1 .. Len(newTasks')
    <3>2. task'[newTasks[i + 1]] = task[newTasks[i + 1]]
      BY <2>2, <2>3, <2>4, Zenon
    <3>3. task[newTasks[i + 1]].pc \in {"dial?", "run?"}
      BY <2>1, <3>1, Zenon
    <3> QED BY <1>2, <3>2, <3>3, Zenon
  <2>6. \A i, j \in 1 .. Len(newTasks') : newTasks'[i] = newTasks'[j] => i + 1 = j + 1
    BY <1>2, <2>1, Zenon DEF ServiceInv, HandedOver
  <2>7. \A i, j \in 1 .. Len(newTasks') : i + 1 = j + 1 => i = j
    OBVIOUS
  <2>8. main = "newTask" => target \in Conns /\ target # c
    BY <1>3 DEF ServiceInv, TypeOK, HandedOver
  <2>9. main' = "newTask" => conn'[target'] = "pending" /\ task'[target'].pc = "none"
    BY <1>4, <2>3, <2>8 DEF ServiceInv, HandedOver
  <2> QED BY <2>5, <2>6, <2>7, <2>9, Zenon DEF HandedOver
<1>9. \A d \in Conns \ {c} : d \in active <=> d \in active
  OBVIOUS
<1> QED BY <1>1, <1>2, <1>4, <1>5, <1>6, <1>7, <1>8, <1>9, LifeStepInv, Zenon

-----------------------------------------------------------------------------
(* The main task and the users.                                            *)

(* A step that leaves the connections and their messages alone. *)
LEMMA QuietStepInv ==
    ASSUME ServiceInv, UNCHANGED <<task, conn, toConn, toMain, inbox, out, newTasks, active, panicked>>,
           known' \in SUBSET Conns, woken' \in BOOLEAN, RoundOK',
           main' # "newTask" \/ UNCHANGED <<main, target>>
    PROVE  ServiceInv'
<1>1. TypeOK'
  BY DEF ServiceInv, TypeOK
<1>2. \A c \in Conns : ConnectionOK(c)'
  BY Zenon DEF ServiceInv, ConnectionOK
<1>3. HandedOver'
  BY Zenon DEF ServiceInv, HandedOver
<1> QED BY <1>1, <1>2, <1>3, Zenon DEF ServiceInv

(* The steps of the main task and of the subscribers that touch no message. *)
LEMMA QuietActions ==
    ASSUME ServiceInv, Listen \/ Lock \/ SendEvent \/ Notified \/ Receive
    PROVE  ServiceInv'
<1> USE DEF coordVars, userVars, chanVars, mainVars
<1>1. UNCHANGED <<task, conn, toConn, toMain, inbox, out, newTasks, active, panicked, known>>
  BY DEF Listen, Lock, SendEvent, Notified, Receive
<1>2. known' \in SUBSET Conns /\ woken' \in BOOLEAN
  <2>1. woken' = woken \/ woken' = FALSE
    BY DEF Listen, Lock, SendEvent, Notified, Receive
  <2> QED BY <1>1, <2>1 DEF ServiceInv, TypeOK
<1>3. main' # "newTask" \/ UNCHANGED <<main, target>>
  BY DEF Listen, Lock, SendEvent, Notified, Receive
<1>4. RoundOK'
  <2>1. CASE Listen
    BY <2>1 DEF Listen, RoundOK
  <2>2. CASE Lock
    BY <1>1, <2>2 DEF Lock, RoundOK, ServiceInv
  <2>3. CASE SendEvent
    BY <1>1, <2>3 DEF SendEvent, RoundOK, ServiceInv
  <2>4. CASE Notified
    BY <2>4 DEF Notified, RoundOK
  <2>5. CASE Receive
    BY <1>1, <2>5 DEF Receive, RoundOK, ServiceInv
  <2> QED BY <2>1, <2>2, <2>3, <2>4, <2>5
<1> QED BY <1>1, <1>2, <1>3, <1>4, QuietStepInv

(* A peer is discovered. *)
LEMMA DiscoverInv ==
    ASSUME ServiceInv, NEW c \in Conns, discover(c)
    PROVE  ServiceInv'
<1> USE DEF coordVars, userVars, chanVars, mainVars
<1>1. UNCHANGED <<task, conn, toConn, toMain, inbox, out, newTasks, active, panicked>>
  BY DEF discover, UserUnchanged
<1>2. known' \in SUBSET Conns /\ woken' \in BOOLEAN /\ UNCHANGED <<main, target>> /\ woken' = TRUE
  BY DEF discover, UserUnchanged, ServiceInv, TypeOK
<1>3. RoundOK'
  BY <1>1, <1>2, Zenon DEF RoundOK, ServiceInv
<1> QED BY <1>1, <1>2, <1>3, QuietStepInv

(* A message of a connection goes from the channel to the state machine. *)
LEMMA MessageOK ==
    ASSUME NEW c, NEW t, NEW k, NEW up \in Seq(Sent), NEW in \in Seq(Sent),
           SaysOK(c, t, k, up, in), up # <<>>, Head(up).conn = c
    PROVE  SaysOK(c, t, k, Tail(up), Append(in, Head(up)))
<1> DEFINE h == Head(up)
           up2 == Tail(up)
           in2 == Append(in, h)
<1>1. /\ h \in Sent
      /\ Silent(up, c) => Silent(up2, c) /\ h.conn # c
      /\ Holds(up2, c, Finished) => Holds(up, c, Finished)
      /\ Ends(up, c, Finished) => Ends(up2, c, Finished)
      /\ h.m.k = Finished => Holds(up, c, Finished)
      /\ Ends(up, c, Finished) /\ h.m.k = Finished => Silent(up2, c)
  BY TailQueue, Zenon
<1>2. /\ Holds(in2, c, Finished) <=> Holds(in, c, Finished) \/ (h.conn = c /\ h.m.k = Finished)
      /\ Ends(in, c, Finished) /\ (h.conn = c => ~Holds(in, c, Finished)) => Ends(in2, c, Finished)
  <2>1. h \in Sent
    BY <1>1
  <2> HIDE DEF h
  <2> QED BY <2>1, AppendQueue, Zenon
<1>3. h.conn = c
  OBVIOUS
<1> HIDE DEF h, up2, in2
<1>4. ~Silent(up, c)
  BY <1>1, <1>3, Zenon
<1>5. ~Holds(in, c, Finished) /\ k # "gone" /\ t.pc \in Started
  BY <1>4, Zenon DEF SaysOK
<1>6. Ends(up2, c, Finished) /\ Ends(in2, c, Finished)
  BY <1>1, <1>2, <1>5, Zenon DEF SaysOK
<1>7. Holds(up2, c, Finished) => ~Speaking(t)
  BY <1>1, Zenon DEF SaysOK
<1>8. Holds(in2, c, Finished) => ~Speaking(t) /\ Silent(up2, c)
  BY <1>1, <1>2, <1>5, Zenon DEF SaysOK
<1>9. t.st \in {"Handshake", "Established"} => ~Holds(up2, c, Finished) /\ ~Holds(in2, c, Finished)
  BY <1>1, <1>2, <1>5, Zenon DEF SaysOK
<1>10. SaysOK(c, t, k, up2, in2)
  BY <1>5, <1>6, <1>7, <1>8, <1>9, Zenon DEF SaysOK
<1> QED BY <1>10 DEF h, up2, in2

(* update_round injects the messages of the connections. *)
LEMMA InjectMessagesInv ==
    ASSUME ServiceInv, InjectMessages
    PROVE  ServiceInv'
<1> USE DEF userVars
<1>1. CASE toMain = <<>>
  <2>1. UNCHANGED <<task, conn, toConn, toMain, inbox, out, newTasks, active, panicked>>
    BY <1>1 DEF InjectMessages
  <2>2. known' \in SUBSET Conns /\ woken' \in BOOLEAN /\ main' # "newTask"
    BY <1>1 DEF InjectMessages, ServiceInv, TypeOK
  <2>3. RoundOK'
    BY <1>1 DEF InjectMessages, RoundOK
  <2> QED BY <2>1, <2>2, <2>3, QuietStepInv
<1>2. CASE toMain # <<>>
  <2>1. /\ toMain \in Seq(Sent) /\ inbox \in Seq(Sent)
    BY DEF ServiceInv, TypeOK
  <2>2. Head(toMain) \in Sent /\ Tail(toMain) \in Seq(Sent)
    BY <1>2, <2>1
  <2>3. PICK c \in Conns : Head(toMain).conn = c
    BY <2>2 DEF Sent
  <2>4. /\ inbox' = Append(inbox, Head(toMain)) /\ toMain' = Tail(toMain) /\ main' = main /\ main = "inject"
        /\ UNCHANGED <<task, conn, toConn, out, newTasks, active, panicked, target, woken, known>>
    BY <1>2 DEF InjectMessages
  <2>5. TypeOK'
    <3>1. inbox' \in Seq(Sent) /\ toMain' \in Seq(Sent)
      BY <2>1, <2>2, <2>4
    <3> QED BY <2>4, <3>1, Zenon DEF ServiceInv, TypeOK
  <2>6. HandedOver'
    BY <2>4, Zenon DEF ServiceInv, HandedOver
  <2>7. RoundOK'
    BY <2>4 DEF RoundOK
  <2>8. ConnectionOK(c)'
    <3>1. AllOK(c, task[c], conn[c], active, toConn[c], toMain, inbox, out)
      BY <2>3, InvOf, Zenon
    <3>2. SaysOK(c, task[c], conn[c], Tail(toMain), Append(inbox, Head(toMain)))
      BY <1>2, <2>1, <2>3, <3>1, MessageOK, Zenon DEF AllOK
    <3> QED BY <2>4, <3>1, <3>2, Zenon DEF AllOK, ConnectionOK
  <2>9. \A d \in Conns \ {c} :
           /\ Fewer(toMain', toMain, d, Finished) /\ Fewer(inbox', inbox, d, Finished)
           /\ Fewer(out', out, d, Ack)
    <3> TAKE d \in Conns \ {c}
    <3>1. Head(toMain).conn # d
      BY <2>3
    <3>2. Fewer(Append(inbox, Head(toMain)), inbox, d, Finished)
      BY <2>1, <2>2, <3>1, FewerAppend, Zenon
    <3>3. Fewer(Tail(toMain), toMain, d, Finished)
      BY <1>2, <2>1, FewerTail, Zenon
    <3> QED BY <2>4, <3>2, <3>3, FewerSame, Zenon
  <2>10. \A d \in Conns \ {c} :
            /\ task'[d] = task[d] /\ conn'[d] = conn[d] /\ toConn'[d] = toConn[d]
            /\ d \in active' <=> d \in active
    BY <2>4, Zenon
  <2> QED BY <2>3, <2>4, <2>5, <2>6, <2>7, <2>8, <2>9, <2>10, OneConnInv, Zenon
<1> QED BY <1>1, <1>2, Zenon

(* The state machine handles a message of a connection, which changes its  *)
(* state of it.                                                            *)
LEMMA HandledOK ==
    ASSUME NEW c, NEW t, NEW k, NEW up, NEW in \in Seq(Sent),
           SaysOK(c, t, k, up, in), in # <<>>, Head(in).conn = c,
           NEW k2, k2 = "gone" => Head(in).m.k = Finished
    PROVE  t.pc \in Started /\ k # "gone" /\ SaysOK(c, t, k2, up, Tail(in))
<1> DEFINE h == Head(in)
           in2 == Tail(in)
<1>1. /\ Silent(in, c) => h.conn # c
      /\ Holds(in2, c, Finished) => Holds(in, c, Finished)
      /\ Ends(in, c, Finished) => Ends(in2, c, Finished)
      /\ h.m.k = Finished => Holds(in, c, Finished)
      /\ Ends(in, c, Finished) /\ h.m.k = Finished => Silent(in2, c)
  BY TailQueue, Zenon
<1>2. h.conn = c /\ (k2 = "gone" => h.m.k = Finished)
  OBVIOUS
<1> HIDE DEF h, in2
<1>3. ~Silent(in, c)
  BY <1>1, <1>2, Zenon
<1>4. t.pc \in Started /\ k # "gone"
  BY <1>3, Zenon DEF SaysOK
<1>5. k2 = "gone" => Holds(in, c, Finished) /\ Silent(in2, c)
  BY <1>1, <1>2, Zenon DEF SaysOK
<1>6. k2 = "gone" => /\ ~Speaking(t) /\ Silent(up, c) /\ Silent(in2, c)
                     /\ t.st \notin {"Handshake", "Established"}
  BY <1>5, Zenon DEF SaysOK
<1>7. SaysOK(c, t, k2, up, in2)
  BY <1>1, <1>4, <1>6, Zenon DEF SaysOK
<1> QED BY <1>4, <1>7, Zenon DEF in2

(* One more message for a connection: ShutdownFinishedAck exactly when the *)
(* connection goes.                                                        *)
LEMMA ReplyOK ==
    ASSUME NEW c, NEW t, NEW k, NEW q, NEW down \in Seq(Sent),
           ToldOK(c, t, k, q, down), t.pc \in Started, k # "gone",
           NEW x \in Sent, x.conn = c, NEW k2, x.m.k = Ack => k2 = "gone"
    PROVE  ToldOK(c, t, k2, q, Append(down, x))
<1> DEFINE down2 == Append(down, x)
<1>1. /\ Holds(down2, c, Ack) <=> Holds(down, c, Ack) \/ (x.conn = c /\ x.m.k = Ack)
      /\ Ends(down, c, Ack) /\ (x.conn = c => ~Holds(down, c, Ack)) => Ends(down2, c, Ack)
  BY AppendQueue, Zenon
<1> HIDE DEF down2
<1>2. /\ t.st # "Acked" /\ ~HoldsMsg(q, Ack) /\ ~Holds(down, c, Ack)
      /\ EndsMsg(q, Ack) /\ Ends(down, c, Ack)
  BY Zenon DEF ToldOK
<1>3. ToldOK(c, t, k2, q, down2)
  BY <1>1, <1>2, Zenon DEF ToldOK
<1> QED BY <1>3 DEF down2

(* An event of a connection, and what the state machine replies. *)
LEMMA EventStepInv ==
    ASSUME ServiceInv, main = "events", inbox # <<>>, inbox' = Tail(inbox),
           NEW c \in Conns, Head(inbox).conn = c,
           NEW k \in ConnStates \ {"none", "pending"}, conn' = [conn EXCEPT ![c] = k],
           k = "gone" => Head(inbox).m.k = Finished,
           \/ out' = out
           \/ \E x \in Sent : out' = Append(out, x) /\ x.conn = c /\ (x.m.k = Ack => k = "gone"),
           main' \in {"events", "send"},
           UNCHANGED <<task, toConn, toMain, newTasks, active, panicked, woken, known, target>>
    PROVE  ServiceInv'
<1>1. /\ toMain \in Seq(Sent) /\ inbox \in Seq(Sent) /\ out \in Seq(Sent) /\ task[c] \in Tasks
      /\ AllOK(c, task[c], conn[c], active, toConn[c], toMain, inbox, out)
  BY InvOf, Zenon
<1>2. /\ task[c].pc \in Started /\ conn[c] # "gone"
      /\ SaysOK(c, task[c], k, toMain, Tail(inbox))
  BY <1>1, HandledOK, Zenon DEF AllOK
<1>3. TaskOK(c, task[c], k, active)
  <2>1. /\ k # "none" /\ k \notin {"none", "pending"} /\ task[c].pc \notin {"none", "dial?", "dial"}
    BY <1>2 DEF Started
  <2> QED BY <1>1, <1>2, <2>1, Zenon DEF AllOK, TaskOK
<1>4. /\ ToldOK(c, task[c], k, toConn[c], out') /\ out' \in Seq(Sent)
      /\ \A d \in Conns \ {c} : Fewer(out', out, d, Ack)
  <2>1. CASE out' = out
    <3>1. ToldOK(c, task[c], k, toConn[c], out)
      BY <1>1, <1>2, Zenon DEF AllOK, ToldOK
    <3> QED BY <1>1, <2>1, <3>1, FewerSame, Zenon
  <2>2. ASSUME NEW x \in Sent, out' = Append(out, x), x.conn = c, x.m.k = Ack => k = "gone"
        PROVE  /\ ToldOK(c, task[c], k, toConn[c], out') /\ out' \in Seq(Sent)
               /\ \A d \in Conns \ {c} : Fewer(out', out, d, Ack)
    <3>1. ToldOK(c, task[c], k, toConn[c], Append(out, x))
      BY <1>1, <1>2, <2>2, ReplyOK, Zenon DEF AllOK
    <3>2. Append(out, x) \in Seq(Sent)
      BY <1>1
    <3>3. ASSUME NEW d \in Conns \ {c} PROVE Fewer(Append(out, x), out, d, Ack)
      <4>1. x.conn # d
        BY <2>2
      <4> QED BY <1>1, <4>1, FewerAppend, Zenon
    <3> QED BY <2>2, <3>1, <3>2, <3>3, Zenon
  <2> QED BY <2>1, <2>2, Zenon
<1>5. conn'[c] = k /\ conn' \in [Conns -> ConnStates]
  BY DEF ServiceInv, TypeOK
<1>6. ConnectionOK(c)'
  BY <1>2, <1>3, <1>4, <1>5, Zenon DEF AllOK, ConnectionOK
<1>7. TypeOK'
  <2>1. inbox' \in Seq(Sent) /\ main' # "newTask"
    BY <1>1
  <2> QED BY <1>4, <1>5, <2>1, Zenon DEF ServiceInv, TypeOK
<1>8. HandedOver' /\ RoundOK'
  <2>1. main' # "newTask" /\ main' # "wait" /\ main' \notin {"connect", "newTask", "pull", "wait"}
        /\ main \notin {"listen", "lock", "inject"}
    OBVIOUS
  <2> QED BY <2>1, Zenon DEF ServiceInv, HandedOver, RoundOK
<1>9. \A d \in Conns \ {c} :
         /\ task'[d] = task[d] /\ conn'[d] = conn[d] /\ toConn'[d] = toConn[d]
         /\ d \in active' <=> d \in active
  BY DEF ServiceInv, TypeOK
<1>10. \A d \in Conns \ {c} :
          /\ Fewer(toMain', toMain, d, Finished) /\ Fewer(inbox', inbox, d, Finished)
          /\ Fewer(out', out, d, Ack)
  BY <1>1, <1>4, FewerSame, FewerTail, Zenon
<1> QED BY <1>6, <1>7, <1>8, <1>9, <1>10, OneConnInv, Zenon

(* update_round handles the events of the state machine. *)
LEMMA EventsInv ==
    ASSUME ServiceInv, Events
    PROVE  ServiceInv'
<1> USE DEF userVars, chanVars
<1>1. CASE inbox = <<>>
  <2>1. UNCHANGED <<task, conn, toConn, toMain, inbox, out, newTasks, active, panicked>>
    BY <1>1 DEF Events
  <2>2. known' \in SUBSET Conns /\ woken' \in BOOLEAN /\ main' # "newTask"
    BY <1>1 DEF Events, ServiceInv, TypeOK
  <2>3. RoundOK'
    BY <1>1 DEF Events, RoundOK, ServiceInv
  <2> QED BY <2>1, <2>2, <2>3, QuietStepInv
<1>2. CASE inbox # <<>>
  <2> DEFINE m == Head(inbox).m
  <2>1. inbox \in Seq(Sent)
    BY DEF ServiceInv, TypeOK
  <2>2. Head(inbox) \in Sent
    BY <1>2, <2>1
  <2>3. PICK c \in Conns : Head(inbox).conn = c
    BY <2>2 DEF Sent
  <2>4. /\ main = "events" /\ inbox' = Tail(inbox)
        /\ IF Stale(c, m) THEN Handled /\ UNCHANGED <<conn, out, reqs>> ELSE HandleEvent(c, m)
        /\ UNCHANGED <<task, toConn, toMain, newTasks, active, panicked, woken, known, target>>
    BY <1>2, <2>3 DEF Events
  <2>5. conn[c] \in ConnStates \ {"none", "pending"} /\ conn[c] # "gone"
    <3>1. /\ conn[c] \in ConnStates
          /\ AllOK(c, task[c], conn[c], active, toConn[c], toMain, inbox, out)
      BY InvOf, Zenon
    <3>2. SaysOK(c, task[c], conn[c], toMain, inbox) /\ TaskOK(c, task[c], conn[c], active)
      BY <3>1, Zenon DEF AllOK
    <3>3. "Open" = "gone" => Head(inbox).m.k = Finished
      OBVIOUS
    <3>4. task[c].pc \in Started /\ conn[c] # "gone"
      BY <1>2, <2>1, <2>3, <3>2, <3>3, HandledOK, Zenon
    <3>5. conn[c] \notin {"none", "pending"}
      BY <3>2, <3>4, Zenon DEF TaskOK
    <3> QED BY <3>1, <3>4, <3>5
  <2>6. \A k \in {"StartShutdown", Ack} : To(c, k) \in Sent /\ To(c, k).conn = c /\ To(c, k).m.k = k
    BY DEF To, From, Msg, Sent, Msgs, Kinds, Ack
  <2> HIDE DEF m
  <2>7. CASE UNCHANGED <<conn, out>> /\ main' \in {"events", "send"}
    <3>1. conn' = [conn EXCEPT ![c] = conn[c]]
      BY <2>7 DEF ServiceInv, TypeOK
    <3> QED BY <1>2, <2>3, <2>4, <2>5, <2>7, <3>1, EventStepInv, Zenon
  <2>8. CASE /\ main' \in {"events", "send"} /\ out' = out
             /\ \E k \in {"Open", "ShuttingEarly", "Shutting"} : conn' = [conn EXCEPT ![c] = k]
    <3>1. PICK k \in {"Open", "ShuttingEarly", "Shutting"} : conn' = [conn EXCEPT ![c] = k]
      BY <2>8
    <3>2. k \in ConnStates \ {"none", "pending"} /\ k # "gone"
      BY DEF ConnStates
    <3> QED BY <1>2, <2>3, <2>4, <2>8, <3>1, <3>2, EventStepInv, Zenon
  <2>9. CASE /\ main' \in {"events", "send"} /\ out' = Append(out, To(c, "StartShutdown"))
             /\ conn' = [conn EXCEPT ![c] = "ShuttingApi"]
    <3>1. "ShuttingApi" \in ConnStates \ {"none", "pending"} /\ "ShuttingApi" # "gone"
      BY DEF ConnStates
    <3>2. /\ To(c, "StartShutdown") \in Sent /\ To(c, "StartShutdown").conn = c
          /\ To(c, "StartShutdown").m.k # Ack
      BY <2>6 DEF Ack
    <3> QED BY <1>2, <2>3, <2>4, <2>9, <3>1, <3>2, EventStepInv, Zenon
  <2>10. CASE /\ main' \in {"events", "send"} /\ out' = Append(out, To(c, Ack)) /\ m.k = Finished
              /\ conn' = [conn EXCEPT ![c] = "gone"]
    <3>1. "gone" \in ConnStates \ {"none", "pending"}
      BY DEF ConnStates
    <3>2. To(c, Ack) \in Sent /\ To(c, Ack).conn = c
      BY <2>6
    <3>3. Head(inbox).m.k = Finished
      BY <2>10 DEF m
    <3> QED BY <1>2, <2>3, <2>4, <2>10, <3>1, <3>2, <3>3, EventStepInv, Zenon
  <2>11. \/ UNCHANGED <<conn, out>> /\ main' \in {"events", "send"}
         \/ /\ main' \in {"events", "send"} /\ out' = out
            /\ \E k \in {"Open", "ShuttingEarly", "Shutting"} : conn' = [conn EXCEPT ![c] = k]
         \/ /\ main' \in {"events", "send"} /\ out' = Append(out, To(c, "StartShutdown"))
            /\ conn' = [conn EXCEPT ![c] = "ShuttingApi"]
         \/ /\ main' \in {"events", "send"} /\ out' = Append(out, To(c, Ack)) /\ m.k = Finished
            /\ conn' = [conn EXCEPT ![c] = "gone"]
    <3>1. Handled \/ Dispatch => main' \in {"events", "send"}
      BY <2>4 DEF Handled, Dispatch
    <3>2. CASE Stale(c, m)
      BY <2>4, <3>1, <3>2
    <3>3. CASE HandleEvent(c, m)
      <4>1. CASE m.k = "HandshakeFinished"
        BY <3>1, <3>3, <4>1 DEF HandleEvent
      <4>2. CASE m.k = "news"
        BY <3>1, <3>3, <4>2 DEF HandleEvent
      <4>3. CASE m.k = "pingFailed"
        BY <3>1, <3>3, <4>3 DEF HandleEvent
      <4>4. CASE m.k = "StartShutdown"
        <5>1. /\ conn' = [conn EXCEPT ![c] = IF conn[c] = "Handshaking" THEN "ShuttingEarly" ELSE "Shutting"]
              /\ Handled /\ out' = out
          BY <3>3, <4>4 DEF HandleEvent
        <5> QED BY <3>1, <5>1
      <4>5. CASE m.k = "ShutdownFinished"
        BY <3>1, <3>3, <4>5 DEF HandleEvent, Ack, Finished
      <4>6. CASE m.k \notin {"HandshakeFinished", "news", "pingFailed", "StartShutdown", "ShutdownFinished"}
        BY <3>1, <3>3, <4>6 DEF HandleEvent
      <4> QED BY <4>1, <4>2, <4>3, <4>4, <4>5, <4>6
    <3> QED BY <2>4, <3>2, <3>3, Zenon
  <2> QED BY <2>7, <2>8, <2>9, <2>10, <2>11, Zenon
<1> QED BY <1>1, <1>2, Zenon

(* next_start_connect. *)
LEMMA ConnectInv ==
    ASSUME ServiceInv, Connect
    PROVE  ServiceInv'
<1> USE DEF userVars, chanVars
<1>1. /\ main = "connect"
      /\ UNCHANGED <<task, toConn, toMain, inbox, out, newTasks, active, panicked, woken, known>>
  BY DEF Connect
<1>2. \/ main' = "pull" /\ UNCHANGED <<conn, target>>
      \/ \E c \in known : /\ conn[c] = "none" /\ conn' = [conn EXCEPT ![c] = "pending"] /\ target' = c
                          /\ main' = "newTask"
  BY DEF Connect
<1>3. inbox = <<>> /\ (~woken => toMain = <<>>)
  BY <1>1 DEF ServiceInv, RoundOK
<1>4. RoundOK'
  <2>1. main' \in {"pull", "newTask"}
    BY <1>2
  <2> QED BY <1>1, <1>3, <2>1 DEF RoundOK
<1>5. CASE main' = "pull" /\ UNCHANGED <<conn, target>>
  <2>1. known' \in SUBSET Conns /\ woken' \in BOOLEAN /\ main' # "newTask"
    BY <1>1, <1>5 DEF ServiceInv, TypeOK
  <2> QED BY <1>1, <1>4, <1>5, <2>1, QuietStepInv
<1>6. ASSUME NEW c \in known, conn[c] = "none", conn' = [conn EXCEPT ![c] = "pending"], target' = c,
             main' = "newTask"
      PROVE  ServiceInv'
  <2>1. c \in Conns
    BY DEF ServiceInv, TypeOK
  <2>2. /\ task[c] \in Tasks
        /\ AllOK(c, task[c], conn[c], active, toConn[c], toMain, inbox, out)
    BY <2>1, InvOf, Zenon
  <2>3. task[c].pc = "none" /\ task[c].pc \notin Started /\ task[c].pc # "exit"
    BY <1>6, <2>2, SMT DEF AllOK, TaskOK, Started
  <2>4. conn'[c] = "pending" /\ conn' \in [Conns -> ConnStates]
    BY <1>6, <2>1 DEF ServiceInv, TypeOK, ConnStates
  <2>5. AllOK(c, task[c], "pending", active, toConn[c], toMain, inbox, out)
    <3>1. "pending" \in {"none", "pending"} /\ "pending" # "none" /\ "pending" # "gone" /\ conn[c] # "gone"
          /\ "pending" \in {"none", "pending", "gone"}
      BY <1>6
    <3>2. TaskOK(c, task[c], "pending", active)
      BY <2>2, <2>3, <3>1, Zenon DEF AllOK, TaskOK
    <3>3. SaysOK(c, task[c], "pending", toMain, inbox)
      BY <2>2, <3>1, Zenon DEF AllOK, SaysOK
    <3>4. ToldOK(c, task[c], "pending", toConn[c], out)
      BY <2>2, <3>1, Zenon DEF AllOK, ToldOK
    <3> QED BY <3>2, <3>3, <3>4, Zenon DEF AllOK
  <2>6. ConnectionOK(c)'
    BY <1>1, <2>4, <2>5, Zenon DEF ConnectionOK
  <2>7. TypeOK'
    BY <1>1, <1>6, <2>1, <2>4, Zenon DEF ServiceInv, TypeOK
  <2>8. HandedOver'
    BY <1>1, <1>6, <2>3, <2>4, Zenon DEF ServiceInv, HandedOver
  <2>9. \A d \in Conns \ {c} :
           /\ task'[d] = task[d] /\ conn'[d] = conn[d] /\ toConn'[d] = toConn[d]
           /\ d \in active' <=> d \in active
    BY <1>1, <1>6 DEF ServiceInv, TypeOK
  <2>10. \A d \in Conns \ {c} :
            /\ Fewer(toMain', toMain, d, Finished) /\ Fewer(inbox', inbox, d, Finished)
            /\ Fewer(out', out, d, Ack)
    BY <1>1, FewerSame, Zenon
  <2> QED BY <1>1, <1>4, <2>1, <2>6, <2>7, <2>8, <2>9, <2>10, OneConnInv, Zenon
<1> QED BY <1>2, <1>5, <1>6, Zenon

(* The task of the connection to dial is handed over. *)
LEMMA NewTaskInv ==
    ASSUME ServiceInv, NewTask
    PROVE  ServiceInv'
<1> USE DEF userVars, coordVars
<1>1. /\ main = "newTask" /\ main' = "connect" /\ newTasks' = Append(newTasks, target)
      /\ task' = [task EXCEPT ![target].pc = "dial?"]
      /\ UNCHANGED <<conn, toConn, toMain, inbox, out, active, panicked, woken, known>>
  BY DEF NewTask
<1>2. PICK c \in Conns : target = c
  BY <1>1 DEF ServiceInv, TypeOK
<1> DEFINE t == [task[c] EXCEPT !.pc = "dial?"]
<1>3. /\ task[c] \in Tasks
      /\ AllOK(c, task[c], conn[c], active, toConn[c], toMain, inbox, out)
  BY InvOf, Zenon
<1>4. task[c].pc = "none" /\ conn[c] = "pending"
  BY <1>1, <1>2 DEF ServiceInv, HandedOver
<1>5. /\ t \in Tasks /\ t.pc = "dial?" /\ t.st = task[c].st /\ t.pend = task[c].pend
      /\ t.msg = task[c].msg /\ t.reqs = task[c].reqs
  BY <1>3 DEF Tasks
<1>6. /\ task' = [task EXCEPT ![c] = t]
  BY <1>1, <1>2 DEF ServiceInv, TypeOK
<1> HIDE DEF t
<1>7. task'[c] = t /\ task' \in [Conns -> Tasks] /\ \A d \in Conns \ {c} : task'[d] = task[d]
  BY <1>5, <1>6 DEF ServiceInv, TypeOK
<1>8. ConnectionOK(c)'
  <2>1. /\ t.pc \notin Started /\ task[c].pc \notin Started /\ t.pc # "none" /\ t.pc # "exit"
        /\ t.pc # "sending" /\ task[c].pc # "sending"
        /\ conn[c] # "none" /\ conn[c] \in {"none", "pending", "gone"} /\ conn[c] # "gone"
    BY <1>4, <1>5 DEF Started
  <2>2. TaskOK(c, t, conn[c], active)
    BY <1>3, <1>4, <1>5, <2>1, Zenon DEF AllOK, TaskOK
  <2>3. SaysOK(c, t, conn[c], toMain, inbox)
    BY <1>3, <1>5, <2>1, Zenon DEF AllOK, SaysOK, Speaking
  <2>4. ToldOK(c, t, conn[c], toConn[c], out)
    BY <1>3, <1>5, <2>1, Zenon DEF AllOK, ToldOK
  <2> QED BY <1>1, <1>7, <2>2, <2>3, <2>4, Zenon DEF AllOK, ConnectionOK
<1>9. newTasks \in Seq(Conns) /\ newTasks' \in Seq(Conns)
  BY <1>1, <1>2 DEF ServiceInv, TypeOK
<1>10. TypeOK'
  <2>1. main' # "newTask"
    BY <1>1
  <2> QED BY <1>1, <1>7, <1>9, <2>1, Zenon DEF ServiceInv, TypeOK
<1>11. HandedOver'
  <2>1. /\ Len(newTasks) \in Nat /\ Len(newTasks') = Len(newTasks) + 1
        /\ newTasks'[Len(newTasks) + 1] = c
        /\ \A i \in 1 .. Len(newTasks) : newTasks'[i] = newTasks[i] /\ newTasks[i] \in Conns
    BY <1>1, <1>2, <1>9
  <2>2. \A i \in 1 .. Len(newTasks') : i \in 1 .. Len(newTasks) \/ i = Len(newTasks) + 1
    BY <2>1
  <2>3. \A i \in 1 .. Len(newTasks) : newTasks[i] # c
    BY <1>4 DEF ServiceInv, HandedOver
  <2>4. \A i \in 1 .. Len(newTasks') : task'[newTasks'[i]].pc \in {"dial?", "run?"}
    BY <1>5, <1>7, <2>1, <2>2, <2>3 DEF ServiceInv, HandedOver
  <2>5. \A i, j \in 1 .. Len(newTasks') : newTasks'[i] = newTasks'[j] => i = j
    <3>1. \A i, j \in 1 .. Len(newTasks) : newTasks[i] = newTasks[j] => i = j
      BY Zenon DEF ServiceInv, HandedOver
    <3> QED BY <2>1, <2>2, <2>3, <3>1
  <2>6. main' # "newTask"
    BY <1>1
  <2> QED BY <2>4, <2>5, <2>6, Zenon DEF HandedOver
<1>12. RoundOK'
  BY <1>1 DEF ServiceInv, RoundOK
<1>13. \A d \in Conns \ {c} :
          /\ task'[d] = task[d] /\ conn'[d] = conn[d] /\ toConn'[d] = toConn[d]
          /\ d \in active' <=> d \in active
          /\ Fewer(toMain', toMain, d, Finished) /\ Fewer(inbox', inbox, d, Finished)
          /\ Fewer(out', out, d, Ack)
  BY <1>1, <1>7, FewerSame, Zenon
<1> QED BY <1>1, <1>8, <1>10, <1>11, <1>12, <1>13, OneConnInv, Zenon

(* A message goes from the state machine to the channel of its connection. *)
LEMMA DeliveredOK ==
    ASSUME NEW c, NEW t, NEW k, NEW q \in Seq(Msgs), NEW down \in Seq(Sent),
           ToldOK(c, t, k, q, down), down # <<>>, Head(down).conn = c
    PROVE  t.pc \in Started /\ ToldOK(c, t, k, Append(q, Head(down).m), Tail(down))
<1> DEFINE m == Head(down).m
           q2 == Append(q, m)
           down2 == Tail(down)
<1>1. /\ Head(down) \in Sent
      /\ Silent(down, c) => Head(down).conn # c
      /\ Holds(down2, c, Ack) => Holds(down, c, Ack)
      /\ Ends(down, c, Ack) => Ends(down2, c, Ack)
      /\ m.k = Ack => Holds(down, c, Ack)
      /\ Ends(down, c, Ack) /\ m.k = Ack => Silent(down2, c)
  BY TailQueue, Zenon
<1>2. m \in Msgs
  BY <1>1 DEF Sent
<1> HIDE DEF m
<1>3. /\ HoldsMsg(q2, Ack) <=> HoldsMsg(q, Ack) \/ m.k = Ack
      /\ ~HoldsMsg(q, Ack) => EndsMsg(q2, Ack)
  BY <1>2, AppendMsg, Zenon
<1> HIDE DEF q2, down2
<1>4. ~Silent(down, c)
  BY <1>1, Zenon
<1>5. t.pc \in Started /\ ~HoldsMsg(q, Ack) /\ t.st # "Acked"
  BY <1>4, Zenon DEF ToldOK
<1>6. ToldOK(c, t, k, q2, down2)
  BY <1>1, <1>3, <1>5, Zenon DEF ToldOK
<1> QED BY <1>5, <1>6 DEF m, q2, down2

(* pull_message_to_connection: neither of the two unwraps panics. *)
LEMMA PullInv ==
    ASSUME ServiceInv, Pull
    PROVE  ServiceInv'
<1> USE DEF userVars
<1>1. /\ main = "pull"
      /\ UNCHANGED <<task, conn, toMain, inbox, newTasks, active, woken, known, target>>
  BY DEF Pull
<1>2. CASE out = <<>>
  <2>1. main' = "wait" /\ UNCHANGED <<out, toConn, panicked>>
    BY <1>2 DEF Pull
  <2>2. known' \in SUBSET Conns /\ woken' \in BOOLEAN /\ main' # "newTask"
    BY <1>1, <2>1 DEF ServiceInv, TypeOK
  <2>3. RoundOK'
    BY <1>1, <1>2, <2>1 DEF ServiceInv, RoundOK
  <2> QED BY <1>1, <2>1, <2>2, <2>3, QuietStepInv
<1>3. CASE out # <<>>
  <2>1. out \in Seq(Sent)
    BY DEF ServiceInv, TypeOK
  <2>2. Head(out) \in Sent /\ Tail(out) \in Seq(Sent)
    BY <1>3, <2>1
  <2>3. PICK c \in Conns : Head(out).conn = c
    BY <2>2 DEF Sent
  <2>4. /\ task[c] \in Tasks /\ toConn[c] \in Seq(Msgs)
        /\ AllOK(c, task[c], conn[c], active, toConn[c], toMain, inbox, out)
    BY InvOf, Zenon
  <2>5. /\ task[c].pc \in Started
        /\ ToldOK(c, task[c], conn[c], Append(toConn[c], Head(out).m), Tail(out))
    BY <1>3, <2>1, <2>3, <2>4, DeliveredOK, Zenon DEF AllOK
  <2>6. c \in active /\ task[c].pc # "done"
    <3>1. c \in active
      BY <2>4, <2>5, Zenon DEF AllOK, TaskOK
    <3>2. task[c].pc # "done"
      BY <2>5 DEF Started
    <3> QED BY <3>1, <3>2
  <2>7. /\ toConn' = [toConn EXCEPT ![c] = Append(@, Head(out).m)] /\ out' = Tail(out)
        /\ main' = main /\ panicked' = panicked
    BY <1>3, <2>3, <2>6 DEF Pull
  <2>8. /\ toConn'[c] = Append(toConn[c], Head(out).m) /\ toConn' \in [Conns -> Seq(Msgs)]
        /\ \A d \in Conns \ {c} : toConn'[d] = toConn[d]
    <3>1. Append(toConn[c], Head(out).m) \in Seq(Msgs)
      BY <2>2, <2>4 DEF Sent
    <3> QED BY <2>7, <3>1 DEF ServiceInv, TypeOK
  <2>9. ConnectionOK(c)'
    BY <1>1, <2>4, <2>5, <2>7, <2>8, Zenon DEF AllOK, ConnectionOK
  <2>10. TypeOK'
    BY <1>1, <2>2, <2>7, <2>8, Zenon DEF ServiceInv, TypeOK
  <2>11. HandedOver'
    BY <1>1, <2>7, Zenon DEF ServiceInv, HandedOver
  <2>12. RoundOK'
    BY <1>1, <2>7 DEF ServiceInv, RoundOK
  <2>13. \A d \in Conns \ {c} :
            /\ task'[d] = task[d] /\ conn'[d] = conn[d] /\ toConn'[d] = toConn[d]
            /\ d \in active' <=> d \in active
            /\ Fewer(toMain', toMain, d, Finished) /\ Fewer(inbox', inbox, d, Finished)
            /\ Fewer(out', out, d, Ack)
    BY <1>1, <1>3, <2>1, <2>7, <2>8, FewerSame, FewerTail, Zenon
  <2> QED BY <2>7, <2>9, <2>10, <2>11, <2>12, <2>13, OneConnInv, Zenon
<1> QED BY <1>2, <1>3, Zenon

(* A user gives the state machine a message for an open connection.  Unless *)
(* it wakes up the main task, the message is a neighbor packet.             *)
LEMMA UserStepInv ==
    ASSUME ServiceInv, NEW c \in Conns, conn[c] = "Open",
           NEW x \in Sent, x.conn = c, x.m.k \in {"request", "neighbor"}, out' = Append(out, x),
           \/ woken' = TRUE
           \/ woken' = woken /\ x.m.k = "neighbor",
           UserUnchanged, UNCHANGED <<conn, inbox, known>>
    PROVE  ServiceInv'
<1> USE DEF UserUnchanged, mainVars, chanVars
<1>1. /\ out \in Seq(Sent) /\ task[c] \in Tasks
      /\ AllOK(c, task[c], conn[c], active, toConn[c], toMain, inbox, out)
  BY InvOf, Zenon
<1>2. task[c].pc \in Started /\ conn[c] # "gone" /\ x.m.k # Ack
  <2>1. conn[c] \notin {"none", "pending", "gone"} /\ x.m.k # Ack /\ conn[c] # "gone"
    BY DEF Ack
  <2> QED BY <1>1, <2>1, Zenon DEF AllOK, TaskOK
<1>3. ToldOK(c, task[c], conn[c], toConn[c], Append(out, x))
  BY <1>1, <1>2, ReplyOK, Zenon DEF AllOK
<1>4. ConnectionOK(c)'
  BY <1>1, <1>3, Zenon DEF AllOK, ConnectionOK
<1>5. out' \in Seq(Sent)
  BY <1>1
<1>6. TypeOK'
  <2>1. woken' \in BOOLEAN
    BY DEF ServiceInv, TypeOK
  <2> QED BY <1>5, <2>1, Zenon DEF ServiceInv, TypeOK
<1>7. HandedOver'
  BY Zenon DEF ServiceInv, HandedOver
<1>8. RoundOK'
  <2>1. CASE woken' = TRUE
    BY <2>1, Zenon DEF ServiceInv, RoundOK
  <2>2. CASE woken' = woken /\ x.m.k = "neighbor"
    <3>1. /\ Len(out') = Len(out) + 1 /\ out'[Len(out) + 1] = x /\ Len(out) \in Nat
          /\ \A i \in 1 .. Len(out) : out'[i] = out[i]
      BY <1>1
    <3>2. \A i \in 1 .. Len(out') : i \in 1 .. Len(out) \/ i = Len(out) + 1
      BY <3>1
    <3>3. (\A i \in 1 .. Len(out) : out[i].m.k = "neighbor")
             => \A i \in 1 .. Len(out') : out'[i].m.k = "neighbor"
      BY <2>2, <3>1, <3>2, Zenon
    <3> QED BY <2>2, <3>3, Zenon DEF ServiceInv, RoundOK
  <2> QED BY <2>1, <2>2
<1>9. \A d \in Conns \ {c} :
         /\ task'[d] = task[d] /\ conn'[d] = conn[d] /\ toConn'[d] = toConn[d]
         /\ d \in active' <=> d \in active
  BY Zenon
<1>10. ASSUME NEW d \in Conns \ {c}
       PROVE  /\ Fewer(toMain', toMain, d, Finished) /\ Fewer(inbox', inbox, d, Finished)
              /\ Fewer(out', out, d, Ack)
  <2>1. x.conn # d
    OBVIOUS
  <2>2. Fewer(Append(out, x), out, d, Ack)
    BY <1>1, <2>1, FewerAppend, Zenon
  <2> QED BY <2>2, FewerSame, Zenon
<1>11. panicked' = panicked
  OBVIOUS
<1> QED BY <1>4, <1>6, <1>7, <1>8, <1>9, <1>10, <1>11, OneConnInv, Zenon

(* A request of a user. *)
LEMMA blocks_requestInv ==
    ASSUME ServiceInv, NEW c \in Conns, NEW r \in Reqs, blocks_request(r, c)
    PROVE  ServiceInv'
<1>1. UserUnchanged /\ UNCHANGED <<conn, inbox, known>>
  BY DEF blocks_request
<1>2. CASE conn[c] = "Open"
  <2> DEFINE x == From(c, Msg("request", r))
  <2>1. out' = Append(out, x) /\ woken' = TRUE
    BY <1>2 DEF blocks_request
  <2>2. x \in Sent /\ x.conn = c /\ x.m.k \in {"request", "neighbor"}
    BY DEF From, Msg, Sent, Msgs, Kinds
  <2> HIDE DEF x
  <2> QED BY <1>1, <1>2, <2>1, <2>2, UserStepInv, Zenon
<1>3. CASE conn[c] # "Open"
  <2>1. out' = out /\ (woken' = woken \/ woken' = TRUE)
    BY <1>3 DEF blocks_request
  <2>2. /\ UNCHANGED <<task, conn, toConn, toMain, inbox, out, newTasks, active, panicked>>
        /\ UNCHANGED <<main, target>>
    BY <1>1, <2>1 DEF UserUnchanged, mainVars, chanVars
  <2>3. known' \in SUBSET Conns /\ woken' \in BOOLEAN
    BY <1>1, <2>1 DEF ServiceInv, TypeOK
  <2>4. RoundOK'
    BY <2>1, <2>2, Zenon DEF ServiceInv, RoundOK
  <2> QED BY <2>2, <2>3, <2>4, QuietStepInv
<1> QED BY <1>2, <1>3, Zenon

(* A subscriber that queues a neighbor packet. *)
LEMMA set_local_grandpa_stateInv ==
    ASSUME ServiceInv, set_local_grandpa_state
    PROVE  ServiceInv'
<1>1. UserUnchanged /\ UNCHANGED <<conn, inbox, known, woken>>
  BY DEF set_local_grandpa_state, userVars
<1>2. CASE out' = out
  <2>1. /\ UNCHANGED <<task, conn, toConn, toMain, inbox, out, newTasks, active, panicked>>
        /\ UNCHANGED <<main, target>>
    BY <1>1, <1>2 DEF UserUnchanged, mainVars, chanVars
  <2>2. known' \in SUBSET Conns /\ woken' \in BOOLEAN
    BY <1>1 DEF ServiceInv, TypeOK
  <2>3. RoundOK'
    BY <1>1, <2>1, Zenon DEF ServiceInv, RoundOK
  <2> QED BY <2>1, <2>2, <2>3, QuietStepInv
<1>3. ASSUME NEW c \in Conns, conn[c] = "Open", out' = Append(out, To(c, "neighbor"))
      PROVE  ServiceInv'
  <2> DEFINE x == To(c, "neighbor")
  <2>1. x \in Sent /\ x.conn = c /\ x.m.k \in {"request", "neighbor"} /\ x.m.k = "neighbor"
    BY DEF To, From, Msg, Sent, Msgs, Kinds
  <2>2. out' = Append(out, x)
    BY <1>3
  <2> HIDE DEF x
  <2> QED BY <1>1, <1>3, <2>1, <2>2, UserStepInv, Zenon
<1> QED BY <1>2, <1>3, Zenon DEF set_local_grandpa_state

-----------------------------------------------------------------------------
(* The theorems.                                                           *)

(* The invariant holds initially. *)
LEMMA InitInv ==
    ASSUME NetworkServiceInit
    PROVE  ServiceInv
<1> USE DEF NetworkServiceInit
<1>1. TypeOK
  <2>1. NoTask \in Tasks
    BY DEF NoTask, Tasks, Msg, Msgs, Kinds, None
  <2>2. task \in [Conns -> Tasks]
    BY <2>1
  <2>3. /\ conn \in [Conns -> ConnStates] /\ toConn \in [Conns -> Seq(Msgs)]
    BY DEF ConnStates
  <2>4. toMain \in Seq(Sent) /\ inbox \in Seq(Sent) /\ out \in Seq(Sent) /\ newTasks \in Seq(Conns)
    OBVIOUS
  <2>5. /\ active \in SUBSET Conns /\ known \in SUBSET Conns /\ main # "newTask"
        /\ woken \in BOOLEAN /\ panicked \in BOOLEAN
    OBVIOUS
  <2> QED BY <2>2, <2>3, <2>4, <2>5, Zenon DEF TypeOK
<1>2. ASSUME NEW c \in Conns PROVE ConnectionOK(c)
  <2>1. /\ task[c].pc = "none" /\ task[c].st = "Handshake" /\ task[c].pend = <<>> /\ task[c].reqs = {}
        /\ conn[c] = "none" /\ toConn[c] = <<>>
    BY DEF NoTask
  <2>2. \A q : q = <<>> => /\ Silent(q, c) /\ ~Holds(q, c, Finished) /\ Ends(q, c, Finished)
                           /\ ~Holds(q, c, Ack) /\ Ends(q, c, Ack)
    BY DEF Silent, Holds, Ends
  <2>3. \A q : q = <<>> => /\ ~HoldsMsg(q, Finished) /\ EndsMsg(q, Finished)
                           /\ ~HoldsMsg(q, Ack) /\ EndsMsg(q, Ack)
    BY DEF HoldsMsg, EndsMsg
  <2>4. TaskOK(c, task[c], conn[c], active)
    BY <2>1 DEF TaskOK, Started
  <2>5. SaysOK(c, task[c], conn[c], toMain, inbox)
    BY <2>1, <2>2, <2>3 DEF SaysOK, Speaking, Started
  <2>6. ToldOK(c, task[c], conn[c], toConn[c], out)
    BY <2>1, <2>2, <2>3 DEF ToldOK
  <2> QED BY <2>4, <2>5, <2>6 DEF AllOK, ConnectionOK
<1>3. HandedOver
  BY DEF HandedOver
<1>4. RoundOK
  BY DEF RoundOK
<1> QED BY <1>1, <1>2, <1>3, <1>4 DEF ServiceInv

(* Every step keeps the invariant. *)
LEMMA NextInv ==
    ASSUME ServiceInv, [NetworkServiceNext]_nsVars
    PROVE  ServiceInv'
<1>1. CASE MainNext
  BY <1>1, QuietActions, InjectMessagesInv, EventsInv, ConnectInv, NewTaskInv, PullInv, Zenon DEF MainNext
<1>2. CASE UsersNext
  BY <1>2, QuietActions, set_local_grandpa_stateInv, DiscoverInv, blocks_requestInv, Zenon DEF UsersNext
<1>3. CASE NewConnec
  BY <1>3, NewConnecInv, Zenon
<1>4. ASSUME NEW c \in Conns, TaskWork(c) \/ Accept(c) PROVE ServiceInv'
  BY <1>4, HandOverInv, InjectTaskInv, InjectWhileSendingInv, SendToCoordinatorInv, WakeInv, ExitInv,
     DialOkInv, DialErrorInv, AcceptInv, Zenon DEF TaskWork
<1>5. ASSUME NEW c \in Conns, Io(c) \/ WakeBySocket(c) PROVE ServiceInv'
  BY <1>5, IoNothingInv, IoRespondInv, IoHandshakeInv, IoNewsInv, IoErrorInv, WakeInv, Zenon DEF Io
<1>6. CASE UNCHANGED nsVars
  <2>1. UNCHANGED <<task, conn, toConn, toMain, inbox, out, newTasks, active, panicked, known,
                    woken, main, target>>
    BY <1>6 DEF nsVars
  <2>2. known' \in SUBSET Conns /\ woken' \in BOOLEAN
    BY <2>1 DEF ServiceInv, TypeOK
  <2>3. RoundOK'
    BY <2>1, Zenon DEF ServiceInv, RoundOK
  <2> QED BY <2>1, <2>2, <2>3, QuietStepInv
<1> QED BY <1>1, <1>2, <1>3, <1>4, <1>5, <1>6, Zenon DEF NetworkServiceNext

(* The invariant implies what the runs check. *)
LEMMA InvSound ==
    ServiceInv => NetworkServiceSound
<1> SUFFICES ASSUME ServiceInv PROVE NetworkServiceSound
  OBVIOUS
<1>1. out \in Seq(Sent)
  BY DEF ServiceInv, TypeOK
<1>2. DOMAIN out = 1 .. Len(out)
  BY <1>1
<1>3. ASSUME NEW c \in Conns, task[c].pc \in {"exit", "done"}
      PROVE  task[c].pend = <<>> /\ toConn[c] = <<>> /\ Silent(out, c)
  <2>1. AllOK(c, task[c], conn[c], active, toConn[c], toMain, inbox, out)
    BY InvOf, Zenon
  <2>2. CASE task[c].pc = "exit"
    <3>1. task[c].st = "Acked"
      BY <2>1, <2>2, Zenon DEF AllOK, TaskOK
    <3>2. toConn[c] = <<>> /\ Silent(out, c) /\ conn[c] = "gone"
      BY <2>1, <3>1, Zenon DEF AllOK, ToldOK
    <3>3. task[c].pend = <<>>
      BY <2>1, <3>2, Zenon DEF AllOK, SaysOK, Speaking
    <3> QED BY <3>2, <3>3
  <2>3. CASE task[c].pc = "done"
    <3>1. task[c].pc \notin Started
      BY <2>3 DEF Started
    <3> QED BY <2>1, <3>1, Zenon DEF AllOK, SaysOK, ToldOK
  <2> QED BY <1>3, <2>2, <2>3
<1>4. MessagesFindTheirTask
  BY <1>2, <1>3, Zenon DEF MessagesFindTheirTask, ServiceInv, Silent
<1>5. SleepsOnlyWhenDone
  <2> SUFFICES ASSUME main = "wait", ~woken
               PROVE  toMain = <<>> /\ inbox = <<>> /\ \A i \in DOMAIN out : out[i].m.k = "neighbor"
    BY DEF SleepsOnlyWhenDone
  <2>1. main \notin {"listen", "lock", "inject"} /\ main \in {"connect", "newTask", "pull", "wait"}
    OBVIOUS
  <2> QED BY <1>2, <2>1, Zenon DEF ServiceInv, RoundOK
<1> QED BY <1>4, <1>5 DEF NetworkServiceSound

(* The inductive invariant holds throughout. *)
THEOREM Invariance == NetworkServiceSpec => []ServiceInv
<1>1. NetworkServiceInit => ServiceInv
  BY InitInv
<1>2. ServiceInv /\ [NetworkServiceNext]_nsVars => ServiceInv'
  BY NextInv
<1> QED BY <1>1, <1>2, PTL DEF NetworkServiceSpec

(* The tasks of network_service.rs never miss each other: a message pulled *)
(* for a connection finds its entry in active_connections and its task,    *)
(* whatever the order of the two shutdowns, and the main task only sleeps  *)
(* when no message and no request is left.                                 *)
THEOREM TasksMeet == NetworkServiceSpec => []NetworkServiceSound
BY Invariance, InvSound, PTL

(* Once the state machine has removed a connection, no message of it is on *)
(* the way or ever sent any more.                                          *)
NothingAfterTheEnd ==
    \A c \in Conns : conn[c] = "gone" => Silent(toMain, c) /\ Silent(inbox, c) /\ ~Speaking(task[c])

(* inject_connection_message is never given a message of a connection that *)
(* the state machine has removed.                                          *)
THEOREM NoStrayMessage == NetworkServiceSpec => []NothingAfterTheEnd
<1>1. ServiceInv => NothingAfterTheEnd
  BY Zenon DEF ServiceInv, ConnectionOK, AllOK, SaysOK, NothingAfterTheEnd
<1> QED BY <1>1, Invariance, PTL
=============================================================================
