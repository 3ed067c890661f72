--------------------------- MODULE NetworkService ---------------------------
(***************************************************************************)
(* The tasks of the network service: bin/light-base/src/network_service.rs *)
(* and, when FullNode, bin/full-node/src/run/network_service.rs, which has *)
(* the same structure.                                                     *)
(*                                                                         *)
(* The main task runs rounds: it takes the lock of the network state       *)
(* machine, injects the messages of the connections, handles the events    *)
(* (releasing the lock while it waits for a subscriber), starts dialling,  *)
(* and sends to the connections the messages meant for them, waiting for   *)
(* room in their channels with the lock held.  Every connection has its    *)
(* task.  Users lock the state machine to start requests.                  *)
(*                                                                         *)
(* The state machine is abstracted to what decides who waits for whom: the *)
(* state of each connection, the messages injected in it and the messages  *)
(* it has for the connections (modules ChainNetwork and Collection have    *)
(* the rest).                                                              *)
(***************************************************************************)
EXTENDS Integers, FiniteSets, Sequences

CONSTANTS Conns,          \* connections, each established at most once
          Reqs,           \* requests of the users
          FullNode,       \* which of the two binaries
          MainCap,        \* channel from the connections to the main task
          ConnCap,        \* channels from the main task to a connection
          TaskCap,        \* channel of the new connection tasks
          EventCap,       \* channel of a subscriber
          MaxDials,       \* dialling attempts in parallel
          MaxNews         \* notifications a connection receives

VARIABLES lock,           \* the main task holds the lock
          main,           \* where the main task is
          target,         \* the connection it is about to dial
          woken,          \* its listener has been notified
          conn,           \* the state machine's view of the connections
          inbox,          \* messages injected, not processed yet
          out,            \* messages for the connections
          known,          \* peers to connect to
          reqs, reqConn,
          toMain, toConn, newTasks, events, subscriber,
          active,         \* active_connections
          task,           \* the connection tasks
          news,
          panicked

nsVars == <<lock, main, target, woken, conn, inbox, out, known, reqs, reqConn, toMain, toConn, newTasks,
            events, subscriber, active, task, news, panicked>>
userVars == <<reqs, reqConn, known>>
mainVars == <<lock, main, target>>
coordVars == <<conn, inbox, out>>
chanVars == <<toMain, toConn, newTasks, events>>

None == "none"
Msg(k, r) == [k |-> k, r |-> r]
NoTask == [pc |-> "none", st |-> "Handshake", pend |-> <<>>, msg |-> Msg(None, None), reqs |-> {}, socket |-> TRUE]
From(c, m) == [conn |-> c, m |-> m]
To(c, k) == From(c, Msg(k, None))

NetworkServiceInit ==
    /\ lock = FALSE /\ main = "listen" /\ target = None /\ woken = FALSE
    /\ conn = [c \in Conns |-> "none"] /\ inbox = <<>> /\ out = <<>>
    /\ known = {}
    /\ reqs = [r \in Reqs |-> "idle"] /\ reqConn = [r \in Reqs |-> None]
    /\ toMain = <<>> /\ toConn = [c \in Conns |-> <<>>] /\ newTasks = <<>>
    /\ events = 0 /\ subscriber = "idle"
    /\ active = {}
    /\ task = [c \in Conns |-> NoTask]
    /\ news = [c \in Conns |-> 0]
    /\ panicked = FALSE

-----------------------------------------------------------------------------
(* The main task: background_task and update_round.                        *)

\* The listener is created before the round.
Listen ==
    /\ main = "listen"
    /\ main' = "lock" /\ woken' = FALSE
    /\ UNCHANGED <<lock, target, coordVars, userVars, chanVars, subscriber, active, task, news, panicked>>

Lock ==
    /\ main \in {"lock", "relock"} /\ ~ lock
    /\ lock' = TRUE /\ main' = IF main = "lock" THEN "inject" ELSE "events"
    /\ UNCHANGED <<target, woken, coordVars, userVars, chanVars, subscriber, active, task, news, panicked>>

InjectMessages ==
    /\ main = "inject"
    /\ IF toMain = <<>>
       THEN main' = "events" /\ UNCHANGED <<inbox, toMain>>
       ELSE inbox' = Append(inbox, Head(toMain)) /\ toMain' = Tail(toMain) /\ UNCHANGED main
    /\ UNCHANGED <<lock, target, woken, conn, out, userVars, toConn, newTasks, events, subscriber,
                   active, task, news, panicked>>

Outstanding(c, kinds) == {r \in Reqs : reqs[r] \in kinds /\ reqConn[r] = c}
Answered(R) == [r \in Reqs |-> IF r \in R THEN "answered" ELSE reqs[r]]

\* The events of interest to the subscribers are sent to them, without the lock.
Dispatch == main' = "send" /\ lock' = FALSE
Handled == UNCHANGED <<main, lock>>

HandleEvent(c, m) ==
    CASE m.k = "HandshakeFinished" ->
             /\ conn' = [conn EXCEPT ![c] = "Open"] /\ Handled /\ UNCHANGED <<out, reqs>>
      [] m.k = "news" -> Dispatch /\ UNCHANGED <<conn, out, reqs>>
      [] m.k = "pingFailed" ->
             /\ conn' = [conn EXCEPT ![c] = "ShuttingApi"]
             /\ out' = Append(out, To(c, "StartShutdown"))
             /\ Handled /\ UNCHANGED reqs
      [] m.k = "StartShutdown" ->
             /\ conn' = [conn EXCEPT ![c] = IF @ = "Handshaking" THEN "ShuttingEarly" ELSE "Shutting"]
             /\ reqs' = Answered(Outstanding(c, {"sent"}))
             /\ Handled /\ UNCHANGED out
      [] m.k = "ShutdownFinished" ->
             /\ conn' = [conn EXCEPT ![c] = "gone"]
             /\ out' = Append(out, To(c, "ShutdownFinishedAck"))
             /\ reqs' = Answered(Outstanding(c, {"fake"}))
             /\ IF conn[c] = "Shutting" THEN Dispatch ELSE Handled
      [] OTHER -> reqs' = Answered({m.r}) /\ Handled /\ UNCHANGED <<conn, out>>

\* A ping that fails once the connection is shutting down changes nothing.
Stale(c, m) == m.k = "pingFailed" /\ conn[c] # "Open"

Events ==
    /\ main = "events"
    /\ IF inbox = <<>> THEN main' = "connect" /\ UNCHANGED <<lock, conn, inbox, out, reqs>>
       ELSE /\ inbox' = Tail(inbox)
            /\ IF Stale(Head(inbox).conn, Head(inbox).m) THEN Handled /\ UNCHANGED <<conn, out, reqs>>
               ELSE HandleEvent(Head(inbox).conn, Head(inbox).m)
    /\ UNCHANGED <<target, woken, reqConn, known, chanVars, subscriber, active, task, news, panicked>>

SendEvent ==
    /\ main = "send" /\ events < EventCap
    /\ events' = events + 1 /\ main' = "relock"
    /\ UNCHANGED <<lock, target, woken, coordVars, userVars, toMain, toConn, newTasks, subscriber, active,
                   task, news, panicked>>

\* assign_slots and next_start_connect.
Dialing == {c \in Conns : conn[c] = "pending"}
Connect ==
    /\ main = "connect"
    /\ LET wanted == {c \in known : conn[c] = "none"} IN
       IF wanted = {} \/ Cardinality(Dialing) >= MaxDials
       THEN main' = "pull" /\ UNCHANGED <<conn, target>>
       ELSE \E c \in wanted : conn' = [conn EXCEPT ![c] = "pending"] /\ target' = c /\ main' = "newTask"
    /\ UNCHANGED <<lock, woken, inbox, out, userVars, chanVars, subscriber, active, task, news, panicked>>

NewTask ==
    /\ main = "newTask" /\ Len(newTasks) < TaskCap
    /\ newTasks' = Append(newTasks, target)
    /\ task' = [task EXCEPT ![target].pc = "dial?"]
    /\ main' = "connect"
    /\ UNCHANGED <<lock, target, woken, coordVars, userVars, toMain, toConn, events, subscriber, active,
                   news, panicked>>

\* pull_message_to_connection, and the channel of the connection: both
\* unwraps panic when the connection isn't active or its task is over.
Pull ==
    /\ main = "pull"
    /\ IF out = <<>> THEN main' = "wait" /\ lock' = FALSE /\ UNCHANGED <<out, toConn, panicked>>
       ELSE LET c == Head(out).conn IN
            IF c \notin active \/ task[c].pc = "done"
            THEN panicked' = TRUE /\ main' = "dead" /\ UNCHANGED <<lock, out, toConn>>
            ELSE /\ Len(toConn[c]) < ConnCap
                 /\ toConn' = [toConn EXCEPT ![c] = Append(@, Head(out).m)]
                 /\ out' = Tail(out)
                 /\ UNCHANGED <<lock, main, panicked>>
    /\ UNCHANGED <<target, woken, conn, inbox, userVars, toMain, newTasks, events, subscriber, active,
                   task, news>>

Notified ==
    /\ main = "wait" /\ woken
    /\ main' = "listen"
    /\ UNCHANGED <<lock, target, woken, coordVars, userVars, chanVars, subscriber, active, task, news, panicked>>

-----------------------------------------------------------------------------
(* The users.                                                              *)

UserUnchanged == UNCHANGED <<mainVars, chanVars, active, task, news, panicked>>

discover(c) ==
    /\ ~ lock /\ c \notin known /\ conn[c] = "none"
    /\ known' = known \cup {c} /\ woken' = TRUE
    /\ UserUnchanged /\ UNCHANGED <<coordVars, reqs, reqConn, subscriber>>

\* blocks_request and the like.  On a connection that is shutting down the
\* request waits for the end of the shutdown.
blocks_request(r, c) ==
    /\ ~ lock /\ reqs[r] = "idle"
    /\ reqConn' = [reqConn EXCEPT ![r] = c]
    /\ CASE conn[c] = "Open" ->
               /\ reqs' = [reqs EXCEPT ![r] = "sent"]
               /\ out' = Append(out, From(c, Msg("request", r))) /\ woken' = TRUE
         [] conn[c] \in {"Shutting", "ShuttingApi"} ->
               reqs' = [reqs EXCEPT ![r] = "fake"] /\ woken' = TRUE /\ UNCHANGED out
         [] OTHER -> reqs' = [reqs EXCEPT ![r] = "noConnection"] /\ UNCHANGED <<out, woken>>
    /\ UserUnchanged /\ UNCHANGED <<conn, inbox, known, subscriber>>

\* A subscriber receives an event; handling it may need the lock, as
\* set_local_grandpa_state does, which queues a notification and doesn't
\* wake up the main task.
Receive ==
    /\ subscriber = "idle" /\ events > 0
    /\ events' = events - 1 /\ subscriber' \in {"idle", "locking"}
    /\ UNCHANGED <<mainVars, woken, coordVars, userVars, toMain, toConn, newTasks, active, task, news, panicked>>

set_local_grandpa_state ==
    /\ subscriber = "locking" /\ ~ lock
    /\ subscriber' = "idle"
    /\ \/ UNCHANGED out
       \/ \E c \in Conns : conn[c] = "Open" /\ out' = Append(out, To(c, "neighbor"))
    /\ UserUnchanged /\ UNCHANGED <<woken, conn, inbox, userVars>>

-----------------------------------------------------------------------------
(* The connection tasks.                                                   *)

TaskUnchanged == UNCHANGED <<mainVars, inbox, userVars, events, subscriber, panicked>>

\* The task that runs all the others picks up a new one.
NewConnec ==
    /\ newTasks # <<>>
    /\ newTasks' = Tail(newTasks)
    /\ task' = [task EXCEPT ![Head(newTasks)].pc = IF @ = "dial?" THEN "dial" ELSE "inject"]
    /\ TaskUnchanged /\ UNCHANGED <<woken, conn, out, toMain, toConn, active, news>>

\* connection_task.
DialError(c) ==
    /\ task[c].pc = "dial" /\ ~ lock
    /\ conn' = [conn EXCEPT ![c] = "gone"] /\ woken' = TRUE
    /\ task' = [task EXCEPT ![c].pc = "done"]
    /\ TaskUnchanged /\ UNCHANGED <<out, toMain, toConn, newTasks, active, news>>

DialOk(c) ==
    /\ task[c].pc = "dial" /\ ~ lock
    /\ conn' = [conn EXCEPT ![c] = "Handshaking"] /\ active' = active \cup {c}
    /\ woken' = (woken \/ FullNode)
    /\ task' = [task EXCEPT ![c].pc = "inject"]
    /\ TaskUnchanged /\ UNCHANGED <<out, toMain, toConn, newTasks, news>>

\* The full node listens.  The socket's task is handed over once unlocked.
Accept(c) ==
    /\ FullNode /\ ~ lock /\ conn[c] = "none" /\ c \notin known
    /\ conn' = [conn EXCEPT ![c] = "Handshaking"] /\ active' = active \cup {c}
    /\ task' = [task EXCEPT ![c].pc = "handover"]
    /\ TaskUnchanged /\ UNCHANGED <<woken, out, toMain, toConn, newTasks, news>>

HandOver(c) ==
    /\ task[c].pc = "handover" /\ Len(newTasks) < TaskCap
    /\ newTasks' = Append(newTasks, c)
    /\ task' = [task EXCEPT ![c].pc = "run?"]
    /\ TaskUnchanged /\ UNCHANGED <<woken, conn, out, toMain, toConn, active, news>>

\* inject_coordinator_message.
ShutDown(t) == [t EXCEPT !.st = "WaitingAck", !.reqs = {},
                         !.pend = @ \o <<Msg("StartShutdown", None), Msg("ShutdownFinished", None)>>]
Injected(t, m) ==
    CASE m.k = "StartShutdown" -> IF t.st = "WaitingAck" THEN t ELSE ShutDown(t)
      [] m.k = "ShutdownFinishedAck" -> [t EXCEPT !.st = "Acked"]
      [] m.k = "request" /\ t.st = "Established" -> [t EXCEPT !.reqs = @ \cup {m.r}]
      [] OTHER -> t

OnlyTask == TaskUnchanged /\ UNCHANGED <<conn, out, newTasks, active>>

\* The start of the loop: the messages of the coordinator.
InjectTask(c) ==
    /\ task[c].pc = "inject"
    /\ IF toConn[c] = <<>>
       THEN task' = [task EXCEPT ![c].pc = "io"] /\ UNCHANGED toConn
       ELSE /\ task' = [task EXCEPT ![c] = Injected(@, Head(toConn[c]))]
            /\ toConn' = [toConn EXCEPT ![c] = Tail(@)]
    /\ OnlyTask /\ UNCHANGED <<woken, toMain, news>>

\* What read_write leaves to say to the coordinator.
Says(t, m) == [t EXCEPT !.pend = Append(@, m)]
Responds(t, r) == Says([t EXCEPT !.reqs = @ \ {r}], Msg("response", r))
Established(t) == Says([t EXCEPT !.st = "Established"], Msg("HandshakeFinished", None))

\* read_write, then pull_message_to_coordinator.
Pulled(t) ==
    CASE t.st = "Acked" -> [t EXCEPT !.pc = "exit"]
      [] t.st # "Acked" /\ t.pend # <<>> -> [t EXCEPT !.pc = "sending", !.msg = Head(t.pend), !.pend = Tail(t.pend)]
      [] OTHER -> [t EXCEPT !.pc = "idle"]

IoNothing(c) ==
    /\ task[c].pc = "io"
    /\ task' = [task EXCEPT ![c] = Pulled(@)]
    /\ OnlyTask /\ UNCHANGED <<woken, toMain, toConn, news>>

\* The answer to a request has come, or its timeout.
IoRespond(c) ==
    /\ task[c].pc = "io" /\ task[c].socket
    /\ \E r \in task[c].reqs : task' = [task EXCEPT ![c] = Pulled(Responds(@, r))]
    /\ OnlyTask /\ UNCHANGED <<woken, toMain, toConn, news>>

IoHandshake(c) ==
    /\ task[c].pc = "io" /\ task[c].st = "Handshake"
    /\ task' = [task EXCEPT ![c] = Pulled(Established(@))]
    /\ OnlyTask /\ UNCHANGED <<woken, toMain, toConn, news>>

IoNews(c) ==
    /\ task[c].pc = "io" /\ task[c].st = "Established" /\ news[c] < MaxNews
    /\ news' = [news EXCEPT ![c] = @ + 1]
    /\ \E k \in {"news", "pingFailed"} : task' = [task EXCEPT ![c] = Pulled(Says(@, Msg(k, None)))]
    /\ OnlyTask /\ UNCHANGED <<woken, toMain, toConn>>

Unplugged(t) == [t EXCEPT !.socket = FALSE, !.pc = "inject"]

\* The connection ends, gracefully or not.  In the full node an error of the
\* socket resets the task and the loop starts again without a socket.
IoError(c) ==
    /\ task[c].pc = "io" /\ task[c].st \in {"Handshake", "Established"}
    /\ task' = [task EXCEPT ![c] = IF FullNode THEN Unplugged(ShutDown(@)) ELSE Pulled(ShutDown(@))]
    /\ OnlyTask /\ UNCHANGED <<woken, toMain, toConn, news>>

\* Waiting for room in the channel, the task still takes its messages.
InjectWhileSending(c) ==
    /\ task[c].pc = "sending" /\ toConn[c] # <<>>
    /\ task' = [task EXCEPT ![c] = Injected(@, Head(toConn[c]))]
    /\ toConn' = [toConn EXCEPT ![c] = Tail(@)]
    /\ OnlyTask /\ UNCHANGED <<woken, toMain, news>>

AfterMessageWaits == "idle"

\* After the message: the light client starts the loop again, the full node waits.
AfterMessage == IF FullNode THEN "idle" ELSE "inject"
SendWithoutWaking(c) ==
    /\ task[c].pc = "sending" /\ Len(toMain) < MainCap
    /\ toMain' = Append(toMain, From(c, task[c].msg)) /\ UNCHANGED woken
    /\ task' = [task EXCEPT ![c].pc = AfterMessage, ![c].msg = Msg(None, None)]
    /\ OnlyTask /\ UNCHANGED <<toConn, news>>


SendToCoordinator(c) ==
    /\ task[c].pc = "sending" /\ Len(toMain) < MainCap
    /\ toMain' = Append(toMain, From(c, task[c].msg)) /\ woken' = TRUE
    /\ task' = [task EXCEPT ![c].pc = AfterMessage, ![c].msg = Msg(None, None)]
    /\ OnlyTask /\ UNCHANGED <<toConn, news>>

\* The wait at the end of the loop ends with a message of the coordinator,
\* or with something on the socket or a timer.
WakeByMessage(c) ==
    /\ task[c].pc = "idle" /\ toConn[c] # <<>>
    /\ task' = [task EXCEPT ![c].pc = "inject"]
    /\ OnlyTask /\ UNCHANGED <<woken, toMain, toConn, news>>

WakeBySocket(c) ==
    /\ task[c].pc = "idle" /\ task[c].socket
    /\ task' = [task EXCEPT ![c].pc = "inject"]
    /\ OnlyTask /\ UNCHANGED <<woken, toMain, toConn, news>>

\* The task is over: it removes itself from active_connections.
Exit(c) ==
    /\ task[c].pc = "exit" /\ ~ lock
    /\ active' = active \ {c} /\ task' = [task EXCEPT ![c].pc = "done"]
    /\ TaskUnchanged /\ UNCHANGED <<woken, conn, out, newTasks, toMain, toConn, news>>

-----------------------------------------------------------------------------

MainNext == Listen \/ Lock \/ InjectMessages \/ Events \/ SendEvent \/ Connect \/ NewTask \/ Pull \/ Notified
UsersNext == \/ Receive \/ set_local_grandpa_state
             \/ \E c \in Conns : discover(c) \/ \E r \in Reqs : blocks_request(r, c)
TaskWork(c) == \/ HandOver(c) \/ InjectTask(c) \/ InjectWhileSending(c) \/ SendToCoordinator(c)
               \/ WakeByMessage(c) \/ Exit(c) \/ DialOk(c) \/ DialError(c)
Io(c) == IoNothing(c) \/ IoRespond(c) \/ IoHandshake(c) \/ IoNews(c) \/ IoError(c)

NetworkServiceNext ==
    \/ MainNext \/ UsersNext \/ NewConnec
    \/ \E c \in Conns : TaskWork(c) \/ Io(c) \/ WakeBySocket(c) \/ Accept(c)

NetworkServiceSpec == NetworkServiceInit /\ [][NetworkServiceNext]_nsVars

\* Every task that is ready is polled; the lock goes to whoever waits for it;
\* a connection with a request wakes up, at the latest at the request's
\* timeout, and answers it.
NetworkServiceFairness ==
    /\ WF_nsVars(MainNext) /\ SF_nsVars(Lock) /\ WF_nsVars(NewConnec)
    /\ WF_nsVars(Receive) /\ SF_nsVars(set_local_grandpa_state)
    /\ \A c \in Conns :
          /\ WF_nsVars(HandOver(c)) /\ WF_nsVars(InjectTask(c)) /\ WF_nsVars(WakeByMessage(c))
          /\ SF_nsVars(SendToCoordinator(c)) /\ SF_nsVars(Exit(c)) /\ SF_nsVars(DialOk(c) \/ DialError(c))
          /\ WF_nsVars(InjectWhileSending(c))
          /\ WF_nsVars(Io(c)) /\ SF_nsVars(IoRespond(c))
          /\ WF_nsVars(task[c].reqs # {} /\ WakeBySocket(c))

-----------------------------------------------------------------------------
(* Properties.                                                             *)

\* The two unwraps of the sending of a message to a connection hold, and a
\* task only ends once everything it had to say has been sent: the entry of
\* active_connections goes away after the last message for the connection,
\* whatever the order in which the two sides shut it down.
MessagesFindTheirTask ==
    /\ ~ panicked
    /\ \A c \in Conns : task[c].pc \in {"exit", "done"} =>
          /\ task[c].pend = <<>> /\ toConn[c] = <<>>
          /\ \A i \in DOMAIN out : out[i].conn # c

\* The comment of background_task: a notification during a round makes the
\* wait that follows instantaneous.  When the main task sleeps, no message of
\* a connection and no request is left for it to handle.
SleepsOnlyWhenDone ==
    main = "wait" /\ ~ woken =>
        toMain = <<>> /\ inbox = <<>> /\ \A i \in DOMAIN out : out[i].m.k = "neighbor"

\* The tasks never miss each other: both hold whatever the order of the steps
\* of the main task, the users and the connections.
NetworkServiceSound == MessagesFindTheirTask /\ SleepsOnlyWhenDone

\* Every request is answered: neither the main task, waiting with the lock
\* for room in the channel of a connection, nor a connection, waiting for
\* room in the channel of the main task or for the lock, waits for ever.
RequestsAnswered == \A r \in Reqs : reqs[r] \in {"sent", "fake"} ~> reqs[r] = "answered"

\* A connection that has told that it shuts down is eventually gone, as the
\* doc of pull_message_to_coordinator has it: it is to be called in a loop
\* until no more message is generated.
ShutdownFinishes ==
    \A c \in Conns : conn[c] \in {"Shutting", "ShuttingEarly"} ~> (conn[c] = "gone" /\ task[c].pc = "done")

=============================================================================
