----------------------- MODULE RequestsSubscriptions -----------------------
(***************************************************************************)
(* src/src/json_rpc/requests_subscriptions.rs: the queues between the      *)
(* JSON-RPC clients, the tasks that answer their requests, and the tasks   *)
(* that push the notifications of their subscriptions.  A task that has to *)
(* wait registers a listener on an event, looks again, and sleeps; each    *)
(* access to an atomic, a queue, an event or a lock is a step of its own.  *)
(*                                                                         *)
(* The contents of the messages are left out.  A request that has been     *)
(* pulled is named after the worker that answers it, a message of a        *)
(* subscription by its key in notification_messages.                       *)
(***************************************************************************)
EXTENDS Naturals, FiniteSets, Sequences, SequencesExt

CONSTANTS
    Clients,
    Workers,            \* tasks that call next_request
    Subs,               \* subscription identifiers, never reused
    MaxClients,
    MaxRequests,        \* max_requests_per_client
    MaxSubscriptions,   \* max_subscriptions_per_client
    Capacity,           \* messages_capacity
    NoClient

VARIABLES
    clients,    \* Clients::list
    joined,     \* clients that have been added, removed or not
    dead,       \* ClientInner::dead
    inFly,      \* ClientInner::total_requests_in_fly
    unpulled,   \* unpulled_requests: the client of each
    pending,    \* pending_requests
    responses,  \* responses_send_back
    messages,   \* notification_messages
    active,     \* active_subscriptions
    inactive,   \* num_inactive_alive_subscriptions
    owner,      \* the client of each subscription
    requester,  \* where the task in queue_client_request is, for each client
    reader,     \* where the task in next_response is, for each client
    worker,     \* where each worker is, and the client of its request
    pusher,     \* where the task in push_notification is, for each subscription
    slotEvent,  \* total_requests_in_fly_dec_or_dead
    pullEvent,  \* new_unpulled_request
    popEvent    \* notification_messages_popped_or_dead

taskVars  == <<requester, reader, worker, pusher>>
eventVars == <<slotEvent, pullEvent, popEvent>>
stateVars == <<clients, joined, dead, inFly, unpulled, pending, responses, messages, active,
               inactive, owner>>
vars == <<stateVars, taskVars, eventVars>>

(***************************************************************************)
(* event_listener::Event: listeners that sleep, in order of registration,   *)
(* and listeners that have been notified.                                   *)
(***************************************************************************)

NoListener == [waiting |-> << >>, notified |-> {}]
Listen(e, t) == [e EXCEPT !.waiting = Append(@, t)]

(* notify_additional(1) *)
NotifyOne(e) ==
    IF e.waiting = << >> THEN e
    ELSE [waiting |-> Tail(e.waiting), notified |-> e.notified \cup {Head(e.waiting)}]

(* notify_relaxed(usize::max_value()) *)
NotifyAll(e) == [waiting |-> << >>, notified |-> e.notified \cup ToSet(e.waiting)]

(* A listener that is dropped passes its notification on. *)
DropListener(e, t) ==
    IF t \in e.notified THEN NotifyOne([e EXCEPT !.notified = @ \ {t}])
    ELSE [e EXCEPT !.waiting = SelectSeq(@, LAMBDA x : x # t)]

(* The listener is consumed by the await. *)
Consume(e, t) == [e EXCEPT !.notified = @ \ {t}]

Init ==
    /\ clients = {} /\ joined = {}
    /\ dead = [c \in Clients |-> FALSE]
    /\ inFly = [c \in Clients |-> 0]
    /\ unpulled = << >>
    /\ pending = [c \in Clients |-> {}]
    /\ responses = [c \in Clients |-> << >>]
    /\ messages = [c \in Clients |-> {}]
    /\ active = [c \in Clients |-> {}]
    /\ inactive = [c \in Clients |-> 0]
    /\ owner = [s \in Subs |-> NoClient]
    /\ requester = [c \in Clients |-> "none"]
    /\ reader = [c \in Clients |-> "none"]
    /\ worker = [w \in Workers |-> [at |-> "pull", client |-> NoClient]]
    /\ pusher = [s \in Subs |-> "none"]
    /\ slotEvent = [c \in Clients |-> NoListener]
    /\ pullEvent = NoListener
    /\ popEvent = [c \in Clients |-> NoListener]

(***************************************************************************)
(* Clients                                                                 *)
(***************************************************************************)

AddClient(c) ==
    /\ c \notin joined /\ Cardinality(clients) # MaxClients
    /\ clients' = clients \cup {c} /\ joined' = joined \cup {c}
    /\ requester' = [requester EXCEPT ![c] = "idle"]
    /\ reader' = [reader EXCEPT ![c] = "pop"]
    /\ UNCHANGED <<dead, inFly, unpulled, pending, responses, messages, active, inactive, owner,
                   worker, pusher, eventVars>>

(* remove_client, up to the release of the lock on the list and the store   *)
(* to `dead`; the client's own tasks are stopped by their owner.            *)
RemoveClient(c) ==
    /\ c \in clients
    /\ clients' = clients \ {c}
    /\ dead' = [dead EXCEPT ![c] = TRUE]
    /\ reader' = [reader EXCEPT ![c] = "removing"]
    /\ UNCHANGED <<joined, inFly, unpulled, pending, responses, messages, active, inactive, owner,
                   requester, worker, pusher, eventVars>>

(* ... and its end, under the lock of the client. *)
RemoveClientNotify(c) ==
    /\ reader[c] = "removing"
    /\ reader' = [reader EXCEPT ![c] = "none"]
    /\ popEvent' = [popEvent EXCEPT ![c] = NotifyAll(@)]
    /\ slotEvent' = [slotEvent EXCEPT ![c] = NotifyAll(@)]
    /\ UNCHANGED <<stateVars, requester, worker, pusher, pullEvent>>

(***************************************************************************)
(* queue_client_request                                                    *)
(***************************************************************************)

SetRequester(c, to) == requester' = [requester EXCEPT ![c] = to]

(* The load of `dead` and the fetch_update, before and after listen().  A   *)
(* client that is idle may send a request at any time.                      *)
TryReserve(c) ==
    /\ requester[c] \in {"idle", "try", "listened"}
    /\ requester[c] = "idle" => c \in clients
    /\ IF dead[c]
       THEN SetRequester(c, "none") /\ UNCHANGED inFly
       ELSE IF inFly[c] < MaxRequests
       THEN SetRequester(c, "push") /\ inFly' = [inFly EXCEPT ![c] = @ + 1]
       ELSE SetRequester(c, IF requester[c] = "listened" THEN "asleep" ELSE "listen") /\ UNCHANGED inFly
    /\ slotEvent' = IF requester'[c] \in {"none", "push"} /\ requester[c] = "listened"
                    THEN [slotEvent EXCEPT ![c] = DropListener(@, c)] ELSE slotEvent
    /\ UNCHANGED <<clients, joined, dead, unpulled, pending, responses, messages, active, inactive,
                   owner, reader, worker, pusher, pullEvent, popEvent>>

RequesterListen(c) ==
    /\ requester[c] = "listen"
    /\ SetRequester(c, "listened")
    /\ slotEvent' = [slotEvent EXCEPT ![c] = Listen(@, c)]
    /\ UNCHANGED <<stateVars, reader, worker, pusher, pullEvent, popEvent>>

RequesterWakes(c) ==
    /\ requester[c] = "asleep" /\ c \in slotEvent[c].notified
    /\ SetRequester(c, "try")
    /\ slotEvent' = [slotEvent EXCEPT ![c] = Consume(@, c)]
    /\ UNCHANGED <<stateVars, reader, worker, pusher, pullEvent, popEvent>>

PushRequest(c) ==
    /\ requester[c] = "push"
    /\ unpulled' = Append(unpulled, c)
    /\ SetRequester(c, "notify")
    /\ UNCHANGED <<clients, joined, dead, inFly, pending, responses, messages, active, inactive,
                   owner, reader, worker, pusher, eventVars>>

NotifyRequest(c) ==
    /\ requester[c] = "notify"
    /\ pullEvent' = NotifyOne(pullEvent)
    /\ SetRequester(c, IF dead[c] THEN "none" ELSE "idle")
    /\ UNCHANGED <<stateVars, reader, worker, pusher, slotEvent, popEvent>>

(***************************************************************************)
(* next_request, and what a worker does with the request                   *)
(***************************************************************************)

SetWorker(w, to, c) == worker' = [worker EXCEPT ![w] = [at |-> to, client |-> c]]

(* The pop of the queue, before and after listen(); requests of removed     *)
(* clients are thrown away.                                                 *)
PopRequest(w) ==
    /\ worker[w].at \in {"pull", "listened"}
    /\ IF unpulled = << >>
       THEN /\ SetWorker(w, IF worker[w].at = "pull" THEN "listen" ELSE "asleep", NoClient)
            /\ UNCHANGED <<unpulled, pullEvent>>
       ELSE /\ unpulled' = Tail(unpulled)
            /\ IF dead[Head(unpulled)] THEN SetWorker(w, "pull", NoClient)
                                       ELSE SetWorker(w, "insert", Head(unpulled))
            /\ pullEvent' = IF worker[w].at = "listened" THEN DropListener(pullEvent, w)
                                                         ELSE pullEvent
    /\ UNCHANGED <<clients, joined, dead, inFly, pending, responses, messages, active, inactive,
                   owner, requester, reader, pusher, slotEvent, popEvent>>

WorkerListen(w) ==
    /\ worker[w].at = "listen"
    /\ SetWorker(w, "listened", NoClient)
    /\ pullEvent' = Listen(pullEvent, w)
    /\ UNCHANGED <<stateVars, requester, reader, pusher, slotEvent, popEvent>>

WorkerWakes(w) ==
    /\ worker[w].at = "asleep" /\ w \in pullEvent.notified
    /\ SetWorker(w, "pull", NoClient)
    /\ pullEvent' = Consume(pullEvent, w)
    /\ UNCHANGED <<stateVars, requester, reader, pusher, slotEvent, popEvent>>

(* Under the lock of the client, which may have been removed since. *)
InsertPending(w) ==
    LET c == worker[w].client IN
    /\ worker[w].at = "insert"
    /\ pending' = [pending EXCEPT ![c] = @ \cup {w}]
    /\ SetWorker(w, "answer", c)
    /\ UNCHANGED <<clients, joined, dead, inFly, unpulled, responses, messages, active, inactive,
                   owner, requester, reader, pusher, eventVars>>

Wake(c) == reader' = [reader EXCEPT ![c] = IF @ = "asleep" THEN "pop" ELSE @]
Response == [kind |-> "response"]
Notification(s, i) == [kind |-> "notification", sub |-> s, index |-> i]

Respond(w) ==
    LET c == worker[w].client IN
    /\ worker[w].at = "answer"
    /\ pending' = [pending EXCEPT ![c] = @ \ {w}]
    /\ responses' = [responses EXCEPT ![c] = Append(@, Response)]
    /\ Wake(c)
    /\ SetWorker(w, "pull", NoClient)
    /\ UNCHANGED <<clients, joined, dead, inFly, unpulled, messages, active, inactive, owner,
                   requester, pusher, eventVars>>

StartSubscription(w, s) ==
    LET c == worker[w].client IN
    /\ worker[w].at = "answer" /\ owner[s] = NoClient
    /\ Cardinality(active[c]) + inactive[c] < MaxSubscriptions
    /\ active' = [active EXCEPT ![c] = @ \cup {s}]
    /\ owner' = [owner EXCEPT ![s] = c]
    /\ pusher' = [pusher EXCEPT ![s] = "idle"]
    /\ UNCHANGED <<clients, joined, dead, inFly, unpulled, pending, responses, messages, inactive,
                   requester, reader, worker, eventVars>>

KeysOf(c, s) == {k \in messages[c] : k[1] = s}

StopQuietly(w, s) ==
    LET c == worker[w].client IN
    /\ worker[w].at = "answer" /\ s \in active[c]
    /\ active' = [active EXCEPT ![c] = @ \ {s}]
    /\ inactive' = [inactive EXCEPT ![c] = IF KeysOf(c, s) # {} THEN @ + 1 ELSE @]
    /\ UNCHANGED <<clients, joined, dead, inFly, unpulled, pending, responses, messages, owner,
                   taskVars, eventVars>>

StopSubscription(w, s) ==
    LET c == worker[w].client IN
    /\ worker[w].at = "answer" /\ s \in active[c]
    /\ active' = [active EXCEPT ![c] = @ \ {s}]
    /\ inactive' = [inactive EXCEPT ![c] = IF KeysOf(c, s) # {} THEN @ + 1 ELSE @]
    /\ popEvent' = [popEvent EXCEPT ![c] = NotifyAll(@)]
    /\ UNCHANGED <<clients, joined, dead, inFly, unpulled, pending, responses, messages, owner,
                   taskVars, slotEvent, pullEvent>>

(***************************************************************************)
(* next_response                                                           *)
(***************************************************************************)

(* Under the lock of the client: a response, or ... *)
PopResponse(c) ==
    /\ reader[c] = "pop"
    /\ responses[c] # << >> /\ Head(responses[c]) = Response
    /\ responses' = [responses EXCEPT ![c] = Tail(@)]
    /\ inFly' = [inFly EXCEPT ![c] = @ - 1]
    /\ reader' = [reader EXCEPT ![c] = "notify"]
    /\ UNCHANGED <<clients, joined, dead, unpulled, pending, messages, active, inactive, owner,
                   requester, worker, pusher, eventVars>>

(* "the notification is done *after* the decrementation" *)
NotifySlot(c) ==
    /\ reader[c] = "notify"
    /\ slotEvent' = [slotEvent EXCEPT ![c] = NotifyOne(@)]
    /\ reader' = [reader EXCEPT ![c] = "pop"]
    /\ UNCHANGED <<stateVars, requester, worker, pusher, pullEvent, popEvent>>

(* ... a notification, possibly the last one of a stopped subscription, or ... *)
PopNotification(c) ==
    LET n == Head(responses[c])
        s == n.sub
        left == KeysOf(c, s) \ {<<s, n.index>>}
    IN
    /\ reader[c] = "pop"
    /\ responses[c] # << >> /\ n # Response
    /\ responses' = [responses EXCEPT ![c] = Tail(@)]
    /\ messages' = [messages EXCEPT ![c] = @ \ {<<s, n.index>>}]
    /\ popEvent' = [popEvent EXCEPT ![c] = NotifyOne(@)]
    /\ inactive' = [inactive EXCEPT ![c] = IF @ > 0 /\ s \notin active[c] /\ left = {}
                                           THEN @ - 1 ELSE @]
    /\ UNCHANGED <<clients, joined, dead, inFly, unpulled, pending, active, owner, taskVars,
                   slotEvent, pullEvent>>

(* ... nothing: the listener is registered before the lock is released. *)
ReaderSleeps(c) ==
    /\ reader[c] = "pop" /\ responses[c] = << >>
    /\ reader' = [reader EXCEPT ![c] = "asleep"]
    /\ UNCHANGED <<stateVars, requester, worker, pusher, eventVars>>

(***************************************************************************)
(* Notifications                                                           *)
(***************************************************************************)

(* The first free index of the queue of the subscription. *)
FreeIndices(c, s) == {i \in 0..Capacity : <<s, i>> \notin messages[c]}
FreeIndex(c, s) == CHOOSE i \in FreeIndices(c, s) : \A j \in FreeIndices(c, s) : i <= j

QueueNotification(c, s, i) ==
    /\ messages' = [messages EXCEPT ![c] = @ \cup {<<s, i>>}]
    /\ responses' = IF <<s, i>> \in messages[c] THEN responses
                    ELSE [responses EXCEPT ![c] = Append(@, Notification(s, i))]
    /\ IF <<s, i>> \in messages[c] THEN UNCHANGED reader ELSE Wake(c)

(* One iteration of the loop of try_push_notification_inner. *)
PushNotification(s) ==
    LET c == owner[s] IN
    /\ pusher[s] \in {"idle", "push"}
    /\ IF dead[c] \/ s \notin active[c]
       THEN pusher' = [pusher EXCEPT ![s] = "none"] /\ UNCHANGED <<messages, responses, reader, popEvent>>
       ELSE IF FreeIndex(c, s) < Capacity
       THEN /\ QueueNotification(c, s, FreeIndex(c, s))
            /\ pusher' = [pusher EXCEPT ![s] = "idle"]
            /\ UNCHANGED popEvent
       ELSE /\ popEvent' = [popEvent EXCEPT ![c] = Listen(@, s)]
            /\ pusher' = [pusher EXCEPT ![s] = "asleep"]
            /\ UNCHANGED <<messages, responses, reader>>
    /\ UNCHANGED <<clients, joined, dead, inFly, unpulled, pending, active, inactive, owner,
                   requester, worker, slotEvent, pullEvent>>

PusherWakes(s) ==
    LET c == owner[s] IN
    /\ pusher[s] = "asleep" /\ s \in popEvent[c].notified
    /\ pusher' = [pusher EXCEPT ![s] = "push"]
    /\ popEvent' = [popEvent EXCEPT ![c] = Consume(@, s)]
    /\ UNCHANGED <<stateVars, requester, reader, worker, slotEvent, pullEvent>>

SetQueuedNotification(s, i) ==
    LET c == owner[s] IN
    /\ pusher[s] = "idle" /\ s \in active[c]
    /\ QueueNotification(c, s, i)
    /\ UNCHANGED <<clients, joined, dead, inFly, unpulled, pending, active, inactive, owner,
                   requester, worker, pusher, eventVars>>

RequesterStep(c) ==
    TryReserve(c) \/ RequesterListen(c) \/ RequesterWakes(c) \/ PushRequest(c) \/ NotifyRequest(c)
WorkerStep(w) ==
    PopRequest(w) \/ WorkerListen(w) \/ WorkerWakes(w) \/ InsertPending(w) \/ Respond(w)
ReaderStep(c) ==
    PopResponse(c) \/ NotifySlot(c) \/ PopNotification(c) \/ ReaderSleeps(c) \/ RemoveClientNotify(c)
PusherStep(s) == PushNotification(s) \/ PusherWakes(s)

Next ==
    \/ \E c \in Clients : AddClient(c) \/ RemoveClient(c) \/ RequesterStep(c)
                          \/ ReaderStep(c)
    \/ \E w \in Workers : WorkerStep(w)
    \/ \E w \in Workers, s \in Subs : StartSubscription(w, s) \/ StopSubscription(w, s)
    \/ \E s \in Subs : PusherStep(s)
    \/ \E s \in Subs, i \in 0..(Capacity - 1) : SetQueuedNotification(s, i)

Spec == Init /\ [][Next]_vars

(***************************************************************************)
(* Properties                                                              *)
(***************************************************************************)

Count(seq, x) == Cardinality({i \in DOMAIN seq : seq[i] = x})

(* "Total number of requests that are either unpulled, pending, or whose    *)
(* response is queued": whatever the interleaving of the requester, the     *)
(* workers, the reader and remove_client, a request that has been counted   *)
(* is at exactly one place (total_requests_in_fly), every message key has   *)
(* one entry in responses_send_back, and num_inactive_alive_subscriptions   *)
(* counts the stopped subscriptions that still have messages, so that the   *)
(* queues stay within max_requests_per_client plus the capacities.          *)
QueuesAccounted ==
    \A c \in joined :
        /\ inFly[c] <= MaxRequests
        /\ ~dead[c] => inFly[c] =
              (IF requester[c] = "push" THEN 1 ELSE 0) + Count(unpulled, c)
              + Cardinality({w \in Workers : worker[w].at = "insert" /\ worker[w].client = c})
              + Cardinality(pending[c]) + Count(responses[c], Response)
        /\ messages[c] = {<<responses[c][i].sub, responses[c][i].index>> :
              i \in {j \in DOMAIN responses[c] : responses[c][j] # Response}}
        /\ Len(responses[c]) = Count(responses[c], Response) + Cardinality(messages[c])
        /\ inactive[c] = Cardinality({s \in Subs \ active[c] : KeysOf(c, s) # {}})
        /\ Cardinality(active[c]) + inactive[c] <= MaxSubscriptions

(* No wake-up is lost (total_requests_in_fly_dec_or_dead,                   *)
(* new_unpulled_request, notification_messages_popped_or_dead), although    *)
(* every event wakes a single listener, which may not be the one that can   *)
(* make use of it: a task that sleeps although there is room for its        *)
(* request, or a request to pull, is about to be notified; and a task that  *)
(* sleeps although there is room for its notification has its turn after as *)
(* many notifications as there are messages still to be read.               *)
Sleeps(e, t) == t \in ToSet(e.waiting)
Turn(e, t) == CHOOSE i \in DOMAIN e.waiting : e.waiting[i] = t
WakeupsNotLost ==
    /\ \A c \in Clients :
          Sleeps(slotEvent[c], c) /\ requester[c] = "asleep" /\ (dead[c] \/ inFly[c] < MaxRequests) =>
              reader[c] \in {"notify", "removing"}
    /\ unpulled # << >> /\ (\A w \in Workers : worker[w].at = "asleep") =>
          pullEvent.notified # {} \/ \E c \in Clients : requester[c] = "notify"
    /\ \A s \in Subs :
          LET c == owner[s] IN
          pusher[s] = "asleep" /\ Sleeps(popEvent[c], s) =>
              IF dead[c] \/ s \notin active[c] THEN reader[c] = "removing"
              ELSE FreeIndex(c, s) < Capacity =>
                     Turn(popEvent[c], s) <= Cardinality(messages[c]) + Cardinality(popEvent[c].notified)
                                             + Cardinality({t \in Subs : pusher[t] = "push"})
=============================================================================
