------------------------------ MODULE Realtime ------------------------------
(***************************************************************************)
(* The events pushed to the web sockets of one user: the sockets of each   *)
(* backend process with their bounded queues and writers, the channels of  *)
(* Redis that carry events and revocations between the processes, and what *)
(* is done when Redis fails (ws.py, routers/ws.py, redis_client.py).       *)
(*                                                                         *)
(* Events are numbered in the order in which they are published; a         *)
(* revocation travels the same channel.                                    *)
(***************************************************************************)
EXTENDS Integers, Sequences, FiniteSets

CONSTANTS Processes,  \* backend processes
          Sockets,    \* connections a client makes, each used once
          Cap,        \* settings.ws_max_sockets_per_user
          QueueSize,  \* WS_SEND_QUEUE_SIZE
          MaxEvents,  \* bound: events published
          MaxOutages  \* bound: outages of Redis

VARIABLES up,         \* Redis answers
          client,     \* redis_client has connected once and is cached
          sub,        \* the subscriber of each process
          inbox,      \* what its subscription has still to hand over
          sock,       \* sockets: stage, process, queue, event being sent
          published,  \* events published
          outages,    \* outages so far, one if Redis was down at the start
          got,        \* observer: events each socket received
          doomed      \* observer: events there were when a registered socket was revoked

vars == <<up, client, sub, inbox, sock, published, outages, got, doomed>>

Revocation == 0
Nothing == 0
NotDoomed == -1
Nowhere == [stage |-> "new", at |-> "none", queue |-> <<>>, sending |-> Nothing, since |-> 0]

(* start_subscriber: without Redis at the start there is no subscription,  *)
(* then and later.                                                         *)
Init ==
  /\ up \in BOOLEAN /\ outages = IF up THEN 0 ELSE 1
  /\ client = [p \in Processes |-> up]
  /\ sub = [p \in Processes |-> IF up THEN "listening" ELSE "none"]
  /\ inbox = [p \in Processes |-> <<>>]
  /\ sock = [s \in Sockets |-> Nowhere] /\ published = 0
  /\ got = [s \in Sockets |-> <<>>] /\ doomed = [s \in Sockets |-> NotDoomed]

(* The sockets in _connections.  One that is closed stays until its        *)
(* endpoint leaves the receive loop.                                       *)
Registered(p) == {s \in Sockets : sock[s].stage \in {"open", "closed"} /\ sock[s].at = p}

(* The user is verified and not locked out; the acknowledgement is sent.   *)
Handshake(s, p) ==
  /\ sock[s].stage = "new" /\ sock' = [sock EXCEPT ![s].stage = "accepted", ![s].at = p]
  /\ UNCHANGED <<up, client, sub, inbox, published, outages, got, doomed>>

(* Mutant: one socket too many.                                            *)
RoomForOneMore(p) == Cardinality(Registered(p)) =< Cap

Room(p) == Cardinality(Registered(p)) < Cap

(* connect *)
Register(s) ==
  /\ sock[s].stage = "accepted"
  /\ sock' = [sock EXCEPT ![s].stage = IF Room(sock[s].at) THEN "open" ELSE "gone",
                          ![s].since = published]
  /\ UNCHANGED <<up, client, sub, inbox, published, outages, got, doomed>>

(* Mutant: what does not fit is not appended.                              *)
EnqueueIfRoom(queue, e) == IF Len(queue) = QueueSize THEN queue ELSE Append(queue, e)

(* A deque with a maximal length drops what is oldest.                     *)
Enqueue(queue, e) == IF Len(queue) = QueueSize THEN Append(Tail(queue), e) ELSE Append(queue, e)

SendLocal(p, e) ==
  sock' = [s \in Sockets |->
    IF sock[s].stage = "open" /\ sock[s].at = p
    THEN [sock[s] EXCEPT !.queue = Enqueue(@, e)] ELSE sock[s]]

(* The writers are cancelled, the sockets forgotten.                       *)
CloseLocal(p) ==
  sock' = [s \in Sockets |->
    IF s \in Registered(p) THEN [Nowhere EXCEPT !.stage = "gone", !.at = p] ELSE sock[s]]

Locally(p, e) == IF e = Revocation THEN CloseLocal(p) ELSE SendLocal(p, e)

(* Mutant: a revocation stays in its process.                              *)
SpreadRevocationLocally(p, e) ==
  /\ client' = [client EXCEPT ![p] = @ \/ up]
  /\ IF up /\ e # Revocation
     THEN /\ inbox' = [q \in Processes |->
               IF sub[q] = "listening" THEN Append(inbox[q], e) ELSE inbox[q]]
          /\ UNCHANGED sock
     ELSE Locally(p, e) /\ UNCHANGED inbox

(* publish and invalidate_user.  The first call that finds Redis keeps the *)
(* client; a client that fails makes the call local.                       *)
Spread(p, e) ==
  /\ client' = [client EXCEPT ![p] = @ \/ up]
  /\ IF up
     THEN /\ inbox' = [q \in Processes |->
               IF sub[q] = "listening" THEN Append(inbox[q], e) ELSE inbox[q]]
          /\ UNCHANGED sock
     ELSE Locally(p, e) /\ UNCHANGED inbox

Publish(p) ==
  /\ published < MaxEvents /\ published' = published + 1
  /\ Spread(p, published')
  /\ UNCHANGED <<up, sub, outages, got, doomed>>

InvalidateUser(p) ==
  /\ Spread(p, Revocation)
  /\ doomed' = [s \in Sockets |->
       IF \E q \in Processes : s \in Registered(q) THEN published ELSE doomed[s]]
  /\ doomed # doomed'
  /\ UNCHANGED <<up, sub, published, outages, got>>

(* _listen *)
Listen(p) ==
  /\ sub[p] = "listening" /\ inbox[p] # <<>>
  /\ Locally(p, Head(inbox[p])) /\ inbox' = [inbox EXCEPT ![p] = Tail(@)]
  /\ UNCHANGED <<up, client, sub, published, outages, got, doomed>>

(* _writer *)
Take(s) ==
  /\ sock[s].stage = "open" /\ sock[s].sending = Nothing /\ sock[s].queue # <<>>
  /\ sock' = [sock EXCEPT ![s].sending = Head(sock[s].queue), ![s].queue = Tail(@)]
  /\ UNCHANGED <<up, client, sub, inbox, published, outages, got, doomed>>

Sent(s) ==
  /\ sock[s].sending # Nothing
  /\ got' = [got EXCEPT ![s] = Append(@, sock[s].sending)]
  /\ sock' = [sock EXCEPT ![s].sending = Nothing]
  /\ UNCHANGED <<up, client, sub, inbox, published, outages, doomed>>

(* The age cap closes a socket, or its writer gives up after a timeout or  *)
(* an error.                                                               *)
EvictExpired(s) ==
  /\ sock[s].stage = "open" /\ sock' = [sock EXCEPT ![s].stage = "closed"]
  /\ UNCHANGED <<up, client, sub, inbox, published, outages, got, doomed>>

SendFails(s) ==
  /\ sock[s].sending # Nothing
  /\ sock' = [sock EXCEPT ![s].stage = "closed", ![s].sending = Nothing]
  /\ UNCHANGED <<up, client, sub, inbox, published, outages, got, doomed>>

(* The endpoint leaves its receive loop, for any reason.                   *)
Disconnect(s) ==
  /\ sock[s].stage \in {"accepted", "open", "closed"}
  /\ sock' = [sock EXCEPT ![s] = [Nowhere EXCEPT !.stage = "gone", !.at = sock[s].at]]
  /\ UNCHANGED <<up, client, sub, inbox, published, outages, got, doomed>>

Outage ==
  /\ up /\ outages < MaxOutages /\ up' = FALSE /\ outages' = outages + 1
  /\ UNCHANGED <<client, sub, inbox, sock, published, got, doomed>>

Recover ==
  /\ ~up /\ up' = TRUE
  /\ UNCHANGED <<client, sub, inbox, sock, published, outages, got, doomed>>

(* _listen_supervisor: the subscription breaks, with what it had not yet   *)
(* handed over, and is renewed.                                            *)
ListenFails(p) ==
  /\ ~up /\ sub[p] = "listening" /\ sub' = [sub EXCEPT ![p] = "backoff"]
  /\ inbox' = [inbox EXCEPT ![p] = <<>>]
  /\ UNCHANGED <<up, client, sock, published, outages, got, doomed>>

Resubscribe(p) ==
  /\ up /\ sub[p] = "backoff" /\ sub' = [sub EXCEPT ![p] = "listening"]
  /\ UNCHANGED <<up, client, inbox, sock, published, outages, got, doomed>>

Next ==
  \/ \E s \in Sockets, p \in Processes : Handshake(s, p)
  \/ \E s \in Sockets : Register(s) \/ Take(s) \/ Sent(s) \/ EvictExpired(s)
                        \/ SendFails(s) \/ Disconnect(s)
  \/ \E p \in Processes : Publish(p) \/ InvalidateUser(p) \/ Listen(p)
                          \/ ListenFails(p) \/ Resubscribe(p)
  \/ Outage
  \/ Recover

Spec == Init /\ [][Next]_vars

TypeOK ==
  /\ \A p \in Processes : sub[p] \in {"none", "listening", "backoff"}
                          /\ \A i \in DOMAIN inbox[p] : inbox[p][i] \in 0..published
  /\ \A s \in Sockets :
       /\ sock[s].stage \in {"new", "accepted", "open", "closed", "gone"}
       /\ Len(sock[s].queue) =< QueueSize /\ sock[s].sending \in 0..published

(* The sockets of a user never exceed the cap of a process, also when      *)
(* several shake hands at once and closed ones have not gone yet.          *)
CapKept == \A p \in Processes : Cardinality(Registered(p)) =< Cap

Calm == outages = 0

(* What a socket is still to be sent: queue, then channel.                 *)
Ahead(s) == sock[s].queue \o inbox[sock[s].at]
Behind(s) == got[s] \o (IF sock[s].sending = Nothing THEN <<>> ELSE <<sock[s].sending>>)

(* While Redis works, an open socket is on its way to the newest event:    *)
(* what lies ahead of it is the latest events without a gap, in order and  *)
(* after all it has been sent.  A slow consumer loses old events only.     *)
NewestReached ==
  Calm => \A s \in Sockets :
    LET ahead == Ahead(s)
        behind == Behind(s)
    IN  sock[s].stage = "open" /\ (\A i \in DOMAIN ahead : ahead[i] # Revocation) =>
          /\ \A i \in DOMAIN ahead : ahead[i] = published - Len(ahead) + i
          /\ \A i \in DOMAIN behind : /\ behind[i] =< published - Len(ahead)
                                      /\ i > 1 => behind[i] > behind[i - 1]
          /\ Len(ahead) = 0 /\ published > sock[s].since =>
               behind # <<>> /\ behind[Len(behind)] = published

(* While Redis works, a socket that was registered when its user's         *)
(* sessions were revoked receives nothing that is published afterwards, at *)
(* whichever process it hangs.                                             *)
RevokedHearNothing ==
  Calm => \A s \in Sockets : doomed[s] # NotDoomed =>
            \A i \in DOMAIN got[s] : got[s][i] =< doomed[s]

(* A process that publishes through Redis also listens to it, or is about  *)
(* to: an outage at the start does not leave it deaf for good.             *)
PublishersListen == \A p \in Processes : client[p] => sub[p] # "none"
=============================================================================
