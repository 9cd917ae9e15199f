----------------------------- MODULE MCSessions -----------------------------
(***************************************************************************)
(* What ends with an epoch: the admins' second factor and its sessions,    *)
(* and the sockets of a user.  The two share no rows and no memory, so a   *)
(* behaviour is one of a single part, chosen at the start, while the other *)
(* rests in an initial state.                                              *)
(***************************************************************************)
EXTENDS Integers, FiniteSets, TLC

CONSTANTS a1, a2, b1, b2,
          Secrets, Requests, Modes, MaxEpoch,
          Processes, Sockets, Cap, QueueSize, MaxEvents, MaxOutages

VARIABLES part,
          redis, row, pending, claims, work, tokens, used, replayed, crossed,
          up, client, sub, inbox, sock, published, outages, got, doomed

factor == <<redis, row, pending, claims, work, tokens, used, replayed, crossed>>
channel == <<up, client, sub, inbox, sock, published, outages, got, doomed>>

F == INSTANCE SecondFactor

R == INSTANCE Realtime

(* "none" stands for the absence of a secret; Redis is in one of the three *)
(* states in which the code tells it apart.                                *)
ASSUME FactorAssumption == F!None \notin Secrets /\ Modes \subseteq {"up", "off", "flaky"}

(* A queue has room for something (settings.ws_max_sockets_per_user,       *)
(* WS_SEND_QUEUE_SIZE).                                                    *)
ASSUME ChannelAssumption ==
  IsFiniteSet(Sockets) /\ Cap \in Nat /\ QueueSize \in Nat \ {0} /\ MaxEvents \in Nat

Init ==
  /\ part \in {"factor", "channel"}
  /\ F!Init /\ (part = "factor" \/ (redis = "up" /\ row.secret = F!None))
  /\ R!Init /\ (part = "channel" \/ up)

Next ==
  \/ part = "factor" /\ F!Next /\ UNCHANGED <<part, channel>>
  \/ part = "channel" /\ R!Next /\ UNCHANGED <<part, factor>>

Spec == Init /\ [][Next]_<<part, factor, channel>>

(* A code authorises one request (SecondFactor).                           *)
CodesAuthoriseOnce == F!CodesAuthoriseOnce

(* Second-factor sessions end with the epoch (SecondFactor).               *)
SessionsEnd == F!SessionsEnd

(* The cap on the sockets of a user (Realtime).                            *)
CapKept == R!CapKept

(* An open socket is on its way to the newest event (Realtime).            *)
NewestReached == R!NewestReached

(* Revoked sockets hear nothing new (Realtime).                            *)
RevokedHearNothing == R!RevokedHearNothing

(* Secrets and processes, requests and sockets are interchangeable.        *)
Symmetry == Permutations({a1, a2}) \cup Permutations({b1, b2})
=============================================================================
