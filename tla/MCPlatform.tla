----------------------------- MODULE MCPlatform -----------------------------
(***************************************************************************)
(* The parts of the server around the money: the PIN, the accounts, the    *)
(* limit of calls, the maintenance flag, services, reviews, the desk for   *)
(* large moves, broadcasts, the start of the processes and the lists a     *)
(* client pages through.                                                   *)
(*                                                                         *)
(* They share no rows and no memory as far as they are modelled, so a      *)
(* behaviour is one of a single part, chosen at the start, while the       *)
(* others rest in an initial state.                                        *)
(***************************************************************************)
EXTENDS PinGate, TLC

CONSTANTS a1, a2, b1, b2,
          Ids, Telegram, Codes, Admins, Confirmations,
          Limit, Window, MaxSkew, MaxRestarts, Ttl, MaxLoad,
          Services, MaxActive, Users, Deals, Handlers,
          Office, Arbiters, Moves, Approvals,
          Registered, ChunkSize, Processes, Booting,
          MaxId, MaxTime, PageSize

VARIABLES part,
          users, codes, transfers, lost, spent, surrendered, overtaken,
          skew, strict, up, shared, own, restarts, admitted,
          flag, cache, load, flipping, failClosed, since, late,
          status, ownerLock, changes, byAdmin,
          review, good, bad, counting, overridden,
          phase, arbiter, inUsd, office, approval, asked, agreed, forced,
          audience, send, stage, ids, chunk, broadcast, sum, spawned, notes, dms,
          echoes,
          revision, columns, rows, migrationLock, proc, curated, rerun,
          list, committed, flushed, last, now, reader, shown

pin == vars
account == <<users, codes, transfers, lost, spent, surrendered, overtaken>>
limit == <<skew, strict, up, shared, own, restarts, admitted>>
maintenance == <<flag, cache, load, flipping, failClosed, since, late>>
catalogue == <<status, ownerLock, changes, byAdmin>>
reviews == <<review, good, bad, counting, overridden>>
desk == <<phase, arbiter, inUsd, office, approval, asked, agreed, forced>>
sending == <<audience, send, stage, ids, chunk, broadcast, sum, spawned, notes, dms, echoes>>
boot == <<revision, columns, rows, migrationLock, proc, curated, rerun>>
paging == <<list, committed, flushed, last, now, reader, shown>>

A == INSTANCE Accounts WITH Requests <- Confirmations, work <- transfers, crossed <- overtaken

L == INSTANCE RateLimit

M == INSTANCE Maintenance

C == INSTANCE Catalogue WITH Requests <- Handlers, lock <- ownerLock, work <- changes

V == INSTANCE Reviews WITH Requests <- Handlers, work <- counting

D == INSTANCE Desk WITH Admins <- Office, spent <- forced

N == INSTANCE Broadcast WITH People <- Registered, users <- audience, row <- broadcast

B == INSTANCE Boot WITH Processes <- Booting, lock <- migrationLock

I == INSTANCE Inbox WITH rows <- committed

(* What the database gives the proofs: tables are finite, ids are numbers, *)
(* and nobody holds a lock under the name that stands for no holder.       *)
ASSUME AccountsAssumption ==
  /\ IsFiniteSet(Ids) /\ Admins \subseteq Ids \cap Telegram /\ Admins # {}

ASSUME LimitAssumption ==
  /\ IsFiniteSet(Processes) /\ Window \in Nat \ {0}
  /\ Limit \in Nat /\ MaxSkew \in Nat /\ MaxRestarts \in Nat

ASSUME MaintenanceAssumption == Ttl \in Nat \ {0} /\ MaxLoad \in Nat

ASSUME CatalogueAssumption ==
  IsFiniteSet(Services) /\ MaxActive \in Nat /\ C!Nobody \notin Handlers

ASSUME ReviewsAssumption == IsFiniteSet(Users) /\ IsFiniteSet(Deals)

ASSUME SendingAssumption ==
  /\ Registered \subseteq Nat /\ IsFiniteSet(Registered) /\ ChunkSize \in Nat \ {0}

ASSUME BootAssumption == B!Nobody \notin Booting

ASSUME PagingAssumption == MaxId \in Nat /\ MaxTime \in Nat /\ PageSize \in Nat

PlatformVars == <<part, pin, account, limit, maintenance, catalogue, reviews, desk, sending, boot, paging>>

PlatformInit ==
  /\ part \in {"pin", "account", "limit", "maintenance", "catalogue", "reviews", "desk",
               "sending", "boot", "paging"}
  /\ Init /\ (part = "pin" \/ row.pin = None)
  /\ A!Init
  /\ L!Init /\ (part = "limit" \/ (up /\ strict /\ \A p \in Processes : skew[p] = 0))
  /\ M!Init /\ (part = "maintenance" \/ (flag /\ failClosed))
  /\ C!Init
  /\ V!Init
  /\ D!Init /\ (part = "desk" \/ inUsd = "low")
  /\ N!Init /\ (part = "sending" \/ (audience = {} /\ send.dm /\ send.inapp))
  /\ B!Init /\ (part = "boot" \/ (revision = 0 /\ rows = B!Empty /\
                                  \A p \in Booting : proc[p].role = "service" /\ proc[p].build = 2))
  /\ I!Init /\ (part = "paging" \/ list = "messages")

(* The parts but one rest.                                                 *)
Rest(parts) == UNCHANGED part /\ UNCHANGED parts

PlatformNext ==
  \/ /\ part = "pin" /\ Next
     /\ Rest(<<account, limit, maintenance, catalogue, reviews, desk, sending, boot, paging>>)
  \/ /\ part = "account" /\ A!Next
     /\ Rest(<<pin, limit, maintenance, catalogue, reviews, desk, sending, boot, paging>>)
  \/ /\ part = "limit" /\ L!Next
     /\ Rest(<<pin, account, maintenance, catalogue, reviews, desk, sending, boot, paging>>)
  \/ /\ part = "maintenance" /\ M!Next
     /\ Rest(<<pin, account, limit, catalogue, reviews, desk, sending, boot, paging>>)
  \/ /\ part = "catalogue" /\ C!Next
     /\ Rest(<<pin, account, limit, maintenance, reviews, desk, sending, boot, paging>>)
  \/ /\ part = "reviews" /\ V!Next
     /\ Rest(<<pin, account, limit, maintenance, catalogue, desk, sending, boot, paging>>)
  \/ /\ part = "desk" /\ D!Next
     /\ Rest(<<pin, account, limit, maintenance, catalogue, reviews, sending, boot, paging>>)
  \/ /\ part = "sending" /\ N!Next
     /\ Rest(<<pin, account, limit, maintenance, catalogue, reviews, desk, boot, paging>>)
  \/ /\ part = "boot" /\ B!Next
     /\ Rest(<<pin, account, limit, maintenance, catalogue, reviews, desk, sending, paging>>)
  \/ /\ part = "paging" /\ I!Next
     /\ Rest(<<pin, account, limit, maintenance, catalogue, reviews, desk, sending, boot>>)

PlatformSpec == PlatformInit /\ [][PlatformNext]_PlatformVars

(* The types of the part at work.                                          *)
TypesOK ==
  CASE part = "pin" -> TypeOK
    [] part = "account" -> A!TypeOK
    [] part = "limit" -> L!TypeOK
    [] part = "maintenance" -> M!TypeOK
    [] part = "catalogue" -> C!TypeOK
    [] part = "reviews" -> V!TypeOK
    [] part = "desk" -> D!TypeOK
    [] part = "sending" -> N!TypeOK
    [] part = "boot" -> B!TypeOK
    [] OTHER -> I!TypeOK

(* A transfer discards no account something hangs on (Accounts).           *)
NothingDiscarded == A!NothingDiscarded

(* There is an admin, and one who can act (Accounts).                      *)
SomeoneCanAct == A!SomeoneCanAct

(* The limit of calls holds in every window (RateLimit).                   *)
AdmittedBounded == L!AdmittedBounded

(* The writes stop soon after the flag is set (Maintenance).               *)
WritesStopSoon == M!WritesStopSoon

(* The limit of active services of an owner (Catalogue).                   *)
QuotaKept == C!QuotaKept

(* The counters of a user are those of the reviews (Reviews).              *)
RatingFollowsReviews == V!RatingFollowsReviews

(* A large forced move was agreed on by two admins (Desk).                 *)
LargeMovesSeconded == D!LargeMovesSeconded

(* The row of a broadcast claims no more than was delivered (Broadcast).   *)
CountsBacked == N!CountsBacked

(* Processes that start together survive each other (Boot).                *)
BootsSurvive == B!BootsSurvive

(* A page shows every row once, whatever is added (Inbox).                 *)
PagesComplete == I!PagesComplete

(* Requests, approvals, and what they work on are interchangeable.         *)
Symmetry == Permutations({a1, a2}) \cup Permutations({b1, b2})
=============================================================================
