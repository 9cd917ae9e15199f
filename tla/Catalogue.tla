----------------------------- MODULE Catalogue -----------------------------
(***************************************************************************)
(* The services one user offers: the limit on the active ones, the owner's *)
(* changes and the admin's (routers/services.py, routers/admin/content.py).*)
(*                                                                         *)
(* A change reads the row without a lock and its commit writes the status  *)
(* only if it differs from what was read.  Only a new service and one the  *)
(* owner reactivates lock the owner's row, to count under it.              *)
(***************************************************************************)
EXTENDS Integers, FiniteSets

CONSTANTS Services,   \* rows that can be inserted
          Requests,   \* requests at work
          MaxActive   \* AppSettings.max_active_services_per_user

VARIABLES status,     \* the row of each service
          lock,       \* the request that holds the owner's row
          work,       \* requests between their first read and their commit
          byAdmin     \* observer: active services that an admin activated last

vars == <<status, lock, work, byAdmin>>

Statuses == {"draft", "active", "paused", "banned"}
Nobody == "nobody"
Idle == [for |-> "idle", service |-> Nobody, copy |-> "none", wanted |-> "none"]

Init ==
  /\ status = [s \in Services |-> "none"] /\ lock = Nobody
  /\ work = [r \in Requests |-> Idle] /\ byAdmin = {}

Active == {s \in Services : status[s] = "active"}

(* Mutant: the services are counted without the lock.                      *)
NoLock(r) == lock' = lock

(* The quota is read under the lock on the owner, kept up to the commit.   *)
LockOwner(r) == lock = Nobody /\ lock' = r

QuotaLeft == Cardinality(Active) < MaxActive

Unlock(r) == lock' = IF lock = r THEN Nobody ELSE lock

CreateCount(r) ==
  /\ work[r] = Idle /\ QuotaLeft /\ LockOwner(r)
  /\ work' = [work EXCEPT ![r].for = "create", ![r].wanted = "active"]
  /\ UNCHANGED <<status, byAdmin>>

CreateCommit(r) ==
  /\ work[r].for = "create" /\ Unlock(r)
  /\ \E s \in Services : status[s] = "none" /\ status' = [status EXCEPT ![s] = "active"]
  /\ work' = [work EXCEPT ![r] = Idle] /\ UNCHANGED byAdmin

(* The ban is an admin's: the owner is shown the door when it is read, and *)
(* may not ask for it.                                                     *)
OwnerRead(r, s, wanted) ==
  /\ work[r] = Idle /\ status[s] \in Statuses \ {"banned"} /\ wanted # "banned"
  /\ work' = [work EXCEPT ![r] =
       [for |-> "owner", service |-> s, copy |-> status[s], wanted |-> wanted]]
  /\ UNCHANGED <<status, lock, byAdmin>>

AdminRead(r, s, wanted) ==
  /\ work[r] = Idle /\ status[s] \in Statuses
  /\ work' = [work EXCEPT ![r] =
       [for |-> "admin", service |-> s, copy |-> status[s], wanted |-> wanted]]
  /\ UNCHANGED <<status, lock, byAdmin>>

Reactivates(w) == w.for = "owner" /\ w.wanted = "active" /\ w.copy # "active"

OwnerCount(r) ==
  /\ Reactivates(work[r]) /\ lock # r
  /\ IF QuotaLeft
     THEN LockOwner(r) /\ work' = [work EXCEPT ![r].for = "counted"]
     ELSE lock = Nobody /\ work' = [work EXCEPT ![r] = Idle] /\ UNCHANGED lock
  /\ UNCHANGED <<status, byAdmin>>

(* An UPDATE that finds no row fails; one that changes nothing is not sent.*)
Commit(r) ==
  LET w == work[r]
      writes == w.wanted # w.copy /\ status[w.service] # "gone"
  IN /\ w.for \in {"owner", "counted", "admin"} /\ ~Reactivates(w)
     /\ status' = IF writes THEN [status EXCEPT ![w.service] = w.wanted] ELSE status
     /\ byAdmin' = IF ~writes THEN byAdmin
                   ELSE IF w.for = "admin" /\ w.wanted = "active" THEN byAdmin \cup {w.service}
                   ELSE byAdmin \ {w.service}
     /\ work' = [work EXCEPT ![r] = Idle] /\ Unlock(r)

Delete(s) ==
  /\ status[s] \in Statuses /\ status' = [status EXCEPT ![s] = "gone"]
  /\ byAdmin' = byAdmin \ {s} /\ UNCHANGED <<lock, work>>

Next ==
  \/ \E r \in Requests : CreateCount(r) \/ CreateCommit(r) \/ OwnerCount(r) \/ Commit(r)
  \/ \E r \in Requests, s \in Services, wanted \in Statuses :
       OwnerRead(r, s, wanted) \/ AdminRead(r, s, wanted)
  \/ \E s \in Services : Delete(s)

Spec == Init /\ [][Next]_vars

TypeOK ==
  /\ status \in [Services -> Statuses \cup {"none", "gone"}]
  /\ lock \in Requests \cup {Nobody} /\ byAdmin \subseteq Services
  /\ work \in [Requests -> [for : {"idle", "create", "owner", "counted", "admin"},
                            service : Services \cup {Nobody},
                            copy : Statuses \cup {"none"}, wanted : Statuses \cup {"none"}]]

(* The owner never has more active services than the limit, those apart    *)
(* that an admin activated: however two creations, two reactivations or    *)
(* one of each overlap, and however old the copy a change was read from    *)
(* (create_service, update_service, _quota_snapshot).                      *)
QuotaKept == Cardinality(Active \ byAdmin) =< MaxActive

(* Only an admin's change lifts a ban (routers/services.py:8, "admin-side  *)
(* ban (owner cannot reactivate; admin-only)").                            *)
OnlyAdminsUnban ==
  [][\A s \in Services : status[s] = "banned" /\ status'[s] \notin {"banned", "gone"} =>
       \E r \in Requests : work[r].for = "admin" /\ work[r].service = s /\ work'[r] = Idle]_vars
=============================================================================
