---------------------------- MODULE SecondFactor ----------------------------
(***************************************************************************)
(* The second factor of one admin: TOTP codes, their replay protection in  *)
(* Redis and in the row, enrolment and the 24 hour sessions (auth_2fa.py,  *)
(* admin_guard.py, routers/admin/twofa.py).                                *)
(*                                                                         *)
(* Counters are relative to the present period, so that time needs no      *)
(* bound: a Tick makes all of them older.  No request locks the row: each  *)
(* reads a copy when it authenticates (Read), decides on it, and commits   *)
(* later.  With Redis a code is claimed before the commit; without it the  *)
(* conditional UPDATE decides.                                             *)
(***************************************************************************)
EXTENDS Integers, FiniteSets

CONSTANTS Secrets,   \* secrets that /setup may generate
          Requests,  \* requests in flight
          Modes,     \* of Redis: "up", "off" (not configured), "flaky"
          MaxEpoch   \* bound: revocations of the sessions

VARIABLES redis,     \* what requests find of Redis
          row,       \* the TOTP columns of the user
          pending,   \* the secret of /setup, in Redis or in the process
          claims,    \* counters claimed in Redis, and for how long yet
          work,      \* requests between their read and their commit
          tokens,    \* one X-Totp-Session token that was handed out, any one
          used,      \* observer: one code that was accepted, any one, while it is valid
          replayed,  \* observer: that code was accepted again
          crossed    \* observer: a commit overtook an enrolment or a revocation

vars == <<redis, row, pending, claims, work, tokens, used, replayed, crossed>>

None == "none"
Drift == 1              \* _DRIFT_WINDOWS
Window == -Drift..Drift
Past == -Drift - 1      \* any older counter
Older(m) == IF m = Past THEN Past ELSE m - 1

Off == [secret |-> None, last |-> Past, epoch |-> 0]

(* live: no revocation since the read of a request that may get a token.   *)
Idle == [for |-> "idle", copy |-> Off, counter |-> Past, live |-> TRUE]

(* A request that a code authorises; /enable, /disable, invalidate.        *)
Kinds == {"authorise", "change"}

Tokened == {"authorise", "claimed"}

Init ==
  /\ redis \in Modes
  /\ \E s \in Secrets \cup {None} : row = [Off EXCEPT !.secret = s]
  /\ pending = None /\ claims = {} /\ work = [r \in Requests |-> Idle]
  /\ tokens = {} /\ used = {} /\ replayed = FALSE /\ crossed = FALSE

Observers == <<used, replayed, crossed>>

(* _store_pending: in Redis, or in the process unless that is refused.  A  *)
(* generated secret is not the one in use, nor one whose codes were.       *)
Setup(s) ==
  /\ s # row.secret /\ (\A c \in used : c[1] # s) /\ pending' = s
  /\ UNCHANGED <<redis, row, claims, work, tokens>> /\ UNCHANGED Observers

Read(r, for) ==
  /\ work[r] = Idle
  /\ work' = [work EXCEPT ![r] = [Idle EXCEPT !.for = for, !.copy = row]]
  /\ UNCHANGED <<redis, row, pending, claims, tokens>> /\ UNCHANGED Observers

(* verify_totp_and_counter, and the high-water mark of the copy.           *)
Verified(copy, m) == copy.secret # None /\ m \in Window /\ m > copy.last

Accept(secret, m) ==
  /\ \/ used = {} /\ used' = {<<secret, m>>}
     \/ UNCHANGED used
  /\ replayed' = (replayed \/ <<secret, m>> \in used)

(* Mutant: the period of the code only.                                    *)
ClaimTtlShort == 1

(* SET NX EX: three periods, in which the code may be accepted.            *)
ClaimTtl == 2 * Drift + 1

Claim(r, m) ==
  /\ work[r].for = "authorise" /\ work[r].counter = Past
  /\ Verified(work[r].copy, m)
  /\ redis # "off" /\ \A c \in claims : c.counter # m
  /\ claims' = claims \cup {[counter |-> m, ttl |-> ClaimTtl]}
  /\ work' = [work EXCEPT ![r].for = "claimed", ![r].counter = m,
                          ![r].copy.last = Past]
  /\ Accept(work[r].copy.secret, m)
  /\ UNCHANGED <<redis, row, pending, tokens, crossed>>

Overtaken(r) ==
  row.secret # work[r].copy.secret \/ row.epoch # work[r].copy.epoch

(* /session mints with the epoch of its copy; other requests just act.     *)
Finish(r) ==
  /\ work' = [work EXCEPT ![r] = Idle]
  /\ tokens' \in {tokens, {[epoch |-> work[r].copy.epoch, live |-> work[r].live]}}
  /\ crossed' = (crossed \/ Overtaken(r))
  /\ UNCHANGED <<redis, pending>>

(* The flush of a claimed counter looks at nothing, and may rewind it.     *)
CommitClaimed(r) ==
  /\ work[r].for = "claimed" /\ row' = [row EXCEPT !.last = work[r].counter]
  /\ Finish(r) /\ UNCHANGED <<claims, used, replayed>>

(* Mutant: the UPDATE has no condition.                                    *)
AdvancesAlways(m) == TRUE

(* WHERE totp_last_counter < matched. *)
Advances(m) == row.last < m

ConsumeInRow(r, m) ==
  /\ work[r].for = "authorise" /\ Verified(work[r].copy, m)
  /\ redis # "up" /\ Advances(m)
  /\ row' = [row EXCEPT !.last = m]
  /\ Accept(work[r].copy.secret, m) /\ Finish(r) /\ UNCHANGED claims

(* A wrong code, a replay, 503, or the handler fails.                      *)
Fail(r) ==
  /\ work[r] # Idle /\ work' = [work EXCEPT ![r] = Idle]
  /\ UNCHANGED <<redis, row, pending, claims, tokens>> /\ UNCHANGED Observers

(* Mutant: the sessions survive.                                           *)
BumpForgotten(epoch) == epoch

Bump(epoch) == epoch + 1

(* The commits that end all sessions.                                      *)
Revoke(r, new) ==
  /\ work[r].copy.epoch < MaxEpoch
  /\ row' = [new EXCEPT !.epoch = Bump(work[r].copy.epoch)]
  /\ work' = [q \in Requests |-> IF q = r THEN Idle
               ELSE [work[q] EXCEPT !.live = @ /\ work[q].for \notin Tokened]]
  /\ tokens' = {[t EXCEPT !.live = FALSE] : t \in tokens}
  /\ UNCHANGED <<redis, claims, used, replayed>>

(* _pop_pending; nothing is found after _PENDING_TTL, in another process   *)
(* and when the other of the two stores answers.                           *)
PopPending(s) == s \in {pending, None} /\ pending' = None

(* /enable with a code of the new secret.  The first time it is the secret *)
(* of /setup; a rotation needs a code of the current secret, and may keep  *)
(* it with another code.                                                   *)
Enable(r, s, m) ==
  LET copy == work[r].copy
      keeps == s = copy.secret
  IN  /\ work[r].for = "change" /\ m \in Window
      /\ copy.secret # None => \E current \in Window :
           Verified(copy, current) /\ (keeps => m > copy.last /\ m # current)
      /\ IF keeps THEN PopPending(None) ELSE PopPending(s)
      /\ s # None /\ Revoke(r, [row EXCEPT !.secret = s, !.last = m])
      /\ crossed' = (crossed \/ row # copy)

(* The pending secret is gone also when the code was wrong.                *)
EnableFails(r) ==
  /\ work[r].for = "change" /\ PopPending(None)
  /\ work' = [work EXCEPT ![r] = Idle]
  /\ UNCHANGED <<redis, row, claims, tokens>> /\ UNCHANGED Observers

Disable(r, m) ==
  /\ work[r].for = "change" /\ Verified(work[r].copy, m)
  /\ Revoke(r, [row EXCEPT !.secret = None, !.last = m])
  /\ crossed' = (crossed \/ row # work[r].copy) /\ UNCHANGED pending

(* Another admin ends the sessions: only the epoch is written.             *)
InvalidateSessions(r) ==
  /\ work[r].for = "change" /\ Revoke(r, row)
  /\ crossed' = (crossed \/ row.epoch # work[r].copy.epoch) /\ UNCHANGED pending

Tick ==
  /\ row' = [row EXCEPT !.last = Older(@)]
  /\ work' = [r \in Requests |-> [work[r] EXCEPT !.copy.last = Older(@), !.counter = Older(@)]]
  /\ claims' = {[counter |-> Older(c.counter), ttl |-> c.ttl - 1] :
               c \in {d \in claims : d.ttl > 1 /\ d.counter > -Drift}}
  /\ used' = {<<c[1], Older(c[2])>> : c \in {d \in used : d[2] > -Drift}}
  /\ UNCHANGED <<redis, pending, tokens, replayed, crossed>>

Next ==
  \/ \E s \in Secrets : Setup(s)
  \/ \E r \in Requests, for \in Kinds : Read(r, for)
  \/ \E r \in Requests, m \in Window : Claim(r, m) \/ ConsumeInRow(r, m) \/ Disable(r, m)
  \/ \E r \in Requests, s \in Secrets, m \in Window : Enable(r, s, m)
  \/ \E r \in Requests : CommitClaimed(r) \/ Fail(r) \/ EnableFails(r) \/ InvalidateSessions(r)
  \/ Tick

Spec == Init /\ [][Next]_vars

TypeOK ==
  /\ row \in [secret : Secrets \cup {None}, last : Past..Drift, epoch : 0..MaxEpoch]
  /\ pending \in Secrets \cup {None}
  /\ \A c \in claims : c.counter \in Past..Drift /\ c.ttl \in 1..ClaimTtl
  /\ \A t \in tokens : t.epoch \in 0..MaxEpoch

(* One code authorises one request, whether Redis or the row decides, also *)
(* when codes of the drift windows arrive in any order and a commit        *)
(* rewinds the counter.  Not when Redis answers one of two requests and    *)
(* fails the other, nor without Redis when an enrolment changes meanwhile. *)
CodesAuthoriseOnce == replayed => redis = "flaky" \/ (redis = "off" /\ crossed)

(* A session opened before a rotation, a disable or an invalidation admits *)
(* nothing after it, unless two of these were under way at once.           *)
SessionsEnd ==
  crossed \/ \A t \in tokens : row.secret # None /\ t.epoch = row.epoch => t.live
=============================================================================
