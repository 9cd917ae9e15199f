------------------------------ MODULE Accounts ------------------------------
(***************************************************************************)
(* The rows of `users` as identities and roles: the first request of a     *)
(* Telegram account (auth_helpers.ensure_user_row), the transfer of an     *)
(* account by a one-time code (services_account.py) and what admins do to  *)
(* each other and to users (routers/admin/users.py).                       *)
(*                                                                         *)
(* A request loads rows without a lock when it authenticates, and decides  *)
(* on these copies later: Read... is the one, the action of the same name  *)
(* the other.  confirm_transfer selects the code first and locks the two   *)
(* users then.  Its caller is in the session since it authenticated: the   *)
(* locked select returns the same object without new columns, so what is   *)
(* decided on the row of the caller is decided on the copy.                *)
(***************************************************************************)
EXTENDS Integers, FiniteSets

CONSTANTS Ids,       \* users.id, from 1 in the order of creation: bounds the rows
          Telegram,  \* Telegram accounts
          Codes,     \* bound: codes ever issued
          Admins,    \* rows that are admins at first, each of the account of its number,
                     \* a non-empty part of Ids
          Requests   \* requests in flight

VARIABLES users,     \* rows, each with the columns below
          codes,     \* account_transfer_codes
          work,      \* requests between their read and their commit
          lost,      \* observer: rows deleted with children
          spent,     \* observer: times each code moved an account
          surrendered, \* observer: an admin's row was given up as a target
          crossed    \* observer: an admin's commit outlived their own authority

vars == <<users, codes, work, lost, spent, surrendered, crossed>>

NoUser == 0

(* trust stands for a trust deposit above zero; data for the rows          *)
(* _has_tradable_data queries; barred for banned or frozen.                *)
Absent == [tg |-> NoUser, admin |-> FALSE, barred |-> FALSE, pin |-> FALSE,
           trust |-> FALSE, data |-> FALSE]
Fresh(t) == [Absent EXCEPT !.tg = t]

Present == {u \in Ids : users[u] # Absent}
RowOf(t) == {u \in Present : users[u].tg = t}
MayAct(u) == users[u].tg # NoUser /\ ~users[u].barred

(* The copy is kept as far as something is decided on it.                  *)
Idle == [for |-> "idle", actor |-> 0, target |-> 0, code |-> 0, value |-> FALSE,
         copy |-> [tg |-> NoUser, pin |-> FALSE, trust |-> FALSE, data |-> FALSE]]

Init ==
  /\ users = [u \in Ids |-> IF u \in Admins THEN [Fresh(u) EXCEPT !.admin = TRUE]
                                             ELSE Absent]
  /\ codes = [c \in Codes |-> [source |-> 0, state |-> "none"]]
  /\ work = [r \in Requests |-> Idle]
  /\ lost = {} /\ spent = [c \in Codes |-> 0] /\ surrendered = FALSE /\ crossed = FALSE

Observers == <<lost, spent, surrendered, crossed>>

(* INSERT ... ON CONFLICT: two first requests end at the same row.  Row    *)
(* ids are not used twice.                                                 *)
FirstTouch(t) ==
  /\ RowOf(t) = {}
  /\ \E u \in Ids \ (Present \cup lost) :
       /\ \A w \in Ids \ (Present \cup lost) : u =< w
       /\ users' = [users EXCEPT ![u] = Fresh(t)]
  /\ UNCHANGED <<codes, work>> /\ UNCHANGED Observers

(* A deal, service, review, deposit, withdrawal or balance is inserted:    *)
(* its foreign key waits for the lock on the user and fails if the row is  *)
(* gone.  A paid trust deposit leaves the row of its deposit.              *)
InsertChild(u) ==
  /\ MayAct(u) /\ users' = [users EXCEPT ![u].data = TRUE]
  /\ UNCHANGED <<codes, work>> /\ UNCHANGED Observers

SetPin(u) ==
  /\ MayAct(u) /\ ~users[u].pin /\ users' = [users EXCEPT ![u].pin = TRUE]
  /\ UNCHANGED <<codes, work>> /\ UNCHANGED Observers

LiveCodes(u) == {c \in Codes : codes[c].state = "live" /\ codes[c].source = u}

Consume(cs) == [c \in Codes |-> IF c \in cs THEN [codes[c] EXCEPT !.state = "consumed"]
                                            ELSE codes[c]]

(* issue_code: the codes of the user are consumed and a new one is stored. *)
(* What it purges can no longer be read.                                   *)
IssueCode(u, c) ==
  /\ MayAct(u) /\ users[u].pin /\ codes[c].state = "none"
  /\ \A d \in Codes : codes[d].state = "none" => c =< d
  /\ codes' = [d \in Codes |->
       CASE d = c -> [source |-> u, state |-> "live"]
         [] codes[d].state \in {"consumed", "expired"} -> [codes[d] EXCEPT !.state = "purged"]
         [] OTHER -> Consume(LiveCodes(u))[d]]
  /\ UNCHANGED <<users, work>> /\ UNCHANGED Observers

CancelActive(u) ==
  /\ MayAct(u) /\ users[u].pin /\ LiveCodes(u) # {} /\ codes' = Consume(LiveCodes(u))
  /\ UNCHANGED <<users, work>> /\ UNCHANGED Observers

Expire(c) ==
  /\ codes[c].state = "live" /\ codes' = [codes EXCEPT ![c].state = "expired"]
  /\ UNCHANGED <<users, work>> /\ UNCHANGED Observers

Begin(r, request) ==
  /\ work[r] = Idle /\ work' = [work EXCEPT ![r] = request]
  /\ UNCHANGED <<users, codes>> /\ UNCHANGED Observers

End(r) == work' = [work EXCEPT ![r] = Idle]

ReadConfirm(r, u, c) ==
  /\ MayAct(u) /\ codes[c].state = "live"
  /\ Begin(r, [Idle EXCEPT !.for = "confirm", !.target = u, !.code = c,
                     !.copy = [tg |-> users[u].tg, pin |-> users[u].pin,
                               trust |-> users[u].trust, data |-> users[u].data]])

(* Mutant: the children as they were when the request began.               *)
HasTradableDataBefore(u, copy) == copy.pin \/ copy.trust \/ copy.data

(* Mutant: the gate does not look at the trust deposit.                    *)
HasTradableDataUntrusted(u, copy) == copy.pin \/ users[u].data

(* The children are queried under the lock, the PIN and the trust deposit  *)
(* are the copy's.                                                         *)
HasTradableData(u, copy) == copy.pin \/ copy.trust \/ users[u].data

(* confirm_transfer under its locks.  A target another confirmation has    *)
(* deleted meanwhile is deleted once more, which is no error; the unique   *)
(* index on tg_user_id and a code row purged meanwhile are.                *)
ConfirmTransfer(r) ==
  LET target == work[r].target
      copy   == work[r].copy
      c      == work[r].code
      source == codes[c].source
  IN  /\ work[r].for = "confirm" /\ End(r)
      /\ IF source \notin Present
         THEN /\ codes' = Consume({c} \cap LiveCodes(source))
              /\ UNCHANGED users /\ UNCHANGED Observers
         ELSE /\ source # target /\ codes[c].state # "purged"
              /\ ~HasTradableData(target, copy)
              /\ \A u \in Present \ {source, target} : users[u].tg # copy.tg
              /\ users' = [users EXCEPT ![target] = Absent, ![source].tg = copy.tg]
              /\ codes' = Consume({c})
              /\ spent' = [spent EXCEPT ![c] = @ + 1]
              /\ lost' = lost \cup {target}
              /\ surrendered' = (surrendered \/ users[target].admin)
              /\ UNCHANGED crossed

Give(r) == /\ work[r].for # "idle" /\ End(r)
           /\ UNCHANGED <<users, codes>> /\ UNCHANGED Observers

(* The admin desk.  Nobody acts on themselves. *)

(* Mutant: an admin may bar themselves.                                    *)
NotSelfUnchecked(a, u) == TRUE

NotSelf(a, u) == a # u

ReadRole(r, a, u, admin) ==
  /\ MayAct(a) /\ users[a].admin /\ NotSelf(a, u) /\ u \in Present
  /\ users[u].admin # admin
  /\ Begin(r, [Idle EXCEPT !.for = "role", !.actor = a, !.target = u,
                           !.value = admin])

(* Mutant: any admin may go.                                               *)
NotLastAdminUncounted(u) == TRUE

(* _ensure_not_last_admin: the rows of all admins are locked and counted.  *)
NotLastAdmin(u) == Cardinality({w \in Present : users[w].admin}) > 1

StillAuthorised(r) ==
  LET a == work[r].actor IN users[a].admin /\ MayAct(a)

SetRole(r) ==
  /\ work[r].for = "role" /\ work[r].target \in Present /\ End(r)
  /\ ~work[r].value => NotLastAdmin(work[r].target)
  /\ users' = [users EXCEPT ![work[r].target].admin = work[r].value]
  /\ crossed' = (crossed \/ ~StillAuthorised(r))
  /\ UNCHANGED <<codes, lost, spent, surrendered>>

ReadBar(r, a, u, bar) ==
  /\ MayAct(a) /\ users[a].admin /\ u \in Present /\ (bar => NotSelf(a, u))
  /\ users[u].barred # bar
  /\ Begin(r, [Idle EXCEPT !.for = "bar", !.actor = a, !.target = u,
                           !.value = bar])

(* Ban, unban, freeze and unfreeze.                                        *)
Bar(r) ==
  /\ work[r].for = "bar" /\ work[r].target \in Present /\ End(r)
  /\ users' = [users EXCEPT ![work[r].target].barred = work[r].value]
  /\ crossed' = (crossed \/ ~StillAuthorised(r))
  /\ UNCHANGED <<codes, lost, spent, surrendered>>

(* set_trust_deposit: the amount an admin types in, of any row, with no    *)
(* row of its own.                                                         *)
SetTrust(a, u, amount) ==
  /\ MayAct(a) /\ users[a].admin /\ u \in Present /\ users[u].trust # amount
  /\ users' = [users EXCEPT ![u].trust = amount]
  /\ UNCHANGED <<codes, work>> /\ UNCHANGED Observers

Next ==
  \/ \E t \in Telegram : FirstTouch(t)
  \/ \E u \in Ids : InsertChild(u) \/ SetPin(u) \/ CancelActive(u)
  \/ \E u \in Ids, c \in Codes : IssueCode(u, c)
  \/ \E c \in Codes : Expire(c)
  \/ \E r \in Requests, u \in Ids, c \in Codes : ReadConfirm(r, u, c)
  \/ \E r \in Requests, a, u \in Ids, v \in BOOLEAN : ReadRole(r, a, u, v) \/ ReadBar(r, a, u, v)
  \/ \E a, u \in Ids, v \in BOOLEAN : SetTrust(a, u, v)
  \/ \E r \in Requests : ConfirmTransfer(r) \/ SetRole(r) \/ Bar(r) \/ Give(r)

Spec == Init /\ [][Next]_vars

TypeOK ==
  /\ \A u \in Ids : users[u].tg \in Telegram \cup {NoUser}
  /\ \A c \in Codes : /\ codes[c].source \in Ids \cup {0}
                      /\ codes[c].state \in {"none", "live", "consumed", "expired", "purged"}
  /\ \A r \in Requests : work[r].for \in {"idle", "confirm", "role", "bar"}

(* A request that gives the row up loaded it before the trust deposit was  *)
(* set.                                                                    *)
Overlooked(u) ==
  \E r \in Requests : work[r].for = "confirm" /\ work[r].target = u /\ ~work[r].copy.trust

(* A transfer discards its target only while no row hangs on it: a deal,   *)
(* a deposit or a balance that appears while the transfer is under way is  *)
(* never deleted with the row.  The trust deposit, a column of the row, is *)
(* only safe if it was there when the request began (_has_tradable_data).  *)
NothingDiscarded ==
  [][/\ \A u \in Present : users'[u] = Absent => ~users[u].data
     /\ \A u \in lost' \ lost : users[u].trust => Overlooked(u)]_vars

(* A trust deposit is no more discarded than a balance is                  *)
(* (_has_tradable_data: "would silently zero the trust deposit out ...     *)
(* Gate the transfer").                                                    *)
TrustNotDiscarded ==
  [][\A u \in Present : users'[u] = Absent => ~users[u].trust]_vars

(* However roles, bans, freezes and transfers interleave, two admins who   *)
(* demote each other included, there is an admin (_ensure_not_last_admin), *)
(* and one who can act unless a request outlived the authority it began    *)
(* with.  Giving an admin's account up for another one is not guarded.     *)
SomeoneCanAct ==
  surrendered \/ \E u \in Present : users[u].admin /\ (crossed \/ ~users[u].barred)

(* What the one-time code promises: it moves one account, once.            *)
CodesMoveOnce == \A c \in Codes : spent[c] =< 1
=============================================================================
