---------------------------- MODULE Withdrawals ----------------------------
(***************************************************************************)
(* The withdrawals of one user in one currency, from the request to the    *)
(* payout or the refund.                                                   *)
(*                                                                         *)
(* Unlike the handlers of Escrow, create_withdrawal, decide_withdrawal and *)
(* sweep_stale_withdrawals give up their row locks around an HTTP call to  *)
(* CryptoBot, so each is several actions and others run between them.      *)
(* CryptoBot executes a transfer at most once per spend_id, which is       *)
(* derived from the withdrawal's id: delivered is a set.                   *)
(***************************************************************************)
EXTENDS Money, FiniteSets

CONSTANTS
  NWithdrawals,   \* wallet_withdrawals.id ranges over 1..NWithdrawals
  Amounts,        \* amounts a user may ask for
  Funds,          \* user_balances.amount at the start
  Bound,          \* user_balances.locked at the start: pots of deals
  Admins,         \* the requests to decide that may run at the same time
  AdminPresence,  \* answers to admin_exists a request may get
  AutoModes,      \* answers to _auto_withdraw_enabled a request may get
  SweepOn,        \* wallet_withdrawal_stale_seconds > 0
  CarefulAdmins,  \* admins look CryptoBot up before they decide by hand
  MaxFaults       \* bound: failures a stale sweep meets

Withdrawal == 1..NWithdrawals
None == 0

ASSUME WithdrawalsAssumption ==
  /\ NWithdrawals \in Nat
  /\ Amounts \subseteq Nat \ {0}
  /\ Funds \in Nat /\ Bound \in Nat /\ MaxFaults \in Nat
  /\ AdminPresence \subseteq BOOLEAN /\ AutoModes \subseteq BOOLEAN
  /\ SweepOn \in BOOLEAN /\ CarefulAdmins \in BOOLEAN

VARIABLES
  amount,      \* user_balances.amount
  locked,      \* user_balances.locked
  status,      \* wallet_withdrawals.status; "none" before the row exists
  size,        \* wallet_withdrawals.amount
  unattended,  \* withdrawals requested while no admin existed
  calling,     \* withdrawals whose create_withdrawal awaits cp.transfer
  deciding,    \* per admin request, the approved row it awaits cp.transfer for
  delivered,   \* external: the spend_ids CryptoBot has paid out
  sweep,       \* the run of sweep_stale_withdrawals under way
  faults       \* failures the sweeps have met

balance == <<amount, locked>>
row     == <<status, size, unattended>>
calls   == <<calling, deciding>>
vars    == <<balance, row, calls, delivered, sweep, faults>>

Open == {"pending", "approved"}
Settled == {"sent", "rejected"}

(* todo: candidates not looked at yet.  asked, landed: the candidate whose *)
(* transfer was looked up, and the answer.  marks: the status the sweep    *)
(* has written to a row and not committed; it holds the lock of that row   *)
(* and of the balance until it does.                                       *)
Idle == [on |-> FALSE, todo |-> {}, asked |-> None, landed |-> FALSE,
         marks |-> [w \in Withdrawal |-> "none"]]

TypeOK ==
  /\ amount \in Nat /\ locked \in Nat
  /\ status \in [Withdrawal -> Open \cup Settled \cup {"none"}]
  /\ size \in [Withdrawal -> Nat]
  /\ calling \subseteq Withdrawal /\ unattended \subseteq Withdrawal
  /\ deciding \in [Admins -> Withdrawal \cup {None}]
  /\ delivered \subseteq Withdrawal
  /\ sweep \in [on : BOOLEAN, todo : SUBSET Withdrawal,
                asked : Withdrawal \cup {None}, landed : BOOLEAN,
                marks : [Withdrawal -> Settled \cup {"none"}]]
  /\ faults \in 0..MaxFaults

Init ==
  /\ amount = Funds /\ locked = Bound
  /\ status = [w \in Withdrawal |-> "none"]
  /\ size = [w \in Withdrawal |-> 0]
  /\ calling = {} /\ unattended = {} /\ delivered = {}
  /\ deciding = [a \in Admins |-> None]
  /\ sweep = Idle /\ faults = 0

-----------------------------------------------------------------------------
(* Row locks: only the sweep holds any between two actions.                *)

RowFree(w) == sweep.marks[w] = "none"
BalanceFree == \A w \in Withdrawal : RowFree(w)

(* The locked column gives x up for a payout, or back to the user.         *)
PayOut(x) ==
  /\ locked' = AtLeastZero(locked - x)
  /\ UNCHANGED amount

GiveBack(x) ==
  /\ locked' = AtLeastZero(locked - x)
  /\ amount' = amount + x

SetStatus(w, s) == status' = [status EXCEPT ![w] = s]

-----------------------------------------------------------------------------
(* create_withdrawal.                                                      *)

IsNext(w) == status[w] = "none" /\ \A v \in 1..(w - 1) : status[v] # "none"

(* Mutant: the balance is not checked under its lock.                      *)
CoveredUnchecked(x) == TRUE

Covered(x) == amount >= x

(* Phase 1: the amount moves to locked, the row is inserted, and the locks *)
(* are given up.  Without any way to deliver the request is refused.       *)
CreateWithdrawal(w, x, auto, admin) ==
  /\ auto \/ admin
  /\ IsNext(w) /\ BalanceFree
  /\ Covered(x)
  /\ amount' = amount - x
  /\ locked' = locked + x
  /\ SetStatus(w, "pending")
  /\ size' = [size EXCEPT ![w] = x]
  /\ calling' = IF auto THEN calling \cup {w} ELSE calling
  /\ unattended' = IF admin THEN unattended ELSE unattended \cup {w}
  /\ UNCHANGED <<deciding, delivered, sweep, faults>>

(* CryptoBot executes a transfer someone has asked it for.                 *)
Deliver(w) ==
  /\ w \in calling \/ \E a \in Admins : deciding[a] = w
  /\ delivered' = delivered \cup {w}
  /\ UNCHANGED <<balance, row, calls, sweep, faults>>

(* Mutant: phase 3 does not re-check the status it re-reads.               *)
StillOurs(w) == TRUE

(* The status re-check of phase 3, on a freshly read row.                  *)
StillPending(w) == status[w] = "pending"

(* Phase 3 after a successful answer; a row decided meanwhile is left.     *)
CompleteTransfer(w) ==
  /\ w \in calling /\ w \in delivered
  /\ RowFree(w) /\ BalanceFree
  /\ calling' = calling \ {w}
  /\ IF StillPending(w)
     THEN PayOut(size[w]) /\ SetStatus(w, "sent")
     ELSE UNCHANGED <<balance, status>>
  /\ UNCHANGED <<size, unattended, deciding, delivered, sweep, faults>>

(* An error or a timeout leaves the row for review by an admin; a crash of *)
(* the worker leaves it whether there is one or not.                       *)
AbandonTransfer(w) ==
  /\ w \in calling
  /\ calling' = calling \ {w}
  /\ UNCHANGED <<balance, row, deciding, delivered, sweep, faults>>

(* Without any admin an error or a timeout is a refund, whatever status    *)
(* the row has got and whatever CryptoBot has done.                        *)
RefundFailedTransfer(w) ==
  /\ w \in calling \cap unattended
  /\ RowFree(w) /\ BalanceFree
  /\ calling' = calling \ {w}
  /\ GiveBack(size[w])
  /\ SetStatus(w, "rejected")
  /\ UNCHANGED <<size, unattended, deciding, delivered, sweep, faults>>

-----------------------------------------------------------------------------
(* decide_withdrawal.                                                      *)

Free(a) == deciding[a] = None

(* What an admin who looks at CryptoBot first knows of the transfer.       *)
KnownUnpaid(w) ==
  CarefulAdmins => /\ w \notin calling \cup delivered
                   /\ \A a \in Admins : deciding[a] # w
KnownPaid(w) == CarefulAdmins => w \in delivered

(* Approve, phase 1: committed before the transfer is asked for.  Without  *)
(* a CryptoBot token that is all: the state AbandonApproval leads to.      *)
Approve(a, w) ==
  /\ Free(a) /\ RowFree(w)
  /\ status[w] = "pending"
  /\ SetStatus(w, "approved")
  /\ deciding' = [deciding EXCEPT ![a] = w]
  /\ UNCHANGED <<balance, size, unattended, calling, delivered, sweep, faults>>

(* Approve, phase 3.  The row is locked again but the session still holds  *)
(* the copy phase 1 wrote (no populate_existing, expire_on_commit=False):  *)
(* the status the guards look at is "approved" whatever the row now says.  *)
FinishApproval(a) ==
  LET w == deciding[a] IN
  /\ w # None /\ w \in delivered
  /\ RowFree(w) /\ BalanceFree
  /\ deciding' = [deciding EXCEPT ![a] = None]
  /\ PayOut(size[w])
  /\ SetStatus(w, "sent")
  /\ UNCHANGED <<size, unattended, calling, delivered, sweep, faults>>

(* The transfer failed, timed out or the worker died: the row stays        *)
(* approved, for mark_sent or reject to settle.                            *)
AbandonApproval(a) ==
  /\ deciding[a] # None
  /\ deciding' = [deciding EXCEPT ![a] = None]
  /\ UNCHANGED <<balance, row, calling, delivered, sweep, faults>>

(* Mutant: a row that is already sent can be rejected.                     *)
RejectableSent == Open \cup {"sent"}

Rejectable == {"pending", "approved"}

Reject(a, w) ==
  /\ Free(a) /\ RowFree(w) /\ BalanceFree
  /\ status[w] \in Rejectable
  /\ KnownUnpaid(w)
  /\ GiveBack(size[w])
  /\ SetStatus(w, "rejected")
  /\ UNCHANGED <<size, unattended, calls, delivered, sweep, faults>>

MarkSent(a, w) ==
  /\ Free(a) /\ RowFree(w) /\ BalanceFree
  /\ status[w] = "approved"
  /\ KnownPaid(w)
  /\ PayOut(size[w])
  /\ SetStatus(w, "sent")
  /\ UNCHANGED <<size, unattended, calls, delivered, sweep, faults>>

-----------------------------------------------------------------------------
(* sweep_stale_withdrawals.                                                *)

(* Mutant: the age of a row is not looked at.                              *)
PendingRows == {w \in Withdrawal : status[w] = "pending"}

(* Pending rows older than the cutoff (a day): the call of the request     *)
(* that made them, cut off after 15 seconds, is over.                      *)
StaleRows == {w \in Withdrawal : status[w] = "pending" /\ w \notin calling}

(* Phase A: the candidates, read without a lock.                           *)
SweepStart ==
  /\ SweepOn /\ ~sweep.on
  /\ StaleRows # {}
  /\ sweep' = [Idle EXCEPT !.on = TRUE, !.todo = StaleRows]
  /\ UNCHANGED <<balance, row, calls, delivered, faults>>

(* Phase B: getTransfers for one candidate; an error skips it.             *)
SweepAsk(w) ==
  /\ w \in sweep.todo /\ sweep.asked = None
  /\ sweep' = [sweep EXCEPT !.todo = @ \ {w}, !.asked = w,
                            !.landed = w \in delivered]
  /\ UNCHANGED <<balance, row, calls, delivered, faults>>

SweepSkip(w) ==
  /\ w \in sweep.todo /\ sweep.asked = None
  /\ faults < MaxFaults
  /\ faults' = faults + 1
  /\ sweep' = [sweep EXCEPT !.todo = @ \ {w}]
  /\ UNCHANGED <<balance, row, calls, delivered>>

Verdict(landed) == IF landed THEN "sent" ELSE "rejected"

(* Mutant: only a payout that is found is written.                         *)
SweepApplyFound ==
  /\ sweep.asked # None
  /\ sweep' = [sweep EXCEPT !.asked = None,
                 !.marks[sweep.asked] = IF sweep.landed THEN "sent" ELSE @]
  /\ UNCHANGED <<balance, row, calls, delivered, faults>>

(* Phase C: the row is locked, but the status re-check looks at the copy   *)
(* phase A loaded, which says "pending".                                   *)
SweepApply ==
  /\ sweep.asked # None
  /\ sweep' = [sweep EXCEPT !.asked = None,
                 !.marks[sweep.asked] = Verdict(sweep.landed)]
  /\ UNCHANGED <<balance, row, calls, delivered, faults>>

(* The sizes of the rows the sweep has given a status in S.                *)
Marked(S) ==
  Total([w \in Withdrawal |-> IF sweep.marks[w] \in S THEN size[w] ELSE 0],
        NWithdrawals)

(* Mutant: a payout that is found is not taken off the locked column.      *)
MarkedRefund == Marked({"rejected"})

MarkedAny == Marked(Settled)

(* The one commit of a whole run.                                          *)
SweepCommit ==
  /\ sweep.on /\ sweep.todo = {} /\ sweep.asked = None
  /\ locked' = AtLeastZero(locked - MarkedAny)
  /\ amount' = amount + Marked({"rejected"})
  /\ status' = [w \in Withdrawal |-> IF RowFree(w) THEN status[w]
                                                   ELSE sweep.marks[w]]
  /\ sweep' = Idle
  /\ UNCHANGED <<size, unattended, calls, delivered, faults>>

(* A crash or a database error rolls the whole run back.                   *)
SweepAbort ==
  /\ sweep.on /\ faults < MaxFaults
  /\ faults' = faults + 1
  /\ sweep' = Idle
  /\ UNCHANGED <<balance, row, calls, delivered>>

-----------------------------------------------------------------------------
Request(w) ==
  \/ \E x \in Amounts, auto \in AutoModes, admin \in AdminPresence :
       CreateWithdrawal(w, x, auto, admin)
  \/ Deliver(w)
  \/ CompleteTransfer(w)
  \/ AbandonTransfer(w)
  \/ RefundFailedTransfer(w)

Decide(a) ==
  \/ \E w \in Withdrawal : Approve(a, w) \/ Reject(a, w) \/ MarkSent(a, w)
  \/ FinishApproval(a)
  \/ AbandonApproval(a)

SweepRun ==
  \/ SweepStart
  \/ \E w \in Withdrawal : SweepAsk(w) \/ SweepSkip(w)
  \/ SweepApply
  \/ SweepCommit
  \/ SweepAbort

Next ==
  \/ \E w \in Withdrawal : Request(w)
  \/ \E a \in Admins : Decide(a)
  \/ SweepRun

Spec == Init /\ [][Next]_vars

(* An HTTP call ends, at the latest with its timeout.  Nothing is assumed  *)
(* of admins.                                                              *)
Fairness ==
  \A w \in Withdrawal :
    WF_vars(CompleteTransfer(w) \/ AbandonTransfer(w) \/ RefundFailedTransfer(w))

-----------------------------------------------------------------------------
(* Properties.                                                             *)

SumOf(S) ==
  Total([w \in Withdrawal |-> IF status[w] \in S THEN size[w] ELSE 0],
        NWithdrawals)

(* The locked column is the pots of the deals plus every withdrawal that   *)
(* is neither sent nor rejected: no interleaving of the request, the admin *)
(* and the sweep unlocks a withdrawal twice (the clamp at zero would hide  *)
(* it by eating into the pots) or leaves one locked for ever.              *)
LockedBacked == locked = Bound + SumOf(Open)

(* What the user holds and what was booked as sent is what there was.      *)
NothingLost == amount + locked + SumOf({"sent"}) = Funds + Bound

(* A withdrawal that is sent or rejected stays so, whoever answers late.   *)
SettledIsFinal ==
  [][\A w \in Withdrawal : status[w] \in Settled => status'[w] = status[w]]_vars

(* A withdrawal is booked as sent only if CryptoBot paid it, and one whose *)
(* money went back to the user was not paid, if an admin was there to      *)
(* review a failed payout: neither the request nor the sweep pays and      *)
(* refunds the same withdrawal.                                            *)
SettledAsDelivered ==
  \A w \in Withdrawal :
    /\ status[w] = "sent" => w \in delivered
    /\ status[w] = "rejected" /\ w \notin unattended => w \notin delivered

(* decide_withdrawal says of a status that changed during the transfer,    *)
(* "someone rejected before Phase 3 acquired the lock", that it will "bail *)
(* loudly": a rejected withdrawal is not then marked sent.                 *)
RejectedStaysRejected ==
  [][\A w \in Withdrawal : status[w] = "rejected" => status'[w] = "rejected"]_vars

(* decide_withdrawal says "the CryptoBot error may mask a successful       *)
(* transfer" and so must not release the locked funds: what was refunded   *)
(* after an error had not been paid.                                       *)
ErrorsAreNotRefunds ==
  \A w \in Withdrawal : status[w] = "rejected" => w \notin delivered

(* sweep_stale_withdrawals says that its phase C "re-checks status==pending*)
(* to absorb any concurrent admin decide": the sweep settles no row that   *)
(* is not pending any more.                                                *)
SweepAbsorbsDecisions ==
  [][SweepCommit =>
       \A w \in Withdrawal : status'[w] # status[w] => status[w] = "pending"]_vars
=============================================================================
