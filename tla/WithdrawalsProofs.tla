------------------------- MODULE WithdrawalsProofs -------------------------
(***************************************************************************)
(* Theorems about Withdrawals for every number of withdrawals, every       *)
(* amount and every balance.                                               *)
(***************************************************************************)
EXTENDS MCWithdrawalsOneHand, MoneyTheorems

(* The rows a run of the sweep has read and not given up.                  *)
InSweep == sweep.todo \cup ({sweep.asked} \ {None})
             \cup {w \in Withdrawal : sweep.marks[w] # "none"}

(* A row whose outcome someone will write without looking at its status    *)
(* again has kept the status he believes it has.                           *)
Custody ==
  /\ \A a \in Admins : deciding[a] # None => status[deciding[a]] = "approved"
  /\ \A w \in calling \cap unattended : status[w] = "pending"
  /\ \A w \in InSweep : status[w] = "pending" /\ w \notin calling
  /\ hand = "admin" => ~sweep.on /\ InSweep = {} /\ unattended = {}
  /\ hand = "sweep" => \A a \in Admins : deciding[a] = None
  /\ hand \in {"admin", "sweep"}

-----------------------------------------------------------------------------
(* Type correctness.                                                       *)

(* A sum over rows of a state whose columns have their types.              *)
LEMMA SumType ==
  ASSUME TypeOK, NEW S
  PROVE  /\ NWithdrawals \in Nat
         /\ SumOf(S) \in Nat
         /\ \A w \in Withdrawal : status[w] \in S => size[w] <= SumOf(S)
<1> DEFINE f == [w \in Withdrawal |-> IF status[w] \in S THEN size[w] ELSE 0]
<1>1. NWithdrawals \in Nat
  BY WithdrawalsAssumption
<1>2. f \in [1..NWithdrawals -> Nat]
  BY DEF TypeOK, Withdrawal
<1>3. \A w \in Withdrawal : w \in 1..NWithdrawals /\ (status[w] \in S => f[w] = size[w])
  BY DEF Withdrawal
<1>4. SumOf(S) = Total(f, NWithdrawals)
  BY DEF SumOf
<1> HIDE DEF f
<1>5. Total(f, NWithdrawals) \in Nat /\ \A w \in 1..NWithdrawals : f[w] <= Total(f, NWithdrawals)
  BY <1>1, <1>2, TotalCovers
<1> QED BY <1>1, <1>3, <1>4, <1>5

(* The same after a step.                                                  *)
LEMMA SumTypeAfter ==
  ASSUME TypeOK', NEW S
  PROVE  SumOf(S)' \in Nat
<1> DEFINE f == [w \in Withdrawal |-> IF status'[w] \in S THEN size'[w] ELSE 0]
<1>1. NWithdrawals \in Nat /\ f \in [1..NWithdrawals -> Nat]
  BY WithdrawalsAssumption DEF TypeOK, Withdrawal
<1>2. SumOf(S)' = Total(f, NWithdrawals)
  BY DEF SumOf
<1> HIDE DEF f
<1> QED BY <1>1, <1>2, TotalCovers

(* A sum over the rows the sweep has marked.                               *)
LEMMA MarkedType ==
  ASSUME TypeOK, NEW S
  PROVE  Marked(S) \in Nat
<1> DEFINE f == [w \in Withdrawal |-> IF sweep.marks[w] \in S THEN size[w] ELSE 0]
<1>1. NWithdrawals \in Nat /\ f \in [1..NWithdrawals -> Nat]
  BY WithdrawalsAssumption DEF TypeOK, Withdrawal
<1>2. Marked(S) = Total(f, NWithdrawals)
  BY DEF Marked
<1> HIDE DEF f
<1> QED BY <1>1, <1>2, TotalCovers

(* The two ways a withdrawal leaves the locked column.                     *)
LEMMA PayOutType ==
  ASSUME TypeOK, NEW x \in Nat, PayOut(x) \/ GiveBack(x)
  PROVE  amount' \in Nat /\ locked' \in Nat
BY DEF TypeOK, PayOut, GiveBack, AtLeastZero

(* A status a row may be given.                                            *)
LEMMA SetStatusType ==
  ASSUME TypeOK, NEW w, NEW s \in Open \cup Settled, SetStatus(w, s)
  PROVE  status' \in [Withdrawal -> Open \cup Settled \cup {"none"}]
BY DEF TypeOK, SetStatus

(* The steps of the request keep the types.                                *)
LEMMA RequestType ==
  ASSUME TypeOK, NEW w \in Withdrawal, Request(w) PROVE TypeOK'
<1> USE DEF Open, Settled
<1>0. size[w] \in Nat
  BY DEF TypeOK
<1>1. ASSUME NEW x \in Amounts, NEW auto \in AutoModes, NEW admin \in AdminPresence,
             CreateWithdrawal(w, x, auto, admin)
      PROVE  TypeOK'
  <2>1. x \in Nat
    BY WithdrawalsAssumption
  <2>2. amount' \in Nat /\ locked' \in Nat
    BY <1>1, <2>1 DEF CreateWithdrawal, Covered, TypeOK
  <2>3. status' \in [Withdrawal -> Open \cup Settled \cup {"none"}]
    BY <1>1, SetStatusType DEF CreateWithdrawal
  <2>4. /\ size' \in [Withdrawal -> Nat]
        /\ calling' \subseteq Withdrawal /\ unattended' \subseteq Withdrawal
        /\ UNCHANGED <<deciding, delivered, sweep, faults>>
    BY <1>1, <2>1 DEF CreateWithdrawal, TypeOK
  <2> QED BY <2>2, <2>3, <2>4 DEF TypeOK
<1>2. CASE Deliver(w)
  BY <1>2 DEF Deliver, TypeOK, balance, row, calls
<1>3. CASE CompleteTransfer(w)
  <2>1. amount' \in Nat /\ locked' \in Nat
    BY <1>0, <1>3, PayOutType DEF CompleteTransfer, TypeOK, balance
  <2>2. status' \in [Withdrawal -> Open \cup Settled \cup {"none"}]
    BY <1>3, SetStatusType DEF CompleteTransfer, TypeOK
  <2> QED BY <1>3, <2>1, <2>2 DEF CompleteTransfer, TypeOK
<1>4. CASE AbandonTransfer(w)
  BY <1>4 DEF AbandonTransfer, TypeOK, balance, row
<1>5. CASE RefundFailedTransfer(w)
  <2>1. amount' \in Nat /\ locked' \in Nat
    BY <1>0, <1>5, PayOutType DEF RefundFailedTransfer
  <2>2. status' \in [Withdrawal -> Open \cup Settled \cup {"none"}]
    BY <1>5, SetStatusType DEF RefundFailedTransfer
  <2> QED BY <1>5, <2>1, <2>2 DEF RefundFailedTransfer, TypeOK
<1> QED BY <1>1, <1>2, <1>3, <1>4, <1>5 DEF Request

(* The steps of an admin keep the types.                                   *)
LEMMA DecideType ==
  ASSUME TypeOK, NEW a \in Admins, Decide(a) PROVE TypeOK'
<1> USE DEF Open, Settled
<1>1. ASSUME NEW w \in Withdrawal, Approve(a, w) PROVE TypeOK'
  <2>1. status' \in [Withdrawal -> Open \cup Settled \cup {"none"}]
    BY <1>1, SetStatusType DEF Approve
  <2>2. deciding' \in [Admins -> Withdrawal \cup {None}]
    BY <1>1 DEF Approve, TypeOK
  <2> QED BY <1>1, <2>1, <2>2 DEF Approve, TypeOK, balance
<1>2. ASSUME NEW w \in Withdrawal, Reject(a, w) \/ MarkSent(a, w) PROVE TypeOK'
  <2>1. amount' \in Nat /\ locked' \in Nat
    BY <1>2, PayOutType, size[w] \in Nat DEF Reject, MarkSent, TypeOK
  <2>2. status' \in [Withdrawal -> Open \cup Settled \cup {"none"}]
    BY <1>2, SetStatusType DEF Reject, MarkSent
  <2> QED BY <1>2, <2>1, <2>2 DEF Reject, MarkSent, TypeOK, calls
<1>3. CASE FinishApproval(a)
  <2> DEFINE w == deciding[a]
  <2>1. size[w] \in Nat
    BY <1>3 DEF FinishApproval, TypeOK
  <2>2. amount' \in Nat /\ locked' \in Nat
    BY <1>3, <2>1, PayOutType DEF FinishApproval
  <2>3. status' \in [Withdrawal -> Open \cup Settled \cup {"none"}]
    BY <1>3, SetStatusType DEF FinishApproval
  <2>4. deciding' \in [Admins -> Withdrawal \cup {None}]
    BY <1>3 DEF FinishApproval, TypeOK
  <2> QED BY <1>3, <2>2, <2>3, <2>4 DEF FinishApproval, TypeOK
<1>4. CASE AbandonApproval(a)
  BY <1>4 DEF AbandonApproval, TypeOK, balance, row
<1> QED BY <1>1, <1>2, <1>3, <1>4 DEF Decide

(* The steps of the sweep keep the types.                                  *)
LEMMA SweepRunType == ASSUME TypeOK, SweepRun PROVE TypeOK'
<1> DEFINE Run == [on : BOOLEAN, todo : SUBSET Withdrawal,
                   asked : Withdrawal \cup {None}, landed : BOOLEAN,
                   marks : [Withdrawal -> Settled \cup {"none"}]]
<1> USE DEF Open, Settled
<1>0. Idle \in Run
  BY DEF Idle
<1>1. ASSUME sweep' \in Run, UNCHANGED <<balance, row, calls, delivered>>,
             faults' \in 0..MaxFaults
      PROVE  TypeOK'
  BY <1>1 DEF TypeOK, balance, row, calls
<1>2. CASE SweepStart
  <2>1. sweep' \in Run
    BY <1>0, <1>2 DEF SweepStart, StaleRows
  <2> QED BY <1>1, <1>2, <2>1 DEF SweepStart, TypeOK
<1>3. ASSUME NEW w \in Withdrawal, SweepAsk(w) \/ SweepSkip(w) PROVE TypeOK'
  <2>1. sweep' \in Run
    <3>1. CASE SweepAsk(w)
      <4> DEFINE landed == w \in delivered
      <4>1. landed \in BOOLEAN
        BY SMT
      <4>2. sweep' = [sweep EXCEPT !.todo = sweep.todo \ {w}, !.asked = w,
                                   !.landed = landed]
        BY <3>1 DEF SweepAsk
      <4> HIDE DEF landed
      <4> QED BY <4>1, <4>2 DEF TypeOK
    <3>2. CASE SweepSkip(w)
      BY <3>2 DEF SweepSkip, TypeOK
    <3> QED BY <1>3, <3>1, <3>2
  <2>2. faults' \in 0..MaxFaults
    BY <1>3, WithdrawalsAssumption DEF SweepAsk, SweepSkip, TypeOK
  <2> QED BY <1>1, <1>3, <2>1, <2>2 DEF SweepAsk, SweepSkip
<1>4. CASE SweepApply
  <2> DEFINE m == [sweep.marks EXCEPT ![sweep.asked] = Verdict(sweep.landed)]
  <2>1. sweep' \in Run
    <3>1. sweep.marks \in [Withdrawal -> Settled \cup {"none"}]
      BY DEF TypeOK
    <3>2. m \in [Withdrawal -> Settled \cup {"none"}]
      BY <3>1 DEF Verdict
    <3>3. sweep' = [[sweep EXCEPT !.asked = None] EXCEPT !.marks = m]
      BY <1>4 DEF SweepApply, TypeOK
    <3> HIDE DEF m
    <3> QED BY <3>2, <3>3 DEF TypeOK
  <2> QED BY <1>1, <1>4, <2>1 DEF SweepApply, TypeOK
<1>5. CASE SweepCommit
  <2>1. /\ Marked({"rejected"}) \in Nat /\ MarkedAny \in Nat
        /\ amount \in Nat /\ locked \in Nat
    BY MarkedType DEF MarkedAny, TypeOK
  <2>2. amount' \in Nat /\ locked' \in Nat
    BY <1>5, <2>1 DEF SweepCommit, AtLeastZero
  <2>3. status' \in [Withdrawal -> Open \cup Settled \cup {"none"}]
    BY <1>5 DEF SweepCommit, RowFree, TypeOK
  <2> QED BY <1>0, <1>5, <2>2, <2>3 DEF SweepCommit, TypeOK, calls
<1>6. CASE SweepAbort
  <2>1. faults' \in 0..MaxFaults
    BY <1>6, WithdrawalsAssumption DEF SweepAbort, TypeOK
  <2> QED BY <1>0, <1>1, <1>6, <2>1 DEF SweepAbort
<1> QED BY <1>2, <1>3, <1>4, <1>5, <1>6 DEF SweepRun

(* The initial state has the declared types.                               *)
LEMMA InitTypes == ASSUME Init PROVE TypeOK
BY WithdrawalsAssumption DEF Init, TypeOK, Idle, Open, Settled

(* No balance of the withdrawal handlers is ever negative, and no row or   *)
(* call refers to a withdrawal that does not exist, whatever the requests, *)
(* admins and sweeps do at once.                                           *)
THEOREM WithdrawalsTypeCorrect == Spec => []TypeOK
<1>1. Init => TypeOK
  BY InitTypes
<1>2. ASSUME TypeOK, [Next]_vars PROVE TypeOK'
  <2>1. CASE Next
    BY <1>2, <2>1, RequestType, DecideType, SweepRunType DEF Next
  <2>2. CASE UNCHANGED vars
    BY <1>2, <2>2 DEF TypeOK, vars, balance, row, calls
  <2> QED BY <1>2, <2>1, <2>2
<1> QED BY <1>1, <1>2, PTL DEF Spec

-----------------------------------------------------------------------------
(* Custody: nobody writes over a status he has not seen.                   *)

(* In the beginning nobody is at work.                                     *)
LEMMA InitCustody == ASSUME HandInit PROVE Custody
BY DEF HandInit, Init, Custody, InSweep, Idle

(* The steps of the request keep custody.                                  *)
LEMMA RequestCustody ==
  ASSUME TypeOK, Custody, NEW w \in Withdrawal, Request(w),
         hand' = hand, hand = "admin" => unattended' = {}
  PROVE  Custody'
<1>1. sweep' = sweep /\ InSweep' = InSweep /\ deciding' = deciding
  <2>1. sweep' = sweep /\ deciding' = deciding
    BY DEF Request, CreateWithdrawal, Deliver, CompleteTransfer,
           AbandonTransfer, RefundFailedTransfer, calls
  <2> QED BY <2>1 DEF InSweep
<1>2. ASSUME NEW x \in Amounts, NEW auto \in AutoModes, NEW admin \in AdminPresence,
             CreateWithdrawal(w, x, auto, admin)
      PROVE  Custody'
  <2>1. /\ status[w] = "none"
        /\ status' = [status EXCEPT ![w] = "pending"]
        /\ calling' \subseteq calling \cup {w}
        /\ unattended' \subseteq unattended \cup {w}
        /\ admin => unattended' = unattended
    BY <1>2 DEF CreateWithdrawal, IsNext, SetStatus
  <2>2. hand = "admin" => unattended' = unattended
    BY DEF Custody
  <2>3. /\ \A v \in Withdrawal : v # w => status'[v] = status[v]
        /\ status'[w] = "pending"
    BY <2>1 DEF TypeOK
  <2>4. w \notin InSweep /\ \A a \in Admins : deciding[a] # w
    BY <2>1 DEF Custody, None, Withdrawal
  <2>5. InSweep \subseteq Withdrawal /\ calling \subseteq Withdrawal
    BY DEF InSweep, TypeOK
  <2>6. \A a \in Admins : deciding[a] # None => deciding[a] \in Withdrawal
    BY DEF TypeOK
  <2> QED BY <1>1, <2>1, <2>2, <2>3, <2>4, <2>5, <2>6 DEF Custody
<1>3. CASE Deliver(w)
  BY <1>1, <1>3 DEF Deliver, Custody, row, calls
<1>4. ASSUME w \in calling, calling' = calling \ {w}, unattended' = unattended,
             NEW s, status' = [status EXCEPT ![w] = s],
             \A a \in Admins : deciding[a] # w
      PROVE  Custody'
  <2>1. \A v \in Withdrawal : v # w => status'[v] = status[v]
    BY <1>4 DEF TypeOK
  <2>2. w \notin InSweep /\ InSweep \subseteq Withdrawal
    BY <1>4 DEF Custody, InSweep, TypeOK
  <2>3. \A a \in Admins : deciding[a] # None => deciding[a] \in Withdrawal
    BY DEF TypeOK
  <2> QED BY <1>1, <1>4, <2>1, <2>2, <2>3 DEF Custody, TypeOK
<1>5. CASE CompleteTransfer(w)
  <2>1. CASE StillPending(w)
    <3>1. \A a \in Admins : deciding[a] # w
      BY <2>1 DEF StillPending, Custody, None, Withdrawal
    <3> QED BY <1>4, <1>5, <2>1, <3>1 DEF CompleteTransfer, SetStatus
  <2>2. CASE ~StillPending(w)
    BY <1>1, <1>5, <2>2 DEF CompleteTransfer, Custody
  <2> QED BY <2>1, <2>2
<1>6. CASE AbandonTransfer(w)
  BY <1>1, <1>6 DEF AbandonTransfer, Custody, row
<1>7. CASE RefundFailedTransfer(w)
  <2>1. \A a \in Admins : deciding[a] # w
    BY <1>7 DEF RefundFailedTransfer, Custody, None, Withdrawal
  <2> QED BY <1>4, <1>7, <2>1 DEF RefundFailedTransfer, SetStatus
<1> QED BY <1>2, <1>3, <1>5, <1>6, <1>7 DEF Request

(* The steps of an admin do: with no other request to decide, the sweep    *)
(* off and no unattended withdrawal, nobody else has a row in custody.     *)
LEMMA DecideCustody ==
  ASSUME TypeOK, Custody, NEW a \in Admins, Alone(a), Decide(a), hand = "admin", hand' = hand
  PROVE  Custody'
<1>1. /\ \A b \in Admins : b # a => deciding[b] = None
      /\ ~sweep.on /\ InSweep = {} /\ unattended = {}
  BY DEF Custody, Alone
<1>2. /\ sweep' = sweep /\ InSweep' = InSweep
      /\ unattended' = unattended
  <2>1. sweep' = sweep /\ unattended' = unattended
    BY DEF Decide, Approve, Reject, MarkSent, FinishApproval, AbandonApproval, row
  <2> QED BY <2>1 DEF InSweep
<1>3. ASSUME deciding'[a] # None => status'[deciding'[a]] = "approved"
      PROVE  Custody'
  <2>1. \A b \in Admins : b # a => deciding'[b] = None
    BY <1>1 DEF Decide, Approve, Reject, MarkSent, FinishApproval, AbandonApproval, calls, TypeOK
  <2> QED BY <1>1, <1>2, <1>3, <2>1 DEF Custody
<1>4. ASSUME NEW w \in Withdrawal, Approve(a, w) PROVE Custody'
  <2>1. deciding'[a] = w /\ status'[w] = "approved"
    BY <1>4 DEF Approve, SetStatus, TypeOK
  <2> QED BY <1>3, <2>1
<1>5. ASSUME NEW w \in Withdrawal, Reject(a, w) \/ MarkSent(a, w) PROVE Custody'
  BY <1>3, <1>5 DEF Reject, MarkSent, Free, calls
<1>6. CASE FinishApproval(a) \/ AbandonApproval(a)
  <2>1. deciding'[a] = None
    BY <1>6 DEF FinishApproval, AbandonApproval, TypeOK
  <2> QED BY <1>3, <2>1
<1> QED BY <1>4, <1>5, <1>6 DEF Decide

(* The steps of the sweep do: it runs only when no admin is at work.       *)
LEMMA SweepRunCustody ==
  ASSUME TypeOK, Custody, SweepRun, hand = "sweep", hand' = hand
  PROVE  Custody'
<1>1. \A a \in Admins : deciding[a] = None
  BY DEF Custody
<1>2. ASSUME \A v \in InSweep' : v \in InSweep, UNCHANGED <<row, calls>>
      PROVE  Custody'
  BY <1>1, <1>2 DEF Custody, row, calls
<1>3. ASSUME sweep' = Idle PROVE InSweep' = {}
  BY <1>3 DEF InSweep, Idle
<1>4. CASE SweepStart
  <2>1. InSweep' = StaleRows
    BY <1>4 DEF SweepStart, InSweep, Idle
  <2> QED BY <1>1, <1>4, <2>1 DEF SweepStart, StaleRows, Custody, row, calls
<1>5. ASSUME NEW w \in Withdrawal, SweepAsk(w) \/ SweepSkip(w) PROVE Custody'
  <2>1. \A v \in InSweep' : v \in InSweep
    <3>1. CASE SweepAsk(w)
      <4>1. sweep'.todo = sweep.todo \ {w} /\ sweep'.asked = w /\ sweep'.marks = sweep.marks
        BY <3>1 DEF SweepAsk, TypeOK
      <4>2. w \in sweep.todo
        BY <3>1 DEF SweepAsk
      <4> QED BY <4>1, <4>2 DEF InSweep
    <3>2. CASE SweepSkip(w)
      <4>1. sweep'.todo = sweep.todo \ {w} /\ sweep'.asked = sweep.asked /\ sweep'.marks = sweep.marks
        BY <3>2 DEF SweepSkip, TypeOK
      <4> QED BY <4>1 DEF InSweep
    <3> QED BY <1>5, <3>1, <3>2
  <2> QED BY <1>2, <1>5, <2>1 DEF SweepAsk, SweepSkip
<1>6. CASE SweepApply
  <2>1. /\ sweep'.todo = sweep.todo /\ sweep'.asked = None
        /\ sweep.asked # None
        /\ \A v \in Withdrawal : v # sweep.asked => sweep'.marks[v] = sweep.marks[v]
    BY <1>6 DEF SweepApply, TypeOK
  <2>2. \A v \in InSweep' : v \in InSweep
    BY <2>1 DEF InSweep
  <2> QED BY <1>2, <1>6, <2>2 DEF SweepApply
<1>7. CASE SweepCommit
  <2>1. InSweep' = {}
    BY <1>3, <1>7 DEF SweepCommit
  <2>2. UNCHANGED <<unattended, calling, deciding>>
    BY <1>7 DEF SweepCommit, calls
  <2>3. \A v \in calling \cap unattended : status'[v] = status[v]
    BY <1>7 DEF SweepCommit, RowFree, Custody, InSweep, TypeOK
  <2> QED BY <1>1, <2>1, <2>2, <2>3 DEF Custody
<1>8. CASE SweepAbort
  BY <1>2, <1>3, <1>8 DEF SweepAbort
<1> QED BY <1>4, <1>5, <1>6, <1>7, <1>8 DEF SweepRun

(* Custody holds in every reachable state.                                 *)
Guarded == TypeOK /\ Custody

(* One step keeps it.                                                      *)
LEMMA GuardedStep ==
  ASSUME Guarded, [HandNext]_<<vars, hand>>
  PROVE  Guarded' /\ [Next]_vars
<1>1. CASE HandNext
  <2>1. Next
    BY <1>1 DEF HandNext, Next
  <2>2. TypeOK'
    BY <2>1, RequestType, DecideType, SweepRunType DEF Next, Guarded
  <2>3. Custody'
    BY <1>1, RequestCustody, DecideCustody, SweepRunCustody DEF HandNext, Guarded
  <2> QED BY <2>1, <2>2, <2>3 DEF Guarded
<1>2. CASE UNCHANGED <<vars, hand>>
  <2>1. UNCHANGED <<amount, locked, status, size, unattended, calling, deciding,
                    delivered, sweep, faults, hand>>
    BY <1>2 DEF vars, balance, row, calls
  <2> QED BY <1>2, <2>1 DEF Guarded, TypeOK, Custody, InSweep
<1> QED BY <1>1, <1>2

-----------------------------------------------------------------------------
(* The books: what the columns and the rows say of the same money.         *)

Books == LockedBacked /\ NothingLost

(* What a row adds to a sum over the statuses in S.                        *)
Share(S, w) == IF status[w] \in S THEN size[w] ELSE 0

(* When only row w changes, a sum changes by what w adds to it.            *)
LEMMA SumUpdate ==
  ASSUME TypeOK, TypeOK', NEW S, NEW w \in Withdrawal,
         \A v \in Withdrawal \ {w} : status'[v] = status[v] /\ size'[v] = size[v]
  PROVE  SumOf(S)' = SumOf(S) + (Share(S, w)' - Share(S, w))
<1> DEFINE f == [v \in Withdrawal |-> IF status[v] \in S THEN size[v] ELSE 0]
           g == [v \in Withdrawal |-> IF status'[v] \in S THEN size'[v] ELSE 0]
<1>1. NWithdrawals \in Nat
  BY WithdrawalsAssumption
<1>2. f \in [1..NWithdrawals -> Int] /\ g \in [1..NWithdrawals -> Int]
  BY DEF TypeOK, Withdrawal
<1>3. SumOf(S) = Total(f, NWithdrawals) /\ SumOf(S)' = Total(g, NWithdrawals)
  BY DEF SumOf
<1>4. /\ w \in 1..NWithdrawals
      /\ \A v \in 1..NWithdrawals : v # w => g[v] = f[v]
      /\ f[w] = Share(S, w) /\ g[w] = Share(S, w)'
  BY DEF Withdrawal, Share
<1> HIDE DEF f, g
<1>5. Total(g, NWithdrawals) = Total(f, NWithdrawals) + (g[w] - f[w])
  BY <1>1, <1>2, <1>4, TotalUpdate
<1> QED BY <1>3, <1>4, <1>5

(* A step that changes neither balance nor rows.                           *)
LEMMA BooksSame ==
  ASSUME Books, UNCHANGED <<amount, locked, status, size>>
  PROVE  Books'
BY DEF Books, LockedBacked, NothingLost, SumOf

(* A step that moves row w from one status to another, in or out of the    *)
(* locked column: the clamp at zero does not bite, because the column      *)
(* holds at least what the row adds to it.                                 *)
LEMMA BooksMove ==
  ASSUME TypeOK, TypeOK', Books, NEW w \in Withdrawal,
         status[w] \in Open,
         size' = size, NEW s, status' = [status EXCEPT ![w] = s],
         \/ s \in Open /\ UNCHANGED balance
         \/ s = "sent" /\ PayOut(size[w])
         \/ s = "rejected" /\ GiveBack(size[w])
  PROVE  Books'
<1> DEFINE x == size[w]
<1>1. /\ SumOf(Open)' = SumOf(Open) + (Share(Open, w)' - Share(Open, w))
      /\ SumOf({"sent"})' = SumOf({"sent"}) + (Share({"sent"}, w)' - Share({"sent"}, w))
  <2>1. \A v \in Withdrawal \ {w} : status'[v] = status[v] /\ size'[v] = size[v]
    BY DEF TypeOK
  <2> QED BY <2>1, SumUpdate
<1>2. /\ SumOf(Open) \in Nat /\ SumOf({"sent"}) \in Nat /\ x <= SumOf(Open)
      /\ Bound \in Nat /\ Funds \in Nat /\ x \in Nat
      /\ amount \in Nat /\ locked \in Nat
  BY SumType, WithdrawalsAssumption DEF TypeOK
<1>3. /\ status'[w] = s
      /\ Share(Open, w) = x /\ Share({"sent"}, w) = 0
      /\ Share(Open, w)' = IF s \in Open THEN x ELSE 0
      /\ Share({"sent"}, w)' = IF s = "sent" THEN x ELSE 0
  BY DEF Share, TypeOK, Open
<1> HIDE DEF x
<1>4. locked = Bound + SumOf(Open) /\ amount + locked + SumOf({"sent"}) = Funds + Bound
  BY DEF Books, LockedBacked, NothingLost
<1>5. CASE s \in Open /\ UNCHANGED balance
  BY <1>1, <1>2, <1>3, <1>4, <1>5
  DEF Books, LockedBacked, NothingLost, balance, Open
<1>6. CASE s = "sent" /\ PayOut(x)
  BY <1>1, <1>2, <1>3, <1>4, <1>6
  DEF Books, LockedBacked, NothingLost, PayOut, AtLeastZero, Open
<1>7. CASE s = "rejected" /\ GiveBack(x)
  BY <1>1, <1>2, <1>3, <1>4, <1>7
  DEF Books, LockedBacked, NothingLost, GiveBack, AtLeastZero, Open
<1> QED BY <1>5, <1>6, <1>7 DEF x

(* The steps of the request keep the books.                                *)
LEMMA RequestBooks ==
  ASSUME TypeOK, TypeOK', Custody, Books, NEW w \in Withdrawal, Request(w)
  PROVE  Books'
<1>1. ASSUME NEW x \in Amounts, NEW auto \in AutoModes, NEW admin \in AdminPresence,
             CreateWithdrawal(w, x, auto, admin)
      PROVE  Books'
  <2>1. /\ status[w] = "none" /\ status'[w] = "pending" /\ size'[w] = x
        /\ \A v \in Withdrawal \ {w} : status'[v] = status[v] /\ size'[v] = size[v]
    BY <1>1 DEF CreateWithdrawal, IsNext, SetStatus, TypeOK
  <2>2. /\ SumOf(Open)' = SumOf(Open) + (Share(Open, w)' - Share(Open, w))
        /\ SumOf({"sent"})' = SumOf({"sent"}) + (Share({"sent"}, w)' - Share({"sent"}, w))
    BY <2>1, SumUpdate
  <2>3. /\ Share(Open, w) = 0 /\ Share({"sent"}, w) = 0
        /\ Share(Open, w)' = x /\ Share({"sent"}, w)' = 0
    BY <2>1 DEF Share, Open
  <2>4. /\ SumOf(Open) \in Nat /\ SumOf({"sent"}) \in Nat
        /\ Bound \in Nat /\ Funds \in Nat /\ x \in Nat
        /\ amount \in Nat /\ locked \in Nat
    BY SumType, WithdrawalsAssumption DEF TypeOK
  <2>5. amount' = amount - x /\ locked' = locked + x
    BY <1>1 DEF CreateWithdrawal
  <2> QED BY <2>2, <2>3, <2>4, <2>5 DEF Books, LockedBacked, NothingLost
<1>2. CASE Deliver(w)
  BY <1>2, BooksSame DEF Deliver, balance, row
<1>3. CASE CompleteTransfer(w)
  <2>1. CASE StillPending(w)
    BY <1>3, <2>1, BooksMove DEF CompleteTransfer, StillPending, SetStatus, Open
  <2>2. CASE ~StillPending(w)
    BY <1>3, <2>2, BooksSame DEF CompleteTransfer, balance
  <2> QED BY <2>1, <2>2
<1>4. CASE AbandonTransfer(w)
  BY <1>4, BooksSame DEF AbandonTransfer, balance, row
<1>5. CASE RefundFailedTransfer(w)
  <2>1. status[w] = "pending"
    BY <1>5 DEF RefundFailedTransfer, Custody
  <2> QED BY <1>5, <2>1, BooksMove DEF RefundFailedTransfer, SetStatus, Open
<1> QED BY <1>1, <1>2, <1>3, <1>4, <1>5 DEF Request

(* The steps of an admin keep the books.                                   *)
LEMMA DecideBooks ==
  ASSUME TypeOK, TypeOK', Custody, Books, NEW a \in Admins, Decide(a)
  PROVE  Books'
<1>1. ASSUME NEW w \in Withdrawal, Approve(a, w) PROVE Books'
  BY <1>1, BooksMove DEF Approve, SetStatus, Open
<1>2. ASSUME NEW w \in Withdrawal, Reject(a, w) PROVE Books'
  BY <1>2, BooksMove DEF Reject, Rejectable, SetStatus, Open
<1>3. ASSUME NEW w \in Withdrawal, MarkSent(a, w) PROVE Books'
  BY <1>3, BooksMove DEF MarkSent, SetStatus, Open
<1>4. CASE FinishApproval(a)
  <2>1. deciding[a] \in Withdrawal /\ status[deciding[a]] = "approved"
    BY <1>4 DEF FinishApproval, Custody, TypeOK
  <2> QED BY <1>4, <2>1, BooksMove DEF FinishApproval, SetStatus, Open
<1>5. CASE AbandonApproval(a)
  BY <1>5, BooksSame DEF AbandonApproval, balance, row
<1> QED BY <1>1, <1>2, <1>3, <1>4, <1>5 DEF Decide

(* The commit of the sweep: what it takes off the locked column is what    *)
(* the rows it settles added to it.                                        *)
LEMMA SweepCommitBooks ==
  ASSUME TypeOK, TypeOK', Custody, Books, SweepCommit
  PROVE  Books'
<1> DEFINE open    == [w \in Withdrawal |-> IF status[w] \in Open THEN size[w] ELSE 0]
           still   == [w \in Withdrawal |-> IF status'[w] \in Open THEN size'[w] ELSE 0]
           sent    == [w \in Withdrawal |-> IF status[w] \in {"sent"} THEN size[w] ELSE 0]
           sentNow == [w \in Withdrawal |-> IF status'[w] \in {"sent"} THEN size'[w] ELSE 0]
           any     == [w \in Withdrawal |-> IF sweep.marks[w] \in Settled THEN size[w] ELSE 0]
           out     == [w \in Withdrawal |-> IF sweep.marks[w] \in {"sent"} THEN size[w] ELSE 0]
           back    == [w \in Withdrawal |-> IF sweep.marks[w] \in {"rejected"} THEN size[w] ELSE 0]
           N       == NWithdrawals
<1>1. N \in Nat
  BY WithdrawalsAssumption
<1>2. /\ open \in [1..N -> Int] /\ still \in [1..N -> Int]
      /\ sent \in [1..N -> Int] /\ sentNow \in [1..N -> Int]
      /\ any \in [1..N -> Int] /\ out \in [1..N -> Int] /\ back \in [1..N -> Int]
  BY DEF TypeOK, Withdrawal
<1>3. ASSUME NEW w \in 1..N
      PROVE  /\ open[w] = still[w] + any[w]
             /\ sentNow[w] = sent[w] + out[w]
             /\ any[w] = out[w] + back[w]
  <2>1. /\ w \in Withdrawal /\ size[w] \in Nat /\ size'[w] = size[w]
        /\ sweep.marks[w] \in {"none", "sent", "rejected"}
    BY <1>3 DEF Withdrawal, TypeOK, Settled, SweepCommit
  <2>2. status'[w] = IF sweep.marks[w] = "none" THEN status[w] ELSE sweep.marks[w]
    BY <2>1 DEF SweepCommit, RowFree
  <2>3. sweep.marks[w] # "none" => status[w] = "pending"
    BY <2>1 DEF Custody, InSweep
  <2>4. CASE sweep.marks[w] = "none"
    BY <2>1, <2>2, <2>4 DEF Open, Settled
  <2>5. CASE sweep.marks[w] = "sent"
    BY <2>1, <2>2, <2>3, <2>5 DEF Open, Settled
  <2>6. CASE sweep.marks[w] = "rejected"
    BY <2>1, <2>2, <2>3, <2>6 DEF Open, Settled
  <2> QED BY <2>1, <2>4, <2>5, <2>6
<1>4. /\ SumOf(Open) = Total(open, N) /\ SumOf(Open)' = Total(still, N)
      /\ SumOf({"sent"}) = Total(sent, N) /\ SumOf({"sent"})' = Total(sentNow, N)
      /\ MarkedAny = Total(any, N)
      /\ Marked({"rejected"}) = Total(back, N)
  BY DEF SumOf, MarkedAny, Marked
<1> HIDE DEF open, still, sent, sentNow, any, out, back, N
<1>5. Total(open, N) = Total(still, N) + Total(any, N)
  <2>1. \A w \in 1..N : open[w] = still[w] + any[w]
    BY <1>3
  <2> QED BY <1>1, <1>2, <2>1, TotalPlus
<1>6. Total(sentNow, N) = Total(sent, N) + Total(out, N)
  <2>1. \A w \in 1..N : sentNow[w] = sent[w] + out[w]
    BY <1>3
  <2> QED BY <1>1, <1>2, <2>1, TotalPlus
<1>7. Total(any, N) = Total(out, N) + Total(back, N)
  <2>1. \A w \in 1..N : any[w] = out[w] + back[w]
    BY <1>3
  <2> QED BY <1>1, <1>2, <2>1, TotalPlus
<1>8. /\ Total(open, N) \in Nat /\ Total(still, N) \in Nat
      /\ Total(sent, N) \in Nat /\ Total(any, N) \in Nat
      /\ Total(back, N) \in Nat /\ Total(out, N) \in Int
  <2>1. SumOf(Open) \in Nat /\ SumOf({"sent"}) \in Nat /\ SumOf(Open)' \in Nat
    BY SumType, SumTypeAfter
  <2>2. MarkedAny \in Nat /\ Marked({"rejected"}) \in Nat
    BY MarkedType DEF MarkedAny
  <2> QED BY <1>1, <1>2, <1>4, <2>1, <2>2, TotalType
<1>9. /\ amount \in Nat /\ locked \in Nat /\ Bound \in Nat /\ Funds \in Nat
      /\ locked = Bound + Total(open, N)
      /\ amount + locked + Total(sent, N) = Funds + Bound
      /\ locked' = AtLeastZero(locked - Total(any, N))
      /\ amount' = amount + Total(back, N)
  BY <1>4, WithdrawalsAssumption
  DEF TypeOK, Books, LockedBacked, NothingLost, SweepCommit
<1>10. locked' = Bound + Total(still, N)
  BY <1>5, <1>8, <1>9 DEF AtLeastZero
<1>11. amount' + locked' + Total(sentNow, N) = Funds + Bound
  BY <1>5, <1>6, <1>7, <1>8, <1>9, <1>10
<1> QED BY <1>4, <1>10, <1>11 DEF Books, LockedBacked, NothingLost

(* The steps of the sweep keep the books.                                  *)
LEMMA SweepRunBooks ==
  ASSUME TypeOK, TypeOK', Custody, Books, SweepRun
  PROVE  Books'
<1>1. CASE SweepCommit
  BY <1>1, SweepCommitBooks
<1>2. CASE ~SweepCommit
  BY <1>2, BooksSame
  DEF SweepRun, SweepStart, SweepAsk, SweepSkip, SweepApply, SweepAbort,
      balance, row
<1> QED BY <1>1, <1>2

(* The books are right in every reachable state.                           *)
LEMMA BooksRight == OneHandSpec => [](Guarded /\ Books)
<1>1. HandInit => Guarded /\ Books
  <2> SUFFICES ASSUME HandInit PROVE Guarded /\ Books
    OBVIOUS
  <2>0. Init
    BY DEF HandInit
  <2>1. TypeOK
    BY <2>0, InitTypes
  <2>2. \A S : "none" \notin S => SumOf(S) = 0
    <3> SUFFICES ASSUME NEW S, "none" \notin S PROVE SumOf(S) = 0
      OBVIOUS
    <3> DEFINE f == [w \in Withdrawal |-> IF status[w] \in S THEN size[w] ELSE 0]
    <3>1. /\ NWithdrawals \in Nat /\ f \in [1..NWithdrawals -> Int]
          /\ \A w \in 1..NWithdrawals : f[w] = 0
      BY <2>0, WithdrawalsAssumption DEF Init, Withdrawal
    <3>2. SumOf(S) = Total(f, NWithdrawals)
      BY DEF SumOf
    <3> HIDE DEF f
    <3> QED BY <3>1, <3>2, TotalZero
  <2>3. SumOf(Open) = 0 /\ SumOf({"sent"}) = 0
    BY <2>2 DEF Open
  <2>4. Books
    BY <2>0, <2>3, WithdrawalsAssumption DEF Init, Books, LockedBacked, NothingLost
  <2> QED BY <2>1, <2>4, InitCustody DEF Guarded
<1>2. ASSUME Guarded /\ Books, [HandNext]_<<vars, hand>> PROVE (Guarded /\ Books)'
  <2>1. Guarded' /\ [Next]_vars
    BY <1>2, GuardedStep
  <2>2. Books'
    <3>1. CASE Next
      BY <1>2, <2>1, <3>1, RequestBooks, DecideBooks, SweepRunBooks
      DEF Next, Guarded
    <3>2. CASE UNCHANGED vars
      BY <1>2, <3>2, BooksSame DEF vars, balance, row
    <3> QED BY <2>1, <3>1, <3>2
  <2> QED BY <2>1, <2>2
<1> QED BY <1>1, <1>2, PTL DEF OneHandSpec

(* With one decider at a time the locked column is exactly the pots of the *)
(* deals and the open withdrawals: no withdrawal is unlocked twice or left *)
(* locked, however answers, timeouts, crashes and aborted sweeps fall.     *)
THEOREM LockedIsBacked == OneHandSpec => []LockedBacked
<1>1. Guarded /\ Books => LockedBacked
  BY DEF Books
<1> QED BY <1>1, BooksRight, PTL

(* With one decider at a time no money of the user is lost or created.     *)
THEOREM NothingIsLost == OneHandSpec => []NothingLost
<1>1. Guarded /\ Books => NothingLost
  BY DEF Books
<1> QED BY <1>1, BooksRight, PTL

-----------------------------------------------------------------------------
(* Settled rows.                                                           *)

(* No step of a decider that is alone changes the status of a settled row. *)
LEMMA SettledStep ==
  ASSUME Guarded, [Next]_vars, NEW w \in Withdrawal, status[w] \in Settled
  PROVE  status'[w] = status[w]
<1> USE DEF Settled
<1>1. ASSUME NEW v \in Withdrawal, NEW s, SetStatus(v, s), v # w
      PROVE  status'[w] = status[w]
  BY <1>1 DEF SetStatus, Guarded, TypeOK
<1>2. ASSUME NEW v \in Withdrawal, Request(v) PROVE status'[w] = status[w]
  <2>1. CASE \E x \in Amounts, auto \in AutoModes, admin \in AdminPresence :
               CreateWithdrawal(v, x, auto, admin)
    BY <1>1, <2>1 DEF CreateWithdrawal, IsNext
  <2>2. CASE CompleteTransfer(v)
    BY <1>1, <2>2 DEF CompleteTransfer, StillPending
  <2>3. CASE RefundFailedTransfer(v)
    <3>1. status[v] = "pending"
      BY <2>3 DEF RefundFailedTransfer, Guarded, Custody
    <3> QED BY <1>1, <2>3, <3>1 DEF RefundFailedTransfer
  <2>4. CASE Deliver(v) \/ AbandonTransfer(v)
    BY <2>4 DEF Deliver, AbandonTransfer, row
  <2> QED BY <1>2, <2>1, <2>2, <2>3, <2>4 DEF Request
<1>3. ASSUME NEW a \in Admins, Decide(a) PROVE status'[w] = status[w]
  <2>1. ASSUME NEW v \in Withdrawal, Approve(a, v) \/ Reject(a, v) \/ MarkSent(a, v)
        PROVE  status'[w] = status[w]
    BY <1>1, <2>1 DEF Approve, Reject, MarkSent, Rejectable
  <2>2. CASE FinishApproval(a)
    <3>1. deciding[a] \in Withdrawal /\ status[deciding[a]] = "approved"
      BY <2>2 DEF FinishApproval, Guarded, Custody, TypeOK
    <3> QED BY <1>1, <2>2, <3>1 DEF FinishApproval
  <2>3. CASE AbandonApproval(a)
    BY <2>3 DEF AbandonApproval, row
  <2> QED BY <1>3, <2>1, <2>2, <2>3 DEF Decide
<1>4. CASE SweepRun
  <2>1. CASE SweepCommit
    BY <2>1 DEF SweepCommit, RowFree, Guarded, Custody, InSweep, TypeOK
  <2>2. CASE ~SweepCommit
    BY <1>4, <2>2
    DEF SweepRun, SweepStart, SweepAsk, SweepSkip, SweepApply, SweepAbort, row
  <2> QED BY <2>1, <2>2
<1>5. CASE UNCHANGED vars
  BY <1>5 DEF vars, row
<1> QED BY <1>2, <1>3, <1>4, <1>5 DEF Next

(* With one decider at a time a withdrawal that is sent or rejected stays  *)
(* so, whoever answers late.                                               *)
THEOREM SettledStaysSettled == OneHandSpec => SettledIsFinal
<1>1. Guarded /\ [HandNext]_<<vars, hand>> =>
        [\A w \in Withdrawal : status[w] \in Settled => status'[w] = status[w]]_vars
  BY GuardedStep, SettledStep
<1>2. OneHandSpec => []Guarded
  <2>1. Guarded /\ Books => Guarded
    OBVIOUS
  <2> QED BY <2>1, BooksRight, PTL
<1> QED BY <1>1, <1>2, PTL DEF OneHandSpec, SettledIsFinal

-----------------------------------------------------------------------------
(* What is booked is what CryptoBot did, while no admin is at work.        *)

(* A call is about a pending row; what the sweep has read of the transfers *)
(* of its rows is still so when it commits.                                *)
Informed ==
  /\ \A w \in calling : status[w] = "pending"
  /\ \A w \in delivered : status[w] # "none"
  /\ sweep.asked # None => (sweep.landed <=> sweep.asked \in delivered)
  /\ \A w \in Withdrawal : sweep.marks[w] = "sent" => w \in delivered
  /\ \A w \in Withdrawal : sweep.marks[w] = "rejected" => w \notin delivered

(* The steps of the request keep it.                                       *)
LEMMA RequestInformed ==
  ASSUME hand = "sweep", Guarded, Informed, SettledAsDelivered,
         NEW w \in Withdrawal, Request(w)
  PROVE  Informed' /\ SettledAsDelivered'
<1>0. /\ calling \subseteq Withdrawal /\ delivered \subseteq Withdrawal
      /\ sweep.asked # None => sweep.asked \in InSweep
      /\ \A v \in Withdrawal : sweep.marks[v] # "none" => v \in InSweep
  BY DEF Guarded, TypeOK, InSweep
<1>1. ASSUME NEW s, SetStatus(w, s)
      PROVE  status'[w] = s /\ \A v \in Withdrawal \ {w} : status'[v] = status[v]
  BY <1>1 DEF SetStatus, Guarded, TypeOK
<1>2. ASSUME NEW x \in Amounts, NEW auto \in AutoModes, NEW admin \in AdminPresence,
             CreateWithdrawal(w, x, auto, admin)
      PROVE  Informed' /\ SettledAsDelivered'
  <2>1. /\ status[w] = "none" /\ SetStatus(w, "pending")
        /\ calling' \subseteq calling \cup {w}
        /\ unattended \subseteq unattended'
        /\ UNCHANGED <<delivered, sweep>>
    BY <1>2 DEF CreateWithdrawal, IsNext
  <2>2. Informed'
    BY <1>0, <1>1, <2>1 DEF Informed
  <2>3. SettledAsDelivered'
    BY <1>1, <2>1 DEF SettledAsDelivered
  <2> QED BY <2>2, <2>3
<1>3. CASE Deliver(w)
  <2>1. /\ w \in calling /\ status[w] = "pending" /\ w \notin InSweep
        /\ delivered' = delivered \cup {w}
        /\ UNCHANGED <<status, unattended, calling, sweep>>
    <3>1. w \in Withdrawal /\ 0 \notin Withdrawal
      BY DEF Withdrawal
    <3>2. \A a \in Admins : deciding[a] # w
      BY <3>1 DEF Guarded, Custody, None
    <3> QED BY <1>3, <3>2 DEF Deliver, Informed, Guarded, Custody, row, calls
  <2>2. Informed'
    BY <1>0, <2>1 DEF Informed
  <2>3. SettledAsDelivered'
    BY <2>1 DEF SettledAsDelivered
  <2> QED BY <2>2, <2>3
<1>4. CASE CompleteTransfer(w)
  <2>1. /\ w \in delivered /\ w \in calling /\ calling' = calling \ {w}
        /\ StillPending(w) => SetStatus(w, "sent")
        /\ ~StillPending(w) => status' = status
        /\ UNCHANGED <<unattended, delivered, sweep>>
    BY <1>4 DEF CompleteTransfer
  <2>2. /\ status'[w] = "sent"
        /\ \A v \in Withdrawal \ {w} : status'[v] = status[v]
    BY <1>1, <2>1 DEF Informed, StillPending
  <2>3. Informed'
    BY <1>0, <2>1, <2>2 DEF Informed
  <2>4. SettledAsDelivered'
    BY <2>1, <2>2 DEF SettledAsDelivered
  <2> QED BY <2>3, <2>4
<1>5. CASE AbandonTransfer(w)
  BY <1>5 DEF AbandonTransfer, Informed, SettledAsDelivered, row
<1>6. CASE RefundFailedTransfer(w)
  <2>1. /\ w \in unattended /\ calling' = calling \ {w}
        /\ SetStatus(w, "rejected")
        /\ UNCHANGED <<unattended, delivered, sweep>>
    BY <1>6 DEF RefundFailedTransfer
  <2>2. Informed'
    BY <1>0, <1>1, <2>1 DEF Informed
  <2>3. SettledAsDelivered'
    BY <1>1, <2>1 DEF SettledAsDelivered
  <2> QED BY <2>2, <2>3
<1> QED BY <1>2, <1>3, <1>4, <1>5, <1>6 DEF Request

(* The steps of the sweep keep it.                                         *)
LEMMA SweepRunInformed ==
  ASSUME Guarded, Informed, SettledAsDelivered, SweepRun
  PROVE  Informed' /\ SettledAsDelivered'
<1>1. ASSUME UNCHANGED <<status, unattended, calling, delivered>>,
             sweep'.asked # None => (sweep'.landed <=> sweep'.asked \in delivered),
             \A w \in Withdrawal :
               /\ sweep'.marks[w] = "sent" => w \in delivered
               /\ sweep'.marks[w] = "rejected" => w \notin delivered
      PROVE  Informed' /\ SettledAsDelivered'
  BY <1>1 DEF Informed, SettledAsDelivered
<1>2. CASE SweepStart \/ SweepAbort
  <2>1. sweep'.asked = None /\ \A w \in Withdrawal : sweep'.marks[w] = "none"
    <3>1. CASE SweepStart
      BY <3>1 DEF SweepStart, Idle
    <3>2. CASE SweepAbort
      BY <3>2 DEF SweepAbort, Idle
    <3> QED BY <1>2, <3>1, <3>2
  <2>2. UNCHANGED <<status, unattended, calling, delivered>>
    BY <1>2 DEF SweepStart, SweepAbort, row, calls
  <2> QED BY <1>1, <2>1, <2>2
<1>3. ASSUME NEW w \in Withdrawal, SweepAsk(w) PROVE Informed' /\ SettledAsDelivered'
  <2>1. /\ sweep'.asked = w /\ sweep'.marks = sweep.marks
        /\ sweep'.landed = (w \in delivered)
    BY <1>3 DEF SweepAsk, Guarded, TypeOK
  <2>2. UNCHANGED <<status, unattended, calling, delivered>>
    BY <1>3 DEF SweepAsk, row, calls
  <2> QED BY <1>1, <2>1, <2>2 DEF Informed
<1>4. ASSUME NEW w \in Withdrawal, SweepSkip(w) PROVE Informed' /\ SettledAsDelivered'
  <2>1. /\ sweep'.asked = sweep.asked /\ sweep'.marks = sweep.marks
        /\ sweep'.landed = sweep.landed
    BY <1>4 DEF SweepSkip, Guarded, TypeOK
  <2>2. UNCHANGED <<status, unattended, calling, delivered>>
    BY <1>4 DEF SweepSkip, row, calls
  <2> QED BY <1>1, <2>1, <2>2 DEF Informed
<1>5. CASE SweepApply
  <2>1. /\ sweep.asked \in Withdrawal /\ sweep'.asked = None
        /\ sweep'.marks[sweep.asked] = Verdict(sweep.landed)
        /\ \A w \in Withdrawal : w # sweep.asked => sweep'.marks[w] = sweep.marks[w]
    BY <1>5 DEF SweepApply, Guarded, TypeOK
  <2>2. UNCHANGED <<status, unattended, calling, delivered>>
    BY <1>5 DEF SweepApply, row, calls
  <2>3. sweep.landed <=> sweep.asked \in delivered
    BY <1>5 DEF SweepApply, Informed
  <2> QED BY <1>1, <2>1, <2>2, <2>3 DEF Informed, Verdict
<1>6. CASE SweepCommit
  <2>1. /\ sweep'.asked = None /\ \A w \in Withdrawal : sweep'.marks[w] = "none"
        /\ UNCHANGED <<unattended, calling, delivered>>
    BY <1>6 DEF SweepCommit, Idle, calls
  <2>2. ASSUME NEW w \in Withdrawal
        PROVE  status'[w] = IF sweep.marks[w] = "none" THEN status[w] ELSE sweep.marks[w]
    BY <1>6 DEF SweepCommit, RowFree
  <2>3. \A w \in Withdrawal : sweep.marks[w] \in {"none", "sent", "rejected"}
    BY DEF Guarded, TypeOK, Settled
  <2>4. \A w \in calling : w \in Withdrawal /\ sweep.marks[w] = "none"
    BY DEF Guarded, TypeOK, Custody, InSweep
  <2>5. delivered \subseteq Withdrawal
    BY DEF Guarded, TypeOK
  <2>6. Informed'
    BY <2>1, <2>2, <2>3, <2>4, <2>5 DEF Informed
  <2>7. SettledAsDelivered'
    BY <2>1, <2>2, <2>3 DEF Informed, SettledAsDelivered
  <2> QED BY <2>6, <2>7
<1> QED BY <1>2, <1>3, <1>4, <1>5, <1>6 DEF SweepRun

(* Where the sweep is the hand at work, the request and the sweep book     *)
(* every withdrawal as CryptoBot executed it, over lost answers, crashes   *)
(* between the commits and sweeps that are rolled back half way; only a    *)
(* withdrawal asked for without any admin may be both paid and refunded    *)
(* (create_withdrawal, sweep_stale_withdrawals).                           *)
THEOREM BookedAsDelivered == OneHandSpec => []SweptAsDelivered
<1> DEFINE Inv == Guarded /\ (hand = "sweep" => Informed /\ SettledAsDelivered)
<1>1. HandInit => Inv
  <2> SUFFICES ASSUME HandInit PROVE Inv
    OBVIOUS
  <2>1. Init
    BY DEF HandInit
  <2> QED BY <2>1, InitTypes, InitCustody
          DEF Guarded, Init, Informed, SettledAsDelivered, Idle
<1>2. ASSUME Inv, [HandNext]_<<vars, hand>> PROVE Inv'
  <2>1. Guarded'
    BY <1>2, GuardedStep
  <2>2. ASSUME hand' = "sweep" PROVE (Informed /\ SettledAsDelivered)'
    <3>1. hand = "sweep" /\ Guarded /\ Informed /\ SettledAsDelivered
      BY <1>2, <2>2 DEF HandNext
    <3>2. CASE HandNext
      <4>1. (\E w \in Withdrawal : Request(w)) \/ SweepRun
        BY <3>1, <3>2 DEF HandNext
      <4> QED BY <3>1, <4>1, RequestInformed, SweepRunInformed
    <3>3. CASE UNCHANGED <<vars, hand>>
      BY <3>1, <3>3 DEF vars, row, calls, Informed, SettledAsDelivered
    <3> QED BY <1>2, <3>2, <3>3
  <2> QED BY <2>1, <2>2
<1>3. Inv => SweptAsDelivered
  BY DEF SweptAsDelivered
<1> QED BY <1>1, <1>2, <1>3, PTL DEF OneHandSpec

-----------------------------------------------------------------------------
(* The promise: the desk implements PayoutPromise.                         *)

(* What is on hold for others is what it was, in a state whose books are   *)
(* right.                                                                  *)
LEMMA OthersAreBound ==
  ASSUME TypeOK, Books PROVE locked - SumOf(Open) = Bound
<1>1. SumOf(Open) \in Nat /\ Bound \in Nat
  BY SumType, WithdrawalsAssumption
<1> QED BY <1>1 DEF Books, LockedBacked

(* The same after a step.                                                  *)
LEMMA OthersStayBound ==
  ASSUME TypeOK, TypeOK', Books, Books'
  PROVE  locked' - SumOf(Open)' = locked - SumOf(Open)
<1>1. SumOf(Open)' \in Nat /\ Bound \in Nat
  BY SumTypeAfter, WithdrawalsAssumption
<1>2. locked' = Bound + SumOf(Open)'
  BY DEF Books, LockedBacked
<1>3. locked - SumOf(Open) = Bound
  BY OthersAreBound
<1> QED BY <1>1, <1>2, <1>3

(* What one withdrawal, or none, is worth.                                 *)
LEMMA WorthOfOne ==
  ASSUME TypeOK
  PROVE  /\ Promise!Worth({}) = 0
         /\ \A w \in Withdrawal : Promise!Worth({w}) = size[w]
<1> DEFINE zero == [v \in Withdrawal |-> IF v \in {} THEN size[v] ELSE 0]
           N == NWithdrawals
<1>1. N \in Nat /\ zero \in [1..N -> Int] /\ \A k \in 1..N : zero[k] = 0
  BY WithdrawalsAssumption DEF Withdrawal
<1>2. Promise!Worth({}) = Total(zero, N)
  BY DEF Promise!Worth, Promise!Withdrawal, Promise!Total, Total, Withdrawal
<1>3. ASSUME NEW w \in Withdrawal PROVE Promise!Worth({w}) = size[w]
  <2> DEFINE one == [v \in Withdrawal |-> IF v \in {w} THEN size[v] ELSE 0]
  <2>1. /\ one \in [1..N -> Int] /\ w \in 1..N /\ size[w] \in Nat
        /\ \A k \in 1..N : k # w => one[k] = zero[k]
        /\ one[w] = size[w] /\ zero[w] = 0
    BY DEF TypeOK, Withdrawal
  <2>2. Promise!Worth({w}) = Total(one, N)
    BY DEF Promise!Worth, Promise!Withdrawal, Promise!Total, Total, Withdrawal
  <2> HIDE DEF zero, one, N
  <2>3. Total(zero, N) = 0
    BY <1>1, TotalZero
  <2>4. Total(one, N) = Total(zero, N) + (one[w] - zero[w])
    BY <1>1, <2>1, TotalUpdate
  <2> QED BY <2>1, <2>2, <2>3, <2>4
<1> HIDE DEF zero, N
<1>4. Total(zero, N) = 0
  BY <1>1, TotalZero
<1> QED BY <1>2, <1>3, <1>4

(* A step that changes neither balance nor rows is none of the promise.    *)
LEMMA PromiseSame ==
  ASSUME UNCHANGED <<amount, locked, status, size>>
  PROVE  UNCHANGED Promise!vars
BY DEF Promise!vars, SumOf, Fate

(* The request is the user's asking.                                       *)
LEMMA AskPromised ==
  ASSUME TypeOK, TypeOK', Books, Books', NEW w \in Withdrawal,
         NEW x \in Amounts, NEW auto \in AutoModes, NEW admin \in AdminPresence,
         CreateWithdrawal(w, x, auto, admin)
  PROVE  Promise!Ask(w)
<1>1. /\ status[w] = "none" /\ status' = [status EXCEPT ![w] = "pending"]
      /\ size' = [size EXCEPT ![w] = x]
      /\ x <= amount /\ amount' = amount - x
  BY DEF CreateWithdrawal, IsNext, SetStatus, Covered
<1>2. x \in Nat /\ x > 0
  BY WithdrawalsAssumption
<1>3. Fate[w] = "none" /\ Fate' = [Fate EXCEPT ![w] = "held"]
  BY <1>1 DEF Fate, Open, TypeOK
<1>4. size'[w] = x
  BY <1>1 DEF TypeOK
<1>5. locked' - SumOf(Open)' = locked - SumOf(Open)
  BY OthersStayBound
<1> QED BY <1>1, <1>2, <1>3, <1>4, <1>5 DEF Promise!Ask

(* A row that leaves the open statuses ends its withdrawal; between them   *)
(* the user sees nothing.                                                  *)
LEMMA MovePromised ==
  ASSUME TypeOK, TypeOK', Books, Books', NEW w \in Withdrawal,
         status[w] \in Open,
         size' = size, NEW s, status' = [status EXCEPT ![w] = s],
         \/ s \in Open /\ UNCHANGED balance
         \/ s = "sent" /\ PayOut(size[w])
         \/ s = "rejected" /\ GiveBack(size[w])
  PROVE  [Promise!Next]_(Promise!vars)
<1>1. locked' - SumOf(Open)' = locked - SumOf(Open)
  BY OthersStayBound
<1>2. Fate[w] = "held" /\ {w} \in SUBSET Promise!Withdrawal /\ {} \in SUBSET Promise!Withdrawal
  BY DEF Fate, Promise!Withdrawal, Withdrawal
<1>3. ASSUME NEW v \in Withdrawal
      PROVE  status'[v] = IF v = w THEN s ELSE status[v]
  BY DEF TypeOK
<1>4. CASE s \in Open /\ UNCHANGED balance
  <2>1. Fate' = Fate
    BY <1>3, <1>4 DEF Fate
  <2> QED BY <1>1, <1>4, <2>1 DEF Promise!vars, balance
<1>5. CASE s = "sent" /\ PayOut(size[w])
  <2>1. Fate' = [v \in Promise!Withdrawal |-> IF v \in {w} THEN "paid"
                                    ELSE IF v \in {} THEN "returned"
                                    ELSE Fate[v]]
    BY <1>3, <1>5 DEF Fate, Open, Promise!Withdrawal, Withdrawal
  <2>2. amount' = amount + Promise!Worth({})
    BY <1>5, WorthOfOne DEF PayOut, TypeOK
  <2>3. Promise!End({w}, {})
    BY <1>1, <1>2, <2>1, <2>2 DEF Promise!End
  <2> QED BY <1>2, <2>3 DEF Promise!Next
<1>6. CASE s = "rejected" /\ GiveBack(size[w])
  <2>1. Fate' = [v \in Promise!Withdrawal |-> IF v \in {} THEN "paid"
                                    ELSE IF v \in {w} THEN "returned"
                                    ELSE Fate[v]]
    BY <1>3, <1>6 DEF Fate, Open, Promise!Withdrawal, Withdrawal
  <2>2. amount' = amount + Promise!Worth({w})
    BY <1>6, WorthOfOne DEF GiveBack
  <2>3. Promise!End({}, {w})
    BY <1>1, <1>2, <2>1, <2>2 DEF Promise!End
  <2> QED BY <1>2, <2>3 DEF Promise!Next
<1> QED BY <1>4, <1>5, <1>6

(* The commit of the sweep ends all the withdrawals it has marked at once. *)
LEMMA CommitPromised ==
  ASSUME TypeOK, TypeOK', Custody, Books, Books', SweepCommit
  PROVE  Promise!Next
<1> DEFINE paid     == {w \in Withdrawal : sweep.marks[w] = "sent"}
           returned == {w \in Withdrawal : sweep.marks[w] = "rejected"}
<1>1. locked' - SumOf(Open)' = locked - SumOf(Open)
  BY OthersStayBound
<1>2. ASSUME NEW w \in Withdrawal
      PROVE  /\ status'[w] = IF sweep.marks[w] = "none" THEN status[w] ELSE sweep.marks[w]
             /\ sweep.marks[w] \in {"none", "sent", "rejected"}
             /\ sweep.marks[w] # "none" => status[w] = "pending"
  BY DEF SweepCommit, RowFree, TypeOK, Settled, Custody, InSweep
<1>3. \A w \in paid \cup returned : Fate[w] = "held"
  BY <1>2 DEF Fate, Open
<1>4. Fate' = [w \in Promise!Withdrawal |-> IF w \in paid THEN "paid"
                                  ELSE IF w \in returned THEN "returned"
                                  ELSE Fate[w]]
  BY <1>2 DEF Fate, Open, Promise!Withdrawal, Withdrawal
<1>5. Promise!Worth(returned) = Marked({"rejected"})
  <2> DEFINE back  == [w \in Withdrawal |-> IF sweep.marks[w] \in {"rejected"} THEN size[w] ELSE 0]
             worth == [w \in Withdrawal |-> IF w \in returned THEN size[w] ELSE 0]
  <2>1. worth = back
    OBVIOUS
  <2>2. Promise!Worth(returned) = Total(worth, NWithdrawals)
    BY DEF Promise!Worth, Promise!Withdrawal, Promise!Total, Total, Withdrawal
  <2>3. Marked({"rejected"}) = Total(back, NWithdrawals)
    BY DEF Marked
  <2> QED BY <2>1, <2>2, <2>3
<1>6. /\ paid \in SUBSET Promise!Withdrawal /\ returned \in SUBSET Promise!Withdrawal
      /\ paid \cap returned = {}
  BY DEF Promise!Withdrawal, Withdrawal
<1>7. amount' = amount + Promise!Worth(returned) /\ size' = size
  BY <1>5 DEF SweepCommit
<1> HIDE DEF paid, returned
<1>8. Promise!End(paid, returned)
  BY <1>1, <1>3, <1>4, <1>6, <1>7 DEF Promise!End
<1> QED BY <1>6, <1>8 DEF Promise!Next

(* Every step of the request is one of the promise, or none.               *)
LEMMA RequestPromised ==
  ASSUME TypeOK, TypeOK', Custody, Books, Books', NEW w \in Withdrawal, Request(w)
  PROVE  [Promise!Next]_(Promise!vars)
<1>1. ASSUME NEW x \in Amounts, NEW auto \in AutoModes, NEW admin \in AdminPresence,
             CreateWithdrawal(w, x, auto, admin)
      PROVE  [Promise!Next]_(Promise!vars)
  <2>1. Promise!Ask(w)
    BY <1>1, AskPromised
  <2> QED BY <2>1 DEF Promise!Next, Promise!Withdrawal, Withdrawal
<1>2. CASE CompleteTransfer(w)
  <2>1. CASE StillPending(w)
    BY <1>2, <2>1, MovePromised DEF CompleteTransfer, StillPending, SetStatus, Open
  <2>2. CASE ~StillPending(w)
    BY <1>2, <2>2, PromiseSame DEF CompleteTransfer, balance
  <2> QED BY <2>1, <2>2
<1>3. CASE RefundFailedTransfer(w)
  <2>1. status[w] = "pending"
    BY <1>3 DEF RefundFailedTransfer, Custody
  <2> QED BY <1>3, <2>1, MovePromised DEF RefundFailedTransfer, SetStatus, Open
<1>4. CASE Deliver(w) \/ AbandonTransfer(w)
  BY <1>4, PromiseSame DEF Deliver, AbandonTransfer, balance, row
<1> QED BY <1>1, <1>2, <1>3, <1>4 DEF Request

(* So is every step of an admin.                                           *)
LEMMA DecidePromised ==
  ASSUME TypeOK, TypeOK', Custody, Books, Books', NEW a \in Admins, Decide(a)
  PROVE  [Promise!Next]_(Promise!vars)
<1>1. ASSUME NEW w \in Withdrawal, Approve(a, w) PROVE [Promise!Next]_(Promise!vars)
  BY <1>1, MovePromised DEF Approve, SetStatus, Open
<1>2. ASSUME NEW w \in Withdrawal, Reject(a, w) PROVE [Promise!Next]_(Promise!vars)
  BY <1>2, MovePromised DEF Reject, Rejectable, SetStatus, Open
<1>3. ASSUME NEW w \in Withdrawal, MarkSent(a, w) PROVE [Promise!Next]_(Promise!vars)
  BY <1>3, MovePromised DEF MarkSent, SetStatus, Open
<1>4. CASE FinishApproval(a)
  <2>1. deciding[a] \in Withdrawal /\ status[deciding[a]] = "approved"
    BY <1>4 DEF FinishApproval, Custody, TypeOK
  <2> QED BY <1>4, <2>1, MovePromised DEF FinishApproval, SetStatus, Open
<1>5. CASE AbandonApproval(a)
  BY <1>5, PromiseSame DEF AbandonApproval, balance, row
<1> QED BY <1>1, <1>2, <1>3, <1>4, <1>5 DEF Decide

(* And every step of the sweep.                                            *)
LEMMA SweepRunPromised ==
  ASSUME TypeOK, TypeOK', Custody, Books, Books', SweepRun
  PROVE  [Promise!Next]_(Promise!vars)
<1>1. CASE SweepCommit
  BY <1>1, CommitPromised
<1>2. CASE ~SweepCommit
  BY <1>2, PromiseSame
  DEF SweepRun, SweepStart, SweepAsk, SweepSkip, SweepApply, SweepAbort,
      balance, row
<1> QED BY <1>1, <1>2

(* What create_withdrawal, decide_withdrawal and sweep_stale_withdrawals   *)
(* do in several transactions around calls to CryptoBot, the user sees as  *)
(* one payout desk that keeps PayoutPromise, for every number of           *)
(* withdrawals, every balance and every pot in the locked column, over     *)
(* timeouts, crashes and sweeps that are rolled back.                      *)
THEOREM PayoutsKeptPromise == OneHandSpec => PayoutsKeepPromise
<1>1. HandInit => Promise!Init
  <2> SUFFICES ASSUME HandInit PROVE Promise!Init
    OBVIOUS
  <2>0. Init
    BY DEF HandInit
  <2>1. TypeOK
    BY <2>0, InitTypes
  <2>2. SumOf(Open) = 0
    <3> DEFINE f == [w \in Withdrawal |-> IF status[w] \in Open THEN size[w] ELSE 0]
    <3>1. /\ NWithdrawals \in Nat /\ f \in [1..NWithdrawals -> Int]
          /\ \A w \in 1..NWithdrawals : f[w] = 0
      BY <2>0, WithdrawalsAssumption DEF Init, Withdrawal
    <3>2. SumOf(Open) = Total(f, NWithdrawals)
      BY DEF SumOf
    <3> HIDE DEF f
    <3> QED BY <3>1, <3>2, TotalZero
  <2>3. locked - SumOf(Open) = Bound
    BY <2>0, <2>2, WithdrawalsAssumption DEF Init
  <2> QED BY <2>0, <2>3
          DEF Init, Fate, Open, Promise!Init, Promise!Withdrawal, Withdrawal
<1>2. ASSUME Guarded, Books, Guarded', Books', [HandNext]_<<vars, hand>>
      PROVE  [Promise!Next]_(Promise!vars)
  <2>1. TypeOK /\ TypeOK' /\ Custody /\ [Next]_vars
    BY <1>2, GuardedStep DEF Guarded
  <2>2. CASE Next
    BY <1>2, <2>1, <2>2, RequestPromised, DecidePromised, SweepRunPromised DEF Next
  <2>3. CASE UNCHANGED vars
    BY <2>3, PromiseSame DEF vars, balance, row
  <2> QED BY <2>1, <2>2, <2>3
<1> QED BY <1>1, <1>2, BooksRight, PTL DEF OneHandSpec, PayoutsKeepPromise, Promise!Spec
=============================================================================
