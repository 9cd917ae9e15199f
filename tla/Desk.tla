-------------------------------- MODULE Desk --------------------------------
(***************************************************************************)
(* What the admins and arbiters decide about one disputed or running deal: *)
(* forced moves of its money, the second admin's approval of large ones,   *)
(* and who works on the dispute (routers/admin/deals.py,                   *)
(* routers/admin/arbitration.py, services_deals.resolve_arbitration).      *)
(*                                                                         *)
(* A forced move holds the deal's row, an answer to an approval request    *)
(* holds the request's; the two are not held together before the request   *)
(* is spent.  Which balances move is modelled in Escrow.                   *)
(***************************************************************************)
EXTENDS Integers

CONSTANTS Admins,     \* who is or was an admin
          Arbiters,   \* arbiters that are no admins
          Moves,      \* a forced action together with its payload
          Approvals   \* rows that can be inserted

VARIABLES phase,      \* the deal
          arbiter,    \* arbitration_resolved_by
          inUsd,      \* its amount by the rate of the currency
          office,     \* the admins of this moment
          approval,   \* admin_approval_requests
          asked, agreed,  \* observer: who asked for and who approved each
          spent       \* observer: how the deal was forced, if it was

vars == <<phase, arbiter, inUsd, office, approval, asked, agreed, spent>>

None == "none"
NoRow == [move |-> None, status |-> None, by |-> None, approver |-> None]
NotForced == [move |-> None, large |-> FALSE]

Init ==
  /\ phase = "active" /\ arbiter = None /\ inUsd \in {"low", "high", "unknown"}
  /\ office = Admins /\ approval = [i \in Approvals |-> NoRow]
  /\ asked = [i \in Approvals |-> None] /\ agreed = asked /\ spent = NotForced

(* _estimate_usd: without a rate nothing shows that the amount is small.   *)
RequiresApproval == inUsd # "low"

(* A pending request of the same move is used again.                       *)
Ask(a, m) ==
  /\ a \in office /\ phase \in {"active", "arbitration"} /\ RequiresApproval
  /\ \A i \in Approvals : approval[i].status = "pending" => approval[i].move # m
  /\ \E i \in Approvals :
       /\ approval[i] = NoRow
       /\ approval' = [approval EXCEPT ![i] =
            [move |-> m, status |-> "pending", by |-> a, approver |-> None]]
       /\ asked' = [asked EXCEPT ![i] = a]
  /\ UNCHANGED <<phase, arbiter, inUsd, office, agreed, spent>>

(* Mutant: whoever asked may approve.                                      *)
AnyAdmin(i, a) == TRUE

SecondAdmin(i, a) == approval[i].by # a

Approve(i, a) ==
  /\ a \in office /\ approval[i].status = "pending" /\ SecondAdmin(i, a)
  /\ approval' = [approval EXCEPT ![i].status = "approved", ![i].approver = a]
  /\ agreed' = [agreed EXCEPT ![i] = a]
  /\ UNCHANGED <<phase, arbiter, inUsd, office, asked, spent>>

Reject(i, a) ==
  /\ a \in office /\ approval[i].status = "pending"
  /\ approval' = [approval EXCEPT ![i].status = "rejected"]
  /\ UNCHANGED <<phase, arbiter, inUsd, office, asked, agreed, spent>>

(* Mutant: the payload is not compared.                                    *)
MatchesAnyMove(i, a, m) ==
  /\ approval[i].status = "approved"
  /\ ~(approval[i].by = a /\ approval[i].approver = None)

(* The request named in the body is looked at only if one is required; the *)
(* rate of this moment decides.                                            *)
Matches(i, a, m) ==
  /\ approval[i].status = "approved" /\ approval[i].move = m
  /\ ~(approval[i].by = a /\ approval[i].approver = None)

Force(a, m) ==
  /\ a \in office /\ phase \in {"active", "arbitration"}
  /\ IF RequiresApproval
     THEN \E i \in Approvals :
            Matches(i, a, m) /\ approval' = [approval EXCEPT ![i].status = "executed"]
     ELSE UNCHANGED approval
  /\ phase' = "closed" /\ arbiter' = a /\ spent' = [move |-> m, large |-> RequiresApproval]
  /\ UNCHANGED <<inUsd, office, asked, agreed>>

(* upsert_currency_rate; a rate is changed but never removed.              *)
SetRate(estimate) ==
  /\ inUsd' = estimate
  /\ UNCHANGED <<phase, arbiter, office, approval, asked, agreed, spent>>

(* start_arbitration, force_arbitration                                    *)
Dispute ==
  /\ phase = "active" /\ phase' = "arbitration"
  /\ UNCHANGED <<arbiter, inUsd, office, approval, asked, agreed, spent>>

(* The parties end the deal.                                               *)
EndedByParties ==
  /\ phase = "active" /\ phase' = "closed"
  /\ UNCHANGED <<arbiter, inUsd, office, approval, asked, agreed, spent>>

(* UPDATE ... WHERE arbitration_resolved_by IS NULL                        *)
Claim(a) ==
  /\ phase = "arbitration" /\ arbiter = None /\ a \in office \cup Arbiters
  /\ arbiter' = a /\ UNCHANGED <<phase, inUsd, office, approval, asked, agreed, spent>>

Assign(a, b) ==
  /\ a \in office /\ phase = "arbitration" /\ b \in office \cup Arbiters \cup {None}
  /\ arbiter' = b /\ UNCHANGED <<phase, inUsd, office, approval, asked, agreed, spent>>

(* Any arbiter resolves, whoever claimed the dispute, whatever the amount. *)
Resolve(a) ==
  /\ phase = "arbitration" /\ a \in office \cup Arbiters
  /\ phase' = "closed" /\ arbiter' = a
  /\ UNCHANGED <<inUsd, office, approval, asked, agreed, spent>>

(* set_role, and the deletion of an account: ON DELETE SET NULL.           *)
Demote(a) ==
  /\ a \in office /\ office # {a} /\ office' = office \ {a}
  /\ UNCHANGED <<phase, arbiter, inUsd, approval, asked, agreed, spent>>

Forget(a) ==
  /\ a \notin office
  /\ approval' = [i \in Approvals |->
       [approval[i] EXCEPT !.by = IF @ = a THEN None ELSE @,
                           !.approver = IF @ = a THEN None ELSE @]]
  /\ UNCHANGED <<phase, arbiter, inUsd, office, asked, agreed, spent>>

Next ==
  \/ \E a \in Admins, m \in Moves : Ask(a, m) \/ Force(a, m)
  \/ \E i \in Approvals, a \in Admins : Approve(i, a) \/ Reject(i, a)
  \/ \E estimate \in {"low", "high"} : SetRate(estimate)
  \/ Dispute \/ EndedByParties
  \/ \E a \in Admins \cup Arbiters : Claim(a) \/ Resolve(a)
  \/ \E a \in Admins, b \in Admins \cup Arbiters \cup {None} : Assign(a, b)
  \/ \E a \in Admins : Demote(a) \/ Forget(a)

Spec == Init /\ [][Next]_vars

People == Admins \cup Arbiters \cup {None}

TypeOK ==
  /\ phase \in {"active", "arbitration", "closed"} /\ arbiter \in People
  /\ inUsd \in {"low", "high", "unknown"} /\ office \subseteq Admins
  /\ approval \in [Approvals ->
       [move : Moves \cup {None}, by : People, approver : People,
        status : {None, "pending", "approved", "rejected", "executed"}]]
  /\ asked \in [Approvals -> People] /\ agreed \in [Approvals -> People]
  /\ spent \in [move : Moves \cup {None}, large : BOOLEAN]

(* A forced move of an amount that is large, or of unknown worth, spent a  *)
(* request for exactly that move which two admins agreed on, whatever      *)
(* happened to the rate, to their roles and to their accounts in between   *)
(* (README.md:180, "Maker-checker threshold for admin force-release/       *)
(* refund/split").                                                         *)
LargeMovesSeconded ==
  spent.large =>
    \E i \in Approvals :
      /\ approval[i].status = "executed" /\ approval[i].move = spent.move
      /\ asked[i] # agreed[i] /\ {asked[i], agreed[i]} \subseteq Admins
=============================================================================
