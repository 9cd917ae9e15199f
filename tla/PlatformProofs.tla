--------------------------- MODULE PlatformProofs ---------------------------
(***************************************************************************)
(* The theorems about the parts of the server around the money, for any    *)
(* number of users, services, reviews, requests, recipients and processes. *)
(*                                                                         *)
(* Every section is about one part: what its steps keep (an inductive      *)
(* invariant, the lemma that the initial states satisfy it, a lemma for    *)
(* each action).  The last section puts them together.                     *)
(***************************************************************************)
EXTENDS MCPlatform, PinGateProofs, MoneyTheorems, FiniteSetTheorems, SequenceTheorems

-----------------------------------------------------------------------------
(* Desk: large moves.                                                      *)

(* A request that is still to be answered can only be approved by another  *)
(* admin than the one who asked: who asked is still on it, or has no       *)
(* account any more.                                                       *)
Signed(i) ==
  /\ approval[i].status # D!None => asked[i] \in Office
  /\ approval[i].status = "pending" => approval[i].by = asked[i] \/ asked[i] \notin office
  /\ approval[i].status \in {"approved", "executed"} =>
       agreed[i] \in Office /\ agreed[i] # asked[i]

Seconding == D!TypeOK /\ (\A i \in Approvals : Signed(i)) /\ LargeMovesSeconded

RequestRows == [move : Moves \cup {D!None}, by : D!People, approver : D!People,
                status : {D!None, "pending", "approved", "rejected", "executed"}]

LEMMA DeskTypes ==
  ASSUME Seconding
  PROVE  /\ approval \in [Approvals -> RequestRows]
         /\ asked \in [Approvals -> D!People] /\ agreed \in [Approvals -> D!People]
         /\ office \subseteq Office /\ phase \in {"active", "arbitration", "closed"}
         /\ arbiter \in D!People /\ inUsd \in {"low", "high", "unknown"}
         /\ forced \in [move : Moves \cup {D!None}, large : BOOLEAN]
         /\ D!None \in D!People /\ Office \subseteq D!People /\ Arbiters \subseteq D!People
         /\ \A i \in Approvals : Signed(i)
         /\ LargeMovesSeconded
BY DEF Seconding, D!TypeOK, RequestRows, D!People

LEMMA DeskInit == D!Init => Seconding
<1>1. SUFFICES ASSUME D!Init PROVE Seconding
  OBVIOUS
<1>2. D!NoRow \in RequestRows /\ D!NoRow.status = D!None
  BY DEF D!NoRow, RequestRows, D!People, D!None
<1>3. D!NotForced \in [move : Moves \cup {D!None}, large : BOOLEAN]
  BY DEF D!NotForced, D!None
<1>4. ~D!NotForced.large
  BY DEF D!NotForced
<1>5. approval \in [Approvals -> RequestRows] /\ \A i \in Approvals : approval[i].status = D!None
  BY <1>1, <1>2 DEF D!Init
<1>6. D!TypeOK
  BY <1>1, <1>3, <1>5 DEF D!Init, D!TypeOK, RequestRows, D!People
<1>7. \A i \in Approvals : Signed(i)
  BY <1>5 DEF Signed, D!None
<1>8. LargeMovesSeconded
  BY <1>1, <1>4 DEF D!Init, LargeMovesSeconded, D!LargeMovesSeconded
<1> QED
  BY <1>6, <1>7, <1>8 DEF Seconding

(* A step that changes at most one request, which has not been executed.   *)
LEMMA OneRequestAnswered ==
  ASSUME Seconding, NEW i \in Approvals, approval[i].status # "executed",
         \A j \in Approvals \ {i} :
           approval'[j] = approval[j] /\ asked'[j] = asked[j] /\ agreed'[j] = agreed[j],
         office' = office, forced' = forced, D!TypeOK', Signed(i)'
  PROVE  Seconding'
<1>1. ASSUME NEW j \in Approvals \ {i} PROVE Signed(j)'
  BY Zenon DEF Signed, Seconding
<1>2. LargeMovesSeconded'
  <2>1. SUFFICES ASSUME forced.large PROVE LargeMovesSeconded'
    BY DEF LargeMovesSeconded, D!LargeMovesSeconded
  <2>2. PICK j \in Approvals :
          /\ approval[j].status = "executed" /\ approval[j].move = forced.move
          /\ asked[j] # agreed[j] /\ {asked[j], agreed[j]} \subseteq Office
    BY <2>1 DEF Seconding, LargeMovesSeconded, D!LargeMovesSeconded
  <2>3. approval'[j] = approval[j] /\ asked'[j] = asked[j] /\ agreed'[j] = agreed[j]
    BY <2>2
  <2> QED
    BY <2>2, <2>3, Zenon DEF LargeMovesSeconded, D!LargeMovesSeconded
<1> QED
  BY <1>1, <1>2 DEF Seconding

LEMMA AskKeeps ==
  ASSUME Seconding, NEW a \in Office, NEW m \in Moves, D!Ask(a, m)
  PROVE  Seconding'
<1>1. PICK i \in Approvals :
        /\ approval[i] = D!NoRow
        /\ approval' = [approval EXCEPT ![i] =
             [move |-> m, status |-> "pending", by |-> a, approver |-> D!None]]
        /\ asked' = [asked EXCEPT ![i] = a]
  BY DEF D!Ask
<1> DEFINE new == [move |-> m, status |-> "pending", by |-> a, approver |-> D!None]
<1>2. /\ a \in office /\ UNCHANGED <<phase, arbiter, inUsd, office, agreed, forced>>
  BY DEF D!Ask
<1>3. new \in RequestRows /\ new.status = "pending" /\ new.by = a
  BY DeskTypes DEF RequestRows, D!None
<1> HIDE DEF new
<1>4. approval' \in [Approvals -> RequestRows] /\ asked' \in [Approvals -> D!People]
  BY <1>1, <1>3, DeskTypes DEF new
<1>5. D!TypeOK'
  BY <1>2, <1>4, DeskTypes DEF D!TypeOK, RequestRows, D!People
<1>6. approval'[i] = new /\ asked'[i] = a
  BY <1>1, DeskTypes DEF new
<1>7. Signed(i)'
  BY <1>3, <1>6 DEF Signed
<1>8. approval[i].status # "executed"
  BY <1>1 DEF D!NoRow, D!None
<1>9. \A j \in Approvals \ {i} :
           approval'[j] = approval[j] /\ asked'[j] = asked[j] /\ agreed'[j] = agreed[j]
  BY <1>1, <1>2, DeskTypes
<1> QED
  BY <1>2, <1>5, <1>7, <1>8, <1>9, OneRequestAnswered

LEMMA ApproveKeeps ==
  ASSUME Seconding, NEW a \in Office, NEW i \in Approvals, D!Approve(i, a)
  PROVE  Seconding'
<1>1. /\ a \in office /\ approval[i].status = "pending" /\ approval[i].by # a
      /\ agreed' = [agreed EXCEPT ![i] = a]
      /\ UNCHANGED <<phase, arbiter, inUsd, office, asked, forced>>
  BY DEF D!Approve, D!SecondAdmin
<1>2. PICK f : f = [approval EXCEPT ![i].status = "approved"]
  OBVIOUS
<1>3. approval' = [f EXCEPT ![i].approver = a]
  BY <1>2, DeskTypes DEF D!Approve
<1>4. /\ f \in [Approvals -> RequestRows] /\ \A j \in Approvals \ {i} : f[j] = approval[j]
      /\ f[i].status = "approved"
  BY <1>2, DeskTypes DEF RequestRows
<1>5. /\ approval' \in [Approvals -> RequestRows]
      /\ \A j \in Approvals \ {i} : approval'[j] = f[j]
      /\ approval'[i].status = "approved"
  BY <1>3, <1>4, DeskTypes DEF RequestRows
<1>6. agreed' \in [Approvals -> D!People] /\ agreed'[i] = a
      /\ \A j \in Approvals \ {i} : agreed'[j] = agreed[j]
  BY <1>1, DeskTypes
<1>7. D!TypeOK'
  BY <1>1, <1>5, <1>6, DeskTypes DEF D!TypeOK, RequestRows, D!People
<1>8. asked[i] \in Office /\ asked[i] # a
  BY <1>1, DeskTypes DEF Signed, D!None
<1>9. Signed(i)'
  BY <1>1, <1>5, <1>6, <1>8 DEF Signed
<1> QED
  BY <1>1, <1>4, <1>5, <1>6, <1>7, <1>9, OneRequestAnswered

LEMMA RejectKeeps ==
  ASSUME Seconding, NEW a \in Office, NEW i \in Approvals, D!Reject(i, a)
  PROVE  Seconding'
<1>1. /\ approval[i].status = "pending"
      /\ approval' = [approval EXCEPT ![i].status = "rejected"]
      /\ UNCHANGED <<phase, arbiter, inUsd, office, asked, agreed, forced>>
  BY DEF D!Reject
<1>2. /\ approval' \in [Approvals -> RequestRows]
      /\ \A j \in Approvals \ {i} : approval'[j] = approval[j]
      /\ approval'[i].status = "rejected"
  BY <1>1, DeskTypes DEF RequestRows
<1>3. D!TypeOK'
  BY <1>1, <1>2, DeskTypes DEF D!TypeOK, RequestRows, D!People
<1>4. Signed(i)'
  BY <1>1, <1>2, DeskTypes DEF Signed, D!None
<1> QED
  BY <1>1, <1>2, <1>3, <1>4, OneRequestAnswered

(* A forced move spends the request it matches, if it needs one.           *)
LEMMA ForceKeeps ==
  ASSUME Seconding, NEW a \in Office, NEW m \in Moves, D!Force(a, m)
  PROVE  Seconding'
<1>1. /\ phase' = "closed" /\ arbiter' = a
      /\ UNCHANGED <<inUsd, office, asked, agreed>>
      /\ forced' = [move |-> m, large |-> D!RequiresApproval]
  BY DEF D!Force
<1>2. forced' \in [move : Moves \cup {D!None}, large : BOOLEAN]
  BY <1>1 DEF D!RequiresApproval
<1>3. forced'.move = m
  BY <1>1
<1>4. CASE ~D!RequiresApproval
  <2>1. approval' = approval
    BY <1>4 DEF D!Force
  <2>2. D!TypeOK'
    BY <1>1, <1>2, <2>1, DeskTypes DEF D!TypeOK, RequestRows, D!People
  <2>3. \A j \in Approvals : Signed(j)'
    BY <1>1, <2>1, DeskTypes, Zenon DEF Signed
  <2>4. ~forced'.large
    BY <1>1, <1>4
  <2> QED
    BY <2>2, <2>3, <2>4 DEF Seconding, LargeMovesSeconded, D!LargeMovesSeconded
<1>5. CASE D!RequiresApproval
  <2>1. PICK i \in Approvals :
          /\ D!Matches(i, a, m)
          /\ approval' = [approval EXCEPT ![i].status = "executed"]
    BY <1>5 DEF D!Force
  <2>2. approval[i].status = "approved" /\ approval[i].move = m
    BY <2>1 DEF D!Matches
  <2>3. /\ approval' \in [Approvals -> RequestRows]
        /\ \A j \in Approvals \ {i} : approval'[j] = approval[j]
        /\ approval'[i].status = "executed" /\ approval'[i].move = m
    BY <2>1, <2>2, DeskTypes DEF RequestRows
  <2>4. D!TypeOK'
    BY <1>1, <1>2, <2>3, DeskTypes DEF D!TypeOK, RequestRows, D!People
  <2>5. asked[i] \in Office /\ agreed[i] \in Office /\ agreed[i] # asked[i]
    BY <2>2, DeskTypes DEF Signed, D!None
  <2>6. \A j \in Approvals : Signed(j)'
    <3>1. Signed(i)'
      BY <1>1, <2>3, <2>5 DEF Signed
    <3>2. ASSUME NEW j \in Approvals \ {i} PROVE Signed(j)'
      BY <1>1, <2>3, DeskTypes, Zenon DEF Signed
    <3> QED
      BY <3>1, <3>2
  <2>7. LargeMovesSeconded'
    BY <1>1, <1>3, <2>3, <2>5 DEF LargeMovesSeconded, D!LargeMovesSeconded
  <2> QED
    BY <2>4, <2>6, <2>7 DEF Seconding
<1> QED
  BY <1>4, <1>5

(* Whoever leaves is only forgotten when no admin any more.                *)
LEMMA ForgetKeeps ==
  ASSUME Seconding, NEW a \in Office, D!Forget(a)
  PROVE  Seconding'
<1>1. /\ a \notin office
      /\ UNCHANGED <<phase, arbiter, inUsd, office, asked, agreed, forced>>
  BY DEF D!Forget
<1>2. ASSUME NEW i \in Approvals
      PROVE  /\ approval'[i] \in RequestRows
             /\ approval'[i].status = approval[i].status
             /\ approval'[i].move = approval[i].move
             /\ approval'[i].by = approval[i].by \/ approval[i].by = a
  <2>1. approval[i] \in RequestRows
    BY DeskTypes
  <2>2. approval'[i] = [approval[i] EXCEPT !.by = IF @ = a THEN D!None ELSE @,
                                           !.approver = IF @ = a THEN D!None ELSE @]
    BY DEF D!Forget
  <2>3. PICK b \in D!People, c \in D!People :
          /\ approval'[i] = [approval[i] EXCEPT !.by = b, !.approver = c]
          /\ b = approval[i].by \/ approval[i].by = a
    BY <2>1, <2>2, DeskTypes DEF RequestRows
  <2>4. PICK row1 : row1 = [approval[i] EXCEPT !.by = b]
    OBVIOUS
  <2>5. /\ row1 \in RequestRows /\ row1.by = b /\ row1.status = approval[i].status
        /\ row1.move = approval[i].move
    BY <2>1, <2>4 DEF RequestRows
  <2>6. approval'[i] = [row1 EXCEPT !.approver = c]
    BY <2>1, <2>3, <2>4 DEF RequestRows
  <2> QED
    BY <2>3, <2>5, <2>6 DEF RequestRows
<1>3. approval' \in [Approvals -> RequestRows]
  BY <1>2 DEF D!Forget
<1>4. D!TypeOK'
  BY <1>1, <1>3, DeskTypes DEF D!TypeOK, RequestRows, D!People
<1>5. ASSUME NEW i \in Approvals PROVE Signed(i)'
  BY <1>1, <1>2, DeskTypes DEF Signed
<1>6. LargeMovesSeconded'
  BY <1>1, <1>2, DeskTypes, Zenon DEF LargeMovesSeconded, D!LargeMovesSeconded
<1> QED
  BY <1>4, <1>5, <1>6 DEF Seconding

(* Steps that leave the requests alone; admins only become fewer.          *)
LEMMA RequestsKept ==
  ASSUME Seconding, UNCHANGED <<approval, asked, agreed, forced>>,
         phase' \in {"active", "arbitration", "closed"}, arbiter' \in D!People,
         inUsd' \in {"low", "high", "unknown"}, office' \subseteq office
  PROVE  Seconding'
<1>1. D!TypeOK'
  BY DeskTypes DEF D!TypeOK, RequestRows, D!People
<1>2. ASSUME NEW i \in Approvals PROVE Signed(i)'
  BY DeskTypes DEF Signed
<1>3. LargeMovesSeconded'
  BY DeskTypes DEF LargeMovesSeconded, D!LargeMovesSeconded
<1> QED
  BY <1>1, <1>2, <1>3 DEF Seconding

LEMMA DeskStep == Seconding /\ [D!Next]_(D!vars) => Seconding'
<1> SUFFICES ASSUME Seconding, [D!Next]_(D!vars) PROVE Seconding'
  OBVIOUS
<1>1. ASSUME NEW a \in Office, NEW m \in Moves, D!Ask(a, m) \/ D!Force(a, m)
      PROVE  Seconding'
  BY <1>1, AskKeeps, ForceKeeps
<1>2. ASSUME NEW i \in Approvals, NEW a \in Office, D!Approve(i, a) \/ D!Reject(i, a)
      PROVE  Seconding'
  BY <1>2, ApproveKeeps, RejectKeeps
<1>3. ASSUME NEW estimate \in {"low", "high"}, D!SetRate(estimate) PROVE Seconding'
  BY <1>3, RequestsKept, DeskTypes DEF D!SetRate
<1>4. CASE D!Dispute \/ D!EndedByParties
  BY <1>4, RequestsKept, DeskTypes DEF D!Dispute, D!EndedByParties
<1>5. ASSUME NEW a \in Office \cup Arbiters, D!Claim(a) \/ D!Resolve(a) PROVE Seconding'
  BY <1>5, RequestsKept, DeskTypes DEF D!Claim, D!Resolve
<1>6. ASSUME NEW a \in Office, NEW b \in Office \cup Arbiters \cup {D!None}, D!Assign(a, b)
      PROVE  Seconding'
  BY <1>6, RequestsKept, DeskTypes DEF D!Assign
<1>7. ASSUME NEW a \in Office, D!Demote(a) PROVE Seconding'
  BY <1>7, RequestsKept, DeskTypes DEF D!Demote
<1>8. ASSUME NEW a \in Office, D!Forget(a) PROVE Seconding'
  BY <1>8, ForgetKeeps
<1>9. CASE UNCHANGED D!vars
  BY <1>9, RequestsKept, DeskTypes DEF D!vars
<1> QED
  BY <1>1, <1>2, <1>3, <1>4, <1>5, <1>6, <1>7, <1>8, <1>9 DEF D!Next

-----------------------------------------------------------------------------
(* Catalogue: the limit of active services.                                *)

(* What the limit is about.                                                *)
Limited == C!Active \ byAdmin

Changes == [for : {"idle", "create", "owner", "counted", "admin"},
            service : Services \cup {C!Nobody},
            copy : C!Statuses \cup {"none"}, wanted : C!Statuses \cup {"none"}]

CatalogueTypes ==
  /\ status \in [Services -> C!Statuses \cup {"none", "gone"}]
  /\ ownerLock \in Handlers \cup {C!Nobody} /\ byAdmin \subseteq Services
  /\ changes \in [Handlers -> Changes]

(* A change that was read has a service; one that was counted holds the    *)
(* owner's row, and what it counted still leaves room for one more.        *)
Announced(r) ==
  /\ changes[r].for \in {"owner", "counted", "admin"} => changes[r].service \in Services
  /\ changes[r].for \in {"create", "counted"} =>
       ownerLock = r /\ Cardinality(Limited) < MaxActive

Quota == CatalogueTypes /\ (\A r \in Handlers : Announced(r)) /\ QuotaKept

LEMMA CatalogueCounts == \A S : C!Cardinality(S) = Cardinality(S)
BY DEF C!Cardinality, Cardinality

LEMMA CatalogueNow ==
  ASSUME Quota
  PROVE  /\ status \in [Services -> C!Statuses \cup {"none", "gone"}]
         /\ ownerLock \in Handlers \cup {C!Nobody} /\ byAdmin \subseteq Services
         /\ changes \in [Handlers -> Changes]
         /\ \A r \in Handlers : Announced(r)
         /\ Cardinality(Limited) =< MaxActive
BY CatalogueCounts DEF Quota, CatalogueTypes, QuotaKept, C!QuotaKept, Limited

LEMMA IdleIsAChange == C!Idle \in Changes /\ C!Idle.for = "idle"
BY DEF C!Idle, Changes, C!Statuses

LEMMA QuotaInit == C!Init => Quota
<1>1. SUFFICES ASSUME C!Init PROVE Quota
  OBVIOUS
<1>2. CatalogueTypes
  BY <1>1, IdleIsAChange DEF C!Init, CatalogueTypes
<1>3. \A r \in Handlers : Announced(r)
  BY <1>1, IdleIsAChange DEF C!Init, Announced
<1>4. C!Active \ byAdmin = {}
  BY <1>1 DEF C!Init, C!Active
<1>5. QuotaKept
  BY <1>4, CatalogueCounts, FS_EmptySet, CatalogueAssumption DEF QuotaKept, C!QuotaKept
<1> QED
  BY <1>2, <1>3, <1>5 DEF Quota

(* Fewer services fit as well as more; one more fits where one may.        *)
LEMMA LimitedIsFinite == IsFiniteSet(Limited) /\ Cardinality(Limited) \in Nat
<1>1. Limited \subseteq Services
  BY DEF Limited, C!Active
<1> QED
  BY <1>1, CatalogueAssumption, FS_Subset, FS_CardinalityType

LEMMA FewerFit ==
  ASSUME Limited' \subseteq Limited
  PROVE  Cardinality(Limited') \in Nat /\ Cardinality(Limited') =< Cardinality(Limited)
<1>1. IsFiniteSet(Limited') /\ Cardinality(Limited') =< Cardinality(Limited)
  BY LimitedIsFinite, FS_Subset
<1> QED
  BY <1>1, FS_CardinalityType

LEMMA OneMoreFits ==
  ASSUME NEW s, Limited' \subseteq Limited \cup {s}, Cardinality(Limited) < MaxActive
  PROVE  Cardinality(Limited') =< MaxActive
<1>1. IsFiniteSet(Limited \cup {s}) /\ Cardinality(Limited \cup {s}) =< Cardinality(Limited) + 1
  <2>1. /\ IsFiniteSet(Limited \cup {s})
        /\ Cardinality(Limited \cup {s}) =
             IF s \in Limited THEN Cardinality(Limited) ELSE Cardinality(Limited) + 1
    BY LimitedIsFinite, FS_AddElement
  <2> QED
    BY <2>1, LimitedIsFinite
<1>2. Cardinality(Limited') =< Cardinality(Limited \cup {s})
  BY <1>1, FS_Subset
<1>3. /\ Cardinality(Limited) \in Nat /\ Cardinality(Limited \cup {s}) \in Nat
      /\ Cardinality(Limited') \in Nat
  BY <1>1, LimitedIsFinite, FS_CardinalityType, FS_Subset
<1> QED
  BY <1>1, <1>2, <1>3, CatalogueAssumption

(* A step of one request that adds nothing to the services under the       *)
(* limit.                                                                  *)
LEMMA NothingAdded ==
  ASSUME Quota, NEW r \in Handlers, CatalogueTypes', Limited' \subseteq Limited,
         \A q \in Handlers \ {r} : changes'[q] = changes[q] /\ (ownerLock = q => ownerLock' = q),
         changes'[r].for \in {"owner", "counted", "admin"} => changes'[r].service \in Services,
         changes'[r].for \in {"create", "counted"} =>
           ownerLock' = r /\ Cardinality(Limited) < MaxActive
  PROVE  Quota'
<1>1. Cardinality(Limited') \in Nat /\ Cardinality(Limited') =< Cardinality(Limited)
  BY FewerFit
<1>2. Cardinality(Limited) \in Nat
  BY LimitedIsFinite
<1>3. Cardinality(Limited') =< MaxActive /\
      (Cardinality(Limited) < MaxActive => Cardinality(Limited') < MaxActive)
  BY <1>1, <1>2, CatalogueNow, CatalogueAssumption
<1>4. ASSUME NEW q \in Handlers \ {r} PROVE Announced(q)'
  BY <1>3, CatalogueNow, Zenon DEF Announced
<1>5. Announced(r)'
  BY <1>3, Zenon DEF Announced
<1>6. QuotaKept'
  BY <1>3, CatalogueCounts DEF QuotaKept, C!QuotaKept, Limited
<1> QED
  BY <1>4, <1>5, <1>6 DEF Quota

(* A commit that adds a service under the limit: it counted, and nobody    *)
(* else did meanwhile.                                                     *)
LEMMA OneAdded ==
  ASSUME Quota, NEW r \in Handlers, changes[r].for \in {"create", "counted"},
         CatalogueTypes', changes' = [changes EXCEPT ![r] = C!Idle],
         NEW s, Limited' \subseteq Limited \cup {s}
  PROVE  Quota'
<1>1. ownerLock = r /\ Cardinality(Limited) < MaxActive
  BY CatalogueNow DEF Announced
<1>2. /\ changes'[r].for = "idle"
      /\ \A q \in Handlers \ {r} : changes'[q] = changes[q]
  BY CatalogueNow, IdleIsAChange
<1>3. \A q \in Handlers \ {r} : changes[q].for \notin {"create", "counted"}
  BY <1>1, CatalogueNow DEF Announced
<1>4. ASSUME NEW q \in Handlers PROVE Announced(q)'
  <2>1. CASE q = r
    BY <1>2, <2>1 DEF Announced
  <2>2. CASE q # r
    BY <1>2, <1>3, <2>2, CatalogueNow DEF Announced
  <2> QED
    BY <2>1, <2>2
<1>5. Cardinality(Limited') =< MaxActive
  BY <1>1, OneMoreFits
<1>6. QuotaKept'
  BY <1>5, CatalogueCounts DEF QuotaKept, C!QuotaKept, Limited
<1> QED
  BY <1>4, <1>6 DEF Quota

LEMMA CreateCountKeeps ==
  ASSUME Quota, NEW r \in Handlers, C!CreateCount(r)
  PROVE  Quota'
<1>1. /\ changes[r] = C!Idle /\ Cardinality(C!Active) < MaxActive
      /\ ownerLock = C!Nobody /\ ownerLock' = r /\ UNCHANGED <<status, byAdmin>>
      /\ changes' = [changes EXCEPT ![r].for = "create", ![r].wanted = "active"]
  BY CatalogueCounts DEF C!CreateCount, C!QuotaLeft, C!LockOwner
<1>2. PICK f : f = [changes EXCEPT ![r].for = "create"]
  OBVIOUS
<1>3. changes' = [f EXCEPT ![r].wanted = "active"]
  BY <1>1, <1>2, CatalogueNow
<1>4. /\ f \in [Handlers -> Changes] /\ f[r].for = "create"
      /\ \A q \in Handlers \ {r} : f[q] = changes[q]
  BY <1>2, CatalogueNow DEF Changes
<1>5. /\ changes' \in [Handlers -> Changes] /\ changes'[r].for = "create"
      /\ \A q \in Handlers \ {r} : changes'[q] = changes[q]
  BY <1>3, <1>4 DEF Changes, C!Statuses
<1>6. CatalogueTypes'
  BY <1>1, <1>5, CatalogueNow DEF CatalogueTypes
<1>7. Limited' = Limited
  BY <1>1 DEF Limited, C!Active
<1>8. Cardinality(Limited) < MaxActive
  <2>1. Limited \subseteq C!Active /\ C!Active \subseteq Services
    BY DEF Limited, C!Active
  <2>2. IsFiniteSet(C!Active) /\ Cardinality(C!Active) \in Nat
    BY <2>1, CatalogueAssumption, FS_Subset, FS_CardinalityType
  <2>3. Cardinality(Limited) =< Cardinality(C!Active)
    BY <2>1, <2>2, FS_Subset
  <2> QED
    BY <1>1, <2>2, <2>3, LimitedIsFinite, CatalogueAssumption
<1>9. \A q \in Handlers \ {r} : ownerLock # q
  BY <1>1, CatalogueAssumption
<1> QED
  BY <1>1, <1>5, <1>6, <1>7, <1>8, <1>9, NothingAdded

LEMMA CreateCommitKeeps ==
  ASSUME Quota, NEW r \in Handlers, C!CreateCommit(r)
  PROVE  Quota'
<1>1. PICK s \in Services :
        /\ changes[r].for = "create" /\ C!Unlock(r) /\ status' = [status EXCEPT ![s] = "active"]
        /\ changes' = [changes EXCEPT ![r] = C!Idle] /\ byAdmin' = byAdmin
  BY DEF C!CreateCommit
<1>2. CatalogueTypes'
  BY <1>1, CatalogueNow, IdleIsAChange DEF CatalogueTypes, C!Unlock, C!Statuses
<1>3. Limited' \subseteq Limited \cup {s}
  BY <1>1, CatalogueNow DEF Limited, C!Active
<1> QED
  BY <1>1, <1>2, <1>3, OneAdded

(* What is read is a change of its service.                                *)
LEMMA ReadKeeps ==
  ASSUME Quota, NEW r \in Handlers, NEW s \in Services, NEW wanted \in C!Statuses,
         C!OwnerRead(r, s, wanted) \/ C!AdminRead(r, s, wanted)
  PROVE  Quota'
<1>1. PICK for \in {"owner", "admin"} :
        changes' = [changes EXCEPT ![r] =
          [for |-> for, service |-> s, copy |-> status[s], wanted |-> wanted]]
  BY DEF C!OwnerRead, C!AdminRead
<1>2. UNCHANGED <<status, ownerLock, byAdmin>> /\ status[s] \in C!Statuses
  BY DEF C!OwnerRead, C!AdminRead
<1> DEFINE new == [for |-> for, service |-> s, copy |-> status[s], wanted |-> wanted]
<1>3. new \in Changes /\ new.for = for /\ new.service = s
  BY <1>2 DEF Changes
<1> HIDE DEF new
<1>4. /\ changes' \in [Handlers -> Changes] /\ changes'[r] = new
      /\ \A q \in Handlers \ {r} : changes'[q] = changes[q]
  BY <1>1, <1>3, CatalogueNow DEF new
<1>5. CatalogueTypes'
  BY <1>2, <1>4, CatalogueNow DEF CatalogueTypes
<1>6. Limited' = Limited
  BY <1>2 DEF Limited, C!Active
<1> QED
  BY <1>2, <1>3, <1>4, <1>5, <1>6, NothingAdded

LEMMA OwnerCountKeeps ==
  ASSUME Quota, NEW r \in Handlers, C!OwnerCount(r)
  PROVE  Quota'
<1>1. /\ changes[r].for = "owner" /\ changes[r].service \in Services
      /\ UNCHANGED <<status, byAdmin>> /\ ownerLock = C!Nobody
  BY CatalogueNow DEF C!OwnerCount, C!Reactivates, Announced, C!LockOwner
<1>2. Limited' = Limited
  BY <1>1 DEF Limited, C!Active
<1>3. \A q \in Handlers \ {r} : ownerLock # q
  BY <1>1, CatalogueAssumption
<1>4. CASE C!QuotaLeft
  <2>1. ownerLock' = r /\ changes' = [changes EXCEPT ![r].for = "counted"]
    BY <1>4 DEF C!OwnerCount, C!LockOwner
  <2>2. /\ changes' \in [Handlers -> Changes] /\ changes'[r].for = "counted"
        /\ changes'[r].service = changes[r].service
        /\ \A q \in Handlers \ {r} : changes'[q] = changes[q]
    BY <2>1, CatalogueNow DEF Changes
  <2>3. CatalogueTypes'
    BY <1>1, <2>1, <2>2, CatalogueNow DEF CatalogueTypes
  <2>4. Cardinality(Limited) < MaxActive
    <3>1. Limited \subseteq C!Active /\ C!Active \subseteq Services
      BY DEF Limited, C!Active
    <3>2. IsFiniteSet(C!Active) /\ Cardinality(C!Active) \in Nat
      BY <3>1, CatalogueAssumption, FS_Subset, FS_CardinalityType
    <3>3. Cardinality(Limited) =< Cardinality(C!Active)
      BY <3>1, <3>2, FS_Subset
    <3> QED
      BY <1>4, <3>2, <3>3, LimitedIsFinite, CatalogueCounts, CatalogueAssumption
         DEF C!QuotaLeft
  <2> QED
    BY <1>1, <1>2, <1>3, <2>1, <2>2, <2>3, <2>4, NothingAdded
<1>5. CASE ~C!QuotaLeft
  <2>1. ownerLock' = ownerLock /\ changes' = [changes EXCEPT ![r] = C!Idle]
    BY <1>5 DEF C!OwnerCount
  <2>2. CatalogueTypes'
    BY <1>1, <2>1, CatalogueNow, IdleIsAChange DEF CatalogueTypes
  <2>3. changes'[r].for = "idle" /\ \A q \in Handlers \ {r} : changes'[q] = changes[q]
    BY <2>1, CatalogueNow, IdleIsAChange
  <2> QED
    BY <1>2, <2>1, <2>2, <2>3, NothingAdded
<1> QED
  BY <1>4, <1>5

(* A commit that counts nothing writes no "active" that is under the       *)
(* limit: the owner's is not sent, as the copy already says so, the        *)
(* admin's is apart.                                                       *)
LEMMA CommitKeeps ==
  ASSUME Quota, NEW r \in Handlers, C!Commit(r)
  PROVE  Quota'
<1> DEFINE w == changes[r]
           writes == w.wanted # w.copy /\ status[w.service] # "gone"
<1>1. /\ w.for \in {"owner", "counted", "admin"} /\ ~C!Reactivates(w)
      /\ changes' = [changes EXCEPT ![r] = C!Idle] /\ C!Unlock(r)
      /\ status' = IF writes THEN [status EXCEPT ![w.service] = w.wanted] ELSE status
      /\ byAdmin' = IF ~writes THEN byAdmin
                    ELSE IF w.for = "admin" /\ w.wanted = "active" THEN byAdmin \cup {w.service}
                    ELSE byAdmin \ {w.service}
  BY DEF C!Commit
<1>2. w \in Changes /\ w.service \in Services
  BY <1>1, CatalogueNow DEF Announced
<1>3. /\ changes' \in [Handlers -> Changes] /\ changes'[r].for = "idle"
      /\ \A q \in Handlers \ {r} : changes'[q] = changes[q]
  BY <1>1, CatalogueNow, IdleIsAChange
<1>4. \A q \in Handlers \ {r} : ownerLock = q => ownerLock' = q
  BY <1>1 DEF C!Unlock
<1>5. status' \in [Services -> C!Statuses \cup {"none", "gone"}]
  BY <1>1, <1>2, CatalogueNow DEF Changes
<1>6. CatalogueTypes'
  BY <1>1, <1>2, <1>3, <1>5, CatalogueNow DEF CatalogueTypes, C!Unlock
<1>7. CASE w.for = "counted"
  <2>1. Limited' \subseteq Limited \cup {w.service}
    BY <1>1, <1>2, <1>7, CatalogueNow DEF Limited, C!Active
  <2> QED
    BY <1>1, <1>6, <1>7, <2>1, OneAdded
<1>8. CASE w.for # "counted"
  <2>1. writes => w.wanted # "active" \/ w.for = "admin"
    BY <1>1, <1>8 DEF C!Reactivates
  <2>2. Limited' \subseteq Limited
    BY <1>1, <1>2, <2>1, CatalogueNow DEF Limited, C!Active
  <2> QED
    BY <1>3, <1>4, <1>6, <2>2, NothingAdded
<1> QED
  BY <1>7, <1>8

LEMMA QuotaStep == Quota /\ [C!Next]_(C!vars) => Quota'
<1> SUFFICES ASSUME Quota, [C!Next]_(C!vars) PROVE Quota'
  OBVIOUS
<1>1. ASSUME NEW r \in Handlers,
             C!CreateCount(r) \/ C!CreateCommit(r) \/ C!OwnerCount(r) \/ C!Commit(r)
      PROVE  Quota'
  BY <1>1, CreateCountKeeps, CreateCommitKeeps, OwnerCountKeeps, CommitKeeps
<1>2. ASSUME NEW r \in Handlers, NEW s \in Services, NEW wanted \in C!Statuses,
             C!OwnerRead(r, s, wanted) \/ C!AdminRead(r, s, wanted)
      PROVE  Quota'
  BY <1>2, ReadKeeps
<1>3. ASSUME UNCHANGED <<ownerLock, changes>>, Limited' \subseteq Limited, CatalogueTypes'
      PROVE  Quota'
  <2>1. Cardinality(Limited') \in Nat /\ Cardinality(Limited') =< Cardinality(Limited)
    BY <1>3, FewerFit
  <2>2. Cardinality(Limited') =< MaxActive /\
        (Cardinality(Limited) < MaxActive => Cardinality(Limited') < MaxActive)
    BY <2>1, LimitedIsFinite, CatalogueNow, CatalogueAssumption
  <2>3. \A r \in Handlers : Announced(r)'
    BY <1>3, <2>2, CatalogueNow, Zenon DEF Announced
  <2>4. QuotaKept'
    BY <2>2, CatalogueCounts DEF QuotaKept, C!QuotaKept, Limited
  <2> QED
    BY <1>3, <2>3, <2>4 DEF Quota
<1>4. ASSUME NEW s \in Services, C!Delete(s) PROVE Quota'
  <2>1. /\ status' = [status EXCEPT ![s] = "gone"] /\ byAdmin' = byAdmin \ {s}
        /\ UNCHANGED <<ownerLock, changes>>
    BY <1>4 DEF C!Delete
  <2>2. Limited' \subseteq Limited
    BY <2>1, CatalogueNow DEF Limited, C!Active
  <2>3. CatalogueTypes'
    BY <2>1, CatalogueNow DEF CatalogueTypes
  <2> QED
    BY <1>3, <2>1, <2>2, <2>3
<1>5. CASE UNCHANGED C!vars
  <2>1. UNCHANGED <<status, ownerLock, changes, byAdmin>>
    BY <1>5 DEF C!vars
  <2>2. Limited' = Limited /\ CatalogueTypes'
    BY <2>1, CatalogueNow DEF Limited, C!Active, CatalogueTypes
  <2> QED
    BY <1>3, <2>1, <2>2
<1> QED
  BY <1>1, <1>2, <1>4, <1>5 DEF C!Next

-----------------------------------------------------------------------------
(* Reviews: the counters of a user.                                        *)

Countings == [stage : {"idle", "changed", "locked"}, slot : V!Slots \cup {V!Nowhere},
              rating : V!Ratings \cup {"none"}, inserts : BOOLEAN, good : Nat, bad : Nat]

ReviewTypes ==
  /\ review \in [V!Slots -> V!Ratings \cup {"none"}] /\ overridden \subseteq Users
  /\ good \in [Users -> Nat] /\ bad \in [Users -> Nat]
  /\ counting \in [Handlers -> Countings]

(* The reviews as the commit of r would leave them.                        *)
Merged(r) == [review EXCEPT ![counting[r].slot] = counting[r].rating]

About(written, u, rating) == {s \in V!Slots : V!Target(s) = u /\ written[s] = rating}

(* A request that locked the row of a user is alone in that, and what it   *)
(* counted is what the reviews of the user will be after its commit.       *)
Counted(r) ==
  /\ counting[r].stage # "idle" => counting[r].slot \in V!Slots
  /\ counting[r].stage = "locked" =>
       LET u == V!Target(counting[r].slot)
       IN  /\ counting[r].good = Cardinality(About(Merged(r), u, "good"))
           /\ counting[r].bad = Cardinality(About(Merged(r), u, "bad"))

Apart(r, q) ==
  counting[r].stage = "locked" /\ counting[q].stage = "locked" =>
    V!Target(counting[r].slot) # V!Target(counting[q].slot)

Rated(u) == good[u] = Cardinality(About(review, u, "good"))
            /\ bad[u] = Cardinality(About(review, u, "bad"))

Rating ==
  /\ ReviewTypes
  /\ \A r \in Handlers : Counted(r)
  /\ \A r \in Handlers, q \in Handlers : r # q => Apart(r, q)
  /\ \A u \in Users \ overridden : Rated(u)

LEMMA ReviewsCount ==
  \A written, u, rating : V!About(written, u, rating) = Cardinality(About(written, u, rating))
<1>1. \A S : V!Cardinality(S) = Cardinality(S)
  BY DEF V!Cardinality, Cardinality
<1> QED
  BY <1>1 DEF V!About, About

LEMMA RatingImplies == Rating => RatingFollowsReviews
BY ReviewsCount DEF Rating, Rated, RatingFollowsReviews, V!RatingFollowsReviews

(* Only finitely many reviews can be written by finitely many users about  *)
(* finitely many deals.                                                    *)
LEMMA SlotsAreFinite == IsFiniteSet(V!Slots)
<1> DEFINE Triples == (Users \X Users) \X Deals
           f == [s \in V!Slots |-> <<<<s[1], s[2]>>, s[3]>>]
<1>1. IsFiniteSet(Triples)
  BY ReviewsAssumption, FS_Product
<1>2. \A s \in V!Slots : s \in Users \X Users \X Deals
  BY DEF V!Slots
<1>3. f \in [V!Slots -> Triples]
  BY <1>2
<1>4. \A s, t \in V!Slots : f[s] = f[t] => s = t
  BY <1>2
<1>5. f \in Injection(V!Slots, Triples)
  BY <1>3, <1>4 DEF Injection, IsInjective
<1> QED
  BY <1>1, <1>5, FS_Injection

LEMMA AboutIsANumber ==
  ASSUME NEW written, NEW u, NEW rating
  PROVE  Cardinality(About(written, u, rating)) \in Nat
<1>1. About(written, u, rating) \subseteq V!Slots
  BY DEF About
<1> QED
  BY <1>1, SlotsAreFinite, FS_Subset, FS_CardinalityType

(* A review about one user is none about another.                          *)
LEMMA OthersUnmoved ==
  ASSUME NEW written, NEW merged, NEW slot, NEW u, NEW rating,
         V!Target(slot) # u, \A s \in V!Slots \ {slot} : merged[s] = written[s]
  PROVE  About(merged, u, rating) = About(written, u, rating)
BY DEF About

LEMMA IdleCounts == V!Idle \in Countings /\ V!Idle.stage = "idle"
<1>1. V!Nowhere \in V!Slots \cup {V!Nowhere} /\ 0 \in Nat
  OBVIOUS
<1> HIDE DEF V!Nowhere
<1> QED
  BY <1>1 DEF V!Idle, Countings

LEMMA RatingInit == V!Init => Rating
<1>1. SUFFICES ASSUME V!Init PROVE Rating
  OBVIOUS
<1>2. /\ review = [s \in V!Slots |-> "none"] /\ good = [u \in Users |-> 0] /\ bad = good
      /\ counting = [r \in Handlers |-> V!Idle] /\ overridden = {}
  BY <1>1 DEF V!Init
<1>3. ReviewTypes
  BY <1>2, IdleCounts DEF ReviewTypes
<1>4. \A r \in Handlers : counting[r].stage = "idle"
  BY <1>2, IdleCounts
<1>5. ASSUME NEW u \in Users PROVE Rated(u)
  <2>1. About(review, u, "good") = {} /\ About(review, u, "bad") = {}
    BY <1>2 DEF About
  <2>2. good[u] = 0 /\ bad[u] = 0
    BY <1>2
  <2> QED
    BY <2>1, <2>2, FS_EmptySet DEF Rated
<1> QED
  BY <1>3, <1>4, <1>5 DEF Rating, Counted, Apart

(* A step of a request that has locked no row: the counters and reviews    *)
(* stay.                                                                   *)
LEMMA OnlyRequestMoves ==
  ASSUME Rating, NEW r \in Handlers, UNCHANGED <<review, good, bad, overridden>>,
         NEW w \in Countings, counting' = [counting EXCEPT ![r] = w],
         Counted(r)', \A q \in Handlers \ {r} : Apart(r, q)'
  PROVE  Rating'
<1>1. /\ counting' \in [Handlers -> Countings]
      /\ \A q \in Handlers \ {r} : counting'[q] = counting[q]
  BY DEF Rating, ReviewTypes
<1>2. ReviewTypes'
  BY <1>1 DEF Rating, ReviewTypes
<1>3. ASSUME NEW q \in Handlers \ {r} PROVE Counted(q)'
  <2>1. Counted(q) /\ counting'[q] = counting[q] /\ review' = review
    BY <1>1 DEF Rating
  <2> QED
    BY <2>1 DEF Counted, Merged, About
<1>4. ASSUME NEW p \in Handlers, NEW q \in Handlers, p # q PROVE Apart(p, q)'
  <2>1. CASE p = r
    BY <1>4, <2>1
  <2>2. CASE q = r
    <3>1. Apart(q, p)'
      BY <1>4, <2>2
    <3> QED
      BY <3>1 DEF Apart
  <2>3. CASE p # r /\ q # r
    BY <1>1, <1>4, <2>3 DEF Apart, Rating
  <2> QED
    BY <2>1, <2>2, <2>3
<1>5. ASSUME NEW u \in Users \ overridden' PROVE Rated(u)'
  BY DEF Rating, Rated, About
<1> QED
  BY <1>2, <1>3, <1>4, <1>5 DEF Rating

LEMMA ChangeKeeps ==
  ASSUME Rating, NEW r \in Handlers, NEW s \in V!Slots, NEW rating \in V!Ratings \cup {"none"},
         NEW inserts \in BOOLEAN, V!Change(r, s, rating, inserts)
  PROVE  Rating'
<1> DEFINE w == [V!Idle EXCEPT !.stage = "changed", !.slot = s,
                               !.rating = rating, !.inserts = inserts]
<1>1. /\ counting' = [counting EXCEPT ![r] = w]
      /\ UNCHANGED <<review, good, bad, overridden>>
  BY DEF V!Change
<1>2. w \in Countings /\ w.stage = "changed" /\ w.slot = s
  <2>1. PICK a : a = [V!Idle EXCEPT !.stage = "changed"]
    OBVIOUS
  <2>2. PICK b : b = [a EXCEPT !.slot = s]
    OBVIOUS
  <2>3. PICK c : c = [b EXCEPT !.rating = rating]
    OBVIOUS
  <2>4. a \in Countings /\ a.stage = "changed"
    BY <2>1, IdleCounts DEF Countings
  <2>5. b \in Countings /\ b.stage = "changed" /\ b.slot = s
    BY <2>2, <2>4 DEF Countings
  <2>6. c \in Countings /\ c.stage = "changed" /\ c.slot = s
    BY <2>3, <2>5 DEF Countings
  <2>7. w = [c EXCEPT !.inserts = inserts]
    BY <2>1, <2>2, <2>3, IdleCounts DEF Countings
  <2> QED
    BY <2>6, <2>7 DEF Countings
<1> HIDE DEF w
<1>5. counting'[r] = w
  BY <1>1 DEF Rating, ReviewTypes
<1>6. Counted(r)' /\ \A q \in Handlers \ {r} : Apart(r, q)'
  BY <1>2, <1>5 DEF Counted, Apart
<1> QED
  BY <1>1, <1>2, <1>6, OnlyRequestMoves

LEMMA LockAndCountKeeps ==
  ASSUME Rating, NEW r \in Handlers, V!LockAndCount(r)
  PROVE  Rating'
<1> DEFINE s == counting[r].slot
           g == Cardinality(About(Merged(r), V!Target(s), "good"))
           b == Cardinality(About(Merged(r), V!Target(s), "bad"))
<1>1. /\ counting[r].stage = "changed" /\ V!RowFree(r, V!Target(s))
      /\ counting' = [counting EXCEPT ![r].stage = "locked", ![r].good = g, ![r].bad = b]
      /\ UNCHANGED <<review, good, bad, overridden>>
  BY ReviewsCount DEF V!LockAndCount, Merged
<1>2. g \in Nat /\ b \in Nat
  BY AboutIsANumber
<1>3. counting[r] \in Countings /\ s \in V!Slots
  BY <1>1 DEF Rating, ReviewTypes, Counted
<1> HIDE DEF g, b
<1>4. PICK v : v = [counting[r] EXCEPT !.stage = "locked"]
  OBVIOUS
<1>5. PICK w : w = [v EXCEPT !.good = g]
  OBVIOUS
<1>6. PICK x : x = [w EXCEPT !.bad = b]
  OBVIOUS
<1>7. v \in Countings /\ v.stage = "locked" /\ v.slot = s /\ v.rating = counting[r].rating
  BY <1>3, <1>4 DEF Countings
<1>8. /\ w \in Countings /\ w.stage = "locked" /\ w.slot = s /\ w.rating = counting[r].rating
      /\ w.good = g
  BY <1>2, <1>5, <1>7 DEF Countings
<1>9. /\ x \in Countings /\ x.stage = "locked" /\ x.slot = s /\ x.rating = counting[r].rating
      /\ x.good = g /\ x.bad = b
  BY <1>2, <1>6, <1>8 DEF Countings
<1>10. counting' = [counting EXCEPT ![r] = x]
  BY <1>1, <1>4, <1>5, <1>6 DEF Rating, ReviewTypes
<1>11. counting'[r] = x /\ \A q \in Handlers \ {r} : counting'[q] = counting[q]
  BY <1>10 DEF Rating, ReviewTypes
<1>12. Merged(r)' = Merged(r)
  BY <1>1, <1>9, <1>11 DEF Merged
<1>13. Counted(r)'
  <2>1. About(Merged(r)', V!Target(s), "good") = About(Merged(r), V!Target(s), "good")
        /\ About(Merged(r)', V!Target(s), "bad") = About(Merged(r), V!Target(s), "bad")
    BY <1>12
  <2>2. /\ counting'[r].good = Cardinality(About(Merged(r)', V!Target(counting'[r].slot), "good"))
        /\ counting'[r].bad = Cardinality(About(Merged(r)', V!Target(counting'[r].slot), "bad"))
    BY <1>9, <1>11, <2>1 DEF g, b
  <2> QED
    BY <1>3, <1>9, <1>11, <2>2 DEF Counted
<1>14. ASSUME NEW q \in Handlers \ {r} PROVE Apart(r, q)'
  BY <1>1, <1>9, <1>11 DEF Apart, V!RowFree, V!Locks
<1> QED
  BY <1>1, <1>9, <1>10, <1>13, <1>14, OnlyRequestMoves

(* The commit moves the reviews of the one user whose row it has locked.   *)
LEMMA CommitsCount ==
  ASSUME Rating, NEW r \in Handlers, V!Commit(r)
  PROVE  Rating'
<1> DEFINE w == counting[r]
           s == w.slot
           t == V!Target(s)
<1>1. /\ w.stage = "locked" /\ review' = [review EXCEPT ![s] = w.rating]
      /\ good' = [good EXCEPT ![t] = w.good] /\ bad' = [bad EXCEPT ![t] = w.bad]
      /\ overridden' = overridden \ {t} /\ counting' = [counting EXCEPT ![r] = V!Idle]
  BY DEF V!Commit
<1>2. /\ w \in Countings /\ s \in V!Slots
      /\ w.good = Cardinality(About(review', t, "good"))
      /\ w.bad = Cardinality(About(review', t, "bad"))
      /\ review \in [V!Slots -> V!Ratings \cup {"none"}]
      /\ good \in [Users -> Nat] /\ bad \in [Users -> Nat]
  BY <1>1 DEF Rating, ReviewTypes, Counted, Merged
<1>3. w.good \in Nat /\ w.bad \in Nat /\ w.rating \in V!Ratings \cup {"none"}
  BY <1>2 DEF Countings
<1>4. /\ counting' \in [Handlers -> Countings] /\ counting'[r].stage = "idle"
      /\ \A q \in Handlers \ {r} : counting'[q] = counting[q]
  BY <1>1, IdleCounts DEF Rating, ReviewTypes
<1>5. ReviewTypes'
  BY <1>1, <1>2, <1>3, <1>4 DEF Rating, ReviewTypes
<1>6. \A x \in V!Slots \ {s} : review'[x] = review[x]
  BY <1>1, <1>2
<1>7. ASSUME NEW q \in Handlers PROVE Counted(q)'
  <2>1. CASE q = r
    BY <1>4, <2>1 DEF Counted
  <2>2. CASE q # r /\ counting[q].stage # "locked"
    BY <1>4, <2>2 DEF Counted, Rating
  <2>3. CASE q # r /\ counting[q].stage = "locked"
    <3> DEFINE u == V!Target(counting[q].slot)
    <3>1. u # t
      BY <1>1, <2>3 DEF Rating, Apart
    <3>2. \A x \in V!Slots \ {s} : Merged(q)'[x] = Merged(q)[x]
      BY <1>1, <1>2, <1>4, <1>6, <2>3 DEF Merged
    <3>3. About(Merged(q)', u, "good") = About(Merged(q), u, "good")
          /\ About(Merged(q)', u, "bad") = About(Merged(q), u, "bad")
      BY <3>1, <3>2, OthersUnmoved
    <3>4. Counted(q) /\ counting'[q] = counting[q]
      BY <1>4, <2>3 DEF Rating
    <3> QED
      BY <2>3, <3>3, <3>4 DEF Counted
  <2> QED
    BY <2>1, <2>2, <2>3
<1>8. ASSUME NEW p \in Handlers, NEW q \in Handlers, p # q PROVE Apart(p, q)'
  BY <1>4, <1>8 DEF Apart, Rating
<1>9. ASSUME NEW u \in Users \ overridden' PROVE Rated(u)'
  <2>1. CASE u = t
    <3>1. good'[u] = w.good /\ bad'[u] = w.bad
      BY <1>1, <1>2, <2>1
    <3> QED
      BY <1>2, <2>1, <3>1 DEF Rated
  <2>2. CASE u # t
    <3>1. good'[u] = good[u] /\ bad'[u] = bad[u] /\ Rated(u)
      BY <1>1, <1>2, <1>9, <2>2 DEF Rating
    <3>2. About(review', u, "good") = About(review, u, "good")
          /\ About(review', u, "bad") = About(review, u, "bad")
      BY <1>6, <2>2, OthersUnmoved
    <3> QED
      BY <3>1, <3>2 DEF Rated
  <2> QED
    BY <2>1, <2>2
<1> QED
  BY <1>5, <1>7, <1>8, <1>9 DEF Rating

LEMMA SetStatsKeeps ==
  ASSUME Rating, NEW u \in Users, V!SetStats(u, 0, 1)
  PROVE  Rating'
<1>1. /\ good' = [good EXCEPT ![u] = 0] /\ bad' = [bad EXCEPT ![u] = 1]
      /\ overridden' = overridden \cup {u} /\ UNCHANGED <<review, counting>>
  BY DEF V!SetStats
<1>2. ReviewTypes'
  BY <1>1 DEF Rating, ReviewTypes
<1>3. \A r \in Handlers : Counted(r)'
  BY <1>1 DEF Rating, Counted, Merged, About
<1>4. \A r \in Handlers, q \in Handlers : r # q => Apart(r, q)'
  BY <1>1 DEF Rating, Apart
<1>5. ASSUME NEW v \in Users \ overridden' PROVE Rated(v)'
  <2>1. good'[v] = good[v] /\ bad'[v] = bad[v] /\ Rated(v) /\ review' = review
    BY <1>1 DEF Rating, ReviewTypes
  <2> QED
    BY <2>1 DEF Rated, About
<1> QED
  BY <1>2, <1>3, <1>4, <1>5 DEF Rating

LEMMA RatingStep == Rating /\ [V!Next]_(V!vars) => Rating'
<1> SUFFICES ASSUME Rating, [V!Next]_(V!vars) PROVE Rating'
  OBVIOUS
<1>1. ASSUME NEW r \in Handlers, NEW s \in V!Slots, NEW rating \in V!Ratings,
             V!Insert(r, s, rating) \/ V!Edit(r, s, rating)
      PROVE  Rating'
  BY <1>1, ChangeKeeps DEF V!Insert, V!Edit
<1>2. ASSUME NEW r \in Handlers, NEW s \in V!Slots, V!Delete(r, s) PROVE Rating'
  BY <1>2, ChangeKeeps DEF V!Delete
<1>3. ASSUME NEW r \in Handlers, V!Aborted(r) PROVE Rating'
  <2>1. /\ counting' = [counting EXCEPT ![r] = V!Idle]
        /\ UNCHANGED <<review, good, bad, overridden>>
    BY <1>3 DEF V!Aborted
  <2>2. counting'[r].stage = "idle"
    BY <2>1, IdleCounts DEF Rating, ReviewTypes
  <2>3. Counted(r)' /\ \A q \in Handlers \ {r} : Apart(r, q)'
    BY <2>2 DEF Counted, Apart
  <2> QED
    BY <2>1, <2>3, IdleCounts, OnlyRequestMoves
<1>4. CASE UNCHANGED V!vars
  <2>1. UNCHANGED <<review, good, bad, counting, overridden>>
    BY <1>4 DEF V!vars
  <2> QED
    BY <2>1 DEF Rating, ReviewTypes, Counted, Merged, Apart, Rated, About
<1> QED
  BY <1>1, <1>2, <1>3, <1>4, LockAndCountKeeps, CommitsCount, SetStatsKeeps DEF V!Next

-----------------------------------------------------------------------------
(* Accounts: somebody who can act, and no row discarded on which another   *)
(* hangs.                                                                  *)

UserRows == [tg : Telegram \cup {A!NoUser}, admin : BOOLEAN, barred : BOOLEAN,
             pin : BOOLEAN, trust : BOOLEAN, data : BOOLEAN]

CodeRows == [source : Ids \cup {0}, state : {"none", "live", "consumed", "expired", "purged"}]

Copies == [tg : Telegram \cup {A!NoUser}, pin : BOOLEAN, trust : BOOLEAN, data : BOOLEAN]

Transfers == [for : {"idle", "confirm", "role", "bar"}, actor : Ids \cup {0},
              target : Ids \cup {0}, code : Codes \cup {0}, value : BOOLEAN, copy : Copies]

AccountTypes ==
  /\ users \in [Ids -> UserRows] /\ codes \in [Codes -> CodeRows]
  /\ transfers \in [Confirmations -> Transfers]

(* An admin's request is about a row; what takes authority away is about   *)
(* another one than the admin's own.                                       *)
Aimed(r) ==
  /\ transfers[r].for # "idle" => transfers[r].target \in Ids
  /\ transfers[r].for = "confirm" => transfers[r].code \in Codes
  /\ transfers[r].for \in {"role", "bar"} => transfers[r].actor \in Ids
  /\ transfers[r].for = "role" \/ (transfers[r].for = "bar" /\ transfers[r].value) =>
       transfers[r].actor # transfers[r].target

Authority == AccountTypes /\ (\A r \in Confirmations : Aimed(r)) /\ SomeoneCanAct

LEMMA AccountsNow ==
  ASSUME Authority
  PROVE  /\ users \in [Ids -> UserRows] /\ codes \in [Codes -> CodeRows]
         /\ transfers \in [Confirmations -> Transfers]
         /\ \A r \in Confirmations : Aimed(r)
         /\ SomeoneCanAct
BY DEF Authority, AccountTypes

LEMMA AbsentRow ==
  /\ A!Absent \in UserRows /\ A!Absent.tg = A!NoUser
  /\ ~A!Absent.admin /\ ~A!Absent.barred /\ ~A!Absent.pin /\ ~A!Absent.data
BY DEF A!Absent, UserRows

LEMMA FreshRow ==
  ASSUME NEW t \in Telegram
  PROVE  A!Fresh(t) \in UserRows /\ A!Fresh(t).tg = t
         /\ ~A!Fresh(t).admin /\ ~A!Fresh(t).barred /\ ~A!Fresh(t).data
BY AbsentRow DEF A!Fresh, UserRows

(* The fields of a row that is set but for one of its columns.             *)
LEMMA SetData ==
  ASSUME NEW f \in [Ids -> UserRows], NEW u \in Ids
  PROVE  LET g == [f EXCEPT ![u].data = TRUE]
         IN  /\ g \in [Ids -> UserRows] /\ \A w \in Ids \ {u} : g[w] = f[w]
             /\ g[u].data /\ g[u].tg = f[u].tg
             /\ g[u].admin = f[u].admin /\ g[u].barred = f[u].barred
BY DEF UserRows

LEMMA SetPinned ==
  ASSUME NEW f \in [Ids -> UserRows], NEW u \in Ids
  PROVE  LET g == [f EXCEPT ![u].pin = TRUE]
         IN  /\ g \in [Ids -> UserRows] /\ \A w \in Ids \ {u} : g[w] = f[w]
             /\ g[u].data = f[u].data /\ g[u].tg = f[u].tg
             /\ g[u].admin = f[u].admin /\ g[u].barred = f[u].barred
BY DEF UserRows

LEMMA SetDeposit ==
  ASSUME NEW f \in [Ids -> UserRows], NEW u \in Ids, NEW v \in BOOLEAN
  PROVE  LET g == [f EXCEPT ![u].trust = v]
         IN  /\ g \in [Ids -> UserRows] /\ \A w \in Ids \ {u} : g[w] = f[w]
             /\ g[u].data = f[u].data /\ g[u].tg = f[u].tg
             /\ g[u].admin = f[u].admin /\ g[u].barred = f[u].barred
BY DEF UserRows

LEMMA SetAdmin ==
  ASSUME NEW f \in [Ids -> UserRows], NEW u \in Ids, NEW v \in BOOLEAN
  PROVE  LET g == [f EXCEPT ![u].admin = v]
         IN  /\ g \in [Ids -> UserRows] /\ \A w \in Ids \ {u} : g[w] = f[w]
             /\ g[u].data = f[u].data /\ g[u].tg = f[u].tg
             /\ g[u].admin = v /\ g[u].barred = f[u].barred
BY DEF UserRows

LEMMA SetBarred ==
  ASSUME NEW f \in [Ids -> UserRows], NEW u \in Ids, NEW v \in BOOLEAN
  PROVE  LET g == [f EXCEPT ![u].barred = v]
         IN  /\ g \in [Ids -> UserRows] /\ \A w \in Ids \ {u} : g[w] = f[w]
             /\ g[u].data = f[u].data /\ g[u].tg = f[u].tg
             /\ g[u].admin = f[u].admin /\ g[u].barred = v
BY DEF UserRows

LEMMA IdleTransfer == A!Idle \in Transfers /\ A!Idle.for = "idle"
<1>1. [tg |-> A!NoUser, pin |-> FALSE, trust |-> FALSE, data |-> FALSE] \in Copies
  BY DEF Copies
<1> QED
  BY <1>1 DEF A!Idle, Transfers

LEMMA AuthorityInit == A!Init => Authority
<1>1. SUFFICES ASSUME A!Init PROVE Authority
  OBVIOUS
<1>2. /\ users = [u \in Ids |-> IF u \in Admins THEN [A!Fresh(u) EXCEPT !.admin = TRUE]
                                               ELSE A!Absent]
      /\ codes = [c \in Codes |-> [source |-> 0, state |-> "none"]]
      /\ transfers = [r \in Confirmations |-> A!Idle]
  BY <1>1 DEF A!Init
<1>3. ASSUME NEW u \in Admins
      PROVE  [A!Fresh(u) EXCEPT !.admin = TRUE] \in UserRows
             /\ [A!Fresh(u) EXCEPT !.admin = TRUE].admin
             /\ ~[A!Fresh(u) EXCEPT !.admin = TRUE].barred
  <2>1. A!Fresh(u) \in UserRows /\ ~A!Fresh(u).barred
    BY FreshRow, AccountsAssumption
  <2> QED
    BY <2>1 DEF UserRows
<1>4. [source |-> 0, state |-> "none"] \in CodeRows
  BY DEF CodeRows
<1>5. AccountTypes
  BY <1>2, <1>3, <1>4, AbsentRow, IdleTransfer DEF AccountTypes
<1>6. \A r \in Confirmations : Aimed(r)
  BY <1>2, IdleTransfer DEF Aimed
<1>7. PICK u \in Admins : TRUE
  BY AccountsAssumption
<1>8. u \in Ids /\ users[u].admin /\ ~users[u].barred
  BY <1>2, <1>3, AccountsAssumption
<1>9. u \in A!Present
  BY <1>8, AbsentRow DEF A!Present
<1>10. SomeoneCanAct
  BY <1>8, <1>9 DEF SomeoneCanAct, A!SomeoneCanAct
<1> QED
  BY <1>5, <1>6, <1>10 DEF Authority

(* Whoever is an admin has a row.                                          *)
LEMMA AdminsArePresent ==
  ASSUME NEW u \in Ids, users[u].admin
  PROVE  u \in A!Present
BY AbsentRow DEF A!Present

(* As long as no admin is touched there is somebody who can act.           *)
LEMMA AdminsKept ==
  ASSUME SomeoneCanAct, surrendered => surrendered', overtaken => overtaken',
         \A u \in Ids : users[u].admin => users'[u].admin /\ users'[u].barred = users[u].barred
  PROVE  SomeoneCanAct'
<1>1. CASE surrendered
  BY <1>1 DEF SomeoneCanAct, A!SomeoneCanAct
<1>2. CASE ~surrendered
  <2>1. PICK u \in A!Present : users[u].admin /\ (overtaken \/ ~users[u].barred)
    BY <1>2 DEF SomeoneCanAct, A!SomeoneCanAct
  <2>2. u \in Ids /\ users'[u].admin /\ users'[u].barred = users[u].barred
    BY <2>1 DEF A!Present
  <2>3. u \in A!Present'
    BY <2>2, AdminsArePresent, AbsentRow DEF A!Present
  <2>4. users'[u].admin /\ (overtaken' \/ ~users'[u].barred)
    BY <2>1, <2>2
  <2> QED
    BY <2>3, <2>4 DEF SomeoneCanAct, A!SomeoneCanAct
<1> QED
  BY <1>1, <1>2

(* An admin who can act is enough, and so is any admin once a request has  *)
(* outlived the authority it began with.                                   *)
LEMMA SomeAdmin ==
  ASSUME NEW u \in Ids, users'[u].admin, overtaken' \/ ~users'[u].barred
  PROVE  SomeoneCanAct'
<1>1. u \in A!Present'
  BY AbsentRow DEF A!Present
<1> QED
  BY <1>1 DEF SomeoneCanAct, A!SomeoneCanAct

(* A step of one request, or of none.                                      *)
LEMMA TransfersKept ==
  ASSUME Authority, NEW r \in Confirmations, NEW w \in Transfers,
         transfers' = [transfers EXCEPT ![r] = w], users' \in [Ids -> UserRows],
         codes' \in [Codes -> CodeRows], Aimed(r)', SomeoneCanAct'
  PROVE  Authority'
<1>1. transfers' \in [Confirmations -> Transfers]
      /\ \A q \in Confirmations \ {r} : transfers'[q] = transfers[q]
  BY AccountsNow
<1>2. ASSUME NEW q \in Confirmations \ {r} PROVE Aimed(q)'
  BY <1>1, AccountsNow DEF Aimed
<1> QED
  BY <1>1, <1>2 DEF Authority, AccountTypes

LEMMA EndKeeps ==
  ASSUME Authority, NEW r \in Confirmations, A!End(r), users' \in [Ids -> UserRows],
         codes' \in [Codes -> CodeRows], SomeoneCanAct'
  PROVE  Authority'
<1>1. transfers' = [transfers EXCEPT ![r] = A!Idle]
  BY DEF A!End
<1>2. transfers'[r].for = "idle"
  BY <1>1, AccountsNow, IdleTransfer
<1> QED
  BY <1>1, <1>2, IdleTransfer, TransfersKept DEF Aimed

LEMMA NoTransferMoves ==
  ASSUME Authority, UNCHANGED <<transfers, surrendered, overtaken>>,
         users' \in [Ids -> UserRows], codes' \in [Codes -> CodeRows],
         \A u \in Ids : users[u].admin => users'[u].admin /\ users'[u].barred = users[u].barred
  PROVE  Authority'
<1>1. SomeoneCanAct'
  BY AccountsNow, AdminsKept
<1>2. \A r \in Confirmations : Aimed(r)'
  BY AccountsNow DEF Aimed
<1> QED
  BY <1>1, <1>2, AccountsNow DEF Authority, AccountTypes

LEMMA FirstTouchKeeps ==
  ASSUME Authority, NEW t \in Telegram, A!FirstTouch(t)
  PROVE  Authority' /\ \A u \in A!Present : users'[u] = users[u]
<1>1. PICK u \in Ids \ A!Present : users' = [users EXCEPT ![u] = A!Fresh(t)]
  BY DEF A!FirstTouch
<1>2. users' \in [Ids -> UserRows] /\ \A w \in Ids \ {u} : users'[w] = users[w]
  BY <1>1, FreshRow, AccountsNow
<1>3. ~users[u].admin
  BY <1>1, AdminsArePresent
<1>4. UNCHANGED <<codes, transfers, surrendered, overtaken>>
  BY DEF A!FirstTouch, A!Observers
<1>5. Authority'
  BY <1>2, <1>3, <1>4, AccountsNow, NoTransferMoves
<1> QED
  BY <1>1, <1>2, <1>5 DEF A!Present

LEMMA ChildOrPinKeeps ==
  ASSUME Authority, NEW u \in Ids, A!InsertChild(u) \/ A!SetPin(u)
  PROVE  Authority' /\ \A w \in Ids : users[w].data => users'[w].data
<1>1. UNCHANGED <<codes, transfers, surrendered, overtaken>>
  BY DEF A!InsertChild, A!SetPin, A!Observers
<1>2. CASE A!InsertChild(u)
  <2>1. users' = [users EXCEPT ![u].data = TRUE]
    BY <1>2 DEF A!InsertChild
  <2>2. /\ users' \in [Ids -> UserRows] /\ \A w \in Ids \ {u} : users'[w] = users[w]
        /\ users'[u].data /\ users'[u].admin = users[u].admin
        /\ users'[u].barred = users[u].barred
    BY <2>1, SetData, AccountsNow
  <2> QED
    BY <1>1, <2>2, AccountsNow, NoTransferMoves
<1>3. CASE A!SetPin(u)
  <2>1. users' = [users EXCEPT ![u].pin = TRUE]
    BY <1>3 DEF A!SetPin
  <2>2. /\ users' \in [Ids -> UserRows] /\ \A w \in Ids \ {u} : users'[w] = users[w]
        /\ users'[u].data = users[u].data /\ users'[u].admin = users[u].admin
        /\ users'[u].barred = users[u].barred
    BY <2>1, SetPinned, AccountsNow
  <2> QED
    BY <1>1, <2>2, AccountsNow, NoTransferMoves
<1> QED
  BY <1>2, <1>3

LEMMA SetTrustKeeps ==
  ASSUME Authority, NEW a \in Ids, NEW u \in Ids, NEW v \in BOOLEAN, A!SetTrust(a, u, v)
  PROVE  Authority' /\ \A w \in Ids : users'[w].data = users[w].data
<1>1. /\ users' = [users EXCEPT ![u].trust = v]
      /\ UNCHANGED <<codes, transfers, surrendered, overtaken>>
  BY DEF A!SetTrust, A!Observers
<1>2. /\ users' \in [Ids -> UserRows] /\ \A w \in Ids \ {u} : users'[w] = users[w]
      /\ users'[u].data = users[u].data /\ users'[u].admin = users[u].admin
      /\ users'[u].barred = users[u].barred
  BY <1>1, SetDeposit, AccountsNow
<1> QED
  BY <1>1, <1>2, AccountsNow, NoTransferMoves

LEMMA ConsumedCodes == Authority => \A cs : A!Consume(cs) \in [Codes -> CodeRows]
<1>1. SUFFICES ASSUME Authority, NEW cs PROVE A!Consume(cs) \in [Codes -> CodeRows]
  OBVIOUS
<1>2. ASSUME NEW c \in Codes PROVE [codes[c] EXCEPT !.state = "consumed"] \in CodeRows
  <2>1. codes[c] \in CodeRows
    BY <1>1, AccountsNow
  <2> QED
    BY <2>1 DEF CodeRows
<1>3. A!Consume(cs) = [c \in Codes |-> IF c \in cs THEN [codes[c] EXCEPT !.state = "consumed"]
                                                   ELSE codes[c]]
  BY DEF A!Consume
<1>4. \A c \in Codes : codes[c] \in CodeRows
  BY <1>1, AccountsNow
<1> QED
  BY <1>2, <1>3, <1>4

LEMMA CodesKeep ==
  ASSUME Authority, UNCHANGED <<users, transfers, surrendered, overtaken>>,
         codes' \in [Codes -> CodeRows]
  PROVE  Authority'
BY AccountsNow, NoTransferMoves

LEMMA IssueCodeKeeps ==
  ASSUME Authority, NEW u \in Ids, NEW c \in Codes, A!IssueCode(u, c)
  PROVE  Authority' /\ users' = users
<1> DEFINE next(d) == CASE d = c -> [source |-> u, state |-> "live"]
                        [] codes[d].state \in {"consumed", "expired"} ->
                             [codes[d] EXCEPT !.state = "purged"]
                        [] OTHER -> A!Consume(A!LiveCodes(u))[d]
<1>1. UNCHANGED <<users, transfers, surrendered, overtaken>>
      /\ codes' = [d \in Codes |-> next(d)]
  BY DEF A!IssueCode, A!Observers
<1>2. ASSUME NEW d \in Codes PROVE next(d) \in CodeRows
  <2>1. [source |-> u, state |-> "live"] \in CodeRows
    BY DEF CodeRows
  <2>2. [codes[d] EXCEPT !.state = "purged"] \in CodeRows
    BY AccountsNow DEF CodeRows
  <2>3. A!Consume(A!LiveCodes(u))[d] \in CodeRows
    BY ConsumedCodes
  <2> QED
    BY <2>1, <2>2, <2>3
<1> HIDE DEF next
<1> QED
  BY <1>1, <1>2, CodesKeep

LEMMA CancelOrExpireKeeps ==
  ASSUME Authority, (\E u \in Ids : A!CancelActive(u)) \/ (\E c \in Codes : A!Expire(c))
  PROVE  Authority' /\ users' = users
<1>1. UNCHANGED <<users, transfers, surrendered, overtaken>>
  BY DEF A!CancelActive, A!Expire, A!Observers
<1>2. codes' \in [Codes -> CodeRows]
  BY AccountsNow, ConsumedCodes DEF A!CancelActive, A!Expire, CodeRows
<1> QED
  BY <1>1, <1>2, CodesKeep

(* A request that is read: what it is about are rows of this moment.       *)
LEMMA BeginKeeps ==
  ASSUME Authority, NEW r \in Confirmations, NEW w \in Transfers, A!Begin(r, w),
         w.for # "idle" => w.target \in Ids, w.for = "confirm" => w.code \in Codes,
         w.for \in {"role", "bar"} => w.actor \in Ids,
         w.for = "role" \/ (w.for = "bar" /\ w.value) => w.actor # w.target
  PROVE  Authority' /\ users' = users
<1>1. transfers' = [transfers EXCEPT ![r] = w]
      /\ UNCHANGED <<users, codes, surrendered, overtaken>>
  BY DEF A!Begin, A!Observers
<1>2. transfers'[r] = w
  BY <1>1, AccountsNow
<1>3. Aimed(r)'
  BY <1>2 DEF Aimed
<1>4. SomeoneCanAct'
  BY <1>1, AccountsNow, AdminsKept
<1> QED
  BY <1>1, <1>3, <1>4, AccountsNow, TransfersKept

LEMMA ReadConfirmKeeps ==
  ASSUME Authority, NEW r \in Confirmations, NEW u \in Ids, NEW c \in Codes,
         A!ReadConfirm(r, u, c)
  PROVE  Authority' /\ users' = users
<1>1. PICK row1 : row1 = [tg |-> users[u].tg, pin |-> users[u].pin,
                          trust |-> users[u].trust, data |-> users[u].data]
  OBVIOUS
<1>2. row1 \in Copies
  <2>1. users[u] \in UserRows
    BY AccountsNow
  <2> QED
    BY <1>1, <2>1 DEF UserRows, Copies
<1>3. PICK x : x = [A!Idle EXCEPT !.for = "confirm"]
  OBVIOUS
<1>4. PICK y : y = [x EXCEPT !.target = u]
  OBVIOUS
<1>5. PICK z : z = [y EXCEPT !.code = c]
  OBVIOUS
<1>6. PICK w : w = [z EXCEPT !.copy = row1]
  OBVIOUS
<1>7. x \in Transfers /\ x.for = "confirm"
  BY <1>3, IdleTransfer DEF Transfers
<1>8. y \in Transfers /\ y.for = "confirm" /\ y.target = u
  BY <1>4, <1>7 DEF Transfers
<1>9. z \in Transfers /\ z.for = "confirm" /\ z.target = u /\ z.code = c
  BY <1>5, <1>8 DEF Transfers
<1>10. w \in Transfers /\ w.for = "confirm" /\ w.target = u /\ w.code = c
  BY <1>2, <1>6, <1>9 DEF Transfers
<1>11. A!Begin(r, w)
  <2>1. w = [A!Idle EXCEPT !.for = "confirm", !.target = u, !.code = c, !.copy = row1]
    BY <1>3, <1>4, <1>5, <1>6, IdleTransfer DEF Transfers
  <2> QED
    BY <1>1, <2>1 DEF A!ReadConfirm
<1> QED
  BY <1>10, <1>11, BeginKeeps

LEMMA ReadAdminKeeps ==
  ASSUME Authority, NEW r \in Confirmations, NEW a \in Ids, NEW u \in Ids, NEW v \in BOOLEAN,
         A!ReadRole(r, a, u, v) \/ A!ReadBar(r, a, u, v)
  PROVE  Authority' /\ users' = users
<1>1. ASSUME NEW for \in {"role", "bar"},
             A!Begin(r, [A!Idle EXCEPT !.for = for, !.actor = a, !.target = u, !.value = v]),
             for = "role" \/ v => a # u
      PROVE  Authority' /\ users' = users
  <2>1. PICK x : x = [A!Idle EXCEPT !.for = for]
    OBVIOUS
  <2>2. PICK y : y = [x EXCEPT !.actor = a]
    OBVIOUS
  <2>3. PICK z : z = [y EXCEPT !.target = u]
    OBVIOUS
  <2>4. PICK w : w = [z EXCEPT !.value = v]
    OBVIOUS
  <2>5. x \in Transfers /\ x.for = for
    BY <2>1, IdleTransfer DEF Transfers
  <2>6. y \in Transfers /\ y.for = for /\ y.actor = a
    BY <2>2, <2>5 DEF Transfers
  <2>7. z \in Transfers /\ z.for = for /\ z.actor = a /\ z.target = u
    BY <2>3, <2>6 DEF Transfers
  <2>8. w \in Transfers /\ w.for = for /\ w.actor = a /\ w.target = u /\ w.value = v
    BY <2>4, <2>7 DEF Transfers
  <2>9. A!Begin(r, w)
    <3>1. w = [A!Idle EXCEPT !.for = for, !.actor = a, !.target = u, !.value = v]
      BY <2>1, <2>2, <2>3, <2>4, IdleTransfer DEF Transfers
    <3> QED
      BY <1>1, <3>1
  <2> QED
    BY <1>1, <2>8, <2>9, BeginKeeps
<1>2. CASE A!ReadRole(r, a, u, v)
  <2>1. a # u
    BY <1>2 DEF A!ReadRole, A!NotSelf
  <2> QED
    BY <1>1, <1>2, <2>1 DEF A!ReadRole
<1>3. CASE A!ReadBar(r, a, u, v)
  <2>1. v => a # u
    BY <1>3 DEF A!ReadBar, A!NotSelf
  <2> QED
    BY <1>1, <1>3, <2>1 DEF A!ReadBar
<1> QED
  BY <1>2, <1>3

(* More than one admin: another one than any.                              *)
LEMMA AnotherAdmin ==
  ASSUME NEW u, A!NotLastAdmin(u)
  PROVE  \E w \in Ids : w # u /\ users[w].admin
<1> DEFINE S == {w \in A!Present : users[w].admin}
<1>1. Cardinality(S) > 1
  BY DEF A!NotLastAdmin, A!Cardinality, Cardinality
<1>2. S \subseteq Ids /\ IsFiniteSet(S)
  BY AccountsAssumption, FS_Subset DEF A!Present
<1>3. ~(S \subseteq {u})
  <2>1. SUFFICES ASSUME S \subseteq {u} PROVE FALSE
    OBVIOUS
  <2>2. IsFiniteSet({u}) /\ Cardinality({u}) = 1
    BY FS_Singleton
  <2>3. Cardinality(S) \in Nat /\ Cardinality(S) =< 1
    BY <1>2, <2>1, <2>2, FS_Subset, FS_CardinalityType
  <2> QED
    BY <1>1, <2>3
<1> QED
  BY <1>2, <1>3

(* An admin demotes another one under the lock on all admins.  Whoever did *)
(* it is left, unless they lost their own authority meanwhile.             *)
LEMMA SetRoleKeeps ==
  ASSUME Authority, NEW r \in Confirmations, A!SetRole(r)
  PROVE  Authority' /\ \A w \in Ids : users'[w].data = users[w].data
<1> DEFINE a == transfers[r].actor
           u == transfers[r].target
           v == transfers[r].value
<1>1. /\ A!End(r) /\ users' = [users EXCEPT ![u].admin = v]
      /\ ~v => A!NotLastAdmin(u)
      /\ overtaken' = (overtaken \/ ~A!StillAuthorised(r))
      /\ codes' = codes /\ surrendered' = surrendered
  BY DEF A!SetRole
<1>2. a \in Ids /\ u \in Ids /\ a # u /\ v \in BOOLEAN
  BY AccountsNow DEF A!SetRole, Aimed, Transfers
<1>3. /\ users' \in [Ids -> UserRows] /\ \A w \in Ids \ {u} : users'[w] = users[w]
      /\ users'[u].data = users[u].data /\ users'[u].admin = v
      /\ users'[u].barred = users[u].barred
  BY <1>1, <1>2, SetAdmin, AccountsNow
<1>4. SomeoneCanAct'
  <2>1. CASE v
    BY <1>1, <1>3, <2>1, AccountsNow, AdminsKept
  <2>2. CASE ~v /\ A!StillAuthorised(r)
    <3>1. users'[a].admin /\ ~users'[a].barred
      BY <1>2, <1>3, <2>2 DEF A!StillAuthorised, A!MayAct
    <3> QED
      BY <1>2, <3>1, SomeAdmin
  <2>3. CASE ~v /\ ~A!StillAuthorised(r)
    <3>1. PICK w \in Ids : w # u /\ users[w].admin
      BY <1>1, <2>3, AnotherAdmin
    <3>2. users'[w].admin
      BY <1>3, <3>1
    <3> QED
      BY <1>1, <2>3, <3>2, SomeAdmin
  <2> QED
    BY <2>1, <2>2, <2>3
<1>5. Authority'
  BY <1>1, <1>3, <1>4, AccountsNow, EndKeeps
<1> QED
  BY <1>3, <1>5

LEMMA BarKeeps ==
  ASSUME Authority, NEW r \in Confirmations, A!Bar(r)
  PROVE  Authority' /\ \A w \in Ids : users'[w].data = users[w].data
<1> DEFINE a == transfers[r].actor
           u == transfers[r].target
           v == transfers[r].value
<1>1. /\ A!End(r) /\ users' = [users EXCEPT ![u].barred = v]
      /\ overtaken' = (overtaken \/ ~A!StillAuthorised(r))
      /\ codes' = codes /\ surrendered' = surrendered
  BY DEF A!Bar
<1>2. a \in Ids /\ u \in Ids /\ (v => a # u) /\ v \in BOOLEAN
  BY AccountsNow DEF A!Bar, Aimed, Transfers
<1>3. /\ users' \in [Ids -> UserRows] /\ \A w \in Ids \ {u} : users'[w] = users[w]
      /\ users'[u].data = users[u].data /\ users'[u].admin = users[u].admin
      /\ users'[u].barred = v
  BY <1>1, <1>2, SetBarred, AccountsNow
<1>4. SomeoneCanAct'
  <2>1. CASE surrendered
    BY <1>1, <2>1 DEF SomeoneCanAct, A!SomeoneCanAct
  <2>2. CASE ~surrendered
    <3>1. PICK w \in A!Present : users[w].admin /\ (overtaken \/ ~users[w].barred)
      BY <2>2, AccountsNow DEF SomeoneCanAct, A!SomeoneCanAct
    <3>2. w \in Ids /\ users'[w].admin
      BY <1>3, <3>1 DEF A!Present
    <3>3. CASE ~v \/ ~A!StillAuthorised(r)
      <4>1. overtaken' \/ ~users'[w].barred
        BY <1>1, <1>3, <3>1, <3>2, <3>3
      <4> QED
        BY <3>2, <4>1, SomeAdmin
    <3>4. CASE v /\ A!StillAuthorised(r)
      <4>1. users'[a].admin /\ ~users'[a].barred
        BY <1>2, <1>3, <3>4 DEF A!StillAuthorised, A!MayAct
      <4> QED
        BY <1>2, <4>1, SomeAdmin
    <3> QED
      BY <3>3, <3>4
  <2> QED
    BY <2>1, <2>2
<1>5. Authority'
  BY <1>1, <1>3, <1>4, AccountsNow, EndKeeps
<1> QED
  BY <1>3, <1>5

(* A confirmed transfer gives one row up, on which nothing hangs.          *)
LEMMA ConfirmKeeps ==
  ASSUME Authority, NEW r \in Confirmations, A!ConfirmTransfer(r)
  PROVE  Authority' /\ \A u \in Ids : users[u].data => users'[u].data
<1> DEFINE target == transfers[r].target
           copy == transfers[r].copy
           c == transfers[r].code
           source == codes[c].source
<1>1. A!End(r) /\ transfers[r].for = "confirm"
  BY DEF A!ConfirmTransfer
<1>2. /\ target \in Ids /\ c \in Codes /\ copy \in Copies
      /\ copy.tg \in Telegram \cup {A!NoUser}
  BY <1>1, AccountsNow DEF Aimed, Transfers, Copies
<1>3. CASE source \notin A!Present
  <2>1. /\ codes' = A!Consume({c} \cap A!LiveCodes(source))
        /\ UNCHANGED <<users, surrendered, overtaken>>
    BY <1>3 DEF A!ConfirmTransfer, A!Observers
  <2>2. SomeoneCanAct'
    BY <2>1, AccountsNow, AdminsKept
  <2> QED
    BY <1>1, <2>1, <2>2, AccountsNow, ConsumedCodes, EndKeeps
<1>4. CASE source \in A!Present
  <2>1. /\ source # target /\ ~A!HasTradableData(target, copy)
        /\ users' = [users EXCEPT ![target] = A!Absent, ![source].tg = copy.tg]
        /\ codes' = A!Consume({c})
        /\ surrendered' = (surrendered \/ users[target].admin)
        /\ overtaken' = overtaken
    BY <1>4 DEF A!ConfirmTransfer
  <2>2. source \in Ids
    BY <1>4 DEF A!Present
  <2>3. PICK f : f = [users EXCEPT ![target] = A!Absent]
    OBVIOUS
  <2>4. f \in [Ids -> UserRows] /\ f[target] = A!Absent
        /\ \A u \in Ids \ {target} : f[u] = users[u]
    BY <1>2, <2>3, AbsentRow, AccountsNow
  <2>5. users' = [f EXCEPT ![source].tg = copy.tg]
    BY <2>1, <2>3, AccountsNow
  <2>6. /\ users' \in [Ids -> UserRows] /\ \A u \in Ids \ {source} : users'[u] = f[u]
        /\ users'[source].data = f[source].data /\ users'[source].admin = f[source].admin
        /\ users'[source].barred = f[source].barred
    BY <1>2, <2>2, <2>4, <2>5 DEF UserRows
  <2>7. ~users[target].data
    BY <2>1 DEF A!HasTradableData
  <2>8. SomeoneCanAct'
    <3>1. CASE users[target].admin
      BY <2>1, <3>1 DEF SomeoneCanAct, A!SomeoneCanAct
    <3>2. CASE ~users[target].admin
      <4>1. \A u \in Ids : users[u].admin => users'[u].admin /\ users'[u].barred = users[u].barred
        BY <2>2, <2>4, <2>6, <3>2
      <4> QED
        BY <2>1, <4>1, AccountsNow, AdminsKept
    <3> QED
      BY <3>1, <3>2
  <2>9. \A u \in Ids : users[u].data => users'[u].data
    BY <2>2, <2>4, <2>6, <2>7
  <2>10. codes' \in [Codes -> CodeRows]
    BY <2>1, ConsumedCodes
  <2> QED
    BY <1>1, <2>6, <2>8, <2>9, <2>10, EndKeeps
<1> QED
  BY <1>3, <1>4

LEMMA GiveKeeps ==
  ASSUME Authority, NEW r \in Confirmations, A!Give(r)
  PROVE  Authority' /\ users' = users
<1>1. A!End(r) /\ UNCHANGED <<users, codes, surrendered, overtaken>>
  BY DEF A!Give, A!Observers
<1>2. SomeoneCanAct'
  BY <1>1, AccountsNow, AdminsKept
<1> QED
  BY <1>1, <1>2, AccountsNow, EndKeeps

LEMMA AuthorityStep ==
  Authority /\ [A!Next]_(A!vars) =>
    Authority' /\ \A u \in A!Present : users[u].data => users'[u].data
<1> SUFFICES ASSUME Authority, [A!Next]_(A!vars)
             PROVE  Authority' /\ \A u \in A!Present : users[u].data => users'[u].data
  OBVIOUS
<1>0. A!Present \subseteq Ids
  BY DEF A!Present
<1>1. ASSUME NEW t \in Telegram, A!FirstTouch(t)
      PROVE  Authority' /\ \A u \in A!Present : users[u].data => users'[u].data
  BY <1>1, FirstTouchKeeps
<1>2. ASSUME NEW u \in Ids, A!InsertChild(u) \/ A!SetPin(u)
      PROVE  Authority' /\ \A w \in A!Present : users[w].data => users'[w].data
  BY <1>0, <1>2, ChildOrPinKeeps
<1>3. CASE (\E u \in Ids : A!CancelActive(u)) \/ (\E c \in Codes : A!Expire(c))
  BY <1>3, CancelOrExpireKeeps
<1>4. ASSUME NEW u \in Ids, NEW c \in Codes, A!IssueCode(u, c)
      PROVE  Authority' /\ users' = users
  BY <1>4, IssueCodeKeeps
<1>5. ASSUME NEW r \in Confirmations, NEW u \in Ids, NEW c \in Codes, A!ReadConfirm(r, u, c)
      PROVE  Authority' /\ users' = users
  BY <1>5, ReadConfirmKeeps
<1>6. ASSUME NEW r \in Confirmations, NEW a \in Ids, NEW u \in Ids, NEW v \in BOOLEAN,
             A!ReadRole(r, a, u, v) \/ A!ReadBar(r, a, u, v)
      PROVE  Authority' /\ users' = users
  BY <1>6, ReadAdminKeeps
<1>7. ASSUME NEW r \in Confirmations, A!ConfirmTransfer(r) \/ A!SetRole(r) \/ A!Bar(r) \/ A!Give(r)
      PROVE  Authority' /\ \A u \in A!Present : users[u].data => users'[u].data
  BY <1>0, <1>7, ConfirmKeeps, SetRoleKeeps, BarKeeps, GiveKeeps
<1>8. ASSUME NEW a \in Ids, NEW u \in Ids, NEW v \in BOOLEAN, A!SetTrust(a, u, v)
      PROVE  Authority' /\ \A w \in A!Present : users[w].data => users'[w].data
  BY <1>0, <1>8, SetTrustKeeps
<1>9. CASE UNCHANGED A!vars
  <2>1. UNCHANGED <<users, codes, transfers, surrendered, overtaken>>
    BY <1>9 DEF A!vars
  <2> QED
    BY <2>1, AccountsNow, NoTransferMoves
<1> QED
  BY <1>1, <1>2, <1>3, <1>4, <1>5, <1>6, <1>7, <1>8, <1>9 DEF A!Next

LEMMA NothingIsDiscarded ==
  Authority /\ [A!Next]_(A!vars) => \A u \in A!Present : users'[u] = A!Absent => ~users[u].data
BY AuthorityStep, AbsentRow

LEMMA TrustIsOverlooked ==
  [A!Next]_(A!vars) => \A u \in lost' \ lost : users[u].trust => A!Overlooked(u)
<1> SUFFICES ASSUME [A!Next]_(A!vars), NEW u \in lost' \ lost, users[u].trust
             PROVE  A!Overlooked(u)
  OBVIOUS
<1>1. PICK r \in Confirmations : A!ConfirmTransfer(r)
  BY DEF A!Next, A!vars, A!Observers, A!FirstTouch, A!InsertChild, A!SetPin, A!CancelActive,
         A!IssueCode, A!Expire, A!ReadConfirm, A!ReadRole, A!ReadBar, A!Begin, A!SetTrust,
         A!SetRole, A!Bar, A!Give
<1>2. transfers[r].for = "confirm" /\ u = transfers[r].target
      /\ ~A!HasTradableData(u, transfers[r].copy)
  BY <1>1 DEF A!ConfirmTransfer, A!Observers
<1> QED
  BY <1>2 DEF A!Overlooked, A!HasTradableData

-----------------------------------------------------------------------------
(* Maintenance: how long writes go on.                                     *)

CacheRows == [on : BOOLEAN, left : 0..Ttl, error : BOOLEAN]
Loads == [stage : {"none", "asked", "read"}, on : BOOLEAN, age : 0..MaxLoad]

(* A read that found the flag off is at least as old as the time since,    *)
(* and what is remembered of it does not outlive the window.               *)
ReadInTime(p) == load[p].stage = "read" /\ ~load[p].on => since =< load[p].age

KeptInTime(p) ==
  cache[p].left > 0 /\ ~cache[p].on /\ ~cache[p].error => since + cache[p].left =< M!Soon

Stopping ==
  /\ M!TypeOK /\ WritesStopSoon
  /\ ~flag => since = 0
  /\ \A p \in Processes : ReadInTime(p) /\ KeptInTime(p)

LEMMA MaintenanceNow ==
  ASSUME Stopping
  PROVE  /\ flag \in BOOLEAN /\ failClosed \in BOOLEAN /\ flipping \subseteq Processes
         /\ cache \in [Processes -> CacheRows] /\ load \in [Processes -> Loads]
         /\ since \in 0..M!Soon + 1 /\ late \in 0..M!Soon
         /\ ~flag => since = 0
         /\ \A p \in Processes : ReadInTime(p) /\ KeptInTime(p)
         /\ Ttl \in Nat /\ MaxLoad \in Nat /\ M!Soon \in Nat /\ M!Soon = Ttl + MaxLoad
BY MaintenanceAssumption
   DEF Stopping, M!TypeOK, CacheRows, Loads, WritesStopSoon, M!WritesStopSoon, M!Soon

LEMMA StoppingNext ==
  ASSUME flag' \in BOOLEAN, failClosed' \in BOOLEAN, flipping' \subseteq Processes,
         cache' \in [Processes -> CacheRows], load' \in [Processes -> Loads],
         since' \in 0..M!Soon + 1, late' \in 0..M!Soon, ~flag' => since' = 0,
         \A p \in Processes : ReadInTime(p)' /\ KeptInTime(p)'
  PROVE  Stopping'
BY MaintenanceAssumption
   DEF Stopping, M!TypeOK, CacheRows, Loads, WritesStopSoon, M!WritesStopSoon, M!Soon

LEMMA NothingRemembered ==
  /\ M!NoCache \in CacheRows /\ M!NoCache.left = 0
  /\ M!NoLoad \in Loads /\ M!NoLoad.stage = "none"
BY MaintenanceAssumption DEF M!NoCache, M!NoLoad, CacheRows, Loads

LEMMA StoppingInit == M!Init => Stopping
<1>1. SUFFICES ASSUME M!Init PROVE Stopping
  OBVIOUS
<1>2. /\ cache = [p \in Processes |-> M!NoCache] /\ load = [p \in Processes |-> M!NoLoad]
      /\ flag \in BOOLEAN /\ failClosed \in BOOLEAN /\ flipping = {} /\ late = 0
      /\ since = IF flag THEN M!Soon + 1 ELSE 0
  BY <1>1 DEF M!Init
<1>3. cache \in [Processes -> CacheRows] /\ load \in [Processes -> Loads]
  BY <1>2, NothingRemembered
<1>4. \A p \in Processes : ReadInTime(p) /\ KeptInTime(p)
  BY <1>2, NothingRemembered DEF ReadInTime, KeptInTime
<1>5. M!Soon \in Nat
  BY MaintenanceAssumption DEF M!Soon
<1>6. since \in 0..M!Soon + 1 /\ late \in 0..M!Soon /\ (~flag => since = 0)
  BY <1>2, <1>5
<1> QED
  BY <1>2, <1>3, <1>4, <1>5, <1>6
     DEF Stopping, M!TypeOK, CacheRows, Loads, WritesStopSoon, M!WritesStopSoon

(* A write that is let through is late by no more than the time since.     *)
LEMMA LateWrite ==
  ASSUME Stopping, NEW on \in BOOLEAN, M!Write(on), ~on => since =< M!Soon
  PROVE  late' \in 0..M!Soon
BY MaintenanceNow DEF M!Write

LEMMA WriteStops ==
  ASSUME Stopping, NEW p \in Processes, M!WriteFromCache(p)
  PROVE  Stopping'
<1>1. UNCHANGED <<flag, cache, load, flipping, failClosed, since>> /\ cache[p].left > 0
  BY DEF M!WriteFromCache, M!Fresh
<1>2. cache[p].on \in BOOLEAN /\ cache[p].left \in Nat
  BY MaintenanceNow DEF CacheRows
<1>3. late' \in 0..M!Soon
  <2>1. CASE cache[p].error
    BY <2>1, MaintenanceNow DEF M!WriteFromCache
  <2>2. CASE ~cache[p].error
    <3>1. M!Write(cache[p].on)
      BY <2>2 DEF M!WriteFromCache
    <3>2. ~cache[p].on => since =< M!Soon
      BY <1>1, <1>2, <2>2, MaintenanceNow DEF KeptInTime
    <3> QED
      BY <1>2, <3>1, <3>2, LateWrite
  <2> QED
    BY <2>1, <2>2
<1> QED
  BY <1>1, <1>3, MaintenanceNow, StoppingNext DEF ReadInTime, KeptInTime, M!Soon

(* The steps of one load.                                                  *)
LEMMA OneLoadMoves ==
  ASSUME Stopping, NEW p \in Processes, UNCHANGED <<flag, failClosed, since>>,
         flipping' \subseteq Processes, late' \in 0..M!Soon,
         NEW c \in CacheRows, cache' = [cache EXCEPT ![p] = c],
         NEW l \in Loads, load' = [load EXCEPT ![p] = l],
         l.stage = "read" /\ ~l.on => since =< l.age,
         c.left > 0 /\ ~c.on /\ ~c.error => since + c.left =< M!Soon
  PROVE  Stopping'
<1>1. /\ cache' \in [Processes -> CacheRows] /\ load' \in [Processes -> Loads]
      /\ cache'[p] = c /\ load'[p] = l
      /\ \A q \in Processes \ {p} : cache'[q] = cache[q] /\ load'[q] = load[q]
  BY MaintenanceNow
<1>2. ASSUME NEW q \in Processes PROVE ReadInTime(q)' /\ KeptInTime(q)'
  <2>1. CASE q = p
    BY <1>1, <2>1 DEF ReadInTime, KeptInTime, M!Soon
  <2>2. CASE q # p
    BY <1>1, <2>2, MaintenanceNow DEF ReadInTime, KeptInTime, M!Soon
  <2> QED
    BY <2>1, <2>2
<1> QED
  BY <1>1, <1>2, MaintenanceNow, StoppingNext

LEMMA LoadStops ==
  ASSUME Stopping, NEW p \in Processes,
         M!StartLoad(p) \/ M!ReadRow(p) \/ M!EndLoad(p) \/ M!LoadFails(p) \/ M!Forget(p)
  PROVE  Stopping'
<1>1. cache[p] \in CacheRows /\ load[p] \in Loads
  BY MaintenanceNow
<1>2. CASE M!StartLoad(p)
  <2>1. PICK l : l = [load[p] EXCEPT !.stage = "asked"]
    OBVIOUS
  <2>2. l \in Loads /\ l.stage = "asked"
    BY <1>1, <2>1 DEF Loads
  <2>3. load' = [load EXCEPT ![p] = l] /\ cache' = [cache EXCEPT ![p] = cache[p]]
        /\ UNCHANGED <<flag, flipping, failClosed, since, late>>
    BY <1>2, <2>1, MaintenanceNow DEF M!StartLoad
  <2> QED
    BY <1>1, <2>2, <2>3, MaintenanceNow, OneLoadMoves DEF KeptInTime
<1>3. CASE M!ReadRow(p)
  <2>1. PICK l : l = [stage |-> "read", on |-> flag, age |-> 0]
    OBVIOUS
  <2>2. l \in Loads /\ l.on = flag /\ l.age = 0
    BY <2>1, MaintenanceNow DEF Loads
  <2>3. load' = [load EXCEPT ![p] = l] /\ cache' = [cache EXCEPT ![p] = cache[p]]
        /\ UNCHANGED <<flag, flipping, failClosed, since, late>>
    BY <1>3, <2>1, MaintenanceNow DEF M!ReadRow
  <2>4. ~l.on => since =< l.age
    BY <2>2, MaintenanceNow
  <2> QED
    BY <1>1, <2>2, <2>3, <2>4, MaintenanceNow, OneLoadMoves DEF KeptInTime
<1>4. CASE M!EndLoad(p)
  <2>1. PICK c : c = [on |-> load[p].on, left |-> Ttl, error |-> FALSE]
    OBVIOUS
  <2>2. c \in CacheRows /\ c.on = load[p].on /\ c.left = Ttl
    BY <1>1, <2>1, MaintenanceNow DEF CacheRows, Loads
  <2>3. /\ load' = [load EXCEPT ![p] = M!NoLoad] /\ cache' = [cache EXCEPT ![p] = c]
        /\ M!Write(load[p].on) /\ load[p].stage = "read"
        /\ UNCHANGED <<flag, flipping, failClosed, since>>
    BY <1>4, <2>1 DEF M!EndLoad
  <2>4. ~load[p].on => since =< MaxLoad
    BY <1>1, <2>3, MaintenanceNow DEF ReadInTime, Loads
  <2>5. load[p].on \in BOOLEAN
    BY <1>1 DEF Loads
  <2>6. late' \in 0..M!Soon
    BY <2>3, <2>4, <2>5, MaintenanceNow, LateWrite
  <2>7. ~c.on => since + c.left =< M!Soon
    BY <2>2, <2>4, MaintenanceNow
  <2> QED
    BY <2>2, <2>3, <2>6, <2>7, MaintenanceNow, NothingRemembered, OneLoadMoves
<1>5. CASE M!LoadFails(p)
  <2>1. PICK c : c = [on |-> failClosed, left |-> 1, error |-> TRUE]
    OBVIOUS
  <2>2. c \in CacheRows /\ c.error
    BY <2>1, MaintenanceNow, MaintenanceAssumption DEF CacheRows
  <2>3. /\ load' = [load EXCEPT ![p] = M!NoLoad] /\ cache' = [cache EXCEPT ![p] = c]
        /\ UNCHANGED <<flag, flipping, failClosed, since, late>>
    BY <1>5, <2>1 DEF M!LoadFails
  <2> QED
    BY <2>2, <2>3, MaintenanceNow, NothingRemembered, OneLoadMoves
<1>6. CASE M!Forget(p)
  <2>1. /\ cache' = [cache EXCEPT ![p] = M!NoCache] /\ load' = [load EXCEPT ![p] = load[p]]
        /\ flipping' \subseteq Processes /\ UNCHANGED <<flag, failClosed, since, late>>
    BY <1>6, MaintenanceNow DEF M!Forget
  <2>2. load[p].stage = "read" /\ ~load[p].on => since =< load[p].age
    BY MaintenanceNow DEF ReadInTime
  <2>3. late' \in 0..M!Soon
    BY <2>1, MaintenanceNow
  <2>4. ~(M!NoCache.left > 0)
    BY NothingRemembered
  <2> QED
    BY <1>1, <2>1, <2>2, <2>3, <2>4, NothingRemembered, OneLoadMoves
<1> QED
  BY <1>2, <1>3, <1>4, <1>5, <1>6

LEMMA FlipStops ==
  ASSUME Stopping, NEW p \in Processes, M!Flip(p)
  PROVE  Stopping'
<1>1. /\ flag' = ~flag /\ flipping' = {p} /\ since' = IF flag' THEN since ELSE 0
      /\ UNCHANGED <<cache, load, failClosed, late>>
  BY DEF M!Flip
<1>2. since' \in 0..M!Soon + 1 /\ since' =< since /\ flag' \in BOOLEAN /\ (~flag' => since' = 0)
  BY <1>1, MaintenanceNow
<1>3. ASSUME NEW q \in Processes PROVE ReadInTime(q)' /\ KeptInTime(q)'
  <2>1. cache[q].left \in Nat /\ load[q].age \in Nat /\ since \in Nat /\ since' \in Nat
    BY <1>2, MaintenanceNow DEF CacheRows, Loads
  <2>2. ReadInTime(q)'
    BY <1>1, <1>2, <2>1, MaintenanceNow DEF ReadInTime
  <2>3. KeptInTime(q)'
    BY <1>1, <1>2, <2>1, MaintenanceNow DEF KeptInTime, M!Soon
  <2> QED
    BY <2>2, <2>3
<1> QED
  BY <1>1, <1>2, <1>3, MaintenanceNow, StoppingNext

(* What is remembered ages as fast as the time since the flag was off.     *)
LEMMA TickStops ==
  ASSUME Stopping, M!Tick
  PROVE  Stopping'
<1>1. /\ \A p \in Processes : load[p].age < MaxLoad
      /\ UNCHANGED <<flag, flipping, failClosed, late>>
      /\ since' = IF ~flag THEN 0 ELSE IF since > M!Soon THEN since ELSE since + 1
  BY DEF M!Tick
<1>2. since' \in 0..M!Soon + 1 /\ since' =< since + 1 /\ (~flag' => since' = 0)
  BY <1>1, MaintenanceNow
<1>3. ASSUME NEW p \in Processes
      PROVE  /\ cache'[p] \in CacheRows /\ cache'[p].on = cache[p].on
             /\ cache'[p].error = cache[p].error
             /\ cache'[p].left = IF cache[p].left > 0 THEN cache[p].left - 1 ELSE 0
  <2>1. cache'[p] = [cache[p] EXCEPT !.left = IF @ > 0 THEN @ - 1 ELSE 0]
    BY DEF M!Tick
  <2>2. cache[p] \in CacheRows
    BY MaintenanceNow
  <2>3. PICK n : n = IF cache[p].left > 0 THEN cache[p].left - 1 ELSE 0
    OBVIOUS
  <2>4. n \in 0..Ttl
    BY <2>2, <2>3, MaintenanceNow DEF CacheRows
  <2>5. cache'[p] = [cache[p] EXCEPT !.left = n]
    BY <2>1, <2>2, <2>3 DEF CacheRows
  <2> QED
    BY <2>2, <2>3, <2>4, <2>5 DEF CacheRows
<1>4. ASSUME NEW p \in Processes
      PROVE  /\ load'[p] \in Loads /\ load'[p].on = load[p].on /\ load'[p].stage = load[p].stage
             /\ load'[p].age = IF load[p].stage = "read" THEN load[p].age + 1 ELSE load[p].age
  <2>1. load'[p] = [load[p] EXCEPT !.age = IF load[p].stage = "read" THEN @ + 1 ELSE @]
    BY DEF M!Tick
  <2>2. load[p] \in Loads
    BY MaintenanceNow
  <2>3. PICK n : n = IF load[p].stage = "read" THEN load[p].age + 1 ELSE load[p].age
    OBVIOUS
  <2>4. n \in 0..MaxLoad
    BY <1>1, <2>2, <2>3, MaintenanceNow DEF Loads
  <2>5. load'[p] = [load[p] EXCEPT !.age = n]
    BY <2>1, <2>2, <2>3 DEF Loads
  <2> QED
    BY <2>2, <2>3, <2>4, <2>5 DEF Loads
<1>5. cache' \in [Processes -> CacheRows] /\ load' \in [Processes -> Loads]
  BY <1>3, <1>4 DEF M!Tick
<1>6. ASSUME NEW p \in Processes PROVE ReadInTime(p)' /\ KeptInTime(p)'
  <2>1. cache[p].left \in Nat /\ load[p].age \in Nat /\ since \in Nat /\ since' \in Nat
    BY <1>2, MaintenanceNow DEF CacheRows, Loads
  <2>2. ReadInTime(p)'
    BY <1>2, <1>4, <2>1, MaintenanceNow DEF ReadInTime
  <2>3. KeptInTime(p)'
    BY <1>2, <1>3, <2>1, MaintenanceNow DEF KeptInTime, M!Soon
  <2> QED
    BY <2>2, <2>3
<1> QED
  BY <1>1, <1>2, <1>5, <1>6, MaintenanceNow, StoppingNext

LEMMA StoppingStep == Stopping /\ [M!Next]_(M!vars) => Stopping'
<1> SUFFICES ASSUME Stopping, [M!Next]_(M!vars) PROVE Stopping'
  OBVIOUS
<1>1. CASE UNCHANGED M!vars
  <2>1. UNCHANGED <<flag, cache, load, flipping, failClosed, since, late>>
    BY <1>1 DEF M!vars
  <2> QED
    BY <2>1 DEF Stopping, M!TypeOK, M!Soon, WritesStopSoon, M!WritesStopSoon, ReadInTime,
                KeptInTime
<1> QED
  BY <1>1, WriteStops, LoadStops, FlipStops, TickStops DEF M!Next

-----------------------------------------------------------------------------
(* Broadcast: what the row claims.                                         *)

(* A finite set of numbers can be listed in order.                         *)
Lists(s, S) ==
  /\ s \in [1..Cardinality(S) -> S]
  /\ \A i, j \in 1..Cardinality(S) : i < j => s[i] < s[j]

LEMMA SetsCanBeListed ==
  ASSUME NEW S \in SUBSET Nat, IsFiniteSet(S)
  PROVE  \E s : Lists(s, S)
<1> DEFINE Sizes == {n \in Nat : \A T \in SUBSET Nat :
                       IsFiniteSet(T) /\ Cardinality(T) = n => \E s : Lists(s, T)}
<1>1. 0 \in Sizes
  <2>1. SUFFICES ASSUME NEW T \in SUBSET Nat, IsFiniteSet(T), Cardinality(T) = 0
                 PROVE  \E s : Lists(s, T)
    OBVIOUS
  <2>2. T = {} /\ 1..Cardinality(T) = {}
    BY <2>1, FS_EmptySet
  <2>3. [i \in {} |-> 0] \in [{} -> {}]
    OBVIOUS
  <2> QED
    BY <2>2, <2>3 DEF Lists
<1>2. ASSUME NEW n \in Nat, n \in Sizes PROVE n + 1 \in Sizes
  <2>1. SUFFICES ASSUME NEW T \in SUBSET Nat, IsFiniteSet(T), Cardinality(T) = n + 1
                 PROVE  \E s : Lists(s, T)
    OBVIOUS
  <2>2. T # {}
    BY <2>1, FS_EmptySet
  <2>3. PICK m \in T : \A k \in T : m <= k
    BY <2>2, LeastElement
  <2> DEFINE U == T \ {m}
  <2>4. IsFiniteSet(U) /\ Cardinality(U) = n /\ U \in SUBSET Nat
    <3>1. Cardinality(U) = IF m \in T THEN Cardinality(T) - 1 ELSE Cardinality(T)
      BY <2>1, FS_RemoveElement
    <3>2. IsFiniteSet(U)
      BY <2>1, FS_RemoveElement
    <3> HIDE DEF U
    <3>3. Cardinality(U) = n
      BY <2>1, <2>3, <3>1
    <3> QED
      BY <3>2, <3>3 DEF U
  <2> HIDE DEF U
  <2>5. PICK s : Lists(s, U)
    BY <1>2, <2>4
  <2>6. /\ s \in [1..n -> U] /\ \A i, j \in 1..n : i < j => s[i] < s[j]
    BY <2>4, <2>5 DEF Lists
  <2> DEFINE r == [i \in 1..(n + 1) |-> IF i = 1 THEN m ELSE s[i - 1]]
  <2>7. \A i \in 1..(n + 1) : i # 1 => i - 1 \in 1..n
    OBVIOUS
  <2>8. \A i \in 1..n : s[i] \in T /\ s[i] \in Nat /\ m < s[i]
    <3>1. \A k \in U : k \in T /\ k \in Nat /\ m \in Nat /\ m <= k /\ m # k
      BY <2>3 DEF U
    <3>2. \A k \in U : k \in T /\ k \in Nat /\ m < k
      BY <3>1
    <3> QED
      BY <2>6, <3>2
  <2>9. r \in [1..(n + 1) -> T]
    BY <2>7, <2>8
  <2>10. ASSUME NEW i \in 1..(n + 1), NEW j \in 1..(n + 1), i < j PROVE r[i] < r[j]
    <3>1. j # 1 /\ j - 1 \in 1..n /\ r[j] = s[j - 1]
      BY <2>7, <2>10
    <3>2. CASE i = 1
      BY <2>8, <3>1, <3>2
    <3>3. CASE i # 1
      <4>1. i - 1 \in 1..n /\ r[i] = s[i - 1] /\ i - 1 < j - 1
        BY <2>7, <2>10, <3>3
      <4> QED
        BY <2>6, <3>1, <4>1
    <3> QED
      BY <3>2, <3>3
  <2>11. Lists(r, T)
    BY <2>1, <2>9, <2>10 DEF Lists
  <2> QED
    BY <2>11
<1>3. PICK n \in Nat : n = Cardinality(S)
  BY FS_CardinalityType
<1>4. n \in Sizes
  <2> HIDE DEF Sizes
  <2>1. \A k \in 0..(n-1) : k \in Sizes => k + 1 \in Sizes
    BY <1>2
  <2> QED
    BY <1>1, <2>1, IntervalInduction
<1> QED
  BY <1>3, <1>4

LEMMA BroadcastCounts == \A S : N!Cardinality(S) = Cardinality(S)
BY DEF N!Cardinality, Cardinality

(* What the slice of the recipients leaves for the next chunks.            *)
LEMMA RestIsBehind ==
  ASSUME ids \in Seq(Registered)
  PROVE  /\ N!Rest \in Seq(Registered)
         /\ \A i \in 1..Len(N!Rest) :
              i + ChunkSize \in 1..Len(ids) /\ N!Rest[i] = ids[i + ChunkSize]
<1> DEFINE n == Len(ids)
           c == ChunkSize
<1>1. n \in Nat /\ c \in Nat /\ c > 0 /\ N!Rest = SubSeq(ids, c + 1, n)
  BY SendingAssumption DEF N!Rest
<1>2. CASE c <= n
  <2>1. /\ SubSeq(ids, c + 1, n) \in Seq(Registered)
        /\ Len(SubSeq(ids, c + 1, n)) = n - c
        /\ \A i \in 1..(n - c) : SubSeq(ids, c + 1, n)[i] = ids[i + c]
    BY <1>1, <1>2
  <2>2. \A i \in 1..(n - c) : i + c \in 1..n
    BY <1>1
  <2> QED
    BY <1>1, <2>1, <2>2
<1>3. CASE c > n
  <2>1. SubSeq(ids, c + 1, n) = <<>>
    BY <1>1, <1>3
  <2> QED
    BY <1>1, <2>1
<1> QED
  BY <1>1, <1>2, <1>3

LEMMA InOrderLists ==
  ASSUME NEW S \in SUBSET Registered
  PROVE  /\ IsFiniteSet(S) /\ Cardinality(S) \in Nat
         /\ Lists(N!InOrder(S), S)
<1>1. IsFiniteSet(S) /\ S \in SUBSET Nat /\ Cardinality(S) \in Nat
  BY SendingAssumption, FS_Subset, FS_CardinalityType
<1>2. PICK s : Lists(s, S)
  BY <1>1, SetsCanBeListed
<1> DEFINE Sorted(r) == r \in [1..Cardinality(S) -> S] /\
                        \A i, j \in DOMAIN r : i < j => r[i] < r[j]
<1>3. Sorted(s)
  BY <1>2 DEF Lists
<1>4. N!InOrder(S) = CHOOSE r \in [1..Cardinality(S) -> S] :
                       \A i, j \in DOMAIN r : i < j => r[i] < r[j]
  BY BroadcastCounts DEF N!InOrder
<1>5. Sorted(N!InOrder(S))
  BY <1>3, <1>4
<1> QED
  BY <1>1, <1>5 DEF Lists

Got(f) == {u \in Registered : f[u] > 0}

LEMMA GotCounts ==
  ASSUME NEW f \in [Registered -> {0, 1}]
  PROVE  /\ N!Total(f) = Cardinality(Got(f))
         /\ IsFiniteSet(Got(f)) /\ Cardinality(Got(f)) \in Nat
<1>1. IsFiniteSet(Got(f)) /\ Cardinality(Got(f)) \in Nat
  BY SendingAssumption, FS_Subset, FS_CardinalityType DEF Got
<1> QED
  BY <1>1, BroadcastCounts DEF N!Total, Got

(* Users who get something for the first time add to those who have it.    *)
Given(f, S) == [u \in Registered |-> IF u \in S THEN f[u] + 1 ELSE f[u]]

LEMMA GivenOnce ==
  ASSUME NEW f \in [Registered -> {0, 1}], NEW S \in SUBSET Registered,
         \A u \in S : f[u] = 0
  PROVE  /\ Given(f, S) \in [Registered -> {0, 1}]
         /\ Cardinality(Got(Given(f, S))) = Cardinality(Got(f)) + Cardinality(S)
         /\ Cardinality(S) \in Nat
<1>1. IsFiniteSet(S) /\ IsFiniteSet(Got(f)) /\ Cardinality(S) \in Nat
  BY SendingAssumption, FS_Subset, FS_CardinalityType, GotCounts
<1>2. Got(Given(f, S)) = Got(f) \cup S
  BY DEF Got, Given
<1>3. Got(f) \cap S = {}
  BY DEF Got
<1>4. Cardinality(Got(f) \cup S)
        = Cardinality(Got(f)) + Cardinality(S) - Cardinality(Got(f) \cap S)
  BY <1>1, FS_Union
<1>5. Cardinality(Got(f) \cap S) = 0
  BY <1>3, FS_EmptySet
<1>6. Cardinality(Got(f)) \in Nat
  BY GotCounts
<1>7. Given(f, S) \in [Registered -> {0, 1}]
  BY DEF Given
<1> QED
  BY <1>1, <1>2, <1>4, <1>5, <1>6, <1>7

(* The recipients the request has still to read.                           *)
Ahead == {ids[i] : i \in 1..Len(ids)}

Sums == [delivered : Nat, failed : Nat]

BroadcastTypes ==
  /\ audience \subseteq Registered /\ chunk \subseteq Registered
  /\ send \in [inapp : BOOLEAN, dm : BOOLEAN]
  /\ stage \in {"count", "list", "next", "write", "dispatch", "push", "save", "done", "dead"}
  /\ ids \in Seq(Registered) /\ spawned \subseteq Registered
  /\ sum \in Sums /\ broadcast \in [status : {"none", "sending", "sent"}, total : Nat, sum : Sums]
  /\ notes \in [Registered -> {0, 1}] /\ dms \in [Registered -> {0, 1}]
  /\ echoes \in [Registered -> {0, 1}]

(* A user is listed once, and no user who is still ahead has got anything: *)
(* nor has one of the chunk before its notifications are written, or a     *)
(* message before the chunk is pushed.                                     *)
EachUserOnce ==
  /\ \A i, j \in 1..Len(ids) : i < j => ids[i] # ids[j]
  /\ \A u \in Ahead : u \notin chunk /\ notes[u] = 0 /\ dms[u] = 0
  /\ stage \in {"count", "list"} =>
       /\ ids = <<>> /\ chunk = {}
       /\ \A u \in Registered : notes[u] = 0 /\ dms[u] = 0
  /\ stage = "write" => \A u \in chunk : notes[u] = 0 /\ dms[u] = 0
  /\ stage \in {"dispatch", "push"} => \A u \in chunk : dms[u] = 0

(* An echo that has arrived or is under way is that of the one             *)
(* notification of its user, for which there is no other.                  *)
EchoesBehind ==
  /\ \A u \in Registered : echoes[u] <= notes[u]
  /\ \A u \in spawned : notes[u] = 1 /\ echoes[u] = 0
  /\ stage = "dispatch" /\ send.inapp =>
       \A u \in chunk : notes[u] = 1 /\ echoes[u] = 0 /\ u \notin spawned

(* The row is behind what memory counts, and memory behind what was sent.  *)
CountsBehind ==
  /\ broadcast.sum.delivered <= sum.delivered
  /\ send.dm => sum.delivered <= Cardinality(Got(dms))
  /\ send.inapp /\ ~send.dm => sum.delivered <= Cardinality(Got(notes))

Delivery == BroadcastTypes /\ EachUserOnce /\ EchoesBehind /\ CountsBehind

LEMMA DeliveryImplies == Delivery => CountsBacked
<1> SUFFICES ASSUME Delivery PROVE CountsBacked
  OBVIOUS
<1>1. /\ N!Total(dms) = Cardinality(Got(dms)) /\ Cardinality(Got(dms)) \in Nat
      /\ N!Total(notes) = Cardinality(Got(notes)) /\ Cardinality(Got(notes)) \in Nat
  BY GotCounts DEF Delivery, BroadcastTypes
<1>2. \A u \in Registered : notes[u] <= 1 /\ dms[u] <= 1 /\ echoes[u] <= notes[u]
  BY DEF Delivery, BroadcastTypes, EchoesBehind
<1>3. broadcast.sum.delivered \in Nat /\ sum.delivered \in Nat
  BY DEF Delivery, BroadcastTypes, Sums
<1>4. broadcast.sum.delivered <= sum.delivered
  BY DEF Delivery, CountsBehind
<1>5. send.dm => broadcast.sum.delivered <= N!Total(dms)
  BY <1>1, <1>3, <1>4 DEF Delivery, CountsBehind
<1>6. send.inapp /\ ~send.dm => broadcast.sum.delivered <= N!Total(notes)
  BY <1>1, <1>3, <1>4 DEF Delivery, CountsBehind
<1> QED
  BY <1>2, <1>5, <1>6 DEF CountsBacked, N!CountsBacked

LEMMA DeliveryInit == N!Init => Delivery
<1> SUFFICES ASSUME N!Init PROVE Delivery
  OBVIOUS
<1>1. BroadcastTypes
  BY DEF N!Init, BroadcastTypes, N!Zero, Sums
<1>2. EachUserOnce
  BY DEF N!Init, EachUserOnce, Ahead
<1>3. Cardinality(Got(dms)) \in Nat /\ Cardinality(Got(notes)) \in Nat
  BY <1>1, GotCounts DEF BroadcastTypes
<1>4. sum.delivered = 0 /\ broadcast.sum.delivered = 0
  BY DEF N!Init, N!Zero
<1>5. CountsBehind
  BY <1>3, <1>4 DEF CountsBehind
<1>6. EchoesBehind
  BY DEF N!Init, EchoesBehind
<1> QED
  BY <1>1, <1>2, <1>5, <1>6 DEF Delivery

(* A step that notifies nobody and sends no echo.                          *)
LEMMA EchoesKept ==
  ASSUME EchoesBehind, UNCHANGED <<notes, echoes, spawned>>, stage' # "dispatch"
  PROVE  EchoesBehind'
BY DEF EchoesBehind

LEMMA CountDelivers == Delivery /\ N!Count => Delivery'
<1> SUFFICES ASSUME Delivery, N!Count PROVE Delivery'
  OBVIOUS
<1> USE DEF Delivery
<1>1. IsFiniteSet(audience) /\ Cardinality(audience) \in Nat
  BY InOrderLists DEF BroadcastTypes
<1>2. /\ stage = "count" /\ stage' = "list"
      /\ UNCHANGED <<audience, send, ids, chunk, sum, spawned, notes, dms, echoes>>
      /\ broadcast' = [broadcast EXCEPT !.total = Cardinality(audience)]
  BY BroadcastCounts DEF N!Count, N!Observers
<1>3. BroadcastTypes'
  BY <1>1, <1>2 DEF BroadcastTypes
<1>4. broadcast'.sum = broadcast.sum
  BY <1>2 DEF BroadcastTypes
<1>5. EachUserOnce'
  BY <1>2 DEF EachUserOnce, Ahead
<1>6. CountsBehind'
  BY <1>2, <1>4 DEF CountsBehind, Got
<1>7. EchoesBehind'
  BY <1>2, EchoesKept
<1> QED
  BY <1>3, <1>5, <1>6, <1>7

LEMMA ListDelivers == Delivery /\ N!List => Delivery'
<1> SUFFICES ASSUME Delivery, N!List PROVE Delivery'
  OBVIOUS
<1> USE DEF Delivery
<1>1. /\ stage = "list" /\ stage' = "next" /\ ids' = N!InOrder(audience)
      /\ UNCHANGED <<audience, send, chunk, sum, spawned, notes, dms, echoes>>
      /\ broadcast' = [broadcast EXCEPT !.status = "sending"]
  BY DEF N!List, N!Observers
<1>2. /\ ids' \in [1..Cardinality(audience) -> audience] /\ Cardinality(audience) \in Nat
      /\ \A i, j \in 1..Cardinality(audience) : i < j => ids'[i] < ids'[j]
  BY <1>1, InOrderLists DEF BroadcastTypes, Lists
<1>3. /\ ids' \in Seq(Registered) /\ Len(ids') = Cardinality(audience)
  BY <1>2 DEF BroadcastTypes
<1>4. broadcast'.sum = broadcast.sum /\ BroadcastTypes'
  BY <1>1, <1>3 DEF BroadcastTypes
<1>5. \A i \in 1..Len(ids') : ids'[i] \in Registered /\ ids'[i] \in Nat
  <2>1. \A i \in 1..Len(ids') : ids'[i] \in Registered
    BY <1>3
  <2>2. \A u \in Registered : u \in Nat
    BY SendingAssumption
  <2> QED
    BY <2>1, <2>2
<1>6. \A i, j \in 1..Len(ids') : i < j => ids'[i] # ids'[j]
  BY <1>2, <1>3, <1>5
<1>7. chunk = {} /\ \A u \in Registered : notes[u] = 0 /\ dms[u] = 0
  BY <1>1 DEF EachUserOnce
<1>8. EachUserOnce'
  BY <1>1, <1>5, <1>6, <1>7 DEF EachUserOnce, Ahead
<1>9. CountsBehind'
  BY <1>1, <1>4 DEF CountsBehind, Got
<1>10. EchoesBehind'
  BY <1>1, EchoesKept
<1> QED
  BY <1>4, <1>8, <1>9, <1>10

LEMMA ReadChunkDelivers == Delivery /\ N!ReadChunk => Delivery'
<1> SUFFICES ASSUME Delivery, N!ReadChunk PROVE Delivery'
  OBVIOUS
<1> USE DEF Delivery
<1> DEFINE k == N!Shorter(ChunkSize)
<1>1. /\ stage = "next" /\ stage' = "write" /\ ids' = N!Rest
      /\ chunk' = {ids[i] : i \in 1..k} \cap audience
      /\ UNCHANGED <<audience, send, broadcast, sum, spawned, notes, dms, echoes>>
  BY DEF N!ReadChunk, N!Observers
<1>2. ids \in Seq(Registered) /\ Len(ids) \in Nat
  BY DEF BroadcastTypes
<1>3. k \in Nat /\ k <= Len(ids) /\ k <= ChunkSize /\ ChunkSize \in Nat
  BY <1>2, SendingAssumption DEF N!Shorter
<1> HIDE DEF k
<1>4. /\ ids' \in Seq(Registered)
      /\ \A i \in 1..Len(ids') : i + ChunkSize \in 1..Len(ids) /\ ids'[i] = ids[i + ChunkSize]
  BY <1>1, <1>2, RestIsBehind
<1>5. BroadcastTypes'
  BY <1>1, <1>4 DEF BroadcastTypes
<1>6. \A i, j \in 1..Len(ids') : i < j => ids'[i] # ids'[j]
  <2> SUFFICES ASSUME NEW i \in 1..Len(ids'), NEW j \in 1..Len(ids'), i < j
               PROVE  ids'[i] # ids'[j]
    OBVIOUS
  <2>1. Len(ids') \in Nat /\ i + ChunkSize < j + ChunkSize
    BY <1>3, <1>4
  <2>2. ids[i + ChunkSize] # ids[j + ChunkSize]
    BY <1>4, <2>1 DEF EachUserOnce
  <2> QED
    BY <1>4, <2>2
<1>7. \A u \in Ahead' : u \in Ahead
  BY <1>4 DEF Ahead
<1>8. \A u \in chunk' : u \in Ahead
  BY <1>1, <1>2, <1>3 DEF Ahead
<1>9. \A u \in Ahead' : u \notin chunk'
  <2> SUFFICES ASSUME NEW i \in 1..Len(ids'), NEW j \in 1..k, ids'[i] = ids[j]
               PROVE  FALSE
    BY <1>1 DEF Ahead
  <2>1. Len(ids') \in Nat
    BY <1>4
  <2>2. j \in 1..Len(ids) /\ j < i + ChunkSize
    BY <1>2, <1>3, <2>1
  <2> QED
    BY <1>4, <2>2 DEF EachUserOnce
<1>10. EachUserOnce'
  <2>1. \A u \in Ahead : notes'[u] = 0 /\ dms'[u] = 0
    BY <1>1 DEF EachUserOnce
  <2>2. stage' = "write"
    BY <1>1
  <2> QED
    BY <1>6, <1>7, <1>8, <1>9, <2>1, <2>2 DEF EachUserOnce
<1>11. CountsBehind'
  BY <1>1 DEF CountsBehind, Got
<1>12. EchoesBehind'
  BY <1>1, EchoesKept
<1> QED
  BY <1>5, <1>10, <1>11, <1>12

LEMMA WriteChunkDelivers == Delivery /\ N!WriteChunk => Delivery'
<1> SUFFICES ASSUME Delivery, N!WriteChunk PROVE Delivery'
  OBVIOUS
<1> USE DEF Delivery
<1>1. stage = "write" /\ UNCHANGED <<audience, send, ids, chunk, broadcast, spawned, dms, echoes>>
  BY DEF N!WriteChunk
<1>2. CASE stage' = "dead" /\ UNCHANGED <<notes, sum>>
  <2>1. BroadcastTypes' /\ EachUserOnce'
    BY <1>1, <1>2 DEF BroadcastTypes, EachUserOnce, Ahead
  <2>2. CountsBehind'
    BY <1>1, <1>2 DEF CountsBehind, Got
  <2>3. EchoesBehind'
    BY <1>1, <1>2, EchoesKept
  <2> QED
    BY <2>1, <2>2, <2>3
<1>3. CASE /\ stage' = "dispatch" /\ sum' = N!InApp
           /\ notes' = [u \in Registered |->
                          IF send.inapp /\ u \in chunk THEN notes[u] + 1 ELSE notes[u]]
  <2>1. notes \in [Registered -> {0, 1}] /\ chunk \in SUBSET Registered
    BY DEF BroadcastTypes
  <2>2. \A u \in chunk : notes[u] = 0 /\ dms[u] = 0
    BY <1>1 DEF EachUserOnce
  <2>3. send.inapp => notes' = Given(notes, chunk)
    BY <1>3 DEF Given
  <2>4. ~send.inapp => notes' = notes
    BY <1>3, <2>1
  <2>5. /\ notes' \in [Registered -> {0, 1}] /\ Cardinality(chunk) \in Nat
        /\ send.inapp => Cardinality(Got(notes')) = Cardinality(Got(notes)) + Cardinality(chunk)
    BY <2>1, <2>2, <2>3, <2>4, GivenOnce
  <2>6. /\ sum \in Sums
        /\ send.dm => sum' = sum
        /\ ~send.dm => sum'.delivered = sum.delivered + Cardinality(chunk)
        /\ sum' \in Sums
    BY <1>3, <2>5, BroadcastCounts DEF N!InApp, BroadcastTypes, Sums
  <2>7. BroadcastTypes'
    BY <1>1, <1>3, <2>5, <2>6 DEF BroadcastTypes
  <2>8. \A u \in Ahead : notes'[u] = notes[u]
    <3>1. \A u \in Ahead : u \in Registered /\ u \notin chunk
      BY DEF Ahead, EachUserOnce, BroadcastTypes
    <3> QED
      BY <1>3, <3>1
  <2>9. EachUserOnce'
    BY <1>1, <1>3, <2>2, <2>8 DEF EachUserOnce, Ahead
  <2>10. CountsBehind'
    <3>1. /\ broadcast.sum.delivered \in Nat /\ sum.delivered \in Nat
          /\ broadcast.sum.delivered <= sum.delivered
      BY DEF BroadcastTypes, Sums, CountsBehind
    <3>2. sum'.delivered = sum.delivered \/ sum'.delivered = sum.delivered + Cardinality(chunk)
      BY <2>6 DEF BroadcastTypes
    <3>3. broadcast'.sum.delivered <= sum'.delivered
      BY <1>1, <2>5, <3>1, <3>2
    <3>4. send'.dm => sum'.delivered <= Cardinality(Got(dms'))
      BY <1>1, <2>6 DEF CountsBehind, Got
    <3>5. ASSUME send.inapp, ~send.dm PROVE sum'.delivered <= Cardinality(Got(notes'))
      <4>1. Cardinality(Got(notes)) \in Nat
        BY <2>1, GotCounts
      <4> QED
        BY <2>5, <2>6, <3>1, <3>5, <4>1 DEF CountsBehind
    <3> QED
      BY <1>1, <3>3, <3>4, <3>5 DEF CountsBehind, Got
  <2>11. EchoesBehind'
    <3>1. \A u \in Registered : notes[u] \in {0, 1} /\ echoes[u] \in {0, 1}
                               /\ echoes[u] <= notes[u]
      BY DEF BroadcastTypes, EchoesBehind
    <3>2. \A u \in chunk : echoes[u] = 0 /\ u \notin spawned
      BY <2>1, <2>2, <3>1 DEF EchoesBehind
    <3>3. \A u \in Registered : notes'[u] = IF send.inapp /\ u \in chunk THEN notes[u] + 1
                                                                       ELSE notes[u]
      BY <1>3
    <3>4. \A u \in Registered : echoes[u] <= notes'[u]
      BY <3>1, <3>3
    <3>5. \A u \in spawned : notes'[u] = notes[u]
      BY <3>2, <3>3 DEF BroadcastTypes
    <3>6. send.inapp => \A u \in chunk : notes'[u] = 1
      BY <2>1, <2>2, <3>3
    <3> QED
      BY <1>1, <3>2, <3>4, <3>5, <3>6 DEF EchoesBehind
  <2> QED
    BY <2>7, <2>9, <2>10, <2>11
<1> QED
  BY <1>2, <1>3 DEF N!WriteChunk

(* The tasks that are started are those of the chunk.                      *)
LEMMA DispatchDelivers == Delivery /\ N!Dispatch => Delivery'
<1> SUFFICES ASSUME Delivery, N!Dispatch PROVE Delivery'
  OBVIOUS
<1> USE DEF Delivery
<1>1. /\ stage = "dispatch" /\ stage' = "push"
      /\ UNCHANGED <<audience, send, ids, chunk, broadcast, sum, notes, dms, echoes>>
  BY DEF N!Dispatch, N!Observers
<1>2. PICK wanting \in SUBSET chunk :
             spawned' = IF send.inapp THEN spawned \cup wanting ELSE spawned
  BY DEF N!Dispatch
<1>3. BroadcastTypes'
  BY <1>1, <1>2 DEF BroadcastTypes
<1>4. EachUserOnce'
  BY <1>1 DEF EachUserOnce, Ahead
<1>5. CountsBehind'
  BY <1>1 DEF CountsBehind, Got
<1>6. EchoesBehind'
  BY <1>1, <1>2 DEF EchoesBehind
<1> QED
  BY <1>3, <1>4, <1>5, <1>6

LEMMA EchoDelivers ==
  ASSUME Delivery, NEW u \in Registered, N!Echo(u)
  PROVE  Delivery'
<1> USE DEF Delivery
<1>1. /\ u \in spawned /\ spawned' = spawned \ {u}
      /\ UNCHANGED <<audience, send, stage, ids, chunk, broadcast, sum, notes, dms>>
  BY DEF N!Echo
<1>2. PICK n \in {0, 1} : echoes' = [echoes EXCEPT ![u] = @ + n]
  BY DEF N!Echo
<1>3. notes[u] = 1 /\ echoes[u] = 0
  BY <1>1 DEF EchoesBehind
<1>4. /\ echoes' \in [Registered -> {0, 1}] /\ echoes'[u] = n
      /\ \A w \in Registered \ {u} : echoes'[w] = echoes[w]
  BY <1>2, <1>3 DEF BroadcastTypes
<1>5. BroadcastTypes'
  BY <1>1, <1>4 DEF BroadcastTypes
<1>6. EachUserOnce'
  BY <1>1 DEF EachUserOnce, Ahead
<1>7. CountsBehind'
  BY <1>1 DEF CountsBehind, Got
<1>8. EchoesBehind'
  <2>1. \A w \in Registered : echoes'[w] <= notes[w]
    BY <1>3, <1>4 DEF EchoesBehind
  <2>2. \A w \in spawned' : notes[w] = 1 /\ echoes'[w] = 0
    BY <1>1, <1>4 DEF EchoesBehind, BroadcastTypes
  <2>3. stage = "dispatch" /\ send.inapp =>
          \A w \in chunk : notes[w] = 1 /\ echoes'[w] = 0 /\ w \notin spawned'
    BY <1>1, <1>4 DEF EchoesBehind, BroadcastTypes
  <2> QED
    BY <1>1, <2>1, <2>2, <2>3 DEF EchoesBehind
<1> QED
  BY <1>5, <1>6, <1>7, <1>8

LEMMA PushDelivers == Delivery /\ N!Push => Delivery'
<1> SUFFICES ASSUME Delivery, N!Push PROVE Delivery'
  OBVIOUS
<1> USE DEF Delivery
<1>1. /\ stage = "push" /\ stage' = "save"
      /\ UNCHANGED <<audience, send, ids, chunk, broadcast, spawned, notes, echoes>>
  BY DEF N!Push
<1>0. EchoesBehind'
  BY <1>1, EchoesKept
<1>2. CASE UNCHANGED <<dms, sum>>
  <2>1. BroadcastTypes' /\ EachUserOnce'
    BY <1>1, <1>2 DEF BroadcastTypes, EachUserOnce, Ahead
  <2>2. CountsBehind'
    BY <1>1, <1>2 DEF CountsBehind, Got
  <2> QED
    BY <1>0, <2>1, <2>2
<1>3. ASSUME NEW ok \in SUBSET chunk, send.dm,
             dms' = [u \in Registered |-> IF u \in ok THEN dms[u] + 1 ELSE dms[u]],
             sum' = [delivered |-> sum.delivered + Cardinality(ok),
                     failed |-> sum.failed + Cardinality(chunk \ ok)]
      PROVE  Delivery'
  <2>1. dms \in [Registered -> {0, 1}] /\ ok \in SUBSET Registered /\ chunk \ ok \in SUBSET Registered
    BY DEF BroadcastTypes
  <2>2. \A u \in ok : dms[u] = 0
    BY <1>1 DEF EachUserOnce
  <2>3. dms' = Given(dms, ok)
    BY <1>3 DEF Given
  <2>4. /\ dms' \in [Registered -> {0, 1}] /\ Cardinality(ok) \in Nat
        /\ Cardinality(Got(dms')) = Cardinality(Got(dms)) + Cardinality(ok)
    BY <2>1, <2>2, <2>3, GivenOnce
  <2>5. Cardinality(chunk \ ok) \in Nat
    BY <2>1, InOrderLists
  <2>6. /\ sum.delivered \in Nat /\ sum.failed \in Nat /\ broadcast.sum.delivered \in Nat
        /\ broadcast.sum.delivered <= sum.delivered /\ sum.delivered <= Cardinality(Got(dms))
    BY <1>3 DEF BroadcastTypes, Sums, CountsBehind
  <2>7. sum' \in Sums /\ sum'.delivered = sum.delivered + Cardinality(ok)
    BY <1>3, <2>4, <2>5, <2>6 DEF Sums
  <2>8. BroadcastTypes'
    BY <1>1, <2>4, <2>7 DEF BroadcastTypes
  <2>9. \A u \in Ahead : dms'[u] = dms[u]
    <3>1. \A u \in Ahead : u \in Registered /\ u \notin chunk
      BY DEF Ahead, EachUserOnce, BroadcastTypes
    <3> QED
      BY <1>3, <3>1
  <2>10. EachUserOnce'
    BY <1>1, <2>9 DEF EachUserOnce, Ahead
  <2>11. Cardinality(Got(dms)) \in Nat
    BY <2>1, GotCounts
  <2>12. /\ broadcast.sum.delivered <= sum'.delivered
         /\ sum'.delivered <= Cardinality(Got(dms'))
    BY <2>4, <2>6, <2>7, <2>11
  <2>13. CountsBehind'
    BY <1>1, <1>3, <2>12 DEF CountsBehind, Got
  <2> QED
    BY <1>0, <2>8, <2>10, <2>13
<1> QED
  BY <1>2, <1>3, BroadcastCounts DEF N!Push

(* The steps that give nothing and read nobody.                            *)
LEMMA OtherDelivers ==
  Delivery /\ (\/ N!SaveCounts \/ N!Finish \/ N!Crash
               \/ \E u \in Registered : N!Join(u) \/ N!Leave(u)) => Delivery'
<1> SUFFICES ASSUME Delivery,
                    \/ N!SaveCounts \/ N!Finish \/ N!Crash
                    \/ \E u \in Registered : N!Join(u) \/ N!Leave(u)
             PROVE  Delivery'
  OBVIOUS
<1> USE DEF Delivery
<1>1. /\ UNCHANGED <<send, ids, chunk, sum, notes, dms, echoes>>
      /\ stage' = stage \/ stage' \in {"next", "done", "dead"}
      /\ spawned' \in {spawned, {}}
  BY DEF N!SaveCounts, N!Finish, N!Crash, N!Join, N!Leave, N!Observers
<1>2. audience' \subseteq Registered
  BY DEF N!SaveCounts, N!Finish, N!Crash, N!Join, N!Leave, BroadcastTypes
<1>3. /\ broadcast'.sum \in {broadcast.sum, sum}
      /\ broadcast' \in [status : {"none", "sending", "sent"}, total : Nat, sum : Sums]
  <2>1. broadcast \in [status : {"none", "sending", "sent"}, total : Nat, sum : Sums] /\ sum \in Sums
    BY DEF BroadcastTypes
  <2>2. CASE broadcast' = broadcast
    BY <2>1, <2>2
  <2>3. CASE broadcast' = [broadcast EXCEPT !.sum = sum]
    BY <2>1, <2>3
  <2>4. CASE broadcast' = [broadcast EXCEPT !.status = "sent", !.sum = sum]
    <3>1. PICK r : r = [broadcast EXCEPT !.status = "sent"]
      OBVIOUS
    <3>2. r \in [status : {"none", "sending", "sent"}, total : Nat, sum : Sums]
      BY <2>1, <3>1
    <3>3. broadcast' = [r EXCEPT !.sum = sum]
      BY <2>1, <2>4, <3>1
    <3> QED
      BY <2>1, <3>2, <3>3
  <2> QED
    BY <2>2, <2>3, <2>4 DEF N!SaveCounts, N!Finish, N!Crash, N!Join, N!Leave
<1>4. BroadcastTypes'
  BY <1>1, <1>2, <1>3 DEF BroadcastTypes
<1>5. EachUserOnce'
  BY <1>1 DEF EachUserOnce, Ahead
<1>6. /\ broadcast.sum.delivered \in Nat /\ sum.delivered \in Nat
      /\ broadcast.sum.delivered <= sum.delivered
  BY DEF BroadcastTypes, Sums, CountsBehind
<1>7. broadcast'.sum.delivered <= sum.delivered
  BY <1>3, <1>6
<1>8. CountsBehind'
  BY <1>1, <1>7 DEF CountsBehind, Got
<1>9. EchoesBehind'
  BY <1>1 DEF EchoesBehind
<1> QED
  BY <1>4, <1>5, <1>8, <1>9

LEMMA DeliveryStep == Delivery /\ [N!Next]_(N!vars) => Delivery'
<1> SUFFICES ASSUME Delivery, [N!Next]_(N!vars) PROVE Delivery'
  OBVIOUS
<1>1. CASE N!Next
  BY <1>1, CountDelivers, ListDelivers, ReadChunkDelivers, WriteChunkDelivers,
     DispatchDelivers, PushDelivers, EchoDelivers, OtherDelivers DEF N!Next
<1>2. CASE UNCHANGED N!vars
  BY <1>2 DEF N!vars, Delivery, BroadcastTypes, EachUserOnce, Ahead, EchoesBehind,
             CountsBehind, Got
<1> QED
  BY <1>1, <1>2

-----------------------------------------------------------------------------
(* Boot: processes that start at the same time.                            *)

BootTables == {"categories", "settings", "currencies"}
RowGroups == {"all", "row", "crypto", "fiat"}

BootStages == {"off", "migrate", "upgrade", "index", "verify", "select", "insert",
           "serving", "done", "refused", "crashed"}

Boots == [stage : BootStages, role : B!Roles, build : B!Builds,
          saw : 0..3, table : 1..3, empty : BOOLEAN]

BootTypes ==
  /\ revision \in 0..3 /\ columns \in BOOLEAN /\ rerun \in BOOLEAN
  /\ migrationLock \in Booting \cup {B!Nobody} /\ rows \in [BootTables -> SUBSET RowGroups]
  /\ proc \in [Booting -> Boots]

(* An upgrade holds the lock, so that no step of another process comes     *)
(* between the revision it reads and the one it writes; and once it has    *)
(* let go of it to build the indexes no other one gets that far, because   *)
(* the columns are there.  These two cases do not meet: what keeps them    *)
(* apart is that the revision stays 0 while the indexes are built.         *)
Upgrades(p) ==
  /\ proc[p].stage = "upgrade" =>
       migrationLock = p /\ (IF proc[p].saw = 0 THEN columns => rerun ELSE proc[p].saw = revision)
  /\ proc[p].stage = "index" => proc[p].saw = 0 /\ revision = 0 /\ columns

UpgradesAlone ==
  /\ revision > 0 => columns
  /\ \A p \in Booting : Upgrades(p)
  /\ \A p, q \in Booting : proc[p].stage = "index" /\ proc[q].stage = "index" => p = q

(* Where a process is in the tables: it begins with the first, inserts     *)
(* into the settings only if they were empty, and is past them only if     *)
(* they are not.                                                           *)
PastSettings(p) ==
  \/ proc[p].stage = "serving"
  \/ proc[p].stage \in {"select", "insert"} /\ proc[p].table = 3

SettingsSeeded ==
  \A p \in Booting :
    /\ proc[p].stage = "crashed" => rerun
    /\ proc[p].stage \in {"off", "migrate", "upgrade", "index", "verify"} => proc[p].table = 1
    /\ proc[p].stage = "insert" /\ proc[p].table = 2 => proc[p].empty
    /\ PastSettings(p) => rows.settings # {}

BootedSafely == BootTypes /\ UpgradesAlone /\ SettingsSeeded

(* What the seeders have for each table.                                   *)
LEMMA SeedsOfTables ==
  /\ B!Tables[1] = "categories" /\ B!Tables[2] = "settings" /\ B!Tables[3] = "currencies"
  /\ B!Len(B!Tables) = 3
  /\ B!First["settings"] = {"row"} /\ B!Always["settings"] = {}
  /\ \A t \in BootTables : B!First[t] \subseteq RowGroups /\ B!Always[t] \subseteq RowGroups
  /\ B!First \in [BootTables -> SUBSET RowGroups]
BY DEF B!Tables, B!First, B!Always, BootTables, RowGroups

LEMMA BootInit == ASSUME B!Init PROVE BootedSafely
<1>1. rows \in [BootTables -> SUBSET RowGroups]
  <2>1. CASE rows = B!Empty
    BY <2>1 DEF B!Empty, BootTables
  <2>2. ASSUME NEW c \in SUBSET RowGroups, rows = [B!First EXCEPT !.currencies = c]
        PROVE  rows \in [BootTables -> SUBSET RowGroups]
    BY <2>2, SeedsOfTables
  <2>3. B!First.currencies \subseteq RowGroups
    BY DEF B!First, RowGroups
  <2> QED
    BY <2>1, <2>2, <2>3 DEF B!Init, RowGroups
<1>2. /\ proc \in [Booting -> Boots]
      /\ \A p \in Booting : proc[p].stage = "off" /\ proc[p].table = 1
  <2> DEFINE New == [stage : {"off"}, role : B!Roles, build : B!Builds,
                     saw : {0}, table : {1}, empty : {FALSE}]
  <2>1. proc \in [Booting -> New]
    BY DEF B!Init
  <2>2. \A q \in New : q.stage = "off" /\ q.table = 1
    OBVIOUS
  <2>3. \A q \in New : q \in Boots
    <3>1. SUFFICES ASSUME NEW q \in New PROVE q \in Boots
      OBVIOUS
    <3>2. /\ q.stage = "off" /\ q.role \in B!Roles /\ q.build \in B!Builds
           /\ q.saw = 0 /\ q.table = 1
      OBVIOUS
    <3>3. q.empty = FALSE
      BY Zenon
    <3>4. q.stage \in BootStages /\ q.saw \in 0..3 /\ q.table \in 1..3
      BY <3>2 DEF BootStages
    <3>5. q.empty \in BOOLEAN
      BY <3>3, Zenon
    <3>6. /\ q.stage \in BootStages /\ q.saw \in 0..3 /\ q.table \in 1..3 /\ q.empty \in BOOLEAN
          /\ q.role \in B!Roles /\ q.build \in B!Builds
      BY <3>2, <3>4, <3>5, Zenon
    <3>7. q = [stage |-> q.stage, role |-> q.role, build |-> q.build,
               saw |-> q.saw, table |-> q.table, empty |-> q.empty]
      OBVIOUS
    <3> HIDE DEF New
    <3> QED
      BY <3>6, <3>7, Zenon DEF Boots
  <2> HIDE DEF New
  <2> QED
    BY <2>1, <2>2, <2>3
<1>3. BootTypes
  <2>1. revision \in 0..3 /\ migrationLock = B!Nobody
    BY DEF B!Init
  <2>2. columns = (revision > 0) /\ rerun = FALSE
    BY DEF B!Init
  <2>3. (revision > 0) \in BOOLEAN
    OBVIOUS
  <2>4. columns \in BOOLEAN /\ rerun \in BOOLEAN
    BY <2>2, <2>3, Zenon
  <2> QED
    BY <1>1, <1>2, <2>1, <2>4 DEF BootTypes
<1>4. UpgradesAlone
  BY <1>2 DEF B!Init, UpgradesAlone, Upgrades
<1> QED
  BY <1>2, <1>3, <1>4 DEF BootedSafely, SettingsSeeded, PastSettings

(* Setting one field of one process leaves the other fields and the other  *)
(* processes.                                                              *)
LEMMA BootStageSet ==
  ASSUME NEW f \in [Booting -> Boots], NEW p \in Booting, NEW s \in BootStages,
         NEW g, g = [f EXCEPT ![p].stage = s]
  PROVE  /\ g \in [Booting -> Boots] /\ \A q \in Booting \ {p} : g[q] = f[q]
         /\ g[p].stage = s /\ g[p].saw = f[p].saw
         /\ g[p].table = f[p].table /\ g[p].empty = f[p].empty
BY DEF Boots

LEMMA BootSawSet ==
  ASSUME NEW f \in [Booting -> Boots], NEW p \in Booting, NEW n \in 0..3,
         NEW g, g = [f EXCEPT ![p].saw = n]
  PROVE  /\ g \in [Booting -> Boots] /\ \A q \in Booting \ {p} : g[q] = f[q]
         /\ g[p].saw = n /\ g[p].stage = f[p].stage
         /\ g[p].table = f[p].table /\ g[p].empty = f[p].empty
BY DEF Boots

(* A process alone moves, and the settings keep their row.                 *)
LEMMA OneBoots ==
  ASSUME BootedSafely, NEW p \in Booting,
         proc' \in [Booting -> Boots], \A q \in Booting \ {p} : proc'[q] = proc[q],
         revision' \in 0..3, columns' \in BOOLEAN, rerun' \in BOOLEAN, rerun => rerun',
         migrationLock' \in Booting \cup {B!Nobody},
         rows' \in [BootTables -> SUBSET RowGroups],
         rows.settings # {} => rows'.settings # {},
         columns => columns', revision' > 0 => columns',
         \A q \in Booting \ {p} : migrationLock = q => migrationLock' = q /\ columns' = columns,
         revision' # revision => \A q \in Booting \ {p} :
           proc[q].stage # "index" /\ (proc[q].stage = "upgrade" => proc[q].saw = 0),
         Upgrades(p)',
         proc'[p].stage = "index" => \A q \in Booting \ {p} : proc[q].stage # "index",
         proc'[p].stage = "crashed" => rerun',
         proc'[p].stage \in {"off", "migrate", "upgrade", "index", "verify"} => proc'[p].table = 1,
         proc'[p].stage = "insert" /\ proc'[p].table = 2 => proc'[p].empty,
         PastSettings(p)' => rows'.settings # {}
  PROVE  BootedSafely'
<1>1. BootTypes'
  BY DEF BootTypes
<1>2. ASSUME NEW q \in Booting \ {p} PROVE Upgrades(q)'
  <2>1. proc'[q] = proc[q] /\ Upgrades(q)
    BY DEF BootedSafely, UpgradesAlone
  <2>2. CASE proc[q].stage = "upgrade"
    <3>1. migrationLock' = q /\ columns' = columns
      BY <2>1, <2>2 DEF Upgrades
    <3>2. proc[q].saw # 0 => proc[q].saw = revision'
      BY <2>1, <2>2 DEF Upgrades
    <3>3. proc[q].saw = 0 => (columns' => rerun')
      BY <2>1, <2>2, <3>1 DEF Upgrades
    <3> QED
      BY <2>1, <2>2, <3>1, <3>2, <3>3 DEF Upgrades
  <2>3. CASE proc[q].stage = "index"
    BY <2>1, <2>3 DEF Upgrades
  <2> QED
    BY <2>1, <2>2, <2>3 DEF Upgrades
<1>3. ASSUME NEW q \in Booting, NEW w \in Booting, q # w
      PROVE  ~(proc'[q].stage = "index" /\ proc'[w].stage = "index")
  BY <1>3 DEF BootedSafely, UpgradesAlone
<1>4. UpgradesAlone'
  BY <1>2, <1>3 DEF UpgradesAlone
<1>5. ASSUME NEW q \in Booting
      PROVE  /\ proc'[q].stage = "crashed" => rerun'
             /\ proc'[q].stage \in {"off", "migrate", "upgrade", "index", "verify"} =>
                  proc'[q].table = 1
             /\ proc'[q].stage = "insert" /\ proc'[q].table = 2 => proc'[q].empty
             /\ PastSettings(q)' => rows'.settings # {}
  <2>1. CASE q = p
    BY <2>1, Zenon
  <2>2. CASE q # p
    <3>1. proc'[q] = proc[q]
      BY <2>2
    <3>2. /\ proc[q].stage = "crashed" => rerun
          /\ proc[q].stage \in {"off", "migrate", "upgrade", "index", "verify"} => proc[q].table = 1
          /\ proc[q].stage = "insert" /\ proc[q].table = 2 => proc[q].empty
          /\ PastSettings(q) => rows.settings # {}
      BY DEF BootedSafely, SettingsSeeded
    <3>3. PastSettings(q)' <=> PastSettings(q)
      BY <3>1, Zenon DEF PastSettings
    <3> QED
      BY <3>1, <3>2, <3>3, Zenon
  <2> QED
    BY <2>1, <2>2
<1>6. SettingsSeeded'
  BY <1>5, Zenon DEF SettingsSeeded
<1> QED
  BY <1>1, <1>4, <1>6 DEF BootedSafely

(* What every process may rely on while it moves.                          *)
LEMMA BootNow ==
  ASSUME BootedSafely, NEW p \in Booting
  PROVE  /\ proc \in [Booting -> Boots] /\ proc[p] \in Boots
         /\ proc[p].stage \in BootStages /\ proc[p].role \in B!Roles /\ proc[p].build \in 2..3
         /\ proc[p].saw \in 0..3 /\ proc[p].table \in 1..3
         /\ revision \in 0..3 /\ columns \in BOOLEAN /\ rerun \in BOOLEAN
         /\ migrationLock \in Booting \cup {B!Nobody}
         /\ rows \in [BootTables -> SUBSET RowGroups] /\ (revision > 0 => columns)
         /\ proc[p].stage \in {"off", "migrate", "upgrade", "index", "verify"} => proc[p].table = 1
         /\ proc[p].stage = "insert" /\ proc[p].table = 2 => proc[p].empty
         /\ PastSettings(p) => rows.settings # {}
         /\ Upgrades(p)
<1>1. proc \in [Booting -> Boots] /\ proc[p] \in Boots
  BY DEF BootedSafely, BootTypes
<1>2. /\ proc[p].stage \in BootStages /\ proc[p].role \in B!Roles /\ proc[p].build \in 2..3
      /\ proc[p].saw \in 0..3 /\ proc[p].table \in 1..3
  BY <1>1 DEF Boots, B!Builds
<1> QED
  BY <1>1, <1>2 DEF BootedSafely, BootTypes, UpgradesAlone, SettingsSeeded

(* Steps that only change the stage of a process.                          *)
LEMMA StageBoots ==
  ASSUME BootedSafely, NEW p \in Booting, NEW s \in BootStages, B!Enter(p, s),
         UNCHANGED <<revision, columns, rerun, migrationLock, rows>>,
         s \notin {"upgrade", "index", "insert", "serving"}, s = "crashed" => rerun,
         s \in {"off", "migrate", "verify"} => proc[p].table = 1,
         s = "select" => proc[p].table # 3
  PROVE  BootedSafely'
<1>1. /\ proc' \in [Booting -> Boots] /\ \A q \in Booting \ {p} : proc'[q] = proc[q]
      /\ proc'[p].stage = s /\ proc'[p].table = proc[p].table
  BY BootNow, BootStageSet DEF B!Enter
<1>2. ~PastSettings(p)'
  BY <1>1 DEF PastSettings
<1>3. Upgrades(p)'
  BY <1>1 DEF Upgrades
<1> QED
  BY <1>1, <1>2, <1>3, BootNow, OneBoots

LEMMA StartBoots ==
  ASSUME BootedSafely, NEW p \in Booting, NEW sound \in BOOLEAN, B!Start(p, sound)
  PROVE  BootedSafely'
<1> DEFINE s == CASE ~sound /\ proc[p].role # "service" -> "refused"
                  [] proc[p].role = "verifies"           -> "verify"
                  [] OTHER                               -> "migrate"
<1>1. s \in {"refused", "verify", "migrate"}
  OBVIOUS
<1>2. /\ proc[p].stage = "off" /\ B!Enter(p, s)
      /\ UNCHANGED <<revision, columns, rerun, migrationLock, rows>>
  BY DEF B!Start, B!database
<1> HIDE DEF s
<1>3. proc[p].table = 1
  BY <1>2, BootNow
<1>4. s \in BootStages
  BY <1>1 DEF BootStages
<1> QED
  BY <1>1, <1>2, <1>3, <1>4, StageBoots

LEMMA BeginUpgradeBoots ==
  ASSUME BootedSafely, B!Nobody \notin Booting, NEW p \in Booting, B!BeginUpgrade(p)
  PROVE  BootedSafely'
<1>1. proc \in [Booting -> Boots] /\ revision \in 0..3 /\ "upgrade" \in BootStages
  BY BootNow DEF BootStages
<1>2. /\ proc[p].stage = "migrate" /\ migrationLock = B!Nobody /\ migrationLock' = p
      /\ UNCHANGED <<revision, columns, rows>>
      /\ rerun' = (rerun \/ (columns /\ revision = 0))
  BY DEF B!BeginUpgrade, B!TakeLock, B!database
<1>3. PICK f : f = [proc EXCEPT ![p].stage = "upgrade"]
  OBVIOUS
<1>4. proc' = [f EXCEPT ![p].saw = revision]
  BY <1>1, <1>3 DEF B!BeginUpgrade
<1>5. /\ f \in [Booting -> Boots] /\ \A q \in Booting \ {p} : f[q] = proc[q]
      /\ f[p].stage = "upgrade" /\ f[p].table = proc[p].table
  BY <1>1, <1>3, BootStageSet
<1>6. PICK g : g = [f EXCEPT ![p].saw = revision]
  OBVIOUS
<1>7. /\ g \in [Booting -> Boots] /\ \A q \in Booting \ {p} : g[q] = f[q]
      /\ g[p].stage = f[p].stage /\ g[p].table = f[p].table /\ g[p].saw = revision
  BY <1>1, <1>5, <1>6, BootSawSet
<1>8. /\ proc' \in [Booting -> Boots] /\ \A q \in Booting \ {p} : proc'[q] = proc[q]
      /\ proc'[p].stage = "upgrade" /\ proc'[p].table = proc[p].table /\ proc'[p].saw = revision
  BY <1>4, <1>5, <1>6, <1>7
<1>9. ~PastSettings(p)'
  BY <1>8 DEF PastSettings
<1>10. proc'[p].table = 1
  BY <1>2, <1>8, BootNow
<1>11. Upgrades(p)'
  BY <1>2, <1>8 DEF Upgrades
<1>12. rerun' \in BOOLEAN /\ (rerun => rerun')
  BY <1>2, Zenon
<1> QED
  BY <1>2, <1>8, <1>9, <1>10, <1>11, <1>12, BootNow, OneBoots

(* The lock goes, and the columns come: nobody else has it, so that no     *)
(* upgrade under way finds them against its expectation.                   *)
LEMMA BuildIndexesBoots ==
  ASSUME BootedSafely, NEW p \in Booting, B!BuildIndexes(p)
  PROVE  BootedSafely'
<1>1. /\ proc[p].stage = "upgrade" /\ proc[p].saw = 0 /\ migrationLock = p
      /\ migrationLock' = B!Nobody /\ columns' = TRUE /\ proc[p].table = 1
      /\ UNCHANGED <<revision, rows, rerun>> /\ (columns => rerun)
  BY BootNow DEF B!BuildIndexes, B!Unlock, Upgrades
<1>2. PICK s \in {"crashed", "index"} : B!Enter(p, s) /\ s = IF columns THEN "crashed" ELSE "index"
  BY DEF B!BuildIndexes
<1>3. /\ proc' \in [Booting -> Boots] /\ \A q \in Booting \ {p} : proc'[q] = proc[q]
      /\ proc'[p].stage = s /\ proc'[p].table = 1 /\ proc'[p].saw = 0
  <2>1. s \in BootStages
    BY <1>2 DEF BootStages
  <2> QED
    BY <1>1, <1>2, <2>1, BootNow, BootStageSet DEF B!Enter
<1>4. s = "index" => revision = 0 /\ \A q \in Booting : proc[q].stage # "index"
  <2>1. SUFFICES ASSUME ~columns
                 PROVE  revision = 0 /\ \A q \in Booting : proc[q].stage # "index"
    BY <1>2
  <2> QED
    BY <2>1 DEF BootedSafely, BootTypes, UpgradesAlone, Upgrades
<1>5. Upgrades(p)'
  BY <1>1, <1>2, <1>3, <1>4 DEF Upgrades
<1>6. ~PastSettings(p)'
  BY <1>2, <1>3 DEF PastSettings
<1> QED
  BY <1>1, <1>2, <1>3, <1>4, <1>5, <1>6, BootNow, OneBoots

LEMMA DeadlockBoots ==
  ASSUME BootedSafely, NEW p \in Booting, B!Deadlock(p)
  PROVE  BootedSafely'
<1>1. PICK q \in Booting \ {p} : proc[q].stage = "upgrade" /\ proc[q].saw = 0
  BY DEF B!Deadlock
<1>2. proc[p].stage = "index" /\ B!Enter(p, "crashed")
      /\ UNCHANGED <<revision, columns, rerun, migrationLock, rows>>
  BY DEF B!Deadlock, B!database
<1>3. rerun
  BY <1>1, <1>2 DEF BootedSafely, UpgradesAlone, Upgrades
<1>4. "crashed" \in BootStages
  BY DEF BootStages
<1> QED
  BY <1>2, <1>3, <1>4, StageBoots

LEMMA EndUpgradeBoots ==
  ASSUME BootedSafely, B!Nobody \notin Booting, NEW p \in Booting, B!EndUpgrade(p)
  PROVE  BootedSafely'
<1>1. /\ proc[p].stage = IF proc[p].saw = 0 THEN "index" ELSE "upgrade"
      /\ migrationLock' = IF migrationLock = p THEN B!Nobody ELSE migrationLock
      /\ rerun' = rerun
  BY DEF B!EndUpgrade, B!Unlock
<1>2. proc[p].saw = revision /\ proc[p].table = 1 /\ (proc[p].stage = "upgrade" => migrationLock = p)
  BY <1>1, BootNow DEF Upgrades
<1>3. PICK s \in {"refused", "done", "select"} :
        /\ B!Enter(p, s) /\ revision' \in 0..3 /\ columns' = columns
        /\ revision' \in {revision, proc[p].build}
        /\ rows' \in [BootTables -> SUBSET RowGroups] /\ rows'.settings = rows.settings
  <2>1. CASE proc[p].saw > proc[p].build
    BY <2>1, BootNow DEF B!EndUpgrade, B!database
  <2>2. CASE ~(proc[p].saw > proc[p].build)
    <3>1. /\ revision' = proc[p].build /\ B!Enter(p, B!AfterUpgrade(p)) /\ columns' = columns
          /\ rows' = rows \/ rows' = [rows EXCEPT !.currencies = @ \cup {"fiat"}]
      BY <1>2, <2>2 DEF B!EndUpgrade
    <3>2. B!AfterUpgrade(p) \in {"done", "select"}
      BY DEF B!AfterUpgrade
    <3>3. rows' \in [BootTables -> SUBSET RowGroups] /\ rows'.settings = rows.settings
      BY <3>1, BootNow DEF BootTables, RowGroups
    <3> QED
      BY <3>1, <3>2, <3>3, BootNow
  <2> QED
    BY <2>1, <2>2
<1>4. /\ proc' \in [Booting -> Boots] /\ \A q \in Booting \ {p} : proc'[q] = proc[q]
      /\ proc'[p].stage = s /\ proc'[p].table = proc[p].table
  <2>1. s \in BootStages
    BY <1>3 DEF BootStages
  <2> QED
    BY <1>3, <2>1, BootNow, BootStageSet DEF B!Enter
<1>5. ~PastSettings(p)' /\ Upgrades(p)'
  BY <1>2, <1>3, <1>4 DEF PastSettings, Upgrades
<1>6. columns
  BY <1>1, <1>2, BootNow DEF Upgrades
<1>7. ASSUME NEW q \in Booting \ {p}
      PROVE  proc[q].stage # "index" /\ (proc[q].stage = "upgrade" => proc[q].saw = 0)
  <2>1. CASE proc[p].stage = "upgrade"
    <3>1. revision # 0 /\ migrationLock = p
      BY <1>1, <1>2, <2>1
    <3> QED
      BY <3>1 DEF BootedSafely, UpgradesAlone, Upgrades
  <2>2. CASE proc[p].stage = "index"
    <3>1. revision = 0
      BY <2>2, BootNow DEF Upgrades
    <3> QED
      BY <2>2, <3>1 DEF BootedSafely, UpgradesAlone, Upgrades
  <2> QED
    BY <1>1, <2>1, <2>2
<1>8. /\ migrationLock' \in Booting \cup {B!Nobody}
      /\ \A q \in Booting \ {p} : migrationLock = q => migrationLock' = q
  BY <1>1, BootNow
<1>9. columns' \in BOOLEAN /\ rerun' \in BOOLEAN /\ (revision' > 0 => columns')
  BY <1>1, <1>3, <1>6, BootNow
<1>10. proc'[p].stage \in {"refused", "done", "select"} /\ proc'[p].table = 1
  BY <1>2, <1>3, <1>4
<1> QED
  BY <1>1, <1>3, <1>4, <1>5, <1>6, <1>7, <1>8, <1>9, <1>10, OneBoots

LEMMA VerifyBoots ==
  ASSUME BootedSafely, NEW p \in Booting, B!Verify(p)
  PROVE  BootedSafely'
<1> DEFINE s == IF revision = proc[p].build THEN "select" ELSE "refused"
<1>1. s \in {"select", "refused"} /\ s \in BootStages
  BY DEF BootStages
<1>2. /\ proc[p].stage = "verify" /\ B!Enter(p, s)
      /\ UNCHANGED <<revision, columns, rerun, migrationLock, rows>>
  BY DEF B!Verify, B!database
<1> HIDE DEF s
<1> QED
  BY <1>1, <1>2, BootNow, StageBoots

(* After its table a process selects the next one, or serves.              *)
LEMMA OnwardsIsABoot ==
  ASSUME NEW q \in Boots
  PROVE  /\ B!Onwards(q) \in Boots
         /\ q.table = 3 => B!Onwards(q).stage = "serving"
         /\ q.table # 3 => B!Onwards(q).stage = "select" /\ B!Onwards(q).table = q.table + 1
<1>1. CASE q.table = 3
  <2>1. B!Onwards(q) = [q EXCEPT !.stage = "serving"]
    BY <1>1, SeedsOfTables DEF B!Onwards
  <2> QED
    BY <1>1, <2>1 DEF Boots, BootStages
<1>2. CASE q.table # 3
  <2>1. PICK a : a = [q EXCEPT !.stage = "select"]
    OBVIOUS
  <2>2. a \in Boots /\ a.stage = "select" /\ a.table = q.table
    BY <2>1 DEF Boots, BootStages
  <2>3. B!Onwards(q) = [a EXCEPT !.table = q.table + 1]
    BY <1>2, <2>1, SeedsOfTables DEF B!Onwards, Boots
  <2>4. q.table + 1 \in 1..3
    BY <1>2 DEF Boots
  <2>5. B!Onwards(q) \in Boots
    BY <2>2, <2>3, <2>4 DEF Boots
  <2> QED
    BY <1>2, <2>2, <2>3, <2>5 DEF Boots
<1> QED
  BY <1>1, <1>2

LEMMA SelectBoots ==
  ASSUME BootedSafely, NEW p \in Booting, B!Select(p)
  PROVE  BootedSafely'
<1> DEFINE empty == rows[B!Table(p)] = {}
<1>1. /\ proc[p].stage = "select" /\ UNCHANGED <<revision, columns, rerun, migrationLock, rows>>
      /\ proc[p].table \in 1..3 /\ proc[p] \in Boots /\ proc \in [Booting -> Boots]
  BY BootNow DEF B!Select, B!database
<1>2. CASE empty \/ B!Always[B!Table(p)] # {}
  <2>1. PICK a : a = [proc[p] EXCEPT !.stage = "insert"]
    OBVIOUS
  <2>2. a \in Boots /\ a.stage = "insert" /\ a.table = proc[p].table
    BY <1>1, <2>1 DEF Boots, BootStages
  <2>3. proc' = [proc EXCEPT ![p] = [a EXCEPT !.empty = empty]]
    BY <1>1, <1>2, <2>1 DEF B!Select
  <2>4. PICK b : b = [a EXCEPT !.empty = empty]
    OBVIOUS
  <2>5. empty \in BOOLEAN
    BY Zenon
  <2> HIDE DEF empty
  <2>6. b \in Boots /\ b.stage = "insert" /\ b.table = proc[p].table
    BY <2>2, <2>4, <2>5 DEF Boots
  <2>7. b.empty = empty
    BY <2>2, <2>4 DEF Boots
  <2>8. /\ proc' \in [Booting -> Boots] /\ \A q \in Booting \ {p} : proc'[q] = proc[q]
        /\ proc'[p] = b
    BY <1>1, <2>3, <2>4, <2>6
  <2>9. proc[p].table = 2 => b.empty
    BY <1>2, <2>7, SeedsOfTables DEF B!Table
  <2>10. proc[p].table = 3 => rows.settings # {}
    BY <1>1, BootNow DEF PastSettings
  <2> QED
    BY <1>1, <2>6, <2>8, <2>9, <2>10, BootNow, OneBoots DEF PastSettings, Upgrades
<1>3. CASE ~(empty \/ B!Always[B!Table(p)] # {})
  <2>1. proc' = [proc EXCEPT ![p] = B!Onwards(proc[p])]
    BY <1>1, <1>3 DEF B!Select
  <2>2. /\ proc' \in [Booting -> Boots] /\ \A q \in Booting \ {p} : proc'[q] = proc[q]
        /\ proc'[p] = B!Onwards(proc[p])
    BY <1>1, <2>1, OnwardsIsABoot
  <2>3. proc[p].table = 2 => rows.settings # {}
    BY <1>3, SeedsOfTables DEF B!Table
  <2>4. proc[p].table = 3 => rows.settings # {}
    BY <1>1, BootNow DEF PastSettings
  <2>5. PastSettings(p)' => rows.settings # {}
    BY <1>1, <2>2, <2>3, <2>4, OnwardsIsABoot DEF PastSettings
  <2>6. proc'[p].stage \in {"select", "serving"}
    BY <1>1, <2>2, OnwardsIsABoot
  <2> QED
    BY <1>1, <2>2, <2>5, <2>6, BootNow, OneBoots DEF Upgrades
<1> QED
  BY <1>2, <1>3

LEMMA InsertBoots ==
  ASSUME BootedSafely, NEW p \in Booting, B!Insert(p)
  PROVE  BootedSafely'
<1> DEFINE t == B!Table(p)
           new == B!Always[t] \cup (IF proc[p].empty THEN B!First[t] ELSE {})
<1>1. /\ proc[p].stage = "insert" /\ UNCHANGED <<revision, columns, rerun, migrationLock>>
      /\ proc[p].table \in 1..3 /\ proc[p] \in Boots /\ proc \in [Booting -> Boots]
      /\ rows \in [BootTables -> SUBSET RowGroups]
  BY BootNow DEF B!Insert
<1>2. rows' = [rows EXCEPT ![t] = @ \cup new] /\ proc' = [proc EXCEPT ![p] = B!Onwards(proc[p])]
  BY DEF B!Insert, B!Conflicts
<1>3. t \in BootTables /\ new \subseteq RowGroups
  BY <1>1, SeedsOfTables DEF B!Table, BootTables
<1>4. proc[p].table = 2 => t = "settings" /\ "row" \in new
  <2>1. SUFFICES ASSUME proc[p].table = 2 PROVE t = "settings" /\ "row" \in new
    OBVIOUS
  <2>2. t = "settings"
    BY <2>1, SeedsOfTables DEF B!Table
  <2>3. proc[p].empty
    BY <1>1, <2>1, BootNow
  <2> QED
    BY <2>2, <2>3, SeedsOfTables
<1> HIDE DEF t, new
<1>5. /\ rows' \in [BootTables -> SUBSET RowGroups] /\ rows.settings \subseteq rows'.settings
      /\ proc[p].table = 2 => rows'.settings # {}
  BY <1>1, <1>2, <1>3, <1>4 DEF BootTables
<1>6. /\ proc' \in [Booting -> Boots] /\ \A q \in Booting \ {p} : proc'[q] = proc[q]
      /\ proc'[p] = B!Onwards(proc[p])
  BY <1>1, <1>2, OnwardsIsABoot
<1>7. proc[p].table = 3 => rows'.settings # {}
  BY <1>1, <1>5, BootNow DEF PastSettings
<1>8. PastSettings(p)' => rows'.settings # {}
  BY <1>1, <1>5, <1>6, <1>7, OnwardsIsABoot DEF PastSettings
<1>9. proc'[p].stage \in {"select", "serving"}
  BY <1>1, <1>6, OnwardsIsABoot
<1> QED
  BY <1>1, <1>5, <1>6, <1>8, <1>9, BootNow, OneBoots DEF Upgrades

LEMMA DiesBoots ==
  ASSUME BootedSafely, NEW p \in Booting, B!Dies(p)
  PROVE  BootedSafely'
<1>1. proc \in [Booting -> Boots] /\ UNCHANGED <<revision, columns, rerun, rows>> /\ B!Unlock(p)
  BY BootNow DEF B!Dies, B!database
<1>2. PICK f : f = [proc EXCEPT ![p].stage = "off"]
  OBVIOUS
<1>3. PICK g : g = [f EXCEPT ![p].table = 1]
  OBVIOUS
<1>4. PICK h : h = [g EXCEPT ![p].saw = 0]
  OBVIOUS
<1>5. proc' = [h EXCEPT ![p].empty = FALSE]
  BY <1>1, <1>2, <1>3, <1>4 DEF B!Dies
<1>6. "off" \in BootStages
  BY DEF BootStages
<1>7. /\ f \in [Booting -> Boots] /\ \A q \in Booting \ {p} : f[q] = proc[q]
      /\ f[p].stage = "off"
  BY <1>1, <1>2, <1>6, BootStageSet
<1>8. /\ g \in [Booting -> Boots] /\ \A q \in Booting \ {p} : g[q] = f[q]
      /\ g[p].stage = f[p].stage /\ g[p].table = 1
  BY <1>3, <1>7 DEF Boots
<1>9. /\ h \in [Booting -> Boots] /\ \A q \in Booting \ {p} : h[q] = g[q]
      /\ h[p].stage = g[p].stage /\ h[p].table = g[p].table
  BY <1>4, <1>8 DEF Boots
<1>10. PICK k : k = [h EXCEPT ![p].empty = FALSE]
  OBVIOUS
<1>11. /\ k \in [Booting -> Boots] /\ \A q \in Booting \ {p} : k[q] = h[q]
       /\ k[p].stage = h[p].stage /\ k[p].table = h[p].table
  BY <1>9, <1>10 DEF Boots
<1>12. /\ proc' \in [Booting -> Boots] /\ \A q \in Booting \ {p} : proc'[q] = proc[q]
       /\ proc'[p].stage = "off" /\ proc'[p].table = 1 /\ ~PastSettings(p)'
  BY <1>5, <1>7, <1>8, <1>9, <1>10, <1>11 DEF PastSettings
<1> QED
  BY <1>1, <1>12, BootNow, OneBoots DEF B!Unlock, Upgrades

(* An admin leaves the settings and the processes alone.                   *)
LEMMA CurateBoots ==
  ASSUME BootedSafely, NEW t \in {"categories", "currencies"}, NEW changed \in SUBSET RowGroups,
         B!Curate(t, changed)
  PROVE  BootedSafely'
<1>1. rows' \in [BootTables -> SUBSET RowGroups] /\ rows'.settings = rows.settings
  BY DEF BootedSafely, BootTypes, B!Curate, BootTables
<1>2. UNCHANGED <<revision, columns, rerun, migrationLock, proc>>
  BY DEF B!Curate
<1>3. BootTypes'
  BY <1>1, <1>2 DEF BootedSafely, BootTypes
<1>4. UpgradesAlone'
  BY <1>2 DEF BootedSafely, UpgradesAlone, Upgrades
<1>5. SettingsSeeded'
  BY <1>1, <1>2 DEF BootedSafely, SettingsSeeded, PastSettings
<1> QED
  BY <1>3, <1>4, <1>5 DEF BootedSafely

LEMMA BootStep ==
  ASSUME BootedSafely, B!Nobody \notin Booting, [B!Next]_(B!vars)
  PROVE  BootedSafely'
<1>1. rows.categories \subseteq RowGroups /\ rows.currencies \subseteq RowGroups
  BY DEF BootedSafely, BootTypes, BootTables
<1>2. /\ B!First.categories \subseteq RowGroups
      /\ B!First.currencies \cup B!Always.currencies \subseteq RowGroups
  BY DEF B!First, B!Always, RowGroups
<1>3. ASSUME NEW c \in B!First.categories, B!UpsertCategory(c) \/ B!DeleteCategory(c) PROVE BootedSafely'
  BY <1>1, <1>2, <1>3, CurateBoots DEF B!UpsertCategory, B!DeleteCategory
<1>4. ASSUME NEW c \in B!First.currencies \cup B!Always.currencies,
             B!UpsertCurrency(c) \/ B!DeleteCurrency(c)
      PROVE  BootedSafely'
  BY <1>1, <1>2, <1>4, CurateBoots DEF B!UpsertCurrency, B!DeleteCurrency
<1>5. CASE UNCHANGED B!vars
  <2>1. BootTypes'
    BY <1>5 DEF B!vars, B!database, BootedSafely, BootTypes
  <2>2. UpgradesAlone' /\ SettingsSeeded'
    BY <1>5 DEF B!vars, B!database, BootedSafely, UpgradesAlone, Upgrades, SettingsSeeded,
                PastSettings
  <2> QED
    BY <2>1, <2>2 DEF BootedSafely
<1> QED
  BY <1>3, <1>4, <1>5, StartBoots, BeginUpgradeBoots, BuildIndexesBoots, DeadlockBoots,
     EndUpgradeBoots, VerifyBoots, SelectBoots, InsertBoots, DiesBoots
     DEF B!Next

-----------------------------------------------------------------------------
(* Inbox: every row on one page.                                           *)

PagingTypes ==
  /\ committed \cup flushed \subseteq I!Row /\ last \in 0..MaxId /\ now \in 0..MaxTime
  /\ shown \in [1..MaxId -> 0..1]
  /\ reader \in [stage : {"closed", "open", "end"}, cursor : I!Row \cup {I!NoCursor},
                 wanted : SUBSET (1..MaxId)]

(* A number is given to one row, and never again.                          *)
Numbered ==
  /\ \A x \in committed \cup flushed : x.id =< last
  /\ \A x, y \in committed \cup flushed : x.id = y.id => x = y

(* A row that was on a page lies no longer behind the cursor.              *)
SeenAhead(i) ==
  shown[i] = 1 => \E x \in committed : x.id = i /\ ~I!Behind(x, reader.cursor)

(* A row that is wanted was on a page, or lies behind the cursor of a      *)
(* client who is not at the end.                                           *)
Due(i) ==
  \/ shown[i] = 1
  \/ reader.stage = "open" /\ \E x \in committed : x.id = i /\ I!Behind(x, reader.cursor)

Paging ==
  /\ PagingTypes /\ Numbered
  /\ \A i \in 1..MaxId : SeenAhead(i)
  /\ reader.stage = "closed" => reader.cursor = I!NoCursor /\ \A i \in 1..MaxId : shown[i] = 0
  /\ reader.stage # "closed" => \A i \in reader.wanted : Due(i)

LEMMA PagingNow ==
  ASSUME Paging
  PROVE  /\ committed \subseteq I!Row /\ flushed \subseteq I!Row
         /\ last \in 0..MaxId /\ now \in 0..MaxTime /\ shown \in [1..MaxId -> 0..1]
         /\ reader \in [stage : {"closed", "open", "end"}, cursor : I!Row \cup {I!NoCursor},
                        wanted : SUBSET (1..MaxId)]
         /\ reader.stage \in {"closed", "open", "end"}
         /\ reader.cursor \in I!Row \cup {I!NoCursor} /\ reader.wanted \subseteq 1..MaxId
         /\ Numbered /\ \A i \in 1..MaxId : SeenAhead(i)
         /\ \A x \in committed \cup flushed : x.id \in 1..MaxId /\ x.at \in 0..MaxTime
         /\ reader.stage = "closed" =>
              reader.cursor = I!NoCursor /\ \A i \in 1..MaxId : shown[i] = 0
         /\ reader.stage # "closed" => \A i \in reader.wanted : Due(i)
BY DEF Paging, PagingTypes, I!Row

LEMMA PagingImplies == Paging => PagesComplete
BY PagingNow DEF Due, PagesComplete, I!PagesComplete

(* What has a number and a time.                                           *)
Placed == [id : Nat, at : Nat]

LEMMA RowsArePlaced == I!Row \cup {I!NoCursor} \subseteq Placed
BY PagingAssumption DEF I!Row, I!NoCursor, Placed

LEMMA OrderIsStrict ==
  ASSUME NEW x \in Placed, NEW y \in Placed, NEW z \in Placed
  PROVE  /\ ~(I!Precedes(x, y) /\ I!Precedes(y, x))
         /\ ~I!Precedes(x, x)
         /\ I!Precedes(x, y) /\ I!Precedes(y, z) => I!Precedes(x, z)
BY DEF I!Precedes, Placed

LEMMA PagingInit == I!Init => Paging
<1>1. SUFFICES ASSUME I!Init PROVE Paging
  OBVIOUS
<1>2. /\ committed = {} /\ flushed = {} /\ last = 0 /\ now = 0
      /\ reader = I!Unopened /\ shown = [i \in 1..MaxId |-> 0]
  BY <1>1 DEF I!Init
<1>3. reader.stage = "closed" /\ reader.cursor = I!NoCursor /\ reader.wanted = {}
  BY <1>2 DEF I!Unopened
<1>4. reader \in [stage : {"closed", "open", "end"}, cursor : I!Row \cup {I!NoCursor},
                  wanted : SUBSET (1..MaxId)]
  BY <1>2 DEF I!Unopened
<1> QED
  BY <1>2, <1>3, <1>4, PagingAssumption DEF Paging, PagingTypes, Numbered, SeenAhead

LEMMA InsertPages ==
  ASSUME Paging, NEW began \in 0..MaxTime, I!Insert(began)
  PROVE  Paging'
<1>1. /\ last < MaxId /\ last' = last + 1
      /\ flushed' = flushed \cup {[id |-> last + 1, at |-> began]}
      /\ UNCHANGED <<list, committed, now, reader, shown>>
  BY DEF I!Insert
<1> DEFINE new == [id |-> last + 1, at |-> began]
<1>2. new \in I!Row /\ new.id = last + 1
  BY <1>1, PagingNow, PagingAssumption DEF I!Row
<1> HIDE DEF new
<1>3. last' \in 0..MaxId
  BY <1>1, PagingNow, PagingAssumption
<1>4. PagingTypes'
  BY <1>1, <1>2, <1>3, PagingNow DEF PagingTypes, new, I!Row, I!NoCursor
<1>5. \A x \in committed \cup flushed : x.id =< last /\ x.id \in Nat /\ last \in Nat
  BY PagingNow, PagingAssumption DEF Numbered
<1>6. \A x \in committed' \cup flushed' : x \in committed \cup flushed \/ x = new
  BY <1>1 DEF new
<1>7. Numbered'
  <2>1. \A x \in committed' \cup flushed' : x.id =< last'
    BY <1>1, <1>2, <1>5, <1>6, PagingNow
  <2>2. \A x, y \in committed' \cup flushed' : x.id = y.id => x = y
    BY <1>2, <1>5, <1>6, PagingNow DEF Numbered
  <2> QED
    BY <2>1, <2>2 DEF Numbered
<1> QED
  BY <1>1, <1>4, <1>7, PagingNow
     DEF Paging, SeenAhead, Due, I!Behind, I!Precedes, I!NoCursor

LEMMA EndOfTransactionPages ==
  ASSUME Paging, NEW x \in flushed, I!CommitRow(x) \/ I!Rollback(x)
  PROVE  Paging'
<1>1. /\ committed' = committed \/ committed' = committed \cup {x}
      /\ flushed' = flushed \ {x} /\ UNCHANGED <<list, last, now, reader, shown>>
  BY DEF I!CommitRow, I!Rollback
<1>2. PagingTypes' /\ Numbered'
  BY <1>1, PagingNow DEF PagingTypes, Numbered, I!Row, I!NoCursor
<1>3. committed \subseteq committed'
  BY <1>1
<1>4. \A i \in 1..MaxId : SeenAhead(i)'
  BY <1>1, <1>3, PagingNow DEF SeenAhead, I!Behind, I!Precedes
<1>5. reader.stage # "closed" => \A i \in reader.wanted : Due(i)'
  BY <1>1, <1>3, PagingNow DEF Due, I!Behind, I!Precedes
<1> QED
  BY <1>1, <1>2, <1>4, <1>5, PagingNow DEF Paging, I!NoCursor

LEMMA ReadPagePages ==
  ASSUME Paging, NEW S \in SUBSET committed, I!ReadPage(S)
  PROVE  Paging'
<1> DEFINE older == {x \in committed : I!Behind(x, reader.cursor)}
           c == reader.cursor
<1>1. /\ reader.stage # "end" /\ S \subseteq older
      /\ S = older \/ I!Cardinality(S) = PageSize
      /\ \A x \in S, y \in older \ S : I!Precedes(x, y)
      /\ shown' = [i \in 1..MaxId |-> IF i \in I!Numbers(S) THEN shown[i] + 1 ELSE shown[i]]
      /\ UNCHANGED <<list, committed, flushed, last, now>>
  BY DEF I!ReadPage, I!IsPage, I!Show
<1>2. PICK d \in S \cup {c} :
        /\ S # {} => I!IsLast(d, S)
        /\ reader' = [stage |-> IF I!Cardinality(S) < PageSize THEN "end" ELSE "open",
                      cursor |-> d,
                      wanted |-> IF reader.stage = "closed" THEN I!Numbers(committed)
                                 ELSE reader.wanted]
  BY DEF I!ReadPage
<1>3. /\ reader'.stage = IF I!Cardinality(S) < PageSize THEN "end" ELSE "open"
      /\ reader'.cursor = d
      /\ reader'.wanted = IF reader.stage = "closed" THEN I!Numbers(committed)
                          ELSE reader.wanted
  BY <1>2
<1>4. /\ committed \subseteq Placed /\ c \in Placed /\ d \in Placed
      /\ d \in I!Row \cup {I!NoCursor}
  BY <1>2, RowsArePlaced, PagingNow
<1>5. \A x \in committed : x.id \in 1..MaxId
  BY PagingNow
<1>6. \A i : i \in I!Numbers(S) <=> \E x \in S : x.id = i
  BY DEF I!Numbers
<1>7. \A x, y \in committed : x.id = y.id => x = y
  BY PagingNow DEF Numbered
<1>8. \A x, y : I!Behind(x, y)' <=> I!Behind(x, y)
  BY <1>1 DEF I!Behind, I!Precedes
<1>9. \A i \in I!Numbers(S) : i \in 1..MaxId /\ shown[i] = 0
  <2>1. SUFFICES ASSUME NEW i \in I!Numbers(S) PROVE i \in 1..MaxId /\ shown[i] = 0
    OBVIOUS
  <2>2. PICK x \in S : x.id = i
    BY <1>6
  <2>3. x \in committed /\ I!Behind(x, c) /\ i \in 1..MaxId
    BY <1>1, <1>5, <2>2
  <2>4. shown[i] # 1
    <3>1. SUFFICES ASSUME shown[i] = 1 PROVE FALSE
      OBVIOUS
    <3>2. PICK y \in committed : y.id = i /\ ~I!Behind(y, c)
      BY <2>3, <3>1, PagingNow DEF SeenAhead
    <3> QED
      BY <1>7, <2>2, <2>3, <3>2
  <2> QED
    BY <2>3, <2>4, PagingNow
<1>10. \A i \in 1..MaxId : shown'[i] = IF i \in I!Numbers(S) THEN 1 ELSE shown[i]
  BY <1>1, <1>9
<1>11. PagingTypes'
  <2>1. shown' \in [1..MaxId -> 0..1]
    BY <1>1, <1>10, PagingNow
  <2>2. reader'.wanted \subseteq 1..MaxId
    BY <1>3, <1>5, PagingNow DEF I!Numbers
  <2>3. reader' \in [stage : {"closed", "open", "end"}, cursor : I!Row \cup {I!NoCursor},
                     wanted : SUBSET (1..MaxId)]
    BY <1>2, <1>3, <1>4, <2>2
  <2> QED
    BY <1>1, <2>1, <2>3, PagingNow DEF PagingTypes, I!Row, I!NoCursor
<1>12. Numbered'
  BY <1>1, PagingNow DEF Numbered
<1>13. \A x \in committed : I!Behind(x, d) => I!Behind(x, c)
  <2>1. SUFFICES ASSUME NEW x \in committed, I!Behind(x, d) PROVE I!Behind(x, c)
    OBVIOUS
  <2>2. CASE d = c
    BY <2>1, <2>2
  <2>3. CASE d \in S
    BY <1>1, <1>4, <2>1, <2>3, OrderIsStrict DEF I!Behind
  <2> QED
    BY <1>2, <2>2, <2>3
<1>14. \A x \in S : ~I!Behind(x, d)
  BY <1>1, <1>2, <1>4, OrderIsStrict DEF I!Behind, I!IsLast
<1>15. ASSUME NEW i \in 1..MaxId PROVE SeenAhead(i)'
  <2>1. SUFFICES ASSUME shown'[i] = 1
                 PROVE  \E x \in committed : x.id = i /\ ~I!Behind(x, d)
    BY <1>1, <1>3, <1>8 DEF SeenAhead
  <2>2. CASE i \in I!Numbers(S)
    BY <1>6, <1>14, <2>2
  <2>3. CASE i \notin I!Numbers(S)
    <3>1. PICK x \in committed : x.id = i /\ ~I!Behind(x, c)
      BY <1>10, <2>1, <2>3, PagingNow DEF SeenAhead
    <3> QED
      BY <1>13, <3>1
  <2> QED
    BY <2>2, <2>3
<1>16. ASSUME NEW i \in reader'.wanted PROVE Due(i)'
  <2>1. i \in 1..MaxId
    BY <1>11 DEF PagingTypes
  <2>2. shown[i] = 1 \/ \E x \in committed : x.id = i /\ I!Behind(x, c)
    <3>1. CASE reader.stage = "closed"
      <4>1. PICK x \in committed : x.id = i
        BY <1>3, <3>1 DEF I!Numbers
      <4>2. c = I!NoCursor /\ x.id < MaxId + 1 /\ x.at < MaxTime + 1
        BY <3>1, PagingNow, PagingAssumption
      <4>3. I!Behind(x, c)
        BY <4>2 DEF I!Behind, I!Precedes, I!NoCursor
      <4> QED
        BY <4>1, <4>3
    <3>2. CASE reader.stage # "closed"
      BY <1>3, <3>2, PagingNow DEF Due
    <3> QED
      BY <3>1, <3>2
  <2>3. CASE shown'[i] = 1
    BY <2>3 DEF Due
  <2>4. CASE shown'[i] # 1
    <3>1. shown[i] # 1 /\ i \notin I!Numbers(S)
      BY <1>10, <2>1, <2>4
    <3>2. PICK x \in committed : x.id = i /\ I!Behind(x, c)
      BY <2>2, <3>1
    <3>3. x \in older \ S
      BY <1>6, <3>1, <3>2
    <3>4. I!Cardinality(S) = PageSize /\ reader'.stage = "open"
      BY <1>1, <1>3, <3>3, PagingAssumption
    <3>5. I!Behind(x, d)
      BY <1>1, <1>2, <3>2, <3>3 DEF I!Behind
    <3> QED
      BY <1>1, <1>3, <1>8, <3>2, <3>4, <3>5 DEF Due
  <2> QED
    BY <2>3, <2>4
<1> QED
  BY <1>3, <1>11, <1>12, <1>15, <1>16 DEF Paging

LEMMA ReopenPages ==
  ASSUME Paging, I!Reopen
  PROVE  Paging'
<1>1. /\ reader' = I!Unopened /\ shown' = [i \in 1..MaxId |-> 0]
      /\ UNCHANGED <<list, committed, flushed, last, now>>
  BY DEF I!Reopen
<1>2. /\ reader'.stage = "closed" /\ reader'.cursor = I!NoCursor
      /\ reader' \in [stage : {"closed", "open", "end"}, cursor : I!Row \cup {I!NoCursor},
                      wanted : SUBSET (1..MaxId)]
  BY <1>1 DEF I!Unopened
<1>3. PagingTypes' /\ Numbered'
  BY <1>1, <1>2, PagingNow DEF PagingTypes, Numbered, I!Row, I!NoCursor
<1> QED
  BY <1>1, <1>2, <1>3 DEF Paging, SeenAhead, I!NoCursor

LEMMA PagingStep == Paging /\ [I!Next]_(I!vars) => Paging'
<1> SUFFICES ASSUME Paging, [I!Next]_(I!vars) PROVE Paging'
  OBVIOUS
<1>1. CASE I!Tick \/ UNCHANGED I!vars
  <2>1. UNCHANGED <<list, committed, flushed, last, reader, shown>> /\ now' \in 0..MaxTime
    BY <1>1, PagingNow, PagingAssumption DEF I!Tick, I!vars
  <2> QED
    BY <2>1, PagingNow
       DEF Paging, PagingTypes, Numbered, SeenAhead, Due, I!Row, I!NoCursor, I!Behind, I!Precedes
<1> QED
  BY <1>1, InsertPages, EndOfTransactionPages, ReadPagePages, ReopenPages DEF I!Next

-----------------------------------------------------------------------------
(* RateLimit: the calls of a window.                                       *)

Ticks == Window + MaxSkew

LEMMA TicksAre ==
  /\ Ticks \in Nat /\ Window \in 1..Ticks /\ L!Ages = (1 - Window)..MaxSkew
  /\ \A k \in 1..Ticks : MaxSkew + 1 - k \in L!Ages
  /\ 0 \in L!Ages
BY LimitAssumption DEF Ticks, L!Ages

(* The sums over ever more ticks.                                          *)
LEMMA RecentSums ==
  ASSUME NEW c \in [L!Ages -> Nat]
  PROVE  \E s \in [0..Ticks -> Nat] :
           /\ s[0] = 0
           /\ \A k \in 1..Ticks : s[k] = s[k-1] + c[MaxSkew + 1 - k]
           /\ \A m \in 0..Ticks : L!Recent(c, m) = s[m]
<1> DEFINE f == [k \in 1..Ticks |-> c[MaxSkew + 1 - k]]
<1>1. f \in [1..Ticks -> Nat] /\ \A k \in 1..Ticks : f[k] = c[MaxSkew + 1 - k]
  BY TicksAre
<1>2. ASSUME NEW m \in 0..Ticks PROVE L!Recent(c, m) = Total([k \in 1..m |-> f[k]], m)
  <2>1. [k \in 1..m |-> f[k]] = [k \in 1..m |-> c[MaxSkew + 1 - k]]
    BY TicksAre, <1>1
  <2>2. PICK g : g = [k \in 1..m |-> c[MaxSkew + 1 - k]]
    OBVIOUS
  <2>3. L!Recent(c, m) = L!Total(g, m)
    BY <2>2 DEF L!Recent
  <2>4. L!Total(g, m) = Total(g, m)
    BY DEF L!Total, Total
  <2> HIDE DEF f
  <2> QED
    BY <2>1, <2>2, <2>3, <2>4
<1> HIDE DEF f
<1>3. PICK s \in [0..Ticks -> Nat] :
        /\ s[0] = 0
        /\ \A k \in 1..Ticks : s[k] = s[k-1] + f[k]
        /\ \A m \in 0..Ticks : Total([k \in 1..m |-> f[k]], m) = s[m]
  BY TicksAre, <1>1, TotalPrefixes
<1> QED
  BY <1>1, <1>2, <1>3

(* More ticks hold no less.                                                *)
LEMMA RecentGrows ==
  ASSUME NEW c \in [L!Ages -> Nat], NEW m \in 0..Ticks
  PROVE  /\ L!Recent(c, m) \in Nat /\ L!Recent(c, m) <= L!Recent(c, Ticks)
         /\ L!Recent(c, 0) = 0
<1>1. PICK s \in [0..Ticks -> Nat] :
        /\ s[0] = 0
        /\ \A k \in 1..Ticks : s[k] = s[k-1] + c[MaxSkew + 1 - k]
        /\ \A k \in 0..Ticks : L!Recent(c, k) = s[k]
  BY RecentSums
<1> DEFINE Above == {k \in 0..Ticks : k >= m => s[m] <= s[k]}
<1>2. 0 \in Above
  BY TicksAre
<1>3. ASSUME NEW k \in 0..(Ticks - 1), k \in Above PROVE k + 1 \in Above
  <2>1. k + 1 \in 1..Ticks /\ (k + 1) - 1 = k /\ k \in 0..Ticks
    BY TicksAre
  <2>2. s[k + 1] = s[k] + c[MaxSkew + 1 - (k + 1)] /\ c[MaxSkew + 1 - (k + 1)] \in Nat
    BY <1>1, <2>1, TicksAre
  <2>3. s[k] <= s[k + 1] /\ s[k] \in Nat /\ s[k + 1] \in Nat /\ s[m] \in Nat
    BY <1>1, <2>1, <2>2
  <2>4. k + 1 >= m => k >= m \/ k + 1 = m
    BY <2>1
  <2> QED
    BY <1>3, <2>1, <2>3, <2>4
<1> HIDE DEF Above
<1>4. \A k \in 0..Ticks : k \in Above
  BY <1>2, <1>3, TicksAre, IntervalInduction
<1>5. s[m] <= s[Ticks]
  BY <1>4, TicksAre DEF Above
<1> QED
  BY <1>1, <1>5, TicksAre

(* Fewer calls hold no more.                                               *)
LEMMA RecentLess ==
  ASSUME NEW c \in [L!Ages -> Nat], NEW d \in [L!Ages -> Nat],
         \A t \in L!Ages : d[t] <= c[t], NEW m \in 0..Ticks
  PROVE  L!Recent(d, m) <= L!Recent(c, m)
<1>1. PICK s \in [0..Ticks -> Nat] :
        /\ s[0] = 0
        /\ \A k \in 1..Ticks : s[k] = s[k-1] + c[MaxSkew + 1 - k]
        /\ \A k \in 0..Ticks : L!Recent(c, k) = s[k]
  BY RecentSums
<1>2. PICK r \in [0..Ticks -> Nat] :
        /\ r[0] = 0
        /\ \A k \in 1..Ticks : r[k] = r[k-1] + d[MaxSkew + 1 - k]
        /\ \A k \in 0..Ticks : L!Recent(d, k) = r[k]
  BY RecentSums
<1> DEFINE Fewer == {k \in 0..Ticks : r[k] <= s[k]}
<1>3. 0 \in Fewer
  BY <1>1, <1>2, TicksAre
<1>4. ASSUME NEW k \in 0..(Ticks - 1), k \in Fewer PROVE k + 1 \in Fewer
  <2>1. k + 1 \in 1..Ticks /\ (k + 1) - 1 = k /\ k \in 0..Ticks
    BY TicksAre
  <2>2. PICK t \in L!Ages : t = MaxSkew + 1 - (k + 1)
    BY <2>1, TicksAre
  <2>3. s[k + 1] = s[k] + c[t] /\ r[k + 1] = r[k] + d[t]
    BY <1>1, <1>2, <2>1, <2>2
  <2>4. /\ s[k] \in Nat /\ r[k] \in Nat /\ c[t] \in Nat /\ d[t] \in Nat /\ d[t] <= c[t]
        /\ r[k] <= s[k]
    BY <1>1, <1>2, <1>4, <2>1
  <2>5. r[k + 1] <= s[k + 1]
    BY <2>3, <2>4
  <2> QED
    BY <2>1, <2>5
<1> HIDE DEF Fewer
<1>5. \A k \in 0..Ticks : k \in Fewer
  BY <1>3, <1>4, TicksAre, IntervalInduction
<1> QED
  BY <1>1, <1>2, <1>5 DEF Fewer

(* One call more is one in every stretch of ticks that reaches it.         *)
LEMMA RecentHit ==
  ASSUME NEW c \in [L!Ages -> Nat], NEW a \in L!Ages, NEW m \in 0..Ticks
  PROVE  /\ L!Hit(c, a) \in [L!Ages -> Nat]
         /\ L!Recent(L!Hit(c, a), m) = L!Recent(c, m) + (IF MaxSkew + 1 - a <= m THEN 1 ELSE 0)
<1> DEFINE d == L!Hit(c, a)
           e == MaxSkew + 1 - a
<1>1. /\ d \in [L!Ages -> Nat] /\ d[a] = c[a] + 1
      /\ \A t \in L!Ages \ {a} : d[t] = c[t]
  BY DEF L!Hit
<1>2. e \in 1..Ticks /\ \A k \in Int : MaxSkew + 1 - k = a => k = e
  BY LimitAssumption, TicksAre DEF Ticks
<1> HIDE DEF d, e
<1>3. PICK s \in [0..Ticks -> Nat] :
        /\ s[0] = 0
        /\ \A k \in 1..Ticks : s[k] = s[k-1] + c[MaxSkew + 1 - k]
        /\ \A k \in 0..Ticks : L!Recent(c, k) = s[k]
  BY RecentSums
<1>4. PICK r \in [0..Ticks -> Nat] :
        /\ r[0] = 0
        /\ \A k \in 1..Ticks : r[k] = r[k-1] + d[MaxSkew + 1 - k]
        /\ \A k \in 0..Ticks : L!Recent(d, k) = r[k]
  BY <1>1, RecentSums
<1> DEFINE More == {k \in 0..Ticks : r[k] = s[k] + (IF e <= k THEN 1 ELSE 0)}
<1>5. 0 \in More
  BY <1>2, <1>3, <1>4, TicksAre
<1>6. ASSUME NEW k \in 0..(Ticks - 1), k \in More PROVE k + 1 \in More
  <2>1. k + 1 \in 1..Ticks /\ (k + 1) - 1 = k /\ k \in 0..Ticks
    BY TicksAre
  <2>2. PICK t \in L!Ages : t = MaxSkew + 1 - (k + 1)
    BY <2>1, TicksAre
  <2>3. s[k + 1] = s[k] + c[t] /\ r[k + 1] = r[k] + d[t]
    BY <1>3, <1>4, <2>1, <2>2
  <2>4. /\ s[k] \in Nat /\ r[k] \in Nat /\ c[t] \in Nat /\ d[t] \in Nat
        /\ r[k] = s[k] + (IF e <= k THEN 1 ELSE 0)
    BY <1>1, <1>3, <1>4, <1>6, <2>1
  <2>5. CASE k + 1 = e
    <3>1. t = a
      BY <2>2, <2>5, LimitAssumption, TicksAre DEF e
    <3>2. r[k] = s[k]
      BY <1>2, <2>1, <2>4, <2>5
    <3>3. r[k + 1] = s[k + 1] + 1
      BY <1>1, <2>3, <2>4, <3>1, <3>2
    <3> QED
      BY <2>1, <2>5, <3>3
  <2>6. CASE k + 1 # e
    <3>1. t # a
      BY <1>2, <2>1, <2>2, <2>6
    <3>2. d[t] = c[t]
      BY <1>1, <3>1
    <3>3. (e <= k) <=> (e <= k + 1)
      BY <1>2, <2>1, <2>6
    <3> QED
      BY <2>1, <2>3, <2>4, <3>2, <3>3
  <2> QED
    BY <2>5, <2>6
<1> HIDE DEF More
<1>7. \A k \in 0..Ticks : k \in More
  BY <1>5, <1>6, TicksAre, IntervalInduction
<1> QED
  BY <1>1, <1>3, <1>4, <1>7 DEF More, d, e

(* When a tick passes, a stretch of ticks begins one later.                *)
LEMMA RecentOlder ==
  ASSUME NEW c \in [L!Ages -> Nat], NEW m \in 1..Ticks
  PROVE  /\ L!Older(c) \in [L!Ages -> Nat]
         /\ L!Recent(L!Older(c), m) = L!Recent(c, m - 1)
<1> DEFINE d == L!Older(c)
<1>1. /\ d \in [L!Ages -> Nat] /\ d[MaxSkew] = 0
      /\ \A t \in L!Ages \ {MaxSkew} : d[t] = c[t + 1]
  <2>1. \A t \in L!Ages \ {MaxSkew} : t + 1 \in L!Ages
    BY LimitAssumption DEF L!Ages
  <2>2. MaxSkew \in L!Ages
    BY LimitAssumption DEF L!Ages
  <2> QED
    BY <2>1, <2>2 DEF L!Older
<1> HIDE DEF d
<1>3. PICK s \in [0..Ticks -> Nat] :
        /\ s[0] = 0
        /\ \A k \in 1..Ticks : s[k] = s[k-1] + c[MaxSkew + 1 - k]
        /\ \A k \in 0..Ticks : L!Recent(c, k) = s[k]
  BY RecentSums
<1>4. PICK r \in [0..Ticks -> Nat] :
        /\ r[0] = 0
        /\ \A k \in 1..Ticks : r[k] = r[k-1] + d[MaxSkew + 1 - k]
        /\ \A k \in 0..Ticks : L!Recent(d, k) = r[k]
  BY <1>1, RecentSums
<1> DEFINE Later == {k \in 0..Ticks : k # 0 => r[k] = s[k - 1]}
<1>5. 0 \in Later
  BY TicksAre
<1>6. ASSUME NEW k \in 0..(Ticks - 1), k \in Later PROVE k + 1 \in Later
  <2>1. k + 1 \in 1..Ticks /\ (k + 1) - 1 = k /\ k \in 0..Ticks
    BY TicksAre
  <2>2. PICK t \in L!Ages : t = MaxSkew + 1 - (k + 1)
    BY <2>1, TicksAre
  <2>3. r[k + 1] = r[k] + d[t]
    BY <1>4, <2>1, <2>2
  <2>4. CASE k = 0
    <3>1. t = MaxSkew
      BY <2>2, <2>4, LimitAssumption
    <3>2. r[k + 1] = s[k]
      BY <1>1, <1>3, <1>4, <2>3, <2>4, <3>1
    <3> QED
      BY <2>1, <3>2
  <2>5. CASE k # 0
    <3>1. k \in 1..Ticks /\ t # MaxSkew /\ t + 1 = MaxSkew + 1 - k
      BY <2>1, <2>2, <2>5, LimitAssumption
    <3>2. d[t] = c[MaxSkew + 1 - k]
      BY <1>1, <3>1
    <3>3. s[k] = s[k - 1] + c[MaxSkew + 1 - k] /\ r[k] = s[k - 1]
      BY <1>3, <1>6, <2>5, <3>1
    <3>4. r[k + 1] = s[k]
      BY <2>3, <3>2, <3>3
    <3> QED
      BY <2>1, <3>4
  <2> QED
    BY <2>4, <2>5
<1> HIDE DEF Later
<1>7. \A k \in 0..Ticks : k \in Later
  BY <1>5, <1>6, TicksAre, IntervalInduction
<1>8. r[m] = s[m - 1] /\ m \in 0..Ticks /\ m - 1 \in 0..Ticks
  BY <1>7, TicksAre DEF Later
<1> QED
  BY <1>1, <1>3, <1>4, <1>8 DEF d

(* Calls that are trimmed and perhaps recorded.                            *)
LEMMA RecordedCounts ==
  ASSUME NEW c \in [L!Ages -> Nat], NEW clock \in 0..MaxSkew, L!Recent(c, Ticks) <= Limit
  PROVE  /\ L!Recorded(c, clock) \in [L!Ages -> Nat]
         /\ L!Recent(L!Recorded(c, clock), Ticks) <= Limit
         /\ \A m \in 0..Window :
              L!Recent(L!Recorded(c, clock), m) =
                L!Recent(c, m) + (IF L!Admits(L!Trimmed(c, clock)) /\ MaxSkew + 1 - clock <= m
                                  THEN 1 ELSE 0)
<1> DEFINE kept == L!Trimmed(c, clock)
           d == L!Recorded(c, clock)
<1>1. /\ kept \in [L!Ages -> Nat] /\ \A t \in L!Ages : kept[t] <= c[t]
      /\ \A t \in L!Ages : t > clock - Window => kept[t] = c[t]
  <2>1. \A t \in L!Ages : kept[t] = IF t <= clock - Window THEN 0 ELSE c[t]
    BY DEF L!Trimmed
  <2>2. kept \in [L!Ages -> Nat]
    BY DEF L!Trimmed
  <2>3. \A t \in L!Ages : t \in Int /\ clock - Window \in Int /\ c[t] \in Nat
    BY LimitAssumption DEF L!Ages
  <2> HIDE DEF kept
  <2> QED
    BY <2>1, <2>2, <2>3
<1>2. d = IF L!Admits(kept) THEN L!Hit(kept, clock) ELSE kept
  BY DEF L!Recorded
<1>3. L!Admits(kept) <=> L!Recent(kept, Ticks) < Limit
  BY DEF L!Admits, Ticks
<1> HIDE DEF kept, d
<1>4. clock \in L!Ages /\ Ticks \in 0..Ticks /\ \A m \in 0..Window : m \in 0..Ticks
  BY LimitAssumption, TicksAre DEF L!Ages
<1>5. ASSUME NEW m \in 0..Window PROVE L!Recent(kept, m) = L!Recent(c, m)
  <2>1. ASSUME NEW k \in 1..m PROVE kept[MaxSkew + 1 - k] = c[MaxSkew + 1 - k]
    <3>1. MaxSkew + 1 - k > clock - Window /\ MaxSkew + 1 - k \in L!Ages
      BY LimitAssumption, TicksAre DEF Ticks
    <3> QED
      BY <1>1, <3>1
  <2>2. [k \in 1..m |-> kept[MaxSkew + 1 - k]] = [k \in 1..m |-> c[MaxSkew + 1 - k]]
    BY <2>1
  <2> QED
    BY <2>2 DEF L!Recent
<1>6. /\ L!Recent(kept, Ticks) <= L!Recent(c, Ticks)
      /\ L!Recent(kept, Ticks) \in Nat /\ L!Recent(c, Ticks) \in Nat
  BY <1>1, <1>4, RecentLess, RecentGrows
<1>7. CASE L!Admits(kept)
  <2>1. d = L!Hit(kept, clock)
    BY <1>2, <1>7
  <2>2. d \in [L!Ages -> Nat]
    BY <1>1, <1>4, <2>1, RecentHit
  <2>3. ASSUME NEW m \in 0..Ticks
        PROVE  L!Recent(d, m) = L!Recent(kept, m) + (IF MaxSkew + 1 - clock <= m THEN 1 ELSE 0)
    BY <1>1, <1>4, <2>1, RecentHit
  <2>4. L!Recent(d, Ticks) <= Limit
    <3>1. L!Recent(d, Ticks) <= L!Recent(kept, Ticks) + 1
      BY <1>4, <1>6, <2>3
    <3>2. L!Recent(d, Ticks) \in Nat
      BY <1>4, <2>2, RecentGrows
    <3> QED
      BY <1>3, <1>6, <1>7, <3>1, <3>2, LimitAssumption
  <2> QED
    BY <1>4, <1>5, <1>7, <2>2, <2>3, <2>4 DEF kept, d
<1>8. CASE ~L!Admits(kept)
  <2>1. d = kept
    BY <1>2, <1>8
  <2>2. L!Recent(d, Ticks) <= Limit
    BY <1>6, <2>1, LimitAssumption
  <2>3. \A m \in 0..Window : L!Recent(c, m) \in Nat
    BY <1>4, RecentGrows
  <2>4. \A m \in 0..Window : L!Recent(d, m) = L!Recent(c, m) + 0
    BY <1>5, <2>1, <2>3
  <2> QED
    BY <1>1, <1>8, <2>1, <2>2, <2>4 DEF kept, d
<1> QED
  BY <1>7, <1>8

(* The processes one after the other, to add up what each has counted.     *)
Count == Cardinality(Processes)

Roster == CHOOSE f \in [1..Count -> Processes] :
            /\ \A i, j \in 1..Count : f[i] = f[j] => i = j
            /\ \A p \in Processes : \E i \in 1..Count : f[i] = p

LEMMA RosterIs ==
  /\ Count \in Nat /\ Roster \in [1..Count -> Processes]
  /\ \A i, j \in 1..Count : Roster[i] = Roster[j] => i = j
  /\ \A p \in Processes : \E i \in 1..Count : Roster[i] = p
<1>1. Count \in Nat /\ ExistsBijection(1..Count, Processes)
  BY LimitAssumption, FS_CardinalityType DEF Count
<1>2. PICK f \in Bijection(1..Count, Processes) : TRUE
  BY <1>1 DEF ExistsBijection
<1>3. /\ f \in [1..Count -> Processes]
      /\ \A i, j \in 1..Count : f[i] = f[j] => i = j
      /\ \A p \in Processes : \E i \in 1..Count : f[i] = p
  BY <1>2 DEF Bijection, Injection, Surjection, IsInjective
<1> QED
  BY <1>1, <1>3 DEF Roster

Own(m) == Total([i \in 1..Count |-> L!Recent(own[Roster[i]], m)], Count)

(* What a window let through was counted in Redis, or by a process, or by  *)
(* a process that is no more.                                              *)
WindowCounted(m) ==
  L!Recent(admitted, m) <=
    L!Recent(shared, m) + (IF strict THEN 0 ELSE Own(m) + Limit * restarts)

LimitTypes ==
  /\ skew \in [Processes -> 0..MaxSkew] /\ strict \in BOOLEAN
  /\ shared \in [L!Ages -> Nat] /\ own \in [Processes -> [L!Ages -> Nat]]
  /\ restarts \in Nat /\ admitted \in [L!Ages -> Nat]

Limiting ==
  /\ LimitTypes
  /\ L!Recent(shared, Ticks) <= Limit
  /\ \A p \in Processes : L!Recent(own[p], Ticks) <= Limit
  /\ \A m \in 0..Window : WindowCounted(m)

LEMMA RosterSum ==
  ASSUME NEW o \in [Processes -> [L!Ages -> Nat]], NEW m \in 0..Ticks
  PROVE  /\ [i \in 1..Count |-> L!Recent(o[Roster[i]], m)] \in [1..Count -> Nat]
         /\ Total([i \in 1..Count |-> L!Recent(o[Roster[i]], m)], Count) \in Nat
<1>1. ASSUME NEW i \in 1..Count PROVE L!Recent(o[Roster[i]], m) \in Nat
  <2>1. o[Roster[i]] \in [L!Ages -> Nat]
    BY RosterIs
  <2> QED
    BY <2>1, RecentGrows
<1> DEFINE f == [i \in 1..Count |-> L!Recent(o[Roster[i]], m)]
<1>2. f \in [1..Count -> Nat]
  BY <1>1
<1> HIDE DEF f
<1>3. Total(f, Count) \in Nat
  BY <1>2, RosterIs, TotalCovers
<1> QED
  BY <1>2, <1>3 DEF f

LEMMA OwnSum ==
  ASSUME LimitTypes, NEW m \in 0..Ticks
  PROVE  /\ [i \in 1..Count |-> L!Recent(own[Roster[i]], m)] \in [1..Count -> Nat]
         /\ Own(m) \in Nat
BY RosterSum DEF Own, LimitTypes

(* One process counts.                                                     *)
LEMMA OwnUpdate ==
  ASSUME LimitTypes, LimitTypes', NEW p \in Processes, NEW m \in 0..Ticks,
         \A q \in Processes \ {p} : own'[q] = own[q]
  PROVE  Own(m)' = Own(m) + (L!Recent(own'[p], m) - L!Recent(own[p], m))
<1> DEFINE f == [i \in 1..Count |-> L!Recent(own[Roster[i]], m)]
           g == [i \in 1..Count |-> L!Recent(own'[Roster[i]], m)]
<1>1. PICK d \in 1..Count : Roster[d] = p
  BY RosterIs
<1>2. ASSUME NEW i \in 1..Count, i # d PROVE g[i] = f[i]
  <2>1. Roster[i] \in Processes \ {p}
    BY <1>1, <1>2, RosterIs
  <2> QED
    BY <2>1
<1>3. f \in [1..Count -> Nat]
  BY OwnSum
<1>5. g \in [1..Count -> Nat]
  BY RosterSum DEF LimitTypes
<1>6. Own(m) = Total(f, Count) /\ Own(m)' = Total(g, Count)
  BY DEF Own
<1>7. f[d] = L!Recent(own[p], m) /\ g[d] = L!Recent(own'[p], m)
  BY <1>1
<1> HIDE DEF f, g
<1>8. f \in [1..Count -> Int] /\ g \in [1..Count -> Int]
  BY <1>3, <1>5
<1>9. Total(g, Count) = Total(f, Count) + (g[d] - f[d])
  BY <1>2, <1>8, RosterIs, TotalUpdate
<1> QED
  BY <1>6, <1>7, <1>9

LEMMA NoneCounts ==
  /\ L!None \in [L!Ages -> Nat]
  /\ \A m \in 0..Ticks : L!Recent(L!None, m) = 0
<1>1. L!None \in [L!Ages -> Nat] /\ \A t \in L!Ages : L!None[t] = 0
  BY DEF L!None
<1>2. ASSUME NEW m \in 0..Ticks PROVE L!Recent(L!None, m) = 0
  <2> DEFINE f == [k \in 1..m |-> L!None[MaxSkew + 1 - k]]
  <2>1. \A k \in 1..m : f[k] = 0
    <3>1. \A k \in 1..m : k \in 1..Ticks
      BY TicksAre
    <3> QED
      BY <1>1, <3>1, TicksAre
  <2>2. L!Recent(L!None, m) = L!Total(f, m)
    BY DEF L!Recent
  <2>3. f \in [1..m -> Int] /\ m \in Nat
    BY <2>1, TicksAre
  <2> HIDE DEF f
  <2>4. L!Total(f, m) = Total(f, m)
    BY DEF L!Total, Total
  <2>5. Total(f, m) = 0
    BY <2>1, <2>3, TotalZero
  <2> QED
    BY <2>2, <2>4, <2>5
<1> QED
  BY <1>1, <1>2

LEMMA LimitInit == L!Init => Limiting
<1> SUFFICES ASSUME L!Init PROVE Limiting
  OBVIOUS
<1>1. /\ skew \in [Processes -> 0..MaxSkew] /\ strict \in BOOLEAN
      /\ shared = L!None /\ own = [p \in Processes |-> L!None]
      /\ restarts = 0 /\ admitted = L!None
  BY DEF L!Init
<1>2. LimitTypes
  BY <1>1, NoneCounts DEF LimitTypes
<1>3. Ticks \in 0..Ticks /\ \A m \in 0..Window : m \in 0..Ticks
  BY TicksAre
<1>4. L!Recent(shared, Ticks) <= Limit /\ \A p \in Processes : L!Recent(own[p], Ticks) <= Limit
  BY <1>1, <1>3, NoneCounts, LimitAssumption
<1>5. ASSUME NEW m \in 0..Window PROVE WindowCounted(m)
  <2>1. Own(m) \in Nat
    BY <1>2, <1>3, OwnSum
  <2>2. L!Recent(admitted, m) = 0 /\ L!Recent(shared, m) = 0
    BY <1>1, <1>3, NoneCounts
  <2> QED
    BY <1>1, <2>1, <2>2, LimitAssumption DEF WindowCounted
<1> QED
  BY <1>2, <1>4, <1>5 DEF Limiting

LEMMA LimitImplies == Limiting => AdmittedBounded
<1> SUFFICES ASSUME Limiting
             PROVE  L!Recent(admitted, Window) <=
                      IF strict THEN Limit
                      ELSE Limit * (1 + Count + restarts)
  BY DEF AdmittedBounded, L!AdmittedBounded, L!Cardinality, Cardinality, Count
<1>1. LimitTypes /\ WindowCounted(Window) /\ Window \in 0..Ticks
  BY LimitAssumption, TicksAre DEF Limiting
<1>2. /\ L!Recent(shared, Window) <= L!Recent(shared, Ticks) /\ L!Recent(shared, Window) \in Nat
      /\ L!Recent(admitted, Window) \in Nat /\ L!Recent(shared, Ticks) \in Nat
      /\ restarts \in Nat /\ Count \in Nat /\ Limit \in Nat
      /\ L!Recent(shared, Ticks) <= Limit
  <2>1. Ticks \in 0..Ticks
    BY TicksAre
  <2> QED
    BY <1>1, <2>1, RecentGrows, RosterIs, LimitAssumption DEF LimitTypes, Limiting
<1>3. Own(Window) <= Count * Limit /\ Own(Window) \in Nat
  <2> DEFINE f == [i \in 1..Count |-> L!Recent(own[Roster[i]], Window)]
  <2>1. f \in [1..Count -> Nat] /\ Own(Window) = Total(f, Count) /\ Own(Window) \in Nat
    BY <1>1, OwnSum DEF Own
  <2>2. ASSUME NEW i \in 1..Count PROVE f[i] <= Limit
    <3>1. own[Roster[i]] \in [L!Ages -> Nat] /\ L!Recent(own[Roster[i]], Ticks) <= Limit
      BY <1>1, RosterIs DEF LimitTypes, Limiting
    <3>2. /\ L!Recent(own[Roster[i]], Window) <= L!Recent(own[Roster[i]], Ticks)
          /\ L!Recent(own[Roster[i]], Window) \in Nat /\ L!Recent(own[Roster[i]], Ticks) \in Nat
      BY <1>1, <3>1, TicksAre, RecentGrows
    <3> QED
      BY <1>2, <3>1, <3>2
  <2> HIDE DEF f
  <2> QED
    BY <1>2, <2>1, <2>2, TotalBounded
<1>4. CASE strict
  BY <1>1, <1>2, <1>4 DEF WindowCounted
<1>5. CASE ~strict
  <2>1. L!Recent(admitted, Window) <= L!Recent(shared, Window) + (Own(Window) + Limit * restarts)
    BY <1>1, <1>5 DEF WindowCounted
  <2>2. PICK a, b \in Nat : a = Count * Limit /\ b = Limit * restarts
    BY <1>2
  <2>3. Limit * (1 + Count + restarts) = Limit + a + b
    BY <1>2, <2>2
  <2>4. L!Recent(admitted, Window) <= Limit + a + b
    BY <1>2, <1>3, <2>1, <2>2
  <2> QED
    BY <1>5, <2>3, <2>4
<1> QED
  BY <1>4, <1>5

LEMMA LimitNow ==
  ASSUME Limiting
  PROVE  /\ LimitTypes /\ L!Recent(shared, Ticks) <= Limit
         /\ \A p \in Processes : skew[p] \in 0..MaxSkew /\ own[p] \in [L!Ages -> Nat]
                                 /\ L!Recent(own[p], Ticks) <= Limit
         /\ shared \in [L!Ages -> Nat] /\ admitted \in [L!Ages -> Nat] /\ restarts \in Nat
         /\ \A m \in 0..Window :
              /\ m \in 0..Ticks /\ WindowCounted(m) /\ Own(m) \in Nat
              /\ L!Recent(shared, m) \in Nat /\ L!Recent(admitted, m) \in Nat
<1>1. LimitTypes
  BY DEF Limiting
<1>2. \A m \in 0..Window : m \in 0..Ticks
  BY TicksAre
<1>3. ASSUME NEW m \in 0..Window
      PROVE  /\ Own(m) \in Nat /\ WindowCounted(m)
             /\ L!Recent(shared, m) \in Nat /\ L!Recent(admitted, m) \in Nat
  BY <1>1, <1>2, OwnSum, RecentGrows DEF LimitTypes, Limiting
<1> QED
  BY <1>1, <1>2, <1>3 DEF LimitTypes, Limiting

(* A product that grows with the restarts.                                 *)
LEMMA RestartsWeigh ==
  ASSUME NEW r \in Nat
  PROVE  /\ Limit * r \in Nat /\ Limit * (r + 1) = Limit * r + Limit
BY LimitAssumption

(* A call that is let through is counted where the observer stands.        *)
LEMMA AdmittedCounts ==
  ASSUME Limiting, NEW admits \in BOOLEAN,
         admitted' = IF admits THEN L!Hit(admitted, 0) ELSE admitted
  PROVE  /\ admitted' \in [L!Ages -> Nat]
         /\ \A m \in 0..Window :
              L!Recent(admitted', m) =
                L!Recent(admitted, m) + (IF admits /\ MaxSkew + 1 - 0 <= m THEN 1 ELSE 0)
<1>1. /\ admitted \in [L!Ages -> Nat] /\ 0 \in L!Ages
      /\ \A m \in 0..Window : m \in 0..Ticks /\ L!Recent(admitted, m) \in Nat
  BY LimitNow, TicksAre
<1>2. CASE admits
  <2>1. admitted' = L!Hit(admitted, 0)
    BY <1>2
  <2>2. admitted' \in [L!Ages -> Nat]
    BY <1>1, <2>1 DEF L!Hit
  <2>3. ASSUME NEW m \in 0..Window
        PROVE  L!Recent(admitted', m) =
                 L!Recent(admitted, m) + (IF MaxSkew + 1 - 0 <= m THEN 1 ELSE 0)
    <3>1. m \in 0..Ticks
      BY <1>1
    <3> QED
      BY <1>1, <2>1, <3>1, RecentHit
  <2> QED
    BY <1>2, <2>2, <2>3
<1>3. CASE ~admits
  BY <1>1, <1>3
<1> QED
  BY <1>2, <1>3

LEMMA HitRedisLimits ==
  ASSUME NEW p \in Processes, Limiting, L!HitRedis(p) PROVE Limiting'
<1> DEFINE clock == skew[p]
           kept == L!Trimmed(shared, clock)
<1>1. /\ shared' = L!Recorded(shared, clock)
      /\ admitted' = IF L!Admits(kept) THEN L!Hit(admitted, 0) ELSE admitted
      /\ UNCHANGED <<skew, strict, up, own, restarts>>
  BY DEF L!HitRedis
<1>2. /\ shared' \in [L!Ages -> Nat] /\ L!Recent(shared', Ticks) <= Limit
      /\ \A m \in 0..Window :
           L!Recent(shared', m) =
             L!Recent(shared, m) + (IF L!Admits(kept) /\ MaxSkew + 1 - clock <= m THEN 1 ELSE 0)
  BY <1>1, LimitNow, RecordedCounts
<1> HIDE DEF kept
<1>3. /\ admitted' \in [L!Ages -> Nat]
      /\ \A m \in 0..Window :
           L!Recent(admitted', m) =
             L!Recent(admitted, m) + (IF L!Admits(kept) /\ MaxSkew + 1 - 0 <= m THEN 1 ELSE 0)
  <2>1. L!Admits(kept) \in BOOLEAN
    BY DEF L!Admits
  <2> QED
    BY <1>1, <2>1, AdmittedCounts
<1>4. LimitTypes'
  BY <1>1, <1>2, <1>3 DEF Limiting, LimitTypes
<1>5. ASSUME NEW m \in 0..Window PROVE WindowCounted(m)'
  <2>1. Own(m)' = Own(m)
    BY <1>1 DEF Own
  <2>2. clock \in 0..MaxSkew /\ MaxSkew \in Nat /\ m \in Nat
    BY LimitNow, LimitAssumption
  <2> HIDE DEF clock
  <2>3. PICK x, y, b : /\ x = (IF L!Admits(kept) /\ MaxSkew + 1 - 0 <= m THEN 1 ELSE 0)
                       /\ y = (IF L!Admits(kept) /\ MaxSkew + 1 - clock <= m THEN 1 ELSE 0)
                       /\ b = (IF strict THEN 0 ELSE Own(m) + Limit * restarts)
    OBVIOUS
  <2>4. x \in {0, 1} /\ y \in {0, 1} /\ x <= y
    BY <2>2, <2>3
  <2>5. L!Recent(admitted, m) <= L!Recent(shared, m) + b /\ b \in Nat
    BY <2>3, LimitNow, RestartsWeigh DEF WindowCounted
  <2>6. L!Recent(admitted', m) = L!Recent(admitted, m) + x
        /\ L!Recent(shared', m) = L!Recent(shared, m) + y
    BY <1>2, <1>3, <2>3
  <2>7. L!Recent(shared, m) \in Nat /\ L!Recent(admitted, m) \in Nat
    BY LimitNow
  <2>8. L!Recent(admitted', m) <= L!Recent(shared', m) + b
    BY <2>4, <2>5, <2>6, <2>7
  <2> QED
    BY <1>1, <2>1, <2>3, <2>8 DEF WindowCounted
<1> QED
  BY <1>1, <1>2, <1>4, <1>5 DEF Limiting

LEMMA HitFailsLimits ==
  ASSUME NEW p \in Processes, Limiting, L!HitFails(p) PROVE Limiting'
<1> DEFINE kept == L!Trimmed(own[p], 0)
<1>1. /\ shared' = shared \/ shared' = L!Recorded(shared, skew[p])
      /\ UNCHANGED <<skew, strict, restarts>>
      /\ IF strict THEN UNCHANGED <<own, admitted>>
         ELSE /\ own' = [own EXCEPT ![p] = L!Recorded(own[p], 0)]
              /\ admitted' = IF L!Admits(kept) THEN L!Hit(admitted, 0) ELSE admitted
  <2>1. L!Fallback(p) /\ shared' \in {shared} \cup {L!Recorded(shared, skew[p])}
        /\ UNCHANGED <<skew, strict, restarts>>
    BY DEF L!HitFails
  <2> QED
    BY <2>1 DEF L!Fallback
<1>2. /\ shared' \in [L!Ages -> Nat] /\ L!Recent(shared', Ticks) <= Limit
      /\ \A m \in 0..Window : L!Recent(shared', m) >= L!Recent(shared, m)
                              /\ L!Recent(shared', m) \in Nat
  <2>1. CASE shared' = shared
    BY <2>1, LimitNow
  <2>2. CASE shared' = L!Recorded(shared, skew[p])
    <3>1. /\ shared' \in [L!Ages -> Nat] /\ L!Recent(shared', Ticks) <= Limit
          /\ \A m \in 0..Window :
               L!Recent(shared', m) =
                 L!Recent(shared, m) + (IF /\ L!Admits(L!Trimmed(shared, skew[p]))
                                           /\ MaxSkew + 1 - skew[p] <= m THEN 1 ELSE 0)
      BY <2>2, LimitNow, RecordedCounts
    <3>2. \A m \in 0..Window : L!Recent(shared, m) \in Nat
      BY LimitNow
    <3> QED
      BY <3>1, <3>2
  <2> QED
    BY <1>1, <2>1, <2>2
<1>3. CASE strict
  <2>1. UNCHANGED <<skew, strict, restarts, own, admitted>>
    BY <1>1, <1>3
  <2>2. LimitTypes'
    BY <1>2, <2>1 DEF Limiting, LimitTypes
  <2>3. ASSUME NEW m \in 0..Window PROVE WindowCounted(m)'
    <3>1. L!Recent(admitted, m) <= L!Recent(shared, m) + 0
      BY <1>3, LimitNow DEF WindowCounted
    <3>2. L!Recent(admitted, m) <= L!Recent(shared', m) + 0
      BY <1>2, <3>1, LimitNow
    <3> QED
      BY <1>3, <2>1, <3>2 DEF WindowCounted
  <2> QED
    BY <1>2, <2>1, <2>2, <2>3 DEF Limiting
<1>4. CASE ~strict
  <2>1. /\ own' = [own EXCEPT ![p] = L!Recorded(own[p], 0)]
        /\ admitted' = IF L!Admits(kept) THEN L!Hit(admitted, 0) ELSE admitted
    BY <1>1, <1>4
  <2>2. /\ own'[p] = L!Recorded(own[p], 0) /\ \A q \in Processes \ {p} : own'[q] = own[q]
    BY <2>1 DEF Limiting, LimitTypes
  <2>3. /\ own'[p] \in [L!Ages -> Nat] /\ L!Recent(own'[p], Ticks) <= Limit
        /\ \A m \in 0..Window :
             L!Recent(own'[p], m) =
               L!Recent(own[p], m) + (IF L!Admits(kept) /\ MaxSkew + 1 - 0 <= m THEN 1 ELSE 0)
    <3>1. 0 \in 0..MaxSkew
      BY LimitAssumption
    <3> QED
      BY <2>2, <3>1, LimitNow, RecordedCounts
  <2> HIDE DEF kept
  <2>4. /\ admitted' \in [L!Ages -> Nat]
        /\ \A m \in 0..Window :
             L!Recent(admitted', m) =
               L!Recent(admitted, m) + (IF L!Admits(kept) /\ MaxSkew + 1 - 0 <= m THEN 1 ELSE 0)
    <3>1. L!Admits(kept) \in BOOLEAN
      BY DEF L!Admits
    <3> QED
      BY <2>1, <3>1, AdmittedCounts
  <2>5. own' \in [Processes -> [L!Ages -> Nat]]
    <3>1. own' = [q \in Processes |-> own'[q]]
      BY <2>1 DEF Limiting, LimitTypes
    <3>2. \A q \in Processes : own'[q] \in [L!Ages -> Nat]
      BY <2>2, <2>3, LimitNow
    <3> QED
      BY <3>1, <3>2
  <2>6. LimitTypes'
    BY <1>1, <1>2, <2>4, <2>5 DEF Limiting, LimitTypes
  <2>7. \A q \in Processes : L!Recent(own'[q], Ticks) <= Limit
    BY <2>2, <2>3, LimitNow
  <2>8. ASSUME NEW m \in 0..Window PROVE WindowCounted(m)'
    <3>1. Own(m)' = Own(m) + (L!Recent(own'[p], m) - L!Recent(own[p], m))
      BY <2>2, <2>6, LimitNow, OwnUpdate
    <3>2. PICK x : x = (IF L!Admits(kept) /\ MaxSkew + 1 - 0 <= m THEN 1 ELSE 0)
      OBVIOUS
    <3>3. x \in {0, 1} /\ L!Recent(admitted', m) = L!Recent(admitted, m) + x
          /\ L!Recent(own'[p], m) = L!Recent(own[p], m) + x
      BY <2>3, <2>4, <3>2
    <3>4. /\ L!Recent(own[p], m) \in Nat /\ Own(m) \in Nat
          /\ L!Recent(shared, m) \in Nat /\ L!Recent(admitted, m) \in Nat
      BY LimitNow, RecentGrows
    <3>5. L!Recent(admitted, m) <= L!Recent(shared, m) + (Own(m) + Limit * restarts)
      BY <1>4, LimitNow DEF WindowCounted
    <3>6. Own(m)' = Own(m) + x
      BY <3>1, <3>3, <3>4
    <3>7. PICK b \in Nat : b = Limit * restarts
      BY LimitNow, RestartsWeigh
    <3>8. L!Recent(admitted', m) <= L!Recent(shared', m) + ((Own(m) + x) + b)
      BY <1>2, <3>3, <3>4, <3>5, <3>7
    <3> QED
      BY <1>1, <1>4, <3>6, <3>7, <3>8 DEF WindowCounted
  <2> QED
    BY <1>2, <2>6, <2>7, <2>8 DEF Limiting
<1> QED
  BY <1>3, <1>4

LEMMA RestartLimits ==
  ASSUME NEW p \in Processes, Limiting, L!Restart(p) PROVE Limiting'
<1>1. /\ restarts' = restarts + 1 /\ own' = [own EXCEPT ![p] = L!None]
      /\ UNCHANGED <<skew, strict, shared, admitted>>
  BY DEF L!Restart
<1>2. LimitTypes'
  BY <1>1, NoneCounts DEF Limiting, LimitTypes
<1>3. own'[p] = L!None /\ \A q \in Processes \ {p} : own'[q] = own[q]
  BY <1>1 DEF Limiting, LimitTypes
<1>4. Ticks \in 0..Ticks
  BY TicksAre
<1>5. \A q \in Processes : L!Recent(own'[q], Ticks) <= Limit
  BY <1>3, <1>4, LimitNow, NoneCounts, LimitAssumption
<1>6. ASSUME NEW m \in 0..Window PROVE WindowCounted(m)'
  <2>1. CASE strict
    BY <1>1, <2>1, LimitNow DEF WindowCounted
  <2>2. CASE ~strict
    <3>1. Own(m)' = Own(m) + (L!Recent(own'[p], m) - L!Recent(own[p], m))
      BY <1>2, <1>3, LimitNow, OwnUpdate
    <3>2. L!Recent(own'[p], m) = 0
      BY <1>3, LimitNow, NoneCounts
    <3>3. /\ L!Recent(own[p], m) <= L!Recent(own[p], Ticks)
          /\ L!Recent(own[p], m) \in Nat /\ L!Recent(own[p], Ticks) \in Nat
          /\ L!Recent(own[p], Ticks) <= Limit
      BY <1>4, LimitNow, RecentGrows
    <3>4. /\ Own(m) \in Nat /\ L!Recent(shared, m) \in Nat /\ L!Recent(admitted, m) \in Nat
      BY LimitNow
    <3>5. L!Recent(admitted, m) <= L!Recent(shared, m) + (Own(m) + Limit * restarts)
      BY <2>2, LimitNow DEF WindowCounted
    <3>6. PICK b \in Nat : b = Limit * restarts /\ Limit * restarts' = b + Limit
      BY <1>1, LimitNow, RestartsWeigh
    <3>7. Own(m) <= Own(m)' + Limit /\ Own(m)' \in Int
      BY <3>1, <3>2, <3>3, <3>4, LimitAssumption
    <3>8. L!Recent(admitted, m) <= L!Recent(shared, m) + (Own(m)' + (b + Limit))
      BY <3>4, <3>5, <3>6, <3>7, LimitAssumption
    <3> QED
      BY <1>1, <2>2, <3>6, <3>8 DEF WindowCounted
  <2> QED
    BY <2>1, <2>2
<1> QED
  BY <1>1, <1>2, <1>5, <1>6, LimitNow DEF Limiting

LEMMA TickLimits == ASSUME Limiting, L!Tick PROVE Limiting'
<1>1. /\ shared' = L!Older(shared) /\ own' = [p \in Processes |-> L!Older(own[p])]
      /\ admitted' = L!Older(admitted) /\ UNCHANGED <<skew, strict, up, restarts>>
  BY DEF L!Tick
<1>2. ASSUME NEW c \in [L!Ages -> Nat], L!Recent(c, Ticks) <= Limit
      PROVE  L!Older(c) \in [L!Ages -> Nat] /\ L!Recent(L!Older(c), Ticks) <= Limit
  <2>1. Ticks \in 1..Ticks /\ Ticks \in 0..Ticks /\ Ticks - 1 \in 0..Ticks
    BY TicksAre
  <2>2. L!Recent(L!Older(c), Ticks) = L!Recent(c, Ticks - 1) /\ L!Older(c) \in [L!Ages -> Nat]
    BY <2>1, RecentOlder
  <2>3. /\ L!Recent(c, Ticks - 1) <= L!Recent(c, Ticks)
        /\ L!Recent(c, Ticks - 1) \in Nat /\ L!Recent(c, Ticks) \in Nat
    BY <2>1, RecentGrows
  <2> QED
    BY <1>2, <2>2, <2>3, LimitAssumption
<1>3. ASSUME NEW c \in [L!Ages -> Nat] PROVE L!Older(c) \in [L!Ages -> Nat]
  <2>1. Ticks \in 1..Ticks
    BY TicksAre
  <2> QED
    BY <2>1, RecentOlder
<1>4. LimitTypes'
  BY <1>1, <1>3 DEF Limiting, LimitTypes
<1>5. L!Recent(shared', Ticks) <= Limit /\ \A p \in Processes : L!Recent(own'[p], Ticks) <= Limit
  BY <1>1, <1>2, LimitNow
<1>6. ASSUME NEW m \in 0..Window PROVE WindowCounted(m)'
  <2>1. CASE m = 0
    <3>1. L!Recent(admitted', 0) = 0 /\ L!Recent(shared', 0) = 0
      BY <1>4, <2>1, LimitNow, RecentGrows DEF LimitTypes
    <3>2. Own(m)' \in Nat
      BY <1>4, LimitNow, RosterSum DEF Own, LimitTypes
    <3>3. restarts' \in Nat /\ Limit * restarts' \in Nat
      BY <1>1, LimitNow, RestartsWeigh
    <3> QED
      BY <2>1, <3>1, <3>2, <3>3 DEF WindowCounted
  <2>2. CASE m # 0
    <3>1. m \in 1..Ticks /\ m - 1 \in 0..Window
      BY <2>2, TicksAre
    <3>2. L!Recent(admitted', m) = L!Recent(admitted, m - 1)
          /\ L!Recent(shared', m) = L!Recent(shared, m - 1)
      BY <1>1, <3>1, LimitNow, RecentOlder
    <3>3. \A i \in 1..Count : L!Recent(own'[Roster[i]], m) = L!Recent(own[Roster[i]], m - 1)
      BY <1>1, <3>1, LimitNow, RosterIs, RecentOlder
    <3>4. Own(m)' = Own(m - 1)
      BY <3>3 DEF Own
    <3>5. WindowCounted(m - 1)
      BY <3>1, LimitNow
    <3> QED
      BY <1>1, <3>2, <3>4, <3>5 DEF WindowCounted
  <2> QED
    BY <2>1, <2>2
<1> QED
  BY <1>4, <1>5, <1>6 DEF Limiting

LEMMA LimitStep == Limiting /\ [L!Next]_(L!vars) => Limiting'
<1> SUFFICES ASSUME Limiting, [L!Next]_(L!vars) PROVE Limiting'
  OBVIOUS
<1>1. CASE L!Outage \/ UNCHANGED L!vars
  <2>1. UNCHANGED <<skew, strict, shared, own, restarts, admitted>>
    BY <1>1 DEF L!Outage, L!vars
  <2> QED
    BY <2>1 DEF Limiting, LimitTypes, WindowCounted, Own
<1> QED
  BY <1>1, HitRedisLimits, HitFailsLimits, RestartLimits, TickLimits DEF L!Next

-----------------------------------------------------------------------------
(* Types: what the invariants above leave open of the types of the parts.  *)

(* Redis and the processes count no more than the limit for any tick.      *)
LEMMA TicksLimited ==
  ASSUME NEW c \in [L!Ages -> Nat], L!Recent(c, Ticks) <= Limit
  PROVE  c \in [L!Ages -> 0..Limit]
<1> SUFFICES ASSUME NEW t \in L!Ages PROVE c[t] \in 0..Limit
  OBVIOUS
<1>1. PICK s \in [0..Ticks -> Nat] :
        /\ s[0] = 0
        /\ \A k \in 1..Ticks : s[k] = s[k-1] + c[MaxSkew + 1 - k]
        /\ \A k \in 0..Ticks : L!Recent(c, k) = s[k]
  BY RecentSums
<1>2. PICK k \in 1..Ticks : t = MaxSkew + 1 - k
  <2>1. t \in (1 - Window)..MaxSkew /\ Window \in Nat /\ MaxSkew \in Nat
    BY TicksAre, LimitAssumption
  <2>2. MaxSkew + 1 - t \in 1..Ticks /\ t = MaxSkew + 1 - (MaxSkew + 1 - t)
    BY <2>1 DEF Ticks
  <2> QED
    BY <2>2
<1>3. k \in 0..Ticks /\ k - 1 \in 0..Ticks
  BY TicksAre
<1>4. s[k] = s[k - 1] + c[t] /\ s[k - 1] \in Nat /\ c[t] \in Nat /\ s[k] = L!Recent(c, k)
  BY <1>1, <1>2, <1>3
<1>5. L!Recent(c, k) <= L!Recent(c, Ticks) /\ L!Recent(c, Ticks) \in Nat
  BY <1>3, RecentGrows, TicksAre
<1> QED
  BY <1>4, <1>5, LimitAssumption

Restarted == up \in BOOLEAN /\ restarts \in 0..MaxRestarts

LEMMA RestartedInit == L!Init => Restarted
BY LimitAssumption DEF L!Init, Restarted

LEMMA RestartedStep == Restarted /\ [L!Next]_(L!vars) => Restarted'
<1> SUFFICES ASSUME Restarted, [L!Next]_(L!vars) PROVE Restarted'
  OBVIOUS
<1>1. /\ up' = up \/ up' = ~up
      /\ restarts' = restarts \/ (restarts < MaxRestarts /\ restarts' = restarts + 1)
  BY DEF L!Next, L!vars, L!HitRedis, L!HitFails, L!Tick, L!Outage, L!Restart
<1>2. restarts' \in 0..MaxRestarts
  BY <1>1, LimitAssumption DEF Restarted
<1>3. up' \in BOOLEAN
  BY <1>1, Zenon DEF Restarted
<1> QED
  BY <1>2, <1>3 DEF Restarted

LEMMA LimitTyped == Limiting /\ Restarted => L!TypeOK
<1> SUFFICES ASSUME Limiting, Restarted PROVE L!TypeOK
  OBVIOUS
<1>1. shared \in [L!Ages -> 0..Limit]
  BY TicksLimited DEF Limiting, LimitTypes
<1>2. \A p \in Processes : own[p] \in [L!Ages -> 0..Limit]
  BY TicksLimited DEF Limiting, LimitTypes
<1>3. own \in [Processes -> [L!Ages -> 0..Limit]]
  BY <1>2 DEF Limiting, LimitTypes
<1> QED
  BY <1>1, <1>3 DEF Limiting, LimitTypes, Restarted, L!TypeOK

(* Nobody is counted twice, as delivered or as failed: the counts stay     *)
(* within those whose turn is over.                                        *)
Pending == IF stage = "write" \/ (stage \in {"dispatch", "push"} /\ send.dm) THEN chunk ELSE {}

Over == Registered \ (Ahead \cup Pending)

Outcomes(s) == s.delivered + s.failed

Tallied ==
  /\ stage \in {"count", "list"} => Outcomes(sum) = 0
  /\ Outcomes(sum) <= Cardinality(Over)
  /\ Outcomes(broadcast.sum) <= Cardinality(Registered)
  /\ broadcast.total <= Cardinality(Registered)

LEMMA OverCounts ==
  /\ IsFiniteSet(Over) /\ Cardinality(Over) \in Nat
  /\ Cardinality(Registered) \in Nat /\ Cardinality(Over) <= Cardinality(Registered)
BY SendingAssumption, FS_Subset, FS_CardinalityType DEF Over

LEMMA TalliedInit == N!Init => Tallied
BY OverCounts DEF N!Init, N!Zero, Tallied, Outcomes

(* Whose turn is over stays over, and the row is as far as memory.         *)
LEMMA NothingTallied ==
  ASSUME Delivery, Tallied, sum' = sum, Over \subseteq Over',
         broadcast'.sum \in {broadcast.sum, sum},
         broadcast'.total = broadcast.total,
         stage' \notin {"count", "list"} \/ stage' = stage
  PROVE  Tallied'
<1>1. sum \in Sums /\ broadcast.sum \in Sums
  BY DEF Delivery, BroadcastTypes
<1>2. Outcomes(sum) \in Nat /\ Outcomes(broadcast.sum) \in Nat
  BY <1>1 DEF Sums, Outcomes
<1>3. Over' \in SUBSET Registered
  BY DEF Over
<1>4. /\ IsFiniteSet(Over') /\ Cardinality(Over) <= Cardinality(Over')
      /\ Cardinality(Over') \in Nat
  BY <1>3, SendingAssumption, FS_Subset, FS_CardinalityType
<1>5. Outcomes(sum') <= Cardinality(Over')
  BY <1>2, <1>4, OverCounts DEF Tallied
<1>6. Outcomes(broadcast'.sum) <= Cardinality(Registered)
  BY <1>2, OverCounts DEF Tallied
<1> QED
  BY <1>5, <1>6 DEF Tallied

(* The turn of a chunk is over with what is counted of it.                 *)
LEMMA ChunkTallied ==
  ASSUME Delivery, Tallied, Pending = chunk, Pending' = {}, ids' = ids,
         Outcomes(sum') = Outcomes(sum) + Cardinality(chunk),
         broadcast' = broadcast, stage' \notin {"count", "list"}
  PROVE  Tallied'
<1>1. /\ chunk \in SUBSET Registered /\ chunk \cap Ahead = {}
      /\ Outcomes(sum) \in Nat
  BY DEF Delivery, BroadcastTypes, EachUserOnce, Sums, Outcomes
<1>2. Over' = Over \cup chunk /\ Over \cap chunk = {}
  <2>1. Ahead' = Ahead
    BY DEF Ahead
  <2> QED
    BY <1>1, <2>1 DEF Over
<1>3. IsFiniteSet(chunk) /\ Cardinality(chunk) \in Nat
  BY <1>1, InOrderLists
<1>4. Cardinality(Over \cup chunk) = Cardinality(Over) + Cardinality(chunk)
  <2>1. Cardinality(Over \cap chunk) = 0
    BY <1>2, FS_EmptySet
  <2>2. Cardinality(Over \cup chunk)
          = Cardinality(Over) + Cardinality(chunk) - Cardinality(Over \cap chunk)
    BY <1>3, OverCounts, FS_Union
  <2> QED
    BY <1>3, <2>1, <2>2, OverCounts
<1>5. Outcomes(sum') <= Cardinality(Over')
  BY <1>1, <1>2, <1>3, <1>4, OverCounts DEF Tallied
<1> QED
  BY <1>5 DEF Tallied

LEMMA TalliedStep == Delivery /\ Tallied /\ [N!Next]_(N!vars) => Tallied'
<1> SUFFICES ASSUME Delivery, Tallied, [N!Next]_(N!vars) PROVE Tallied'
  OBVIOUS
<1> USE DEF Delivery
<1>0. /\ broadcast \in [status : {"none", "sending", "sent"}, total : Nat, sum : Sums]
      /\ sum \in Sums /\ IsFiniteSet(chunk) /\ Cardinality(chunk) \in Nat
  BY InOrderLists DEF BroadcastTypes
<1>1. CASE N!Count
  <2>1. /\ stage' = "list" /\ UNCHANGED <<send, ids, chunk, sum>> /\ stage = "count"
        /\ broadcast' = [broadcast EXCEPT !.total = Cardinality(audience)]
    BY <1>1, BroadcastCounts DEF N!Count
  <2>2. broadcast'.sum = broadcast.sum /\ broadcast'.total = Cardinality(audience)
    BY <1>0, <2>1
  <2>3. Cardinality(audience) <= Cardinality(Registered)
    BY SendingAssumption, FS_Subset DEF BroadcastTypes
  <2>4. Over' = Over
    BY <2>1 DEF Over, Ahead, Pending
  <2> QED
    BY <2>1, <2>2, <2>3, <2>4 DEF Tallied
<1>2. CASE N!List
  <2>1. /\ stage = "list" /\ stage' = "next" /\ sum' = sum
        /\ broadcast' = [broadcast EXCEPT !.status = "sending"]
    BY <1>2 DEF N!List
  <2>2. broadcast'.sum = broadcast.sum /\ broadcast'.total = broadcast.total
    BY <1>0, <2>1
  <2>3. Cardinality(Over') \in Nat
    <3>1. Over' \in SUBSET Registered
      BY DEF Over
    <3> QED
      BY <3>1, SendingAssumption, FS_Subset, FS_CardinalityType
  <2>4. Outcomes(sum') <= Cardinality(Over')
    BY <2>1, <2>3 DEF Tallied
  <2> QED
    BY <2>1, <2>2, <2>4 DEF Tallied
<1>3. CASE N!ReadChunk
  <2> DEFINE k == N!Shorter(ChunkSize)
  <2>1. /\ stage = "next" /\ stage' = "write" /\ ids' = N!Rest
        /\ chunk' = {ids[i] : i \in 1..k} \cap audience
        /\ UNCHANGED <<broadcast, sum>>
    BY <1>3 DEF N!ReadChunk
  <2>2. ids \in Seq(Registered) /\ Len(ids) \in Nat
    BY DEF BroadcastTypes
  <2>3. k \in Nat /\ k <= Len(ids)
    BY <2>2, SendingAssumption DEF N!Shorter
  <2> HIDE DEF k
  <2>4. \A u \in Ahead' \cup Pending' : u \in Ahead
    <3>1. \A u \in Ahead' : u \in Ahead
      BY <2>1, <2>2, RestIsBehind DEF Ahead
    <3>2. \A u \in chunk' : u \in Ahead
      BY <2>1, <2>2, <2>3 DEF Ahead
    <3> QED
      BY <3>1, <3>2 DEF Pending
  <2>5. Over \subseteq Over'
    BY <2>4 DEF Over
  <2> QED
    BY <2>1, <2>5, NothingTallied
<1>4. CASE N!WriteChunk
  <2>1. stage = "write" /\ UNCHANGED <<send, ids, chunk, broadcast>>
    BY <1>4 DEF N!WriteChunk
  <2>2. CASE stage' = "dead" /\ sum' = sum
    <3>1. Over \subseteq Over'
      BY <2>1, <2>2 DEF Over, Ahead, Pending
    <3> QED
      BY <2>1, <2>2, <3>1, NothingTallied
  <2>3. CASE stage' = "dispatch" /\ send.dm /\ sum' = sum
    <3>1. Over' = Over
      BY <2>1, <2>3 DEF Over, Ahead, Pending
    <3> QED
      BY <2>1, <2>3, <3>1, NothingTallied
  <2>4. CASE /\ stage' = "dispatch" /\ ~send.dm
             /\ sum' = [sum EXCEPT !.delivered = @ + Cardinality(chunk)]
    <3>1. Outcomes(sum') = Outcomes(sum) + Cardinality(chunk)
      BY <1>0, <2>4 DEF Sums, Outcomes
    <3> QED
      BY <2>1, <2>4, <3>1, ChunkTallied DEF Pending
  <2> QED
    BY <1>4, <2>2, <2>3, <2>4, BroadcastCounts DEF N!WriteChunk, N!InApp
<1>5. CASE N!Push
  <2>1. stage = "push" /\ stage' = "save" /\ UNCHANGED <<send, ids, chunk, broadcast>>
    BY <1>5 DEF N!Push
  <2>2. CASE sum' = sum
    <3>1. Over \subseteq Over'
      BY <2>1 DEF Over, Ahead, Pending
    <3> QED
      BY <2>1, <2>2, <3>1, NothingTallied
  <2>3. ASSUME NEW ok \in SUBSET chunk, send.dm,
               sum' = [delivered |-> sum.delivered + Cardinality(ok),
                       failed |-> sum.failed + Cardinality(chunk \ ok)]
        PROVE  Tallied'
    <3>1. /\ IsFiniteSet(ok) /\ Cardinality(ok) \in Nat /\ Cardinality(chunk \ ok) \in Nat
          /\ Cardinality(chunk \ ok) = Cardinality(chunk) - Cardinality(chunk \cap ok)
      BY <1>0, FS_Subset, FS_Difference, FS_CardinalityType
    <3>2. Cardinality(chunk \cap ok) = Cardinality(ok)
      <4>1. chunk \cap ok = ok
        OBVIOUS
      <4> QED
        BY <4>1
    <3>3. Outcomes(sum') = Outcomes(sum) + Cardinality(chunk)
      <4>1. sum.delivered \in Nat /\ sum.failed \in Nat
        BY <1>0 DEF Sums
      <4>2. /\ sum'.delivered = sum.delivered + Cardinality(ok)
            /\ sum'.failed = sum.failed + Cardinality(chunk \ ok)
        BY <2>3
      <4>3. Cardinality(ok) + Cardinality(chunk \ ok) = Cardinality(chunk)
        <5>1. PICK a, b, c : a = Cardinality(ok) /\ b = Cardinality(chunk \ ok) /\ c = Cardinality(chunk)
          OBVIOUS
        <5> QED
          BY <1>0, <3>1, <3>2, <5>1
      <4> QED
        BY <1>0, <3>1, <4>1, <4>2, <4>3 DEF Outcomes
    <3> QED
      BY <2>1, <2>3, <3>3, ChunkTallied DEF Pending
  <2> QED
    BY <1>5, <2>2, <2>3, BroadcastCounts DEF N!Push
<1>6. CASE N!Dispatch
  <2>1. /\ stage = "dispatch" /\ stage' = "push"
        /\ UNCHANGED <<send, ids, chunk, broadcast, sum>>
    BY <1>6 DEF N!Dispatch
  <2>2. Over' = Over
    BY <2>1 DEF Over, Ahead, Pending
  <2> QED
    BY <2>1, <2>2, NothingTallied
<1>7. CASE \/ N!SaveCounts \/ N!Finish \/ N!Crash
           \/ \E u \in Registered : N!Echo(u) \/ N!Join(u) \/ N!Leave(u)
  <2>1. /\ UNCHANGED <<send, ids, chunk, sum>>
        /\ stage' = stage \/ stage' \in {"next", "done", "dead"}
    BY <1>7 DEF N!SaveCounts, N!Finish, N!Crash, N!Echo, N!Join, N!Leave
  <2>2. broadcast'.sum \in {broadcast.sum, sum} /\ broadcast'.total = broadcast.total
    <3>1. \/ broadcast' = broadcast
          \/ broadcast' = [broadcast EXCEPT !.sum = sum]
          \/ broadcast' = [broadcast EXCEPT !.status = "sent", !.sum = sum]
      BY <1>7 DEF N!SaveCounts, N!Finish, N!Crash, N!Echo, N!Join, N!Leave
    <3> QED
      BY <1>0, <3>1
  <2>3. Over \subseteq Over'
    BY <2>1 DEF Over, Ahead, Pending
  <2> QED
    BY <2>1, <2>2, <2>3, NothingTallied
<1>8. CASE UNCHANGED N!vars
  <2>1. Over' = Over
    BY <1>8 DEF N!vars, Over, Ahead, Pending
  <2> QED
    BY <1>8, <2>1 DEF N!vars, Tallied
<1> QED
  BY <1>1, <1>2, <1>3, <1>4, <1>5, <1>6, <1>7, <1>8 DEF N!Next

LEMMA SendingTyped == Delivery /\ Tallied => N!TypeOK
<1> SUFFICES ASSUME Delivery, Tallied PROVE N!TypeOK
  OBVIOUS
<1>1. /\ broadcast \in [status : {"none", "sending", "sent"}, total : Nat, sum : Sums]
      /\ sum \in Sums /\ BroadcastTypes
  BY DEF Delivery, BroadcastTypes
<1>2. N!Numbers = 0..(2 * Cardinality(Registered)) /\ Cardinality(Registered) \in Nat
  BY BroadcastCounts, OverCounts DEF N!Numbers
<1>3. ASSUME NEW x \in Sums, Outcomes(x) <= Cardinality(Registered)
      PROVE  x \in [delivered : N!Numbers, failed : N!Numbers]
  BY <1>2, <1>3 DEF Sums, Outcomes
<1>4. sum \in [delivered : N!Numbers, failed : N!Numbers]
  <2>1. Outcomes(sum) \in Nat
    BY <1>1 DEF Sums, Outcomes
  <2>2. Outcomes(sum) <= Cardinality(Registered)
    BY <2>1, OverCounts DEF Tallied
  <2> QED
    BY <1>1, <1>3, <2>2
<1>5. broadcast.sum \in [delivered : N!Numbers, failed : N!Numbers]
  BY <1>1, <1>3 DEF Tallied
<1>6. broadcast.total \in N!Numbers
  BY <1>1, <1>2 DEF Tallied
<1>7. broadcast \in [status : {"none", "sending", "sent"}, total : N!Numbers,
                     sum : [delivered : N!Numbers, failed : N!Numbers]]
  BY <1>1, <1>5, <1>6
<1>8. /\ notes \in [Registered -> Nat] /\ dms \in [Registered -> Nat]
      /\ echoes \in [Registered -> Nat]
  <2>1. \A f \in [Registered -> {0, 1}] : f \in [Registered -> Nat]
    OBVIOUS
  <2>2. /\ notes \in [Registered -> {0, 1}] /\ dms \in [Registered -> {0, 1}]
        /\ echoes \in [Registered -> {0, 1}]
    BY <1>1 DEF BroadcastTypes
  <2> QED
    BY <2>1, <2>2
<1> QED
  BY <1>1, <1>4, <1>7, <1>8 DEF BroadcastTypes, N!TypeOK

(* A table has rows the seeders have for it, and no others.                *)
Seedlings ==
  /\ curated \in BOOLEAN
  /\ \A t \in BootTables : rows[t] \subseteq B!First[t] \cup B!Always[t]

LEMMA SeedlingsInit == B!Init => Seedlings
<1> SUFFICES ASSUME B!Init PROVE Seedlings
  OBVIOUS
<1>1. CASE rows = B!Empty
  BY <1>1 DEF B!Init, Seedlings, B!Empty, BootTables
<1>2. CASE rows # B!Empty
  <2>1. PICK S : /\ S \subseteq B!First.currencies \cup {"fiat"}
                 /\ rows = [B!First EXCEPT !["currencies"] = S]
    BY <1>2 DEF B!Init
  <2>2. B!First \in [BootTables -> SUBSET RowGroups]
    BY SeedsOfTables
  <2>3. rows["currencies"] = S /\ \A t \in BootTables \ {"currencies"} : rows[t] = B!First[t]
    BY <2>1, <2>2 DEF BootTables
  <2>4. B!Always["currencies"] = {"fiat"}
    BY DEF B!Always
  <2>5. curated \in BOOLEAN
    BY DEF B!Init
  <2> QED
    BY <2>1, <2>3, <2>4, <2>5 DEF Seedlings
<1> QED
  BY <1>1, <1>2

(* A step that changes one table and adds what belongs there.              *)
LEMMA TableSeeded ==
  ASSUME BootedSafely, Seedlings, NEW t \in BootTables, NEW S,
         S \subseteq B!First[t] \cup B!Always[t],
         rows' = [rows EXCEPT ![t] = S], curated' \in BOOLEAN
  PROVE  Seedlings'
BY DEF BootedSafely, BootTypes, Seedlings

LEMMA SeedlingsStep == BootedSafely /\ Seedlings /\ [B!Next]_(B!vars) => Seedlings'
<1> SUFFICES ASSUME BootedSafely, Seedlings, [B!Next]_(B!vars) PROVE Seedlings'
  OBVIOUS
<1>0. /\ rows \in [BootTables -> SUBSET RowGroups]
      /\ B!First.categories = {"all"} /\ B!Always.currencies = {"fiat"}
      /\ B!First.currencies = {"crypto"} /\ B!Always.categories = {}
  BY DEF BootedSafely, BootTypes, B!First, B!Always
<1>1. CASE rows' = rows /\ curated' = curated
  BY <1>1 DEF Seedlings
<1>2. ASSUME NEW p \in Booting, B!EndUpgrade(p), rows' # rows
      PROVE  Seedlings'
  <2>1. /\ rows' = [rows EXCEPT !["currencies"] = rows.currencies \cup {"fiat"}]
        /\ curated' = curated
    BY <1>2 DEF B!EndUpgrade, B!database
  <2> QED
    BY <1>0, <2>1, TableSeeded DEF Seedlings, BootTables
<1>3. ASSUME NEW p \in Booting, B!Insert(p), rows' # rows
      PROVE  Seedlings'
  <2> DEFINE t == B!Table(p)
             new == B!Always[t] \cup (IF proc[p].empty THEN B!First[t] ELSE {})
  <2>1. rows' = [rows EXCEPT ![t] = rows[t] \cup new] /\ curated' = curated
    BY <1>3 DEF B!Insert, B!Conflicts
  <2>2. t \in BootTables
    BY BootNow, SeedsOfTables DEF B!Table, BootTables
  <2> QED
    BY <2>1, <2>2, TableSeeded DEF Seedlings
<1>4. ASSUME NEW t \in {"categories", "currencies"}, NEW c \in B!First[t] \cup B!Always[t],
             B!Curate(t, rows[t] \cup {c}) \/ B!Curate(t, rows[t] \ {c})
      PROVE  Seedlings'
  <2>1. PICK S : /\ S \subseteq rows[t] \cup {c}
                 /\ rows' = [rows EXCEPT ![t] = S] /\ curated' = TRUE
    BY <1>4 DEF B!Curate
  <2>2. t \in BootTables
    BY DEF BootTables
  <2> QED
    BY <2>1, <2>2, TableSeeded DEF Seedlings
<1>5. CASE B!Next
  <2>1. CASE rows' = rows /\ curated' = curated
    BY <1>1, <2>1
  <2>2. CASE \E p \in Booting : B!EndUpgrade(p) \/ B!Insert(p)
    <3>1. curated' = curated
      BY <2>2 DEF B!EndUpgrade, B!Insert
    <3> QED
      BY <1>1, <1>2, <1>3, <2>2, <3>1
  <2>3. CASE \/ \E c \in B!First.categories : B!UpsertCategory(c) \/ B!DeleteCategory(c)
             \/ \E c \in B!First.currencies \cup B!Always.currencies :
                  B!UpsertCurrency(c) \/ B!DeleteCurrency(c)
    BY <1>4, <2>3 DEF B!UpsertCategory, B!DeleteCategory, B!UpsertCurrency, B!DeleteCurrency
  <2> QED
    BY <1>5, <2>1, <2>2, <2>3
       DEF B!Next, B!Start, B!BeginUpgrade, B!BuildIndexes, B!Deadlock, B!Verify,
           B!Select, B!Dies, B!database
<1>6. CASE UNCHANGED B!vars
  BY <1>1, <1>6 DEF B!vars, B!database
<1> QED
  BY <1>5, <1>6

LEMMA BootTyped == BootedSafely /\ Seedlings => B!TypeOK
<1> SUFFICES ASSUME BootedSafely, Seedlings PROVE B!TypeOK
  OBVIOUS
<1>1. BootTypes /\ DOMAIN rows = BootTables
  BY DEF BootedSafely, BootTypes
<1>2. proc \in [Booting -> [stage : {"off", "migrate", "upgrade", "index", "verify", "select",
                                    "insert", "serving", "done", "refused", "crashed"},
                           role : B!Roles, build : B!Builds,
                           saw : 0..3, table : 1..3, empty : BOOLEAN]]
  BY <1>1, Zenon DEF BootTypes, Boots, BootStages
<1> QED
  BY <1>1, <1>2 DEF BootTypes, Seedlings, B!TypeOK

(* The types of the other parts are in what their invariants say.          *)
LEMMA AccountTyped == Authority => A!TypeOK
BY DEF Authority, AccountTypes, A!TypeOK, UserRows, CodeRows, Transfers

LEMMA CatalogueTyped == Quota => C!TypeOK
BY DEF Quota, CatalogueTypes, Changes, C!TypeOK

LEMMA ReviewsTyped == Rating => V!TypeOK
BY DEF Rating, ReviewTypes, Countings, V!TypeOK

LEMMA PagingTyped == Paging => I!TypeOK
BY PagingNow DEF Paging, PagingTypes, I!TypeOK

-----------------------------------------------------------------------------
(* The platform.                                                           *)

(* Whatever part is at work, the platform takes the steps of each part or  *)
(* leaves its variables alone.                                             *)
LEMMA PartsAtWork ==
  PlatformSpec => /\ Spec /\ A!Spec /\ L!Spec /\ M!Spec /\ C!Spec
                  /\ V!Spec /\ D!Spec /\ N!Spec /\ B!Spec /\ I!Spec
<1>1. PlatformInit => /\ Init /\ A!Init /\ L!Init /\ M!Init /\ C!Init
                      /\ V!Init /\ D!Init /\ N!Init /\ B!Init /\ I!Init
  BY DEF PlatformInit
<1>2. [PlatformNext]_PlatformVars =>
        /\ [Next]_vars /\ [A!Next]_(A!vars) /\ [L!Next]_(L!vars)
        /\ [M!Next]_(M!vars) /\ [C!Next]_(C!vars) /\ [V!Next]_(V!vars)
        /\ [D!Next]_(D!vars) /\ [N!Next]_(N!vars) /\ [B!Next]_(B!vars)
        /\ [I!Next]_(I!vars)
  BY DEF PlatformNext, PlatformVars, Rest, pin, account, limit, maintenance,
         catalogue, reviews, desk, sending, boot, paging,
         A!vars, L!vars, M!vars, C!vars, V!vars, D!vars, N!vars, B!vars, B!database, I!vars
<1> QED BY <1>1, <1>2, PTL
        DEF PlatformSpec, Spec, A!Spec, L!Spec, M!Spec, C!Spec, V!Spec, D!Spec,
            N!Spec, B!Spec, I!Spec

(* A forced move of an amount that is large, or of unknown worth, spent a  *)
(* request for exactly that move which two admins agreed on, whatever      *)
(* happens to the rate, to roles and to accounts meanwhile                 *)
(* (_ensure_approval_or_create).                                           *)
THEOREM LargeMovesAreSeconded == PlatformSpec => []LargeMovesSeconded
<1>1. Seconding => LargeMovesSeconded
  BY DEF Seconding
<1> QED
  BY <1>1, DeskInit, DeskStep, PartsAtWork, PTL DEF D!Spec

(* Requests that count the services of an owner and then activate one do   *)
(* not exceed the limit between them, however many there are and however   *)
(* old the copies they decide on (create_service, update_service).         *)
THEOREM QuotaIsKept == PlatformSpec => []QuotaKept
<1>1. Quota => QuotaKept
  BY DEF Quota
<1> QED
  BY <1>1, QuotaInit, QuotaStep, PartsAtWork, PTL DEF C!Spec

(* The counters of a user are those of the committed reviews after any     *)
(* interleaving of writing, editing, deleting and counting, unless an      *)
(* admin set them since (recompute_user_rating).                           *)
THEOREM RatingsFollowReviews == PlatformSpec => []RatingFollowsReviews
BY RatingInit, RatingStep, RatingImplies, PartsAtWork, PTL DEF V!Spec

(* There is an admin, and one who may act, however transfers, roles, bans  *)
(* and freezes cross, unless a request outlived the authority it began     *)
(* with or an admin's account was given up for another one                 *)
(* (_ensure_not_last_admin).                                               *)
THEOREM SomeoneCanAlwaysAct == PlatformSpec => []SomeoneCanAct
<1>1. Authority => SomeoneCanAct
  BY DEF Authority
<1> QED
  BY <1>1, AuthorityInit, AuthorityStep, PartsAtWork, PTL DEF A!Spec

(* No step discards an account with a row of another table that would be   *)
(* lost with it, be it a deal, a deposit or a balance, also one that       *)
(* appears while the transfer is under way (transfer_confirm); and a trust *)
(* deposit, a column of the account, is lost with it only if it was set    *)
(* after the request had loaded the row.                                   *)
THEOREM NothingIsEverDiscarded == PlatformSpec => NothingDiscarded
<1>1. Authority /\ [A!Next]_(A!vars) =>
        [/\ \A u \in A!Present : users'[u] = A!Absent => ~users[u].data
         /\ \A u \in lost' \ lost : users[u].trust => A!Overlooked(u)]_(A!vars)
  BY NothingIsDiscarded, TrustIsOverlooked
<1>2. Authority /\ [A!Next]_(A!vars) => Authority'
  BY AuthorityStep
<1> QED
  BY <1>1, <1>2, AuthorityInit, PartsAtWork, PTL
     DEF A!Spec, NothingDiscarded, A!NothingDiscarded

(* However calls are spread over processes, clocks, outages, lost answers  *)
(* and restarts, a window lets through the limit once for Redis and, where *)
(* processes may count for themselves, once for each of them, as long as   *)
(* Redis keeps its keys (_hit_redis, _hit_inmemory).                       *)
THEOREM CallsAreLimited == PlatformSpec => []AdmittedBounded
BY LimitInit, LimitStep, LimitImplies, PartsAtWork, PTL DEF L!Spec

(* A write is let through at most one life of the cache and one read of    *)
(* the row after the flag was set, for any length of either                *)
(* (_get_maintenance).                                                     *)
THEOREM WritesAlwaysStopSoon == PlatformSpec => []WritesStopSoon
<1>1. Stopping => WritesStopSoon
  BY DEF Stopping
<1> QED
  BY <1>1, StoppingInit, StoppingStep, PartsAtWork, PTL DEF M!Spec

(* The row of a broadcast never claims more than was delivered, and nobody *)
(* is notified twice, is sent to twice by the broadcast itself, or gets    *)
(* more than the one echo of their notification (create_broadcast).        *)
THEOREM CountsAreBacked == PlatformSpec => []CountsBacked
BY DeliveryInit, DeliveryStep, DeliveryImplies, PartsAtWork, PTL DEF N!Spec

(* However many processes of whatever builds migrate and seed at the same  *)
(* time, and wherever others die, none crashes before an upgrade begins on *)
(* one that is half committed, between the transactions that end with the  *)
(* concurrent indexes; and whoever serves found the settings, then too     *)
(* (lifespan, alembic/env.py).                                             *)
THEOREM BootsSurviveTogether == PlatformSpec => []BootsSurvive
<1>1. B!Init => BootedSafely
  BY BootInit
<1>2. BootedSafely /\ [B!Next]_(B!vars) => BootedSafely'
  BY BootStep, BootAssumption
<1>3. BootedSafely => BootsSurvive
  BY DEF BootedSafely, SettingsSeeded, PastSettings, BootsSurvive, B!BootsSurvive
<1> QED
  BY <1>1, <1>2, <1>3, PartsAtWork, PTL DEF B!Spec

(* A client that pages through a list sees every row that was committed    *)
(* when it began on one page, and no row on two, whatever is added         *)
(* meanwhile and for any size of a page (list_notifications).              *)
THEOREM PagesAreComplete == PlatformSpec => []PagesComplete
BY PagingInit, PagingStep, PagingImplies, PartsAtWork, PTL DEF I!Spec

(* Whatever part is at work, its columns, caches and counters stay within  *)
(* their types and limits.                                                 *)
THEOREM TypesAreCorrect == PlatformSpec => []TypesOK
<1>1. /\ Types /\ Authority /\ Limiting /\ Restarted /\ Stopping /\ Quota
      /\ Rating /\ Seconding /\ Delivery /\ Tallied /\ BootedSafely /\ Seedlings /\ Paging
      => TypesOK
  BY AccountTyped, LimitTyped, CatalogueTyped, ReviewsTyped, SendingTyped,
     BootTyped, PagingTyped
     DEF TypesOK, Types, Stopping, Seconding
<1>2. Init => Types
  BY InitTypes
<1>3. Types /\ [Next]_vars => Types'
  BY TypesStep
<1>4. Limiting /\ Restarted /\ [L!Next]_(L!vars) => (Limiting /\ Restarted)'
  BY LimitStep, RestartedStep
<1>5. Delivery /\ Tallied /\ [N!Next]_(N!vars) => (Delivery /\ Tallied)'
  BY DeliveryStep, TalliedStep
<1>6. B!Init => BootedSafely
  BY BootInit
<1>7. BootedSafely /\ Seedlings /\ [B!Next]_(B!vars) => (BootedSafely /\ Seedlings)'
  BY BootStep, BootAssumption, SeedlingsStep
<1>8. PlatformSpec => [](Types /\ Authority /\ Stopping /\ Quota)
  BY <1>2, <1>3, PartsAtWork, AuthorityInit, AuthorityStep, StoppingInit, StoppingStep,
     QuotaInit, QuotaStep, PTL DEF Spec, A!Spec, M!Spec, C!Spec
<1>9. PlatformSpec => [](Rating /\ Seconding /\ Paging)
  BY PartsAtWork, RatingInit, RatingStep, DeskInit, DeskStep, PagingInit, PagingStep, PTL
     DEF V!Spec, D!Spec, I!Spec
<1>10. PlatformSpec => [](Limiting /\ Restarted)
  BY <1>4, PartsAtWork, LimitInit, RestartedInit, PTL DEF L!Spec
<1>11. PlatformSpec => [](Delivery /\ Tallied)
  BY <1>5, PartsAtWork, DeliveryInit, TalliedInit, PTL DEF N!Spec
<1>12. PlatformSpec => [](BootedSafely /\ Seedlings)
  BY <1>6, <1>7, PartsAtWork, SeedlingsInit, PTL DEF B!Spec
<1> QED
  BY <1>1, <1>8, <1>9, <1>10, <1>11, <1>12, PTL
=============================================================================
