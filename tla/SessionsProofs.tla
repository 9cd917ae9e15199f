--------------------------- MODULE SessionsProofs ---------------------------
(***************************************************************************)
(* The theorems about what ends with an epoch: second-factor codes and     *)
(* sessions, and the sockets of a user, for any number of requests,        *)
(* sessions, processes, sockets and events.                                *)
(*                                                                         *)
(* Each part has its inductive invariant (Factor, Channel), the lemma that *)
(* the initial states satisfy it and a lemma for each action.              *)
(***************************************************************************)
EXTENDS MCSessions, TLAPS, FiniteSetTheorems, SequenceTheorems

-----------------------------------------------------------------------------
(* SecondFactor: codes and sessions.                                       *)

FactorRows == [secret : Secrets \cup {F!None}, last : F!Past..F!Drift, epoch : Nat]

FactorWork == [for : {"idle", "authorise", "claimed", "change"}, copy : FactorRows,
               counter : F!Past..F!Drift, live : BOOLEAN]

FactorTypes ==
  /\ redis \in Modes /\ row \in FactorRows /\ pending \in Secrets \cup {F!None}
  /\ claims \subseteq [counter : F!Past..F!Drift, ttl : Int]
  /\ work \in [Requests -> FactorWork]
  /\ tokens \subseteq [epoch : Nat, live : BOOLEAN]
  /\ used \subseteq Secrets \X F!Window
  /\ replayed \in BOOLEAN /\ crossed \in BOOLEAN

(* An epoch that may be in a token belongs to the past if it was revoked.  *)
Ended(live, epoch) == epoch <= row.epoch /\ (~live => epoch < row.epoch)

EpochsBehind ==
  \/ crossed
  \/ /\ \A t \in tokens : Ended(t.live, t.epoch)
     /\ \A r \in Requests : /\ work[r].copy.epoch <= row.epoch
                            /\ work[r].for \in F!Tokened =>
                                 Ended(work[r].live, work[r].copy.epoch)

(* With Redis the claim of an accepted code lives as long as the code.     *)
ClaimsOutlive ==
  redis = "up" =>
    /\ ~replayed
    /\ \A c \in used : \E k \in claims : k.counter = c[2] /\ k.ttl >= c[2] + F!Drift + 1

(* Without it the row has reached the counter of an accepted code of its   *)
(* secret, and a new secret is not the one of the code.                    *)
RowReached ==
  redis = "off" =>
    /\ \A r \in Requests : work[r].for # "claimed"
    /\ \/ crossed
       \/ /\ ~replayed
          /\ pending = F!None \/ pending # row.secret
          /\ \A c \in used : c[1] # pending /\ (c[1] = row.secret => row.last >= c[2])

Factor == FactorTypes /\ EpochsBehind /\ ClaimsOutlive /\ RowReached

LEMMA FactorNumbers ==
  /\ F!Drift = 1 /\ F!Past = -2 /\ F!Window = -1..1 /\ F!ClaimTtl = 3
  /\ \A m \in -2..1 : F!Older(m) = IF m = -2 THEN -2 ELSE m - 1
  /\ \A e \in Nat : F!Bump(e) = e + 1
BY DEF F!Drift, F!Past, F!Window, F!ClaimTtl, F!Older, F!Bump

LEMMA FactorIdle ==
  /\ F!Off \in FactorRows /\ F!Off.epoch = 0 /\ F!Off.secret = F!None
  /\ F!Idle \in FactorWork /\ F!Idle.for = "idle" /\ F!Idle.live = TRUE /\ F!Idle.copy = F!Off
  /\ F!Idle.counter = -2
BY FactorNumbers DEF F!Off, F!Idle, FactorRows, FactorWork

LEMMA FactorImplies == Factor => CodesAuthoriseOnce /\ SessionsEnd
<1> SUFFICES ASSUME Factor PROVE CodesAuthoriseOnce /\ SessionsEnd
  OBVIOUS
<1>1. redis \in {"up", "off", "flaky"}
  BY FactorAssumption DEF Factor, FactorTypes
<1>2. CodesAuthoriseOnce
  BY <1>1 DEF Factor, ClaimsOutlive, RowReached, CodesAuthoriseOnce, F!CodesAuthoriseOnce
<1>3. ASSUME ~crossed, NEW t \in tokens, t.epoch = row.epoch PROVE t.live
  <2>1. t.epoch \in Nat /\ row.epoch \in Nat /\ (~t.live => t.epoch < row.epoch)
    BY <1>3 DEF Factor, FactorTypes, FactorRows, EpochsBehind, Ended
  <2> QED
    BY <1>3, <2>1
<1> QED
  BY <1>2, <1>3 DEF SessionsEnd, F!SessionsEnd

LEMMA FactorInit == F!Init => Factor
<1> SUFFICES ASSUME F!Init PROVE Factor
  OBVIOUS
<1>1. /\ redis \in Modes /\ pending = F!None /\ claims = {} /\ work = [r \in Requests |-> F!Idle]
      /\ tokens = {} /\ used = {} /\ replayed = FALSE /\ crossed = FALSE
      /\ \E s \in Secrets \cup {F!None} : row = [F!Off EXCEPT !.secret = s]
  BY DEF F!Init
<1>2. row \in FactorRows /\ row.epoch = 0
  BY <1>1, FactorIdle DEF FactorRows
<1>3. FactorTypes
  BY <1>1, <1>2, FactorIdle DEF FactorTypes
<1>4. EpochsBehind
  BY <1>1, <1>2, FactorIdle DEF EpochsBehind, F!Tokened
<1>5. ClaimsOutlive /\ RowReached
  BY <1>1, FactorIdle DEF ClaimsOutlive, RowReached
<1> QED
  BY <1>3, <1>4, <1>5 DEF Factor

LEMMA FactorNow ==
  ASSUME Factor
  PROVE  /\ row.secret \in Secrets \cup {F!None} /\ row.last \in -2..1 /\ row.epoch \in Nat
         /\ \A r \in Requests :
              /\ work[r].for \in {"idle", "authorise", "claimed", "change"}
              /\ work[r].copy \in FactorRows /\ work[r].counter \in -2..1
              /\ work[r].live \in BOOLEAN
              /\ work[r].copy.secret \in Secrets \cup {F!None}
              /\ work[r].copy.last \in -2..1 /\ work[r].copy.epoch \in Nat
BY FactorNumbers DEF Factor, FactorTypes, FactorRows, FactorWork

(* What a request may become: its copy stays, or is one of the row now, or *)
(* the request is over.                                                    *)
StaysBehind(r, w) ==
  \/ /\ w.copy.epoch = work[r].copy.epoch
     /\ w.for \in F!Tokened => work[r].for \in F!Tokened /\ w.live = work[r].live
  \/ w.copy.epoch = row.epoch /\ w.live
  \/ w.copy.epoch = 0 /\ w.for \notin F!Tokened

LEMMA OneRequestMoves ==
  ASSUME Factor, NEW r \in Requests, NEW w \in FactorWork,
         work' = [work EXCEPT ![r] = w], StaysBehind(r, w)
  PROVE  /\ work' \in [Requests -> FactorWork]
         /\ work'[r] = w /\ \A q \in Requests \ {r} : work'[q] = work[q]
         /\ ~crossed => \A q \in Requests : /\ work'[q].copy.epoch <= row.epoch
                                            /\ work'[q].for \in F!Tokened =>
                                                 Ended(work'[q].live, work'[q].copy.epoch)
<1>1. work \in [Requests -> FactorWork]
  BY DEF Factor, FactorTypes
<1>2. /\ work' \in [Requests -> FactorWork]
      /\ work'[r] = w /\ \A q \in Requests \ {r} : work'[q] = work[q]
  BY <1>1
<1>3. row.epoch \in Nat /\ work[r].copy.epoch \in Nat /\ w.copy.epoch \in Nat /\ w.live \in BOOLEAN
  BY FactorNow DEF FactorWork, FactorRows
<1>4. ASSUME ~crossed PROVE w.copy.epoch <= row.epoch /\ (w.for \in F!Tokened => Ended(w.live, w.copy.epoch))
  <2>1. /\ work[r].copy.epoch <= row.epoch
        /\ work[r].for \in F!Tokened => Ended(work[r].live, work[r].copy.epoch)
    BY <1>4 DEF Factor, EpochsBehind
  <2>2. w.copy.epoch <= row.epoch
    BY <1>3, <2>1 DEF StaysBehind
  <2>3. ASSUME w.for \in F!Tokened, ~w.live PROVE w.copy.epoch < row.epoch
    BY <1>3, <2>1, <2>3 DEF StaysBehind, Ended
  <2> QED
    BY <2>2, <2>3 DEF Ended
<1>5. ASSUME ~crossed, NEW q \in Requests \ {r}
      PROVE  /\ work'[q].copy.epoch <= row.epoch
             /\ work'[q].for \in F!Tokened => Ended(work'[q].live, work'[q].copy.epoch)
  BY <1>2, <1>5 DEF Factor, EpochsBehind
<1> QED
  BY <1>2, <1>4, <1>5

(* The sessions are not affected by what leaves the epoch alone.           *)
LEMMA EpochsKept ==
  ASSUME Factor, row'.epoch = row.epoch, crossed => crossed',
         ~crossed => /\ \A t \in tokens' : Ended(t.live, t.epoch)
                     /\ \A q \in Requests : /\ work'[q].copy.epoch <= row.epoch
                                            /\ work'[q].for \in F!Tokened =>
                                                 Ended(work'[q].live, work'[q].copy.epoch)
  PROVE  EpochsBehind'
BY DEF EpochsBehind, Ended

LEMMA TokensBehind == Factor /\ ~crossed => \A t \in tokens : Ended(t.live, t.epoch)
BY DEF Factor, EpochsBehind

LEMMA SetupKeeps == ASSUME NEW s \in Secrets, Factor, F!Setup(s) PROVE Factor'
<1>1. /\ s # row.secret /\ (\A c \in used : c[1] # s) /\ pending' = s
      /\ UNCHANGED <<redis, row, claims, work, tokens, used, replayed, crossed>>
  BY DEF F!Setup, F!Observers
<1>2. FactorTypes'
  BY <1>1 DEF Factor, FactorTypes
<1>3. EpochsBehind' /\ ClaimsOutlive'
  BY <1>1 DEF Factor, EpochsBehind, Ended, ClaimsOutlive
<1>4. RowReached'
  BY <1>1 DEF Factor, RowReached
<1> QED
  BY <1>2, <1>3, <1>4 DEF Factor

(* What no step of a request does but those that accept or commit.         *)
LEMMA GuardsKept ==
  ASSUME Factor, UNCHANGED <<redis, claims, used, replayed, crossed, row>>,
         pending' \in {pending, F!None},
         \A r \in Requests : work'[r].for = "claimed" => work[r].for = "claimed"
  PROVE  ClaimsOutlive' /\ RowReached'
<1>1. ClaimsOutlive'
  BY DEF Factor, ClaimsOutlive
<1>2. \A c \in used : c[1] \in Secrets /\ c[1] # F!None
  BY FactorAssumption DEF Factor, FactorTypes
<1>3. RowReached'
  BY <1>2 DEF Factor, RowReached
<1> QED
  BY <1>1, <1>3

LEMMA ReadMoves ==
  ASSUME NEW r \in Requests, NEW for \in F!Kinds, Factor, F!Read(r, for) PROVE Factor'
<1> PICK w : w = [F!Idle EXCEPT !.for = for, !.copy = row]
  OBVIOUS
<1>1. /\ work' = [work EXCEPT ![r] = w]
      /\ UNCHANGED <<redis, row, pending, claims, tokens, used, replayed, crossed>>
  BY DEF F!Read, F!Observers
<1>2. w \in FactorWork /\ w.live = TRUE /\ w.copy = row /\ w.for = for
  <2>1. row \in FactorRows
    BY DEF Factor, FactorTypes
  <2>2. PICK v : v = [F!Idle EXCEPT !.for = for]
    OBVIOUS
  <2>3. v \in FactorWork /\ v.live = TRUE /\ v.for = for /\ w = [v EXCEPT !.copy = row]
    BY <2>2, FactorIdle DEF FactorWork, F!Kinds
  <2> QED
    BY <2>1, <2>3 DEF FactorWork
<1>3. F!Idle = work[r] /\ work[r].for = "idle"
  BY FactorIdle DEF F!Read
<1>4. work' \in [Requests -> FactorWork] /\ EpochsBehind'
      /\ work'[r] = w /\ \A q \in Requests \ {r} : work'[q] = work[q]
  BY <1>1, <1>2, OneRequestMoves, EpochsKept, TokensBehind DEF StaysBehind
<1>5. FactorTypes'
  BY <1>1, <1>4 DEF Factor, FactorTypes
<1>6. ClaimsOutlive' /\ RowReached'
  BY <1>1, <1>2, <1>4, GuardsKept DEF F!Kinds
<1> QED
  BY <1>4, <1>5, <1>6 DEF Factor

LEMMA FailMoves ==
  ASSUME NEW r \in Requests, Factor, F!Fail(r) \/ F!EnableFails(r) PROVE Factor'
<1>1. /\ work' = [work EXCEPT ![r] = F!Idle] /\ pending' \in {pending, F!None}
      /\ UNCHANGED <<redis, row, claims, tokens, used, replayed, crossed>>
  BY DEF F!Fail, F!EnableFails, F!PopPending, F!Observers
<1>2. work' \in [Requests -> FactorWork] /\ EpochsBehind'
      /\ work'[r] = F!Idle /\ \A q \in Requests \ {r} : work'[q] = work[q]
  BY <1>1, FactorIdle, OneRequestMoves, EpochsKept, TokensBehind DEF StaysBehind, F!Tokened
<1>3. FactorTypes'
  BY <1>1, <1>2 DEF Factor, FactorTypes
<1>4. ClaimsOutlive' /\ RowReached'
  BY <1>1, <1>2, FactorIdle, GuardsKept
<1> QED
  BY <1>2, <1>3, <1>4 DEF Factor

(* What is accepted is one code, or what was.                              *)
LEMMA Accepted ==
  ASSUME Factor, NEW s \in Secrets, NEW m \in F!Window, F!Accept(s, m)
  PROVE  /\ used' \subseteq Secrets \X F!Window /\ replayed' \in BOOLEAN
         /\ \A c \in used' : c \in used \/ c = <<s, m>>
         /\ replayed' => replayed \/ <<s, m>> \in used
<1>1. used \subseteq Secrets \X F!Window /\ replayed \in BOOLEAN
  BY DEF Factor, FactorTypes
<1> QED
  BY <1>1 DEF F!Accept

LEMMA ClaimMoves ==
  ASSUME NEW r \in Requests, NEW m \in F!Window, Factor, F!Claim(r, m) PROVE Factor'
<1> DEFINE w == work[r]
           s == w.copy.secret
           k == [counter |-> m, ttl |-> F!ClaimTtl]
<1>1. /\ w.for = "authorise" /\ F!Verified(w.copy, m)
      /\ redis # "off" /\ \A c \in claims : c.counter # m
      /\ claims' = claims \cup {k}
      /\ work' = [work EXCEPT ![r].for = "claimed", ![r].counter = m, ![r].copy.last = F!Past]
      /\ F!Accept(s, m)
      /\ UNCHANGED <<redis, row, pending, tokens, crossed>>
  BY DEF F!Claim
<1>2. w \in FactorWork /\ m \in -2..1 /\ s \in Secrets /\ work \in [Requests -> FactorWork]
  BY <1>1, FactorNow, FactorNumbers DEF F!Verified, Factor, FactorTypes
<1>3. PICK w1 : w1 = [w EXCEPT !.for = "claimed"]
  OBVIOUS
<1>4. PICK w2 : w2 = [w1 EXCEPT !.counter = m]
  OBVIOUS
<1>5. PICK w3 : w3 = [w2 EXCEPT !.copy.last = F!Past]
  OBVIOUS
<1> HIDE DEF w, s
<1>6. w1 \in FactorWork /\ w1.for = "claimed" /\ w1.live = w.live /\ w1.copy = w.copy
  BY <1>2, <1>3 DEF FactorWork
<1>7. w2 \in FactorWork /\ w2.for = "claimed" /\ w2.live = w.live /\ w2.copy = w.copy
  BY <1>2, <1>4, <1>6, FactorNumbers DEF FactorWork
<1>8. w3 \in FactorWork /\ w3.for = "claimed" /\ w3.live = w.live /\ w3.copy.epoch = w.copy.epoch
  BY <1>5, <1>7, FactorNumbers DEF FactorWork, FactorRows
<1>9. work' = [work EXCEPT ![r] = w3]
  BY <1>1, <1>2, <1>3, <1>4, <1>5 DEF w
<1>10. work' \in [Requests -> FactorWork] /\ EpochsBehind'
  BY <1>1, <1>8, <1>9, OneRequestMoves, EpochsKept, TokensBehind DEF StaysBehind, w, F!Tokened
<1>11. /\ used' \subseteq Secrets \X F!Window /\ replayed' \in BOOLEAN
       /\ \A c \in used' : c \in used \/ c = <<s, m>>
       /\ replayed' => replayed \/ <<s, m>> \in used
  BY <1>1, <1>2, Accepted
<1>12. k \in [counter : F!Past..F!Drift, ttl : Int] /\ k.counter = m /\ k.ttl = 3
  BY <1>2, FactorNumbers
<1> HIDE DEF k
<1>13. FactorTypes'
  BY <1>1, <1>10, <1>11, <1>12 DEF Factor, FactorTypes
<1>14. ASSUME redis = "up"
       PROVE  /\ ~replayed'
              /\ \A c \in used' : \E l \in claims' :
                   l.counter = c[2] /\ l.ttl >= c[2] + F!Drift + 1
  <2>1. ~replayed /\ \A c \in used : \E l \in claims :
          l.counter = c[2] /\ l.ttl >= c[2] + F!Drift + 1
    BY <1>14 DEF Factor, ClaimsOutlive
  <2>2. <<s, m>> \notin used
    BY <1>1, <2>1
  <2>3. 3 >= m + F!Drift + 1
    BY <1>2, FactorNumbers
  <2>4. k \in claims' /\ k.counter = <<s, m>>[2] /\ k.ttl >= <<s, m>>[2] + F!Drift + 1
    BY <1>1, <1>12, <2>3
  <2>5. \A c \in used : \E l \in claims' : l.counter = c[2] /\ l.ttl >= c[2] + F!Drift + 1
    BY <1>1, <2>1
  <2> QED
    BY <1>11, <2>1, <2>2, <2>4, <2>5
<1>15. ClaimsOutlive' /\ RowReached'
  BY <1>1, <1>14 DEF ClaimsOutlive, RowReached
<1> QED
  BY <1>10, <1>13, <1>15 DEF Factor

(* A request that acts: its token carries the epoch it read.               *)
LEMMA FinishMoves ==
  ASSUME NEW r \in Requests, Factor, F!Finish(r), work[r].for \in F!Tokened,
         row' \in FactorRows, row'.epoch = row.epoch
  PROVE  /\ work' \in [Requests -> FactorWork] /\ tokens' \subseteq [epoch : Nat, live : BOOLEAN]
         /\ \A q \in Requests : work'[q].for = "claimed" => work[q].for = "claimed"
         /\ crossed' \in BOOLEAN /\ EpochsBehind' /\ UNCHANGED <<redis, pending>>
         /\ ~crossed' => ~crossed /\ row.secret = work[r].copy.secret
<1> DEFINE t == [epoch |-> work[r].copy.epoch, live |-> work[r].live]
<1>1. /\ work' = [work EXCEPT ![r] = F!Idle] /\ tokens' \in {tokens, {t}}
      /\ crossed' = (crossed \/ F!Overtaken(r)) /\ UNCHANGED <<redis, pending>>
  BY DEF F!Finish
<1>2. t \in [epoch : Nat, live : BOOLEAN] /\ t.epoch = work[r].copy.epoch /\ t.live = work[r].live
  BY FactorNow
<1> HIDE DEF t
<1>3. tokens' \subseteq [epoch : Nat, live : BOOLEAN] /\ crossed' \in BOOLEAN
  BY <1>1, <1>2 DEF Factor, FactorTypes, F!Overtaken
<1>4. ~crossed => \A x \in tokens' : Ended(x.live, x.epoch)
  BY <1>1, <1>2, TokensBehind DEF Factor, EpochsBehind
<1>5. /\ work' \in [Requests -> FactorWork]
      /\ work'[r] = F!Idle /\ \A q \in Requests \ {r} : work'[q] = work[q]
      /\ EpochsBehind'
  BY <1>1, <1>4, FactorIdle, OneRequestMoves, EpochsKept DEF StaysBehind, F!Tokened
<1> QED
  BY <1>1, <1>3, <1>5, FactorIdle DEF F!Overtaken

LEMMA CommitClaimedMoves ==
  ASSUME NEW r \in Requests, Factor, F!CommitClaimed(r) PROVE Factor'
<1>1. /\ work[r].for = "claimed" /\ row' = [row EXCEPT !.last = work[r].counter]
      /\ F!Finish(r) /\ UNCHANGED <<claims, used, replayed>>
  BY DEF F!CommitClaimed
<1>2. row' \in FactorRows /\ row'.epoch = row.epoch
  BY <1>1, FactorNow, FactorNumbers DEF FactorRows, Factor, FactorTypes
<1>3. /\ work' \in [Requests -> FactorWork] /\ tokens' \subseteq [epoch : Nat, live : BOOLEAN]
      /\ crossed' \in BOOLEAN /\ EpochsBehind' /\ UNCHANGED <<redis, pending>>
  BY <1>1, <1>2, FinishMoves DEF F!Tokened
<1>4. FactorTypes' /\ ClaimsOutlive'
  BY <1>1, <1>2, <1>3 DEF Factor, FactorTypes, ClaimsOutlive
<1>5. RowReached'
  BY <1>1, <1>3 DEF Factor, RowReached
<1> QED
  BY <1>3, <1>4, <1>5 DEF Factor

LEMMA ConsumeInRowMoves ==
  ASSUME NEW r \in Requests, NEW m \in F!Window, Factor, F!ConsumeInRow(r, m) PROVE Factor'
<1> DEFINE s == work[r].copy.secret
<1>1. /\ work[r].for = "authorise" /\ F!Verified(work[r].copy, m)
      /\ redis # "up" /\ row.last < m /\ row' = [row EXCEPT !.last = m]
      /\ F!Accept(s, m) /\ F!Finish(r) /\ claims' = claims
  BY DEF F!ConsumeInRow, F!Advances
<1>2. s \in Secrets /\ m \in -1..1
  BY <1>1, FactorNow, FactorNumbers DEF F!Verified
<1> HIDE DEF s
<1>3. row' \in FactorRows /\ row'.epoch = row.epoch /\ row'.last = m /\ row'.secret = row.secret
  BY <1>1, <1>2, FactorNumbers DEF FactorRows, Factor, FactorTypes
<1>4. /\ work' \in [Requests -> FactorWork] /\ tokens' \subseteq [epoch : Nat, live : BOOLEAN]
      /\ \A q \in Requests : work'[q].for = "claimed" => work[q].for = "claimed"
      /\ crossed' \in BOOLEAN /\ EpochsBehind' /\ UNCHANGED <<redis, pending>>
      /\ ~crossed' => ~crossed /\ row.secret = s
  BY <1>1, <1>3, FinishMoves DEF F!Tokened, s
<1>5. /\ used' \subseteq Secrets \X F!Window /\ replayed' \in BOOLEAN
      /\ \A c \in used' : c \in used \/ c = <<s, m>>
      /\ replayed' => replayed \/ <<s, m>> \in used
  BY <1>1, <1>2, Accepted
<1>6. FactorTypes' /\ ClaimsOutlive'
  BY <1>1, <1>3, <1>4, <1>5 DEF Factor, FactorTypes, ClaimsOutlive
<1>7. ASSUME redis = "off", ~crossed'
      PROVE  /\ ~replayed'
             /\ pending' = F!None \/ pending' # row'.secret
             /\ \A c \in used' : c[1] # pending' /\ (c[1] = row'.secret => row'.last >= c[2])
  <2>1. /\ ~replayed /\ (pending = F!None \/ pending # row.secret)
        /\ \A c \in used : c[1] # pending /\ (c[1] = row.secret => row.last >= c[2])
    BY <1>4, <1>7 DEF Factor, RowReached
  <2>2. row.secret = s
    BY <1>4, <1>7
  <2>3. row.last \in Int /\ \A c \in used : c[2] \in -1..1
    BY FactorNow, FactorNumbers DEF Factor, FactorTypes
  <2>4. <<s, m>> \notin used
    BY <1>1, <1>2, <2>1, <2>2, <2>3
  <2>5. \A c \in used : c[1] # pending /\ (c[1] = row.secret => m >= c[2])
    BY <1>1, <1>2, <2>1, <2>3
  <2>6. s # pending
    BY <1>2, <2>1, <2>2, FactorAssumption
  <2>7. \A c \in used' : c[1] # pending /\ (c[1] = row.secret => m >= c[2])
    BY <1>2, <1>5, <2>5, <2>6
  <2> QED
    BY <1>3, <1>4, <1>5, <2>1, <2>4, <2>7
<1>8. RowReached'
  BY <1>1, <1>4, <1>7 DEF Factor, RowReached
<1> QED
  BY <1>4, <1>6, <1>8 DEF Factor

(* A commit that ends the sessions: unless it was overtaken, the new epoch *)
(* is later than all there were.                                           *)
LEMMA RevokeMoves ==
  ASSUME NEW r \in Requests, NEW new \in FactorRows, Factor, F!Revoke(r, new),
         crossed' \in BOOLEAN, crossed => crossed',
         ~crossed' => work[r].copy.epoch = row.epoch
  PROVE  /\ row' \in FactorRows /\ row'.secret = new.secret /\ row'.last = new.last
         /\ work' \in [Requests -> FactorWork]
         /\ \A q \in Requests : work'[q].for = "claimed" => work[q].for = "claimed"
         /\ tokens' \subseteq [epoch : Nat, live : BOOLEAN]
         /\ EpochsBehind' /\ UNCHANGED <<redis, claims, used, replayed>>
<1> DEFINE e == work[r].copy.epoch
<1>1. /\ row' = [new EXCEPT !.epoch = F!Bump(e)]
      /\ work' = [q \in Requests |-> IF q = r THEN F!Idle
                   ELSE [work[q] EXCEPT !.live = @ /\ work[q].for \notin F!Tokened]]
      /\ tokens' = {[t EXCEPT !.live = FALSE] : t \in tokens}
      /\ UNCHANGED <<redis, claims, used, replayed>>
  BY DEF F!Revoke
<1>2. e \in Nat /\ F!Bump(e) = e + 1 /\ row.epoch \in Nat
  BY FactorNow, FactorNumbers
<1> HIDE DEF e
<1>3. row' \in FactorRows /\ row'.secret = new.secret /\ row'.last = new.last /\ row'.epoch = e + 1
  BY <1>1, <1>2 DEF FactorRows
<1>4. \A q \in Requests : work[q] \in FactorWork
  BY DEF Factor, FactorTypes
<1>5. ASSUME NEW q \in Requests
      PROVE  /\ work'[q] \in FactorWork /\ work'[q].copy \in {F!Off, work[q].copy}
             /\ work'[q].for \in {"idle", work[q].for}
  <2>1. CASE q = r
    BY <1>1, <2>1, FactorIdle
  <2>2. CASE q # r
    <3>1. PICK b \in BOOLEAN : b = (work[q].live /\ work[q].for \notin F!Tokened)
      BY <1>4 DEF FactorWork
    <3>2. work'[q] = [work[q] EXCEPT !.live = b]
      BY <1>1, <2>2, <3>1
    <3> QED
      BY <1>4, <3>2 DEF FactorWork
  <2> QED
    BY <2>1, <2>2
<1>6. work' \in [Requests -> FactorWork]
  <2>1. work' = [q \in Requests |-> work'[q]]
    BY <1>1
  <2> QED
    BY <1>5, <2>1
<1>7. tokens \subseteq [epoch : Nat, live : BOOLEAN]
  BY DEF Factor, FactorTypes
<1>8. \A t \in tokens' : /\ t \in [epoch : Nat, live : BOOLEAN]
                         /\ \E u \in tokens : t.epoch = u.epoch
  BY <1>1, <1>7
<1>9. ASSUME ~crossed' PROVE EpochsBehind'
  <2>1. ~crossed /\ e = row.epoch /\ row'.epoch = row.epoch + 1
    BY <1>3, <1>9 DEF e
  <2>2. \A u \in tokens : u.epoch \in Nat /\ u.epoch <= row.epoch
    BY <1>7, <2>1, TokensBehind DEF Ended
  <2>3. \A t \in tokens' : t.epoch <= row'.epoch /\ t.epoch < row'.epoch
    <3>1. \A x \in Nat : x <= row.epoch => x <= row'.epoch /\ x < row'.epoch
      BY <1>2, <2>1
    <3> QED
      BY <1>8, <2>2, <3>1
  <2>4. \A q \in Requests : work'[q].copy.epoch <= row'.epoch /\ work'[q].copy.epoch < row'.epoch
    <3>1. \A q \in Requests : work[q].copy.epoch <= row.epoch /\ work[q].copy.epoch \in Nat
      BY <2>1, FactorNow DEF Factor, EpochsBehind
    <3> QED
      BY <1>2, <1>5, <2>1, <3>1, FactorIdle
  <2> QED
    BY <2>3, <2>4 DEF EpochsBehind, Ended
<1> QED
  BY <1>1, <1>3, <1>5, <1>6, <1>8, <1>9 DEF EpochsBehind

(* What revocations do to the guards.                                      *)
LEMMA RevokeGuards ==
  ASSUME Factor, row' \in FactorRows, UNCHANGED <<redis, claims, used, replayed>>,
         \A q \in Requests : work'[q].for = "claimed" => work[q].for = "claimed",
         crossed => crossed',
         ~crossed /\ ~crossed' =>
           /\ pending' \in {pending, F!None} /\ (pending' = F!None \/ pending' # row'.secret)
           /\ row'.secret \in {row.secret, F!None, pending}
           /\ row'.secret = row.secret => row'.last >= row.last
  PROVE  ClaimsOutlive' /\ RowReached'
<1>1. ClaimsOutlive'
  BY DEF Factor, ClaimsOutlive
<1>2. \A c \in used : c[1] # F!None /\ c[2] \in -1..1
  BY FactorAssumption, FactorNumbers DEF Factor, FactorTypes
<1>3. ASSUME redis = "off", ~crossed'
      PROVE  /\ ~replayed
             /\ \A c \in used : c[1] # pending' /\ (c[1] = row'.secret => row'.last >= c[2])
  <2>1. /\ ~replayed
        /\ \A c \in used : c[1] # pending /\ (c[1] = row.secret => row.last >= c[2])
    BY <1>3 DEF Factor, RowReached
  <2>2. \A c \in used : c[1] # pending'
    BY <1>2, <1>3, <2>1
  <2>3. row.last \in Int /\ row'.last \in Int
    BY FactorNow, FactorNumbers DEF FactorRows
  <2>4. ASSUME NEW c \in used, c[1] = row'.secret PROVE row'.last >= c[2]
    <3>1. row'.secret = row.secret /\ row'.last >= row.last /\ row.last >= c[2]
      BY <1>2, <1>3, <2>1, <2>4
    <3> QED
      BY <1>2, <2>3, <3>1
  <2> QED
    BY <2>1, <2>2, <2>4
<1>4. RowReached'
  BY <1>3 DEF Factor, RowReached
<1> QED
  BY <1>1, <1>4

LEMMA EnableMoves ==
  ASSUME NEW r \in Requests, NEW s \in Secrets, NEW m \in F!Window, Factor, F!Enable(r, s, m)
  PROVE  Factor'
<1> DEFINE copy == work[r].copy
           new == [row EXCEPT !.secret = s, !.last = m]
<1>1. /\ IF s = copy.secret THEN F!PopPending(F!None) ELSE F!PopPending(s)
      /\ F!Revoke(r, new) /\ crossed' = (crossed \/ row # copy)
      /\ copy.secret # F!None => \E current \in F!Window :
           F!Verified(copy, current) /\ (s = copy.secret => m > copy.last /\ m # current)
  BY DEF F!Enable
<1>2. s # F!None /\ m \in F!Past..F!Drift
  BY FactorAssumption, FactorNumbers
<1>3. new \in FactorRows /\ new.secret = s /\ new.last = m
  <2>1. PICK n : n = [row EXCEPT !.secret = s]
    OBVIOUS
  <2>2. n \in FactorRows /\ n.secret = s /\ new = [n EXCEPT !.last = m]
    BY <2>1 DEF Factor, FactorTypes, FactorRows
  <2> QED
    BY <1>2, <2>2 DEF FactorRows
<1> HIDE DEF new
<1>4. crossed' \in BOOLEAN /\ (crossed => crossed') /\ (~crossed' => copy = row)
  BY <1>1 DEF Factor, FactorTypes
<1>5. /\ row' \in FactorRows /\ row'.secret = s /\ row'.last = m
      /\ work' \in [Requests -> FactorWork]
      /\ \A q \in Requests : work'[q].for = "claimed" => work[q].for = "claimed"
      /\ tokens' \subseteq [epoch : Nat, live : BOOLEAN]
      /\ EpochsBehind' /\ UNCHANGED <<redis, claims, used, replayed>>
  BY <1>1, <1>3, <1>4, RevokeMoves
<1>6. /\ pending' = F!None
      /\ s # copy.secret => s = pending
      /\ s = copy.secret => m > copy.last
  BY <1>1, <1>2 DEF F!PopPending
<1>7. FactorTypes'
  BY <1>4, <1>5, <1>6 DEF Factor, FactorTypes
<1>8. ASSUME ~crossed'
      PROVE  /\ row'.secret \in {row.secret, F!None, pending}
             /\ row'.secret = row.secret => row'.last >= row.last
  <2>1. row.last \in Int /\ m \in Int
    BY FactorNow, FactorNumbers
  <2> QED
    BY <1>4, <1>5, <1>6, <1>8, <2>1
<1>9. ClaimsOutlive' /\ RowReached'
  BY <1>4, <1>5, <1>6, <1>8, RevokeGuards
<1> QED
  BY <1>5, <1>7, <1>9 DEF Factor

LEMMA DisableMoves ==
  ASSUME NEW r \in Requests, NEW m \in F!Window, Factor, F!Disable(r, m) PROVE Factor'
<1> DEFINE new == [row EXCEPT !.secret = F!None, !.last = m]
<1>1. F!Verified(work[r].copy, m) /\ F!Revoke(r, new) /\ crossed' = (crossed \/ row # work[r].copy)
      /\ pending' = pending
  BY DEF F!Disable
<1>2. new \in FactorRows /\ new.secret = F!None /\ new.last = m
  <2>1. PICK n : n = [row EXCEPT !.secret = F!None]
    OBVIOUS
  <2>2. n \in FactorRows /\ n.secret = F!None /\ new = [n EXCEPT !.last = m]
    BY <2>1 DEF Factor, FactorTypes, FactorRows
  <2>3. m \in F!Past..F!Drift
    BY FactorNumbers
  <2> QED
    BY <2>2, <2>3 DEF FactorRows
<1> HIDE DEF new
<1>3. crossed' \in BOOLEAN /\ (crossed => crossed') /\ (~crossed' => work[r].copy = row)
  BY <1>1 DEF Factor, FactorTypes
<1>4. /\ row' \in FactorRows /\ row'.secret = F!None /\ row'.last = m
      /\ work' \in [Requests -> FactorWork]
      /\ \A q \in Requests : work'[q].for = "claimed" => work[q].for = "claimed"
      /\ tokens' \subseteq [epoch : Nat, live : BOOLEAN]
      /\ EpochsBehind' /\ UNCHANGED <<redis, claims, used, replayed>>
  BY <1>1, <1>2, <1>3, RevokeMoves
<1>5. FactorTypes'
  BY <1>1, <1>3, <1>4 DEF Factor, FactorTypes
<1>6. ASSUME ~crossed' PROVE row.secret # F!None
  BY <1>1, <1>3, <1>6 DEF F!Verified
<1>7. pending' = F!None \/ pending' # row'.secret
  BY <1>1, <1>4
<1>8. ClaimsOutlive' /\ RowReached'
  BY <1>1, <1>3, <1>4, <1>6, <1>7, RevokeGuards
<1> QED
  BY <1>4, <1>5, <1>8 DEF Factor

LEMMA InvalidateMoves ==
  ASSUME NEW r \in Requests, Factor, F!InvalidateSessions(r) PROVE Factor'
<1>1. F!Revoke(r, row) /\ crossed' = (crossed \/ row.epoch # work[r].copy.epoch)
      /\ pending' = pending
  BY DEF F!InvalidateSessions
<1>2. row \in FactorRows
  BY DEF Factor, FactorTypes
<1>3. crossed' \in BOOLEAN /\ (crossed => crossed') /\ (~crossed' => work[r].copy.epoch = row.epoch)
  BY <1>1 DEF Factor, FactorTypes
<1>4. /\ row' \in FactorRows /\ row'.secret = row.secret /\ row'.last = row.last
      /\ work' \in [Requests -> FactorWork]
      /\ \A q \in Requests : work'[q].for = "claimed" => work[q].for = "claimed"
      /\ tokens' \subseteq [epoch : Nat, live : BOOLEAN]
      /\ EpochsBehind' /\ UNCHANGED <<redis, claims, used, replayed>>
  BY <1>1, <1>2, <1>3, RevokeMoves
<1>5. FactorTypes'
  BY <1>1, <1>3, <1>4 DEF Factor, FactorTypes
<1>6. ClaimsOutlive'
  BY <1>4 DEF Factor, ClaimsOutlive
<1>7. RowReached'
  BY <1>1, <1>3, <1>4 DEF Factor, RowReached
<1> QED
  BY <1>4, <1>5, <1>6, <1>7 DEF Factor

(* The present moves on by a period.                                       *)
LEMMA FactorTick == Factor /\ F!Tick => Factor'
<1> SUFFICES ASSUME Factor, F!Tick PROVE Factor'
  OBVIOUS
<1>1. /\ row' = [row EXCEPT !.last = F!Older(row.last)]
      /\ work' = [r \in Requests |-> [work[r] EXCEPT !.copy.last = F!Older(work[r].copy.last),
                                                     !.counter = F!Older(work[r].counter)]]
      /\ claims' = {[counter |-> F!Older(c.counter), ttl |-> c.ttl - 1] :
                      c \in {d \in claims : d.ttl > 1 /\ d.counter > -F!Drift}}
      /\ used' = {<<c[1], F!Older(c[2])>> : c \in {d \in used : d[2] > -F!Drift}}
      /\ UNCHANGED <<redis, pending, tokens, replayed, crossed>>
  BY DEF F!Tick
<1>2. \A m \in -2..1 : F!Older(m) \in -2..1
  BY FactorNumbers
<1>3. row' \in FactorRows /\ row'.secret = row.secret /\ row'.epoch = row.epoch
      /\ row'.last = F!Older(row.last)
  BY <1>1, <1>2, FactorNow, FactorNumbers DEF FactorRows, Factor, FactorTypes
<1>4. ASSUME NEW r \in Requests
      PROVE  /\ work'[r] \in FactorWork /\ work'[r].for = work[r].for
             /\ work'[r].live = work[r].live /\ work'[r].copy.epoch = work[r].copy.epoch
  <2>1. work[r] \in FactorWork
    BY DEF Factor, FactorTypes
  <2>2. PICK l : l = F!Older(work[r].copy.last)
    OBVIOUS
  <2>3. PICK n : n = F!Older(work[r].counter)
    OBVIOUS
  <2>4. l \in F!Past..F!Drift /\ n \in F!Past..F!Drift
    BY <1>2, <2>2, <2>3, FactorNow, FactorNumbers
  <2>5. PICK v : v = [work[r] EXCEPT !.copy.last = l]
    OBVIOUS
  <2>6. v \in FactorWork /\ v.for = work[r].for /\ v.live = work[r].live
        /\ v.copy.epoch = work[r].copy.epoch
    BY <2>1, <2>4, <2>5 DEF FactorWork, FactorRows
  <2>7. work'[r] = [v EXCEPT !.counter = n]
    BY <1>1, <2>1, <2>2, <2>3, <2>5
  <2> QED
    BY <2>4, <2>6, <2>7 DEF FactorWork
<1>5. work' \in [Requests -> FactorWork]
  <2>1. work' = [r \in Requests |-> work'[r]]
    BY <1>1
  <2> QED
    BY <1>4, <2>1
<1>6. EpochsBehind'
  BY <1>1, <1>3, <1>4, EpochsKept, TokensBehind DEF Factor, EpochsBehind
<1>7. claims \subseteq [counter : -2..1, ttl : Int] /\ used \subseteq Secrets \X (-1..1)
  BY FactorNumbers DEF Factor, FactorTypes
<1>8. claims' \subseteq [counter : -2..1, ttl : Int]
  <2>1. \A c \in claims : F!Older(c.counter) \in -2..1 /\ c.ttl - 1 \in Int
    BY <1>2, <1>7
  <2>2. \A x \in claims' : \E c \in claims :
          x = [counter |-> F!Older(c.counter), ttl |-> c.ttl - 1]
    BY <1>1
  <2> QED
    BY <2>1, <2>2
<1>9. ASSUME NEW c \in used'
      PROVE  \E d \in used : d[2] > -1 /\ c = <<d[1], d[2] - 1>>
  <2>1. PICK d \in used : d[2] > -F!Drift /\ c = <<d[1], F!Older(d[2])>>
    BY <1>1
  <2>2. d[2] \in -1..1
    BY <1>7
  <2>3. d[2] > -1 /\ F!Older(d[2]) = d[2] - 1
    BY <2>1, <2>2, FactorNumbers
  <2> QED
    BY <2>1, <2>3
<1>10. used' \subseteq Secrets \X (-1..1)
  <2> SUFFICES ASSUME NEW c \in used' PROVE c \in Secrets \X (-1..1)
    OBVIOUS
  <2>1. PICK d \in used : d[2] > -1 /\ c = <<d[1], d[2] - 1>>
    BY <1>9
  <2>2. d[1] \in Secrets /\ d[2] \in -1..1
    BY <1>7
  <2>3. d[2] - 1 \in -1..1
    BY <2>1, <2>2
  <2> QED
    BY <2>1, <2>2, <2>3
<1>11. FactorTypes'
  BY <1>1, <1>3, <1>5, <1>8, <1>10, FactorNumbers DEF Factor, FactorTypes
<1>12. ASSUME redis = "up", NEW c \in used'
       PROVE  \E l \in claims' : l.counter = c[2] /\ l.ttl >= c[2] + F!Drift + 1
  <2>1. PICK d \in used : d[2] > -1 /\ c = <<d[1], d[2] - 1>>
    BY <1>9
  <2>2. PICK k \in claims : k.counter = d[2] /\ k.ttl >= d[2] + 2
    <3>1. PICK k \in claims : k.counter = d[2] /\ k.ttl >= d[2] + F!Drift + 1
      BY <1>12 DEF Factor, ClaimsOutlive
    <3>2. d[2] \in -1..1
      BY <1>7
    <3>3. d[2] + F!Drift + 1 = d[2] + 2
      BY <3>2, FactorNumbers
    <3> QED
      BY <3>1, <3>3
  <2>3. d[2] \in -1..1 /\ k.ttl \in Int
    BY <1>7, <2>2
  <2>4. k.ttl > 1 /\ k.counter > -F!Drift /\ F!Older(k.counter) = d[2] - 1
    BY <2>1, <2>2, <2>3, FactorNumbers
  <2> DEFINE l == [counter |-> F!Older(k.counter), ttl |-> k.ttl - 1]
  <2>5. l \in claims'
    BY <1>1, <2>4
  <2>6. l.counter = c[2] /\ l.ttl = k.ttl - 1 /\ c[2] = d[2] - 1
    BY <2>1, <2>4
  <2> HIDE DEF l
  <2>7. l.ttl >= c[2] + F!Drift + 1
    BY <2>2, <2>3, <2>6, FactorNumbers
  <2> QED
    BY <2>5, <2>6, <2>7
<1>13. ClaimsOutlive'
  BY <1>1, <1>12 DEF Factor, ClaimsOutlive
<1>14. ASSUME redis = "off", ~crossed, NEW c \in used'
       PROVE  c[1] # pending /\ (c[1] = row.secret => row'.last >= c[2])
  <2>1. PICK d \in used : d[2] > -1 /\ c = <<d[1], d[2] - 1>>
    BY <1>9
  <2>2. d[1] # pending /\ (d[1] = row.secret => row.last >= d[2])
    BY <1>14 DEF Factor, RowReached
  <2>3. c[1] = d[1] /\ c[2] = d[2] - 1 /\ d[2] \in -1..1 /\ row.last \in -2..1
    BY <1>7, <2>1, FactorNow
  <2>4. ASSUME d[1] = row.secret PROVE row'.last >= c[2]
    <3>1. row.last # -2 /\ row'.last = row.last - 1
      BY <1>3, <2>1, <2>2, <2>3, <2>4, FactorNumbers
    <3> QED
      BY <2>2, <2>3, <2>4, <3>1
  <2> QED
    BY <2>2, <2>3, <2>4
<1>15. RowReached'
  BY <1>1, <1>3, <1>4, <1>14 DEF Factor, RowReached
<1> QED
  BY <1>6, <1>11, <1>13, <1>15 DEF Factor

LEMMA FactorStep == Factor /\ [F!Next]_(F!vars) => Factor'
<1> SUFFICES ASSUME Factor, [F!Next]_(F!vars) PROVE Factor'
  OBVIOUS
<1>1. CASE F!Next
  BY <1>1, SetupKeeps, ReadMoves, ClaimMoves, ConsumeInRowMoves, DisableMoves, EnableMoves,
     CommitClaimedMoves, FailMoves, InvalidateMoves, FactorTick DEF F!Next
<1>2. CASE UNCHANGED F!vars
  BY <1>2 DEF F!vars, Factor, FactorTypes, EpochsBehind, Ended, ClaimsOutlive, RowReached
<1> QED
  BY <1>1, <1>2

-----------------------------------------------------------------------------
(* Realtime: sockets, their queues and the channel.                        *)

SocketStages == {"new", "accepted", "open", "closed", "gone"}

SocketRows == [stage : SocketStages, at : Processes \cup {"none"}, queue : Seq(Nat),
               sending : Nat, since : Nat]

ChannelTypes ==
  /\ up \in BOOLEAN /\ published \in Nat /\ outages \in Nat
  /\ client \in [Processes -> BOOLEAN]
  /\ sub \in [Processes -> {"none", "listening", "backoff"}]
  /\ inbox \in [Processes -> Seq(Nat)] /\ sock \in [Sockets -> SocketRows]
  /\ got \in [Sockets -> Seq(Nat)] /\ doomed \in [Sockets -> Nat \cup {-1}]

(* Events there are, or a revocation.                                      *)
UpTo(seq, n) == \A i \in 1..Len(seq) : seq[i] <= n
Events(seq) == \A i \in 1..Len(seq) : seq[i] # 0

(* What follows the last revocation of a channel are the latest events.    *)
Latest(seq) ==
  \A j \in 1..Len(seq) : (\A k \in j..Len(seq) : seq[k] # 0) => seq[j] = published - Len(seq) + j

ChannelRuns ==
  /\ \A p \in Processes : UpTo(inbox[p], published)
  /\ R!Calm => up /\ \A p \in Processes : sub[p] = "listening" /\ Latest(inbox[p])

(* Where a socket is, and that it holds nothing before it is open and      *)
(* after it is gone.                                                       *)
Placed(s) ==
  /\ sock[s].stage # "new" => sock[s].at \in Processes
  /\ sock[s].stage \in {"new", "accepted"} =>
       sock[s].queue = <<>> /\ sock[s].sending = 0 /\ got[s] = <<>> /\ doomed[s] = -1
  /\ sock[s].stage = "gone" => sock[s].sending = 0
  /\ UpTo(sock[s].queue, published) /\ Events(sock[s].queue)
  /\ sock[s].sending <= published /\ UpTo(got[s], published)

Unread(s) == inbox[sock[s].at]

(* The number of the last event that is neither queued nor unread.         *)
Before(s) == published - Len(sock[s].queue) - Len(Unread(s))

(* The events of an open socket run up to the latest.                      *)
OnTheWay(s) ==
  LET q == sock[s].queue
      g == got[s]
      x == sock[s].sending
  IN  /\ \A i \in 1..Len(q) : q[i] = Before(s) + i
      /\ \A i \in 1..Len(g) : g[i] <= Before(s) /\ (x # 0 => g[i] < x)
      /\ \A i \in 2..Len(g) : g[i] > g[i - 1]
      /\ x <= Before(s)
      /\ Len(q) = 0 /\ Len(Unread(s)) = 0 /\ published > sock[s].since =>
           IF x # 0 THEN x = published ELSE g # <<>> /\ g[Len(g)] = published

InStep(s) == sock[s].stage = "open" /\ Events(Unread(s)) => OnTheWay(s)

(* A socket whose sessions were revoked holds nothing newer, and the       *)
(* revocation is ahead of all that is newer.                               *)
Cut(s) ==
  doomed[s] # -1 =>
    /\ UpTo(got[s], doomed[s]) /\ UpTo(sock[s].queue, doomed[s]) /\ sock[s].sending <= doomed[s]
    /\ sock[s].stage \in {"open", "closed"} =>
         \E j \in 1..Len(Unread(s)) :
           Unread(s)[j] = 0 /\ \A i \in 1..(j - 1) : Unread(s)[i] <= doomed[s]

Served(s) == Placed(s) /\ (R!Calm => InStep(s) /\ Cut(s))

Channel == ChannelTypes /\ ChannelRuns /\ CapKept /\ \A s \in Sockets : Served(s)

LEMMA ChannelCounts == \A S : R!Cardinality(S) = Cardinality(S)
BY DEF R!Cardinality, Cardinality

LEMMA NowhereRow ==
  /\ R!Nowhere \in SocketRows /\ R!Nowhere.stage = "new" /\ R!Nowhere.queue = <<>>
  /\ R!Nowhere.sending = 0
BY DEF R!Nowhere, SocketRows, SocketStages, R!Nothing

LEMMA ChannelInit == R!Init => Channel
<1> SUFFICES ASSUME R!Init PROVE Channel
  OBVIOUS
<1>1. /\ up \in BOOLEAN /\ outages = (IF up THEN 0 ELSE 1)
      /\ client = [p \in Processes |-> up]
      /\ sub = [p \in Processes |-> IF up THEN "listening" ELSE "none"]
      /\ inbox = [p \in Processes |-> <<>>]
      /\ sock = [s \in Sockets |-> R!Nowhere] /\ published = 0
      /\ got = [s \in Sockets |-> <<>>] /\ doomed = [s \in Sockets |-> -1]
  BY DEF R!Init, R!NotDoomed
<1>2. ChannelTypes
  BY <1>1, NowhereRow DEF ChannelTypes
<1>3. ChannelRuns
  BY <1>1 DEF ChannelRuns, R!Calm, UpTo, Latest
<1>4. CapKept
  <2>1. \A p \in Processes : R!Registered(p) = {}
    BY <1>1, NowhereRow DEF R!Registered
  <2> QED
    BY <2>1, FS_EmptySet, ChannelCounts, ChannelAssumption DEF CapKept, R!CapKept
<1>5. \A s \in Sockets : Served(s)
  BY <1>1, NowhereRow DEF Served, Placed, InStep, Cut, UpTo, Events
<1> QED
  BY <1>2, <1>3, <1>4, <1>5 DEF Channel

LEMMA ChannelImplies == Channel => CapKept /\ NewestReached /\ RevokedHearNothing
<1> SUFFICES ASSUME Channel PROVE NewestReached /\ RevokedHearNothing
  BY DEF Channel
<1>1. RevokedHearNothing
  <2> SUFFICES ASSUME R!Calm, NEW s \in Sockets, doomed[s] # -1, NEW i \in DOMAIN got[s]
               PROVE  got[s][i] <= doomed[s]
    BY DEF RevokedHearNothing, R!RevokedHearNothing, R!NotDoomed
  <2>1. UpTo(got[s], doomed[s]) /\ got[s] \in Seq(Nat)
    BY DEF Channel, Served, Cut, ChannelTypes
  <2> QED
    BY <2>1 DEF UpTo
<1>2. NewestReached
  <2> SUFFICES ASSUME R!Calm, NEW s \in Sockets, sock[s].stage = "open",
                      \A i \in DOMAIN R!Ahead(s) : R!Ahead(s)[i] # 0
               PROVE  /\ \A i \in DOMAIN R!Ahead(s) :
                           R!Ahead(s)[i] = published - Len(R!Ahead(s)) + i
                      /\ \A i \in DOMAIN R!Behind(s) :
                           /\ R!Behind(s)[i] <= published - Len(R!Ahead(s))
                           /\ i > 1 => R!Behind(s)[i] > R!Behind(s)[i - 1]
                      /\ Len(R!Ahead(s)) = 0 /\ published > sock[s].since =>
                           R!Behind(s) # <<>> /\ R!Behind(s)[Len(R!Behind(s))] = published
    BY DEF NewestReached, R!NewestReached, R!Revocation
  <2> DEFINE q == sock[s].queue
             b == Unread(s)
             g == got[s]
             x == sock[s].sending
             n == Before(s)
  <2>1. /\ q \in Seq(Nat) /\ g \in Seq(Nat) /\ x \in Nat /\ published \in Nat
        /\ sock[s].at \in Processes /\ b \in Seq(Nat) /\ sock[s].since \in Nat
    BY DEF Channel, ChannelTypes, Served, Placed, SocketRows, Unread
  <2>2. R!Ahead(s) = q \o b /\ R!Behind(s) = g \o (IF x = 0 THEN <<>> ELSE <<x>>)
    BY DEF R!Ahead, R!Behind, R!Nothing, Unread
  <2>3. Latest(b)
    BY <2>1 DEF Channel, ChannelRuns, Unread
  <2>n. n = published - Len(q) - Len(b) /\ n \in Int
    BY <2>1 DEF Before
  <2> HIDE DEF q, b, g, x, n
  <2>4. /\ Len(q \o b) = Len(q) + Len(b) /\ DOMAIN (q \o b) = 1..(Len(q) + Len(b))
        /\ \A i \in 1..Len(q) : (q \o b)[i] = q[i]
        /\ \A i \in 1..Len(b) : (q \o b)[Len(q) + i] = b[i]
        /\ Len(q) \in Nat /\ Len(b) \in Nat
    BY <2>1
  <2>5. Events(b)
    <3> SUFFICES ASSUME NEW i \in 1..Len(b) PROVE b[i] # 0
      BY DEF Events
    <3>1. Len(q) + i \in 1..(Len(q) + Len(b))
      BY <2>4
    <3> QED
      BY <2>2, <2>4, <3>1
  <2>6. OnTheWay(s)
    BY <2>5 DEF Channel, Served, InStep, b
  <2>7. /\ \A i \in 1..Len(q) : q[i] = n + i
        /\ \A i \in 1..Len(g) : g[i] <= n /\ (x # 0 => g[i] < x)
        /\ \A i \in 2..Len(g) : g[i] > g[i - 1]
        /\ x <= n
        /\ Len(q) = 0 /\ Len(b) = 0 /\ published > sock[s].since =>
             IF x # 0 THEN x = published ELSE g # <<>> /\ g[Len(g)] = published
    BY <2>6 DEF OnTheWay, q, b, g, x, n
  <2>8. \A j \in 1..Len(b) : b[j] = published - Len(b) + j
    BY <2>3, <2>4, <2>5 DEF Latest, Events
  <2>9. ASSUME NEW i \in 1..(Len(q) + Len(b))
        PROVE  (q \o b)[i] = published - Len(q \o b) + i
    <3>1. CASE i \in 1..Len(q)
      BY <2>1, <2>4, <2>7, <2>n, <3>1
    <3>2. CASE i \notin 1..Len(q)
      <4>1. i - Len(q) \in 1..Len(b) /\ Len(q) + (i - Len(q)) = i
        BY <2>4, <3>2
      <4>2. (q \o b)[i] = b[i - Len(q)]
        BY <2>4, <4>1
      <4>3. b[i - Len(q)] = published - Len(b) + (i - Len(q))
        BY <2>8, <4>1
      <4> QED
        BY <2>1, <2>4, <4>2, <4>3
    <3> QED
      BY <3>1, <3>2
  <2>12. /\ \A i \in DOMAIN R!Ahead(s) : R!Ahead(s)[i] = published - Len(R!Ahead(s)) + i
         /\ n = published - Len(R!Ahead(s))
         /\ Len(R!Ahead(s)) = 0 => Len(q) = 0 /\ Len(b) = 0
    <3>1. published - (Len(q) + Len(b)) = n
      BY <2>1, <2>4, <2>n
    <3>2. Len(q) + Len(b) = 0 => Len(q) = 0 /\ Len(b) = 0
      BY <2>4
    <3> QED
      BY <2>2, <2>4, <2>9, <3>1, <3>2
  <2> DEFINE h == g \o (IF x = 0 THEN <<>> ELSE <<x>>)
  <2>10. CASE x = 0
    <3>1. h = g
      BY <2>1, <2>10
    <3>2. DOMAIN g = 1..Len(g) /\ Len(g) \in Nat /\ \A i \in 1..Len(g) : g[i] \in Nat
      BY <2>1
    <3>3. \A i \in 1..Len(g) : g[i] <= n /\ (i > 1 => g[i] > g[i - 1])
      BY <2>7, <3>2
    <3>4. R!Behind(s) = g
      BY <2>2, <3>1
    <3>5. Len(q) = 0 /\ Len(b) = 0 /\ published > sock[s].since => g # <<>> /\ g[Len(g)] = published
      BY <2>7, <2>10
    <3> QED
      BY <2>12, <3>2, <3>3, <3>4, <3>5
  <2>11. CASE x # 0
    <3>1. /\ h \in Seq(Nat) /\ Len(h) = Len(g) + 1 /\ Len(g) \in Nat /\ h[Len(g) + 1] = x
          /\ \A i \in 1..Len(g) : h[i] = g[i]
      BY <2>1, <2>11
    <3> HIDE DEF h
    <3>2. DOMAIN h = 1..(Len(g) + 1) /\ \A i \in 1..Len(g) : g[i] \in Nat
      BY <2>1, <3>1
    <3>3. ASSUME NEW i \in 1..(Len(g) + 1) PROVE h[i] <= n /\ (i > 1 => h[i] > h[i - 1])
      <4>1. CASE i \in 1..Len(g)
        <5>1. i > 1 => i - 1 \in 1..Len(g) /\ i \in 2..Len(g)
          BY <3>1, <4>1
        <5> QED
          BY <2>7, <3>1, <4>1, <5>1
      <4>2. CASE i = Len(g) + 1
        <5>1. i > 1 => i - 1 \in 1..Len(g) /\ i - 1 = Len(g)
          BY <3>1, <4>2
        <5> QED
          BY <2>1, <2>7, <2>11, <3>1, <4>2, <5>1
      <4> QED
        BY <4>1, <4>2, <3>1
    <3>4. Len(q) = 0 /\ Len(b) = 0 /\ published > sock[s].since => x = published
      BY <2>7, <2>11
    <3>5. h # <<>> /\ h[Len(h)] = x
      BY <3>1
    <3>6. R!Behind(s) = h
      BY <2>2 DEF h
    <3> QED
      BY <2>12, <3>2, <3>3, <3>4, <3>5, <3>6
  <2> QED
    BY <2>10, <2>11
<1> QED
  BY <1>1, <1>2

LEMMA ChannelNow ==
  ASSUME Channel, NEW s \in Sockets
  PROVE  /\ sock[s] \in SocketRows /\ sock[s].stage \in SocketStages
         /\ sock[s].queue \in Seq(Nat) /\ sock[s].sending \in Nat /\ sock[s].since \in Nat
         /\ got[s] \in Seq(Nat) /\ doomed[s] \in Nat \cup {-1} /\ published \in Nat
         /\ sock[s].stage # "new" => sock[s].at \in Processes /\ Unread(s) \in Seq(Nat)
         /\ Served(s)
BY DEF Channel, ChannelTypes, SocketRows, Served, Placed, Unread

(* The cap stays where no socket joins a process.                          *)
LEMMA NobodyJoins ==
  ASSUME Channel, \A p \in Processes : R!Registered(p)' \subseteq R!Registered(p)
  PROVE  CapKept'
<1> SUFFICES ASSUME NEW p \in Processes PROVE Cardinality(R!Registered(p)') <= Cap
  BY ChannelCounts DEF CapKept, R!CapKept
<1>1. IsFiniteSet(R!Registered(p))
  BY ChannelAssumption, FS_Subset DEF R!Registered
<1>2. Cardinality(R!Registered(p)) <= Cap
  BY ChannelCounts DEF Channel, CapKept, R!CapKept
<1>3. /\ Cardinality(R!Registered(p)') <= Cardinality(R!Registered(p))
      /\ Cardinality(R!Registered(p)') \in Nat /\ Cardinality(R!Registered(p)) \in Nat
  BY <1>1, FS_Subset, FS_CardinalityType
<1> QED
  BY <1>2, <1>3, ChannelAssumption

(* One socket changes.                                                     *)
LEMMA OneSocket ==
  ASSUME NEW s \in Sockets, NEW w \in SocketRows, NEW g \in Seq(Nat), Channel,
         sock' = [sock EXCEPT ![s] = w], got' = [got EXCEPT ![s] = g],
         UNCHANGED <<up, client, sub, inbox, published, outages, doomed>>,
         Served(s)',
         \/ CapKept'
         \/ w.stage \in {"open", "closed"} =>
              sock[s].stage \in {"open", "closed"} /\ w.at = sock[s].at
  PROVE  Channel'
<1>1. /\ sock' \in [Sockets -> SocketRows] /\ got' \in [Sockets -> Seq(Nat)]
      /\ \A r \in Sockets \ {s} : sock'[r] = sock[r] /\ got'[r] = got[r]
      /\ sock'[s] = w
  BY DEF Channel, ChannelTypes
<1>2. ChannelTypes' /\ ChannelRuns'
  BY <1>1 DEF Channel, ChannelTypes, ChannelRuns, UpTo, Latest, R!Calm
<1>3. \A r \in Sockets \ {s} : Served(r)'
  BY <1>1 DEF Channel, Served, Placed, InStep, OnTheWay, Cut, Unread, Before, UpTo, Events, R!Calm
<1>4. CapKept'
  <2>1. CASE w.stage \in {"open", "closed"} =>
               sock[s].stage \in {"open", "closed"} /\ w.at = sock[s].at
    <3>1. \A p \in Processes : R!Registered(p)' \subseteq R!Registered(p)
      BY <1>1, <2>1 DEF R!Registered
    <3> QED
      BY <3>1, NobodyJoins
  <2> QED
    BY <2>1
<1> QED
  BY <1>2, <1>3, <1>4 DEF Channel

LEMMA GotUnchanged == Channel => \A s \in Sockets : got = [got EXCEPT ![s] = got[s]]
BY DEF Channel, ChannelTypes

LEMMA HandshakeServes ==
  ASSUME NEW s \in Sockets, NEW p \in Processes, Channel, R!Handshake(s, p) PROVE Channel'
<1> PICK w : w = [[sock[s] EXCEPT !.stage = "accepted"] EXCEPT !.at = p]
  OBVIOUS
<1>1. /\ sock[s].stage = "new" /\ sock' = [sock EXCEPT ![s] = w]
      /\ UNCHANGED <<up, client, sub, inbox, published, outages, got, doomed>>
  BY DEF R!Handshake, Channel, ChannelTypes
<1>2. /\ w \in SocketRows /\ w.stage = "accepted" /\ w.at = p
      /\ w.queue = <<>> /\ w.sending = 0
      /\ got[s] = <<>> /\ doomed[s] = -1
  BY <1>1, ChannelNow DEF SocketRows, SocketStages, Served, Placed
<1>3. sock'[s] = w
  BY <1>1 DEF Channel, ChannelTypes
<1>4. Served(s)'
  BY <1>1, <1>2, <1>3, ChannelNow DEF Served, Placed, InStep, Cut, UpTo, Events
<1> QED
  BY <1>1, <1>2, <1>4, ChannelNow, GotUnchanged, OneSocket

LEMMA RegisterServes ==
  ASSUME NEW s \in Sockets, Channel, R!Register(s) PROVE Channel'
<1> DEFINE p == sock[s].at
<1> PICK w : w = [[sock[s] EXCEPT !.stage = IF R!Room(p) THEN "open" ELSE "gone"]
                     EXCEPT !.since = published]
  OBVIOUS
<1>1. /\ sock[s].stage = "accepted" /\ sock' = [sock EXCEPT ![s] = w]
      /\ UNCHANGED <<up, client, sub, inbox, published, outages, got, doomed>>
  BY DEF R!Register, Channel, ChannelTypes
<1>2. /\ w \in SocketRows /\ w.stage = (IF R!Room(p) THEN "open" ELSE "gone") /\ w.at = p
      /\ w.queue = <<>> /\ w.sending = 0 /\ w.since = published
      /\ got[s] = <<>> /\ doomed[s] = -1 /\ p \in Processes /\ published \in Nat
      /\ inbox[p] \in Seq(Nat)
  BY <1>1, ChannelNow DEF SocketRows, SocketStages, Served, Placed, Unread
<1>3. sock'[s] = w
  BY <1>1 DEF Channel, ChannelTypes
<1>4. Placed(s)' /\ Cut(s)'
  BY <1>1, <1>2, <1>3 DEF Placed, Cut, UpTo, Events
<1>5. ASSUME R!Calm, Events(inbox[p]) PROVE 0 <= published - Len(inbox[p])
  <2>1. CASE Len(inbox[p]) = 0
    BY <1>2, <2>1
  <2>2. CASE Len(inbox[p]) # 0
    <3>1. 1 \in 1..Len(inbox[p]) /\ inbox[p][1] \in Nat /\ Len(inbox[p]) \in Nat
      BY <1>2, <2>2
    <3>2. inbox[p][1] # 0 /\ inbox[p][1] = published - Len(inbox[p]) + 1
      BY <1>2, <1>5, <3>1 DEF Channel, ChannelRuns, Latest, Events
    <3> QED
      BY <1>2, <3>1, <3>2
  <2> QED
    BY <2>1, <2>2
<1>6. ASSUME R!Calm PROVE InStep(s)'
  BY <1>1, <1>2, <1>3, <1>5, <1>6 DEF InStep, OnTheWay, Before, Unread, Events
<1>7. Served(s)'
  BY <1>1, <1>4, <1>6 DEF Served, R!Calm
<1>8. ASSUME R!Room(p) PROVE CapKept'
  <2> SUFFICES ASSUME NEW q \in Processes PROVE Cardinality(R!Registered(q)') <= Cap
    BY ChannelCounts DEF CapKept, R!CapKept
  <2>1. IsFiniteSet(R!Registered(q))
    BY ChannelAssumption, FS_Subset DEF R!Registered
  <2>2. Cardinality(R!Registered(q)) <= Cap
    BY ChannelCounts DEF Channel, CapKept, R!CapKept
  <2>3. \A r \in Sockets \ {s} : sock'[r] = sock[r]
    BY <1>1 DEF Channel, ChannelTypes
  <2>4. CASE q # p
    <3>1. R!Registered(q)' = R!Registered(q)
      BY <1>1, <1>2, <1>3, <2>3, <2>4 DEF R!Registered
    <3> QED
      BY <2>2, <3>1
  <2>5. CASE q = p
    <3>1. R!Registered(q)' = R!Registered(q) \cup {s} /\ s \notin R!Registered(q)
      BY <1>1, <1>2, <1>3, <1>8, <2>3, <2>5 DEF R!Registered
    <3>2. /\ Cardinality(R!Registered(q) \cup {s}) = Cardinality(R!Registered(q)) + 1
          /\ Cardinality(R!Registered(q)) \in Nat
      BY <2>1, <3>1, FS_AddElement, FS_CardinalityType
    <3>3. Cardinality(R!Registered(q)) < Cap
      BY <1>8, <2>5, ChannelCounts DEF R!Room
    <3> QED
      BY <3>1, <3>2, <3>3, ChannelAssumption
  <2> QED
    BY <2>4, <2>5
<1>9. \/ CapKept'
      \/ w.stage \in {"open", "closed"} =>
           sock[s].stage \in {"open", "closed"} /\ w.at = sock[s].at
  BY <1>2, <1>8
<1> QED
  BY <1>1, <1>2, <1>7, <1>9, GotUnchanged, ChannelNow, OneSocket

LEMMA TakeServes ==
  ASSUME NEW s \in Sockets, Channel, R!Take(s) PROVE Channel'
<1> DEFINE q == sock[s].queue
           t == Tail(q)
           x == Head(q)
           b == Unread(s)
           g == got[s]
<1> PICK w : w = [[sock[s] EXCEPT !.sending = x] EXCEPT !.queue = t]
  OBVIOUS
<1>1. /\ sock[s].stage = "open" /\ sock[s].sending = 0 /\ q # <<>>
      /\ sock' = [sock EXCEPT ![s] = w]
      /\ UNCHANGED <<up, client, sub, inbox, published, outages, got, doomed>>
  BY DEF R!Take, R!Nothing, Channel, ChannelTypes
<1>2. /\ q \in Seq(Nat) /\ g \in Seq(Nat) /\ published \in Nat /\ b \in Seq(Nat)
      /\ sock[s] \in SocketRows /\ Placed(s)
  BY <1>1, ChannelNow DEF Served
<1>3. /\ t \in Seq(Nat) /\ Len(t) = Len(q) - 1 /\ Len(q) \in Nat /\ Len(q) >= 1
      /\ \A i \in 1..Len(t) : i + 1 \in 1..Len(q) /\ t[i] = q[i + 1]
      /\ x = q[1] /\ x \in Nat /\ 1 \in 1..Len(q)
  BY <1>1, <1>2
<1>4. /\ w \in SocketRows /\ w.stage = "open" /\ w.at = sock[s].at /\ w.queue = t
      /\ w.sending = x /\ w.since = sock[s].since
  BY <1>1, <1>2, <1>3 DEF SocketRows
<1>5. sock'[s] = w /\ Unread(s)' = b
  BY <1>1, <1>4 DEF Channel, ChannelTypes, Unread
<1>6. x # 0 /\ x <= published
  BY <1>2, <1>3 DEF Placed, Events, UpTo
<1>7. Placed(s)'
  BY <1>1, <1>2, <1>3, <1>4, <1>5, <1>6 DEF Placed, Events, UpTo
<1>8. ASSUME R!Calm PROVE Cut(s)'
  <2>1. Cut(s)
    BY <1>8, ChannelNow DEF Served
  <2> QED
    BY <1>1, <1>3, <1>4, <1>5, <2>1 DEF Cut, UpTo
<1>9. ASSUME R!Calm, Events(b) PROVE OnTheWay(s)'
  <2>1. OnTheWay(s)
    BY <1>1, <1>9, ChannelNow DEF Served, InStep
  <2> DEFINE n == Before(s)
  <2>2. /\ \A i \in 1..Len(q) : q[i] = n + i
        /\ \A i \in 1..Len(g) : g[i] <= n
        /\ \A i \in 2..Len(g) : g[i] > g[i - 1]
    BY <2>1 DEF OnTheWay
  <2>3. n = published - Len(q) - Len(b) /\ n \in Int /\ Len(b) \in Nat
    BY <1>2 DEF Before
  <2>4. Before(s)' = n + 1
    <3>1. Before(s)' = published - Len(t) - Len(b)
      BY <1>1, <1>4, <1>5 DEF Before
    <3> HIDE DEF n
    <3> QED
      BY <1>2, <1>3, <2>3, <3>1
  <2> HIDE DEF n
  <2>5. x = n + 1
    BY <1>3, <2>2
  <2>6. \A i \in 1..Len(t) : t[i] = (n + 1) + i
    BY <1>3, <2>2, <2>3
  <2>7. \A i \in 1..Len(g) : g[i] <= n + 1 /\ g[i] < x
    <3>1. \A i \in 1..Len(g) : g[i] \in Nat
      BY <1>2
    <3> QED
      BY <2>2, <2>3, <2>5, <3>1
  <2>8. Len(t) = 0 /\ Len(b) = 0 => x = published
    <3> HIDE DEF t, x, g, b, q
    <3>1. Len(t) = Len(q) - 1 /\ Len(q) \in Nat /\ published \in Nat
      BY <1>2, <1>3
    <3>2. n = published - Len(q) - Len(b)
      BY <2>3
    <3>3. PICK lq, lt, lb : lq = Len(q) /\ lt = Len(t) /\ lb = Len(b)
      OBVIOUS
    <3>4. /\ lq \in Nat /\ lt = lq - 1 /\ published \in Nat
          /\ x = (published - lq - lb) + 1
      BY <2>5, <3>1, <3>2, <3>3
    <3>5. lt = 0 /\ lb = 0 => x = published
      BY <3>4
    <3> QED
      BY <3>3, <3>5
  <2>9. x <= n + 1
    BY <2>3, <2>5
  <2>10. sock'[s].queue = t /\ sock'[s].sending = x /\ got'[s] = g /\ published' = published
    BY <1>1, <1>4, <1>5
  <2> HIDE DEF t, x, g, b, q
  <2> QED
    BY <1>5, <1>6, <2>2, <2>4, <2>6, <2>7, <2>8, <2>9, <2>10 DEF OnTheWay
<1>10. Served(s)'
  BY <1>1, <1>5, <1>7, <1>8, <1>9 DEF Served, InStep, R!Calm
<1> QED
  BY <1>1, <1>2, <1>4, <1>10, GotUnchanged, OneSocket

LEMMA SentServes ==
  ASSUME NEW s \in Sockets, Channel, R!Sent(s) PROVE Channel'
<1> DEFINE x == sock[s].sending
           g == got[s]
           h == Append(g, x)
           b == Unread(s)
           n == Before(s)
<1> PICK w : w = [sock[s] EXCEPT !.sending = 0]
  OBVIOUS
<1>1. /\ x # 0 /\ sock' = [sock EXCEPT ![s] = w] /\ got' = [got EXCEPT ![s] = h]
      /\ UNCHANGED <<up, client, sub, inbox, published, outages, doomed>>
  BY DEF R!Sent, R!Nothing, Channel, ChannelTypes
<1>2. /\ g \in Seq(Nat) /\ published \in Nat /\ x \in Nat
      /\ sock[s] \in SocketRows /\ Placed(s) /\ doomed[s] \in Nat \cup {-1}
  BY ChannelNow DEF Served
<1>3. /\ h \in Seq(Nat) /\ Len(h) = Len(g) + 1 /\ Len(g) \in Nat
      /\ \A i \in 1..Len(g) : h[i] = g[i] /\ g[i] \in Nat
      /\ h[Len(g) + 1] = x
  BY <1>2
<1>4. /\ w \in SocketRows /\ w.stage = sock[s].stage /\ w.at = sock[s].at
      /\ w.queue = sock[s].queue /\ w.sending = 0 /\ w.since = sock[s].since
  BY <1>2 DEF SocketRows
<1>5. sock'[s] = w /\ got'[s] = h /\ Unread(s)' = b
  BY <1>1, <1>4 DEF Channel, ChannelTypes, Unread
<1>6. sock[s].stage \notin {"new", "accepted", "gone"}
  BY <1>1, <1>2 DEF Placed
<1> HIDE DEF h
<1>7. ASSUME NEW d, UpTo(g, d), x <= d PROVE UpTo(h, d)
  <2> SUFFICES ASSUME NEW i \in 1..Len(h) PROVE h[i] <= d
    BY DEF UpTo
  <2>1. i \in 1..Len(g) \/ i = Len(g) + 1
    BY <1>3
  <2> QED
    BY <1>3, <1>7, <2>1 DEF UpTo
<1>8. Placed(s)'
  BY <1>1, <1>2, <1>4, <1>5, <1>6, <1>7 DEF Placed
<1>9. ASSUME R!Calm PROVE Cut(s)'
  <2>1. Cut(s)
    BY <1>9, ChannelNow DEF Served
  <2>2. doomed[s] # -1 => 0 <= doomed[s]
    BY <1>2
  <2> QED
    BY <1>1, <1>4, <1>5, <1>7, <2>1, <2>2 DEF Cut
<1>10. ASSUME R!Calm, sock[s].stage = "open", Events(b) PROVE OnTheWay(s)'
  <2>1. OnTheWay(s)
    BY <1>10, ChannelNow DEF Served, InStep
  <2>2. /\ \A i \in 1..Len(sock[s].queue) : sock[s].queue[i] = n + i
        /\ \A i \in 1..Len(g) : g[i] <= n /\ g[i] < x
        /\ \A i \in 2..Len(g) : g[i] > g[i - 1]
        /\ x <= n
        /\ Len(sock[s].queue) = 0 /\ Len(b) = 0 /\ published > sock[s].since => x = published
    BY <1>1, <2>1 DEF OnTheWay
  <2>3. Before(s)' = n
    BY <1>1, <1>4, <1>5 DEF Before
  <2>4. \A i \in 1..Len(h) : h[i] <= n
    <3>1. UpTo(g, n)
      BY <2>2 DEF UpTo
    <3>2. UpTo(h, n)
      BY <1>7, <2>2, <3>1
    <3> QED
      BY <3>2 DEF UpTo
  <2>5. \A i \in 2..Len(h) : h[i] > h[i - 1]
    <3> SUFFICES ASSUME NEW i \in 2..Len(h) PROVE h[i] > h[i - 1]
      OBVIOUS
    <3>1. i - 1 \in 1..Len(g) /\ (i \in 2..Len(g) \/ i = Len(g) + 1)
      BY <1>3
    <3>2. CASE i \in 2..Len(g)
      <4>1. i \in 1..Len(g) /\ i - 1 \in 1..Len(g)
        BY <1>3, <3>1, <3>2
      <4>2. h[i] = g[i] /\ h[i - 1] = g[i - 1]
        BY <1>3, <4>1
      <4> QED
        BY <2>2, <3>2, <4>2
    <3>3. CASE i = Len(g) + 1
      <4>1. h[i] = x /\ h[i - 1] = g[i - 1] /\ g[i - 1] < x /\ g[i - 1] \in Nat
        BY <1>3, <2>2, <3>1, <3>3
      <4> QED
        BY <1>2, <4>1
    <3> QED
      BY <3>1, <3>2, <3>3
  <2>6. h # <<>> /\ h[Len(h)] = x
    BY <1>3
  <2>7. 0 <= n
    <3>1. n \in Int
      BY <1>2, <1>6, ChannelNow DEF Before
    <3> HIDE DEF n
    <3> QED
      BY <1>2, <2>2, <3>1
  <2> HIDE DEF n, g, x, b
  <2> QED
    BY <1>1, <1>4, <1>5, <2>2, <2>3, <2>4, <2>5, <2>6, <2>7 DEF OnTheWay
<1>11. Served(s)'
  BY <1>1, <1>4, <1>5, <1>8, <1>9, <1>10 DEF Served, InStep, R!Calm
<1> QED
  BY <1>1, <1>3, <1>4, <1>11, OneSocket

(* A socket that gives up: closed, or gone.                                *)
LEMMA LeavingServes ==
  ASSUME NEW s \in Sockets, Channel, R!EvictExpired(s) \/ R!SendFails(s) \/ R!Disconnect(s)
  PROVE  Channel'
<1> DEFINE w == sock'[s]
<1>1. /\ sock' = [sock EXCEPT ![s] = w]
      /\ UNCHANGED <<up, client, sub, inbox, published, outages, got, doomed>>
  BY DEF R!EvictExpired, R!SendFails, R!Disconnect, Channel, ChannelTypes
<1>2. /\ sock[s] \in SocketRows /\ Placed(s) /\ doomed[s] \in Nat \cup {-1} /\ published \in Nat
      /\ sock[s].stage # "new" => sock[s].at \in Processes
      /\ sock \in [Sockets -> SocketRows]
  BY ChannelNow DEF Served, Channel, ChannelTypes
<1>3. /\ w \in SocketRows /\ w.at = sock[s].at /\ sock[s].stage # "new"
      /\ \/ /\ w.stage = "closed" /\ sock[s].stage \in {"open", "closed"}
            /\ w.queue = sock[s].queue /\ w.sending \in {0, sock[s].sending}
         \/ w.stage = "gone" /\ w.queue = <<>> /\ w.sending = 0
  <2>1. CASE R!EvictExpired(s)
    BY <1>2, <2>1 DEF R!EvictExpired, SocketRows, SocketStages
  <2>2. CASE R!SendFails(s)
    <3>1. sock[s].stage \in {"open", "closed"}
      BY <1>2, <2>2 DEF R!SendFails, R!Nothing, Placed, SocketRows, SocketStages
    <3>2. w = [[sock[s] EXCEPT !.stage = "closed"] EXCEPT !.sending = 0]
      BY <1>2, <2>2 DEF R!SendFails, R!Nothing
    <3>3. PICK v : v = [sock[s] EXCEPT !.stage = "closed"]
      OBVIOUS
    <3>4. v \in SocketRows /\ v.stage = "closed" /\ v.at = sock[s].at /\ v.queue = sock[s].queue
      BY <1>2, <3>3 DEF SocketRows, SocketStages
    <3>5. w = [v EXCEPT !.sending = 0]
      BY <3>2, <3>3
    <3>6. w \in SocketRows /\ w.stage = "closed" /\ w.at = v.at /\ w.queue = v.queue
          /\ w.sending = 0
      <4> HIDE DEF w
      <4> QED
        BY <3>4, <3>5 DEF SocketRows
    <3>7. sock[s].stage # "new"
      BY <3>1
    <3> QED
      BY <3>1, <3>4, <3>6, <3>7
  <2>3. CASE R!Disconnect(s)
    <3>1. /\ w = [[R!Nowhere EXCEPT !.stage = "gone"] EXCEPT !.at = sock[s].at]
          /\ sock[s].stage # "new"
      BY <1>2, <2>3 DEF R!Disconnect
    <3> QED
      BY <1>2, <3>1, NowhereRow DEF SocketRows, SocketStages
  <2> QED
    BY <2>1, <2>2, <2>3
<1>4. Unread(s)' = Unread(s)
  BY <1>1, <1>3 DEF Unread
<1> HIDE DEF w
<1>5. Placed(s)'
  BY <1>1, <1>2, <1>3 DEF Placed, Events, UpTo, w
<1>6. ASSUME R!Calm PROVE InStep(s)' /\ Cut(s)'
  <2>1. Cut(s)
    BY <1>6, ChannelNow DEF Served
  <2>2. doomed[s] # -1 => 0 <= doomed[s]
    BY <1>2
  <2>3. Cut(s)'
    BY <1>1, <1>3, <1>4, <2>1, <2>2 DEF Cut, UpTo, w
  <2> QED
    BY <1>3, <2>3 DEF InStep, w
<1>7. Served(s)'
  BY <1>1, <1>5, <1>6 DEF Served, R!Calm
<1>8. got[s] \in Seq(Nat)
  BY ChannelNow
<1> QED
  BY <1>1, <1>3, <1>7, <1>8, GotUnchanged, OneSocket

(* An event or a revocation is put into the channel.                       *)
Pass(e) ==
  /\ inbox' = [q \in Processes |->
       IF sub[q] = "listening" THEN Append(inbox[q], e) ELSE inbox[q]]
  /\ UNCHANGED <<up, sub, sock, got, outages>>
  /\ \/ e = 0 /\ published' = published
     \/ e = published + 1 /\ published' = published + 1

LEMMA PassedOn ==
  ASSUME Channel, NEW e, Pass(e)
  PROVE  /\ inbox' \in [Processes -> Seq(Nat)] /\ published' \in Nat /\ published <= published'
         /\ ChannelRuns'
         /\ e \in Nat
         /\ \A p \in Processes : inbox[p] \in Seq(Nat)
         /\ R!Calm => \A p \in Processes :
              /\ Len(inbox'[p]) = Len(inbox[p]) + 1 /\ inbox'[p][Len(inbox[p]) + 1] = e
              /\ \A i \in 1..Len(inbox[p]) : inbox'[p][i] = inbox[p][i]
<1>1. published \in Nat /\ inbox \in [Processes -> Seq(Nat)] /\ published' \in Nat
      /\ published <= published' /\ e \in Nat /\ e <= published'
  BY DEF Channel, ChannelTypes, Pass
<1>2. ASSUME NEW b \in Seq(Nat), NEW c, c = Append(b, e)
      PROVE  /\ c \in Seq(Nat) /\ Len(c) = Len(b) + 1 /\ c[Len(b) + 1] = e
             /\ Len(b) \in Nat /\ \A i \in 1..Len(b) : c[i] = b[i] /\ b[i] \in Nat
  BY <1>1, <1>2
<1>3. inbox' = [q \in Processes |->
        IF sub[q] = "listening" THEN Append(inbox[q], e) ELSE inbox[q]]
  BY DEF Pass
<1>4. inbox' \in [Processes -> Seq(Nat)]
  BY <1>1, <1>3
<1>5. ASSUME NEW p \in Processes
      PROVE  /\ inbox[p] \in Seq(Nat)
             /\ inbox'[p] = inbox[p] \/ inbox'[p] = Append(inbox[p], e)
             /\ R!Calm => inbox'[p] = Append(inbox[p], e)
  BY <1>1, <1>3 DEF Channel, ChannelRuns
<1>6. ASSUME NEW p \in Processes PROVE UpTo(inbox'[p], published')
  <2> SUFFICES ASSUME NEW i \in 1..Len(inbox'[p]) PROVE inbox'[p][i] <= published'
    BY DEF UpTo
  <2>1. \A j \in 1..Len(inbox[p]) : inbox[p][j] <= published /\ inbox[p][j] \in Nat
    BY <1>5 DEF Channel, ChannelRuns, UpTo
  <2>2. CASE inbox'[p] = inbox[p]
    BY <1>1, <2>1, <2>2
  <2>3. CASE inbox'[p] = Append(inbox[p], e)
    <3>1. i \in 1..Len(inbox[p]) \/ i = Len(inbox[p]) + 1
      BY <1>2, <1>5, <2>3
    <3>2. CASE i = Len(inbox[p]) + 1
      BY <1>1, <1>2, <1>5, <2>3, <3>2
    <3>3. CASE i \in 1..Len(inbox[p])
      <4>1. inbox'[p][i] = inbox[p][i]
        BY <1>2, <1>5, <2>3, <3>3
      <4>2. inbox[p][i] <= published /\ inbox[p][i] \in Nat
        BY <2>1, <3>3
      <4> QED
        BY <1>1, <4>1, <4>2
    <3> QED
      BY <3>1, <3>2, <3>3
  <2> QED
    BY <1>5, <2>2, <2>3
<1>7. ASSUME R!Calm, NEW p \in Processes PROVE Latest(inbox[p])'
  <2> DEFINE b == inbox[p]
             c == inbox'[p]
  <2>1. b \in Seq(Nat) /\ c = Append(b, e) /\ Latest(b)
    BY <1>5, <1>7 DEF Channel, ChannelRuns
  <2>2. Len(c) = Len(b) + 1 /\ c[Len(b) + 1] = e /\ Len(b) \in Nat
        /\ \A i \in 1..Len(b) : c[i] = b[i]
    BY <1>2, <2>1
  <2> HIDE DEF b, c
  <2> SUFFICES ASSUME NEW j \in 1..Len(c), \A k \in j..Len(c) : c[k] # 0
               PROVE  c[j] = published' - Len(c) + j
    BY DEF Latest, c
  <2>3. e # 0 /\ published' = published + 1 /\ e = published + 1
    <3>1. Len(b) + 1 \in j..Len(c)
      BY <2>2
    <3> QED
      BY <2>2, <3>1 DEF Pass
  <2>4. CASE j = Len(b) + 1
    BY <1>1, <2>2, <2>3, <2>4
  <2>5. CASE j # Len(b) + 1
    <3>1. j \in 1..Len(b)
      BY <2>2, <2>5
    <3>2. \A k \in j..Len(b) : b[k] # 0
      BY <2>2
    <3>3. b[j] = published - Len(b) + j
      BY <2>1, <3>1, <3>2 DEF Latest
    <3>4. published - Len(b) + j = (published + 1) - (Len(b) + 1) + j
      BY <1>1, <2>2
    <3> QED
      BY <2>2, <2>3, <3>1, <3>3, <3>4
  <2> QED
    BY <2>4, <2>5
<1>8. ChannelRuns'
  BY <1>6, <1>7 DEF Channel, ChannelRuns, Pass, R!Calm
<1> QED
  BY <1>1, <1>2, <1>4, <1>5, <1>8

LEMMA PassedServes ==
  ASSUME Channel, NEW e, Pass(e), NEW s \in Sockets
  PROVE  /\ doomed' = doomed => Placed(s)'
         /\ R!Calm => InStep(s)' /\ (doomed' = doomed => Cut(s)')
<1>0. /\ UNCHANGED <<up, sub, sock, got, outages>>
      /\ \/ e = 0 /\ published' = published
         \/ e = published + 1 /\ published' = published + 1
  BY DEF Pass
<1>1. /\ sock[s] \in SocketRows /\ got[s] \in Seq(Nat) /\ published \in Nat
      /\ sock[s].queue \in Seq(Nat) /\ sock[s].sending \in Nat /\ Placed(s)
      /\ sock[s].stage # "new" => sock[s].at \in Processes
  BY ChannelNow DEF Served
<1>2. published' \in Nat /\ published <= published'
  BY PassedOn
<1>c. ASSUME R!Calm, NEW p \in Processes
      PROVE  /\ Len(inbox'[p]) = Len(inbox[p]) + 1 /\ inbox'[p][Len(inbox[p]) + 1] = e
             /\ \A i \in 1..Len(inbox[p]) : inbox'[p][i] = inbox[p][i]
  BY <1>c, PassedOn
<1>3. ASSUME NEW q \in Seq(Nat), UpTo(q, published) PROVE UpTo(q, published')
  <2>1. \A i \in 1..Len(q) : q[i] \in Nat
    BY <1>3
  <2> QED
    BY <1>1, <1>2, <1>3, <2>1 DEF UpTo
<1>4. doomed' = doomed => Placed(s)'
  BY <1>0, <1>1, <1>2, <1>3 DEF Placed
<1>5. ASSUME R!Calm, sock[s].stage = "open", Events(Unread(s)') PROVE OnTheWay(s)'
  <2> DEFINE b == Unread(s)
             c == Unread(s)'
             q == sock[s].queue
  <2>1. /\ b \in Seq(Nat) /\ Len(c) = Len(b) + 1 /\ c[Len(b) + 1] = e /\ Len(b) \in Nat
        /\ \A i \in 1..Len(b) : c[i] = b[i]
    <3>1. b = inbox[sock[s].at] /\ c = inbox'[sock[s].at]
      BY <1>0 DEF Unread
    <3>2. sock[s].at \in Processes
      BY <1>1, <1>5
    <3> HIDE DEF b, c
    <3>3. b \in Seq(Nat)
      BY <3>1, <3>2, PassedOn
    <3> QED
      BY <1>c, <1>5, <3>1, <3>2, <3>3
  <2>2. e # 0 /\ Events(b)
    <3>1. Len(b) + 1 \in 1..Len(c) /\ \A i \in 1..Len(b) : i \in 1..Len(c)
      BY <2>1
    <3> QED
      BY <1>5, <2>1, <3>1 DEF Events
  <2>3. published' = published + 1 /\ OnTheWay(s)
    BY <1>0, <1>5, <2>2, ChannelNow DEF Served, InStep
  <2>4. Before(s)' = Before(s)
    <3>1. Before(s)' = published' - Len(q) - Len(c) /\ Before(s) = published - Len(q) - Len(b)
      BY <1>0 DEF Before
    <3> HIDE DEF b, c, q
    <3>2. (published + 1) - Len(q) - (Len(b) + 1) = published - Len(q) - Len(b)
      BY <1>1, <2>1 DEF q
    <3> QED
      BY <2>1, <2>3, <3>1, <3>2
  <2>5. Len(Unread(s)') # 0
    BY <2>1
  <2> HIDE DEF b, c, q
  <2> QED
    BY <1>0, <2>3, <2>4, <2>5 DEF OnTheWay
<1>6. ASSUME R!Calm, doomed' = doomed PROVE Cut(s)'
  <2> SUFFICES ASSUME doomed[s] # -1, sock[s].stage \in {"open", "closed"}
               PROVE  \E j \in 1..Len(Unread(s)') :
                        Unread(s)'[j] = 0 /\ \A i \in 1..(j - 1) : Unread(s)'[i] <= doomed[s]
    BY <1>0, <1>6, ChannelNow DEF Served, Cut
  <2> DEFINE b == Unread(s)
             c == Unread(s)'
  <2>1. /\ b \in Seq(Nat) /\ Len(c) = Len(b) + 1 /\ Len(b) \in Nat
        /\ \A i \in 1..Len(b) : c[i] = b[i]
    <3>1. b = inbox[sock[s].at] /\ c = inbox'[sock[s].at]
      BY <1>0 DEF Unread
    <3>2. sock[s].at \in Processes
      BY <1>1, <1>6
    <3> HIDE DEF b, c
    <3>3. b \in Seq(Nat)
      BY <3>1, <3>2, PassedOn
    <3> QED
      BY <1>c, <1>6, <3>1, <3>2, <3>3
  <2>2. PICK j \in 1..Len(b) : b[j] = 0 /\ \A i \in 1..(j - 1) : b[i] <= doomed[s]
    BY <1>6, ChannelNow DEF Served, Cut
  <2>3. j \in 1..Len(c) /\ \A i \in 1..(j - 1) : i \in 1..Len(b)
    BY <2>1
  <2> QED
    BY <2>1, <2>2, <2>3
<1> QED
  BY <1>0, <1>4, <1>5, <1>6 DEF InStep

(* A full queue drops its oldest event, and none otherwise.                *)
LEMMA NewestIsQueued ==
  ASSUME NEW q \in Seq(Nat), NEW e \in Nat, NEW r, r = R!Enqueue(q, e)
  PROVE  \E d \in {0, 1} :
           /\ r \in Seq(Nat) /\ Len(r) = Len(q) + 1 - d /\ Len(r) >= 1 /\ r[Len(r)] = e
           /\ \A i \in 1..(Len(r) - 1) : i + d \in 1..Len(q) /\ r[i] = q[i + d]
<1>1. CASE Len(q) = QueueSize
  <2> DEFINE t == Tail(q)
  <2>1. /\ t \in Seq(Nat) /\ Len(t) = Len(q) - 1 /\ Len(q) \in Nat /\ Len(q) >= 1
        /\ \A i \in 1..Len(t) : i + 1 \in 1..Len(q) /\ t[i] = q[i + 1]
    BY <1>1, ChannelAssumption
  <2>2. r = Append(t, e)
    BY <1>1 DEF R!Enqueue
  <2> HIDE DEF t
  <2>3. /\ r \in Seq(Nat) /\ Len(r) = Len(t) + 1 /\ r[Len(t) + 1] = e
        /\ \A i \in 1..Len(t) : r[i] = t[i]
    BY <2>1, <2>2
  <2>4. Len(r) = Len(q) + 1 - 1 /\ Len(r) >= 1 /\ Len(r) - 1 = Len(t)
    BY <2>1, <2>3
  <2> QED
    BY <2>1, <2>3, <2>4
<1>2. CASE Len(q) # QueueSize
  <2>1. r = Append(q, e)
    BY <1>2 DEF R!Enqueue
  <2>2. /\ r \in Seq(Nat) /\ Len(r) = Len(q) + 1 /\ r[Len(q) + 1] = e /\ Len(q) \in Nat
        /\ \A i \in 1..Len(q) : r[i] = q[i]
    BY <2>1
  <2> QED
    BY <2>2
<1> QED
  BY <1>1, <1>2

(* An event is queued for the open sockets of a process.                   *)
LEMMA SentLocally ==
  ASSUME Channel, NEW p \in Processes, NEW e \in Nat \ {0}, R!SendLocal(p, e),
         published' \in Nat, published <= published', e <= published',
         UNCHANGED <<got, doomed>>
  PROVE  /\ sock' \in [Sockets -> SocketRows] /\ CapKept'
         /\ \A s \in Sockets :
              /\ Placed(s)'
              /\ sock'[s].stage = sock[s].stage /\ sock'[s].at = sock[s].at
              /\ sock'[s].sending = sock[s].sending /\ sock'[s].since = sock[s].since
              /\ IF sock[s].stage = "open" /\ sock[s].at = p
                 THEN sock'[s].queue = R!Enqueue(sock[s].queue, e)
                 ELSE sock'[s] = sock[s]
<1>1. sock' = [s \in Sockets |->
        IF sock[s].stage = "open" /\ sock[s].at = p
        THEN [sock[s] EXCEPT !.queue = R!Enqueue(sock[s].queue, e)] ELSE sock[s]]
  BY DEF R!SendLocal
<1>2. ASSUME NEW s \in Sockets
      PROVE  /\ sock'[s] \in SocketRows
             /\ sock'[s].stage = sock[s].stage /\ sock'[s].at = sock[s].at
             /\ sock'[s].sending = sock[s].sending /\ sock'[s].since = sock[s].since
             /\ IF sock[s].stage = "open" /\ sock[s].at = p
                THEN sock'[s].queue = R!Enqueue(sock[s].queue, e)
                ELSE sock'[s] = sock[s]
  <2>1. sock[s] \in SocketRows /\ sock[s].queue \in Seq(Nat)
    BY ChannelNow
  <2>2. PICK r : r = R!Enqueue(sock[s].queue, e)
    OBVIOUS
  <2>3. r \in Seq(Nat)
    BY <2>1, <2>2, NewestIsQueued
  <2> QED
    BY <1>1, <2>1, <2>2, <2>3 DEF SocketRows
<1>3. sock' \in [Sockets -> SocketRows]
  <2>1. sock' = [s \in Sockets |-> sock'[s]]
    BY <1>1
  <2> QED
    BY <1>2, <2>1
<1>4. CapKept'
  <2>1. \A q \in Processes : R!Registered(q)' \subseteq R!Registered(q)
    BY <1>2 DEF R!Registered
  <2> QED
    BY <2>1, NobodyJoins
<1>5. ASSUME NEW s \in Sockets PROVE Placed(s)'
  <2>1. /\ sock[s].queue \in Seq(Nat) /\ got[s] \in Seq(Nat) /\ published \in Nat
        /\ sock[s].sending \in Nat /\ Placed(s)
    BY ChannelNow DEF Served
  <2>2. ASSUME NEW q \in Seq(Nat), UpTo(q, published) PROVE UpTo(q, published')
    <3>1. \A i \in 1..Len(q) : q[i] \in Nat
      BY <2>2
    <3> QED
      BY <2>1, <2>2, <3>1 DEF UpTo
  <2>3. UpTo(sock'[s].queue, published') /\ Events(sock'[s].queue)
    <3>1. CASE sock'[s] = sock[s]
      BY <2>1, <2>2, <3>1 DEF Placed
    <3>2. CASE sock'[s].queue = R!Enqueue(sock[s].queue, e)
      <4> DEFINE q == sock[s].queue
      <4>1. PICK r : r = sock'[s].queue
        OBVIOUS
      <4>2. UpTo(q, published') /\ Events(q) /\ q \in Seq(Nat)
        BY <2>1, <2>2 DEF Placed
      <4>5. r = R!Enqueue(q, e)
        BY <3>2, <4>1
      <4> HIDE DEF q
      <4>3. PICK d \in {0, 1} :
              /\ r \in Seq(Nat) /\ Len(r) >= 1 /\ r[Len(r)] = e
              /\ \A i \in 1..(Len(r) - 1) : i + d \in 1..Len(q) /\ r[i] = q[i + d]
        BY <4>2, <4>5, NewestIsQueued
      <4>4. \A i \in 1..Len(r) : r[i] <= published' /\ r[i] # 0
        <5> SUFFICES ASSUME NEW i \in 1..Len(r) PROVE r[i] <= published' /\ r[i] # 0
          OBVIOUS
        <5>1. CASE i = Len(r)
          BY <4>3, <5>1
        <5>2. CASE i # Len(r)
          <6>1. i \in 1..(Len(r) - 1)
            BY <4>3, <5>2
          <6> QED
            BY <4>2, <4>3, <6>1 DEF UpTo, Events
        <5> QED
          BY <5>1, <5>2
      <4> QED
        BY <4>1, <4>4 DEF UpTo, Events
    <3> QED
      BY <1>2, <3>1, <3>2
  <2>4. sock[s].stage \in {"new", "accepted"} => sock'[s] = sock[s]
    BY <1>2
  <2>5. UpTo(got[s], published') /\ sock[s].sending <= published'
    BY <2>1, <2>2 DEF Placed
  <2> QED
    BY <1>2, <2>1, <2>3, <2>4, <2>5 DEF Placed
<1> QED
  BY <1>2, <1>3, <1>4, <1>5

(* The sockets of a process are closed and forgotten.                      *)
LEMMA ClosedLocally ==
  ASSUME Channel, NEW p \in Processes, R!CloseLocal(p), UNCHANGED <<got, published>>,
         doomed' \in [Sockets -> Nat \cup {-1}],
         \A s \in Sockets : sock[s].stage \in {"new", "accepted"} => doomed'[s] = doomed[s]
  PROVE  /\ sock' \in [Sockets -> SocketRows] /\ CapKept'
         /\ \A s \in Sockets :
              /\ Placed(s)'
              /\ IF s \in R!Registered(p)
                 THEN sock'[s].stage = "gone" /\ sock'[s].queue = <<>> /\ sock'[s].sending = 0
                 ELSE sock'[s] = sock[s]
<1>1. sock' = [s \in Sockets |->
        IF s \in R!Registered(p) THEN [R!Nowhere EXCEPT !.stage = "gone", !.at = p] ELSE sock[s]]
  BY DEF R!CloseLocal
<1>2. PICK v : v = [R!Nowhere EXCEPT !.stage = "gone", !.at = p]
  OBVIOUS
<1>3. /\ v \in SocketRows /\ v.stage = "gone" /\ v.at = p /\ v.queue = <<>> /\ v.sending = 0
  <2>1. PICK u : u = [R!Nowhere EXCEPT !.stage = "gone"]
    OBVIOUS
  <2>2. u \in SocketRows /\ u.stage = "gone" /\ u.queue = <<>> /\ u.sending = 0
    BY <2>1, NowhereRow DEF SocketRows, SocketStages
  <2>3. v = [u EXCEPT !.at = p]
    BY <1>2, <2>1, NowhereRow DEF SocketRows
  <2> QED
    BY <2>2, <2>3 DEF SocketRows
<1>4. ASSUME NEW s \in Sockets
      PROVE  IF s \in R!Registered(p) THEN sock'[s] = v ELSE sock'[s] = sock[s]
  BY <1>1, <1>2
<1>5. sock' \in [Sockets -> SocketRows]
  <2>1. sock' = [s \in Sockets |-> sock'[s]]
    BY <1>1
  <2> QED
    BY <1>3, <1>4, <2>1, ChannelNow
<1>6. CapKept'
  <2>1. \A q \in Processes : R!Registered(q)' \subseteq R!Registered(q)
    BY <1>3, <1>4 DEF R!Registered
  <2> QED
    BY <2>1, NobodyJoins
<1>7. ASSUME NEW s \in Sockets PROVE Placed(s)'
  <2>1. Placed(s) /\ published \in Nat
    BY ChannelNow DEF Served
  <2>2. CASE sock'[s] = v
    BY <1>3, <2>1, <2>2 DEF Placed, UpTo, Events
  <2>3. CASE sock'[s] = sock[s]
    BY <2>1, <2>3 DEF Placed
  <2> QED
    BY <1>4, <2>2, <2>3
<1> QED
  BY <1>3, <1>4, <1>5, <1>6, <1>7

LEMMA PublishServes ==
  ASSUME NEW p \in Processes, Channel, R!Publish(p) PROVE Channel'
<1> PICK e : e = published + 1
  OBVIOUS
<1>1. /\ published' = e /\ R!Spread(p, e) /\ UNCHANGED <<up, sub, outages, got, doomed>>
  BY DEF R!Publish
<1>2. published \in Nat /\ e \in Nat \ {0} /\ published <= e
  BY DEF Channel, ChannelTypes
<1>3. client' = [client EXCEPT ![p] = client[p] \/ up] /\ client' \in [Processes -> BOOLEAN]
  BY <1>1 DEF R!Spread, Channel, ChannelTypes
<1>4. CASE up
  <2>1. Pass(e)
    BY <1>1, <1>4 DEF R!Spread, Pass
  <2>2. sock' = sock
    BY <1>1, <1>4 DEF R!Spread
  <2>3. inbox' \in [Processes -> Seq(Nat)] /\ ChannelRuns'
    BY <2>1, PassedOn
  <2>4. ChannelTypes'
    BY <1>1, <1>2, <1>3, <2>2, <2>3 DEF Channel, ChannelTypes
  <2>5. CapKept'
    BY <2>2 DEF Channel, CapKept, R!CapKept, R!Registered
  <2>6. ASSUME NEW s \in Sockets PROVE Served(s)'
    <3>1. doomed' = doomed /\ outages' = outages
      BY <1>1
    <3>2. Placed(s)' /\ (R!Calm => InStep(s)' /\ Cut(s)')
      BY <2>1, <3>1, PassedServes
    <3> QED
      BY <3>1, <3>2 DEF Served, R!Calm
  <2> QED
    BY <2>3, <2>4, <2>5, <2>6 DEF Channel
<1>5. CASE ~up
  <2>1. R!SendLocal(p, e) /\ inbox' = inbox
    BY <1>1, <1>2, <1>5 DEF R!Spread, R!Locally, R!Revocation
  <2>2. published' \in Nat /\ published <= published' /\ e <= published'
        /\ UNCHANGED <<got, doomed>>
    BY <1>1, <1>2
  <2>3. sock' \in [Sockets -> SocketRows] /\ CapKept' /\ \A s \in Sockets : Placed(s)'
    BY <1>2, <2>1, <2>2, SentLocally
  <2>4. ChannelTypes'
    BY <1>1, <1>2, <1>3, <2>1, <2>3 DEF Channel, ChannelTypes
  <2>5. ~R!Calm'
    BY <1>1, <1>5 DEF Channel, ChannelRuns, R!Calm
  <2>6. ASSUME NEW q \in Processes PROVE UpTo(inbox[q], e)
    <3>1. UpTo(inbox[q], published) /\ \A i \in 1..Len(inbox[q]) : inbox[q][i] \in Nat
      BY DEF Channel, ChannelTypes, ChannelRuns
    <3> QED
      BY <1>2, <3>1 DEF UpTo
  <2>7. ChannelRuns'
    BY <1>1, <2>1, <2>5, <2>6 DEF ChannelRuns
  <2> QED
    BY <2>3, <2>4, <2>5, <2>7 DEF Channel, Served
<1> QED
  BY <1>4, <1>5

LEMMA InvalidateServes ==
  ASSUME NEW p \in Processes, Channel, R!InvalidateUser(p) PROVE Channel'
<1>1. /\ R!Spread(p, 0) /\ UNCHANGED <<up, sub, published, outages, got>>
      /\ doomed' = [s \in Sockets |->
           IF \E q \in Processes : s \in R!Registered(q) THEN published ELSE doomed[s]]
  BY DEF R!InvalidateUser, R!Revocation
<1>2. /\ published \in Nat /\ doomed' \in [Sockets -> Nat \cup {-1}]
      /\ \A s \in Sockets : sock[s].stage \in {"new", "accepted"} => doomed'[s] = doomed[s]
  BY <1>1 DEF Channel, ChannelTypes, R!Registered
<1>3. client' = [client EXCEPT ![p] = client[p] \/ up] /\ client' \in [Processes -> BOOLEAN]
  BY <1>1 DEF R!Spread, Channel, ChannelTypes
<1>4. CASE up
  <2>0. PICK e : e = 0
    OBVIOUS
  <2>1. Pass(e)
    BY <1>1, <1>4, <2>0 DEF R!Spread, Pass
  <2>2. sock' = sock
    BY <1>1, <1>4 DEF R!Spread
  <2>3. inbox' \in [Processes -> Seq(Nat)] /\ ChannelRuns'
    BY <2>1, PassedOn
  <2>4. ChannelTypes'
    BY <1>1, <1>2, <1>3, <2>2, <2>3 DEF Channel, ChannelTypes
  <2>5. CapKept'
    BY <2>2 DEF Channel, CapKept, R!CapKept, R!Registered
  <2>6. ASSUME NEW s \in Sockets PROVE Served(s)'
    <3>1. R!Calm => InStep(s)'
      BY <2>1, PassedServes
    <3>2. Placed(s)
      BY ChannelNow DEF Served
    <3>3. Placed(s)'
      BY <1>1, <1>2, <2>2, <3>2 DEF Placed
    <3>4. ASSUME R!Calm PROVE Cut(s)'
      <4>1. CASE sock[s].stage \in {"open", "closed"}
        <5>1. sock[s].at \in Processes /\ doomed'[s] = published
          BY <1>1, <3>2, <4>1 DEF Placed, R!Registered
        <5> DEFINE b == Unread(s)
                   c == Unread(s)'
        <5>2. b = inbox[sock[s].at] /\ c = inbox'[sock[s].at]
          BY <2>2 DEF Unread
        <5>3. \A q \in Processes :
                /\ Len(inbox'[q]) = Len(inbox[q]) + 1 /\ inbox'[q][Len(inbox[q]) + 1] = e
                /\ \A i \in 1..Len(inbox[q]) : inbox'[q][i] = inbox[q][i]
          BY <2>1, <3>4, PassedOn
        <5>4. b \in Seq(Nat) /\ UpTo(b, published)
          BY <5>1, <5>2 DEF Channel, ChannelTypes, ChannelRuns
        <5>5. /\ Len(c) = Len(b) + 1 /\ c[Len(b) + 1] = 0
              /\ \A i \in 1..Len(b) : c[i] = b[i]
          BY <2>0, <5>1, <5>2, <5>3
        <5> HIDE DEF b, c
        <5>6. /\ Len(b) + 1 \in 1..Len(c) /\ c[Len(b) + 1] = 0
              /\ \A i \in 1..((Len(b) + 1) - 1) : c[i] <= published
          BY <5>4, <5>5 DEF UpTo
        <5>7. \E j \in 1..Len(c) : c[j] = 0 /\ \A i \in 1..(j - 1) : c[i] <= published
          BY <5>6
        <5> QED
          BY <1>1, <2>2, <3>2, <5>1, <5>7 DEF Cut, Placed, c
      <4>2. CASE sock[s].stage \notin {"open", "closed"}
        <5>1. doomed'[s] = doomed[s] /\ Cut(s)
          BY <1>1, <3>4, <4>2, ChannelNow DEF R!Registered, Served
        <5> QED
          BY <1>1, <2>2, <4>2, <5>1 DEF Cut
      <4> QED
        BY <4>1, <4>2
    <3> QED
      BY <1>1, <3>1, <3>3, <3>4 DEF Served, R!Calm
  <2> QED
    BY <2>3, <2>4, <2>5, <2>6 DEF Channel
<1>5. CASE ~up
  <2>1. R!CloseLocal(p) /\ inbox' = inbox
    BY <1>1, <1>5 DEF R!Spread, R!Locally, R!Revocation
  <2>2. UNCHANGED <<got, published>>
    BY <1>1
  <2>3. sock' \in [Sockets -> SocketRows] /\ CapKept' /\ \A s \in Sockets : Placed(s)'
    BY <1>2, <2>1, <2>2, ClosedLocally
  <2>4. ChannelTypes'
    BY <1>1, <1>2, <1>3, <2>1, <2>3 DEF Channel, ChannelTypes
  <2>5. ~R!Calm'
    BY <1>1, <1>5 DEF Channel, ChannelRuns, R!Calm
  <2>6. ChannelRuns'
    BY <1>1, <2>1, <2>5 DEF Channel, ChannelRuns
  <2> QED
    BY <2>3, <2>4, <2>5, <2>6 DEF Channel, Served
<1> QED
  BY <1>4, <1>5

(* What a subscription has handed over is no longer in its channel.        *)
LEMMA HandedOver ==
  ASSUME Channel, NEW p \in Processes, inbox[p] # <<>>,
         inbox' = [inbox EXCEPT ![p] = Tail(inbox[p])],
         UNCHANGED <<up, client, sub, published, outages>>
  PROVE  /\ inbox' \in [Processes -> Seq(Nat)] /\ ChannelRuns'
         /\ Head(inbox[p]) = inbox[p][1] /\ inbox[p][1] \in Nat /\ inbox[p][1] <= published
         /\ inbox[p] \in Seq(Nat) /\ Len(inbox'[p]) = Len(inbox[p]) - 1 /\ Len(inbox[p]) >= 1
         /\ \A i \in 1..Len(inbox'[p]) :
              i + 1 \in 1..Len(inbox[p]) /\ inbox'[p][i] = inbox[p][i + 1]
         /\ \A q \in Processes \ {p} : inbox'[q] = inbox[q]
<1> DEFINE b == inbox[p]
           c == inbox'[p]
<1>1. b \in Seq(Nat) /\ published \in Nat /\ inbox \in [Processes -> Seq(Nat)]
  BY DEF Channel, ChannelTypes
<1>2. c = Tail(b) /\ \A q \in Processes \ {p} : inbox'[q] = inbox[q]
  BY <1>1
<1>3. /\ c \in Seq(Nat) /\ Len(c) = Len(b) - 1 /\ Len(b) >= 1 /\ Len(b) \in Nat
      /\ \A i \in 1..Len(c) : i + 1 \in 1..Len(b) /\ c[i] = b[i + 1]
      /\ 1 \in 1..Len(b) /\ Head(b) = b[1] /\ b[1] \in Nat
  BY <1>1, <1>2
<1>4. UpTo(b, published)
  BY DEF Channel, ChannelRuns
<1>5. inbox' \in [Processes -> Seq(Nat)]
  BY <1>1, <1>2, <1>3
<1> HIDE DEF b, c
<1>6. UpTo(c, published)
  BY <1>3, <1>4 DEF UpTo
<1>7. ASSUME Latest(b)
      PROVE  \A j \in 1..Len(c) :
               (\A k \in j..Len(c) : c[k] # 0) => c[j] = published - Len(c) + j
  <2> SUFFICES ASSUME NEW j \in 1..Len(c), \A k \in j..Len(c) : c[k] # 0
               PROVE  c[j] = published - Len(c) + j
    OBVIOUS
  <2>1. ASSUME NEW k \in (j + 1)..Len(b) PROVE b[k] # 0
    <3>1. k - 1 \in j..Len(c) /\ k - 1 \in 1..Len(c) /\ (k - 1) + 1 = k
      BY <1>3
    <3>2. c[k - 1] = b[(k - 1) + 1]
      BY <1>3, <3>1
    <3> QED
      BY <3>1, <3>2
  <2>2. b[j + 1] = published - Len(b) + (j + 1)
    BY <1>3, <1>7, <2>1 DEF Latest
  <2>3. published - Len(b) + (j + 1) = published - (Len(b) - 1) + j
    BY <1>1, <1>3
  <2> QED
    BY <1>3, <2>2, <2>3
<1>8. ChannelRuns'
  <2>1. \A q \in Processes : UpTo(inbox'[q], published)
    BY <1>2, <1>6 DEF Channel, ChannelRuns, c
  <2>2. ASSUME R!Calm, NEW q \in Processes PROVE Latest(inbox[q])'
    <3>1. Latest(inbox[q])
      BY <2>2 DEF Channel, ChannelRuns
    <3>2. CASE q = p
      BY <1>7, <3>1, <3>2 DEF b, c, Latest
    <3>3. CASE q # p
      BY <1>2, <3>1, <3>3 DEF Latest
    <3> QED
      BY <3>2, <3>3
  <2> QED
    BY <2>1, <2>2 DEF Channel, ChannelRuns, R!Calm
<1> QED
  BY <1>1, <1>2, <1>3, <1>4, <1>5, <1>8 DEF UpTo, b, c

LEMMA ListenServes ==
  ASSUME NEW p \in Processes, Channel, R!Listen(p) PROVE Channel'
<1> PICK e : e = Head(inbox[p])
  OBVIOUS
<1>1. /\ inbox[p] # <<>> /\ R!Locally(p, e) /\ inbox' = [inbox EXCEPT ![p] = Tail(inbox[p])]
      /\ UNCHANGED <<up, client, sub, published, outages, got, doomed>>
  BY DEF R!Listen
<1>2. /\ inbox' \in [Processes -> Seq(Nat)] /\ ChannelRuns'
      /\ e = inbox[p][1] /\ e \in Nat /\ e <= published
      /\ inbox[p] \in Seq(Nat) /\ Len(inbox'[p]) = Len(inbox[p]) - 1 /\ Len(inbox[p]) >= 1
      /\ \A i \in 1..Len(inbox'[p]) :
           i + 1 \in 1..Len(inbox[p]) /\ inbox'[p][i] = inbox[p][i + 1]
      /\ \A q \in Processes \ {p} : inbox'[q] = inbox[q]
  <2>1. inbox[p] # <<>> /\ inbox' = [inbox EXCEPT ![p] = Tail(inbox[p])]
        /\ UNCHANGED <<up, client, sub, published, outages>>
    BY <1>1
  <2> QED
    BY <2>1, HandedOver
<1>3. published \in Nat
  BY DEF Channel, ChannelTypes
<1>4. CASE e = 0
  <2>1. R!CloseLocal(p)
    BY <1>1, <1>4 DEF R!Locally, R!Revocation
  <2>2. /\ UNCHANGED <<got, published>> /\ doomed' \in [Sockets -> Nat \cup {-1}]
        /\ \A s \in Sockets : sock[s].stage \in {"new", "accepted"} => doomed'[s] = doomed[s]
    BY <1>1 DEF Channel, ChannelTypes
  <2>3. /\ sock' \in [Sockets -> SocketRows] /\ CapKept'
        /\ \A s \in Sockets :
             /\ Placed(s)'
             /\ IF s \in R!Registered(p)
                THEN sock'[s].stage = "gone" /\ sock'[s].queue = <<>> /\ sock'[s].sending = 0
                ELSE sock'[s] = sock[s]
    BY <2>1, <2>2, ClosedLocally
  <2>4. ChannelTypes'
    BY <1>1, <1>2, <2>3 DEF Channel, ChannelTypes
  <2>5. ASSUME R!Calm, NEW s \in Sockets PROVE InStep(s)' /\ Cut(s)'
    <3>1. InStep(s) /\ Cut(s) /\ Placed(s)
      BY <2>5, ChannelNow DEF Served
    <3>2. CASE s \in R!Registered(p)
      <4>1. sock'[s].stage = "gone" /\ sock'[s].queue = <<>> /\ sock'[s].sending = 0
        BY <2>3, <3>2
      <4>2. doomed[s] # -1 => 0 <= doomed[s]
        BY DEF Channel, ChannelTypes
      <4> QED
        BY <1>1, <3>1, <4>1, <4>2 DEF InStep, Cut, UpTo
    <3>3. CASE s \notin R!Registered(p)
      <4>1. sock'[s] = sock[s]
        BY <2>3, <3>3
      <4>2. CASE sock[s].stage \in {"open", "closed"}
        <5>1. sock[s].at \in Processes /\ sock[s].at # p
          BY <3>1, <3>3, <4>2 DEF R!Registered, Placed
        <5>2. Unread(s)' = Unread(s)
          BY <1>2, <4>1, <5>1 DEF Unread
        <5> QED
          BY <1>1, <3>1, <4>1, <5>2 DEF InStep, Cut, OnTheWay, Before
      <4>3. CASE sock[s].stage \notin {"open", "closed"}
        BY <1>1, <3>1, <4>1, <4>3 DEF InStep, Cut
      <4> QED
        BY <4>2, <4>3
    <3> QED
      BY <3>2, <3>3
  <2> QED
    BY <1>1, <1>2, <2>3, <2>4, <2>5 DEF Channel, Served, R!Calm
<1>5. CASE e # 0
  <2>1. R!SendLocal(p, e)
    BY <1>1, <1>5 DEF R!Locally, R!Revocation
  <2>2. /\ e \in Nat \ {0} /\ published' \in Nat /\ published <= published' /\ e <= published'
        /\ UNCHANGED <<got, doomed>>
    BY <1>1, <1>2, <1>3, <1>5
  <2>3. /\ sock' \in [Sockets -> SocketRows] /\ CapKept'
        /\ \A s \in Sockets :
             /\ Placed(s)'
             /\ sock'[s].stage = sock[s].stage /\ sock'[s].at = sock[s].at
             /\ sock'[s].sending = sock[s].sending /\ sock'[s].since = sock[s].since
             /\ IF sock[s].stage = "open" /\ sock[s].at = p
                THEN sock'[s].queue = R!Enqueue(sock[s].queue, e)
                ELSE sock'[s] = sock[s]
    BY <2>1, <2>2, SentLocally
  <2>4. ChannelTypes'
    BY <1>1, <1>2, <2>3 DEF Channel, ChannelTypes
  <2>5. ASSUME R!Calm, NEW s \in Sockets PROVE InStep(s)' /\ Cut(s)'
    <3>1. InStep(s) /\ Cut(s) /\ Placed(s)
      BY <2>5, ChannelNow DEF Served
    <3>2. sock[s].queue \in Seq(Nat) /\ got[s] \in Seq(Nat)
      BY ChannelNow
    <3>3. CASE sock[s].stage \in {"new", "accepted", "gone"}
      BY <1>1, <2>3, <3>1, <3>3 DEF InStep, Cut
    <3>4. CASE sock[s].stage \in {"open", "closed"} /\ sock[s].at # p
      <4>1. sock[s].at \in Processes /\ sock'[s] = sock[s]
        BY <2>3, <3>1, <3>4 DEF Placed
      <4>2. Unread(s)' = Unread(s)
        BY <1>2, <3>4, <4>1 DEF Unread
      <4> QED
        BY <1>1, <3>1, <4>1, <4>2 DEF InStep, Cut, OnTheWay, Before
    <3>5. CASE sock[s].stage \in {"open", "closed"} /\ sock[s].at = p
      <4> DEFINE b == inbox[p]
                 c == inbox'[p]
                 q == sock[s].queue
      <4>r. PICK r : r = sock'[s].queue
        OBVIOUS
      <4>1. Unread(s) = b /\ Unread(s)' = c
        BY <2>3, <3>5 DEF Unread
      <4>2. /\ b \in Seq(Nat) /\ Len(c) = Len(b) - 1 /\ Len(b) >= 1 /\ Len(b) \in Nat /\ b[1] = e
            /\ \A i \in 1..Len(c) : i + 1 \in 1..Len(b) /\ c[i] = b[i + 1]
        <5>1. b \in Seq(Nat) /\ Len(c) = Len(b) - 1 /\ Len(b) >= 1 /\ b[1] = e
          BY <1>2
        <5>2. \A i \in 1..Len(c) : i + 1 \in 1..Len(b) /\ c[i] = b[i + 1]
          BY <1>2
        <5> HIDE DEF b, c
        <5> QED
          BY <5>1, <5>2
      <4> HIDE DEF b, c, q
      <4>c. doomed[s] # -1 =>
              \E j \in 1..Len(c) : c[j] = 0 /\ \A i \in 1..(j - 1) : c[i] <= doomed[s]
        <5> SUFFICES ASSUME doomed[s] # -1
                     PROVE  \E j \in 1..Len(c) :
                              c[j] = 0 /\ \A i \in 1..(j - 1) : c[i] <= doomed[s]
          OBVIOUS
        <5>1. PICK j \in 1..Len(b) : b[j] = 0 /\ \A i \in 1..(j - 1) : b[i] <= doomed[s]
          BY <3>1, <3>5, <4>1 DEF Cut
        <5>2. j # 1
          BY <1>5, <4>2, <5>1
        <5>3. j - 1 \in 1..Len(c) /\ (j - 1) + 1 = j
          BY <4>2, <5>2
        <5>4. c[j - 1] = 0
          BY <4>2, <5>1, <5>3
        <5>5. ASSUME NEW i \in 1..((j - 1) - 1) PROVE c[i] <= doomed[s]
          <6>1. i \in 1..Len(c) /\ i + 1 \in 1..(j - 1)
            BY <4>2, <5>3
          <6> QED
            BY <4>2, <5>1, <6>1
        <5> QED
          BY <5>3, <5>4, <5>5
      <4>3. CASE sock[s].stage = "open"
        <5>1. r = R!Enqueue(q, e)
          BY <2>3, <3>5, <4>3, <4>r DEF q
        <5>2. PICK d \in {0, 1} :
                /\ r \in Seq(Nat) /\ Len(r) = Len(q) + 1 - d /\ Len(r) >= 1 /\ r[Len(r)] = e
                /\ \A i \in 1..(Len(r) - 1) : i + d \in 1..Len(q) /\ r[i] = q[i + d]
          <6>1. q \in Seq(Nat) /\ e \in Nat
            BY <1>2, <3>2 DEF q
          <6>2. PICK u \in Seq(Nat), f \in Nat : u = q /\ f = e
            BY <6>1
          <6>3. r = R!Enqueue(u, f)
            BY <5>1, <6>2
          <6>4. \E d \in {0, 1} :
                  /\ r \in Seq(Nat) /\ Len(r) = Len(u) + 1 - d /\ Len(r) >= 1 /\ r[Len(r)] = f
                  /\ \A i \in 1..(Len(r) - 1) : i + d \in 1..Len(u) /\ r[i] = u[i + d]
            BY <6>3, NewestIsQueued
          <6> QED
            BY <6>2, <6>4
        <5>3. ASSUME Events(c) PROVE OnTheWay(s)'
          <6>1. ASSUME NEW k \in 1..Len(b) PROVE b[k] # 0
            <7>1. CASE k = 1
              BY <1>5, <4>2, <7>1
            <7>2. CASE k # 1
              <8>1. k - 1 \in 1..Len(c) /\ (k - 1) + 1 = k
                BY <4>2, <7>2
              <8>2. c[k - 1] # 0 /\ c[k - 1] = b[(k - 1) + 1]
                BY <4>2, <5>3, <8>1 DEF Events
              <8> QED
                BY <8>1, <8>2
            <7> QED
              BY <7>1, <7>2
          <6>2. OnTheWay(s)
            BY <3>1, <4>1, <4>3, <6>1 DEF InStep, Events
          <6> DEFINE n == Before(s)
                     g == got[s]
                     x == sock[s].sending
          <6>3. /\ \A i \in 1..Len(q) : q[i] = n + i
                /\ \A i \in 1..Len(g) : g[i] <= n /\ (x # 0 => g[i] < x)
                /\ \A i \in 2..Len(g) : g[i] > g[i - 1]
                /\ x <= n
            BY <6>2 DEF OnTheWay, q
          <6>4. n = published - Len(q) - Len(b) /\ Before(s)' = published - Len(r) - Len(c)
            BY <1>1, <4>1, <4>r DEF Before, q
          <6>5. e = published - Len(b) + 1
            <7>1. Latest(b)
              BY <2>5 DEF Channel, ChannelRuns, b
            <7>2. b[1] = published - Len(b) + 1
              BY <4>2, <6>1, <7>1 DEF Latest
            <7> QED
              BY <4>2, <7>2
          <6>6. PICK lq, lb, lr, lc : lq = Len(q) /\ lb = Len(b) /\ lr = Len(r) /\ lc = Len(c)
            OBVIOUS
          <6>7. /\ lq \in Nat /\ lb \in Nat /\ lr \in Nat /\ lr = lq + 1 - d /\ lc = lb - 1
                /\ lr >= 1 /\ published \in Nat
            BY <1>3, <3>2, <4>2, <5>2, <6>6 DEF q
          <6>8. n = published - lq - lb /\ n \in Int
            BY <6>4, <6>6, <6>7
          <6>9. Before(s)' = n + d
            BY <6>4, <6>6, <6>7, <6>8
          <6>10. e = n + d + lr
            BY <6>5, <6>6, <6>7, <6>8
          <6> HIDE DEF n
          <6>11. ASSUME NEW i \in 1..Len(r) PROVE r[i] = n + d + i
            <7>1. CASE i = lr
              BY <5>2, <6>6, <6>10, <7>1
            <7>2. CASE i # lr
              <8>1. i \in 1..(Len(r) - 1)
                BY <6>6, <6>7, <7>2
              <8>2. r[i] = q[i + d] /\ q[i + d] = n + (i + d)
                BY <5>2, <6>3, <8>1
              <8> QED
                BY <6>8, <8>1, <8>2
            <7> QED
              BY <7>1, <7>2
          <6>12. ASSUME NEW i \in 1..Len(g) PROVE g[i] <= n + d /\ (x # 0 => g[i] < x)
            <7>1. g[i] \in Nat
              BY <3>2
            <7> QED
              BY <6>3, <6>8, <7>1
          <6>13. x <= n + d
            <7>1. x \in Nat
              BY ChannelNow
            <7> QED
              BY <6>3, <6>8, <7>1
          <6>14. Len(r) # 0
            BY <6>6, <6>7
          <6>15. got'[s] = g /\ sock'[s].sending = x
            BY <1>1, <2>3
          <6> HIDE DEF g, x
          <6> QED
            BY <6>3, <6>9, <6>11, <6>12, <6>13, <6>14, <6>15, <4>r DEF OnTheWay
        <5>4. ASSUME doomed[s] # -1 PROVE UpTo(r, doomed[s]) /\ b[1] # 0
          <6>1. PICK j \in 1..Len(b) : b[j] = 0 /\ \A i \in 1..(j - 1) : b[i] <= doomed[s]
            BY <3>1, <3>5, <4>1, <5>4 DEF Cut
          <6>2. j # 1
            BY <1>5, <4>2, <6>1
          <6>3. e <= doomed[s]
            BY <4>2, <6>1, <6>2
          <6>4. UpTo(q, doomed[s])
            BY <3>1, <5>4 DEF Cut, q
          <6>5. ASSUME NEW i \in 1..Len(r) PROVE r[i] <= doomed[s]
            <7>1. CASE i = Len(r)
              BY <5>2, <6>3, <7>1
            <7>2. CASE i # Len(r)
              <8>1. i \in 1..(Len(r) - 1)
                BY <5>2, <7>2
              <8> QED
                BY <5>2, <6>4, <8>1 DEF UpTo
            <7> QED
              BY <7>1, <7>2
          <6> QED
            BY <1>5, <4>2, <6>5 DEF UpTo
        <5> QED
          <6>2. Cut(s)'
            BY <1>1, <2>3, <3>1, <4>1, <4>c, <4>r, <5>4 DEF Cut
          <6>3. InStep(s)'
            BY <4>1, <5>3 DEF InStep
          <6> QED
            BY <6>2, <6>3
      <4>4. CASE sock[s].stage = "closed"
        <5>1. sock'[s] = sock[s]
          BY <2>3, <4>4
        <5> QED
          BY <1>1, <3>1, <4>1, <4>4, <4>c, <5>1 DEF Cut, InStep
      <4> QED
        BY <3>5, <4>3, <4>4
    <3> QED
      <4>1. sock[s].stage \in SocketStages
        BY ChannelNow
      <4> QED
        BY <3>3, <3>4, <3>5, <4>1 DEF SocketStages
  <2> QED
    BY <1>1, <1>2, <2>3, <2>4, <2>5 DEF Channel, Served, R!Calm
<1> QED
  BY <1>4, <1>5

(* Redis fails and answers again; a subscription breaks and is renewed.    *)
LEMMA OutagesServe ==
  ASSUME Channel,
         \/ R!Outage
         \/ R!Recover
         \/ \E p \in Processes : R!ListenFails(p) \/ R!Resubscribe(p)
  PROVE  Channel'
<1>1. /\ UNCHANGED <<client, sock, published, got, doomed>>
      /\ up' \in BOOLEAN /\ outages' \in Nat
      /\ sub' \in [Processes -> {"none", "listening", "backoff"}]
      /\ inbox' \in [Processes -> Seq(Nat)]
      /\ \A p \in Processes : inbox'[p] = inbox[p] \/ inbox'[p] = <<>>
  <2>0. /\ outages \in Nat /\ sub \in [Processes -> {"none", "listening", "backoff"}]
        /\ inbox \in [Processes -> Seq(Nat)]
    BY DEF Channel, ChannelTypes
  <2>1. CASE R!Outage \/ R!Recover
    <3>1. /\ UNCHANGED <<client, sub, inbox, sock, published, got, doomed>>
          /\ up' = TRUE \/ up' = FALSE
          /\ outages' = outages \/ outages' = outages + 1
      BY <2>1 DEF R!Outage, R!Recover
    <3>2. up' \in BOOLEAN
      BY <3>1
    <3>3. outages' \in Nat
      BY <2>0, <3>1
    <3> QED
      BY <2>0, <3>1, <3>2, <3>3
  <2>2. ASSUME NEW p \in Processes, R!ListenFails(p)
        PROVE  /\ sub' \in [Processes -> {"none", "listening", "backoff"}]
               /\ inbox' \in [Processes -> Seq(Nat)]
               /\ \A q \in Processes : inbox'[q] = inbox[q] \/ inbox'[q] = <<>>
    BY <2>2 DEF Channel, ChannelTypes, R!ListenFails
  <2>3. ASSUME NEW p \in Processes, R!Resubscribe(p)
        PROVE  /\ sub' \in [Processes -> {"none", "listening", "backoff"}] /\ inbox' = inbox
    BY <2>3 DEF Channel, ChannelTypes, R!Resubscribe
  <2>4. CASE \E p \in Processes : R!ListenFails(p) \/ R!Resubscribe(p)
    BY <2>2, <2>3, <2>4 DEF Channel, ChannelTypes, R!ListenFails, R!Resubscribe
  <2> QED
    BY <2>1, <2>4
<1>2. ~R!Calm'
  <2>1. outages \in Nat
    BY DEF Channel, ChannelTypes
  <2>2. CASE R!Outage
    BY <2>1, <2>2 DEF R!Outage, R!Calm
  <2>3. CASE R!Recover
    BY <2>3 DEF R!Recover, Channel, ChannelRuns, R!Calm
  <2>4. CASE \E p \in Processes : R!ListenFails(p) \/ R!Resubscribe(p)
    BY <2>4 DEF R!ListenFails, R!Resubscribe, Channel, ChannelRuns, R!Calm
  <2> QED
    BY <2>2, <2>3, <2>4
<1>3. ChannelTypes'
  BY <1>1 DEF Channel, ChannelTypes
<1>4. ChannelRuns'
  BY <1>1, <1>2 DEF Channel, ChannelRuns, UpTo
<1>5. CapKept'
  BY <1>1 DEF Channel, CapKept, R!CapKept, R!Registered
<1>6. \A s \in Sockets : Served(s)'
  BY <1>1, <1>2 DEF Channel, Served, Placed
<1> QED
  BY <1>3, <1>4, <1>5, <1>6 DEF Channel

LEMMA ChannelStep == Channel /\ [R!Next]_(R!vars) => Channel'
<1> SUFFICES ASSUME Channel, [R!Next]_(R!vars) PROVE Channel'
  OBVIOUS
<1>1. CASE \E s \in Sockets, p \in Processes : R!Handshake(s, p)
  BY <1>1, HandshakeServes
<1>2. CASE \E s \in Sockets : R!Register(s) \/ R!Take(s) \/ R!Sent(s) \/ R!EvictExpired(s)
                              \/ R!SendFails(s) \/ R!Disconnect(s)
  BY <1>2, RegisterServes, TakeServes, SentServes, LeavingServes
<1>3. CASE \E p \in Processes : R!Publish(p) \/ R!InvalidateUser(p) \/ R!Listen(p)
  BY <1>3, PublishServes, InvalidateServes, ListenServes
<1>4. CASE R!Outage \/ R!Recover \/ \E p \in Processes : R!ListenFails(p) \/ R!Resubscribe(p)
  BY <1>4, OutagesServe
<1>5. CASE UNCHANGED R!vars
  BY <1>5 DEF R!vars, Channel, ChannelTypes, ChannelRuns, CapKept, R!CapKept, R!Registered,
       Served, Placed, InStep, OnTheWay, Cut, Unread, Before, UpTo, Events, Latest, R!Calm
<1> QED
  BY <1>1, <1>2, <1>3, <1>4, <1>5 DEF R!Next

-----------------------------------------------------------------------------
(* Both parts.                                                             *)

(* Whichever part a behaviour is of, it takes the steps of each or leaves  *)
(* its variables alone.                                                    *)
LEMMA PartsAtWork == Spec => F!Spec /\ R!Spec
<1>1. Init => F!Init /\ R!Init
  BY DEF Init
<1>2. [Next]_<<part, factor, channel>> => [F!Next]_(F!vars) /\ [R!Next]_(R!vars)
  BY DEF Next, factor, channel, F!vars, R!vars
<1> QED
  BY <1>1, <1>2, PTL DEF Spec, F!Spec, R!Spec

(* One code authorises at most one request, in whatever order any number   *)
(* of requests claim it, decide on their copy of the row and commit,       *)
(* unless Redis answers one and fails the other, or is off while an        *)
(* enrolment changes (_consume_totp).                                      *)
THEOREM CodesAlwaysAuthoriseOnce == Spec => []CodesAuthoriseOnce
<1>1. Factor => CodesAuthoriseOnce
  BY FactorImplies
<1> QED
  BY <1>1, FactorInit, FactorStep, PartsAtWork, PTL DEF F!Spec

(* A session opened before a rotation, a disable or an invalidation admits *)
(* nothing after it, for any number of sessions and of requests under way, *)
(* unless two such changes were under way at once (session_epoch).         *)
THEOREM SessionsAlwaysEnd == Spec => []SessionsEnd
<1>1. Factor => SessionsEnd
  BY FactorImplies
<1> QED
  BY <1>1, FactorInit, FactorStep, PartsAtWork, PTL DEF F!Spec

(* The sockets of a user at a process never exceed the cap, however many   *)
(* shake hands at once and however slowly closed ones leave (connect).     *)
THEOREM CapIsKept == Spec => []CapKept
<1>1. Channel => CapKept
  BY ChannelImplies
<1> QED
  BY <1>1, ChannelInit, ChannelStep, PartsAtWork, PTL DEF R!Spec

(* While Redis works, what lies before an open socket is the latest events *)
(* in order and without a gap, after all it has been sent, for any sizes   *)
(* of queues and any interleaving of publishing, listening, writing and    *)
(* revoking (publish, _listen, _writer).                                   *)
THEOREM NewestIsReached == Spec => []NewestReached
<1>1. Channel => NewestReached
  BY ChannelImplies
<1> QED
  BY <1>1, ChannelInit, ChannelStep, PartsAtWork, PTL DEF R!Spec

(* While Redis works, a socket whose user's sessions were revoked receives *)
(* nothing that was published after, at whichever process and with         *)
(* whatever still in its queue and in the channel (invalidate_user).       *)
THEOREM RevokedAlwaysHearNothing == Spec => []RevokedHearNothing
<1>1. Channel => RevokedHearNothing
  BY ChannelImplies
<1> QED
  BY <1>1, ChannelInit, ChannelStep, PartsAtWork, PTL DEF R!Spec
=============================================================================
