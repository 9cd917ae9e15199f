------------------------------ MODULE Reviews ------------------------------
(***************************************************************************)
(* The reviews two parties write about each other and the counters kept on *)
(* each user's row (services.post_review, recompute_user_rating,           *)
(* lock_user_for_rating; routers/admin/content.py).                        *)
(*                                                                         *)
(* A request changes its review first, then locks the row of the user it   *)
(* is about, counts and commits.  An INSERT also takes the shared key lock *)
(* of its foreign keys on the rows of both users; SELECT ... FOR UPDATE    *)
(* waits for it.                                                           *)
(***************************************************************************)
EXTENDS Integers, FiniteSets

CONSTANTS Users, Deals, Requests

VARIABLES review,      \* rating of each review, or "none"
          good, bad,   \* the counters on the row of each user
          work,        \* requests between their change and their commit
          overridden   \* observer: users whose counters an admin set since

vars == <<review, good, bad, work, overridden>>

Ratings == {"good", "neutral", "bad"}

(* uq_reviews_author_deal: an author writes one review of a deal.          *)
Slots == {s \in Users \X Users \X Deals : s[1] # s[2]}
Parties(s) == {s[1], s[2]}
Target(s) == s[2]

Nowhere == <<"no", "review", "open">>
Idle == [stage |-> "idle", slot |-> Nowhere, rating |-> "none", inserts |-> FALSE,
         good |-> 0, bad |-> 0]

Init ==
  /\ review = [s \in Slots |-> "none"] /\ good = [u \in Users |-> 0] /\ bad = good
  /\ work = [r \in Requests |-> Idle] /\ overridden = {}

About(reviews, u, rating) ==
  Cardinality({s \in Slots : Target(s) = u /\ reviews[s] = rating})

(* Mutant: the row is not locked before the reviews are counted.           *)
NoRowLock(r, u) == TRUE

(* Who keeps r from the row of user u: another that locked it, or one that *)
(* inserted a review by or about the user.                                 *)
Locks(r, u) == work[r].stage = "locked" /\ Target(work[r].slot) = u
Shares(r, u) == work[r].stage # "idle" /\ work[r].inserts /\ u \in Parties(work[r].slot)
RowFree(r, u) == \A q \in Requests \ {r} : ~Locks(q, u) /\ ~Shares(q, u)

Untouched(s) == \A q \in Requests : work[q].slot # s

Change(r, s, rating, inserts) ==
  /\ work[r] = Idle /\ Untouched(s)
  /\ work' = [work EXCEPT ![r] = [Idle EXCEPT !.stage = "changed", !.slot = s,
                                              !.rating = rating, !.inserts = inserts]]
  /\ UNCHANGED <<review, good, bad, overridden>>

(* post_review, and the admin's create_review.                             *)
Insert(r, s, rating) ==
  /\ review[s] = "none"
  /\ \A q \in Requests, u \in Parties(s) : ~Locks(q, u)
  /\ Change(r, s, rating, TRUE)

(* The admin's edit recounts only if the rating changes.                   *)
Edit(r, s, rating) ==
  review[s] \notin {"none", rating} /\ Change(r, s, rating, FALSE)

Delete(r, s) == review[s] # "none" /\ Change(r, s, "none", FALSE)

(* lock_user_for_rating, then recompute_user_rating in the same breath.    *)
LockAndCount(r) ==
  LET s == work[r].slot
      reviews == [review EXCEPT ![s] = work[r].rating]
  IN /\ work[r].stage = "changed" /\ RowFree(r, Target(s))
     /\ work' = [work EXCEPT ![r].stage = "locked",
                             ![r].good = About(reviews, Target(s), "good"),
                             ![r].bad = About(reviews, Target(s), "bad")]
     /\ UNCHANGED <<review, good, bad, overridden>>

Commit(r) ==
  LET w == work[r] IN
  /\ w.stage = "locked"
  /\ review' = [review EXCEPT ![w.slot] = w.rating]
  /\ good' = [good EXCEPT ![Target(w.slot)] = w.good]
  /\ bad' = [bad EXCEPT ![Target(w.slot)] = w.bad]
  /\ overridden' = overridden \ {Target(w.slot)}
  /\ work' = [work EXCEPT ![r] = Idle]

(* The database ends a deadlock by aborting one of the two.                *)
WaitsFor(r, q) ==
  /\ work[r].stage = "changed" /\ r # q
  /\ Locks(q, Target(work[r].slot)) \/ Shares(q, Target(work[r].slot))

Aborted(r) ==
  /\ \E q \in Requests : WaitsFor(r, q) /\ WaitsFor(q, r)
  /\ work' = [work EXCEPT ![r] = Idle] /\ UNCHANGED <<review, good, bad, overridden>>

(* set_stats writes what it is given, whatever the reviews say.  Its       *)
(* UPDATE waits for the row's lock, not for a shared key lock.             *)
SetStats(u, g, b) ==
  /\ \A q \in Requests : ~Locks(q, u)
  /\ good' = [good EXCEPT ![u] = g] /\ bad' = [bad EXCEPT ![u] = b]
  /\ overridden' = overridden \cup {u} /\ UNCHANGED <<review, work>>

Next ==
  \/ \E r \in Requests, s \in Slots, rating \in Ratings : Insert(r, s, rating) \/ Edit(r, s, rating)
  \/ \E r \in Requests, s \in Slots : Delete(r, s)
  \/ \E r \in Requests : LockAndCount(r) \/ Commit(r) \/ Aborted(r)
  \/ \E u \in Users : SetStats(u, 0, 1)

Spec == Init /\ [][Next]_vars

TypeOK ==
  /\ review \in [Slots -> Ratings \cup {"none"}] /\ overridden \subseteq Users
  /\ good \in [Users -> Nat] /\ bad \in [Users -> Nat]
  /\ work \in [Requests -> [stage : {"idle", "changed", "locked"}, slot : Slots \cup {Nowhere},
                 rating : Ratings \cup {"none"}, inserts : BOOLEAN,
                 good : Nat, bad : Nat]]

(* The counters of a user are those of the committed reviews, unless an    *)
(* admin set them since: reviews posted, edited and deleted at the same    *)
(* time are each counted once (recompute_user_rating).                     *)
RatingFollowsReviews ==
  \A u \in Users \ overridden :
    good[u] = About(review, u, "good") /\ bad[u] = About(review, u, "bad")

(* Two reviews never wait for each other (services.py:111, "Reviews never  *)
(* reference each other, so the child insert can never deadlock against    *)
(* the parent lock").                                                      *)
InsertsNeverDeadlock ==
  \A r, q \in Requests : ~(WaitsFor(r, q) /\ WaitsFor(q, r))
=============================================================================
