----------------------------- MODULE RateLimit -----------------------------
(***************************************************************************)
(* The sliding window that limits the calls of one principal in one scope  *)
(* (rate_limit.py): shared in Redis when Redis answers; otherwise refused  *)
(* or, where that is allowed, counted by each process for itself.          *)
(*                                                                         *)
(* Time passes in ticks and is counted from the present: an entry at -1    *)
(* was made a tick ago.  Entries in Redis carry the wall clock of the      *)
(* process that made them, which may be ahead, so that some lie in the     *)
(* future.  What is older than the window is removed by whoever counts     *)
(* next, and is dropped here as time passes.                               *)
(***************************************************************************)
EXTENDS Money, FiniteSets

CONSTANTS Processes, Limit, Window,
          MaxSkew,      \* bound: how far a wall clock is ahead
          MaxRestarts   \* bound

VARIABLES skew,         \* how far the wall clock of each process is ahead
          strict,       \* effective_require_redis_for_rate_limit
          up,           \* Redis answers
          shared,       \* entries in Redis by their score
          own,          \* entries of each process's deque
          restarts,
          admitted      \* observer: calls let through

vars == <<skew, strict, up, shared, own, restarts, admitted>>

Ages == 1 - Window..MaxSkew
None == [t \in Ages |-> 0]

Init ==
  /\ skew \in [Processes -> 0..MaxSkew] /\ strict \in BOOLEAN /\ up \in BOOLEAN
  /\ shared = None /\ own = [p \in Processes |-> None]
  /\ restarts = 0 /\ admitted = None

(* What was counted in the last n ticks up to the clock furthest ahead.    *)
Recent(counts, n) == Total([k \in 1..n |-> counts[MaxSkew + 1 - k]], n)

(* Mutant: the entries of the last tick of the window go too.              *)
TrimmedEarly(counts, clock) == [t \in Ages |-> IF t =< clock - Window + 1 THEN 0 ELSE counts[t]]

(* The script: what is older than the window goes, whoever counts.         *)
Trimmed(counts, clock) == [t \in Ages |-> IF t =< clock - Window THEN 0 ELSE counts[t]]

Admits(counts) == Recent(counts, Window + MaxSkew) < Limit

Hit(counts, clock) == [counts EXCEPT ![clock] = @ + 1]

Recorded(counts, clock) ==
  LET kept == Trimmed(counts, clock) IN IF Admits(kept) THEN Hit(kept, clock) ELSE kept

HitRedis(p) ==
  /\ up /\ shared' = Recorded(shared, skew[p])
  /\ admitted' = IF Admits(Trimmed(shared, skew[p])) THEN Hit(admitted, 0) ELSE admitted
  /\ UNCHANGED <<skew, strict, up, own, restarts>>

(* _hit_inmemory, or 503.                                                  *)
Fallback(p) ==
  IF strict THEN UNCHANGED <<own, admitted>>
  ELSE /\ own' = [own EXCEPT ![p] = Recorded(@, 0)]
       /\ admitted' = IF Admits(Trimmed(own[p], 0)) THEN Hit(admitted, 0) ELSE admitted

(* Redis is not there, or its answer to a script that ran is lost.         *)
HitFails(p) ==
  /\ shared' \in {shared} \cup (IF up THEN {Recorded(shared, skew[p])} ELSE {})
  /\ Fallback(p) /\ UNCHANGED <<skew, strict, up, restarts>>

Older(counts) == [t \in Ages |-> IF t = MaxSkew THEN 0 ELSE counts[t + 1]]

Tick ==
  /\ shared' = Older(shared) /\ own' = [p \in Processes |-> Older(own[p])]
  /\ admitted' = Older(admitted) /\ UNCHANGED <<skew, strict, up, restarts>>

(* Redis stops answering, or answers again with the keys it had.           *)
Outage == up' = ~up /\ UNCHANGED <<skew, strict, shared, own, restarts, admitted>>

Restart(p) ==
  /\ restarts < MaxRestarts /\ restarts' = restarts + 1
  /\ own' = [own EXCEPT ![p] = None]
  /\ UNCHANGED <<skew, strict, up, shared, admitted>>

Next ==
  \/ \E p \in Processes : HitRedis(p) \/ HitFails(p) \/ Restart(p)
  \/ Tick \/ Outage

Spec == Init /\ [][Next]_vars

TypeOK ==
  /\ skew \in [Processes -> 0..MaxSkew] /\ strict \in BOOLEAN /\ up \in BOOLEAN
  /\ shared \in [Ages -> 0..Limit] /\ own \in [Processes -> [Ages -> 0..Limit]]
  /\ restarts \in 0..MaxRestarts /\ admitted \in [Ages -> Nat]

(* However the calls are spread over the processes, the limit holds in     *)
(* every window shortened by what the clocks differ; where the processes   *)
(* may count for themselves it holds once for Redis and once for each of   *)
(* them, a restarted process being a new one (_hit_redis, _hit_inmemory).  *)
AdmittedBounded ==
  Recent(admitted, Window) =<
    IF strict THEN Limit ELSE Limit * (1 + Cardinality(Processes) + restarts)
=============================================================================
