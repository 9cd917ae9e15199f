---------------------------- MODULE Maintenance ----------------------------
(***************************************************************************)
(* The switch that stops every write while the service is maintained       *)
(* (maintenance.py, admin/settings.update_settings, bot/maintenance.py).   *)
(* Each process remembers the flag for a while; one call at a time reads   *)
(* the row, the others wait for it, and the handler that flips the flag    *)
(* forgets what its own process remembers without waiting for anyone.      *)
(***************************************************************************)
EXTENDS Integers

CONSTANTS Processes,
          Ttl,       \* _TTL_SECONDS, in ticks
          MaxLoad    \* bound: ticks a read of the row takes

VARIABLES flag,      \* maintenance_enabled, committed
          cache,     \* _cache of each process: flag, ticks left, after an error
          load,      \* the holder of _cache_lock: what it read, and how long ago
          flipping,  \* processes whose handler committed but did not forget yet
          failClosed,\* settings.maintenance_fail_closed
          since,     \* observer: ticks since the flag was off, as far as it matters
          late       \* observer: the latest of the writes let through

vars == <<flag, cache, load, flipping, failClosed, since, late>>

Soon == Ttl + MaxLoad
NoCache == [on |-> FALSE, left |-> 0, error |-> FALSE]
NoLoad == [stage |-> "none", on |-> FALSE, age |-> 0]

Init ==
  /\ flag \in BOOLEAN /\ failClosed \in BOOLEAN
  /\ cache = [p \in Processes |-> NoCache] /\ load = [p \in Processes |-> NoLoad]
  /\ flipping = {} /\ since = (IF flag THEN Soon + 1 ELSE 0) /\ late = 0

Fresh(p) == cache[p].left > 0

(* A write is let through where the flag is off.                           *)
Write(on) == late' = IF ~on /\ since > late THEN since ELSE late

(* Mutant: the time to live starts again with every use.                   *)
WriteRenewsCache(p) ==
  /\ Fresh(p) /\ IF cache[p].error THEN UNCHANGED late ELSE Write(cache[p].on)
  /\ cache' = [cache EXCEPT ![p].left = Ttl]
  /\ UNCHANGED <<flag, load, flipping, failClosed, since>>

(* After a failed lookup the policy decides, not the flag.                 *)
WriteFromCache(p) ==
  /\ Fresh(p) /\ IF cache[p].error THEN UNCHANGED late ELSE Write(cache[p].on)
  /\ UNCHANGED <<flag, cache, load, flipping, failClosed, since>>

StartLoad(p) ==
  /\ ~Fresh(p) /\ load[p] = NoLoad /\ load' = [load EXCEPT ![p].stage = "asked"]
  /\ UNCHANGED <<flag, cache, flipping, failClosed, since, late>>

ReadRow(p) ==
  /\ load[p].stage = "asked"
  /\ load' = [load EXCEPT ![p] = [stage |-> "read", on |-> flag, age |-> 0]]
  /\ UNCHANGED <<flag, cache, flipping, failClosed, since, late>>

(* The holder of the lock keeps what it read, and decides its own write.   *)
EndLoad(p) ==
  /\ load[p].stage = "read" /\ load' = [load EXCEPT ![p] = NoLoad]
  /\ cache' = [cache EXCEPT ![p] = [on |-> load[p].on, left |-> Ttl, error |-> FALSE]]
  /\ Write(load[p].on) /\ UNCHANGED <<flag, flipping, failClosed, since>>

LoadFails(p) ==
  /\ load[p] # NoLoad /\ load' = [load EXCEPT ![p] = NoLoad]
  /\ cache' = [cache EXCEPT ![p] = [on |-> failClosed, left |-> 1, error |-> TRUE]]
  /\ UNCHANGED <<flag, flipping, failClosed, since, late>>

(* update_settings: the commit, then invalidate_cache.                     *)
Flip(p) ==
  /\ flipping = {} /\ flag' = ~flag /\ flipping' = {p}
  /\ since' = IF flag' THEN since ELSE 0
  /\ UNCHANGED <<cache, load, failClosed, late>>

Forget(p) ==
  /\ p \in flipping /\ flipping' = flipping \ {p}
  /\ cache' = [cache EXCEPT ![p] = NoCache]
  /\ UNCHANGED <<flag, load, failClosed, since, late>>

Tick ==
  /\ \A p \in Processes : load[p].age < MaxLoad
  /\ cache' = [p \in Processes |-> [cache[p] EXCEPT !.left = IF @ > 0 THEN @ - 1 ELSE 0]]
  /\ load' = [p \in Processes |-> [load[p] EXCEPT !.age =
                IF load[p].stage = "read" THEN @ + 1 ELSE @]]
  /\ since' = IF ~flag THEN 0 ELSE IF since > Soon THEN since ELSE since + 1
  /\ UNCHANGED <<flag, flipping, failClosed, late>>

Next ==
  \/ \E p \in Processes : WriteFromCache(p) \/ StartLoad(p) \/ ReadRow(p) \/ EndLoad(p)
  \/ \E p \in Processes : LoadFails(p) \/ Flip(p) \/ Forget(p)
  \/ Tick

Spec == Init /\ [][Next]_vars

TypeOK ==
  /\ flag \in BOOLEAN /\ failClosed \in BOOLEAN /\ flipping \subseteq Processes
  /\ cache \in [Processes -> [on : BOOLEAN, left : 0..Ttl, error : BOOLEAN]]
  /\ load \in [Processes -> [stage : {"none", "asked", "read"}, on : BOOLEAN, age : 0..MaxLoad]]
  /\ since \in 0..Soon + 1 /\ late \in 0..Soon + 1

(* A write is let through only if the flag was off not longer ago than the *)
(* time to live and one read of the row, on every process and however      *)
(* reads, flips and expiries overlap; a failed lookup apart, where the     *)
(* policy decides (_get_maintenance: "other workers catch up within at     *)
(* most that window").                                                     *)
WritesStopSoon == late =< Soon
=============================================================================
