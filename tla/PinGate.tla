------------------------------ MODULE PinGate ------------------------------
(***************************************************************************)
(* The PIN of one user: its attempts, its lock, the codes that reset it    *)
(* and the sessions it opens (pin.py, routers/pin.py and                   *)
(* deps.require_pin_session), next to the two admin actions on it          *)
(* (routers/admin/users.py).                                               *)
(*                                                                         *)
(* The handlers that count attempts hold the row and are one action each.  *)
(* /setup and the admin's actions do not: they read the row, and their     *)
(* commit writes the columns they changed over whatever the row holds by   *)
(* then.  Time passes in ticks, as far as the limits can tell it.          *)
(***************************************************************************)
EXTENDS Integers, FiniteSets

CONSTANTS Pins,         \* PINs in the right format
          CommonPins,   \* those of the blacklist
          MaxAttempts,  \* settings.pin_max_attempts
          LockTime,     \* settings.pin_lock_minutes, in ticks
          CodeTtl,      \* settings.pin_reset_code_ttl_seconds, in ticks
          IdleTime,     \* settings.pin_session_ttl_seconds, in ticks
          MaxResets,    \* PIN_RESET_MAX_PER_WINDOW
          Price,        \* AppSettings.pin_reset_price_usd
          Funds,        \* bound: the USD balance at first
          Requests,     \* requests that hold no lock
          MaxEpoch      \* bound: revocations

ASSUME PinAssumption ==
  /\ CommonPins \subseteq Pins
  /\ MaxAttempts \in Nat \ {0} /\ MaxResets \in Nat /\ MaxEpoch \in Nat
  /\ CodeTtl \in Nat \ {0} /\ LockTime \in Nat /\ LockTime > CodeTtl
  /\ IdleTime \in Nat \ {0} /\ Price \in Nat /\ Funds \in Nat

VARIABLES row,          \* the PIN columns of the user
          free,         \* pin_reset_attempts of the running window
          balance,      \* the USD balance
          work,         \* requests between their read and their commit
          tokens,       \* PIN session tokens handed out
          guesses,      \* observer: wrong codes since the code or a proof of the PIN
          revocations,  \* observer: commits that revoke the sessions
          crossed       \* observer: an admin's commit overtook another revocation

vars == <<row, free, balance, work, tokens, guesses, revocations, crossed>>

None == "none"

Columns == [pin : Pins \cup {None}, attempts : 0..MaxAttempts, lock : 0..LockTime,
            code : 0..CodeTtl, epoch : 0..MaxEpoch, idle : 0..IdleTime + 1]

Blank(pin) ==
  [pin |-> pin, attempts |-> 0, lock |-> 0, code |-> 0, epoch |-> 0, idle |-> 0]

(* A request between two of its steps: what for, its new PIN, its copy.    *)
Idle == [for |-> "idle", pin |-> None, row |-> Blank(None)]

Init ==
  /\ \E p \in Pins \cup {None} : row = Blank(p)
  /\ free = 0 /\ balance = Funds /\ work = [r \in Requests |-> Idle]
  /\ tokens = {} /\ guesses = 0 /\ revocations = 0 /\ crossed = FALSE

IsLocked == row.lock > 0

Token(cols) == [epoch |-> cols.epoch, since |-> revocations]

(* What require_pin_session lets through.                                  *)
Admits(token) ==
  /\ row.pin # None
  /\ token.epoch = row.epoch
  /\ row.idle =< IdleTime

(* Mutant: a wrong attempt is counted, but the lock is forgotten.          *)
WrongAttemptUnlocked ==
  IF row.attempts + 1 >= MaxAttempts THEN [row EXCEPT !.attempts = 0]
  ELSE [row EXCEPT !.attempts = @ + 1]

(* The counter of wrong PINs and wrong codes.                              *)
WrongAttempt ==
  IF row.attempts + 1 >= MaxAttempts
  THEN [row EXCEPT !.attempts = 0, !.lock = LockTime]
  ELSE [row EXCEPT !.attempts = @ + 1]

Proved(cols) == [cols EXCEPT !.attempts = 0, !.lock = 0, !.idle = 0]

Check(pin) ==
  /\ row.pin # None /\ ~IsLocked
  /\ IF pin = row.pin
     THEN row' = Proved(row) /\ tokens' = tokens \cup {Token(row)} /\ guesses' = 0
     ELSE row' = WrongAttempt /\ UNCHANGED <<tokens, guesses>>
  /\ UNCHANGED <<free, balance, work, revocations, crossed>>

(* Mutant: the epoch stays.                                                *)
NewPinKeepsSessions(cols, pin) == [Proved(cols) EXCEPT !.pin = pin]

(* A new PIN revokes the sessions of the old one.                          *)
NewPin(cols, pin) == [Proved(cols) EXCEPT !.pin = pin, !.epoch = @ + 1]

Revoke ==
  /\ revocations' = revocations + 1
  /\ tokens' = tokens \cup {[epoch |-> row'.epoch, since |-> revocations + 1]}

Change(old, new) ==
  /\ row.pin # None /\ ~IsLocked /\ row.epoch < MaxEpoch
  /\ IF old = row.pin
     THEN /\ new \notin CommonPins
          /\ row' = NewPin(row, new) /\ Revoke /\ guesses' = 0
     ELSE row' = WrongAttempt /\ UNCHANGED <<tokens, revocations, guesses>>
  /\ UNCHANGED <<free, balance, work, crossed>>

(* A code replaces the one before it; it is sent before the commit, and    *)
(* kept whether or not the message arrived.                                *)
Mint == row' = [row EXCEPT !.code = CodeTtl] /\ guesses' = 0

ResetRequest ==
  /\ free < MaxResets /\ Mint /\ free' = free + 1
  /\ UNCHANGED <<balance, work, tokens, revocations, crossed>>

(* Mutant: the balance is not looked at.                                   *)
AffordableUnchecked == TRUE

Affordable == Price =< 0 \/ balance >= Price

ResetPaid ==
  /\ Affordable
  /\ Mint /\ balance' = IF Price =< 0 THEN balance ELSE balance - Price
  /\ UNCHANGED <<free, work, tokens, revocations, crossed>>

ResetConfirm(right, new) ==
  /\ ~IsLocked /\ row.code > 0 /\ row.epoch < MaxEpoch
  /\ IF right
     THEN /\ new \notin CommonPins
          /\ row' = [NewPin(row, new) EXCEPT !.code = 0] /\ Revoke /\ guesses' = 0
     ELSE /\ row' = WrongAttempt /\ guesses' = guesses + 1
          /\ UNCHANGED <<tokens, revocations>>
  /\ UNCHANGED <<free, balance, work, crossed>>

(* Requests that hold no lock. *)

Read(r, for, pin) ==
  /\ work[r] = Idle
  /\ work' = [work EXCEPT ![r] = [for |-> for, pin |-> pin, row |-> row]]
  /\ UNCHANGED <<row, free, balance, tokens, guesses, revocations, crossed>>

ReadSetup(r, pin) == row.pin = None /\ pin \notin CommonPins /\ Read(r, "setup", pin)
ReadResetPin(r) == (row.pin # None \/ row.code > 0) /\ Read(r, "reset_pin", None)
ReadInvalidate(r) == Read(r, "invalidate_sessions", None)

(* The session writes the columns whose value differs from what it read.   *)
Written(copy, new) ==
  [c \in DOMAIN row |-> IF new[c] = copy[c] THEN row[c] ELSE new[c]]

Commit(r, for, new) ==
  /\ work[r].for = for
  /\ row' = Written(work[r].row, new) /\ work' = [work EXCEPT ![r] = Idle]
  /\ guesses' = 0
  /\ UNCHANGED <<free, balance>>

Setup(r) ==
  /\ Commit(r, "setup", [Proved(work[r].row) EXCEPT !.pin = work[r].pin, !.code = 0])
  /\ tokens' = tokens \cup {Token(work[r].row)}
  /\ UNCHANGED <<revocations, crossed>>

(* A revocation between the read and the commit of another is lost.        *)
AdminRevokes(r, for, new) ==
  /\ work[r].row.epoch < MaxEpoch
  /\ Commit(r, for, new)
  /\ crossed' = (crossed \/ work[r].row.epoch # row.epoch)
  /\ revocations' = revocations + 1 /\ UNCHANGED tokens

ResetPin(r) ==
  AdminRevokes(r, "reset_pin",
    [work[r].row EXCEPT !.pin = None, !.attempts = 0, !.lock = 0, !.code = 0,
                        !.epoch = @ + 1])

InvalidateSessions(r) ==
  AdminRevokes(r, "invalidate_sessions", [work[r].row EXCEPT !.epoch = @ + 1])

(* A request with an admitted token restarts the idle window.              *)
Use(token) ==
  /\ Admits(token) /\ row.idle > 0
  /\ row' = [row EXCEPT !.idle = 0]
  /\ UNCHANGED <<free, balance, work, tokens, guesses, revocations, crossed>>

Less(n) == IF n > 0 THEN n - 1 ELSE 0

Tick ==
  /\ row' = [row EXCEPT !.lock = Less(@), !.code = Less(@),
                        !.idle = IF @ > IdleTime THEN @ ELSE @ + 1]
  /\ UNCHANGED <<free, balance, work, tokens, guesses, revocations, crossed>>

NewWindow ==
  /\ free > 0 /\ free' = 0
  /\ UNCHANGED <<row, balance, work, tokens, guesses, revocations, crossed>>

Next ==
  \/ \E pin \in Pins : Check(pin)
  \/ \E old, new \in Pins : Change(old, new)
  \/ ResetRequest
  \/ ResetPaid
  \/ \E right \in BOOLEAN, new \in Pins : ResetConfirm(right, new)
  \/ \E r \in Requests, pin \in Pins : ReadSetup(r, pin)
  \/ \E r \in Requests : ReadResetPin(r) \/ ReadInvalidate(r)
  \/ \E r \in Requests : Setup(r) \/ ResetPin(r) \/ InvalidateSessions(r)
  \/ \E t \in tokens : Use(t)
  \/ Tick
  \/ NewWindow

Spec == Init /\ [][Next]_vars

(* Every column within the limits of the settings.                         *)
TypeOK ==
  /\ row \in Columns
  /\ free \in 0..MaxResets /\ balance \in 0..Funds
  /\ work \in [Requests -> [for : {"idle", "setup", "reset_pin", "invalidate_sessions"},
                            pin : Pins \cup {None}, row : Columns]]
  /\ \A t \in tokens : t.epoch \in 0..MaxEpoch

(* Whoever does not know the PIN tries a code wrongly no more than         *)
(* MaxAttempts times: the wrong PINs before, the lock, a code minted while *)
(* the lock lasts and the lifetime of the code never add up to one guess   *)
(* more.                                                                   *)
GuessesBounded == guesses =< MaxAttempts

(* A session opened before the PIN was replaced or reset or the sessions   *)
(* were invalidated admits nothing afterwards, unless an admin's unlocked  *)
(* increment of the epoch was lost over another one.                       *)
RevokedStayRevoked ==
  crossed \/ \A t \in tokens : Admits(t) => t.since = revocations
============================================================================
