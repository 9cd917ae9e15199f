---------------------------- MODULE PinGateProofs ----------------------------
(***************************************************************************)
(* The theorems about PinGate: its types, the bound on guessed codes, and  *)
(* that revoked sessions admit nothing, for every set of PINs and requests *)
(* and all limits that satisfy PinAssumption.                              *)
(***************************************************************************)
EXTENDS PinGate, TLAPS

(* The observers' types next to those of the columns.                      *)
Types ==
  /\ TypeOK
  /\ guesses \in Nat /\ revocations \in Nat /\ crossed \in BOOLEAN
  /\ tokens \subseteq [epoch : 0..MaxEpoch, since : Nat]

LEMMA Constants ==
  /\ CommonPins \subseteq Pins
  /\ MaxAttempts \in Nat /\ MaxAttempts > 0 /\ MaxResets \in Nat /\ MaxEpoch \in Nat
  /\ CodeTtl \in Nat /\ CodeTtl > 0 /\ LockTime \in Nat /\ LockTime > CodeTtl
  /\ IdleTime \in Nat /\ IdleTime > 0 /\ Price \in Nat /\ Funds \in Nat
BY PinAssumption DEF PinAssumption

LEMMA BlankIsARow == ASSUME NEW p \in Pins \cup {None} PROVE Blank(p) \in Columns
BY Constants DEF Blank, Columns

LEMMA InitTypes == ASSUME Init PROVE Types
<1>1. row \in Columns /\ Idle.row \in Columns
  BY BlankIsARow DEF Init, Idle
<1>2. free \in 0..MaxResets /\ balance \in 0..Funds
  BY Constants DEF Init
<1>3. work \in [Requests -> [for : {"idle", "setup", "reset_pin", "invalidate_sessions"},
                             pin : Pins \cup {None}, row : Columns]]
  BY <1>1 DEF Init, Idle
<1>4. tokens = {} /\ guesses = 0 /\ revocations = 0 /\ crossed = FALSE
  BY DEF Init
<1> QED
  BY <1>1, <1>2, <1>3, <1>4 DEF Types, TypeOK

(* One column set within its limits keeps the row within all of them.      *)
LEMMA OneColumn ==
  ASSUME NEW c \in Columns
  PROVE  /\ \A p \in Pins \cup {None} : [c EXCEPT !.pin = p] \in Columns
         /\ \A n \in 0..MaxAttempts : [c EXCEPT !.attempts = n] \in Columns
         /\ \A n \in 0..LockTime : [c EXCEPT !.lock = n] \in Columns
         /\ \A n \in 0..CodeTtl : [c EXCEPT !.code = n] \in Columns
         /\ \A n \in 0..MaxEpoch : [c EXCEPT !.epoch = n] \in Columns
         /\ \A n \in 0..IdleTime + 1 : [c EXCEPT !.idle = n] \in Columns
BY DEF Columns

(* A wrong PIN or code is one attempt more, or a lock.                     *)
LEMMA WrongIsARow ==
  ASSUME row \in Columns
  PROVE  /\ WrongAttempt \in Columns
         /\ WrongAttempt.pin = row.pin /\ WrongAttempt.epoch = row.epoch
         /\ WrongAttempt.code = row.code
         /\ \/ /\ row.attempts + 1 >= MaxAttempts
               /\ WrongAttempt.attempts = 0 /\ WrongAttempt.lock = LockTime
            \/ /\ row.attempts + 1 < MaxAttempts
               /\ WrongAttempt.attempts = row.attempts + 1 /\ WrongAttempt.lock = row.lock
<1>1. CASE row.attempts + 1 >= MaxAttempts
  <2> DEFINE reset == [row EXCEPT !.attempts = 0]
  <2>1. WrongAttempt = [reset EXCEPT !.lock = LockTime]
    BY <1>1 DEF WrongAttempt
  <2>2. /\ reset \in Columns /\ reset.attempts = 0 /\ reset.pin = row.pin
        /\ reset.epoch = row.epoch /\ reset.code = row.code
    BY OneColumn, Constants DEF Columns
  <2> HIDE DEF reset
  <2>3. WrongAttempt \in Columns
    BY <2>1, <2>2, OneColumn, Constants
  <2> QED
    BY <1>1, <2>1, <2>2, <2>3 DEF Columns
<1>2. CASE row.attempts + 1 < MaxAttempts
  BY <1>2, Constants DEF WrongAttempt, Columns
<1> QED
  BY <1>1, <1>2, Constants DEF Columns

LEMMA ProvedIsARow ==
  ASSUME NEW c \in Columns
  PROVE  /\ Proved(c) \in Columns
         /\ Proved(c).attempts = 0 /\ Proved(c).lock = 0 /\ Proved(c).idle = 0
         /\ Proved(c).pin = c.pin /\ Proved(c).code = c.code /\ Proved(c).epoch = c.epoch
<1> DEFINE a == [c EXCEPT !.attempts = 0]
           b == [a EXCEPT !.lock = 0]
<1>1. Proved(c) = [b EXCEPT !.idle = 0]
  BY DEF Proved
<1>2. a \in Columns
  BY OneColumn, Constants
<1> HIDE DEF a
<1>3. b \in Columns
  BY <1>2, OneColumn, Constants
<1> HIDE DEF b
<1>4. Proved(c) \in Columns
  BY <1>1, <1>3, OneColumn, Constants
<1> USE DEF a
<1> QED
  BY <1>4 DEF Proved, Columns

LEMMA NewPinIsARow ==
  ASSUME NEW c \in Columns, NEW p \in Pins, c.epoch < MaxEpoch
  PROVE  /\ NewPin(c, p) \in Columns
         /\ NewPin(c, p).attempts = 0 /\ NewPin(c, p).lock = 0 /\ NewPin(c, p).idle = 0
         /\ NewPin(c, p).pin = p /\ NewPin(c, p).code = c.code
         /\ NewPin(c, p).epoch = c.epoch + 1
<1> DEFINE a == Proved(c)
           b == [a EXCEPT !.pin = p]
<1>1. /\ a \in Columns /\ a.attempts = 0 /\ a.lock = 0 /\ a.idle = 0
      /\ a.code = c.code /\ a.epoch = c.epoch
  BY ProvedIsARow
<1>2. NewPin(c, p) = [b EXCEPT !.epoch = a.epoch + 1]
  BY DEF NewPin
<1> HIDE DEF a
<1>3. b \in Columns
  BY <1>1, OneColumn
<1>4. a.epoch + 1 \in 0..MaxEpoch
  BY <1>1, Constants DEF Columns
<1>5. /\ b.attempts = 0 /\ b.lock = 0 /\ b.idle = 0
      /\ b.pin = p /\ b.code = c.code
  BY <1>1 DEF Columns
<1> HIDE DEF b
<1>6. NewPin(c, p) \in Columns
  BY <1>2, <1>3, <1>4, OneColumn
<1> QED
  BY <1>1, <1>2, <1>3, <1>5, <1>6 DEF Columns

(* Columns written over the row by a commit keep their limits.             *)
LEMMA WrittenIsARow ==
  ASSUME row \in Columns, NEW copy \in Columns, NEW new \in Columns
  PROVE  /\ Written(copy, new) \in Columns
         /\ Written(copy, new).epoch = IF new.epoch = copy.epoch THEN row.epoch ELSE new.epoch
         /\ Written(copy, new).attempts = IF new.attempts = copy.attempts THEN row.attempts
                                                                          ELSE new.attempts
BY DEF Written, Columns

(* What a commit brings: the columns of /setup, of a reset and of an       *)
(* invalidation, from the copy they were read into.                        *)
LEMMA SetupIsARow ==
  ASSUME NEW c \in Columns, NEW p \in Pins \cup {None}
  PROVE  LET new == [Proved(c) EXCEPT !.pin = p, !.code = 0]
         IN new \in Columns /\ new.epoch = c.epoch /\ new.attempts = 0
<1> DEFINE a == Proved(c)
           b == [a EXCEPT !.pin = p]
<1>1. a \in Columns /\ a.attempts = 0 /\ a.epoch = c.epoch
  BY ProvedIsARow
<1> HIDE DEF a
<1>2. b \in Columns /\ b.epoch = a.epoch /\ b.attempts = a.attempts
  BY <1>1, OneColumn DEF Columns
<1>3. [a EXCEPT !.pin = p, !.code = 0] = [b EXCEPT !.code = 0]
  OBVIOUS
<1> HIDE DEF b
<1>4. [b EXCEPT !.code = 0] \in Columns
  BY <1>2, OneColumn, Constants
<1>5. [b EXCEPT !.code = 0].epoch = a.epoch /\ [b EXCEPT !.code = 0].attempts = a.attempts
  BY <1>2 DEF Columns
<1> QED
  BY <1>1, <1>3, <1>4, <1>5 DEF a

LEMMA ResetIsARow ==
  ASSUME NEW c \in Columns, c.epoch < MaxEpoch
  PROVE  LET new == [c EXCEPT !.pin = None, !.attempts = 0, !.lock = 0, !.code = 0,
                              !.epoch = @ + 1]
         IN new \in Columns /\ new.epoch = c.epoch + 1 /\ new.attempts = 0
<1> DEFINE x1 == [c EXCEPT !.pin = None]
           x2 == [x1 EXCEPT !.attempts = 0]
           x3 == [x2 EXCEPT !.lock = 0]
           x4 == [x3 EXCEPT !.code = 0]
           new == [c EXCEPT !.pin = None, !.attempts = 0, !.lock = 0, !.code = 0,
                            !.epoch = @ + 1]
<1>1. new = [x4 EXCEPT !.epoch = c.epoch + 1]
  BY DEF Columns
<1>2. x1 \in Columns
  BY OneColumn
<1> HIDE DEF x1
<1>3. x2 \in Columns /\ x2.attempts = 0
  BY <1>2, OneColumn, Constants DEF Columns
<1> HIDE DEF x2
<1>4. x3 \in Columns /\ x3.attempts = 0
  BY <1>3, OneColumn, Constants DEF Columns
<1> HIDE DEF x3
<1>5. x4 \in Columns /\ x4.attempts = 0
  BY <1>4, OneColumn, Constants DEF Columns
<1> HIDE DEF x4
<1>6. c.epoch + 1 \in 0..MaxEpoch
  BY Constants DEF Columns
<1>7. new \in Columns
  BY <1>1, <1>5, <1>6, OneColumn
<1>8. new.epoch = c.epoch + 1 /\ new.attempts = 0
  BY <1>1, <1>5 DEF Columns
<1> QED
  BY <1>7, <1>8

LEMMA InvalidatedIsARow ==
  ASSUME NEW c \in Columns, c.epoch < MaxEpoch
  PROVE  LET new == [c EXCEPT !.epoch = @ + 1]
         IN new \in Columns /\ new.epoch = c.epoch + 1 /\ new.attempts = c.attempts
BY Constants DEF Columns

(* A tick.                                                                 *)
LEMMA TickedIsARow ==
  ASSUME NEW c \in Columns
  PROVE  LET new == [c EXCEPT !.lock = Less(@), !.code = Less(@),
                              !.idle = IF @ > IdleTime THEN @ ELSE @ + 1]
         IN /\ new \in Columns /\ new.lock = Less(c.lock) /\ new.code = Less(c.code)
            /\ new.epoch = c.epoch /\ new.attempts = c.attempts
<1> DEFINE a == [c EXCEPT !.lock = Less(c.lock)]
           b == [a EXCEPT !.code = Less(c.code)]
           idle == IF c.idle > IdleTime THEN c.idle ELSE c.idle + 1
           new == [c EXCEPT !.lock = Less(@), !.code = Less(@),
                            !.idle = IF @ > IdleTime THEN @ ELSE @ + 1]
<1>1. Less(c.lock) \in 0..LockTime /\ Less(c.code) \in 0..CodeTtl /\ idle \in 0..IdleTime + 1
  BY Constants DEF Columns, Less
<1>2. new = [b EXCEPT !.idle = idle]
  BY DEF Columns
<1>3. /\ a \in Columns /\ a.lock = Less(c.lock)
      /\ a.epoch = c.epoch /\ a.attempts = c.attempts
  BY <1>1, OneColumn DEF Columns
<1> HIDE DEF a, idle
<1>4. /\ b \in Columns /\ b.lock = Less(c.lock) /\ b.code = Less(c.code)
      /\ b.epoch = c.epoch /\ b.attempts = c.attempts
  BY <1>1, <1>3, OneColumn DEF Columns
<1> HIDE DEF b, new
<1>5. /\ new \in Columns /\ new.lock = Less(c.lock) /\ new.code = Less(c.code)
      /\ new.epoch = c.epoch /\ new.attempts = c.attempts
  BY <1>1, <1>2, <1>4, OneColumn DEF Columns
<1> QED
  BY <1>5 DEF new

(* The copies of the requests, and what they are for.                      *)
LEMMA CopiesAreRows ==
  ASSUME Types, NEW r \in Requests
  PROVE  work[r].row \in Columns /\ work[r].pin \in Pins \cup {None}
BY DEF Types, TypeOK

(* Every action keeps the types: what the commits write are rows, and the  *)
(* epochs stay under their bound.                                          *)
LEMMA TypesStep == ASSUME Types, [Next]_vars PROVE Types'
<1>1. /\ row \in Columns /\ guesses \in Nat /\ revocations \in Nat /\ crossed \in BOOLEAN
      /\ tokens \subseteq [epoch : 0..MaxEpoch, since : Nat]
      /\ free \in 0..MaxResets /\ balance \in 0..Funds
      /\ work \in [Requests -> [for : {"idle", "setup", "reset_pin", "invalidate_sessions"},
                                pin : Pins \cup {None}, row : Columns]]
  BY DEF Types, TypeOK
<1>2. row.epoch \in 0..MaxEpoch
  BY <1>1 DEF Columns
<1>3. ASSUME NEW pin \in Pins, Check(pin) PROVE Types'
  <2>1. row' \in Columns /\ tokens' \subseteq [epoch : 0..MaxEpoch, since : Nat]
    BY <1>1, <1>2, <1>3, WrongIsARow, ProvedIsARow DEF Check, Token
  <2> QED
    BY <1>1, <1>3, <2>1 DEF Check, Types, TypeOK
<1>4. ASSUME NEW old \in Pins, NEW new \in Pins, Change(old, new) PROVE Types'
  <2>1. row' \in Columns
    BY <1>1, <1>4, WrongIsARow, NewPinIsARow DEF Change
  <2>2. /\ tokens' \subseteq [epoch : 0..MaxEpoch, since : Nat]
        /\ revocations' \in Nat /\ guesses' \in Nat
    BY <1>1, <1>4, <2>1 DEF Change, Revoke, Columns
  <2> QED
    BY <1>1, <1>4, <2>1, <2>2 DEF Change, Types, TypeOK
<1>5. ASSUME Mint, UNCHANGED <<work, tokens, revocations, crossed>>,
             free' \in 0..MaxResets, balance' \in 0..Funds
      PROVE  Types'
  <2>1. row' \in Columns
    BY <1>1, <1>5, OneColumn, Constants DEF Mint
  <2> QED
    BY <1>1, <1>5, <2>1 DEF Mint, Types, TypeOK
<1>6. CASE ResetRequest
  BY <1>1, <1>5, <1>6, Constants DEF ResetRequest
<1>7. CASE ResetPaid
  BY <1>1, <1>5, <1>7, Constants DEF ResetPaid, Affordable
<1>8. ASSUME NEW right \in BOOLEAN, NEW new \in Pins, ResetConfirm(right, new) PROVE Types'
  <2>1. row' \in Columns
    <3>1. CASE right
      <4>1. NewPin(row, new) \in Columns
        BY <1>1, <1>8, NewPinIsARow DEF ResetConfirm
      <4>2. row' = [NewPin(row, new) EXCEPT !.code = 0]
        BY <1>8, <3>1 DEF ResetConfirm
      <4> QED
        BY <4>1, <4>2, OneColumn, Constants
    <3>2. CASE ~right
      BY <1>1, <1>8, <3>2, WrongIsARow DEF ResetConfirm
    <3> QED
      BY <3>1, <3>2
  <2>2. /\ tokens' \subseteq [epoch : 0..MaxEpoch, since : Nat]
        /\ revocations' \in Nat /\ guesses' \in Nat
    BY <1>1, <1>8, <2>1 DEF ResetConfirm, Revoke, Columns
  <2> QED
    BY <1>1, <1>8, <2>1, <2>2 DEF ResetConfirm, Types, TypeOK
<1>9. ASSUME NEW r \in Requests, NEW for \in {"setup", "reset_pin", "invalidate_sessions"},
             NEW pin \in Pins \cup {None}, Read(r, for, pin)
      PROVE  Types'
  <2>1. work' \in [Requests -> [for : {"idle", "setup", "reset_pin", "invalidate_sessions"},
                                pin : Pins \cup {None}, row : Columns]]
    BY <1>1, <1>9 DEF Read
  <2> QED
    BY <1>1, <1>9, <2>1 DEF Read, Types, TypeOK
<1>10. ASSUME NEW r \in Requests, NEW for, NEW new \in Columns, Commit(r, for, new)
       PROVE  /\ row' \in Columns /\ guesses' \in Nat
              /\ free' \in 0..MaxResets /\ balance' \in 0..Funds
              /\ work' \in [Requests ->
                   [for : {"idle", "setup", "reset_pin", "invalidate_sessions"},
                    pin : Pins \cup {None}, row : Columns]]
  <2>1. row' \in Columns
    BY <1>1, <1>10, CopiesAreRows, WrittenIsARow DEF Commit
  <2>2. Idle \in [for : {"idle", "setup", "reset_pin", "invalidate_sessions"},
                  pin : Pins \cup {None}, row : Columns]
    BY BlankIsARow DEF Idle
  <2> QED
    BY <1>1, <1>10, <2>1, <2>2 DEF Commit
<1>11. ASSUME NEW r \in Requests, Setup(r) PROVE Types'
  <2>1. /\ row' \in Columns /\ guesses' \in Nat
        /\ free' \in 0..MaxResets /\ balance' \in 0..Funds
        /\ work' \in [Requests ->
             [for : {"idle", "setup", "reset_pin", "invalidate_sessions"},
              pin : Pins \cup {None}, row : Columns]]
    BY <1>10, <1>11, CopiesAreRows, SetupIsARow DEF Setup
  <2>2. work[r].row.epoch \in 0..MaxEpoch
    BY CopiesAreRows DEF Columns
  <2>3. tokens' \subseteq [epoch : 0..MaxEpoch, since : Nat]
    BY <1>1, <1>11, <2>2 DEF Setup, Token
  <2> QED
    BY <1>1, <1>11, <2>1, <2>3 DEF Setup, Types, TypeOK
<1>12. ASSUME NEW r \in Requests, NEW for, NEW new \in Columns, AdminRevokes(r, for, new)
       PROVE  Types'
  <2>1. /\ row' \in Columns /\ guesses' \in Nat
        /\ free' \in 0..MaxResets /\ balance' \in 0..Funds
        /\ work' \in [Requests ->
             [for : {"idle", "setup", "reset_pin", "invalidate_sessions"},
              pin : Pins \cup {None}, row : Columns]]
    BY <1>10, <1>12 DEF AdminRevokes
  <2>2. revocations' \in Nat /\ crossed' \in BOOLEAN /\ tokens' = tokens
    BY <1>1, <1>12 DEF AdminRevokes
  <2> QED
    BY <1>1, <2>1, <2>2 DEF Types, TypeOK
<1>13. ASSUME NEW r \in Requests, ResetPin(r) PROVE Types'
  BY <1>12, <1>13, CopiesAreRows, ResetIsARow DEF ResetPin, AdminRevokes
<1>14. ASSUME NEW r \in Requests, InvalidateSessions(r) PROVE Types'
  BY <1>12, <1>14, CopiesAreRows, InvalidatedIsARow DEF InvalidateSessions, AdminRevokes
<1>15. ASSUME NEW t \in tokens, Use(t) PROVE Types'
  <2>1. row' \in Columns
    <3>1. row' = [row EXCEPT !.idle = 0]
      BY <1>15 DEF Use
    <3>2. 0 \in 0..IdleTime + 1
      BY Constants
    <3> QED
      BY <1>1, <3>1, <3>2, OneColumn
  <2>2. UNCHANGED <<free, balance, work, tokens, guesses, revocations, crossed>>
    BY <1>15 DEF Use
  <2> QED
    BY <1>1, <2>1, <2>2 DEF Types, TypeOK
<1>16. CASE Tick
  <2>1. row' \in Columns
    BY <1>1, <1>16, TickedIsARow DEF Tick
  <2> QED
    BY <1>1, <1>16, <2>1 DEF Tick, Types, TypeOK
<1>17. CASE NewWindow
  BY <1>1, <1>17, Constants DEF NewWindow, Types, TypeOK
<1>18. CASE UNCHANGED vars
  BY <1>1, <1>18 DEF vars, Types, TypeOK
<1> QED
  BY <1>3, <1>4, <1>6, <1>7, <1>8, <1>9, <1>11, <1>13, <1>14, <1>15, <1>16, <1>17, <1>18
     DEF Next, ReadSetup, ReadResetPin, ReadInvalidate

(* The types are an invariant.                                             *)
THEOREM PinTypeCorrect == Spec => []TypeOK
<1>1. Init => Types
  BY InitTypes
<1>2. Types /\ [Next]_vars => Types'
  BY TypesStep
<1>3. Types => TypeOK
  BY DEF Types
<1> QED
  BY <1>1, <1>2, <1>3, PTL DEF Spec

---------------------------------------------------------------------------
(* Why guesses are bounded.  A wrong code is an attempt as well, so while  *)
(* no lock came since the last code or proof, there are no more guesses    *)
(* than attempts; and a lock outlasts every code minted before it.         *)
Guessing ==
  /\ guesses =< MaxAttempts /\ row.attempts < MaxAttempts
  /\ guesses = 0 \/ row.code = 0 \/ row.lock > row.code \/ guesses =< row.attempts

LEMMA GuessingStep ==
  ASSUME Types, Types', Guessing, [Next]_vars
  PROVE  Guessing'
<1>1. /\ row \in Columns /\ row' \in Columns /\ guesses \in Nat
      /\ row.attempts \in 0..MaxAttempts /\ row.lock \in 0..LockTime /\ row.code \in 0..CodeTtl
      /\ row'.attempts \in 0..MaxAttempts /\ row'.lock \in 0..LockTime
      /\ row'.code \in 0..CodeTtl
  BY DEF Types, TypeOK, Columns
<1>2. ASSUME guesses' = 0, row'.attempts < MaxAttempts PROVE Guessing'
  BY <1>2, Constants DEF Guessing
<1>3. ASSUME row' = WrongAttempt, UNCHANGED guesses, row.lock = 0 PROVE Guessing'
  BY <1>1, <1>3, WrongIsARow, Constants DEF Guessing
<1>4. ASSUME NEW pin \in Pins, Check(pin) PROVE Guessing'
  <2>1. CASE pin = row.pin
    BY <1>1, <1>2, <1>4, <2>1, ProvedIsARow, Constants DEF Check
  <2>2. CASE pin # row.pin
    BY <1>1, <1>3, <1>4, <2>2 DEF Check, IsLocked
  <2> QED
    BY <2>1, <2>2
<1>5. ASSUME NEW old \in Pins, NEW new \in Pins, Change(old, new) PROVE Guessing'
  <2>1. CASE old = row.pin
    BY <1>1, <1>2, <1>5, <2>1, NewPinIsARow, Constants DEF Change
  <2>2. CASE old # row.pin
    BY <1>1, <1>3, <1>5, <2>2 DEF Change, IsLocked
  <2> QED
    BY <2>1, <2>2
<1>6. ASSUME Mint PROVE Guessing'
  <2>1. row'.attempts = row.attempts
    BY <1>1, <1>6 DEF Mint, Columns
  <2> QED
    BY <1>2, <1>6, <2>1 DEF Mint, Guessing
<1>7. ASSUME NEW right \in BOOLEAN, NEW new \in Pins, ResetConfirm(right, new) PROVE Guessing'
  <2>1. CASE right
    <3>1. NewPin(row, new) \in Columns /\ NewPin(row, new).attempts = 0
      BY <1>1, <1>7, NewPinIsARow DEF ResetConfirm
    <3>2. row'.attempts = 0
      BY <1>7, <2>1, <3>1 DEF ResetConfirm, Columns
    <3> QED
      BY <1>2, <1>7, <2>1, <3>2, Constants DEF ResetConfirm
  <2>2. CASE ~right
    <3>1. /\ row' = WrongAttempt /\ guesses' = guesses + 1
          /\ row.lock = 0 /\ row.code > 0
      BY <1>1, <1>7, <2>2 DEF ResetConfirm, IsLocked
    <3>2. guesses =< row.attempts
      BY <1>1, <3>1 DEF Guessing
    <3> QED
      BY <1>1, <3>1, <3>2, WrongIsARow, Constants DEF Guessing
  <2> QED
    BY <2>1, <2>2
<1>8. ASSUME NEW r \in Requests, NEW for, NEW pin, Read(r, for, pin) PROVE Guessing'
  BY <1>8 DEF Read, Guessing
<1>9. ASSUME NEW r \in Requests, NEW for, NEW new \in Columns, Commit(r, for, new),
             new.attempts = 0 \/ new.attempts = work[r].row.attempts
      PROVE  Guessing'
  <2>1. row'.attempts = row.attempts \/ row'.attempts = 0
    BY <1>1, <1>9, CopiesAreRows, WrittenIsARow DEF Commit
  <2> QED
    BY <1>2, <1>9, <2>1, Constants DEF Commit, Guessing
<1>10. ASSUME NEW r \in Requests, Setup(r) PROVE Guessing'
  BY <1>9, <1>10, CopiesAreRows, SetupIsARow DEF Setup
<1>11. ASSUME NEW r \in Requests, ResetPin(r) PROVE Guessing'
  BY <1>9, <1>11, CopiesAreRows, ResetIsARow DEF ResetPin, AdminRevokes
<1>12. ASSUME NEW r \in Requests, InvalidateSessions(r) PROVE Guessing'
  BY <1>9, <1>12, CopiesAreRows, InvalidatedIsARow DEF InvalidateSessions, AdminRevokes
<1>13. ASSUME NEW t \in tokens, Use(t) PROVE Guessing'
  <2>1. row'.attempts = row.attempts /\ row'.lock = row.lock /\ row'.code = row.code
    BY <1>1, <1>13 DEF Use, Columns
  <2> QED
    BY <1>13, <2>1 DEF Use, Guessing
<1>14. CASE Tick
  <2>1. /\ row'.attempts = row.attempts /\ guesses' = guesses
        /\ row'.lock = Less(row.lock) /\ row'.code = Less(row.code)
    BY <1>1, <1>14, TickedIsARow DEF Tick
  <2> QED
    BY <1>1, <2>1 DEF Less, Guessing
<1>15. CASE UNCHANGED vars \/ NewWindow
  BY <1>15 DEF vars, NewWindow, Guessing
<1> QED
  BY <1>4, <1>5, <1>6, <1>7, <1>8, <1>10, <1>11, <1>12, <1>13, <1>14, <1>15
     DEF Next, ReadSetup, ReadResetPin, ReadInvalidate, ResetRequest, ResetPaid

(* Whoever does not know the PIN has MaxAttempts codes to try, whatever    *)
(* happened to the PIN before.                                             *)
THEOREM GuessesAreBounded == Spec => []GuessesBounded
<1>1. ASSUME Init PROVE Types /\ Guessing
  <2>1. row.attempts = 0 /\ guesses = 0
    BY <1>1 DEF Init, Blank
  <2> QED
    BY <1>1, <2>1, InitTypes, Constants DEF Guessing
<1>2. Types /\ Guessing /\ [Next]_vars => (Types /\ Guessing)'
  BY TypesStep, GuessingStep
<1>3. Guessing => GuessesBounded
  BY DEF Guessing, GuessesBounded
<1> QED
  BY <1>1, <1>2, <1>3, PTL DEF Spec

---------------------------------------------------------------------------
(* Why a revoked session stays out.  As long as no admin's commit overtook *)
(* another revocation, the epoch counts the revocations; no copy is ahead  *)
(* of it, and a token carries an epoch that is no later than its birth.    *)
Epochs ==
  \/ crossed
  \/ /\ row.epoch = revocations
     /\ \A r \in Requests : work[r].row.epoch =< revocations
     /\ \A t \in tokens : t.epoch =< t.since /\ t.since =< revocations

LEMMA EpochsStep ==
  ASSUME Types, Types', Epochs, [Next]_vars
  PROVE  Epochs'
<1>1. /\ row \in Columns /\ row' \in Columns /\ revocations \in Nat
      /\ crossed \in BOOLEAN /\ crossed' \in BOOLEAN
      /\ row.epoch \in Nat /\ row'.epoch \in Nat
      /\ tokens \subseteq [epoch : 0..MaxEpoch, since : Nat]
      /\ \A r \in Requests : work[r].row \in Columns /\ work[r].row.epoch \in Nat
      /\ \A r \in Requests : work'[r].row \in Columns /\ work'[r].row.epoch \in Nat
  BY Constants DEF Types, TypeOK, Columns
<1>2. SUFFICES ASSUME ~crossed, ~crossed' PROVE Epochs'
  <2>1. ASSUME crossed PROVE crossed'
    BY <1>1, <2>1
       DEF Next, vars, Check, Change, ResetRequest, ResetPaid, ResetConfirm, ReadSetup,
           ReadResetPin, ReadInvalidate, Read, Setup, ResetPin, InvalidateSessions,
           AdminRevokes, Use, Tick, NewWindow
  <2> QED
    BY <1>1, <2>1 DEF Epochs
<1>3. /\ row.epoch = revocations
      /\ \A r \in Requests : work[r].row.epoch =< revocations
      /\ \A t \in tokens : t.epoch =< t.since /\ t.since =< revocations
  BY <1>2 DEF Epochs
<1>4. ASSUME UNCHANGED <<work, tokens, revocations>>, row'.epoch = row.epoch PROVE Epochs'
  BY <1>3, <1>4 DEF Epochs
<1>5. ASSUME UNCHANGED work, Revoke, row'.epoch = row.epoch + 1 PROVE Epochs'
  <2>1. row'.epoch = revocations'
    BY <1>3, <1>5 DEF Revoke
  <2>2. \A r \in Requests : work'[r].row.epoch =< revocations'
    BY <1>1, <1>3, <1>5 DEF Revoke
  <2>3. \A t \in tokens' : t.epoch =< t.since /\ t.since =< revocations'
    BY <1>1, <1>3, <1>5 DEF Revoke
  <2> QED
    BY <2>1, <2>2, <2>3 DEF Epochs
<1>6. ASSUME NEW pin \in Pins, Check(pin) PROVE Epochs'
  <2>1. row'.epoch = row.epoch
    BY <1>1, <1>6, WrongIsARow, ProvedIsARow DEF Check
  <2>2. \A t \in tokens' : t.epoch =< t.since /\ t.since =< revocations
    BY <1>1, <1>3, <1>6 DEF Check, Token
  <2> QED
    BY <1>3, <1>6, <2>1, <2>2 DEF Check, Epochs
<1>7. ASSUME NEW old \in Pins, NEW new \in Pins, Change(old, new) PROVE Epochs'
  <2>1. CASE old = row.pin
    BY <1>1, <1>5, <1>7, <2>1, NewPinIsARow DEF Change
  <2>2. CASE old # row.pin
    BY <1>1, <1>4, <1>7, <2>2, WrongIsARow DEF Change
  <2> QED
    BY <2>1, <2>2
<1>8. ASSUME Mint, UNCHANGED <<work, tokens, revocations>> PROVE Epochs'
  BY <1>1, <1>4, <1>8 DEF Mint, Columns
<1>9. ASSUME NEW right \in BOOLEAN, NEW new \in Pins, ResetConfirm(right, new) PROVE Epochs'
  <2>1. CASE right
    <3>1. NewPin(row, new) \in Columns /\ NewPin(row, new).epoch = row.epoch + 1
      BY <1>1, <1>9, NewPinIsARow DEF ResetConfirm
    <3>2. row'.epoch = row.epoch + 1
      BY <1>9, <2>1, <3>1 DEF ResetConfirm, Columns
    <3> QED
      BY <1>5, <1>9, <2>1, <3>2 DEF ResetConfirm
  <2>2. CASE ~right
    BY <1>1, <1>4, <1>9, <2>2, WrongIsARow DEF ResetConfirm
  <2> QED
    BY <2>1, <2>2
<1>10. ASSUME NEW r \in Requests, NEW for, NEW pin, Read(r, for, pin) PROVE Epochs'
  <2>1. \A q \in Requests : work'[q].row = work[q].row \/ work'[q].row = row
    BY <1>10 DEF Read, Types, TypeOK
  <2> QED
    BY <1>1, <1>3, <1>10, <2>1 DEF Read, Epochs
<1>11. ASSUME NEW r \in Requests, NEW for, NEW new \in Columns, Commit(r, for, new)
       PROVE  /\ \A q \in Requests : work'[q].row.epoch =< revocations
              /\ row'.epoch = IF new.epoch = work[r].row.epoch THEN row.epoch ELSE new.epoch
  <2>1. \A q \in Requests : work'[q].row = work[q].row \/ work'[q].row.epoch = 0
    BY <1>11 DEF Commit, Types, TypeOK, Idle, Blank
  <2>2. row'.epoch = IF new.epoch = work[r].row.epoch THEN row.epoch ELSE new.epoch
    BY <1>1, <1>11, WrittenIsARow DEF Commit
  <2> QED
    BY <1>1, <1>3, <2>1, <2>2
<1>12. ASSUME NEW r \in Requests, Setup(r) PROVE Epochs'
  <2> DEFINE new == [Proved(work[r].row) EXCEPT !.pin = work[r].pin, !.code = 0]
  <2>0. new \in Columns /\ new.epoch = work[r].row.epoch /\ Commit(r, "setup", new)
    BY <1>12, CopiesAreRows, SetupIsARow DEF Setup
  <2> HIDE DEF new
  <2>1. /\ \A q \in Requests : work'[q].row.epoch =< revocations
        /\ row'.epoch = row.epoch
    BY <1>11, <2>0
  <2>2. \A t \in tokens' : t.epoch =< t.since /\ t.since =< revocations
    BY <1>1, <1>3, <1>12 DEF Setup, Token
  <2> QED
    BY <1>3, <1>12, <2>1, <2>2 DEF Setup, Epochs
<1>13. ASSUME NEW r \in Requests, NEW for, NEW new \in Columns, AdminRevokes(r, for, new),
              new.epoch = work[r].row.epoch + 1
       PROVE  Epochs'
  <2>1. /\ \A q \in Requests : work'[q].row.epoch =< revocations
        /\ row'.epoch = new.epoch
    BY <1>1, <1>11, <1>13 DEF AdminRevokes
  <2>2. work[r].row.epoch = row.epoch
    BY <1>1, <1>2, <1>13 DEF AdminRevokes
  <2>3. revocations' = revocations + 1 /\ tokens' = tokens
    BY <1>13 DEF AdminRevokes
  <2>4. \A q \in Requests : work'[q].row.epoch =< revocations'
    BY <1>1, <2>1, <2>3
  <2>5. \A t \in tokens' : t.epoch =< t.since /\ t.since =< revocations'
    BY <1>1, <1>3, <2>3
  <2> QED
    BY <1>3, <1>13, <2>1, <2>2, <2>3, <2>4, <2>5 DEF Epochs
<1>14. ASSUME NEW r \in Requests, ResetPin(r) PROVE Epochs'
  BY <1>13, <1>14, CopiesAreRows, ResetIsARow DEF ResetPin, AdminRevokes
<1>15. ASSUME NEW r \in Requests, InvalidateSessions(r) PROVE Epochs'
  BY <1>13, <1>15, CopiesAreRows, InvalidatedIsARow DEF InvalidateSessions, AdminRevokes
<1>16. ASSUME NEW t \in tokens, Use(t) PROVE Epochs'
  BY <1>1, <1>4, <1>16 DEF Use, Columns
<1>17. CASE Tick
  BY <1>1, <1>4, <1>17, TickedIsARow DEF Tick
<1>18. CASE UNCHANGED vars \/ NewWindow
  BY <1>4, <1>18 DEF vars, NewWindow
<1> QED
  BY <1>6, <1>7, <1>8, <1>9, <1>10, <1>12, <1>14, <1>15, <1>16, <1>17, <1>18
     DEF Next, ReadSetup, ReadResetPin, ReadInvalidate, ResetRequest, ResetPaid

(* A session revoked by a new PIN, a reset or an invalidation admits       *)
(* nothing any more, unless an admin's increment overtook another one.     *)
THEOREM RevokedAreRevoked == Spec => []RevokedStayRevoked
<1>1. ASSUME Init PROVE Types /\ Epochs
  <2>1. row.epoch = 0 /\ revocations = 0 /\ tokens = {}
    BY <1>1 DEF Init, Blank
  <2>2. \A r \in Requests : work[r].row.epoch = 0
    BY <1>1 DEF Init, Idle, Blank
  <2> QED
    BY <1>1, <2>1, <2>2, InitTypes DEF Epochs
<1>2. Types /\ Epochs /\ [Next]_vars => (Types /\ Epochs)'
  BY TypesStep, EpochsStep
<1>3. ASSUME Types, Epochs PROVE RevokedStayRevoked
  <2>1. SUFFICES ASSUME ~crossed, NEW t \in tokens, Admits(t) PROVE t.since = revocations
    BY DEF RevokedStayRevoked
  <2>2. t.epoch = revocations /\ t.epoch =< t.since /\ t.since =< revocations
    BY <1>3, <2>1 DEF Admits, Epochs
  <2>3. t.since \in Nat /\ revocations \in Nat
    BY <1>3 DEF Types
  <2> QED
    BY <2>2, <2>3
<1> QED
  BY <1>1, <1>2, <1>3, PTL DEF Spec
============================================================================
