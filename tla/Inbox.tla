------------------------------- MODULE Inbox -------------------------------
(***************************************************************************)
(* A client pages through a list to which rows are added meanwhile: the    *)
(* notifications of a user (routers/notifications.py) or the messages of a *)
(* deal (routers/deal_messages.py).                                        *)
(*                                                                         *)
(* A row has the time its transaction began, gets its number when it is    *)
(* flushed and is seen from the commit on, so that neither times nor       *)
(* numbers appear in order.                                                *)
(***************************************************************************)
EXTENDS Integers, FiniteSets

CONSTANTS MaxId,    \* bound: rows of the list
          MaxTime,  \* bound: the clock
          PageSize  \* the limit of the request

VARIABLES list,     \* the list that is read
          rows,     \* the rows committed
          flushed,  \* rows of transactions under way
          last,     \* the last number given out
          now,      \* the clock, as far as created_at tells times apart
          reader,   \* the client between two pages
          shown     \* how often each row has been on a page

vars == <<list, rows, flushed, last, now, reader, shown>>

Row == [id : 1..MaxId, at : 0..MaxTime]

(* The cursor of the first page lies behind every row.                     *)
NoCursor == [id |-> MaxId + 1, at |-> MaxTime + 1]

Unopened == [stage |-> "closed", cursor |-> NoCursor, wanted |-> {}]

Init ==
  /\ list \in {"notifications", "messages"}
  /\ rows = {} /\ flushed = {} /\ last = 0 /\ now = 0
  /\ reader = Unopened /\ shown = [i \in 1..MaxId |-> 0]

(* notifier.insert, or the message of a deal that is not closed, in a      *)
(* transaction that began at some time.  A broadcast flushes many at once. *)
Insert(began) ==
  /\ last < MaxId /\ began =< now
  /\ last' = last + 1 /\ flushed' = flushed \cup {[id |-> last + 1, at |-> began]}
  /\ UNCHANGED <<list, rows, now, reader, shown>>

CommitRow(x) ==
  /\ rows' = rows \cup {x} /\ flushed' = flushed \ {x}
  /\ UNCHANGED <<list, last, now, reader, shown>>

Rollback(x) ==
  /\ flushed' = flushed \ {x} /\ UNCHANGED <<list, rows, last, now, reader, shown>>

(* Newest first: messages by their number, notifications by their time     *)
(* and, within a time, by their number.                                    *)
Precedes(x, y) ==
  IF list = "messages" THEN x.id > y.id
  ELSE x.at > y.at \/ (x.at = y.at /\ x.id > y.id)

(* Mutant: the cursor of the notifications is their time alone.            *)
BehindInTime(x, cursor) ==
  IF list = "messages" THEN x.id < cursor.id ELSE x.at < cursor.at

(* What the cursor leaves of the list.                                     *)
Behind(x, cursor) == Precedes(cursor, x)

(* The newest PageSize rows behind the cursor.                             *)
IsPage(S) ==
  LET older == {x \in rows : Behind(x, reader.cursor)}
  IN /\ S \subseteq older /\ Cardinality(S) =< PageSize
     /\ S = older \/ Cardinality(S) = PageSize
     /\ \A x \in S, y \in older \ S : Precedes(x, y)

(* The row of a page the next request names as its cursor.                 *)
IsLast(x, S) == x \in S /\ \A y \in S \ {x} : Precedes(y, x)

Numbers(S) == {x.id : x \in S}

Show(S) == shown' = [i \in 1..MaxId |-> IF i \in Numbers(S) THEN shown[i] + 1 ELSE shown[i]]

(* list_notifications, list_messages: a page that is not full is the end.  *)
ReadPage(S) ==
  /\ reader.stage # "end" /\ IsPage(S) /\ Show(S)
  /\ \E x \in S \cup {reader.cursor} :
       /\ S # {} => IsLast(x, S)
       /\ reader' = [stage |-> IF Cardinality(S) < PageSize THEN "end" ELSE "open",
                     cursor |-> x,
                     wanted |-> IF reader.stage = "closed" THEN Numbers(rows) ELSE reader.wanted]
  /\ UNCHANGED <<list, rows, flushed, last, now>>

(* The list is opened again.                                               *)
Reopen ==
  /\ reader.stage # "closed" /\ reader' = Unopened
  /\ shown' = [i \in 1..MaxId |-> 0]
  /\ UNCHANGED <<list, rows, flushed, last, now>>

Tick == now < MaxTime /\ now' = now + 1 /\ UNCHANGED <<list, rows, flushed, last, reader, shown>>

Next ==
  \/ \E t \in 0..MaxTime : Insert(t)
  \/ \E x \in flushed : CommitRow(x) \/ Rollback(x)
  \/ \E S \in SUBSET rows : ReadPage(S)
  \/ Reopen
  \/ Tick

Spec == Init /\ [][Next]_vars

TypeOK ==
  /\ rows \cup flushed \subseteq Row /\ last \in 0..MaxId /\ now \in 0..MaxTime
  /\ shown \in [1..MaxId -> 0..1]
  /\ reader.stage \in {"closed", "open", "end"}
  /\ reader.cursor \in Row \cup {NoCursor} /\ reader.wanted \subseteq 1..MaxId

(* Whatever is added while the client pages, a row that was there when it  *)
(* began is on exactly one page in the end, and no row is on two (the      *)
(* cursor of list_notifications: "otherwise pages would silently drop or   *)
(* duplicate rows").                                                       *)
PagesComplete ==
  /\ \A i \in 1..MaxId : shown[i] =< 1
  /\ reader.stage = "end" => \A i \in reader.wanted : shown[i] = 1
=============================================================================
