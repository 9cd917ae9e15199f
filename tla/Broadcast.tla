----------------------------- MODULE Broadcast -----------------------------
(***************************************************************************)
(* An admin's message to many users: the recipients are listed, then taken *)
(* in chunks, each written and committed, pushed and counted before the    *)
(* next (routers/admin/broadcasts.py, notifier.py, bot/notify.send_dm).    *)
(* A notification has a message by Telegram of its own, which a task sends *)
(* in the background unless its user has switched these off: the echo of   *)
(* the notification, beside the messages the broadcast sends itself.       *)
(* Users appear and disappear meanwhile, a message may not arrive, and the *)
(* process may die anywhere.                                               *)
(***************************************************************************)
EXTENDS Integers, FiniteSets, Sequences

CONSTANTS People,     \* users, as numbers: recipients are listed by id
          ChunkSize

VARIABLES users,      \* users there are
          send,       \* dispatch_inapp and dispatch_dm
          stage,      \* the request
          ids,        \* recipients not yet in a chunk
          chunk,      \* the users of the chunk as it was read
          row,        \* the committed broadcast
          sum,        \* delivered and failed, in memory
          spawned,    \* users with an echo under way
          notes, dms, echoes  \* observer: notifications, messages and echoes each
                              \* user got

vars == <<users, send, stage, ids, chunk, row, sum, spawned, notes, dms, echoes>>

Observers == <<notes, dms, echoes>>

Zero == [delivered |-> 0, failed |-> 0]

Init ==
  /\ users \in SUBSET People /\ send \in [inapp : BOOLEAN, dm : BOOLEAN]
  /\ stage = "count" /\ ids = <<>> /\ chunk = {}
  /\ row = [status |-> "none", total |-> 0, sum |-> Zero] /\ sum = Zero
  /\ spawned = {} /\ notes = [u \in People |-> 0] /\ dms = notes /\ echoes = notes

InOrder(S) == CHOOSE s \in [1..Cardinality(S) -> S] :
                \A i, j \in DOMAIN s : i < j => s[i] < s[j]

(* The number and the list come from two statements.                       *)
Count ==
  /\ stage = "count" /\ stage' = "list"
  /\ row' = [row EXCEPT !.total = Cardinality(users)]
  /\ UNCHANGED <<users, send, ids, chunk, sum, spawned>> /\ UNCHANGED Observers

List ==
  /\ stage = "list" /\ stage' = "next" /\ ids' = InOrder(users)
  /\ row' = [row EXCEPT !.status = "sending"]
  /\ UNCHANGED <<users, send, chunk, sum, spawned>> /\ UNCHANGED Observers

Shorter(n) == IF Len(ids) < n THEN Len(ids) ELSE n

(* Mutant: two chunks have a recipient in common.                          *)
RestOverlapping == SubSeq(ids, IF Len(ids) =< ChunkSize THEN Len(ids) + 1 ELSE ChunkSize, Len(ids))

(* The slices all_user_ids[start : start + _CHUNK_SIZE].                   *)
Rest == SubSeq(ids, ChunkSize + 1, Len(ids))

ReadChunk ==
  /\ stage = "next" /\ ids # <<>> /\ stage' = "write"
  /\ chunk' = {ids[i] : i \in 1..Shorter(ChunkSize)} \cap users
  /\ ids' = Rest
  /\ UNCHANGED <<users, send, row, sum, spawned>> /\ UNCHANGED Observers

(* Without a message by Telegram a user counts as delivered.               *)
InApp == IF send.dm THEN sum ELSE [sum EXCEPT !.delivered = @ + Cardinality(chunk)]

(* An INSERT for a user who is gone fails, and with it the session: the    *)
(* commit raises, nothing of the chunk is kept and the request ends.       *)
WriteChunk ==
  /\ stage = "write"
  /\ IF send.inapp /\ ~(chunk \subseteq users)
     THEN stage' = "dead" /\ UNCHANGED <<notes, sum>>
     ELSE /\ stage' = "dispatch" /\ sum' = InApp
          /\ notes' = [u \in People |-> IF send.inapp /\ u \in chunk THEN notes[u] + 1 ELSE notes[u]]
  /\ UNCHANGED <<users, send, ids, chunk, row, spawned, dms, echoes>>

(* dispatch_after_commit, for every notification of the chunk: the task of *)
(* the echo is started for those who want it, as they were read with the   *)
(* chunk, unless the event could not be published.                         *)
Dispatch ==
  /\ stage = "dispatch" /\ stage' = "push"
  /\ \E wanting \in SUBSET chunk : spawned' = IF send.inapp THEN spawned \cup wanting ELSE spawned
  /\ UNCHANGED <<users, send, ids, chunk, row, sum>> /\ UNCHANGED Observers

(* A task ends: its message arrives or is lost.                            *)
Echo(u) ==
  /\ u \in spawned /\ spawned' = spawned \ {u}
  /\ \E n \in {0, 1} : echoes' = [echoes EXCEPT ![u] = @ + n]
  /\ UNCHANGED <<users, send, stage, ids, chunk, row, sum, notes, dms>>

(* The messages of a chunk that arrive; users are not looked up again.     *)
Push ==
  /\ stage = "push" /\ stage' = "save"
  /\ IF send.dm
     THEN \E ok \in SUBSET chunk :
            /\ dms' = [u \in People |-> IF u \in ok THEN dms[u] + 1 ELSE dms[u]]
            /\ sum' = [delivered |-> sum.delivered + Cardinality(ok),
                       failed |-> sum.failed + Cardinality(chunk \ ok)]
     ELSE UNCHANGED <<dms, sum>>
  /\ UNCHANGED <<users, send, ids, chunk, row, spawned, notes, echoes>>

SaveCounts ==
  /\ stage = "save" /\ stage' = "next" /\ row' = [row EXCEPT !.sum = sum]
  /\ UNCHANGED <<users, send, ids, chunk, sum, spawned>> /\ UNCHANGED Observers

Finish ==
  /\ stage = "next" /\ ids = <<>> /\ stage' = "done"
  /\ row' = [row EXCEPT !.status = "sent", !.sum = sum]
  /\ UNCHANGED <<users, send, ids, chunk, sum, spawned>> /\ UNCHANGED Observers

(* The process dies, and its tasks with it.                                *)
Crash ==
  /\ stage \notin {"done", "dead"} /\ stage' = "dead" /\ spawned' = {}
  /\ UNCHANGED <<users, send, ids, chunk, row, sum>> /\ UNCHANGED Observers

Join(u) ==
  /\ u \in People \ users /\ notes[u] + dms[u] = 0 /\ u \notin chunk
  /\ \A i \in DOMAIN ids : ids[i] # u
  /\ users' = users \cup {u}
  /\ UNCHANGED <<send, stage, ids, chunk, row, sum, spawned>> /\ UNCHANGED Observers

Leave(u) ==
  /\ u \in users /\ users' = users \ {u}
  /\ UNCHANGED <<send, stage, ids, chunk, row, sum, spawned>> /\ UNCHANGED Observers

Next ==
  \/ Count \/ List \/ ReadChunk \/ WriteChunk \/ Dispatch \/ Push
  \/ SaveCounts \/ Finish \/ Crash
  \/ \E u \in People : Echo(u) \/ Join(u) \/ Leave(u)

Spec == Init /\ [][Next]_vars

Numbers == 0..2 * Cardinality(People)

TypeOK ==
  /\ users \subseteq People /\ chunk \subseteq People /\ send \in [inapp : BOOLEAN, dm : BOOLEAN]
  /\ stage \in {"count", "list", "next", "write", "dispatch", "push", "save", "done", "dead"}
  /\ ids \in Seq(People) /\ sum \in [delivered : Numbers, failed : Numbers]
  /\ row \in [status : {"none", "sending", "sent"}, total : Numbers,
              sum : [delivered : Numbers, failed : Numbers]]
  /\ spawned \subseteq People
  /\ notes \in [People -> Nat] /\ dms \in [People -> Nat] /\ echoes \in [People -> Nat]

Total(f) == Cardinality({u \in People : f[u] > 0})

(* What the row of a broadcast says was delivered, was: it never claims    *)
(* more than the users who got the message by the channel that counts; and *)
(* wherever the process died and whoever left, no user is notified twice,  *)
(* sent to twice by the broadcast itself, or gets an echo but the one of   *)
(* their notification (create_broadcast).  A user may well get the message *)
(* and the echo.                                                           *)
CountsBacked ==
  /\ \A u \in People : notes[u] =< 1 /\ dms[u] =< 1 /\ echoes[u] =< notes[u]
  /\ send.dm => row.sum.delivered =< Total(dms)
  /\ send.inapp /\ ~send.dm => row.sum.delivered =< Total(notes)

(* A user gets the broadcast by Telegram once if the admin chose that, and *)
(* not at all otherwise (models.Broadcast: "delivered in-app and/or via    *)
(* Telegram DM"; create_broadcast: "DM dispatch is off").                  *)
TelegramAsChosen ==
  \A u \in People : dms[u] + echoes[u] =< IF send.dm THEN 1 ELSE 0
=============================================================================
