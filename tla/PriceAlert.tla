------------------------------ MODULE PriceAlert ------------------------------
(***************************************************************************)
(* The price alert job (internal/strategy/stock_price_alert.go): who is    *)
(* told that a price has reached a target, and who is not.                 *)
(*                                                                         *)
(* A job reads its positions once, then comes to each of them in turn:     *)
(* fetches the price, finds the target it has reached, asks the in-memory  *)
(* cache what was last told of such a target, sends a message, remembers   *)
(* it, and writes the position back.  Nothing keeps two jobs apart, and    *)
(* meanwhile the position is raised, exited or reopened (Positions.tla).   *)
(* The cache knows an alert by its type and the stock's code: not by whose *)
(* position it is, nor by the exchange.                                    *)
(***************************************************************************)
EXTENDS Integers

CONSTANTS
  Position,    \* rows of stock_positions whose price alert is on
  Code,        \* stock codes
  CodeOf,      \* the code of each position
  Price,       \* prices; 0 is one that Yahoo did not give
  Target,      \* the targets a position goes through
  Resend,      \* alert_resend_threshold_percent of the job
  Job          \* runs of the job that may overlap

MaybePrice == Price \cup {0}
Targets == [tp : Nat, sl : Nat, trail : Nat, stop : Nat]   \* trail, stop: 0 is not raised

ASSUME PriceAlertAssumption ==
  /\ CodeOf \in [Position -> Code]
  /\ Price \subseteq Nat \ {0}
  /\ Target \subseteq Targets
  /\ Resend \in Nat

VARIABLES
  row,      \* the positions
  alerted,  \* the cache: the price last told, by alert type and stock code
  job,      \* what each run of the job has in hand
  sent,     \* auxiliary: the positions a message was tried for while the entry lasts
  raced,    \* auxiliary: entries two jobs were about to write at once
  stale     \* auxiliary: <<job, position>> written since the job read it

vars == <<row, alerted, job, sent, raced, stale>>
------------------------------------------------------------------------------
AlertType == {"TAKE_PROFIT", "TRAILING_PROFIT", "TRAILING_STOP", "STOP_LOSS"}

\* The target a price has reached: the trailing ones replace the user's.
Reached(t, price) ==
  IF price >= t.tp /\ t.trail = 0 THEN "TAKE_PROFIT"
  ELSE IF t.trail > 0 /\ price <= t.trail THEN "TRAILING_PROFIT"
  ELSE IF t.stop > 0 /\ price <= t.stop THEN "TRAILING_STOP"
  ELSE IF t.stop = 0 /\ price <= t.sl THEN "STOP_LOSS"
  ELSE "none"

Absent == -1
\* KEY_STOCK_PRICE_ALERT
Entry == AlertType \X Code

Row == [active : BOOLEAN, t : Targets]
Snapshot == [pos : Position, t : Targets]
NoRow == [pos |-> "-", t |-> [tp |-> 0, sl |-> 0, trail |-> 0, stop |-> 0]]
\* todo: positions read and not yet come to; cur, price: the one in hand.
Work == [at : {"next", "send", "stamp"}, todo : SUBSET Snapshot,
         cur : Snapshot \cup {NoRow}, price : MaybePrice]
Idle == [at |-> "next", todo |-> {}, cur |-> NoRow, price |-> 0]

Init ==
  /\ row \in [Position -> [active : {TRUE}, t : {t \in Target : t.trail = 0 /\ t.stop = 0}]]
  /\ alerted = [e \in Entry |-> Absent]
  /\ job = [j \in Job |-> Idle]
  /\ sent = [e \in Entry |-> {}]
  /\ raced = {}
  /\ stale = {}
------------------------------------------------------------------------------
\* The alert a job has decided on.
TypeOf(j) == Reached(job[j].cur.t, job[j].price)
EntryOf(j) == <<TypeOf(j), CodeOf[job[j].cur.pos]>>
\* The jobs that have found entry e to call for a message, and not yet sent it.
Senders(e) == {k \in Job : job[k].at = "send" /\ EntryOf(k) = e}

Distance(a, b) == IF a > b THEN a - b ELSE b - a
Far(price, last) == 100 * Distance(price, last) >= Resend * last

\* Mutant: an alert told at a price of 0 counts as well.
SilentAtZero(price, last) == last # Absent /\ (last = 0 \/ ~Far(price, last))

\* shouldTriggerAlert: the price has not moved by the threshold since it was
\* told.  An entry that is not there reads as 0, and so does one told at 0.
Silent(price, last) == last \notin {Absent, 0} /\ ~Far(price, last)

\* Mutant: the positions are read whether they are active or not.
ReadEverything(j) ==
  /\ job[j] = Idle
  /\ job' = [job EXCEPT ![j] = [Idle EXCEPT !.todo =
       {[pos |-> p, t |-> row[p].t] : p \in Position}]]
  /\ UNCHANGED <<row, alerted, sent, raced, stale>>

\* The active positions, read all at once.
ReadPositions(j) ==
  /\ job[j] = Idle
  /\ job' = [job EXCEPT ![j] = [Idle EXCEPT !.todo =
       {[pos |-> p, t |-> row[p].t] : p \in {q \in Position : row[q].active}}]]
  /\ UNCHANGED <<row, alerted, sent, raced, stale>>

\* The next position has no candles, or a price that reaches none of its targets.
PassOver(j) ==
  /\ job[j].at = "next"
  /\ \E r \in job[j].todo :
       /\ job' = [job EXCEPT ![j].todo = @ \ {r}]
       /\ stale' = stale \ {<<j, r.pos>>}
  /\ UNCHANGED <<row, alerted, sent, raced>>

\* Mutant: a position that is told of stays on the list.
CheckAgain(j) ==
  /\ job[j].at = "next"
  /\ \E r \in job[j].todo, price \in MaybePrice :
       LET e == <<Reached(r.t, price), CodeOf[r.pos]>>
           silent == Silent(price, alerted[e]) IN
       /\ e \in Entry
       /\ job' = [job EXCEPT ![j] = [at |-> IF silent THEN "stamp" ELSE "send",
                                    todo |-> @.todo, cur |-> r, price |-> price]]
       /\ raced' = raced
  /\ UNCHANGED <<row, alerted, sent, stale>>

\* The next position's price reaches a target; the cache decides on a message.
Check(j) ==
  /\ job[j].at = "next"
  /\ \E r \in job[j].todo, price \in MaybePrice :
       LET e == <<Reached(r.t, price), CodeOf[r.pos]>>
           silent == Silent(price, alerted[e]) IN
       /\ e \in Entry
       /\ job' = [job EXCEPT ![j] = [at |-> IF silent THEN "stamp" ELSE "send",
                                    todo |-> @.todo \ {r}, cur |-> r, price |-> price]]
       /\ raced' = IF ~silent /\ Senders(e) # {} THEN raced \cup {e} ELSE raced
  /\ UNCHANGED <<row, alerted, sent, stale>>

\* Mutant: the alert is not remembered.
SendForgotten(j) ==
  /\ job[j].at = "send"
  /\ sent' = [sent EXCEPT ![EntryOf(j)] = @ \cup {job[j].cur.pos}]
  /\ job' = [job EXCEPT ![j].at = "stamp"]
  /\ UNCHANGED <<row, alerted, raced, stale>>

\* sendTelegramMessageAlert: the message is tried, and the price is remembered
\* whether it went out or not.
Send(j) ==
  /\ job[j].at = "send"
  /\ alerted' = [alerted EXCEPT ![EntryOf(j)] = job[j].price]
  /\ sent' = [sent EXCEPT ![EntryOf(j)] = @ \cup {job[j].cur.pos}]
  /\ job' = [job EXCEPT ![j].at = "stamp"]
  /\ raced' = IF Senders(EntryOf(j)) = {j} THEN raced \ {EntryOf(j)} ELSE raced
  /\ UNCHANGED <<row, stale>>

\* A zero field is not written.
NonZero(new, old) == IF new = 0 THEN old ELSE new
Merged(old, new) ==
  [tp |-> NonZero(new.tp, old.tp), sl |-> NonZero(new.sl, old.sl),
   trail |-> NonZero(new.trail, old.trail), stop |-> NonZero(new.stop, old.stop)]

\* The jobs that hold a copy of position p.
Holders(p) ==
  {i \in Job : job[i].cur.pos = p \/ \E r \in job[i].todo : r.pos = p} \X {p}

\* last_price_alert_at, and with it the whole copy, is written back, for an
\* alert that was kept silent too; the update may fail.
Stamp(j) ==
  LET copy == job[j].cur IN
  /\ job[j].at = "stamp"
  /\ \/ /\ row' = [row EXCEPT ![copy.pos] =
              [active |-> TRUE, t |-> Merged(row[copy.pos].t, copy.t)]]
        /\ stale' = (stale \cup Holders(copy.pos)) \ {<<j, copy.pos>>}
     \/ /\ stale' = stale \ {<<j, copy.pos>>}
        /\ UNCHANGED row
  /\ job' = [job EXCEPT ![j] = [Idle EXCEPT !.todo = job[j].todo]]
  /\ UNCHANGED <<alerted, sent, raced>>

------------------------------------------------------------------------------
\* What another writer leaves of a position's levels: none of them goes back to 0.
Rewritten(t) ==
  {u \in Target : /\ u.tp = t.tp /\ u.sl = t.sl
                  /\ t.trail > 0 => u.trail > 0
                  /\ t.stop > 0 => u.stop > 0}

\* Another writer, one of Positions.tla: the monitoring job moves a level, a user
\* exits the position, a copy older than the exit undoes it.
Rewrite(p) ==
  /\ \/ \E t \in Rewritten(row[p].t) \ {row[p].t} : row' = [row EXCEPT ![p].t = t]
     \/ row' = [row EXCEPT ![p].active = ~@]
  /\ stale' = stale \cup Holders(p)
  /\ UNCHANGED <<alerted, job, sent, raced>>

\* alert_cache_duration is over.
Expire(e) ==
  /\ alerted[e] # Absent
  /\ alerted' = [alerted EXCEPT ![e] = Absent]
  /\ sent' = [sent EXCEPT ![e] = {}]
  /\ UNCHANGED <<row, job, raced, stale>>

\* The process is restarted: the cache is empty.
Restart ==
  /\ alerted' = [e \in Entry |-> Absent]
  /\ sent' = [e \in Entry |-> {}]
  /\ job' = [j \in Job |-> Idle]
  /\ raced' = {}
  /\ stale' = {}
  /\ UNCHANGED row

Next ==
  \/ \E j \in Job : \/ ReadPositions(j) \/ PassOver(j) \/ Check(j)
                    \/ Send(j) \/ Stamp(j)
  \/ \E p \in Position : Rewrite(p)
  \/ \E e \in Entry : Expire(e)
  \/ Restart

Spec == Init /\ [][Next]_vars
------------------------------------------------------------------------------
\* A job beyond Check has an alert to give of a position it no longer lists.
AlertInHand(j) ==
  /\ \A r, s \in job[j].todo : r.pos = s.pos => r = s
  /\ job[j].at # "next" =>
       /\ job[j].cur \in Snapshot /\ TypeOf(j) \in AlertType
       /\ \A r \in job[j].todo : r.pos # job[j].cur.pos

\* Positions, cache and jobs have their types, and no job comes to a position twice.
TypeOK ==
  /\ row \in [Position -> Row]
  /\ alerted \in [Entry -> MaybePrice \cup {Absent}]
  /\ job \in [Job -> Work]
  /\ sent \in [Entry -> SUBSET Position]
  /\ raced \subseteq Entry
  /\ stale \subseteq Job \X Position
  /\ \A j \in Job : AlertInHand(j)

Sends(j) == job[j].at = "send" /\ job'[j].at = "stamp"

\* An alert is repeated while the cache has it only when the price has moved by
\* the threshold, unless it was first told at a price of 0 or two jobs checked
\* it before either remembered it.
AlertsAreSpaced ==
  [][\A j \in Job : Sends(j) /\ sent[EntryOf(j)] # {} =>
       \/ alerted[EntryOf(j)] # Absent /\ ~Silent(job[j].price, alerted[EntryOf(j)])
       \/ EntryOf(j) \in raced]_vars

\* A message speaks of an active position and of the target its price has
\* reached, unless the position was written since the job read it.
AlertsAreTrue ==
  [][\A j \in Job : Sends(j) =>
       LET now == row[job[j].cur.pos] IN
       \/ now.active /\ TypeOf(j) = Reached(now.t, job[j].price)
       \/ <<j, job[j].cur.pos>> \in stale]_vars

\* An alert is kept silent only while a message of that alert was tried for some
\* holder of the stock, at a price within the threshold.
SilenceHasACause ==
  [][\A j \in Job : job[j].at = "next" /\ job'[j].at = "stamp" =>
       LET e == EntryOf(j)' IN sent[e] # {} /\ ~Far(job'[j].price, alerted[e])]_vars

\* "Sistem akan kirim pesan kalau harga mencapai take profit atau stop loss yang
\* kamu tentukan": when a position with a reached target is stamped, a message for
\* its own user has been tried.
ReachedIsTold ==
  \A j \in Job : job[j].at = "stamp" =>
    job[j].cur.pos \in sent[EntryOf(j)] \/ alerted[EntryOf(j)] = Absent
==============================================================================
