--------------------------- MODULE PriceAlertProofs ---------------------------
(***************************************************************************)
(* The safety properties of PriceAlert.tla, for any positions, codes,      *)
(* prices, threshold and number of overlapping jobs.  The invariant relates *)
(* the cache to the messages sent, says of a job about to send why it may, *)
(* and of a copy nobody overtook that it is the row.                       *)
(***************************************************************************)
EXTENDS PriceAlert, TLAPS

\* The cache has an entry exactly when somebody was to be told of it.
CacheIsTold == \A e \in Entry : sent[e] # {} <=> alerted[e] # Absent

Sending(j) == job[j].at = "send"

PendingIsDue ==
  \A j \in Job : Sending(j) =>
    EntryOf(j) \in raced \/ ~Silent(job[j].price, alerted[EntryOf(j)])

RacesAreMarked ==
  \A j, k \in Job : j # k /\ Sending(j) /\ Sending(k) /\ EntryOf(j) = EntryOf(k) =>
    EntryOf(j) \in raced

FreshCopy(j, r) == <<j, r.pos>> \notin stale => row[r.pos].active /\ row[r.pos].t = r.t

FreshCopies ==
  \A j \in Job :
    /\ \A r \in job[j].todo : FreshCopy(j, r)
    /\ job[j].at # "next" => FreshCopy(j, job[j].cur)

AlertInv == TypeOK /\ CacheIsTold /\ PendingIsDue /\ RacesAreMarked /\ FreshCopies
------------------------------------------------------------------------------
LEMMA IdleIsWork == Idle \in Work
<1>1. NoRow \in Snapshot \cup {NoRow} /\ 0 \in MaybePrice
  BY DEF MaybePrice
<1> QED BY <1>1 DEF Idle, Work

\* A step of job j leaves what the other jobs have in hand.
LEMMA OthersKeep ==
  ASSUME job \in [Job -> Work], NEW j \in Job, NEW w \in Work,
         job' = [job EXCEPT ![j] = w]
  PROVE  /\ job' \in [Job -> Work]
         /\ job'[j] = w
         /\ \A k \in Job : k # j => job'[k] = job[k]
OBVIOUS

LEMMA SameHand ==
  ASSUME NEW k \in Job, job'[k] = job[k]
  PROVE  /\ EntryOf(k)' = EntryOf(k)
         /\ Sending(k)' <=> Sending(k)
         /\ AlertInHand(k)' <=> AlertInHand(k)
BY DEF EntryOf, TypeOf, Sending, AlertInHand

\* The type invariant after a step of job j that writes neither rows nor cache.
LEMMA StillTyped ==
  ASSUME TypeOK, NEW j \in Job, UNCHANGED <<row, alerted, sent>>,
         job' \in [Job -> Work], \A k \in Job : k # j => job'[k] = job[k],
         AlertInHand(j)', raced' \subseteq Entry, stale' \subseteq Job \X Position
  PROVE  TypeOK'
<1>1. \A k \in Job : AlertInHand(k)'
  BY SameHand DEF TypeOK, AlertInHand, TypeOf
<1> QED BY <1>1 DEF TypeOK

\* A job beyond Check speaks of an entry the cache can have.
LEMMA EntryInHand ==
  ASSUME TypeOK, NEW j \in Job, job[j].at # "next"
  PROVE  /\ EntryOf(j) \in Entry
         /\ job[j].cur \in Snapshot /\ job[j].cur.pos \in Position
         /\ TypeOf(j) \in AlertType
<1>1. job[j].cur \in Snapshot /\ TypeOf(j) \in AlertType
  BY DEF TypeOK, AlertInHand
<1>2. job[j].cur.pos \in Position
  BY <1>1 DEF Snapshot
<1>3. CodeOf[job[j].cur.pos] \in Code
  BY <1>2, PriceAlertAssumption
<1> QED BY <1>1, <1>2, <1>3 DEF EntryOf, Entry
------------------------------------------------------------------------------
LEMMA InitInv == Init => AlertInv
<1> SUFFICES ASSUME Init PROVE AlertInv
  OBVIOUS
<1>1. /\ \A j \in Job : job[j] = Idle
      /\ \A j \in Job : job[j].at = "next" /\ job[j].todo = {}
  BY DEF Init, Idle
<1>2. TypeOK
  <2>1. row \in [Position -> Row]
    BY PriceAlertAssumption DEF Init, Row
  <2>2. job \in [Job -> Work]
    BY IdleIsWork DEF Init
  <2>3. \A j \in Job : AlertInHand(j)
    BY <1>1 DEF AlertInHand
  <2>4. alerted \in [Entry -> MaybePrice \cup {Absent}] /\ sent \in [Entry -> SUBSET Position]
    BY DEF Init
  <2> QED BY <2>1, <2>2, <2>3, <2>4 DEF Init, TypeOK
<1>3. CacheIsTold
  BY DEF Init, CacheIsTold
<1>4. PendingIsDue /\ RacesAreMarked
  BY <1>1 DEF PendingIsDue, RacesAreMarked, Sending
<1>5. FreshCopies
  BY <1>1 DEF FreshCopies
<1> QED BY <1>2, <1>3, <1>4, <1>5 DEF AlertInv

\* Steps that leave the cache and the senders alone keep what is said of them.
LEMMA QuietStep ==
  ASSUME AlertInv, UNCHANGED <<alerted, sent, raced>>,
         \A k \in Job : Sending(k)' => Sending(k) /\ job'[k] = job[k]
  PROVE  CacheIsTold' /\ PendingIsDue' /\ RacesAreMarked'
<1>1. \A k \in Job : Sending(k)' => EntryOf(k)' = EntryOf(k) /\ Sending(k) /\ job'[k] = job[k]
  BY DEF EntryOf, TypeOf
<1>2. CacheIsTold'
  BY DEF AlertInv, CacheIsTold
<1>3. PendingIsDue'
  <2> SUFFICES ASSUME NEW k \in Job, Sending(k)'
               PROVE  (EntryOf(k) \in raced \/ ~Silent(job[k].price, alerted[EntryOf(k)]))'
    BY DEF PendingIsDue
  <2>1. EntryOf(k) \in raced \/ ~Silent(job[k].price, alerted[EntryOf(k)])
    BY <1>1 DEF AlertInv, PendingIsDue
  <2> QED BY <1>1, <2>1 DEF Silent, Far, Distance
<1>4. RacesAreMarked'
  BY <1>1 DEF AlertInv, RacesAreMarked
<1> QED BY <1>2, <1>3, <1>4
------------------------------------------------------------------------------
\* A job at rest, or between two positions, has no alert in hand.
LEMMA ReadPositionsKeeps ==
  ASSUME AlertInv, NEW j \in Job, ReadPositions(j)
  PROVE  AlertInv'
<1> DEFINE read == {[pos |-> p, t |-> row[p].t] : p \in {q \in Position : row[q].active}}
<1>1. PICK list : list = read
  OBVIOUS
<1>2. PICK w : w = [Idle EXCEPT !.todo = list]
  OBVIOUS
<1>3. job[j] = Idle /\ job' = [job EXCEPT ![j] = w] /\ UNCHANGED <<row, alerted, sent, raced, stale>>
  BY <1>1, <1>2 DEF ReadPositions
<1>4. \A r \in list : r \in Snapshot /\ row[r.pos].active /\ row[r.pos].t = r.t
  BY <1>1 DEF AlertInv, TypeOK, Row, Snapshot
<1>5. \A r, s \in list : r.pos = s.pos => r = s
  BY <1>1
<1>6. w \in Work /\ w.at = "next" /\ w.todo = list
  BY <1>2, <1>4, IdleIsWork DEF Work, Idle
<1>7. job \in [Job -> Work]
  BY DEF AlertInv, TypeOK
<1>8. /\ job' \in [Job -> Work] /\ job'[j] = w
      /\ \A k \in Job : k # j => job'[k] = job[k]
  BY <1>3, <1>6, <1>7, OthersKeep
<1>9. AlertInHand(j)'
  BY <1>5, <1>6, <1>8 DEF AlertInHand
<1>10. TypeOK'
  <2>1. TypeOK /\ raced' \subseteq Entry /\ stale' \subseteq Job \X Position
    BY <1>3 DEF AlertInv, TypeOK
  <2> QED BY <1>3, <1>8, <1>9, <2>1, StillTyped
<1>11. CacheIsTold' /\ PendingIsDue' /\ RacesAreMarked'
  <2>1. ~Sending(j)'
    BY <1>6, <1>8 DEF Sending
  <2>2. \A k \in Job : Sending(k)' => Sending(k) /\ job'[k] = job[k]
    BY <1>8, <2>1, SameHand
  <2> QED BY <1>3, <2>2, QuietStep
<1>12. FreshCopies'
  BY <1>3, <1>4, <1>6, <1>8 DEF AlertInv, FreshCopies, FreshCopy
<1> QED BY <1>10, <1>11, <1>12 DEF AlertInv

LEMMA PassOverKeeps ==
  ASSUME AlertInv, NEW j \in Job, PassOver(j)
  PROVE  AlertInv'
<1>1. PICK r \in job[j].todo :
        /\ job' = [job EXCEPT ![j].todo = @ \ {r}]
        /\ stale' = stale \ {<<j, r.pos>>}
  BY DEF PassOver
<1>2. job[j].at = "next" /\ UNCHANGED <<row, alerted, sent, raced>>
  BY DEF PassOver
<1>3. job \in [Job -> Work] /\ job[j] \in Work
  BY DEF AlertInv, TypeOK
<1>4. PICK w : w = [job[j] EXCEPT !.todo = job[j].todo \ {r}]
  OBVIOUS
<1>5. w \in Work /\ w.at = "next" /\ w.todo = job[j].todo \ {r}
  BY <1>2, <1>3, <1>4 DEF Work
<1>6. job' = [job EXCEPT ![j] = w]
  BY <1>1, <1>4
<1>7. /\ job' \in [Job -> Work] /\ job'[j] = w
      /\ \A k \in Job : k # j => job'[k] = job[k]
  BY <1>3, <1>5, <1>6, OthersKeep
<1>8. \A s, u \in job[j].todo : s.pos = u.pos => s = u
  BY DEF AlertInv, TypeOK, AlertInHand
<1>9. AlertInHand(j)'
  BY <1>5, <1>7, <1>8 DEF AlertInHand
<1>10. TypeOK'
  <2>1. TypeOK /\ raced' \subseteq Entry /\ stale' \subseteq Job \X Position
    BY <1>1, <1>2 DEF AlertInv, TypeOK
  <2> QED BY <1>2, <1>7, <1>9, <2>1, StillTyped
<1>11. CacheIsTold' /\ PendingIsDue' /\ RacesAreMarked'
  <2>1. ~Sending(j)'
    BY <1>5, <1>7 DEF Sending
  <2>2. \A k \in Job : Sending(k)' => Sending(k) /\ job'[k] = job[k]
    BY <1>7, <2>1, SameHand
  <2> QED BY <1>2, <2>2, QuietStep
<1>12. FreshCopies'
  BY <1>1, <1>2, <1>5, <1>7, <1>8 DEF AlertInv, FreshCopies, FreshCopy
<1> QED BY <1>10, <1>11, <1>12 DEF AlertInv

\* A job about to send found the alert due, and marked it if another was about to.
LEMMA CheckKeeps ==
  ASSUME AlertInv, NEW j \in Job, Check(j)
  PROVE  AlertInv'
<1>1. PICK r \in job[j].todo, price \in MaybePrice :
        LET e == <<Reached(r.t, price), CodeOf[r.pos]>>
            silent == Silent(price, alerted[e]) IN
        /\ e \in Entry
        /\ job' = [job EXCEPT ![j] = [at |-> IF silent THEN "stamp" ELSE "send",
                                     todo |-> @.todo \ {r}, cur |-> r, price |-> price]]
        /\ raced' = IF ~silent /\ Senders(e) # {} THEN raced \cup {e} ELSE raced
  BY DEF Check
<1>2. job[j].at = "next" /\ UNCHANGED <<row, alerted, sent, stale>>
  BY DEF Check
<1>3. PICK e : e = <<Reached(r.t, price), CodeOf[r.pos]>>
  OBVIOUS
<1>4. PICK at : at = IF Silent(price, alerted[e]) THEN "stamp" ELSE "send"
  OBVIOUS
<1>5. PICK w : w = [at |-> at, todo |-> job[j].todo \ {r}, cur |-> r, price |-> price]
  OBVIOUS
<1>6. /\ e \in Entry
      /\ job' = [job EXCEPT ![j] = w]
      /\ raced' = IF at = "send" /\ Senders(e) # {} THEN raced \cup {e} ELSE raced
  BY <1>1, <1>3, <1>4, <1>5
<1>7. job \in [Job -> Work] /\ job[j] \in Work /\ job[j].todo \subseteq Snapshot
  BY DEF AlertInv, TypeOK, Work
<1>8. /\ w \in Work /\ w.at = at /\ at \in {"send", "stamp"}
      /\ w.todo = job[j].todo \ {r} /\ w.cur = r /\ w.price = price /\ r \in Snapshot
  BY <1>4, <1>5, <1>7 DEF Work
<1>9. /\ job' \in [Job -> Work] /\ job'[j] = w
      /\ \A k \in Job : k # j => job'[k] = job[k]
  BY <1>6, <1>7, <1>8, OthersKeep
<1>10. EntryOf(j)' = e /\ TypeOf(j)' = Reached(r.t, price)
  BY <1>3, <1>8, <1>9 DEF EntryOf, TypeOf
<1>11. TypeOf(j)' \in AlertType
  BY <1>3, <1>6, <1>10 DEF Entry
<1>12. \A s, u \in job[j].todo : s.pos = u.pos => s = u
  BY DEF AlertInv, TypeOK, AlertInHand
<1>13. AlertInHand(j)'
  BY <1>8, <1>9, <1>11, <1>12 DEF AlertInHand
<1>14. TypeOK'
  <2>1. TypeOK /\ raced' \subseteq Entry /\ stale' \subseteq Job \X Position
    BY <1>2, <1>6 DEF AlertInv, TypeOK
  <2> QED BY <1>2, <1>9, <1>13, <2>1, StillTyped
<1>15. CacheIsTold'
  BY <1>2 DEF AlertInv, CacheIsTold
<1>16. \A k \in Job \ {j} : Sending(k) /\ EntryOf(k) = e => k \in Senders(e)
  BY DEF Senders, Sending
<1>17. PendingIsDue'
  <2> SUFFICES ASSUME NEW k \in Job, Sending(k)'
               PROVE  (EntryOf(k) \in raced \/ ~Silent(job[k].price, alerted[EntryOf(k)]))'
    BY DEF PendingIsDue
  <2>1. CASE k = j
    <3>1. at = "send"
      BY <1>8, <1>9, <2>1 DEF Sending
    <3>2. ~Silent(price, alerted[e])
      BY <1>4, <3>1
    <3> QED BY <1>2, <1>8, <1>9, <1>10, <2>1, <3>2 DEF Silent, Far, Distance
  <2>2. CASE k # j
    <3>1. Sending(k) /\ EntryOf(k)' = EntryOf(k) /\ job'[k] = job[k]
      BY <1>9, <2>2, SameHand
    <3>2. EntryOf(k) \in raced \/ ~Silent(job[k].price, alerted[EntryOf(k)])
      BY <3>1 DEF AlertInv, PendingIsDue
    <3> QED BY <1>2, <1>6, <3>1, <3>2 DEF Silent, Far, Distance
  <2> QED BY <2>1, <2>2
<1>18. RacesAreMarked'
  <2> SUFFICES ASSUME NEW i \in Job, NEW k \in Job, i # k, Sending(i)', Sending(k)',
                      EntryOf(i)' = EntryOf(k)'
               PROVE  (EntryOf(i) \in raced)'
    BY DEF RacesAreMarked
  <2>1. CASE i # j /\ k # j
    <3>1. Sending(i) /\ EntryOf(i)' = EntryOf(i)
      BY <1>9, <2>1, SameHand
    <3>2. Sending(k) /\ EntryOf(k)' = EntryOf(k)
      BY <1>9, <2>1, SameHand
    <3>3. EntryOf(i) = EntryOf(k)
      BY <3>1, <3>2
    <3>4. EntryOf(i) \in raced
      BY <3>1, <3>2, <3>3 DEF AlertInv, RacesAreMarked
    <3> QED BY <1>6, <3>1, <3>4
  <2>2. CASE i = j \/ k = j
    <3>1. at = "send"
      BY <1>8, <1>9, <2>2 DEF Sending
    <3>2. Senders(e) # {}
      <4>1. PICK o \in Job \ {j} : Sending(o)' /\ EntryOf(o)' = e
        BY <1>10, <2>2
      <4>2. Sending(o) /\ EntryOf(o)' = EntryOf(o)
        BY <1>9, <4>1, SameHand
      <4> QED BY <1>16, <4>1, <4>2
    <3>3. e \in raced'
      BY <1>6, <3>1, <3>2
    <3> QED BY <1>10, <2>2, <3>3
  <2> QED BY <2>1, <2>2
<1>19. FreshCopies'
  <2> SUFFICES ASSUME NEW k \in Job
               PROVE  /\ \A s \in job'[k].todo : FreshCopy(k, s)'
                      /\ job'[k].at # "next" => FreshCopy(k, job[k].cur)'
    BY DEF FreshCopies
  <2>1. /\ \A s \in job[k].todo : FreshCopy(k, s)
        /\ job[k].at # "next" => FreshCopy(k, job[k].cur)
    BY DEF AlertInv, FreshCopies
  <2>2. CASE k = j
    <3>1. \A s \in job'[k].todo : FreshCopy(k, s)'
      BY <1>2, <1>8, <1>9, <2>1, <2>2 DEF FreshCopy
    <3>2. job'[k].cur = r
      BY <1>8, <1>9, <2>2
    <3>3. FreshCopy(k, r)
      BY <2>1, <2>2
    <3> QED BY <1>2, <3>1, <3>2, <3>3 DEF FreshCopy
  <2>3. CASE k # j
    <3>1. job'[k] = job[k]
      BY <1>9, <2>3
    <3> QED BY <1>2, <2>1, <3>1 DEF FreshCopy
  <2> QED BY <2>2, <2>3
<1> QED BY <1>14, <1>15, <1>17, <1>18, <1>19 DEF AlertInv

\* A sender remembers its alert; whoever else was about to send it was marked.
LEMMA SendKeeps ==
  ASSUME AlertInv, NEW j \in Job, Send(j)
  PROVE  AlertInv'
<1>1. PICK e : e = EntryOf(j)
  OBVIOUS
<1>2. PICK w : w = [job[j] EXCEPT !.at = "stamp"]
  OBVIOUS
<1>3. /\ job[j].at = "send"
      /\ alerted' = [alerted EXCEPT ![e] = job[j].price]
      /\ sent' = [sent EXCEPT ![e] = @ \cup {job[j].cur.pos}]
      /\ job' = [job EXCEPT ![j] = w]
      /\ raced' = IF Senders(e) = {j} THEN raced \ {e} ELSE raced
      /\ UNCHANGED <<row, stale>>
  BY <1>1, <1>2 DEF Send
<1>4. job \in [Job -> Work] /\ job[j] \in Work
  BY DEF AlertInv, TypeOK
<1>5. /\ w \in Work /\ w.at = "stamp" /\ w.todo = job[j].todo
      /\ w.cur = job[j].cur /\ w.price = job[j].price /\ w.price \in MaybePrice
  BY <1>2, <1>4 DEF Work
<1>6. /\ job' \in [Job -> Work] /\ job'[j] = w
      /\ \A k \in Job : k # j => job'[k] = job[k]
  BY <1>3, <1>4, <1>5, OthersKeep
<1>7. e \in Entry /\ job[j].cur.pos \in Position
  BY <1>1, <1>3, EntryInHand DEF AlertInv
<1>8. w.price # Absent
  BY <1>5, PriceAlertAssumption DEF MaybePrice, Absent
<1>9. alerted \in [Entry -> MaybePrice \cup {Absent}] /\ sent \in [Entry -> SUBSET Position]
  BY DEF AlertInv, TypeOK
<1>10. TypeOK'
  <2>1. \A k \in Job : AlertInHand(k)'
    <3>1. \A k \in Job : AlertInHand(k)
      BY DEF AlertInv, TypeOK
    <3>2. AlertInHand(j)'
      BY <1>3, <1>5, <1>6, <3>1 DEF AlertInHand, TypeOf
    <3> QED BY <1>6, <3>1, <3>2, SameHand
  <2>2. alerted' \in [Entry -> MaybePrice \cup {Absent}]
    BY <1>3, <1>5, <1>9
  <2>3. sent' \in [Entry -> SUBSET Position]
    BY <1>3, <1>7, <1>9
  <2> QED BY <1>3, <1>6, <2>1, <2>2, <2>3 DEF AlertInv, TypeOK
<1>11. CacheIsTold'
  <2> SUFFICES ASSUME NEW f \in Entry PROVE sent'[f] # {} <=> alerted'[f] # Absent
    BY DEF CacheIsTold
  <2>1. sent[f] # {} <=> alerted[f] # Absent
    BY DEF AlertInv, CacheIsTold
  <2>2. CASE f = e
    BY <1>3, <1>5, <1>8, <1>9, <2>2
  <2>3. CASE f # e
    BY <1>3, <1>9, <2>1, <2>3
  <2> QED BY <2>2, <2>3
<1>12. ASSUME NEW k \in Job, Sending(k)'
       PROVE  k # j /\ Sending(k) /\ EntryOf(k)' = EntryOf(k) /\ job'[k] = job[k]
  <2>1. k # j
    BY <1>5, <1>6, <1>12 DEF Sending
  <2> QED BY <1>6, <1>12, <2>1, SameHand
<1>13. Sending(j)
  BY <1>3 DEF Sending
<1>14. ASSUME NEW k \in Job, k # j, Sending(k), EntryOf(k) \in raced
       PROVE  EntryOf(k) \in raced'
  <2>1. EntryOf(k) = e => k \in Senders(e)
    BY <1>14 DEF Senders, Sending
  <2> QED BY <1>3, <1>14, <2>1
<1>15. PendingIsDue'
  <2> SUFFICES ASSUME NEW k \in Job, Sending(k)'
               PROVE  (EntryOf(k) \in raced \/ ~Silent(job[k].price, alerted[EntryOf(k)]))'
    BY DEF PendingIsDue
  <2>1. k # j /\ Sending(k) /\ EntryOf(k)' = EntryOf(k) /\ job'[k] = job[k]
    BY <1>12
  <2>2. CASE EntryOf(k) \in raced
    BY <1>14, <2>1, <2>2
  <2>3. CASE EntryOf(k) \notin raced
    <3>1. EntryOf(k) # e
      BY <1>1, <1>13, <2>1, <2>3 DEF AlertInv, RacesAreMarked
    <3>2. EntryOf(k) \in Entry
      BY <2>1, EntryInHand DEF AlertInv, Sending
    <3>3. alerted'[EntryOf(k)] = alerted[EntryOf(k)]
      BY <1>3, <1>9, <3>1, <3>2
    <3>4. ~Silent(job[k].price, alerted[EntryOf(k)])
      BY <2>1, <2>3 DEF AlertInv, PendingIsDue
    <3> QED BY <2>1, <3>3, <3>4 DEF Silent, Far, Distance
  <2> QED BY <2>2, <2>3
<1>16. RacesAreMarked'
  <2> SUFFICES ASSUME NEW i \in Job, NEW k \in Job, i # k, Sending(i)', Sending(k)',
                      EntryOf(i)' = EntryOf(k)'
               PROVE  (EntryOf(i) \in raced)'
    BY DEF RacesAreMarked
  <2>1. i # j /\ Sending(i) /\ EntryOf(i)' = EntryOf(i)
    BY <1>12
  <2>2. Sending(k) /\ EntryOf(k)' = EntryOf(k)
    BY <1>12
  <2>3. EntryOf(i) = EntryOf(k)
    BY <2>1, <2>2
  <2>4. EntryOf(i) \in raced
    BY <2>1, <2>2, <2>3 DEF AlertInv, RacesAreMarked
  <2> QED BY <1>14, <2>1, <2>4
<1>17. FreshCopies'
  <2> SUFFICES ASSUME NEW k \in Job
               PROVE  /\ \A s \in job'[k].todo : FreshCopy(k, s)'
                      /\ job'[k].at # "next" => FreshCopy(k, job[k].cur)'
    BY DEF FreshCopies
  <2>1. /\ \A s \in job[k].todo : FreshCopy(k, s)
        /\ job[k].at # "next" => FreshCopy(k, job[k].cur)
    BY DEF AlertInv, FreshCopies
  <2>2. job'[k].todo = job[k].todo /\ job'[k].cur = job[k].cur
    BY <1>5, <1>6
  <2>3. job'[k].at # "next" => job[k].at # "next"
    BY <1>3, <1>6
  <2> QED BY <1>3, <2>1, <2>2, <2>3 DEF FreshCopy
<1> QED BY <1>10, <1>11, <1>15, <1>16, <1>17 DEF AlertInv

\* A zero field of the copy leaves the row's: what is merged is targets again.
LEMMA MergedIsTargets ==
  ASSUME NEW old \in Targets, NEW new \in Targets
  PROVE  Merged(old, new) \in Targets
BY DEF Merged, NonZero, Targets

\* Whoever writes a position, the jobs that hold a copy of it are marked.
LEMMA OthersStayFresh ==
  ASSUME AlertInv, NEW p \in Position, NEW k \in Job,
         \A q \in Position : q # p => row'[q] = row[q],
         \A q \in Position : q # p /\ <<k, q>> \notin stale' => <<k, q>> \notin stale,
         <<k, p>> \in Holders(p) => <<k, p>> \in stale',
         job'[k] = job[k]
  PROVE  /\ \A s \in job'[k].todo : FreshCopy(k, s)'
         /\ job'[k].at # "next" => FreshCopy(k, job[k].cur)'
<1>1. /\ \A s \in job[k].todo : FreshCopy(k, s) /\ s.pos \in Position
      /\ job[k].at # "next" => FreshCopy(k, job[k].cur) /\ job[k].cur.pos \in Position
  BY EntryInHand DEF AlertInv, FreshCopies, TypeOK, Work, Snapshot
<1>2. \A s \in job[k].todo : s.pos = p => <<k, p>> \in stale'
  BY DEF Holders
<1>3. job[k].cur.pos = p => <<k, p>> \in stale'
  BY DEF Holders
<1> QED BY <1>1, <1>2, <1>3 DEF FreshCopy

LEMMA StampKeeps ==
  ASSUME AlertInv, NEW j \in Job, Stamp(j)
  PROVE  AlertInv'
<1>1. PICK p : p = job[j].cur.pos
  OBVIOUS
<1>2. PICK w : w = [Idle EXCEPT !.todo = job[j].todo]
  OBVIOUS
<1>3. PICK r : r = [active |-> TRUE, t |-> Merged(row[p].t, job[j].cur.t)]
  OBVIOUS
<1>4. /\ job[j].at = "stamp"
      /\ \/ /\ row' = [row EXCEPT ![p] = r]
            /\ stale' = (stale \cup Holders(p)) \ {<<j, p>>}
         \/ /\ stale' = stale \ {<<j, p>>}
            /\ UNCHANGED row
      /\ job' = [job EXCEPT ![j] = w]
      /\ UNCHANGED <<alerted, sent, raced>>
  BY <1>1, <1>2, <1>3 DEF Stamp
<1>5. job \in [Job -> Work] /\ job[j] \in Work /\ row \in [Position -> Row]
  BY DEF AlertInv, TypeOK
<1>6. w \in Work /\ w.at = "next" /\ w.todo = job[j].todo
  BY <1>2, <1>5, IdleIsWork DEF Work, Idle
<1>7. /\ job' \in [Job -> Work] /\ job'[j] = w
      /\ \A k \in Job : k # j => job'[k] = job[k]
  BY <1>4, <1>5, <1>6, OthersKeep
<1>8. p \in Position /\ job[j].cur \in Snapshot
  BY <1>1, <1>4, EntryInHand DEF AlertInv
<1>9. r \in Row
  <2>1. row[p].t \in Targets /\ job[j].cur.t \in Targets
    BY <1>5, <1>8 DEF Row, Snapshot
  <2> QED BY <1>3, <2>1, MergedIsTargets DEF Row
<1>10. Holders(p) \subseteq Job \X Position
  BY <1>8 DEF Holders
<1>11. /\ \A s, u \in job[j].todo : s.pos = u.pos => s = u
       /\ \A s \in job[j].todo : s.pos # p
  BY <1>1, <1>4 DEF AlertInv, TypeOK, AlertInHand
<1>12. TypeOK'
  <2>1. \A k \in Job : AlertInHand(k)'
    <3>1. \A k \in Job : AlertInHand(k)
      BY DEF AlertInv, TypeOK
    <3>2. AlertInHand(j)'
      BY <1>6, <1>7, <1>11 DEF AlertInHand
    <3> QED BY <1>7, <3>1, <3>2, SameHand
  <2>2. row' \in [Position -> Row]
    BY <1>4, <1>5, <1>8, <1>9
  <2>3. stale' \subseteq Job \X Position
    BY <1>4, <1>10 DEF AlertInv, TypeOK
  <2> QED BY <1>4, <1>7, <2>1, <2>2, <2>3 DEF AlertInv, TypeOK
<1>13. CacheIsTold' /\ PendingIsDue' /\ RacesAreMarked'
  <2>1. ~Sending(j)'
    BY <1>6, <1>7 DEF Sending
  <2>2. \A k \in Job : Sending(k)' => Sending(k) /\ job'[k] = job[k]
    BY <1>7, <2>1, SameHand
  <2> QED BY <1>4, <2>2, QuietStep
<1>14. FreshCopies'
  <2> SUFFICES ASSUME NEW k \in Job
               PROVE  /\ \A s \in job'[k].todo : FreshCopy(k, s)'
                      /\ job'[k].at # "next" => FreshCopy(k, job[k].cur)'
    BY DEF FreshCopies
  <2>1. \A q \in Position : q # p => row'[q] = row[q]
    BY <1>4, <1>5
  <2>2. CASE k = j
    <3>1. \A s \in job[j].todo : FreshCopy(j, s) /\ s.pos \in Position /\ s.pos # p
      BY <1>5, <1>11 DEF AlertInv, FreshCopies, Work, Snapshot
    <3>2. job'[k].todo = job[j].todo /\ job'[k].at = "next"
      BY <1>6, <1>7, <2>2
    <3>3. \A s \in job[j].todo : <<j, s.pos>> \notin stale' => <<j, s.pos>> \notin stale
      BY <1>4, <3>1
    <3> QED BY <2>1, <2>2, <3>1, <3>2, <3>3 DEF FreshCopy
  <2>3. CASE k # j /\ row' = [row EXCEPT ![p] = r]
                  /\ stale' = (stale \cup Holders(p)) \ {<<j, p>>}
    BY <1>7, <1>8, <2>1, <2>3, OthersStayFresh
  <2>4. CASE k # j /\ stale' = stale \ {<<j, p>>} /\ UNCHANGED row
    BY <1>7, <2>4 DEF AlertInv, FreshCopies, FreshCopy
  <2> QED BY <1>4, <2>2, <2>3, <2>4
<1> QED BY <1>12, <1>13, <1>14 DEF AlertInv

LEMMA RewriteKeeps ==
  ASSUME AlertInv, NEW p \in Position, Rewrite(p)
  PROVE  AlertInv'
<1>1. stale' = stale \cup Holders(p) /\ UNCHANGED <<alerted, job, sent, raced>>
  BY DEF Rewrite
<1>2. row \in [Position -> Row] /\ row[p] \in Row
  BY DEF AlertInv, TypeOK
<1>3. row' \in [Position -> Row] /\ \A q \in Position : q # p => row'[q] = row[q]
  <2>1. CASE \E t \in Rewritten(row[p].t) \ {row[p].t} : row' = [row EXCEPT ![p].t = t]
    <3>1. PICK t \in Target : row' = [row EXCEPT ![p].t = t]
      BY <2>1 DEF Rewritten
    <3>2. [row[p] EXCEPT !.t = t] \in Row
      BY <1>2, PriceAlertAssumption DEF Row
    <3> QED BY <1>2, <3>1, <3>2
  <2>2. CASE row' = [row EXCEPT ![p].active = ~@]
    <3>1. [row[p] EXCEPT !.active = ~@] \in Row
      BY <1>2 DEF Row
    <3> QED BY <1>2, <2>2, <3>1
  <2> QED BY <2>1, <2>2 DEF Rewrite
<1>4. Holders(p) \subseteq Job \X Position
  BY DEF Holders
<1>5. TypeOK'
  <2>1. \A k \in Job : AlertInHand(k)'
    BY <1>1, SameHand DEF AlertInv, TypeOK
  <2> QED BY <1>1, <1>3, <1>4, <2>1 DEF AlertInv, TypeOK
<1>6. CacheIsTold' /\ PendingIsDue' /\ RacesAreMarked'
  <2>1. \A k \in Job : Sending(k)' => Sending(k) /\ job'[k] = job[k]
    BY <1>1, SameHand
  <2> QED BY <1>1, <2>1, QuietStep
<1>7. FreshCopies'
  <2> SUFFICES ASSUME NEW k \in Job
               PROVE  /\ \A s \in job'[k].todo : FreshCopy(k, s)'
                      /\ job'[k].at # "next" => FreshCopy(k, job[k].cur)'
    BY DEF FreshCopies
  <2> QED BY <1>1, <1>3, OthersStayFresh
<1> QED BY <1>5, <1>6, <1>7 DEF AlertInv

LEMMA ExpireKeeps ==
  ASSUME AlertInv, NEW e \in Entry, Expire(e)
  PROVE  AlertInv'
<1>1. /\ alerted' = [alerted EXCEPT ![e] = Absent] /\ sent' = [sent EXCEPT ![e] = {}]
      /\ UNCHANGED <<row, job, raced, stale>>
  BY DEF Expire
<1>2. alerted \in [Entry -> MaybePrice \cup {Absent}] /\ sent \in [Entry -> SUBSET Position]
  BY DEF AlertInv, TypeOK
<1>3. \A k \in Job : /\ EntryOf(k)' = EntryOf(k) /\ Sending(k)' <=> Sending(k)
                    /\ AlertInHand(k)' <=> AlertInHand(k)
  BY <1>1, SameHand
<1>4. TypeOK'
  <2>1. \A k \in Job : AlertInHand(k)'
    BY <1>3 DEF AlertInv, TypeOK
  <2> QED BY <1>1, <1>2, <2>1 DEF AlertInv, TypeOK
<1>5. CacheIsTold'
  BY <1>1, <1>2 DEF AlertInv, CacheIsTold
<1>6. PendingIsDue'
  <2> SUFFICES ASSUME NEW k \in Job, Sending(k)'
               PROVE  (EntryOf(k) \in raced \/ ~Silent(job[k].price, alerted[EntryOf(k)]))'
    BY DEF PendingIsDue
  <2>1. Sending(k) /\ EntryOf(k)' = EntryOf(k)
    BY <1>1, SameHand
  <2>2. EntryOf(k) \in Entry
    BY <2>1, EntryInHand DEF AlertInv, Sending
  <2>3. EntryOf(k) \in raced \/ ~Silent(job[k].price, alerted[EntryOf(k)])
    BY <2>1 DEF AlertInv, PendingIsDue
  <2>4. CASE EntryOf(k) = e
    BY <1>1, <1>2, <2>1, <2>4 DEF Silent
  <2>5. CASE EntryOf(k) # e
    <3>1. alerted'[EntryOf(k)] = alerted[EntryOf(k)]
      BY <1>1, <1>2, <2>2, <2>5
    <3> QED BY <1>1, <2>1, <2>3, <3>1 DEF Silent, Far, Distance
  <2> QED BY <2>4, <2>5
<1>7. RacesAreMarked'
  BY <1>1, SameHand DEF AlertInv, RacesAreMarked, Sending, EntryOf, TypeOf
<1>8. FreshCopies'
  BY <1>1 DEF AlertInv, FreshCopies, FreshCopy
<1> QED BY <1>4, <1>5, <1>6, <1>7, <1>8 DEF AlertInv

LEMMA RestartKeeps ==
  ASSUME AlertInv, Restart
  PROVE  AlertInv'
<1>1. /\ \A j \in Job : job'[j] = Idle /\ job'[j].at = "next" /\ job'[j].todo = {}
      /\ job' \in [Job -> Work]
  BY IdleIsWork DEF Restart, Idle
<1>2. \A j \in Job : AlertInHand(j)' /\ ~Sending(j)'
  BY <1>1 DEF AlertInHand, Sending
<1>3. TypeOK'
  BY <1>1, <1>2 DEF AlertInv, TypeOK, Restart
<1>4. CacheIsTold'
  BY DEF CacheIsTold, Restart
<1>5. PendingIsDue' /\ RacesAreMarked'
  BY <1>2 DEF PendingIsDue, RacesAreMarked
<1>6. FreshCopies'
  BY <1>1 DEF FreshCopies
<1> QED BY <1>3, <1>4, <1>5, <1>6 DEF AlertInv

LEMMA StutterKeeps ==
  ASSUME AlertInv, UNCHANGED vars
  PROVE  AlertInv'
<1>1. UNCHANGED <<row, alerted, job, sent, raced, stale>>
  BY DEF vars
<1>2. TypeOK'
  <2>1. \A k \in Job : AlertInHand(k)'
    BY <1>1, SameHand DEF AlertInv, TypeOK
  <2> QED BY <1>1, <2>1 DEF AlertInv, TypeOK
<1>3. CacheIsTold' /\ PendingIsDue' /\ RacesAreMarked'
  <2>1. \A k \in Job : Sending(k)' => Sending(k) /\ job'[k] = job[k]
    BY <1>1, SameHand
  <2> QED BY <1>1, <2>1, QuietStep
<1>4. FreshCopies'
  BY <1>1 DEF AlertInv, FreshCopies, FreshCopy
<1> QED BY <1>2, <1>3, <1>4 DEF AlertInv
------------------------------------------------------------------------------
LEMMA NextInv == AlertInv /\ [Next]_vars => AlertInv'
<1> SUFFICES ASSUME AlertInv, [Next]_vars PROVE AlertInv'
  OBVIOUS
<1>1. ASSUME NEW j \in Job,
             ReadPositions(j) \/ PassOver(j) \/ Check(j) \/ Send(j) \/ Stamp(j)
      PROVE  AlertInv'
  BY <1>1, ReadPositionsKeeps, PassOverKeeps, CheckKeeps, SendKeeps, StampKeeps
<1>2. ASSUME NEW p \in Position, Rewrite(p) PROVE AlertInv'
  BY <1>2, RewriteKeeps
<1>3. ASSUME NEW e \in Entry, Expire(e) PROVE AlertInv'
  BY <1>3, ExpireKeeps
<1>4. CASE Restart
  BY <1>4, RestartKeeps
<1>5. CASE UNCHANGED vars
  BY <1>5, StutterKeeps
<1> QED BY <1>1, <1>2, <1>3, <1>4, <1>5 DEF Next

LEMMA AlwaysInv == Spec => []AlertInv
BY InitInv, NextInv, PTL DEF Spec

\* Rows, cache and jobs keep their types, and no run of the job comes to a
\* position twice: StockPriceAlertStrategy.Execute.
THEOREM AlertsTyped == Spec => []TypeOK
<1>1. AlertInv => TypeOK
  BY DEF AlertInv
<1> QED BY <1>1, AlwaysInv, PTL

\* The de-duplication of sendTelegramMessageAlert: while the cache has an alert it
\* is repeated only for a price beyond the threshold, or by overlapping jobs.
THEOREM Spaced == Spec => AlertsAreSpaced
<1> DEFINE Step(j) ==
      Sends(j) /\ sent[EntryOf(j)] # {} =>
        \/ alerted[EntryOf(j)] # Absent /\ ~Silent(job[j].price, alerted[EntryOf(j)])
        \/ EntryOf(j) \in raced
<1>1. AlertInv => \A j \in Job : Step(j)
  <2> SUFFICES ASSUME AlertInv, NEW j \in Job, Sends(j), sent[EntryOf(j)] # {},
                      EntryOf(j) \notin raced
               PROVE  alerted[EntryOf(j)] # Absent /\ ~Silent(job[j].price, alerted[EntryOf(j)])
    OBVIOUS
  <2>1. Sending(j) /\ EntryOf(j) \in Entry
    BY EntryInHand DEF AlertInv, Sends, Sending
  <2>2. alerted[EntryOf(j)] # Absent
    BY <2>1 DEF AlertInv, CacheIsTold
  <2>3. ~Silent(job[j].price, alerted[EntryOf(j)])
    BY <2>1 DEF AlertInv, PendingIsDue
  <2> QED BY <2>2, <2>3
<1>2. AlertInv /\ [Next]_vars => [\A j \in Job : Step(j)]_vars
  BY <1>1
<1> QED BY <1>2, AlwaysInv, PTL DEF Spec, AlertsAreSpaced

\* A message of Execute tells the truth about the row, unless another writer got
\* in between the read and the message.
THEOREM AlertsTrue == Spec => AlertsAreTrue
<1> DEFINE Step(j) ==
      Sends(j) =>
        LET now == row[job[j].cur.pos] IN
        \/ now.active /\ TypeOf(j) = Reached(now.t, job[j].price)
        \/ <<j, job[j].cur.pos>> \in stale
<1>1. AlertInv => \A j \in Job : Step(j)
  <2> SUFFICES ASSUME AlertInv, NEW j \in Job, Sends(j) PROVE Step(j)
    OBVIOUS
  <2>1. job[j].at # "next"
    BY DEF Sends
  <2>2. FreshCopy(j, job[j].cur)
    BY <2>1 DEF AlertInv, FreshCopies
  <2> QED BY <2>2 DEF FreshCopy, TypeOf
<1>2. AlertInv /\ [Next]_vars => [\A j \in Job : Step(j)]_vars
  BY <1>1
<1> QED BY <1>2, AlwaysInv, PTL DEF Spec, AlertsAreTrue

\* Only Check takes a job from a position to its stamp without a message.
LEMMA SilenceIsChecked ==
  ASSUME AlertInv, NEW j \in Job, [Next]_vars, job[j].at = "next", job'[j].at = "stamp"
  PROVE  Check(j)
<1>1. job \in [Job -> Work]
  BY DEF AlertInv, TypeOK
<1>2. ASSUME NEW k \in Job, ReadPositions(k) \/ PassOver(k) \/ Send(k) \/ Stamp(k) PROVE FALSE
  BY <1>1, <1>2 DEF ReadPositions, PassOver, Send, Stamp, Idle, Work
<1>3. ASSUME NEW k \in Job, Check(k) PROVE k = j
  BY <1>1, <1>3 DEF Check
<1>4. ~Restart
  BY DEF Restart, Idle
<1>5. job' = job => FALSE
  OBVIOUS
<1> QED BY <1>2, <1>3, <1>4, <1>5 DEF Next, Rewrite, Expire, vars

\* shouldTriggerAlert keeps an alert back only when the same alert of that stock
\* was tried, at a price within the threshold of this one.
THEOREM SilenceCaused == Spec => SilenceHasACause
<1> DEFINE Step(j) ==
      job[j].at = "next" /\ job'[j].at = "stamp" =>
        LET e == EntryOf(j)' IN sent[e] # {} /\ ~Far(job'[j].price, alerted[e])
<1>1. AlertInv /\ [Next]_vars => \A j \in Job : Step(j)
  <2> SUFFICES ASSUME AlertInv, [Next]_vars, NEW j \in Job,
                      job[j].at = "next", job'[j].at = "stamp"
               PROVE  sent[EntryOf(j)'] # {} /\ ~Far(job'[j].price, alerted[EntryOf(j)'])
    OBVIOUS
  <2>1. Check(j)
    BY SilenceIsChecked
  <2>2. PICK r \in job[j].todo, price \in MaybePrice :
          LET e == <<Reached(r.t, price), CodeOf[r.pos]>>
              silent == Silent(price, alerted[e]) IN
          /\ e \in Entry
          /\ job' = [job EXCEPT ![j] = [at |-> IF silent THEN "stamp" ELSE "send",
                                       todo |-> @.todo \ {r}, cur |-> r, price |-> price]]
    BY <2>1 DEF Check
  <2>3. PICK e : e = <<Reached(r.t, price), CodeOf[r.pos]>>
    OBVIOUS
  <2>4. /\ job'[j].at = IF Silent(price, alerted[e]) THEN "stamp" ELSE "send"
        /\ job'[j].cur = r /\ job'[j].price = price /\ e \in Entry
    BY <2>2, <2>3 DEF AlertInv, TypeOK
  <2>5. EntryOf(j)' = e
    BY <2>3, <2>4 DEF EntryOf, TypeOf
  <2>6. Silent(price, alerted[e])
    BY <2>4
  <2>7. alerted[e] # Absent /\ ~Far(price, alerted[e])
    BY <2>6 DEF Silent
  <2>8. sent[e] # {}
    BY <2>4, <2>7 DEF AlertInv, CacheIsTold
  <2> QED BY <2>4, <2>5, <2>7, <2>8
<1>2. AlertInv /\ [Next]_vars => [\A j \in Job : Step(j)]_vars
  BY <1>1
<1> QED BY <1>2, AlwaysInv, PTL DEF Spec, SilenceHasACause
===============================================================================
