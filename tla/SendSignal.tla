------------------------------ MODULE SendSignal ------------------------------
(***************************************************************************)
(* SendBuySignal, as the workers of the analyzer and of the generator call *)
(* it at the same time: who subscribes, is the plan a signal, has it been  *)
(* sent, who holds the stock already, and a message to everybody else.     *)
(*                                                                         *)
(* A signal is marked as sent in the in-memory cache, by its stock, entry  *)
(* and score.  The mark is looked up and set in two steps that nothing     *)
(* keeps together, and set before the message goes out.                    *)
(***************************************************************************)
EXTENDS Naturals, FiniteSets

CONSTANTS
  User,
  Stock,           \* exchange and stock code
  Traded,          \* bound: the stocks users buy and sell meanwhile
  Plan,            \* the trade plans CreateTradePlan can return
  Job, Slot,       \* job runs, and the workers of each
  Timeframe, Second,
  MinScore, MinRiskReward,   \* configured
  MaxChanges       \* bound: switches, trades and expired marks

Worker == Job \X Slot

ASSUME SendSignalAssumption ==
  /\ Plan \subseteq [entry : Nat, score : Nat, rr : Nat, fit : BOOLEAN]
  /\ Traded \subseteq Stock
  /\ MinScore \in Nat /\ MinRiskReward \in Nat /\ MaxChanges \in Nat

VARIABLES
  subs,       \* users whose signal alert is on
  holds,      \* <<user, stock>>: active positions
  marks,      \* signals marked as sent, in the cache
  call,       \* what each worker is at
  told,       \* auxiliary: how often a user was told of a signal, 2 being many
  raced,      \* auxiliary: signals two jobs found unmarked at the same time
  moved,      \* auxiliary: who changed his alert or positions during a call
  changes

signalVars == <<subs, holds, marks, call, told, raced, moved, changes>>
------------------------------------------------------------------------------
NoStock == "none"
Signal == Stock \X {p.entry : p \in Plan} \X {p.score : p \in Plan}
NoSignal == <<>>

Step == {"off", "fetch", "store", "quote", "subscribers", "plan", "mark", "holders", "tell",
         "done"}
\* reported: the worker came to its end, whatever SendBuySignal returned to it.
Call == [at : Step, stock : Stock \cup {NoStock}, since : Second, got : SUBSET Timeframe,
         signal : Signal \cup {NoSignal}, users : SUBSET User,
         result : {"none", "reported", "failed", "crashed", "lost"}]
Off(second) == [at |-> "off", stock |-> NoStock, since |-> second, got |-> {},
                signal |-> NoSignal, users |-> {}, result |-> "none"]

InitSignals(second) ==
  /\ subs = User
  /\ holds = {}
  /\ marks = {}
  /\ call = [w \in Worker |-> Off(second)]
  /\ told = [u \in User |-> [s \in Signal |-> 0]]
  /\ raced = {}
  /\ moved = [w \in Worker |-> {}]
  /\ changes = 0
------------------------------------------------------------------------------
\* Mutant: plans of one price are one signal, whatever their score.
HashOfPrice(stock, plan) == <<stock, plan.entry>>

HashIdentifier(stock, plan) == <<stock, plan.entry, plan.score>>

\* A minimum of zero counts as given; any other is replaced by the configured one.
Threshold(minScore) == IF minScore = 0 THEN 0 ELSE MinScore

\* fit: technical signal BUY, position judged safe, not the ATR plan, and an
\* entry no more than 2% below the market.
IsBuySignal(plan, minScore) ==
  plan.fit /\ plan.rr > MinRiskReward /\ plan.score > Threshold(minScore)

Goes(w, at) == call' = [call EXCEPT ![w].at = at]
Ends(w, result) ==
  call' = [call EXCEPT ![w] = [Off(@.since) EXCEPT !.at = "done", !.stock = call[w].stock,
                                                   !.result = result]]

\* The active subscribers of the exchange are read once, at the start.
ReadSubscribers(w) ==
  /\ call[w].at = "subscribers"
  /\ \/ call[w].got = {} /\ Ends(w, "reported") /\ UNCHANGED moved
     \/ /\ call[w].got # {}
        /\ \/ subs = {} /\ Ends(w, "reported")
           \/ subs # {} /\ call' = [call EXCEPT ![w].at = "plan", ![w].users = subs]
        /\ moved' = [moved EXCEPT ![w] = {}]
  /\ UNCHANGED <<subs, holds, marks, told, raced, changes>>

Rivals(w, signal) ==
  {v \in Worker : v[1] # w[1] /\ call[v].at = "mark" /\ call[v].signal = signal}

\* The plan, and the lookup of its mark.  A plan without a reward is none.
MakePlan(w, minScore) ==
  /\ call[w].at = "plan"
  /\ \E plan \in Plan :
       LET signal == HashIdentifier(call[w].stock, plan)
       IN  IF plan.rr > 0 /\ IsBuySignal(plan, minScore) /\ signal \notin marks
           THEN /\ call' = [call EXCEPT ![w].at = "mark", ![w].signal = signal]
                /\ raced' = raced \cup {s \in {signal} : Rivals(w, s) # {}}
           ELSE Ends(w, "reported") /\ UNCHANGED raced
  /\ UNCHANGED <<subs, holds, marks, told, moved, changes>>

Mark(w) ==
  /\ call[w].at = "mark"
  /\ marks' = marks \cup {call[w].signal}
  /\ Goes(w, "holders")
  /\ UNCHANGED <<subs, holds, told, raced, moved, changes>>

Holders(stock) == {u \in User : <<u, stock>> \in holds}

\* Mutant: the holders are told as well.
TellEverybody(w) ==
  /\ call[w].at = "holders" /\ Goes(w, "tell")
  /\ UNCHANGED <<subs, holds, marks, told, raced, moved, changes>>

\* Whoever holds the stock is taken off the list.
ReadHolders(w) ==
  /\ call[w].at = "holders"
  /\ LET users == call[w].users \ Holders(call[w].stock)
     IN  IF users = {} THEN Ends(w, "reported")
         ELSE call' = [call EXCEPT ![w].at = "tell", ![w].users = users]
  /\ UNCHANGED <<subs, holds, marks, told, raced, moved, changes>>

\* One message; when it does not get through, that is logged and no more.
Tell(w) ==
  /\ call[w].at = "tell"
  /\ \E u \in call[w].users :
       /\ told' = [told EXCEPT ![u][call[w].signal] = IF @ = 2 THEN 2 ELSE @ + 1]
       /\ IF call[w].users = {u} THEN Ends(w, "reported")
          ELSE call' = [call EXCEPT ![w].users = @ \ {u}]
  /\ UNCHANGED <<subs, holds, marks, raced, moved, changes>>

\* Reading the subscribers, making the plan or reading the positions fails.  By
\* then the signal may be marked, and nobody was told.
SignalFails(w) ==
  /\ call[w].at \in {"subscribers", "plan", "holders"}
  /\ Ends(w, "reported")
  /\ UNCHANGED <<subs, holds, marks, told, raced, moved, changes>>
------------------------------------------------------------------------------
InFlight(signal) ==
  \E w \in Worker : call[w].signal = signal /\ call[w].at \in {"mark", "holders", "tell"}

\* BuySignalCacheDuration after it was set, which is far longer than a call.
MarkExpires(signal) ==
  /\ signal \in marks /\ ~InFlight(signal)
  /\ changes < MaxChanges /\ changes' = changes + 1
  /\ marks' = marks \ {signal}
  /\ told' = [u \in User |-> [told[u] EXCEPT ![signal] = 0]]
  /\ raced' = raced \ {signal}
  /\ UNCHANGED <<subs, holds, call, moved>>

Changed(u) ==
  /\ changes < MaxChanges /\ changes' = changes + 1
  /\ moved' = [w \in Worker |->
       IF call[w].at \in {"plan", "mark", "holders", "tell"} THEN moved[w] \cup {u} ELSE moved[w]]
  /\ UNCHANGED <<marks, call, told, raced>>

\* The button of /alert_signal offers the opposite of what is set.
SetAlertSignal(u) ==
  /\ Changed(u)
  /\ subs' = IF u \in subs THEN subs \ {u} ELSE subs \cup {u}
  /\ UNCHANGED holds

\* A position is opened or exited, see Positions.
Trade(u, stock) ==
  /\ Changed(u)
  /\ holds' = IF <<u, stock>> \in holds THEN holds \ {<<u, stock>>}
              ELSE holds \cup {<<u, stock>>}
  /\ UNCHANGED subs

UserActs == \E u \in User : SetAlertSignal(u) \/ \E s \in Traded : Trade(u, s)
------------------------------------------------------------------------------
TypeOKSignals ==
  /\ subs \subseteq User
  /\ holds \subseteq User \X Stock
  /\ marks \subseteq Signal /\ raced \subseteq Signal
  /\ call \in [Worker -> Call]
  /\ told \in [User -> [Signal -> 0 .. 2]]
  /\ moved \in [Worker -> SUBSET User]
  /\ changes \in 0 .. MaxChanges
==============================================================================
