----------------------------- MODULE Conversation -----------------------------
(***************************************************************************)
(* The dialogues of one chat: /setposition and its eight questions, the    *)
(* exit of a position, /analyze and /cancel.                               *)
(*                                                                         *)
(* The bot keeps two entries per user in its cache, each with an expiry of *)
(* its own: the state, which is the question it waits on, and the draft, a *)
(* pointer to what was answered so far.  Every update has a handler of its *)
(* own, in a goroutine of its own; a handler reads both entries, waits for *)
(* Telegram or the database, and goes on with what it read.                *)
(***************************************************************************)
EXTENDS Naturals, FiniteSets

CONSTANTS
  Handler,         \* updates handled at the same time
  MaxDrafts        \* bound: dialogues ever begun

Draft == 1 .. MaxDrafts

VARIABLES
  state,      \* the question waited on, StateIdle for none
  data,       \* the draft the cache points to, NoDraft for none
  draft,      \* what each dialogue has collected
  hand,       \* what each handler is at
  saved,      \* auxiliary: positions set and exits recorded
  crossed     \* auxiliary: drafts of dialogues two handlers worked on at once

chatVars == <<state, data, draft, hand, saved, crossed>>
------------------------------------------------------------------------------
StateIdle == 0
StateWaitingSetPositionSymbol == 1
StateWaitingSetPositionAlertPrice == 7
StateWaitingSetPositionAlertMonitor == 8
StateWaitingAnalyzeSymbol == 20
StateWaitingExitPositionInputExitPrice == 30
StateWaitingExitPositionInputExitDate == 31
StateWaitingExitPositionConfirm == 32

Asked == 1 .. 6                          \* the questions answered with text
Question == Asked \cup {7, 8}             \* and the two answered with a button
State == {StateIdle} \cup Question \cup {20, 30, 31, 32}
NoDraft == 0

Reply == {"good", "bad", "zero", "negative"}
\* told: the questions whose answer was refused in a message to the user.
Collected == [is : {"none", "set", "exit"}, given : [Question -> {"none", "good", "bad"}],
              told : SUBSET Question, price : {"none", "good", "zero", "negative"},
              dated : BOOLEAN]
Blank(is) == [is |-> is, given |-> [q \in Question |-> "none"], told |-> {},
              price |-> "none", dated |-> FALSE]

\* at: the call the handler waits for.
Hand == [at : {"off", "complain", "ack", "prompt", "edit", "save", "reset", "restart",
               "loading", "show", "position", "askDate", "exit"},
         asked : State, draft : {NoDraft} \cup Draft, reply : Reply \cup {"none"}]
NoHand == [at |-> "off", asked |-> StateIdle, draft |-> NoDraft, reply |-> "none"]

Busy == {h \in Handler : hand[h].at # "off"}
Has(d, is) == d # NoDraft /\ draft[d].is = is
Unused == {d \in Draft : draft[d].is = "none" /\ \A e \in Draft : e < d => draft[e].is # "none"}

InitChat ==
  /\ state = StateIdle
  /\ data = NoDraft
  /\ draft = [d \in Draft |-> Blank("none")]
  /\ hand = [h \in Handler |-> NoHand]
  /\ saved = {}
  /\ crossed = {}
------------------------------------------------------------------------------
Waits(h, at, asked, d, reply) ==
  hand' = [hand EXCEPT ![h] = [at |-> at, asked |-> asked, draft |-> d, reply |-> reply]]
WaitsOn(h, at) == hand' = [hand EXCEPT ![h].at = at]
Done(h) == hand' = [hand EXCEPT ![h] = NoHand]

ResetUserState == state' = StateIdle /\ data' = NoDraft
Begin(d, is, asked) ==
  /\ draft' = [draft EXCEPT ![d] = Blank(is)]
  /\ state' = asked
  /\ data' = d
Give(d, q, answer) == draft' = [draft EXCEPT ![d].given[q] = answer]

\* Every step: handlers that work at the same time cross each other's dialogues.
Crossing(h) ==
  crossed' = crossed \cup
    IF Busy \ {h} = {} THEN {}
    ELSE ({data, data', hand'[h].draft} \cup {hand[g].draft : g \in Busy}) \ {NoDraft}
------------------------------------------------------------------------------
(* /setposition, and /cancel and the cancel button.                        *)

SetPosition(h) ==
  /\ hand[h] = NoHand
  /\ IF state = StateIdle
     THEN /\ \E d \in Unused : Begin(d, "set", StateWaitingSetPositionSymbol)
          /\ UNCHANGED hand
     ELSE Waits(h, "restart", StateIdle, NoDraft, "none") /\ UNCHANGED <<state, data, draft>>
  /\ UNCHANGED saved

\* The middleware has cancelled the dialogue before; a new one begins.
Restarted(h) ==
  /\ hand[h].at = "restart"
  /\ \E d \in Unused : Begin(d, "set", StateWaitingSetPositionSymbol)
  /\ Done(h)
  /\ UNCHANGED saved

Cancel(h) ==
  /\ hand[h] = NoHand
  /\ IF state = StateIdle
     THEN ResetUserState /\ UNCHANGED hand
     ELSE Waits(h, "reset", StateIdle, NoDraft, "none") /\ UNCHANGED <<state, data>>
  /\ UNCHANGED <<draft, saved>>

\* The deferred reset, whatever became of the message before it.
Reset(h) ==
  /\ hand[h].at = "reset"
  /\ ResetUserState
  /\ Done(h)
  /\ UNCHANGED <<draft, saved>>
------------------------------------------------------------------------------
(* The questions of /setposition.                                          *)

\* An answer that parses is stored at once; the symbol is confirmed before the
\* next question, which the others go straight on to.
AnswerQuestion(h, reply) ==
  /\ hand[h] = NoHand /\ state \in Asked /\ Has(data, "set")
  /\ IF reply = "bad"
     THEN Waits(h, "complain", state, data, reply) /\ UNCHANGED <<state, draft>>
     ELSE /\ Give(data, state, "good")
          /\ IF state = StateWaitingSetPositionSymbol
             THEN Waits(h, "ack", state, data, reply) /\ UNCHANGED state
             ELSE Waits(h, "prompt", state, data, reply) /\ state' = state + 1
  /\ UNCHANGED <<data, saved>>

\* Refused in a message, and stored all the same.
Complained(h) ==
  /\ hand[h].at = "complain"
  /\ LET q == hand[h].asked
         d == hand[h].draft
     IN  /\ draft' = [draft EXCEPT ![d].given[q] = "bad", ![d].told = @ \cup {q}]
         /\ IF q = StateWaitingSetPositionSymbol
            THEN WaitsOn(h, "ack") /\ UNCHANGED state
            ELSE WaitsOn(h, "prompt") /\ state' = q + 1
  /\ UNCHANGED <<data, saved>>

Acknowledged(h) ==
  /\ hand[h].at = "ack"
  /\ state' = hand[h].asked + 1
  /\ WaitsOn(h, "prompt")
  /\ UNCHANGED <<data, draft, saved>>

\* The next question is out: the draft is put back into the cache.
Prompted(h) ==
  /\ hand[h].at = "prompt"
  /\ data' = hand[h].draft
  /\ Done(h)
  /\ UNCHANGED <<state, draft, saved>>

\* Mutant: a button counts whatever question is waited on.
WaitedOrNot(q) == TRUE

WaitedOn(q) == state = q

PressAlert(h, q) ==
  /\ hand[h] = NoHand
  /\ IF WaitedOn(q) /\ Has(data, "set")
     THEN /\ Give(data, q, "good")
          /\ Waits(h, "edit", q, data, "none")
          /\ UNCHANGED <<state, data>>
     ELSE ResetUserState /\ UNCHANGED <<draft, hand>>
  /\ UNCHANGED saved

\* Mutant: the second button goes on to a next question like the first.
EditedLikeFirst(h) ==
  /\ hand[h].at = "edit"
  /\ state' = hand[h].asked + 1
  /\ Done(h)
  /\ UNCHANGED <<data, draft, saved>>

\* The keyboard is replaced or not.  After the last question the draft is read
\* once more, to be saved.
Edited(h) ==
  /\ hand[h].at = "edit"
  /\ IF hand[h].asked = StateWaitingSetPositionAlertPrice
     THEN state' = StateWaitingSetPositionAlertMonitor /\ Done(h)
     ELSE /\ Waits(h, IF Has(data, "set") THEN "save" ELSE "reset", StateIdle, data, "none")
          /\ UNCHANGED state
  /\ UNCHANGED <<data, draft, saved>>

\* SetStockPosition, which may refuse; the message either way comes before the reset.
SaveDraft(h) ==
  /\ hand[h].at = "save"
  /\ \/ UNCHANGED saved
     \/ saved' = saved \cup {<<hand[h].draft, draft[hand[h].draft]>>}
  /\ WaitsOn(h, "reset")
  /\ UNCHANGED <<state, data, draft>>
------------------------------------------------------------------------------
(* /analyze, and the exit of a position.                                   *)

\* Only the state is set: a dialogue under way is left with its draft.
StartAnalyze(h) ==
  /\ hand[h] = NoHand
  /\ state' = StateWaitingAnalyzeSymbol
  /\ UNCHANGED <<data, draft, hand, saved>>

AnalyzeSymbol(h) ==
  /\ hand[h] = NoHand /\ state = StateWaitingAnalyzeSymbol
  /\ Waits(h, "loading", state, NoDraft, "none")
  /\ UNCHANGED <<state, data, draft, saved>>

\* The loading message was sent or not, the errand is off, the deferred reset runs.
AnalysisShown(h) ==
  /\ hand[h].at = "loading"
  /\ ResetUserState
  /\ Done(h)
  /\ UNCHANGED <<draft, saved>>

ExitStockPosition(h) ==
  /\ hand[h] = NoHand
  /\ IF state = StateIdle
     THEN Waits(h, "show", StateIdle, NoDraft, "none") /\ UNCHANGED <<state, data>>
     ELSE ResetUserState /\ UNCHANGED hand
  /\ UNCHANGED <<draft, saved>>

\* The position was read and shown with the first question.
ExitShown(h) ==
  /\ hand[h].at = "show"
  /\ \E d \in Unused : Begin(d, "exit", StateWaitingExitPositionInputExitPrice)
  /\ Done(h)
  /\ UNCHANGED saved

AnswerExit(h, reply) ==
  /\ hand[h] = NoHand /\ state \in {30, 31, 32}
  /\ IF Has(data, "exit")
     THEN Waits(h, "position", state, data, reply) /\ UNCHANGED <<state, data>>
     ELSE ResetUserState /\ UNCHANGED hand
  /\ UNCHANGED <<draft, saved>>

\* The position was read.  An answer that does not parse is asked for again.
ExitAnswered(h) ==
  /\ hand[h].at = "position"
  /\ LET d == hand[h].draft
         reply == hand[h].reply
     IN  \/ /\ hand[h].asked = StateWaitingExitPositionInputExitPrice /\ reply # "bad"
            /\ draft' = [draft EXCEPT ![d].price = reply]
            /\ data' = d
            /\ WaitsOn(h, "askDate")
            /\ UNCHANGED state
         \/ /\ hand[h].asked = StateWaitingExitPositionInputExitDate /\ reply = "good"
            /\ draft' = [draft EXCEPT ![d].dated = TRUE]
            /\ state' = StateWaitingExitPositionConfirm
            /\ Done(h)
            /\ UNCHANGED data
         \/ /\ \/ hand[h].asked = StateWaitingExitPositionConfirm
               \/ hand[h].asked = StateWaitingExitPositionInputExitDate /\ reply # "good"
               \/ reply = "bad"
            /\ Done(h)
            /\ UNCHANGED <<state, data, draft>>
  /\ UNCHANGED saved

DateAsked(h) ==
  /\ hand[h].at = "askDate"
  /\ state' = StateWaitingExitPositionInputExitDate
  /\ Done(h)
  /\ UNCHANGED <<data, draft, saved>>

\* A price of zero is no price; one below zero is.
IsComplete(d) == draft[d].price \in {"good", "negative"} /\ draft[d].dated

\* The button is not held against the state, only against the draft.
SaveExitPosition(h) ==
  /\ hand[h] = NoHand
  /\ IF Has(data, "exit") /\ IsComplete(data)
     THEN Waits(h, "exit", StateIdle, data, "none")
     ELSE Waits(h, "reset", StateIdle, NoDraft, "none")
  /\ UNCHANGED <<state, data, draft, saved>>

\* The loading message was shown or not, the errand is off, the deferred reset runs.
ExitHandedOver(h) ==
  /\ hand[h].at = "exit"
  /\ ResetUserState
  /\ Done(h)
  /\ UNCHANGED <<draft, saved>>

\* What the errand makes of the draft: a price below zero is left out.
RecordExit(d) ==
  saved' = saved \cup {<<d, [draft[d] EXCEPT !.price = IF @ = "good" THEN @ ELSE "none"]>>}
------------------------------------------------------------------------------
\* A call fails whose handler returns with the error.
CallFails(h) ==
  /\ hand[h].at \in {"complain", "ack", "prompt", "show", "position", "askDate"}
  /\ Done(h)
  /\ UNCHANGED <<state, data, draft, saved>>

\* The two cache entries expire one by one.
Expire ==
  /\ \/ state # StateIdle /\ state' = StateIdle /\ UNCHANGED data
     \/ data # NoDraft /\ data' = NoDraft /\ UNCHANGED state
  /\ UNCHANGED <<draft, hand, saved, crossed>>
------------------------------------------------------------------------------
ConversationTypeOK ==
  /\ state \in State
  /\ data \in {NoDraft} \cup Draft
  /\ draft \in [Draft -> Collected]
  /\ hand \in [Handler -> Hand]
  /\ saved \subseteq Draft \X Collected
  /\ crossed \subseteq Draft
==============================================================================
