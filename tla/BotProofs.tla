------------------------------ MODULE BotProofs ------------------------------
(***************************************************************************)
(* What Bot.tla states, for any number of handlers, dialogues, errands,    *)
(* batches and answers: its types, the answers its errands show, what the  *)
(* process dies of and what the dialogues record.                          *)
(***************************************************************************)
EXTENDS Bot, TLAPS

\* What a handler knows that waits for a call: the question, and the draft it has
\* in hand.
Knows(r) ==
  /\ r.at \in {"complain", "ack", "prompt"} => r.asked \in Asked /\ r.draft \in Draft
  /\ r.at = "edit" => r.asked \in {7, 8} /\ r.draft \in Draft
  /\ r.at \in {"save", "position", "askDate", "exit"} => r.draft \in Draft

Hands == /\ hand \in [Handler -> Hand]
         /\ \A h \in Handler : Knows(hand[h])

ChatInv ==
  /\ state \in State
  /\ data \in {NoDraft} \cup Draft
  /\ draft \in [Draft -> Collected]
  /\ Hands
  /\ saved \subseteq Draft \X Collected

USE DEF NoDraft, StateIdle, StateWaitingSetPositionSymbol, StateWaitingSetPositionAlertPrice,
        StateWaitingSetPositionAlertMonitor, StateWaitingAnalyzeSymbol,
        StateWaitingExitPositionInputExitPrice, StateWaitingExitPositionInputExitDate,
        StateWaitingExitPositionConfirm
------------------------------------------------------------------------------
(* Hands and drafts.                                                       *)

LEMMA OneHand ==
  ASSUME Hands, NEW h \in Handler, NEW r \in Hand, Knows(r), hand' = [hand EXCEPT ![h] = r]
  PROVE  Hands'
BY DEF Hands

LEMMA WaitsHand ==
  ASSUME Hands, NEW h \in Handler, NEW at, NEW asked \in State, NEW d \in {NoDraft} \cup Draft,
         NEW reply \in Reply \cup {"none"}, Waits(h, at, asked, d, reply),
         [at |-> at, asked |-> asked, draft |-> d, reply |-> reply] \in Hand,
         Knows([at |-> at, asked |-> asked, draft |-> d, reply |-> reply])
  PROVE  Hands'
BY OneHand DEF Waits

LEMMA WaitsOnHand ==
  ASSUME Hands, NEW h \in Handler, NEW at, [hand[h] EXCEPT !.at = at] \in Hand,
         Knows([hand[h] EXCEPT !.at = at]), WaitsOn(h, at)
  PROVE  Hands'
<1>1. hand' = [hand EXCEPT ![h] = [hand[h] EXCEPT !.at = at]]
  BY DEF WaitsOn
<1> QED BY <1>1, OneHand

LEMMA DoneHand ==
  ASSUME Hands, NEW h \in Handler, Done(h)
  PROVE  Hands'
<1>1. NoHand \in Hand /\ Knows(NoHand)
  BY DEF NoHand, Hand, Knows, State, Reply
<1> QED BY <1>1, OneHand DEF Done

LEMMA BlankCollected ==
  ASSUME NEW is \in {"none", "set", "exit"}
  PROVE  Blank(is) \in Collected /\ Blank(is).is = is
BY DEF Blank, Collected

LEMMA BeginTyped ==
  ASSUME ChatInv, NEW d \in Draft, NEW is \in {"set", "exit"}, NEW asked \in State,
         Begin(d, is, asked)
  PROVE  state' \in State /\ data' \in Draft /\ draft' \in [Draft -> Collected]
BY BlankCollected DEF Begin, ChatInv

LEMMA GiveTyped ==
  ASSUME ChatInv, NEW d \in Draft, NEW q \in Question, NEW answer \in {"none", "good", "bad"},
         Give(d, q, answer)
  PROVE  draft' \in [Draft -> Collected]
<1>1. draft[d] \in Collected
  BY DEF ChatInv
<1>2. [draft[d] EXCEPT !.given[q] = answer] \in Collected
  BY <1>1 DEF Collected
<1>3. draft' = [draft EXCEPT ![d] = [draft[d] EXCEPT !.given[q] = answer]]
  BY DEF Give
<1> QED BY <1>2, <1>3 DEF ChatInv

LEMMA HasDraft ==
  ASSUME ChatInv, NEW is, Has(data, is)
  PROVE  data \in Draft
BY DEF ChatInv, Has
------------------------------------------------------------------------------
(* Every step of a handler keeps the types.                                *)

LEMMA SetPositionTyped ==
  ASSUME ChatInv, NEW h \in Handler, SetPosition(h)
  PROVE  ChatInv'
<1>1. CASE state = StateIdle
  <2>1. PICK d \in Unused : Begin(d, "set", StateWaitingSetPositionSymbol)
    BY <1>1 DEF SetPosition
  <2>2. d \in Draft /\ hand' = hand /\ saved' = saved
    BY <1>1 DEF SetPosition, Unused
  <2> QED BY <2>1, <2>2, BeginTyped DEF ChatInv, Hands, State, Question, Asked
<1>2. CASE state # StateIdle
  <2>1. Hands'
    BY <1>2, WaitsHand DEF SetPosition, ChatInv, Hand, Knows, State, Reply
  <2> QED BY <1>2, <2>1 DEF SetPosition, ChatInv
<1> QED BY <1>1, <1>2

LEMMA RestartedTyped ==
  ASSUME ChatInv, NEW h \in Handler, Restarted(h)
  PROVE  ChatInv'
<1>1. PICK d \in Unused : Begin(d, "set", StateWaitingSetPositionSymbol)
  BY DEF Restarted
<1>2. d \in Draft /\ saved' = saved
  BY DEF Restarted, Unused
<1>3. Hands'
  BY DoneHand DEF Restarted, ChatInv
<1> QED BY <1>1, <1>2, <1>3, BeginTyped DEF ChatInv, State, Question, Asked

LEMMA CancelTyped ==
  ASSUME ChatInv, NEW h \in Handler, Cancel(h) \/ Reset(h)
  PROVE  ChatInv'
<1>1. CASE Cancel(h) /\ state = StateIdle
  BY <1>1 DEF Cancel, ResetUserState, ChatInv, Hands, State
<1>2. CASE Cancel(h) /\ state # StateIdle
  <2>1. Hands'
    BY <1>2, WaitsHand DEF Cancel, ChatInv, Hand, Knows, State, Reply
  <2> QED BY <1>2, <2>1 DEF Cancel, ChatInv
<1>3. CASE Reset(h)
  <2>1. Hands'
    BY <1>3, DoneHand DEF Reset, ChatInv
  <2> QED BY <1>3, <2>1 DEF Reset, ResetUserState, ChatInv, State
<1> QED BY <1>1, <1>2, <1>3

LEMMA AnswerQuestionTyped ==
  ASSUME ChatInv, NEW h \in Handler, NEW reply \in Reply, AnswerQuestion(h, reply)
  PROVE  ChatInv'
<1>1. state \in Asked /\ state \in State /\ state \in Question /\ data \in Draft
  BY HasDraft DEF AnswerQuestion, ChatInv, Question
<1>2. Hands'
  BY <1>1, WaitsHand DEF AnswerQuestion, ChatInv, Hand, Knows
<1>3. draft' \in [Draft -> Collected]
  BY <1>1, GiveTyped DEF AnswerQuestion, ChatInv
<1>4. state' \in State
  BY <1>1 DEF AnswerQuestion, State, Asked, Question
<1> QED BY <1>1, <1>2, <1>3, <1>4 DEF AnswerQuestion, ChatInv

LEMMA ComplainedTyped ==
  ASSUME ChatInv, NEW h \in Handler, Complained(h)
  PROVE  ChatInv'
<1> DEFINE q == hand[h].asked
           d == hand[h].draft
<1>1. hand[h] \in Hand /\ hand[h].at = "complain" /\ q \in Asked /\ d \in Draft
  BY DEF Complained, ChatInv, Hands, Knows
<1>2. Hands'
  <2>1. [hand[h] EXCEPT !.at = "ack"] \in Hand /\ Knows([hand[h] EXCEPT !.at = "ack"])
    BY <1>1 DEF Hand, Knows
  <2>2. [hand[h] EXCEPT !.at = "prompt"] \in Hand /\ Knows([hand[h] EXCEPT !.at = "prompt"])
    BY <1>1 DEF Hand, Knows
  <2> QED BY <2>1, <2>2, WaitsOnHand DEF Complained, ChatInv
<1>3. draft' \in [Draft -> Collected]
  <2>1. q \in Question /\ draft[d] \in Collected
    BY <1>1 DEF ChatInv, Question
  <2>2. [draft[d] EXCEPT !.given[q] = "bad", !.told = draft[d].told \cup {q}] \in Collected
    BY <2>1 DEF Collected
  <2>3. draft' = [draft EXCEPT ![d] =
                    [draft[d] EXCEPT !.given[q] = "bad", !.told = draft[d].told \cup {q}]]
    BY <1>1 DEF Complained, ChatInv
  <2> QED BY <2>2, <2>3 DEF ChatInv
<1>4. state' \in State
  BY <1>1 DEF Complained, ChatInv, State, Asked, Question
<1> QED BY <1>2, <1>3, <1>4 DEF Complained, ChatInv

LEMMA AcknowledgedTyped ==
  ASSUME ChatInv, NEW h \in Handler, Acknowledged(h)
  PROVE  ChatInv'
<1>1. hand[h] \in Hand /\ hand[h].at = "ack" /\ hand[h].asked \in Asked /\ hand[h].draft \in Draft
  BY DEF Acknowledged, ChatInv, Hands, Knows
<1>2. [hand[h] EXCEPT !.at = "prompt"] \in Hand /\ Knows([hand[h] EXCEPT !.at = "prompt"])
  BY <1>1 DEF Hand, Knows
<1>3. Hands'
  BY <1>2, WaitsOnHand DEF Acknowledged, ChatInv
<1>4. state' \in State
  BY <1>1 DEF Acknowledged, State, Asked, Question
<1> QED BY <1>3, <1>4 DEF Acknowledged, ChatInv

LEMMA PromptedTyped ==
  ASSUME ChatInv, NEW h \in Handler, Prompted(h)
  PROVE  ChatInv'
<1>1. hand[h].draft \in Draft
  BY DEF Prompted, ChatInv, Hands, Knows
<1>2. Hands'
  BY DoneHand DEF Prompted, ChatInv
<1> QED BY <1>1, <1>2 DEF Prompted, ChatInv

LEMMA PressAlertTyped ==
  ASSUME ChatInv, NEW h \in Handler, NEW q \in {7, 8}, PressAlert(h, q)
  PROVE  ChatInv'
<1>1. CASE WaitedOn(q) /\ Has(data, "set")
  <2>1. q \in Question /\ q \in State /\ data \in Draft
    BY <1>1, HasDraft DEF State, Question
  <2>2. Hands'
    BY <1>1, <2>1, WaitsHand DEF PressAlert, ChatInv, Hand, Knows
  <2>3. draft' \in [Draft -> Collected]
    BY <1>1, <2>1, GiveTyped DEF PressAlert
  <2> QED BY <1>1, <2>2, <2>3 DEF PressAlert, ChatInv
<1>2. CASE ~(WaitedOn(q) /\ Has(data, "set"))
  BY <1>2 DEF PressAlert, ResetUserState, ChatInv, Hands, State
<1> QED BY <1>1, <1>2

LEMMA EditedTyped ==
  ASSUME ChatInv, NEW h \in Handler, Edited(h)
  PROVE  ChatInv'
<1>1. CASE hand[h].asked = StateWaitingSetPositionAlertPrice
  <2>1. Hands'
    BY <1>1, DoneHand DEF Edited, ChatInv
  <2> QED BY <1>1, <2>1 DEF Edited, ChatInv, State, Question
<1>2. CASE hand[h].asked # StateWaitingSetPositionAlertPrice
  <2>1. CASE Has(data, "set")
    <3>1. data \in Draft
      BY <2>1, HasDraft
    <3>2. Hands'
      BY <1>2, <2>1, <3>1, WaitsHand DEF Edited, ChatInv, Hand, Knows, State, Reply
    <3> QED BY <1>2, <3>2 DEF Edited, ChatInv
  <2>2. CASE ~Has(data, "set")
    <3>1. Hands'
      BY <1>2, <2>2, WaitsHand DEF Edited, ChatInv, Hand, Knows, State, Reply
    <3> QED BY <1>2, <3>1 DEF Edited, ChatInv
  <2> QED BY <2>1, <2>2
<1> QED BY <1>1, <1>2

LEMMA SaveDraftTyped ==
  ASSUME ChatInv, NEW h \in Handler, SaveDraft(h)
  PROVE  ChatInv'
<1>1. hand[h] \in Hand /\ hand[h].at = "save" /\ hand[h].draft \in Draft
  BY DEF SaveDraft, ChatInv, Hands, Knows
<1>2. [hand[h] EXCEPT !.at = "reset"] \in Hand /\ Knows([hand[h] EXCEPT !.at = "reset"])
  BY <1>1 DEF Hand, Knows
<1>3. Hands'
  BY <1>2, WaitsOnHand DEF SaveDraft, ChatInv
<1>4. saved' \subseteq Draft \X Collected
  BY <1>1 DEF SaveDraft, ChatInv
<1> QED BY <1>3, <1>4 DEF SaveDraft, ChatInv

LEMMA AnalyzeTyped ==
  ASSUME ChatInv, NEW h \in Handler, StartAnalyze(h) \/ AnalyzeSymbol(h) \/ AnalysisShown(h)
  PROVE  ChatInv'
<1>1. CASE StartAnalyze(h)
  BY <1>1 DEF StartAnalyze, ChatInv, Hands, State
<1>2. CASE AnalyzeSymbol(h)
  <2>1. Hands'
    BY <1>2, WaitsHand DEF AnalyzeSymbol, ChatInv, Hand, Knows, State, Reply
  <2> QED BY <1>2, <2>1 DEF AnalyzeSymbol, ChatInv
<1>3. CASE AnalysisShown(h)
  <2>1. Hands'
    BY <1>3, DoneHand DEF AnalysisShown, ChatInv
  <2> QED BY <1>3, <2>1 DEF AnalysisShown, ResetUserState, ChatInv, State
<1> QED BY <1>1, <1>2, <1>3

LEMMA ExitStockPositionTyped ==
  ASSUME ChatInv, NEW h \in Handler, ExitStockPosition(h)
  PROVE  ChatInv'
<1>1. CASE state = StateIdle
  <2>1. Hands'
    BY <1>1, WaitsHand DEF ExitStockPosition, ChatInv, Hand, Knows, State, Reply
  <2> QED BY <1>1, <2>1 DEF ExitStockPosition, ChatInv
<1>2. CASE state # StateIdle
  BY <1>2 DEF ExitStockPosition, ResetUserState, ChatInv, Hands, State
<1> QED BY <1>1, <1>2

LEMMA ExitShownTyped ==
  ASSUME ChatInv, NEW h \in Handler, ExitShown(h)
  PROVE  ChatInv'
<1>1. PICK d \in Unused : Begin(d, "exit", StateWaitingExitPositionInputExitPrice)
  BY DEF ExitShown
<1>2. d \in Draft /\ saved' = saved
  BY DEF ExitShown, Unused
<1>3. Hands'
  BY DoneHand DEF ExitShown, ChatInv
<1> QED BY <1>1, <1>2, <1>3, BeginTyped DEF ChatInv, State

LEMMA AnswerExitTyped ==
  ASSUME ChatInv, NEW h \in Handler, NEW reply \in Reply, AnswerExit(h, reply)
  PROVE  ChatInv'
<1>1. CASE Has(data, "exit")
  <2>1. data \in Draft /\ state \in State
    BY <1>1, HasDraft DEF ChatInv
  <2>2. Hands'
    BY <1>1, <2>1, WaitsHand DEF AnswerExit, ChatInv, Hand, Knows
  <2> QED BY <1>1, <2>2 DEF AnswerExit, ChatInv
<1>2. CASE ~Has(data, "exit")
  BY <1>2 DEF AnswerExit, ResetUserState, ChatInv, Hands, State
<1> QED BY <1>1, <1>2

LEMMA ExitAnsweredTyped ==
  ASSUME ChatInv, NEW h \in Handler, ExitAnswered(h)
  PROVE  ChatInv'
<1> DEFINE d == hand[h].draft
<1>1. hand[h] \in Hand /\ hand[h].at = "position" /\ d \in Draft /\ draft[d] \in Collected
  BY DEF ExitAnswered, ChatInv, Hands, Knows
<1>2. Done(h) => Hands'
  BY DoneHand DEF ChatInv
<1>3. WaitsOn(h, "askDate") => Hands'
  <2>1. [hand[h] EXCEPT !.at = "askDate"] \in Hand /\ Knows([hand[h] EXCEPT !.at = "askDate"])
    BY <1>1 DEF Hand, Knows
  <2> QED BY <2>1, WaitsOnHand DEF ChatInv
<1>4. CASE /\ hand[h].reply # "bad" /\ draft' = [draft EXCEPT ![d].price = hand[h].reply]
           /\ hand[h].asked = StateWaitingExitPositionInputExitPrice
           /\ data' = d /\ WaitsOn(h, "askDate") /\ UNCHANGED state
  <2>1. hand[h].reply \in {"good", "zero", "negative", "none"}
    BY <1>1, <1>4 DEF Hand, Reply
  <2>2. [draft[d] EXCEPT !.price = hand[h].reply] \in Collected
    BY <1>1, <2>1 DEF Collected
  <2>3. draft' \in [Draft -> Collected]
    BY <1>4, <2>2 DEF ChatInv
  <2> QED BY <1>1, <1>3, <1>4, <2>3 DEF ExitAnswered, ChatInv
<1>5. CASE /\ draft' = [draft EXCEPT ![d].dated = TRUE]
           /\ state' = StateWaitingExitPositionConfirm
           /\ Done(h) /\ UNCHANGED data
  <2>1. [draft[d] EXCEPT !.dated = TRUE] \in Collected
    BY <1>1 DEF Collected
  <2>2. draft' \in [Draft -> Collected]
    BY <1>5, <2>1 DEF ChatInv
  <2> QED BY <1>2, <1>5, <2>2 DEF ExitAnswered, ChatInv, State
<1>6. CASE Done(h) /\ UNCHANGED <<state, data, draft>>
  BY <1>2, <1>6 DEF ExitAnswered, ChatInv
<1> QED BY <1>4, <1>5, <1>6 DEF ExitAnswered

LEMMA DateAskedTyped ==
  ASSUME ChatInv, NEW h \in Handler, DateAsked(h)
  PROVE  ChatInv'
<1>1. Hands'
  BY DoneHand DEF DateAsked, ChatInv
<1> QED BY <1>1 DEF DateAsked, ChatInv, State

LEMMA SaveExitPositionTyped ==
  ASSUME ChatInv, NEW h \in Handler, SaveExitPosition(h)
  PROVE  ChatInv'
<1>1. CASE Has(data, "exit") /\ IsComplete(data)
  <2>1. data \in Draft
    BY <1>1, HasDraft
  <2>2. Hands'
    BY <1>1, <2>1, WaitsHand DEF SaveExitPosition, ChatInv, Hand, Knows, State, Reply
  <2> QED BY <2>2 DEF SaveExitPosition, ChatInv
<1>2. CASE ~(Has(data, "exit") /\ IsComplete(data))
  <2>1. Hands'
    BY <1>2, WaitsHand DEF SaveExitPosition, ChatInv, Hand, Knows, State, Reply
  <2> QED BY <2>1 DEF SaveExitPosition, ChatInv
<1> QED BY <1>1, <1>2

LEMMA ExitHandedOverTyped ==
  ASSUME ChatInv, NEW h \in Handler, ExitHandedOver(h)
  PROVE  ChatInv' /\ hand[h].draft \in Draft
<1>1. hand[h].draft \in Draft
  BY DEF ExitHandedOver, ChatInv, Hands, Knows
<1>2. Hands'
  BY DoneHand DEF ExitHandedOver, ChatInv
<1> QED BY <1>1, <1>2 DEF ExitHandedOver, ResetUserState, ChatInv, State

LEMMA CallFailsTyped ==
  ASSUME ChatInv, NEW h \in Handler, CallFails(h)
  PROVE  ChatInv'
<1>1. Hands'
  BY DoneHand DEF CallFails, ChatInv
<1> QED BY <1>1 DEF CallFails, ChatInv

LEMMA RecordExitTyped ==
  ASSUME ChatInv, NEW d \in Draft, RecordExit(d), UNCHANGED <<state, data, draft, hand>>
  PROVE  ChatInv'
<1>1. draft[d] \in Collected
  BY DEF ChatInv
<1>2. [draft[d] EXCEPT !.price = IF @ = "good" THEN @ ELSE "none"] \in Collected
  BY <1>1 DEF Collected
<1>3. saved' \subseteq Draft \X Collected
  BY <1>2 DEF RecordExit, ChatInv
<1> QED BY <1>3 DEF ChatInv, Hands

\* The dialogues one step crosses are dialogues.
LEMMA CrossingTyped ==
  ASSUME ChatInv, ChatInv', crossed \subseteq Draft, NEW h \in Handler, Crossing(h)
  PROVE  crossed' \subseteq Draft
<1>1. \A g \in Busy : hand[g].draft \in {NoDraft} \cup Draft
  BY DEF ChatInv, Hands, Hand, Busy
<1>2. hand'[h].draft \in {NoDraft} \cup Draft
  BY DEF ChatInv, Hands, Hand
<1>3. data \in {NoDraft} \cup Draft /\ data' \in {NoDraft} \cup Draft
  BY DEF ChatInv
<1> QED BY <1>1, <1>2, <1>3 DEF Crossing

LEMMA HandlerTyped ==
  ASSUME ChatInv, NEW h \in Handler, Update(h) \/ Return(h) \/ CallFails(h)
  PROVE  ChatInv'
<1>1. CASE Update(h)
  BY <1>1, SetPositionTyped, CancelTyped, AnalyzeTyped, ExitStockPositionTyped,
     AnswerQuestionTyped, PressAlertTyped, AnswerExitTyped, SaveExitPositionTyped
     DEF Update, Reply
<1>2. CASE Return(h)
  BY <1>2, RestartedTyped, CancelTyped, ComplainedTyped, AcknowledgedTyped, PromptedTyped,
     EditedTyped, SaveDraftTyped, ExitShownTyped, ExitAnsweredTyped, DateAskedTyped DEF Return
<1> QED BY <1>1, <1>2, CallFailsTyped
------------------------------------------------------------------------------
(* Errands.                                                                *)

Asks(r) == r.at \in {"tokens", "ask"}

\* What an errand has in hand by the time it asks, or tells an answer.
WellBegun(r) ==
  /\ r.kind = "exit" => r.draft \in Draft
  /\ Asks(r) => r.batch \in Batch
  /\ r.at = "tell" => r.batch \in Batch /\ r.answer \in Answer

ErrandInv ==
  /\ ErrandsTypeOK
  /\ recent => batch \in Batch
  /\ \A e \in Errand : WellBegun(errand[e])

\* Two errands that ask about one batch have raced to it.
OneAsks ==
  \A e, f \in Errand :
    e # f /\ Asks(errand[e]) /\ Asks(errand[f]) /\ errand[e].batch = errand[f].batch
      => errand[e].batch \in raced

\* An errand asks about a batch that has no answer, unless somebody else asked too.
AskedUnanswered ==
  \A e \in Errand :
    Asks(errand[e]) => link[errand[e].batch] = None \/ errand[e].batch \in raced

\* The answer about to be told is the one its batch points to, by the same token.
ToldIsLinked ==
  \A e \in Errand :
    errand[e].at = "tell" =>
      link[errand[e].batch] = errand[e].answer \/ errand[e].batch \in raced

AnswersInv ==
  ErrandInv /\ OneAsks /\ AskedUnanswered /\ ToldIsLinked /\ AnswersAreKept

Surroundings ==
  /\ batch \in {None} \cup Batch /\ recent \in BOOLEAN
  /\ recent => batch \in Batch
  /\ remaining \in 0 .. Capacity /\ dead \in BOOLEAN

USE DEF None

LEMMA TypesKept ==
  ASSUME AnswersInv, UNCHANGED <<link, answers, shown, raced>>, Surroundings',
         errand' \in [Errand -> Errands], \A e \in Errand : WellBegun(errand'[e])
  PROVE  ErrandInv'
<1>1. /\ link \in [Batch -> {None} \cup Answer] /\ answers \in {None} \cup Answer
      /\ shown \subseteq Batch \X Answer /\ raced \subseteq Batch
  BY DEF AnswersInv, ErrandInv, ErrandsTypeOK
<1>2. /\ batch' \in {None} \cup Batch /\ recent' \in BOOLEAN /\ remaining' \in 0 .. Capacity
      /\ dead' \in BOOLEAN /\ (recent' => batch' \in Batch)
  BY DEF Surroundings
<1>3. /\ link' = link /\ answers' = answers /\ shown' = shown /\ raced' = raced
  OBVIOUS
<1>4. ErrandsTypeOK'
  BY <1>1, <1>2, <1>3 DEF ErrandsTypeOK
<1> QED BY <1>2, <1>4 DEF ErrandInv

\* A step that leaves the answers alone and puts an errand where it neither asks nor
\* tells keeps the invariant.
LEMMA QuietErrand ==
  ASSUME AnswersInv, NEW e \in Errand, NEW r \in Errands, WellBegun(r), r.at \in {"off", "work"},
         errand' = [errand EXCEPT ![e] = r], UNCHANGED <<link, answers, shown, raced>>, Surroundings'
  PROVE  AnswersInv'
<1>1. errand \in [Errand -> Errands] /\ \A f \in Errand : WellBegun(errand[f])
  BY DEF AnswersInv, ErrandInv, ErrandsTypeOK
<1>2. /\ errand' \in [Errand -> Errands] /\ errand'[e] = r
      /\ \A f \in Errand : f # e => errand'[f] = errand[f]
  BY <1>1
<1>3. \A f \in Errand : WellBegun(errand'[f])
  BY <1>1, <1>2
<1>4. ErrandInv'
  BY <1>2, <1>3, TypesKept
<1>5. ~Asks(r) /\ r.at # "tell"
  BY DEF Asks
<1>6. OneAsks'
  BY <1>2, <1>5 DEF AnswersInv, OneAsks, Asks
<1>7. AskedUnanswered' /\ ToldIsLinked'
  BY <1>2, <1>5 DEF AnswersInv, AskedUnanswered, ToldIsLinked, Asks
<1> QED BY <1>4, <1>6, <1>7 DEF AnswersInv, AnswersAreKept

\* So does one that touches no errand.
LEMMA QuietStep ==
  ASSUME AnswersInv, UNCHANGED <<errand, link, answers, shown, raced>>, Surroundings'
  PROVE  AnswersInv'
<1>1. errand' \in [Errand -> Errands] /\ \A e \in Errand : WellBegun(errand'[e])
  BY DEF AnswersInv, ErrandInv, ErrandsTypeOK
<1>2. ErrandInv'
  BY <1>1, TypesKept
<1> QED BY <1>2 DEF AnswersInv, OneAsks, AskedUnanswered, ToldIsLinked, AnswersAreKept, Asks

LEMMA EndsOrDies ==
  ASSUME AnswersInv, NEW e \in Errand, UNCHANGED <<link, answers, shown, raced>>, Surroundings',
         Ended(e) \/ UNCHANGED errand
  PROVE  AnswersInv'
<1>1. NoErrand \in Errands /\ WellBegun(NoErrand) /\ NoErrand.at = "off"
  BY DEF NoErrand, Errands, WellBegun, Asks
<1> QED BY <1>1, QuietErrand, QuietStep DEF Ended

\* A panic ends the errand or the process, and replacing the message may panic.
LEMMA PanicOutcome ==
  ASSUME NEW e \in Errand, NEW stopped \in BOOLEAN, Panic(e, stopped) \/ Replaced(e),
         dead \in BOOLEAN
  PROVE  dead' \in BOOLEAN /\ (Ended(e) \/ UNCHANGED errand)
BY DEF Panic, Replaced

LEMMA Found ==
  ASSUME ErrandInv, NEW anew \in BOOLEAN, FindAnalyses(anew)
  PROVE  batch' \in Batch /\ recent' = TRUE
BY ErrandsAssumption DEF ErrandInv, ErrandsTypeOK, FindAnalyses, Batch

LEMMA StartKeeps ==
  ASSUME AnswersInv, NEW e \in Errand, NEW kind \in Kind, NEW d \in Nat,
         kind = "exit" => d \in Draft, NEW message \in BOOLEAN, Start(e, kind, d, message)
  PROVE  AnswersInv'
<1> DEFINE r == [NoErrand EXCEPT !.kind = kind, !.at = "work", !.draft = d, !.message = message]
<1>1. r \in Errands /\ r.at = "work" /\ r.kind = kind /\ r.draft = d
  BY DEF NoErrand, Errands
<1>2. WellBegun(r)
  BY <1>1 DEF WellBegun, Asks
<1>3. Surroundings'
  BY DEF AnswersInv, ErrandInv, ErrandsTypeOK, Start, OnlyErrand, Surroundings
<1>4. errand' = [errand EXCEPT ![e] = r] /\ UNCHANGED <<link, answers, shown, raced>>
  BY DEF Start, OnlyErrand
<1> HIDE DEF r
<1> QED BY <1>1, <1>2, <1>3, <1>4, QuietErrand

LEMMA ShowAnalysisKeeps ==
  ASSUME AnswersInv, NEW e \in Errand, ShowAnalysis(e)
  PROVE  AnswersInv'
<1>1. ErrandInv /\ dead \in BOOLEAN /\ remaining \in 0 .. Capacity
  BY DEF AnswersInv, ErrandInv, ErrandsTypeOK
<1>2. CASE FindAnalyses(errand[e].kind = "refresh") /\ Replaced(e)
  BY <1>1, <1>2, Found, PanicOutcome, EndsOrDies DEF ShowAnalysis, Surroundings
<1>3. CASE Ended(e) /\ UNCHANGED <<batch, recent, dead>>
  <2>1. Surroundings'
    BY <1>1, <1>3 DEF ShowAnalysis, Surroundings, ErrandInv, ErrandsTypeOK
  <2> QED BY <1>3, <2>1, EndsOrDies DEF ShowAnalysis
<1> QED BY <1>2, <1>3 DEF ShowAnalysis

LEMMA RefreshPositionKeeps ==
  ASSUME AnswersInv, NEW e \in Errand, RefreshPosition(e) \/ WorkPanics(e) \/ AskFails(e)
  PROVE  AnswersInv'
<1>1. ErrandInv /\ dead \in BOOLEAN
  BY DEF AnswersInv, ErrandInv, ErrandsTypeOK
<1>2. dead' \in BOOLEAN /\ (Ended(e) \/ UNCHANGED errand)
  BY <1>1, PanicOutcome DEF RefreshPosition, WorkPanics, AskFails
<1>3. /\ UNCHANGED <<link, answers, shown, raced>>
      /\ UNCHANGED <<batch, recent, remaining>>
  BY DEF RefreshPosition, WorkPanics, AskFails
<1>4. Surroundings'
  BY <1>1, <1>2, <1>3 DEF Surroundings, ErrandInv, ErrandsTypeOK
<1> QED BY <1>2, <1>3, <1>4, EndsOrDies

\* An errand that reads the latest analyses asks about them or tells their answer.
LEMMA ReadAnalysesKeeps ==
  ASSUME AnswersInv, NEW e \in Errand, ReadAnalyses(e)
  PROVE  AnswersInv'
<1>1. /\ errand \in [Errand -> Errands] /\ errand[e].kind = "ai" /\ link \in [Batch -> {None} \cup Answer]
      /\ \A f \in Errand : WellBegun(errand[f])
  BY DEF AnswersInv, ErrandInv, ErrandsTypeOK, ReadAnalyses, At
<1>2. batch' \in Batch /\ recent' = TRUE
  BY Found DEF AnswersInv, ReadAnalyses
<1>3. PICK r \in Errands :
        /\ errand' = [errand EXCEPT ![e] = r]
        /\ r.kind = "ai" /\ r.batch = batch'
        /\ \/ /\ r.at = "tokens" /\ link[batch'] = None
              /\ raced' = raced \cup (IF Asking(batch') # {} THEN {batch'} ELSE {})
           \/ r.at = "tell" /\ r.answer = link[batch'] /\ r.answer \in Answer /\ UNCHANGED raced
  <2>1. CASE link[batch'] = None
    <3> DEFINE s == [errand[e] EXCEPT !.at = "tokens", !.batch = batch']
    <3>1. s \in Errands /\ s.kind = "ai" /\ s.batch = batch' /\ s.at = "tokens"
      BY <1>1, <1>2 DEF Errands
    <3>2. errand' = [errand EXCEPT ![e] = s]
      BY <1>1, <2>1 DEF ReadAnalyses, Stored
    <3>3. raced' = raced \cup (IF Asking(batch') # {} THEN {batch'} ELSE {})
      BY <2>1 DEF ReadAnalyses, Stored
    <3> QED BY <2>1, <3>1, <3>2, <3>3
  <2>2. CASE link[batch'] # None
    <3> DEFINE s == [errand[e] EXCEPT !.at = "tell", !.batch = batch', !.answer = link[batch']]
    <3>1. /\ s \in Errands /\ s.kind = "ai" /\ s.batch = batch' /\ s.at = "tell"
          /\ s.answer = link[batch'] /\ s.answer \in Answer
      BY <1>1, <1>2, <2>2 DEF Errands
    <3>2. errand' = [errand EXCEPT ![e] = s] /\ UNCHANGED raced
      BY <1>1, <2>2 DEF ReadAnalyses, Stored
    <3> QED BY <3>1, <3>2
  <2> QED BY <2>1, <2>2
<1>4. /\ errand' \in [Errand -> Errands] /\ errand'[e] = r
      /\ \A f \in Errand : f # e => errand'[f] = errand[f]
  BY <1>1, <1>3
<1>5. UNCHANGED <<link, answers, remaining, dead, shown>>
  BY DEF ReadAnalyses
<1>6. WellBegun(r)
  BY <1>2, <1>3 DEF WellBegun, Asks
<1>7. \A f \in Errand : WellBegun(errand'[f])
  BY <1>1, <1>4, <1>6
<1>8. raced' \subseteq Batch /\ raced \subseteq raced'
  BY <1>2, <1>3 DEF AnswersInv, ErrandInv, ErrandsTypeOK
<1>9. ErrandInv'
  BY <1>2, <1>4, <1>5, <1>7, <1>8 DEF AnswersInv, ErrandInv, ErrandsTypeOK
<1>10. OneAsks'
  <2>1. ASSUME NEW f \in Errand, f # e, Asks(errand[f]), Asks(r), errand[f].batch = batch'
        PROVE  batch' \in raced'
    <3>1. f \in Asking(batch')
      BY <2>1 DEF Asking, Asks
    <3> QED BY <1>3, <2>1, <3>1 DEF Asks
  <2> QED BY <1>3, <1>4, <1>8, <2>1 DEF AnswersInv, OneAsks
<1>11. AskedUnanswered' /\ ToldIsLinked'
  BY <1>3, <1>4, <1>5, <1>8 DEF AnswersInv, AskedUnanswered, ToldIsLinked, Asks
<1> QED BY <1>5, <1>8, <1>9, <1>10, <1>11 DEF AnswersInv, AnswersAreKept

LEMMA TakeTokensKeeps ==
  ASSUME AnswersInv, NEW e \in Errand, TakeTokens(e)
  PROVE  AnswersInv'
<1>1. /\ errand \in [Errand -> Errands] /\ errand[e].kind = "ai" /\ errand[e].at = "tokens"
      /\ \A f \in Errand : WellBegun(errand[f])
  BY DEF AnswersInv, ErrandInv, ErrandsTypeOK, TakeTokens, At
<1>2. PICK r \in Errands : /\ errand' = [errand EXCEPT ![e] = r]
                           /\ r.kind = "ai" /\ r.at = "ask" /\ r.batch = errand[e].batch
  <2>1. [errand[e] EXCEPT !.at = "ask"] \in Errands
    BY <1>1 DEF Errands
  <2> QED BY <1>1, <2>1 DEF TakeTokens, Errands
<1>3. /\ errand' \in [Errand -> Errands] /\ errand'[e] = r
      /\ \A f \in Errand : f # e => errand'[f] = errand[f]
  BY <1>1, <1>2
<1>4. WellBegun(r)
  BY <1>1, <1>2 DEF WellBegun, Asks
<1>5. \A f \in Errand : WellBegun(errand'[f])
  BY <1>1, <1>3, <1>4
<1>6. UNCHANGED <<batch, recent, link, answers, dead, shown, raced>>
  BY DEF TakeTokens
<1>7. remaining' \in 0 .. Capacity
  BY ErrandsAssumption DEF TakeTokens, AnswersInv, ErrandInv, ErrandsTypeOK
<1>8. Surroundings'
  BY <1>6, <1>7 DEF Surroundings, AnswersInv, ErrandInv, ErrandsTypeOK
<1>9. ErrandInv'
  BY <1>3, <1>5, <1>6, <1>8, TypesKept
<1>10. OneAsks' /\ AskedUnanswered' /\ ToldIsLinked'
  BY <1>1, <1>2, <1>3, <1>6 DEF AnswersInv, OneAsks, AskedUnanswered, ToldIsLinked, Asks
<1> QED BY <1>6, <1>9, <1>10 DEF AnswersInv, AnswersAreKept

\* The batch an answer is stored for had none, so nobody was shown one or is about
\* to be; or else somebody raced.
LEMMA StoreAnswerKeeps ==
  ASSUME AnswersInv, NEW e \in Errand, StoreAnswer(e)
  PROVE  AnswersInv'
<1>1. /\ errand \in [Errand -> Errands] /\ errand[e].kind = "ai" /\ errand[e].at = "ask"
      /\ \A f \in Errand : WellBegun(errand[f])
      /\ link \in [Batch -> {None} \cup Answer] /\ shown \subseteq Batch \X Answer
  BY DEF AnswersInv, ErrandInv, ErrandsTypeOK, StoreAnswer, At
<1>2. PICK b \in Batch : b = errand[e].batch
  BY <1>1 DEF WellBegun, Asks
<1>3. answers' \in Answer
  BY ErrandsAssumption DEF StoreAnswer, AnswersInv, ErrandInv, ErrandsTypeOK, Answer
<1>4. PICK r \in Errands : /\ errand' = [errand EXCEPT ![e] = r] /\ r.kind = "ai"
                           /\ r.at = "tell" /\ r.batch = b /\ r.answer = answers'
  <2> DEFINE s == [errand[e] EXCEPT !.at = "tell", !.answer = answers']
  <2>1. /\ s \in Errands /\ s.kind = "ai" /\ s.at = "tell" /\ s.batch = b /\ s.answer = answers'
    BY <1>1, <1>2, <1>3 DEF Errands
  <2>2. errand' = [errand EXCEPT ![e] = s]
    BY <1>1 DEF StoreAnswer
  <2> QED BY <2>1, <2>2
<1>5. /\ errand' \in [Errand -> Errands] /\ errand'[e] = r
      /\ \A f \in Errand : f # e => errand'[f] = errand[f]
  BY <1>1, <1>4
<1>6. /\ link' \in [Batch -> {None} \cup Answer] /\ link'[b] = answers'
      /\ \A c \in Batch : c # b => link'[c] = link[c]
  BY <1>1, <1>2, <1>3 DEF StoreAnswer
<1>7. UNCHANGED <<batch, recent, remaining, dead, shown, raced>>
  BY DEF StoreAnswer
<1>8. WellBegun(r)
  BY <1>2, <1>3, <1>4 DEF WellBegun, Asks
<1>9. \A f \in Errand : WellBegun(errand'[f])
  BY <1>1, <1>5, <1>8
<1>10. ErrandInv'
  BY <1>3, <1>5, <1>6, <1>7, <1>9 DEF AnswersInv, ErrandInv, ErrandsTypeOK
<1>11. link[b] = None \/ b \in raced
  BY <1>1, <1>2 DEF AnswersInv, AskedUnanswered, Asks
<1>12. OneAsks'
  BY <1>4, <1>5, <1>7 DEF AnswersInv, OneAsks, Asks
<1>13. AskedUnanswered'
  <2> SUFFICES ASSUME NEW f \in Errand, Asks(errand'[f])
               PROVE  link'[errand'[f].batch] = None \/ errand'[f].batch \in raced
    BY <1>7 DEF AskedUnanswered
  <2>1. f # e /\ errand'[f] = errand[f] /\ Asks(errand[f])
    BY <1>4, <1>5 DEF Asks
  <2>2. errand[f].batch \in Batch
    BY <1>1, <2>1 DEF WellBegun
  <2>3. CASE errand[f].batch = b
    BY <1>1, <1>2, <2>1, <2>3 DEF AnswersInv, OneAsks, Asks
  <2>4. CASE errand[f].batch # b
    BY <1>6, <2>1, <2>2, <2>4 DEF AnswersInv, AskedUnanswered
  <2> QED BY <2>3, <2>4
<1>14. ToldIsLinked'
  <2> SUFFICES ASSUME NEW f \in Errand, errand'[f].at = "tell"
               PROVE  link'[errand'[f].batch] = errand'[f].answer \/ errand'[f].batch \in raced
    BY <1>7 DEF ToldIsLinked
  <2>1. CASE f = e
    BY <1>4, <1>5, <1>6, <2>1
  <2>2. CASE f # e
    <3>1. /\ errand'[f] = errand[f] /\ errand[f].batch \in Batch /\ errand[f].answer \in Answer
      BY <1>1, <1>5, <2>2 DEF WellBegun
    <3>2. link[errand[f].batch] = errand[f].answer \/ errand[f].batch \in raced
      BY <2>2, <3>1 DEF AnswersInv, ToldIsLinked
    <3>3. errand[f].answer # None
      BY <3>1, ErrandsAssumption DEF Answer
    <3> QED BY <1>6, <1>11, <3>1, <3>2, <3>3
  <2> QED BY <2>1, <2>2
<1>15. AnswersAreKept'
  <2> SUFFICES ASSUME NEW seen \in shown
               PROVE  link'[seen[1]] = seen[2] \/ seen[1] \in raced
    BY <1>7 DEF AnswersAreKept
  <2>1. seen[1] \in Batch /\ seen[2] \in Answer
    BY <1>1
  <2>2. link[seen[1]] = seen[2] \/ seen[1] \in raced
    BY DEF AnswersInv, AnswersAreKept
  <2>3. seen[2] # None
    BY <2>1, ErrandsAssumption DEF Answer
  <2> QED BY <1>6, <1>11, <2>1, <2>2, <2>3
<1> QED BY <1>10, <1>12, <1>13, <1>14, <1>15 DEF AnswersInv

LEMMA TellAnswerKeeps ==
  ASSUME AnswersInv, NEW e \in Errand, TellAnswer(e)
  PROVE  AnswersInv'
<1>1. /\ errand \in [Errand -> Errands] /\ errand[e].at = "tell" /\ dead \in BOOLEAN
      /\ \A f \in Errand : WellBegun(errand[f])
  BY DEF AnswersInv, ErrandInv, ErrandsTypeOK, TellAnswer, At
<1>2. UNCHANGED <<batch, recent, link, answers, remaining, raced>>
  BY DEF TellAnswer
<1>3. dead' \in BOOLEAN /\ (Ended(e) \/ UNCHANGED errand)
  BY <1>1, PanicOutcome DEF TellAnswer
<1>4. NoErrand \in Errands /\ WellBegun(NoErrand) /\ NoErrand.at = "off" /\ ~Asks(NoErrand)
  BY DEF NoErrand, Errands, WellBegun, Asks
<1>5. /\ errand' \in [Errand -> Errands]
      /\ \A f \in Errand : errand'[f] = errand[f] \/ errand'[f] = NoErrand
  BY <1>1, <1>3, <1>4 DEF Ended
<1>6. \A f \in Errand : WellBegun(errand'[f])
  BY <1>1, <1>4, <1>5
<1>7. PICK told \in Batch \X Answer : told = <<errand[e].batch, errand[e].answer>>
  BY <1>1 DEF WellBegun
<1>8. shown' \subseteq shown \cup {told}
  BY <1>7 DEF TellAnswer
<1>9. ErrandInv'
  BY <1>2, <1>3, <1>5, <1>6, <1>8 DEF AnswersInv, ErrandInv, ErrandsTypeOK
<1>10. OneAsks' /\ AskedUnanswered' /\ ToldIsLinked'
  BY <1>2, <1>4, <1>5 DEF AnswersInv, OneAsks, AskedUnanswered, ToldIsLinked
<1>11. link[told[1]] = told[2] \/ told[1] \in raced
  BY <1>1, <1>7 DEF AnswersInv, ToldIsLinked
<1>12. AnswersAreKept'
  BY <1>2, <1>8, <1>11 DEF AnswersInv, AnswersAreKept
<1> QED BY <1>9, <1>10, <1>12 DEF AnswersInv

LEMMA TimePasses ==
  ASSUME AnswersInv, Refill \/ Age
  PROVE  AnswersInv'
<1>1. UNCHANGED <<errand, batch, link, answers, dead, shown, raced>>
  BY DEF Refill, Age
<1>2. remaining' \in 0 .. Capacity
  BY ErrandsAssumption DEF Refill, Age, AnswersInv, ErrandInv, ErrandsTypeOK
<1>3. recent' \in BOOLEAN /\ (recent' => recent)
  <2>1. recent' = recent \/ recent' = FALSE
    BY DEF Refill, Age
  <2>2. recent \in BOOLEAN
    BY DEF AnswersInv, ErrandInv, ErrandsTypeOK
  <2>3. CASE recent' = FALSE
    BY <2>3
  <2>4. CASE recent' = recent
    BY <2>2, <2>4, Zenon
  <2> QED BY <2>1, <2>3, <2>4
<1>4. Surroundings'
  BY <1>1, <1>2, <1>3 DEF Surroundings, AnswersInv, ErrandInv, ErrandsTypeOK
<1> QED BY <1>1, <1>4, QuietStep

LEMMA WorkKeeps ==
  ASSUME AnswersInv, NEW e \in Errand, Work(e) \/ WorkPanics(e)
  PROVE  AnswersInv'
BY ShowAnalysisKeeps, RefreshPositionKeeps, ReadAnalysesKeeps, TakeTokensKeeps,
   StoreAnswerKeeps, TellAnswerKeeps DEF Work
------------------------------------------------------------------------------
(* The bot.                                                                *)

BotInv ==
  /\ ChatInv
  /\ crossed \subseteq Draft
  /\ AnswersInv
  /\ menu \in Menus
  /\ surprises \in 0 .. menu.surprises

LEMMA BotInvTyped ==
  BotInv => TypeOK /\ AnswersAreKept
BY DEF BotInv, ChatInv, Hands, AnswersInv, ErrandInv, TypeOK, ConversationTypeOK

LEMMA BotBegins ==
  Init => BotInv
<1> SUFFICES ASSUME Init PROVE BotInv
  OBVIOUS
<1>1. NoHand \in Hand /\ Knows(NoHand)
  BY DEF NoHand, Hand, Knows, State, Reply
<1>2. ChatInv /\ crossed \subseteq Draft
  BY <1>1, BlankCollected DEF Init, InitChat, ChatInv, Hands, State
<1>3. NoErrand \in Errands /\ WellBegun(NoErrand) /\ NoErrand.at = "off"
  BY DEF NoErrand, Errands, WellBegun, Asks
<1>4. errand = [e \in Errand |-> NoErrand] /\ shown = {}
  BY DEF Init, InitErrands
<1>5. ErrandInv
  <2>1. recent = FALSE /\ dead = FALSE
    BY DEF Init, InitErrands
  <2>2. /\ batch \in {None} \cup Batch /\ link \in [Batch -> {None} \cup Answer]
        /\ answers \in {None} \cup Answer /\ shown \subseteq Batch \X Answer
        /\ raced \subseteq Batch
    BY DEF Init, InitErrands
  <2>3. remaining \in 0 .. Capacity
    BY ErrandsAssumption DEF Init, InitErrands
  <2> QED BY <1>3, <1>4, <2>1, <2>2, <2>3 DEF ErrandInv, ErrandsTypeOK
<1>6. AnswersInv
  BY <1>3, <1>4, <1>5
     DEF AnswersInv, OneAsks, AskedUnanswered, ToldIsLinked, AnswersAreKept, Asks
<1>7. menu \in Menus /\ surprises \in 0 .. menu.surprises
  BY BotAssumption DEF Init
<1> QED BY <1>2, <1>6, <1>7 DEF BotInv

LEMMA SurprisesTyped ==
  ASSUME BotInv, Surprise \/ Expected
  PROVE  menu' \in Menus /\ surprises' \in 0 .. menu'.surprises
<1>1. menu.surprises \in Nat
  BY BotAssumption DEF BotInv
<1> QED BY <1>1 DEF BotInv, Surprise, Expected, botVars

LEMMA HandleKeeps ==
  ASSUME BotInv, NEW h \in Handler, Handle(h)
  PROVE  BotInv'
<1>1. ChatInv'
  BY HandlerTyped DEF BotInv, Handle
<1>2. crossed' \subseteq Draft
  BY <1>1, CrossingTyped DEF BotInv, Handle
<1>3. AnswersInv'
  <2>1. UNCHANGED errandVars
    BY DEF Handle
  <2>2. Surroundings'
    BY <2>1 DEF errandVars, Surroundings, BotInv, AnswersInv, ErrandInv, ErrandsTypeOK
  <2> QED BY <2>1, <2>2, QuietStep DEF BotInv, errandVars
<1>4. Surprise \/ Expected
  BY DEF Handle, Update, AsExpected
<1> QED BY <1>1, <1>2, <1>3, <1>4, SurprisesTyped DEF BotInv

LEMMA HandOverKeeps ==
  ASSUME BotInv, NEW h \in Handler, HandOver(h)
  PROVE  BotInv'
<1>1. PICK e \in Errand, message \in BOOLEAN :
        /\ Loaded(message)
        /\ \/ AnalysisShown(h) /\ Start(e, "analysis", NoDraft, message)
           \/ ExitHandedOver(h) /\ Start(e, "exit", hand[h].draft, message)
  BY DEF HandOver
<1>2. ChatInv'
  BY <1>1, AnalyzeTyped, ExitHandedOverTyped DEF BotInv
<1>3. crossed' \subseteq Draft
  BY <1>2, CrossingTyped DEF BotInv, HandOver
<1>4. AnswersInv'
  <2>1. CASE AnalysisShown(h) /\ Start(e, "analysis", NoDraft, message)
    BY <2>1, StartKeeps DEF BotInv, Kind
  <2>2. CASE ExitHandedOver(h) /\ Start(e, "exit", hand[h].draft, message)
    <3>1. hand[h].draft \in Draft /\ hand[h].draft \in Nat
      BY <2>2 DEF BotInv, ChatInv, Hands, Knows, ExitHandedOver, Draft
    <3> QED BY <2>2, <3>1, StartKeeps DEF BotInv, Kind
  <2> QED BY <1>1, <2>1, <2>2
<1>5. Surprise \/ Expected
  BY <1>1 DEF Loaded
<1> QED BY <1>2, <1>3, <1>4, <1>5, SurprisesTyped DEF BotInv

\* Nothing of the dialogues changes.
LEMMA ChatUnchanged ==
  ASSUME BotInv, UNCHANGED chatVars
  PROVE  ChatInv' /\ crossed' \subseteq Draft
BY DEF BotInv, ChatInv, Hands, chatVars

LEMMA PressErrandKeeps ==
  ASSUME BotInv, PressErrand
  PROVE  BotInv'
<1>1. PICK e \in Errand, message \in BOOLEAN, kind \in {"refresh", "position", "ai"} :
        Start(e, kind, NoDraft, message)
  BY DEF PressErrand
<1>2. AnswersInv'
  BY <1>1, StartKeeps DEF BotInv, Kind
<1> QED BY <1>2, ChatUnchanged, SurprisesTyped DEF BotInv, PressErrand

LEMMA RecordExitKeeps ==
  ASSUME BotInv, NEW e \in Errand, RecordExitOf(e), Expected
  PROVE  BotInv'
<1>1. errand[e].draft \in Draft /\ dead \in BOOLEAN
  BY DEF BotInv, AnswersInv, ErrandInv, ErrandsTypeOK, WellBegun, RecordExitOf, At
<1>2. ChatInv' /\ crossed' \subseteq Draft
  <2>1. CASE RecordExit(errand[e].draft)
    BY <1>1, <2>1, RecordExitTyped DEF RecordExitOf, BotInv
  <2>2. CASE UNCHANGED saved
    BY <2>2, ChatUnchanged DEF RecordExitOf, chatVars
  <2> QED BY <2>1, <2>2 DEF RecordExitOf, BotInv
<1>3. dead' \in BOOLEAN /\ (Ended(e) \/ UNCHANGED errand)
  BY <1>1, PanicOutcome DEF RecordExitOf
<1>4. Surroundings'
  BY <1>3 DEF RecordExitOf, Surroundings, BotInv, AnswersInv, ErrandInv, ErrandsTypeOK
<1>5. AnswersInv'
  BY <1>3, <1>4, EndsOrDies DEF BotInv, RecordExitOf
<1> QED BY <1>2, <1>5, SurprisesTyped DEF BotInv

LEMMA WorldKeeps ==
  ASSUME BotInv, World
  PROVE  BotInv'
<1>1. ChatInv' /\ crossed' \subseteq Draft
  <2>1. CASE Expire
    BY <2>1 DEF Expire, BotInv, ChatInv, Hands, State
  <2> QED BY <2>1, ChatUnchanged DEF World
<1>2. AnswersInv'
  <2>1. CASE UNCHANGED errandVars
    <3>1. Surroundings'
      BY <2>1 DEF errandVars, Surroundings, BotInv, AnswersInv, ErrandInv, ErrandsTypeOK
    <3> QED BY <2>1, <3>1, QuietStep DEF BotInv, errandVars
  <2> QED BY <2>1, WorkKeeps, TimePasses DEF World, BotInv
<1>3. Surprise \/ Expected
  BY DEF World
<1> QED BY <1>1, <1>2, <1>3, SurprisesTyped DEF BotInv

LEMMA RestartKeeps ==
  ASSUME BotInv, Restart
  PROVE  BotInv'
<1>1. NoHand \in Hand /\ Knows(NoHand)
  BY DEF NoHand, Hand, Knows, State, Reply
<1>2. ChatInv' /\ crossed' \subseteq Draft
  BY <1>1 DEF Restart, BotInv, ChatInv, Hands, State
<1>3. NoErrand \in Errands /\ WellBegun(NoErrand) /\ NoErrand.at = "off"
  BY DEF NoErrand, Errands, WellBegun, Asks
<1>4. errand' = [e \in Errand |-> NoErrand]
  BY DEF Restart
<1>5. Surroundings'
  <2>1. remaining' \in 0 .. Capacity /\ dead' = FALSE /\ UNCHANGED <<batch, recent>>
    BY ErrandsAssumption DEF Restart
  <2> QED BY <2>1 DEF Surroundings, BotInv, AnswersInv, ErrandInv, ErrandsTypeOK
<1>6. ErrandInv'
  BY <1>3, <1>4, <1>5, TypesKept DEF Restart, BotInv
<1>7. AnswersInv'
  BY <1>3, <1>4, <1>6 DEF Restart, BotInv, AnswersInv, OneAsks, AskedUnanswered,
                          ToldIsLinked, AnswersAreKept, Asks
<1>8. Surprise
  BY DEF Restart
<1> QED BY <1>2, <1>7, <1>8, SurprisesTyped DEF BotInv

LEMMA BotStep ==
  BotInv /\ [Next]_vars => BotInv'
<1> SUFFICES ASSUME BotInv, [Next]_vars PROVE BotInv'
  OBVIOUS
<1>1. ASSUME NEW e \in Errand, Work(e), UNCHANGED chatVars, Expected PROVE BotInv'
  BY <1>1, WorkKeeps, ChatUnchanged, SurprisesTyped DEF BotInv
<1>2. CASE UNCHANGED vars
  <2>1. AnswersInv'
    <3>1. Surroundings'
      BY <1>2 DEF vars, errandVars, Surroundings, BotInv, AnswersInv, ErrandInv, ErrandsTypeOK
    <3> QED BY <1>2, <3>1, QuietStep DEF vars, BotInv, errandVars
  <2> QED BY <1>2, <2>1, ChatUnchanged, SurprisesTyped DEF BotInv, vars, Expected
<1> QED BY <1>1, <1>2, HandleKeeps, HandOverKeeps, PressErrandKeeps, RecordExitKeeps,
           WorldKeeps, RestartKeeps DEF Next

LEMMA BotSound ==
  Spec => []BotInv
<1> QED BY BotBegins, BotStep, PTL DEF Spec

\* The dialogues, the handlers and the errands never hold a value outside the types
\* of Conversation.tla and Errands.tla, whoever presses what and when.
THEOREM BotTyped == Spec => []TypeOK
<1> QED BY BotSound, BotInvTyped, PTL

\* The answer somebody was shown for a batch of analyses remains the one that the
\* batch points to, unless two errands asked before either had its answer
\* (telegram_bot.go:171, gemini_ai_repo.go:130).
THEOREM ShownAnswersKept == Spec => []AnswersAreKept
<1> QED BY BotSound, BotInvTyped, PTL
------------------------------------------------------------------------------
(* What the process dies of.                                               *)

LEMMA ReplacedOrDead ==
  ASSUME NEW e \in Errand, Replaced(e), ~dead
  PROVE  dead' => ProcessLives'
BY DEF Replaced, Panic, ProcessLives

LEMMA WorkOrDead ==
  ASSUME NEW e \in Errand, ~dead, Work(e) \/ WorkPanics(e) \/ RecordExitOf(e)
  PROVE  dead' => ProcessLives'
<1>1. ~Replaced(e) => ~dead'
  BY DEF Work, WorkPanics, RecordExitOf, ShowAnalysis, RefreshPosition, ReadAnalyses, TakeTokens,
         StoreAnswer, TellAnswer, AskFails, Panic, At
<1> QED BY <1>1, ReplacedOrDead

LEMMA LivesStep ==
  ProcessLives /\ [Next]_vars => ProcessLives'
<1> SUFFICES ASSUME ProcessLives, [Next]_vars PROVE ProcessLives'
  OBVIOUS
<1>1. CASE ~dead
  <2>1. UNCHANGED errandVars \/ PressErrand \/ Refill \/ Age \/ Restart
          \/ (\E h \in Handler : HandOver(h))
        => ~dead'
    BY <1>1 DEF errandVars, PressErrand, Start, OnlyErrand, HandOver, Refill, Age, Restart
  <2>2. ~dead' => ProcessLives'
    BY DEF ProcessLives
  <2> QED BY <1>1, <2>1, <2>2, WorkOrDead DEF Next, World, Handle, vars, errandVars
<1>2. CASE dead
  BY <1>2 DEF Next, Restart, ProcessLives, vars, errandVars
<1> QED BY <1>1, <1>2

\* However many errands and handlers are at work, the process dies of nothing but
\* an AI errand without its loading message (analyze_ai.go:69).
THEOREM DiesOfAIOnly == Spec => []ProcessLives
<1>1. Init => ProcessLives
  BY DEF Init, InitErrands, ProcessLives
<1> QED BY <1>1, LivesStep, PTL DEF Spec
------------------------------------------------------------------------------
(* What the dialogues record.  A draft is worked on by one handler at a    *)
(* time or is crossed; the handler of a draft that is not knows how far    *)
(* its answers go.                                                         *)

KnowsKind(h) ==
  /\ hand[h].at = "off" => hand[h] = NoHand
  /\ hand[h].at \in {"complain", "ack", "prompt", "edit", "save"} => draft[hand[h].draft].is = "set"
  /\ hand[h].at \in {"position", "askDate", "exit"} => draft[hand[h].draft].is = "exit"

\* The questions before q have an answer.
Filled(r, q) == \A p \in Question : p < q => r.given[p] # "none"

HandFilled(h) ==
  hand[h].draft \in Draft \ crossed =>
    /\ hand[h].at = "complain" => Filled(draft[hand[h].draft], hand[h].asked)
    /\ hand[h].at \in {"ack", "edit", "prompt"} => Filled(draft[hand[h].draft], hand[h].asked + 1)
    /\ hand[h].at = "prompt" => state \in {StateIdle, hand[h].asked + 1}
    /\ hand[h].at = "save" => Filled(draft[hand[h].draft], 9)

Priced(d) == draft[d].price \in {"good", "negative"}
ExitReady(h) ==
  hand[h].at = "exit" =>
    /\ draft[hand[h].draft].dated
    /\ hand[h].draft \notin crossed => Priced(hand[h].draft)

Stands(h) == KnowsKind(h) /\ HandFilled(h) /\ ExitReady(h)

Answered ==
  data \in Draft \ crossed /\ draft[data].is = "set" /\ state \in Question => Filled(draft[data], state)

\* Handlers at work at the same time have crossed what they have in hand, and a
\* draft other than its own that a handler finds in the cache is crossed.
Overlaps ==
  \A g, h \in Busy : g # h => {data, hand[g].draft, hand[h].draft} \subseteq crossed \cup {NoDraft}
Own ==
  \A h \in Handler : hand[h].draft # NoDraft => data \in {hand[h].draft, NoDraft} \cup crossed

Told(r) == \A q \in Question : r.given[q] = "bad" => q \in r.told
RefusalsTold == \A d \in Draft : Told(draft[d])

\* An exit handed over to an errand is out of the dialogues' reach.
Closed(d) == data # d /\ \A h \in Handler : hand[h].draft # d
Handed(d) ==
  /\ draft[d].is = "exit" /\ draft[d].dated
  /\ d \notin crossed => Priced(d) /\ Closed(d)
ExitsHanded == \A e \in Errand : At(e, "exit", "work") => Handed(errand[e].draft)
ExitsRecorded ==
  \A entry \in saved : entry[2].is = "exit" =>
    /\ Handed(entry[1])
    /\ entry[2].dated
    /\ entry[1] \notin crossed => entry[2].price = "good" \/ draft[entry[1]].price = "negative"

DialogueInv == /\ \A h \in Handler : Stands(h)
               /\ Answered /\ Overlaps /\ Own /\ RefusalsTold
RecordInv == DialogueInv /\ ExitsHanded /\ ExitsRecorded /\ SavedIsComplete

\* What a step of a handler may touch: its own entry, the draft in the cache and the
\* one in its hand, and one that was never begun.
Frame(h) ==
  /\ \A g \in Handler \ {h} : hand'[g] = hand[g]
  /\ hand'[h].draft \in {NoDraft, data, hand[h].draft}
  /\ \/ data' \in {data, NoDraft}
     \/ data' = hand[h].draft /\ hand'[h].draft \in {NoDraft, hand[h].draft}
     \/ data' \in Unused /\ hand'[h] = NoHand
  /\ \A d \in Draft : draft'[d] = draft[d] \/ d \in {data, hand[h].draft} \cup Unused
  /\ \A d \in Draft : draft[d].is # "none" =>
       draft'[d].is = draft[d].is /\ (draft[d].dated => draft'[d].dated)
  /\ \A d \in Draft : Told(draft[d]) => Told(draft'[d])

LEMMA QuietHand ==
  ASSUME ChatInv, DialogueInv, NEW h \in Handler, crossed \subseteq crossed', draft' = draft,
         data' \in {data, NoDraft}, state' = state \/ state' \notin Question,
         NEW r \in Hand, hand' = [hand EXCEPT ![h] = r],
         r.at \in {"off", "restart", "reset", "loading", "show"},
         r.draft \in {NoDraft, data, hand[h].draft}, r.at = "off" => r = NoHand
  PROVE  Frame(h) /\ Stands(h)' /\ Answered'
<1>1. hand'[h] = r /\ \A g \in Handler \ {h} : hand'[g] = hand[g]
  BY DEF ChatInv, Hands
<1>2. Frame(h)
  BY <1>1 DEF Frame
<1>3. Stands(h)'
  BY <1>1 DEF Stands, KnowsKind, HandFilled, ExitReady
<1>4. Answered'
  BY DEF Answered, DialogueInv, Filled, Draft
<1> QED BY <1>2, <1>3, <1>4

LEMMA DoneQuiet ==
  ASSUME ChatInv, DialogueInv, NEW h \in Handler, crossed \subseteq crossed', draft' = draft,
         data' \in {data, NoDraft}, state' = state \/ state' \notin Question, Done(h)
  PROVE  Frame(h) /\ Stands(h)' /\ Answered'
<1>1. NoHand \in Hand /\ NoHand.at = "off" /\ NoHand.draft = NoDraft
  BY DEF NoHand, Hand, State, Reply
<1> QED BY <1>1, QuietHand DEF Done

LEMMA SameHand ==
  ASSUME ChatInv, DialogueInv, NEW h \in Handler, hand[h] = NoHand, crossed \subseteq crossed',
         draft' = draft, data' \in {data, NoDraft}, state' = state \/ state' \notin Question,
         UNCHANGED hand
  PROVE  Frame(h) /\ Stands(h)' /\ Answered'
<1>1. hand' = [hand EXCEPT ![h] = NoHand]
  BY DEF ChatInv, Hands
<1> QED BY <1>1, DoneQuiet DEF Done

LEMMA RestsQuiet ==
  ASSUME ChatInv, DialogueInv, NEW h \in Handler, crossed \subseteq crossed', draft' = draft,
         data' \in {data, NoDraft}, state' = state \/ state' \notin Question,
         NEW at \in {"restart", "reset", "loading", "show"}, NEW asked \in State,
         Waits(h, at, asked, NoDraft, "none")
  PROVE  Frame(h) /\ Stands(h)' /\ Answered'
<1>1. PICK r : r = [at |-> at, asked |-> asked, draft |-> NoDraft, reply |-> "none"]
  OBVIOUS
<1>2. r \in Hand /\ r.at = at /\ r.draft = NoDraft
  BY <1>1 DEF Hand, Reply
<1>3. hand' = [hand EXCEPT ![h] = r]
  BY <1>1 DEF Waits
<1> QED BY <1>2, <1>3, QuietHand

LEMMA BeginStands ==
  ASSUME ChatInv, DialogueInv, NEW h \in Handler, crossed \subseteq crossed',
         NEW d \in Unused, NEW is \in {"set", "exit"}, NEW asked,
         asked \in Question => asked = 1, Begin(d, is, asked),
         Done(h) \/ (hand[h] = NoHand /\ UNCHANGED hand)
  PROVE  Frame(h) /\ Stands(h)' /\ Answered'
<1>1. hand'[h] = NoHand /\ \A g \in Handler \ {h} : hand'[g] = hand[g]
  BY DEF ChatInv, Hands, Done
<1>2. d \in Draft /\ draft[d].is = "none"
  BY DEF Unused
<1>3. draft'[d] = Blank(is) /\ \A e \in Draft \ {d} : draft'[e] = draft[e]
  BY <1>2 DEF Begin, ChatInv
<1>4. Told(Blank(is))
  BY DEF Told, Blank
<1>5. Frame(h)
  BY <1>1, <1>2, <1>3, <1>4 DEF Frame, Begin, NoHand
<1>6. Stands(h)'
  BY <1>1 DEF Stands, KnowsKind, HandFilled, ExitReady, NoHand
<1>7. Answered'
  BY DEF Answered, Filled, Begin, Question, Asked
<1> QED BY <1>5, <1>6, <1>7

LEMMA HandOf ==
  ASSUME ChatInv, NEW h \in Handler, NEW r, hand' = [hand EXCEPT ![h] = r]
  PROVE  hand'[h] = r /\ \A g \in Handler \ {h} : hand'[g] = hand[g]
BY DEF ChatInv, Hands

\* A question that gets an answer.
LEMMA Gave ==
  ASSUME ChatInv, NEW d \in Draft, NEW q \in Question, Give(d, q, "good")
  PROVE  /\ \A e \in Draft \ {d} : draft'[e] = draft[e]
         /\ draft'[d].is = draft[d].is /\ draft'[d].dated = draft[d].dated
         /\ Told(draft[d]) => Told(draft'[d])
         /\ Filled(draft[d], q) => Filled(draft'[d], q + 1)
<1>1. draft[d] \in Collected
  BY DEF ChatInv
<1>2. draft' = [draft EXCEPT ![d] = [draft[d] EXCEPT !.given[q] = "good"]]
  BY DEF Give
<1>3. draft'[d] = [draft[d] EXCEPT !.given[q] = "good"] /\ \A e \in Draft \ {d} : draft'[e] = draft[e]
  BY <1>2 DEF ChatInv
<1>4. /\ draft'[d].is = draft[d].is /\ draft'[d].dated = draft[d].dated
      /\ draft'[d].told = draft[d].told
      /\ draft'[d].given = [draft[d].given EXCEPT ![q] = "good"]
  BY <1>1, <1>3 DEF Collected
<1>5. draft'[d].given[q] = "good" /\ \A p \in Question \ {q} : draft'[d].given[p] = draft[d].given[p]
  BY <1>1, <1>4 DEF Collected
<1>6. Told(draft[d]) => Told(draft'[d])
  BY <1>4, <1>5 DEF Told
<1>7. Filled(draft[d], q) => Filled(draft'[d], q + 1)
  <2> SUFFICES ASSUME Filled(draft[d], q), NEW p \in Question, p < q + 1
               PROVE  draft'[d].given[p] # "none"
    BY DEF Filled
  <2>1. p = q \/ p < q
    BY DEF Question, Asked
  <2> QED BY <1>5, <2>1 DEF Filled
<1> QED BY <1>3, <1>4, <1>6, <1>7

\* One that gets an answer refused and told.
LEMMA Refused ==
  ASSUME ChatInv, NEW d \in Draft, NEW q \in Question,
         draft' = [draft EXCEPT ![d].given[q] = "bad", ![d].told = @ \cup {q}]
  PROVE  /\ \A e \in Draft \ {d} : draft'[e] = draft[e]
         /\ draft'[d].is = draft[d].is /\ draft'[d].dated = draft[d].dated
         /\ Told(draft[d]) => Told(draft'[d])
         /\ Filled(draft[d], q) => Filled(draft'[d], q + 1)
<1>1. draft[d] \in Collected
  BY DEF ChatInv
<1>2. draft' = [draft EXCEPT ![d] =
                  [draft[d] EXCEPT !.given[q] = "bad", !.told = draft[d].told \cup {q}]]
  BY DEF ChatInv
<1>3. /\ draft'[d] = [draft[d] EXCEPT !.given[q] = "bad", !.told = draft[d].told \cup {q}]
      /\ \A e \in Draft \ {d} : draft'[e] = draft[e]
  BY <1>2 DEF ChatInv
<1>4. PICK r \in Collected, t \in SUBSET Question : r = draft[d] /\ t = r.told \cup {q}
  BY <1>1 DEF Collected
<1>5. draft'[d] = [r EXCEPT !.given[q] = "bad", !.told = t]
  BY <1>3, <1>4
<1>6. draft'[d].is = r.is /\ draft'[d].dated = r.dated /\ draft'[d].told = t
  BY <1>5 DEF Collected
<1>7. draft'[d].given[q] = "bad" /\ \A p \in Question \ {q} : draft'[d].given[p] = r.given[p]
  <2>1. r.given \in [Question -> {"none", "good", "bad"}]
    BY DEF Collected
  <2>2. draft'[d].given = [r.given EXCEPT ![q] = "bad"]
    BY <1>5 DEF Collected
  <2> QED BY <2>1, <2>2
<1>8. Told(draft[d]) => Told(draft'[d])
  <2>1. r.told \subseteq t /\ q \in t
    BY <1>4
  <2>2. Told(r) => Told(draft'[d])
    BY <1>6, <1>7, <2>1 DEF Told
  <2> QED BY <1>4, <2>2
<1>9. Filled(draft[d], q) => Filled(draft'[d], q + 1)
  <2> SUFFICES ASSUME Filled(draft[d], q), NEW p \in Question, p < q + 1
               PROVE  draft'[d].given[p] # "none"
    BY DEF Filled
  <2>1. p = q \/ p < q
    BY DEF Question, Asked
  <2> QED BY <1>4, <1>7, <2>1 DEF Filled
<1> QED BY <1>3, <1>4, <1>6, <1>8, <1>9

LEMMA AnswerQuestionStands ==
  ASSUME ChatInv, DialogueInv, NEW h \in Handler, NEW reply \in Reply, AnswerQuestion(h, reply),
         crossed \subseteq crossed'
  PROVE  Frame(h) /\ Stands(h)' /\ Answered'
<1>1. /\ hand[h] = NoHand /\ state \in Asked /\ state \in Question /\ data \in Draft
      /\ draft[data].is = "set" /\ data' = data
  BY HasDraft DEF AnswerQuestion, Has, Question
<1>2. PICK d \in Draft, q \in Question : d = data /\ q = state
  BY <1>1
<1>3. d \notin crossed' => Filled(draft[d], q)
  BY <1>1, <1>2 DEF DialogueInv, Answered
<1>4. CASE reply = "bad"
  <2>1. draft' = draft /\ state' = q /\ Waits(h, "complain", q, d, reply)
    BY <1>2, <1>4 DEF AnswerQuestion
  <2>2. /\ hand'[h].at = "complain" /\ hand'[h].asked = q /\ hand'[h].draft = d
        /\ \A g \in Handler \ {h} : hand'[g] = hand[g]
    <3>1. hand'[h] = [at |-> "complain", asked |-> q, draft |-> d, reply |-> reply]
      BY <2>1, HandOf DEF Waits
    <3> QED BY <2>1, <3>1, HandOf DEF Waits
  <2>3. Frame(h)
    BY <1>1, <1>2, <2>1, <2>2 DEF Frame
  <2>4. Stands(h)' /\ Answered'
    BY <1>1, <1>2, <1>3, <2>1, <2>2 DEF Stands, KnowsKind, HandFilled, ExitReady, Answered
  <2> QED BY <2>3, <2>4
<1>5. CASE reply # "bad"
  <2>1. Give(d, q, "good")
    BY <1>2, <1>5 DEF AnswerQuestion
  <2>2. \/ state' = q /\ q = 1 /\ Waits(h, "ack", q, d, reply)
        \/ state' = q + 1 /\ Waits(h, "prompt", q, d, reply)
    BY <1>2, <1>5 DEF AnswerQuestion
  <2>3. /\ hand'[h].asked = q /\ hand'[h].draft = d
        /\ hand'[h].at = "ack" \/ (hand'[h].at = "prompt" /\ state' = q + 1)
        /\ \A g \in Handler \ {h} : hand'[g] = hand[g]
    BY <2>2, HandOf DEF Waits
  <2>4. /\ \A e \in Draft \ {d} : draft'[e] = draft[e]
        /\ draft'[d].is = "set" /\ draft'[d].dated = draft[d].dated
        /\ Told(draft[d]) => Told(draft'[d])
        /\ d \notin crossed' => Filled(draft'[d], q + 1)
    BY <1>1, <1>2, <1>3, <2>1, Gave
  <2>5. Frame(h)
    BY <1>1, <1>2, <2>3, <2>4 DEF Frame
  <2>6. Answered'
    BY <1>1, <1>2, <2>2, <2>4 DEF Answered, Filled, Question, Asked
  <2>7. Stands(h)'
    BY <2>3, <2>4 DEF Stands, KnowsKind, HandFilled, ExitReady
  <2> QED BY <2>5, <2>6, <2>7
<1> QED BY <1>4, <1>5

LEMMA ComplainedStands ==
  ASSUME ChatInv, DialogueInv, NEW h \in Handler, Complained(h), crossed \subseteq crossed'
  PROVE  Frame(h) /\ Stands(h)' /\ Answered'
<1>1. /\ hand[h] \in Hand /\ hand[h].at = "complain" /\ hand[h].asked \in Asked
      /\ hand[h].asked \in Question /\ hand[h].draft \in Draft
  BY DEF Complained, ChatInv, Hands, Knows, Question
<1>2. PICK d \in Draft, q \in Question : d = hand[h].draft /\ q = hand[h].asked
  BY <1>1
<1>3. /\ draft[d].is = "set" /\ data' = data /\ data \in {d, NoDraft} \cup crossed
      /\ d \notin crossed => Filled(draft[d], q)
  BY <1>1, <1>2 DEF DialogueInv, Stands, KnowsKind, HandFilled, Own, Complained, Draft
<1>4. draft' = [draft EXCEPT ![d].given[q] = "bad", ![d].told = @ \cup {q}]
  BY <1>2 DEF Complained
<1>5. /\ \A e \in Draft \ {d} : draft'[e] = draft[e]
      /\ draft'[d].is = "set" /\ draft'[d].dated = draft[d].dated
      /\ Told(draft[d]) => Told(draft'[d])
      /\ d \notin crossed' => Filled(draft'[d], q + 1)
  BY <1>3, <1>4, Refused
<1>6. \/ hand' = [hand EXCEPT ![h] = [hand[h] EXCEPT !.at = "ack"]] /\ state' = state /\ q = 1
      \/ hand' = [hand EXCEPT ![h] = [hand[h] EXCEPT !.at = "prompt"]] /\ state' = q + 1
  BY <1>2 DEF Complained, WaitsOn
<1>7. /\ hand'[h].asked = q /\ hand'[h].draft = d
      /\ hand'[h].at = "ack" \/ (hand'[h].at = "prompt" /\ state' = q + 1)
      /\ \A g \in Handler \ {h} : hand'[g] = hand[g]
  BY <1>1, <1>2, <1>6, HandOf DEF Hand
<1>8. Frame(h)
  BY <1>1, <1>2, <1>3, <1>5, <1>7 DEF Frame
<1>9. Stands(h)'
  BY <1>5, <1>7 DEF Stands, KnowsKind, HandFilled, ExitReady
<1>10. Answered'
  <2>1. CASE state' = q + 1
    BY <1>3, <1>5, <2>1 DEF Answered, Draft
  <2>2. CASE state' = state /\ q = 1
    <3>1. \A p \in Question : p < state /\ draft[d].given[p] # "none" => draft'[d].given[p] # "none"
      <4>1. draft[d] \in Collected
        BY DEF ChatInv
      <4> QED BY <1>4, <4>1 DEF Collected, ChatInv
    <3>2. ASSUME data \in Draft \ crossed', draft'[data].is = "set", state \in Question
          PROVE  Filled(draft'[data], state)
      <4>1. data = d /\ Filled(draft[d], state)
        BY <1>3, <3>2 DEF DialogueInv, Answered, Draft
      <4> QED BY <3>1, <4>1 DEF Filled
    <3> QED BY <1>3, <2>2, <3>2 DEF Answered
  <2> QED BY <1>6, <2>1, <2>2
<1> QED BY <1>8, <1>9, <1>10

LEMMA AcknowledgedStands ==
  ASSUME ChatInv, DialogueInv, NEW h \in Handler, Acknowledged(h), crossed \subseteq crossed'
  PROVE  Frame(h) /\ Stands(h)' /\ Answered'
<1>1. hand[h] \in Hand /\ hand[h].at = "ack" /\ hand[h].asked \in Asked /\ hand[h].draft \in Draft
  BY DEF Acknowledged, ChatInv, Hands, Knows
<1>2. PICK d \in Draft, q \in Asked : d = hand[h].draft /\ q = hand[h].asked
  BY <1>1
<1>3. /\ draft[d].is = "set" /\ data \in {d, NoDraft} \cup crossed
      /\ d \notin crossed => Filled(draft[d], q + 1)
  BY <1>1, <1>2 DEF DialogueInv, Stands, KnowsKind, HandFilled, Own, Draft
<1>4. draft' = draft /\ data' = data /\ state' = q + 1
  BY <1>2 DEF Acknowledged
<1>5. hand' = [hand EXCEPT ![h] = [hand[h] EXCEPT !.at = "prompt"]]
  BY DEF Acknowledged, WaitsOn
<1>6. /\ hand'[h].at = "prompt" /\ hand'[h].asked = q /\ hand'[h].draft = d
      /\ \A g \in Handler \ {h} : hand'[g] = hand[g]
  <2>1. /\ hand'[h] = [hand[h] EXCEPT !.at = "prompt"]
        /\ \A g \in Handler \ {h} : hand'[g] = hand[g]
    BY <1>5, HandOf
  <2> QED BY <1>1, <1>2, <2>1 DEF Hand
<1>7. Frame(h)
  BY <1>1, <1>2, <1>4, <1>6 DEF Frame
<1>8. Stands(h)'
  BY <1>3, <1>4, <1>6 DEF Stands, KnowsKind, HandFilled, ExitReady
<1>9. Answered'
  BY <1>3, <1>4 DEF Answered, Draft
<1> QED BY <1>7, <1>8, <1>9

LEMMA PromptedStands ==
  ASSUME ChatInv, DialogueInv, NEW h \in Handler, Prompted(h), crossed \subseteq crossed'
  PROVE  Frame(h) /\ Stands(h)' /\ Answered'
<1>1. hand[h] \in Hand /\ hand[h].at = "prompt" /\ hand[h].draft \in Draft
  BY DEF Prompted, ChatInv, Hands, Knows
<1>2. PICK d \in Draft, q \in State : d = hand[h].draft /\ q = hand[h].asked
  BY <1>1 DEF Hand
<1>3. d \notin crossed => Filled(draft[d], q + 1) /\ state \in {StateIdle, q + 1}
  BY <1>1, <1>2 DEF DialogueInv, Stands, HandFilled
<1>4. draft' = draft /\ data' = d /\ state' = state /\ hand' = [hand EXCEPT ![h] = NoHand]
  BY <1>2 DEF Prompted, Done
<1>5. hand'[h] = NoHand /\ \A g \in Handler \ {h} : hand'[g] = hand[g]
  BY <1>4, HandOf
<1>6. Frame(h)
  BY <1>2, <1>4, <1>5 DEF Frame, NoHand
<1>7. Stands(h)'
  BY <1>5 DEF Stands, KnowsKind, HandFilled, ExitReady, NoHand
<1>8. Answered'
  BY <1>3, <1>4 DEF Answered, Question, Asked
<1> QED BY <1>6, <1>7, <1>8

LEMMA PressAlertStands ==
  ASSUME ChatInv, DialogueInv, NEW h \in Handler, NEW q \in {7, 8}, PressAlert(h, q),
         crossed \subseteq crossed'
  PROVE  Frame(h) /\ Stands(h)' /\ Answered'
<1>1. CASE WaitedOn(q) /\ Has(data, "set")
  <2>1. data \in Draft /\ draft[data].is = "set" /\ state = q /\ q \in Question
    BY <1>1, HasDraft DEF Has, WaitedOn, Question
  <2>2. PICK d \in Draft : d = data
    BY <2>1
  <2>3. d \notin crossed' => Filled(draft[d], q)
    BY <2>1, <2>2 DEF DialogueInv, Answered
  <2>4. Give(d, q, "good") /\ data' = d /\ state' = q /\ Waits(h, "edit", q, d, "none")
    BY <1>1, <2>1, <2>2 DEF PressAlert
  <2>5. hand'[h] = [at |-> "edit", asked |-> q, draft |-> d, reply |-> "none"]
    BY <2>4, HandOf DEF Waits
  <2>6. /\ hand'[h].at = "edit" /\ hand'[h].asked = q /\ hand'[h].draft = d
        /\ \A g \in Handler \ {h} : hand'[g] = hand[g]
    BY <2>4, <2>5, HandOf DEF Waits
  <2>7. /\ \A e \in Draft \ {d} : draft'[e] = draft[e]
        /\ draft'[d].is = "set" /\ draft'[d].dated = draft[d].dated
        /\ Told(draft[d]) => Told(draft'[d])
        /\ d \notin crossed' => Filled(draft'[d], q + 1)
    BY <2>1, <2>2, <2>3, <2>4, Gave
  <2>8. Frame(h)
    <3>1. data' \in {data, NoDraft} /\ hand'[h].draft \in {NoDraft, data, hand[h].draft}
      BY <2>2, <2>4, <2>6
    <3> QED BY <2>1, <2>2, <2>6, <2>7, <3>1 DEF Frame
  <2>9. Stands(h)'
    BY <2>6, <2>7 DEF Stands, KnowsKind, HandFilled, ExitReady
  <2>10. Answered'
    BY <2>4, <2>7 DEF Answered, Filled, Question, Asked
  <2> QED BY <2>8, <2>9, <2>10
<1>2. CASE ~(WaitedOn(q) /\ Has(data, "set"))
  BY <1>2, SameHand DEF PressAlert, ResetUserState, Question, Asked
<1> QED BY <1>1, <1>2

\* The last question is followed by the draft as the cache has it.
LEMMA EditedStands ==
  ASSUME ChatInv, DialogueInv, NEW h \in Handler, Edited(h), crossed \subseteq crossed'
  PROVE  Frame(h) /\ Stands(h)' /\ Answered'
<1>1. hand[h] \in Hand /\ hand[h].at = "edit" /\ hand[h].asked \in {7, 8} /\ hand[h].draft \in Draft
  BY DEF Edited, ChatInv, Hands, Knows
<1>2. PICK d \in Draft, q \in {7, 8} : d = hand[h].draft /\ q = hand[h].asked
  BY <1>1
<1>3. /\ data \in {d, NoDraft} \cup crossed
      /\ d \notin crossed => Filled(draft[d], q + 1)
  BY <1>1, <1>2 DEF DialogueInv, Stands, HandFilled, Own, Draft
<1>4. draft' = draft /\ data' = data
  BY DEF Edited
<1>5. CASE q = 7
  <2>1. state' = 8 /\ hand' = [hand EXCEPT ![h] = NoHand]
    BY <1>2, <1>5 DEF Edited, Done
  <2>2. hand'[h] = NoHand /\ \A g \in Handler \ {h} : hand'[g] = hand[g]
    BY <2>1, HandOf
  <2>3. Frame(h)
    BY <1>4, <2>2 DEF Frame, NoHand
  <2>4. Stands(h)'
    BY <2>2 DEF Stands, KnowsKind, HandFilled, ExitReady, NoHand
  <2>5. Answered'
    BY <1>3, <1>4, <1>5, <2>1 DEF Answered, Draft
  <2> QED BY <2>3, <2>4, <2>5
<1>6. CASE q = 8 /\ Has(data, "set")
  <2>1. PICK e \in Draft : e = data /\ draft[e].is = "set" /\ (e \notin crossed => Filled(draft[e], 9))
    BY <1>3, <1>6, HasDraft DEF Has, Draft
  <2>2. state' = state /\ Waits(h, "save", StateIdle, e, "none")
    BY <1>2, <1>6, <2>1 DEF Edited
  <2>3. hand'[h] = [at |-> "save", asked |-> StateIdle, draft |-> e, reply |-> "none"]
    BY <2>2, HandOf DEF Waits
  <2>4. /\ hand'[h].at = "save" /\ hand'[h].draft = e
        /\ \A g \in Handler \ {h} : hand'[g] = hand[g]
    BY <2>2, <2>3, HandOf DEF Waits
  <2>5. Frame(h)
    BY <1>4, <2>1, <2>4 DEF Frame
  <2>6. Stands(h)'
    BY <1>4, <2>1, <2>4 DEF Stands, KnowsKind, HandFilled, ExitReady
  <2>7. Answered'
    BY <1>4, <2>2 DEF Answered, DialogueInv
  <2> QED BY <2>5, <2>6, <2>7
<1>7. CASE q = 8 /\ ~Has(data, "set")
  <2>1. state' = state /\ Waits(h, "reset", StateIdle, data, "none")
    BY <1>2, <1>7 DEF Edited
  <2>2. PICK r : r = [at |-> "reset", asked |-> StateIdle, draft |-> data, reply |-> "none"]
    OBVIOUS
  <2>3. r \in Hand /\ r.at = "reset" /\ r.draft = data
    BY <2>2 DEF Hand, State, Reply, ChatInv
  <2>4. hand' = [hand EXCEPT ![h] = r]
    BY <2>1, <2>2 DEF Waits
  <2> QED BY <1>4, <2>1, <2>3, <2>4, QuietHand
<1> QED BY <1>2, <1>5, <1>6, <1>7

LEMMA SaveDraftStands ==
  ASSUME ChatInv, DialogueInv, NEW h \in Handler, SaveDraft(h), crossed \subseteq crossed'
  PROVE  Frame(h) /\ Stands(h)' /\ Answered'
<1>1. PICK r : r = [hand[h] EXCEPT !.at = "reset"]
  OBVIOUS
<1>2. hand[h] \in Hand
  BY DEF ChatInv, Hands
<1>3. r \in Hand /\ r.at = "reset" /\ r.draft = hand[h].draft
  BY <1>1, <1>2 DEF Hand
<1>4. hand' = [hand EXCEPT ![h] = r] /\ draft' = draft /\ data' = data /\ state' = state
  BY <1>1 DEF SaveDraft, WaitsOn
<1> QED BY <1>3, <1>4, QuietHand

LEMMA AnswerExitStands ==
  ASSUME ChatInv, DialogueInv, NEW h \in Handler, NEW reply \in Reply, AnswerExit(h, reply),
         crossed \subseteq crossed'
  PROVE  Frame(h) /\ Stands(h)' /\ Answered'
<1>1. CASE Has(data, "exit")
  <2>1. PICK d \in Draft : d = data /\ draft[d].is = "exit"
    BY <1>1, HasDraft DEF Has
  <2>2. draft' = draft /\ data' = d /\ state' = state /\ Waits(h, "position", state, d, reply)
    BY <1>1, <2>1 DEF AnswerExit
  <2>3. hand'[h] = [at |-> "position", asked |-> state, draft |-> d, reply |-> reply]
    BY <2>2, HandOf DEF Waits
  <2>4. /\ hand'[h].at = "position" /\ hand'[h].draft = d
        /\ \A g \in Handler \ {h} : hand'[g] = hand[g]
    BY <2>2, <2>3, HandOf DEF Waits
  <2>5. Frame(h)
    BY <2>1, <2>2, <2>4 DEF Frame
  <2>6. Stands(h)' /\ Answered'
    BY <2>1, <2>2, <2>4 DEF Stands, KnowsKind, HandFilled, ExitReady, Answered
  <2> QED BY <2>5, <2>6
<1>2. CASE ~Has(data, "exit")
  BY <1>2, SameHand DEF AnswerExit, ResetUserState, Question, Asked
<1> QED BY <1>1, <1>2

LEMMA ExitAnsweredStands ==
  ASSUME ChatInv, DialogueInv, NEW h \in Handler, ExitAnswered(h), crossed \subseteq crossed'
  PROVE  Frame(h) /\ Stands(h)' /\ Answered'
<1>1. /\ hand[h] \in Hand /\ hand[h].at = "position" /\ hand[h].draft \in Draft
      /\ hand[h].reply \in Reply \cup {"none"}
  BY DEF ExitAnswered, ChatInv, Hands, Knows, Hand
<1>2. PICK d \in Draft, price \in Reply \cup {"none"} : d = hand[h].draft /\ price = hand[h].reply
  BY <1>1
<1>3. draft[d] \in Collected /\ draft[d].is = "exit" /\ data \in {d, NoDraft} \cup crossed
  BY <1>1, <1>2 DEF ChatInv, DialogueInv, Stands, KnowsKind, Own, Draft
<1>4. CASE /\ draft' = [draft EXCEPT ![d].price = price] /\ data' = d /\ WaitsOn(h, "askDate")
           /\ UNCHANGED state
  <2>1. draft' = [draft EXCEPT ![d] = [draft[d] EXCEPT !.price = price]]
    BY <1>4
  <2>2. /\ draft'[d] = [draft[d] EXCEPT !.price = price]
        /\ \A e \in Draft \ {d} : draft'[e] = draft[e]
    BY <2>1 DEF ChatInv
  <2>3. /\ draft'[d].is = "exit" /\ draft'[d].dated = draft[d].dated
        /\ draft'[d].given = draft[d].given /\ draft'[d].told = draft[d].told
    BY <1>3, <2>2 DEF Collected
  <2>4. /\ hand'[h] = [hand[h] EXCEPT !.at = "askDate"]
        /\ \A g \in Handler \ {h} : hand'[g] = hand[g]
    BY <1>4, HandOf DEF WaitsOn
  <2>5. hand'[h].at = "askDate" /\ hand'[h].draft = d
    BY <1>1, <1>2, <2>4 DEF Hand
  <2>6. Frame(h)
    BY <1>2, <1>3, <1>4, <2>2, <2>3, <2>4, <2>5 DEF Frame, Told
  <2>7. Stands(h)' /\ Answered'
    BY <1>4, <2>3, <2>5 DEF Stands, KnowsKind, HandFilled, ExitReady, Answered
  <2> QED BY <2>6, <2>7
<1>5. CASE /\ draft' = [draft EXCEPT ![d].dated = TRUE]
           /\ state' = StateWaitingExitPositionConfirm /\ Done(h) /\ UNCHANGED data
  <2>1. draft' = [draft EXCEPT ![d] = [draft[d] EXCEPT !.dated = TRUE]]
    BY <1>5
  <2>2. /\ draft'[d] = [draft[d] EXCEPT !.dated = TRUE]
        /\ \A e \in Draft \ {d} : draft'[e] = draft[e]
    BY <2>1 DEF ChatInv
  <2>3. /\ draft'[d].is = "exit" /\ draft'[d].dated
        /\ draft'[d].given = draft[d].given /\ draft'[d].told = draft[d].told
    BY <1>3, <2>2 DEF Collected
  <2>4. hand'[h] = NoHand /\ \A g \in Handler \ {h} : hand'[g] = hand[g]
    BY <1>5, HandOf DEF Done
  <2>5. Frame(h)
    BY <1>2, <1>3, <1>5, <2>2, <2>3, <2>4 DEF Frame, Told, NoHand
  <2>6. Stands(h)' /\ Answered'
    BY <1>5, <2>4 DEF Stands, KnowsKind, HandFilled, ExitReady, NoHand, Answered, Question, Asked
  <2> QED BY <2>5, <2>6
<1>6. CASE Done(h) /\ UNCHANGED <<state, data, draft>>
  BY <1>6, DoneQuiet
<1> QED BY <1>2, <1>4, <1>5, <1>6 DEF ExitAnswered

LEMMA SaveExitStands ==
  ASSUME ChatInv, DialogueInv, NEW h \in Handler, SaveExitPosition(h), crossed \subseteq crossed'
  PROVE  Frame(h) /\ Stands(h)' /\ Answered'
<1>1. draft' = draft /\ data' = data /\ state' = state
  BY DEF SaveExitPosition
<1>2. CASE Has(data, "exit") /\ IsComplete(data)
  <2>1. PICK d \in Draft : d = data /\ draft[d].is = "exit" /\ draft[d].dated /\ Priced(d)
    BY <1>2, HasDraft DEF Has, IsComplete, Priced
  <2>2. Waits(h, "exit", StateIdle, d, "none")
    BY <1>2, <2>1 DEF SaveExitPosition
  <2>3. hand'[h] = [at |-> "exit", asked |-> StateIdle, draft |-> d, reply |-> "none"]
    BY <2>2, HandOf DEF Waits
  <2>4. /\ hand'[h].at = "exit" /\ hand'[h].draft = d
        /\ \A g \in Handler \ {h} : hand'[g] = hand[g]
    BY <2>2, <2>3, HandOf DEF Waits
  <2>5. Frame(h)
    BY <1>1, <2>1, <2>4 DEF Frame
  <2>6. Stands(h)'
    BY <1>1, <2>1, <2>4 DEF Stands, KnowsKind, HandFilled, ExitReady, Priced
  <2>7. Answered'
    BY <1>1 DEF Answered, DialogueInv
  <2> QED BY <2>5, <2>6, <2>7
<1>3. CASE ~(Has(data, "exit") /\ IsComplete(data))
  <2>1. Waits(h, "reset", StateIdle, NoDraft, "none")
    BY <1>3 DEF SaveExitPosition
  <2> QED BY <1>1, <2>1, RestsQuiet DEF State
<1> QED BY <1>2, <1>3

LEMMA OtherStands ==
  ASSUME ChatInv, DialogueInv, NEW h \in Handler, crossed \subseteq crossed',
         \/ SetPosition(h) \/ Restarted(h) \/ Cancel(h) \/ Reset(h) \/ StartAnalyze(h)
         \/ AnalyzeSymbol(h) \/ AnalysisShown(h) \/ ExitStockPosition(h) \/ ExitShown(h)
         \/ DateAsked(h) \/ ExitHandedOver(h) \/ CallFails(h)
  PROVE  Frame(h) /\ Stands(h)' /\ Answered'
<1>1. CASE SetPosition(h)
  <2>1. CASE state = StateIdle
    BY <1>1, <2>1, BeginStands DEF SetPosition
  <2>2. CASE state # StateIdle
    BY <1>1, <2>2, RestsQuiet DEF SetPosition, State
  <2> QED BY <2>1, <2>2
<1>2. CASE Restarted(h)
  BY <1>2, BeginStands DEF Restarted
<1>3. CASE Cancel(h)
  <2>1. CASE state = StateIdle
    BY <1>3, <2>1, SameHand DEF Cancel, ResetUserState, Question, Asked
  <2>2. CASE state # StateIdle
    BY <1>3, <2>2, RestsQuiet DEF Cancel, State
  <2> QED BY <2>1, <2>2
<1>4. CASE Reset(h)
  BY <1>4, DoneQuiet DEF Reset, ResetUserState, Question, Asked
<1>5. CASE StartAnalyze(h)
  BY <1>5, SameHand DEF StartAnalyze, Question, Asked
<1>6. CASE AnalyzeSymbol(h)
  BY <1>6, RestsQuiet DEF AnalyzeSymbol, State
<1>7. CASE AnalysisShown(h)
  BY <1>7, DoneQuiet DEF AnalysisShown, ResetUserState, Question, Asked
<1>8. CASE ExitStockPosition(h)
  <2>1. CASE state = StateIdle
    BY <1>8, <2>1, RestsQuiet DEF ExitStockPosition, State
  <2>2. CASE state # StateIdle
    BY <1>8, <2>2, SameHand DEF ExitStockPosition, ResetUserState, Question, Asked
  <2> QED BY <2>1, <2>2
<1>9. CASE ExitShown(h)
  BY <1>9, BeginStands DEF ExitShown, Question, Asked
<1>10. CASE DateAsked(h)
  BY <1>10, DoneQuiet DEF DateAsked, Question, Asked
<1>11. CASE ExitHandedOver(h)
  BY <1>11, DoneQuiet DEF ExitHandedOver, ResetUserState, Question, Asked
<1>12. CASE CallFails(h)
  BY <1>12, DoneQuiet DEF CallFails
<1> QED BY <1>1, <1>2, <1>3, <1>4, <1>5, <1>6, <1>7, <1>8, <1>9, <1>10, <1>11, <1>12

LEMMA HandlerStands ==
  ASSUME ChatInv, DialogueInv, NEW h \in Handler, crossed \subseteq crossed',
         \/ Update(h) \/ Return(h) \/ CallFails(h) \/ AnalysisShown(h) \/ ExitHandedOver(h)
  PROVE  Frame(h) /\ Stands(h)' /\ Answered'
<1>1. CASE Update(h)
  BY <1>1, OtherStands, AnswerQuestionStands, PressAlertStands, AnswerExitStands, SaveExitStands
     DEF Update, Reply
<1>2. CASE Return(h)
  BY <1>2, OtherStands, ComplainedStands, AcknowledgedStands, PromptedStands, EditedStands,
     SaveDraftStands, ExitAnsweredStands DEF Return
<1> QED BY <1>1, <1>2, OtherStands

\* One handler's step leaves the others as they were: what they have in hand it has crossed.
LEMMA DialogueKept ==
  ASSUME ChatInv, DialogueInv, NEW h \in Handler, Frame(h), Stands(h)', Answered', Crossing(h)
  PROVE  DialogueInv'
<1>1. crossed \subseteq crossed'
  BY DEF Crossing
<1>2. \A g \in Handler \ {h} : hand'[g] = hand[g]
  BY DEF Frame
<1>3. \A g \in Handler \ {h} : hand[g].at # "off" =>
        {data, data', hand'[h].draft, hand[g].draft} \subseteq crossed' \cup {NoDraft}
  BY DEF Crossing, Busy
<1>4. \A g \in Handler : hand[g].at = "off" => hand[g].draft = NoDraft
  BY DEF DialogueInv, Stands, KnowsKind, NoHand
<1>5. ASSUME NEW g \in Handler \ {h} PROVE Stands(g)'
  <2>1. KnowsKind(g)'
    <3>1. hand[g] \in Hand /\ Knows(hand[g])
      BY DEF ChatInv, Hands
    <3>2. hand[g].at \in {"complain", "ack", "prompt", "edit", "save", "position", "askDate", "exit"}
            => hand[g].draft \in Draft
      BY <3>1 DEF Knows
    <3>3. KnowsKind(g) /\ hand'[g] = hand[g]
      BY <1>2, <1>5 DEF DialogueInv, Stands
    <3> QED BY <3>2, <3>3 DEF KnowsKind, Frame
  <2>2. CASE hand[g].at = "off"
    BY <1>2, <1>4, <1>5, <2>1, <2>2 DEF Stands, HandFilled, ExitReady, Draft
  <2>3. CASE hand[g].at # "off"
    <3>1. hand'[g] = hand[g] /\ hand[g].draft \in crossed' \cup {NoDraft}
      BY <1>2, <1>3, <1>5, <2>3
    <3>2. HandFilled(g)'
      BY <3>1 DEF HandFilled, Draft
    <3>3. ExitReady(g)'
      <4> SUFFICES ASSUME hand[g].at = "exit"
                   PROVE  draft'[hand[g].draft].dated /\ hand[g].draft \in crossed'
        BY <3>1 DEF ExitReady
      <4>1. hand[g].draft \in Draft
        BY DEF ChatInv, Hands, Knows
      <4>2. draft[hand[g].draft].dated /\ draft[hand[g].draft].is = "exit"
        BY DEF DialogueInv, Stands, ExitReady, KnowsKind
      <4> QED BY <3>1, <4>1, <4>2 DEF Frame, Draft
    <3> QED BY <2>1, <3>2, <3>3 DEF Stands
  <2> QED BY <2>2, <2>3
<1>6. Overlaps'
  <2> SUFFICES ASSUME NEW f \in Handler, NEW g \in Handler, f # g,
                      hand'[f].at # "off", hand'[g].at # "off"
               PROVE  {data', hand'[f].draft, hand'[g].draft} \subseteq crossed' \cup {NoDraft}
    BY DEF Overlaps, Busy
  <2> QED BY <1>2, <1>3
<1>7. Own'
  <2> SUFFICES ASSUME NEW g \in Handler, hand'[g].draft # NoDraft
               PROVE  data' \in {hand'[g].draft, NoDraft} \cup crossed'
    BY DEF Own
  <2>1. CASE g = h
    <3>1. hand[h].draft # NoDraft => data \in {hand[h].draft, NoDraft} \cup crossed
      BY DEF DialogueInv, Own
    <3>2. hand'[h] # NoHand
      BY <2>1 DEF NoHand
    <3> QED BY <1>1, <2>1, <3>1, <3>2 DEF Frame
  <2>2. CASE g # h
    BY <1>2, <1>3, <1>4, <2>2
  <2> QED BY <2>1, <2>2
<1>8. RefusalsTold'
  BY DEF RefusalsTold, DialogueInv, Frame
<1> QED BY <1>5, <1>6, <1>7, <1>8 DEF DialogueInv

\* Nor does it reach a draft that was handed over.
LEMMA HandedKept ==
  ASSUME ChatInv, NEW h \in Handler, Frame(h), crossed \subseteq crossed',
         NEW d \in Draft, Handed(d)
  PROVE  Handed(d)' /\ (d \notin crossed' => draft'[d].price = draft[d].price)
<1>1. draft[d].is = "exit" /\ draft'[d].is = "exit" /\ draft'[d].dated
  BY DEF Handed, Frame
<1>2. d \notin Unused
  BY <1>1 DEF Unused
<1>3. ASSUME d \notin crossed'
      PROVE  Priced(d)' /\ Closed(d)' /\ draft'[d].price = draft[d].price
  <2>1. Priced(d) /\ Closed(d)
    BY <1>3 DEF Handed
  <2>2. draft'[d] = draft[d]
    BY <1>2, <2>1 DEF Frame, Closed
  <2>3. data' # d
    BY <1>2, <2>1 DEF Frame, Closed, Draft
  <2>4. \A g \in Handler : hand'[g].draft # d
    BY <1>2, <2>1 DEF Frame, Closed, Draft
  <2> QED BY <2>1, <2>2, <2>3, <2>4 DEF Priced, Closed
<1> QED BY <1>1, <1>3 DEF Handed

LEMMA RecordsKept ==
  ASSUME ChatInv, ExitsRecorded, SavedIsComplete, NEW h \in Handler, Frame(h),
         crossed \subseteq crossed', UNCHANGED saved
  PROVE  ExitsRecorded' /\ SavedIsComplete'
<1>1. SavedIsComplete'
  BY DEF SavedIsComplete
<1>2. ASSUME NEW entry \in saved, entry[2].is = "exit"
      PROVE  /\ Handed(entry[1])'
             /\ entry[2].dated
             /\ entry[1] \notin crossed' =>
                  entry[2].price = "good" \/ draft'[entry[1]].price = "negative"
  <2>1. entry[1] \in Draft /\ Handed(entry[1])
    BY <1>2 DEF ChatInv, ExitsRecorded
  <2>2. PICK d \in Draft : d = entry[1]
    BY <2>1
  <2>3. Handed(d)' /\ (d \notin crossed' => draft'[d].price = draft[d].price)
    BY <2>1, <2>2, HandedKept
  <2> QED BY <1>2, <2>2, <2>3 DEF ExitsRecorded
<1>3. ExitsRecorded'
  BY <1>2 DEF ExitsRecorded
<1> QED BY <1>1, <1>3

LEMMA SaveRecords ==
  ASSUME ChatInv, DialogueInv, ExitsRecorded, SavedIsComplete, NEW h \in Handler, SaveDraft(h),
         Frame(h), crossed \subseteq crossed'
  PROVE  ExitsRecorded' /\ SavedIsComplete'
<1>1. CASE UNCHANGED saved
  BY <1>1, RecordsKept
<1>2. CASE saved' = saved \cup {<<hand[h].draft, draft[hand[h].draft]>>}
  <2>1. hand[h].at = "save" /\ hand[h].draft \in Draft
    BY DEF SaveDraft, ChatInv, Hands, Knows
  <2>2. PICK d \in Draft : d = hand[h].draft
    BY <2>1
  <2>3. draft[d].is = "set" /\ Told(draft[d]) /\ (d \notin crossed => Filled(draft[d], 9))
    BY <2>1, <2>2 DEF DialogueInv, Stands, KnowsKind, HandFilled, RefusalsTold
  <2>4. d \notin crossed' => \A q \in Question : draft[d].given[q] # "none"
    BY <2>3 DEF Filled, Question, Asked
  <2>5. SavedIsComplete'
    BY <1>2, <2>2, <2>3, <2>4 DEF SavedIsComplete, Told
  <2>6. ExitsRecorded'
    <3> SUFFICES ASSUME NEW entry \in saved, entry[2].is = "exit"
                 PROVE  /\ Handed(entry[1])'
                        /\ entry[2].dated
                        /\ entry[1] \notin crossed' =>
                             entry[2].price = "good" \/ draft'[entry[1]].price = "negative"
      BY <1>2, <2>2, <2>3 DEF ExitsRecorded
    <3>1. PICK e \in Draft : e = entry[1]
      BY DEF ChatInv
    <3>2. Handed(e)' /\ (e \notin crossed' => draft'[e].price = draft[e].price)
      BY <3>1, HandedKept DEF ExitsRecorded
    <3> QED BY <3>1, <3>2 DEF ExitsRecorded
  <2> QED BY <2>5, <2>6
<1> QED BY <1>1, <1>2 DEF SaveDraft

\* A step of the errands begins no exit and changes none that is not over.
ExitsOnly ==
  \A e \in Errand : At(e, "exit", "work")' => /\ At(e, "exit", "work")
                                             /\ errand'[e].draft = errand[e].draft

LEMMA Started ==
  ASSUME NEW e \in Errand, NEW kind, NEW d, NEW message, Start(e, kind, d, message),
         errand \in [Errand -> Errands]
  PROVE  /\ errand'[e].kind = kind /\ errand'[e].draft = d
         /\ \A f \in Errand \ {e} : errand'[f] = errand[f]
<1>1. PICK r : r = [NoErrand EXCEPT !.kind = kind, !.at = "work", !.draft = d, !.message = message]
  OBVIOUS
<1>2. r.kind = kind /\ r.draft = d
  BY <1>1 DEF NoErrand
<1>3. errand' = [errand EXCEPT ![e] = r]
  BY <1>1 DEF Start
<1> QED BY <1>2, <1>3

LEMMA NoExitBegun ==
  ASSUME ErrandInv, NEW e \in Errand,
         \/ Work(e) \/ WorkPanics(e) \/ Ended(e) \/ Panic(e, TRUE) \/ Replaced(e)
         \/ \E message \in BOOLEAN, kind \in {"analysis", "refresh", "position", "ai"} :
              Start(e, kind, NoDraft, message)
  PROVE  ExitsOnly
<1>1. errand \in [Errand -> Errands] /\ NoErrand.at = "off"
  BY DEF ErrandInv, ErrandsTypeOK, NoErrand
<1>2. Ended(e) \/ UNCHANGED errand => ExitsOnly
  BY <1>1 DEF Ended, ExitsOnly, At
<1>3. Panic(e, TRUE) \/ Panic(e, FALSE) \/ Replaced(e) => Ended(e) \/ UNCHANGED errand
  BY DEF Panic, Replaced
<1>4. ASSUME NEW at \in {"tokens", "ask", "tell"}, NEW r, r.at = at,
             errand' = [errand EXCEPT ![e] = r]
      PROVE  ExitsOnly
  BY <1>1, <1>4 DEF ExitsOnly, At
<1>5. ReadAnalyses(e) => ExitsOnly
  <2>1. ReadAnalyses(e) =>
          \/ errand' = [errand EXCEPT ![e] = [errand[e] EXCEPT !.at = "tokens", !.batch = batch']]
          \/ errand' = [errand EXCEPT ![e] = [errand[e] EXCEPT !.at = "tell", !.batch = batch',
                                                               !.answer = Stored(batch')]]
    BY <1>1 DEF ReadAnalyses
  <2>2. /\ [errand[e] EXCEPT !.at = "tokens", !.batch = batch'].at = "tokens"
        /\ [errand[e] EXCEPT !.at = "tell", !.batch = batch', !.answer = Stored(batch')].at = "tell"
    BY <1>1 DEF Errands
  <2> QED BY <1>4, <2>1, <2>2
<1>6. TakeTokens(e) => ExitsOnly
  <2>1. TakeTokens(e) => errand' = [errand EXCEPT ![e] = [errand[e] EXCEPT !.at = "ask"]]
    BY DEF TakeTokens
  <2>2. [errand[e] EXCEPT !.at = "ask"].at = "ask"
    BY <1>1 DEF Errands
  <2> QED BY <1>4, <2>1, <2>2
<1>7. StoreAnswer(e) => ExitsOnly
  <2>1. StoreAnswer(e) =>
          errand' = [errand EXCEPT ![e] = [errand[e] EXCEPT !.at = "tell", !.answer = answers']]
    BY <1>1 DEF StoreAnswer
  <2>2. [errand[e] EXCEPT !.at = "tell", !.answer = answers'].at = "tell"
    BY <1>1 DEF Errands
  <2> QED BY <1>4, <2>1, <2>2
<1>8. ASSUME NEW message \in BOOLEAN, NEW kind \in {"analysis", "refresh", "position", "ai"},
             Start(e, kind, NoDraft, message)
      PROVE  ExitsOnly
  <2>1. errand'[e].kind = kind /\ \A f \in Errand \ {e} : errand'[f] = errand[f]
    BY <1>1, <1>8, Started
  <2> QED BY <2>1 DEF ExitsOnly, At
<1>9. Work(e) \/ WorkPanics(e) => Ended(e) \/ UNCHANGED errand \/ ReadAnalyses(e)
                                    \/ TakeTokens(e) \/ StoreAnswer(e)
  BY <1>3 DEF Work, WorkPanics, ShowAnalysis, RefreshPosition, TellAnswer, AskFails
<1> QED BY <1>2, <1>3, <1>5, <1>6, <1>7, <1>8, <1>9

\* The dialogues stand still.
LEMMA StillRecords ==
  ASSUME BotInv, RecordInv, UNCHANGED chatVars, ExitsOnly
  PROVE  RecordInv'
<1>1. DialogueInv'
  BY DEF RecordInv, DialogueInv, Stands, KnowsKind, HandFilled, ExitReady, Priced, Answered,
         Overlaps, Busy, Own, RefusalsTold, chatVars
<1>2. \A d : Handed(d) => Handed(d)'
  BY DEF Handed, Priced, Closed, chatVars
<1>3. ExitsHanded'
  BY <1>2 DEF RecordInv, ExitsHanded, ExitsOnly
<1>4. ExitsRecorded' /\ SavedIsComplete'
  BY <1>2 DEF RecordInv, ExitsRecorded, SavedIsComplete, chatVars
<1> QED BY <1>1, <1>3, <1>4 DEF RecordInv

LEMMA HandleRecords ==
  ASSUME BotInv, RecordInv, NEW h \in Handler, Handle(h)
  PROVE  RecordInv'
<1>1. ChatInv /\ DialogueInv /\ crossed \subseteq crossed'
  BY DEF BotInv, RecordInv, Handle, Crossing
<1>2. Frame(h) /\ Stands(h)' /\ Answered'
  BY <1>1, HandlerStands DEF Handle
<1>3. DialogueInv'
  BY <1>1, <1>2, DialogueKept DEF Handle
<1>4. ExitsHanded'
  <2> SUFFICES ASSUME NEW e \in Errand, At(e, "exit", "work")
               PROVE  Handed(errand[e].draft)'
    BY DEF Handle, errandVars, ExitsHanded, At
  <2>1. errand[e].draft \in Draft
    BY DEF BotInv, AnswersInv, ErrandInv, WellBegun, At
  <2>2. PICK d \in Draft : d = errand[e].draft /\ Handed(d)
    BY <2>1 DEF RecordInv, ExitsHanded
  <2>3. Handed(d)'
    BY <1>1, <1>2, <2>2, HandedKept
  <2>4. errand' = errand
    BY DEF Handle, errandVars
  <2> QED BY <2>2, <2>3, <2>4
<1>5. ExitsRecorded' /\ SavedIsComplete'
  <2>1. UNCHANGED saved \/ SaveDraft(h)
    BY DEF Handle, Update, Return, SetPosition, Cancel, StartAnalyze, ExitStockPosition,
           AnswerQuestion, PressAlert, AnalyzeSymbol, AnswerExit, SaveExitPosition, Restarted,
           Reset, Complained, Acknowledged, Prompted, Edited, ExitShown, ExitAnswered, DateAsked,
           CallFails
  <2> QED BY <1>1, <1>2, <2>1, RecordsKept, SaveRecords DEF RecordInv
<1> QED BY <1>3, <1>4, <1>5 DEF RecordInv

LEMMA HandOverRecords ==
  ASSUME BotInv, RecordInv, NEW h \in Handler, HandOver(h)
  PROVE  RecordInv'
<1>1. PICK e \in Errand, message \in BOOLEAN :
        \/ AnalysisShown(h) /\ Start(e, "analysis", NoDraft, message)
        \/ ExitHandedOver(h) /\ Start(e, "exit", hand[h].draft, message)
  BY DEF HandOver
<1>2. ChatInv /\ DialogueInv /\ crossed \subseteq crossed' /\ Crossing(h)
  BY DEF BotInv, RecordInv, HandOver, Crossing
<1>3. Frame(h) /\ Stands(h)' /\ Answered'
  BY <1>1, <1>2, HandlerStands
<1>4. DialogueInv'
  BY <1>2, <1>3, DialogueKept
<1>5. UNCHANGED saved /\ data' = NoDraft /\ hand' = [hand EXCEPT ![h] = NoHand]
  BY <1>1 DEF AnalysisShown, ExitHandedOver, ResetUserState, Done
<1>6. ExitsRecorded' /\ SavedIsComplete'
  BY <1>2, <1>3, <1>5, RecordsKept DEF RecordInv
<1>7. ASSUME NEW f \in Errand, At(f, "exit", "work") PROVE Handed(errand[f].draft)'
  <2>1. errand[f].draft \in Draft
    BY <1>7 DEF BotInv, AnswersInv, ErrandInv, WellBegun, At
  <2>2. PICK d \in Draft : d = errand[f].draft /\ Handed(d)
    BY <1>7, <2>1 DEF RecordInv, ExitsHanded
  <2>3. Handed(d)'
    BY <1>2, <1>3, <2>2, HandedKept
  <2>4. f # e
    BY <1>1, <1>7 DEF Start, At, NoErrand
  <2>5. errand'[f] = errand[f]
    BY <1>1, <2>4 DEF Start, BotInv, AnswersInv, ErrandInv, ErrandsTypeOK
  <2> QED BY <2>2, <2>3, <2>5
<1>8. ASSUME ExitHandedOver(h), Start(e, "exit", hand[h].draft, message)
      PROVE  \A d \in Draft : d = hand[h].draft => Handed(d)'
  <2>1. hand[h].at = "exit" /\ hand[h].draft \in Draft
    BY <1>8 DEF ExitHandedOver, BotInv, ChatInv, Hands, Knows
  <2>2. PICK d \in Draft : d = hand[h].draft
    BY <2>1
  <2>3. /\ draft[d].is = "exit" /\ draft[d].dated /\ draft' = draft
        /\ d \notin crossed => Priced(d)
    BY <1>2, <1>8, <2>1, <2>2 DEF DialogueInv, Stands, KnowsKind, ExitReady, ExitHandedOver
  <2>4. ASSUME d \notin crossed', NEW g \in Handler PROVE hand'[g].draft # d
    <3>1. hand'[h].draft = NoDraft /\ \A i \in Handler \ {h} : hand'[i] = hand[i]
      <4>1. hand'[h] = NoHand /\ \A i \in Handler \ {h} : hand'[i] = hand[i]
        BY <1>2, <1>5, HandOf
      <4> QED BY <4>1 DEF NoHand
    <3>2. g # h /\ hand[g].at # "off" => hand[g].draft \in crossed' \cup {NoDraft}
      BY <1>2 DEF Crossing, Busy
    <3>3. hand[g].at = "off" => hand[g].draft = NoDraft
      BY <1>2 DEF DialogueInv, Stands, KnowsKind, NoHand
    <3> QED BY <2>4, <3>1, <3>2, <3>3 DEF Draft
  <2>5. d \notin crossed' => Priced(d)' /\ Closed(d)'
    BY <1>2, <1>5, <2>3, <2>4 DEF Priced, Closed, Draft
  <2>6. Handed(d)'
    BY <2>3, <2>5 DEF Handed
  <2> QED BY <2>2, <2>6
<1>9. ExitsHanded'
  <2> SUFFICES ASSUME NEW f \in Errand, At(f, "exit", "work")'
               PROVE  Handed(errand[f].draft)'
    BY DEF ExitsHanded
  <2>1. errand \in [Errand -> Errands]
    BY DEF BotInv, AnswersInv, ErrandInv, ErrandsTypeOK
  <2>2. CASE f # e
    <3>1. errand'[f] = errand[f]
      BY <1>1, <2>1, <2>2, Started
    <3> QED BY <1>7, <3>1 DEF At
  <2>3. CASE f = e
    <3>1. ExitHandedOver(h) /\ Start(e, "exit", hand[h].draft, message)
      <4>1. ~Start(e, "analysis", NoDraft, message)
        BY <2>1, <2>3, Started DEF At
      <4> QED BY <1>1, <4>1
    <3>2. hand[h].draft \in Draft
      BY <3>1 DEF ExitHandedOver, BotInv, ChatInv, Hands, Knows
    <3>3. PICK d \in Draft : d = hand[h].draft
      BY <3>2
    <3>4. Handed(d)' /\ errand'[f].draft = d
      BY <1>8, <2>1, <2>3, <3>1, <3>3, Started
    <3> QED BY <3>4
  <2> QED BY <2>2, <2>3
<1> QED BY <1>4, <1>6, <1>9 DEF RecordInv

LEMMA RecordExitRecords ==
  ASSUME BotInv, RecordInv, NEW e \in Errand, RecordExitOf(e)
  PROVE  RecordInv'
<1>1. ErrandInv /\ errand[e].draft \in Draft /\ Handed(errand[e].draft)
  BY DEF BotInv, AnswersInv, ErrandInv, WellBegun, RecordExitOf, At, RecordInv, ExitsHanded
<1>2. ExitsOnly /\ UNCHANGED <<state, data, draft, hand, crossed>>
  BY <1>1, NoExitBegun DEF RecordExitOf
<1>3. DialogueInv'
  BY <1>2 DEF RecordInv, DialogueInv, Stands, KnowsKind, HandFilled, ExitReady, Priced, Answered,
              Overlaps, Busy, Own, RefusalsTold
<1>4. \A d : Handed(d) => Handed(d)'
  BY <1>2 DEF Handed, Priced, Closed
<1>5. ExitsHanded'
  BY <1>2, <1>4 DEF RecordInv, ExitsHanded, ExitsOnly
<1>6. CASE UNCHANGED saved
  BY <1>2, <1>3, <1>4, <1>5, <1>6 DEF RecordInv, ExitsRecorded, SavedIsComplete
<1>7. CASE RecordExit(errand[e].draft)
  <2>1. PICK d \in Draft : d = errand[e].draft
    BY <1>1
  <2>2. PICK r : r = [draft[d] EXCEPT !.price = IF @ = "good" THEN @ ELSE "none"]
    OBVIOUS
  <2>3. draft[d] \in Collected
    BY DEF BotInv, ChatInv
  <2>4. /\ r.is = "exit" /\ r.dated
        /\ d \notin crossed => r.price = "good" \/ draft[d].price = "negative"
    <3>1. /\ draft[d].is = "exit" /\ draft[d].dated
          /\ d \notin crossed => draft[d].price \in {"good", "negative"}
      BY <1>1, <2>1 DEF Handed, Priced
    <3>2. r.is = draft[d].is /\ r.dated = draft[d].dated
      BY <2>2, <2>3 DEF Collected
    <3>3. draft[d].price = "good" => r.price = "good"
      BY <2>2, <2>3 DEF Collected
    <3> QED BY <3>1, <3>2, <3>3
  <2>5. saved' = saved \cup {<<d, r>>}
    BY <1>7, <2>1, <2>2 DEF RecordExit
  <2>6. SavedIsComplete'
    BY <1>2, <2>4, <2>5 DEF RecordInv, SavedIsComplete
  <2>7. ExitsRecorded'
    <3>1. ASSUME NEW entry \in saved, entry[2].is = "exit"
          PROVE  /\ Handed(entry[1])' /\ entry[2].dated
                 /\ entry[1] \notin crossed' =>
                      entry[2].price = "good" \/ draft'[entry[1]].price = "negative"
      BY <1>2, <1>4, <3>1 DEF RecordInv, ExitsRecorded
    <3>2. Handed(d)'
      BY <1>1, <1>4, <2>1
    <3> QED BY <1>2, <2>4, <2>5, <3>1, <3>2 DEF ExitsRecorded
  <2> QED BY <1>3, <1>5, <2>6, <2>7 DEF RecordInv
<1> QED BY <1>6, <1>7 DEF RecordExitOf

LEMMA WorldRecords ==
  ASSUME BotInv, RecordInv, World
  PROVE  RecordInv'
<1>1. CASE Expire /\ UNCHANGED errandVars
  <2>1. /\ UNCHANGED <<draft, hand, saved, crossed, errand>>
        /\ state' \in {StateIdle, state} /\ data' \in {NoDraft, data}
    BY <1>1 DEF Expire, errandVars
  <2>2. \A h \in Handler : Stands(h)'
    BY <2>1 DEF RecordInv, DialogueInv, Stands, KnowsKind, HandFilled, ExitReady, Priced
  <2>3. Answered' /\ RefusalsTold'
    BY <2>1 DEF RecordInv, DialogueInv, Answered, RefusalsTold, Draft, Question, Asked
  <2>4. Overlaps' /\ Own'
    BY <2>1 DEF RecordInv, DialogueInv, Overlaps, Own, Busy
  <2>5. \A d \in Draft : Handed(d) => Handed(d)'
    BY <2>1 DEF Handed, Priced, Closed, Draft
  <2>6. ExitsHanded'
    <3>1. \A e \in Errand : At(e, "exit", "work") => errand[e].draft \in Draft
      BY DEF BotInv, AnswersInv, ErrandInv, WellBegun, At
    <3> QED BY <2>1, <2>5, <3>1 DEF RecordInv, ExitsHanded, At
  <2>7. ExitsRecorded' /\ SavedIsComplete'
    <3>1. \A entry \in saved : entry[1] \in Draft
      BY DEF BotInv, ChatInv
    <3> QED BY <2>1, <2>5, <3>1 DEF RecordInv, ExitsRecorded, SavedIsComplete
  <2> QED BY <2>2, <2>3, <2>4, <2>6, <2>7 DEF RecordInv, DialogueInv
<1>2. CASE UNCHANGED chatVars /\ \E e \in Errand : WorkPanics(e)
  BY <1>2, StillRecords, NoExitBegun DEF BotInv, AnswersInv
<1>3. CASE UNCHANGED chatVars /\ UNCHANGED errand
  BY <1>3, StillRecords DEF ExitsOnly, At
<1> QED BY <1>1, <1>2, <1>3 DEF World, Refill, Age

LEMMA RestartRecords ==
  ASSUME BotInv, RecordInv, Restart
  PROVE  RecordInv'
<1>1. /\ UNCHANGED <<draft, saved, crossed>> /\ state' = StateIdle /\ data' = NoDraft
      /\ \A h \in Handler : hand'[h] = NoHand
      /\ \A e \in Errand : errand'[e] = NoErrand
  BY DEF Restart
<1>2. NoHand.at = "off" /\ NoHand.draft = NoDraft /\ NoErrand.at = "off"
  BY DEF NoHand, NoErrand
<1>3. \A h \in Handler : Stands(h)'
  BY <1>1, <1>2 DEF Stands, KnowsKind, HandFilled, ExitReady
<1>4. Answered' /\ RefusalsTold' /\ Overlaps' /\ Own'
  BY <1>1, <1>2 DEF RecordInv, DialogueInv, Answered, RefusalsTold, Overlaps, Own, Busy, Draft
<1>5. \A d \in Draft : Handed(d) => Handed(d)'
  BY <1>1, <1>2 DEF Handed, Priced, Closed, Draft
<1>6. ExitsHanded'
  BY <1>1, <1>2 DEF ExitsHanded, At
<1>7. ExitsRecorded' /\ SavedIsComplete'
  <2>1. \A entry \in saved : entry[1] \in Draft
    BY DEF BotInv, ChatInv
  <2> QED BY <1>1, <1>5, <2>1 DEF RecordInv, ExitsRecorded, SavedIsComplete
<1> QED BY <1>3, <1>4, <1>6, <1>7 DEF RecordInv, DialogueInv

LEMMA RecordsBegin ==
  Init => RecordInv
<1> SUFFICES ASSUME Init PROVE RecordInv
  OBVIOUS
<1>1. /\ state = StateIdle /\ data = NoDraft /\ saved = {} /\ crossed = {}
      /\ \A d \in Draft : draft[d] = Blank("none")
      /\ \A h \in Handler : hand[h] = NoHand
      /\ \A e \in Errand : errand[e] = NoErrand
  BY DEF Init, InitChat, InitErrands
<1>2. /\ NoHand.at = "off" /\ NoHand.draft = NoDraft /\ NoErrand.at = "off"
      /\ Told(Blank("none"))
  BY DEF NoHand, NoErrand, Told, Blank
<1>3. \A h \in Handler : Stands(h)
  BY <1>1, <1>2 DEF Stands, KnowsKind, HandFilled, ExitReady
<1>4. Answered /\ RefusalsTold /\ Overlaps /\ Own
  BY <1>1, <1>2 DEF Answered, RefusalsTold, Overlaps, Own, Busy, Draft
<1> QED BY <1>1, <1>2, <1>3, <1>4
        DEF RecordInv, DialogueInv, ExitsHanded, ExitsRecorded, SavedIsComplete, At

LEMMA RecordsStep ==
  BotInv /\ RecordInv /\ [Next]_vars => RecordInv'
<1> SUFFICES ASSUME BotInv, RecordInv, [Next]_vars PROVE RecordInv'
  OBVIOUS
<1>1. ASSUME NEW e \in Errand, Work(e), UNCHANGED chatVars PROVE RecordInv'
  BY <1>1, StillRecords, NoExitBegun DEF BotInv, AnswersInv
<1>2. CASE PressErrand
  BY <1>2, StillRecords, NoExitBegun DEF PressErrand, BotInv, AnswersInv
<1>3. CASE UNCHANGED vars
  BY <1>3, StillRecords DEF vars, errandVars, ExitsOnly, At
<1> QED BY <1>1, <1>2, <1>3, HandleRecords, HandOverRecords, RecordExitRecords, WorldRecords,
           RestartRecords DEF Next

\* What the dialogues write is whole, over any number of handlers and dialogues: a
\* position set has all its answers, and the user knows of those refused; an exit
\* has its date and its price, but for a price below zero and for dialogues that
\* two handlers worked on (setposition.go:179, myposition_exit.go:187).
THEOREM RecordsComplete == Spec => []RecordsAreComplete
<1>1. ExitsRecorded => ExitIsComplete
  BY DEF ExitsRecorded, ExitIsComplete
<1>2. RecordInv => RecordsAreComplete
  BY <1>1 DEF RecordInv, RecordsAreComplete
<1> QED BY BotSound, RecordsBegin, RecordsStep, <1>2, PTL DEF Spec
==============================================================================
