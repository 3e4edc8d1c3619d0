---------------------------------- MODULE Bot ----------------------------------
(***************************************************************************)
(* The telegram bot towards one user: the dialogues of Conversation and    *)
(* the Errands their handlers start, over calls that fail, cache entries   *)
(* that expire, updates that overtake each other and a process that is     *)
(* restarted.  Users share nothing but the analyses, so the errands of     *)
(* this user may as well be another's.                                     *)
(*                                                                         *)
(* The user is free to do what the bot asks of him while it is idle.       *)
(* Everything else is a surprise, of which there are a few in a behaviour: *)
(* another answer than a good one, any button, command or text out of      *)
(* turn, a failing call, an expiry, a restart.                             *)
(***************************************************************************)
EXTENDS Conversation, Errands

CONSTANT Menus         \* bound: what the user may do, and the surprises there are

VARIABLES menu, surprises

botVars == <<menu, surprises>>
vars == <<chatVars, errandVars, botVars>>

Command == {"set", "exit", "analyze", "cancel", "refresh", "position", "ai"}

ASSUME BotAssumption ==
  Menus \subseteq [does : SUBSET Command, surprises : Nat]

Init ==
  /\ InitChat
  /\ InitErrands
  /\ menu \in Menus
  /\ surprises = menu.surprises
------------------------------------------------------------------------------
Surprise == surprises > 0 /\ surprises' = surprises - 1 /\ UNCHANGED menu
Expected == UNCHANGED botVars

\* expected: the bot waits for just this.
AsExpected(expected) == IF expected /\ Busy = {} THEN Expected ELSE Surprise

\* What the user sends.
Update(h) ==
  \/ "set" \in menu.does /\ SetPosition(h) /\ AsExpected(state = StateIdle)
  \/ "cancel" \in menu.does /\ Cancel(h) /\ Surprise
  \/ "analyze" \in menu.does /\ StartAnalyze(h) /\ AsExpected(state = StateIdle)
  \/ "exit" \in menu.does /\ ExitStockPosition(h) /\ AsExpected(state = StateIdle)
  \/ \E reply \in {"good", "bad"} :
       AnswerQuestion(h, reply) /\ AsExpected(reply = "good")
  \/ \E q \in {7, 8} : "set" \in menu.does /\ PressAlert(h, q) /\ AsExpected(state = q)
  \/ AnalyzeSymbol(h) /\ AsExpected(TRUE)
  \/ \E reply \in Reply :
       AnswerExit(h, reply) /\ AsExpected(reply = "good" /\ state # 32)
  \/ "exit" \in menu.does /\ SaveExitPosition(h) /\ AsExpected(state = 32)

\* The handler goes on after a call that succeeded, or that it does not care about.
Return(h) ==
  \/ Restarted(h) \/ Reset(h) \/ Complained(h) \/ Acknowledged(h) \/ Prompted(h)
  \/ Edited(h) \/ SaveDraft(h) \/ ExitShown(h) \/ ExitAnswered(h) \/ DateAsked(h)

Handle(h) ==
  /\ \/ Update(h)
     \/ Return(h) /\ Expected
     \/ CallFails(h) /\ Surprise
  /\ Crossing(h)
  /\ UNCHANGED errandVars

\* The loading message cost a surprise when it was not sent.
Loaded(message) == IF message THEN Expected ELSE Surprise

HandOver(h) ==
  /\ \E e \in Errand, message \in BOOLEAN :
       /\ Loaded(message)
       /\ \/ AnalysisShown(h) /\ Start(e, "analysis", NoDraft, message)
          \/ ExitHandedOver(h) /\ Start(e, "exit", hand[h].draft, message)
  /\ Crossing(h)

\* Buttons under an analysis or a position, which no dialogue knows of.
PressErrand ==
  /\ \E e \in Errand, message \in BOOLEAN, kind \in {"refresh", "position", "ai"} :
       /\ kind \in menu.does
       /\ Start(e, kind, NoDraft, message)
  /\ Surprise
  /\ UNCHANGED chatVars

\* ExitStockPosition reads the row, fills in the draft as it is by now and updates it.
RecordExitOf(e) ==
  /\ At(e, "exit", "work")
  /\ \/ RecordExit(errand[e].draft) /\ Replaced(e)
     \/ Ended(e) /\ UNCHANGED <<saved, dead>>
  /\ UNCHANGED <<state, data, draft, hand, crossed>>
  /\ UNCHANGED <<batch, recent, link, answers, remaining, shown, raced>>

Work(e) ==
  \/ ShowAnalysis(e) \/ RefreshPosition(e) \/ ReadAnalyses(e) \/ TakeTokens(e)
  \/ StoreAnswer(e) \/ TellAnswer(e) \/ AskFails(e)

World ==
  \/ Expire /\ UNCHANGED errandVars /\ Surprise
  \/ \E e \in Errand : WorkPanics(e) /\ UNCHANGED chatVars /\ Surprise
  \/ Refill /\ UNCHANGED chatVars /\ Expected
  \/ Age /\ UNCHANGED chatVars /\ Surprise

\* A restart leaves the rows and loses the cache, the handlers and the errands.
Restart ==
  /\ state' = StateIdle /\ data' = NoDraft
  /\ hand' = [h \in Handler |-> NoHand]
  /\ errand' = [e \in Errand |-> NoErrand]
  /\ remaining' = Capacity
  /\ dead' = FALSE
  /\ Surprise
  /\ UNCHANGED <<draft, saved, crossed, batch, recent, link, answers, shown, raced>>

Next ==
  \/ /\ ~dead
     /\ \/ \E h \in Handler : Handle(h) \/ HandOver(h)
        \/ PressErrand
        \/ \E e \in Errand : RecordExitOf(e) /\ Expected
        \/ \E e \in Errand : Work(e) /\ UNCHANGED chatVars /\ Expected
        \/ World
  \/ Restart

Spec == Init /\ [][Next]_vars
------------------------------------------------------------------------------
TypeOK ==
  /\ ConversationTypeOK
  /\ ErrandsTypeOK
  /\ menu \in Menus
  /\ surprises \in 0 .. menu.surprises

\* A position set by a dialogue nobody else worked on has an answer to each of
\* the eight questions, and the user was told of every answer that was refused.
SavedIsComplete ==
  \A entry \in saved : entry[2].is = "set" /\ entry[1] \notin crossed =>
    \A q \in Question : /\ entry[2].given[q] # "none"
                        /\ entry[2].given[q] = "bad" => q \in entry[2].told

\* An exit recorded has its date, and its price unless the user gave one below
\* zero or two handlers worked on the dialogue.
ExitIsComplete ==
  \A entry \in saved : entry[2].is = "exit" =>
    /\ entry[2].dated
    /\ \/ entry[2].price = "good"
       \/ draft[entry[1]].price = "negative"
       \/ entry[1] \in crossed

\* What dialogues write is whole, whichever buttons of earlier messages are
\* pressed, calls fail and cache entries expire: nothing but the state guards the
\* buttons of /setposition, and nothing but the draft the one that records an exit
\* (setposition.go:179, myposition_exit.go:187).
RecordsAreComplete == SavedIsComplete /\ ExitIsComplete

\* The process dies of nothing but an AI errand whose loading message was not
\* sent: it panics on that message with the stop channel closed, and OnPanic
\* closes it again, where nothing recovers (analyze_ai.go:69).
ProcessLives ==
  dead => \E e \in Errand : errand[e].kind = "ai" /\ ~errand[e].message

\* The answer a user was shown for a batch of analyses is the one that batch
\* points to for good, unless two asked before either had its answer: then the
\* later one replaces it (telegram_bot.go:171, gemini_ai_repo.go:130).
AnswersAreKept ==
  \A seen \in shown : link[seen[1]] = seen[2] \/ seen[1] \in raced
==============================================================================
