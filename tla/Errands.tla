------------------------------- MODULE Errands -------------------------------
(***************************************************************************)
(* What the bot's handlers leave to goroutines behind a loading message:   *)
(* the analyses of a stock, the opinion of the language model on them, the *)
(* refresh of a position and the exit of one.                              *)
(*                                                                         *)
(* Each closes a stop channel to end its animation and then replaces the   *)
(* loading message, if that was sent at all: the handlers start the errand *)
(* whether or not it was, and Telegram calls on a message that is not      *)
(* there panic.  GoSafe recovers a panic, unless the errand brings an      *)
(* OnPanic of its own and that panics in turn.                             *)
(***************************************************************************)
EXTENDS Naturals, FiniteSets

CONSTANTS
  Errand,          \* goroutines at work at the same time
  Capacity,        \* tokens the language model may be sent a minute
  Prompts,         \* tokens of the prompts
  MaxBatches,      \* bound: batches of analyses of the stock asked about
  MaxAnswers       \* bound: rows of stock_analysis_ai

ASSUME ErrandsAssumption ==
  /\ Capacity \in Nat /\ Prompts \subseteq Nat
  /\ MaxBatches \in Nat /\ MaxAnswers \in Nat

VARIABLES
  errand,     \* what each goroutine is at
  batch,      \* the latest batch of analyses, 0 for none
  recent,     \* it is young enough to be shown again
  link,       \* the answer each batch points to, 0 for none
  answers,    \* rows of stock_analysis_ai
  remaining,  \* tokens left this minute
  dead,       \* a panic has taken the process down
  shown,      \* auxiliary: batches and the answers users were shown for them
  raced       \* auxiliary: batches two errands found without an answer

errandVars == <<errand, batch, recent, link, answers, remaining, dead, shown, raced>>
------------------------------------------------------------------------------
Batch == 1 .. MaxBatches
Answer == 1 .. MaxAnswers
None == 0

Kind == {"exit", "analysis", "refresh", "ai", "position"}
\* message: the loading message was sent.  draft: the dialogue whose exit to record.
Errands == [kind : {"none"} \cup Kind, at : {"off", "work", "tokens", "ask", "tell"},
            message : BOOLEAN, draft : Nat, batch : {None} \cup Batch,
            answer : {None} \cup Answer]
NoErrand == [kind |-> "none", at |-> "off", message |-> FALSE, draft |-> None,
             batch |-> None, answer |-> None]

Working == {e \in Errand : errand[e].at # "off"}
\* Errands that found this batch without an answer and have not stored one yet.
Asking(b) == {e \in Errand : errand[e].at \in {"tokens", "ask"} /\ errand[e].batch = b}

InitErrands ==
  /\ errand = [e \in Errand |-> NoErrand]
  /\ batch = None
  /\ recent = FALSE
  /\ link = [b \in Batch |-> None]
  /\ answers = 0
  /\ remaining = Capacity
  /\ dead = FALSE
  /\ shown = {}
  /\ raced = {}
------------------------------------------------------------------------------
OnlyErrand == UNCHANGED <<batch, recent, link, answers, remaining, dead, shown, raced>>
At(e, kind, at) == errand[e].kind = kind /\ errand[e].at = at
Ended(e) == errand' = [errand EXCEPT ![e] = NoErrand]

\* The handler's part: the loading message was sent or not, and off it goes.
Start(e, kind, draft, message) ==
  /\ errand[e] = NoErrand
  /\ errand' = [errand EXCEPT ![e] = [NoErrand EXCEPT !.kind = kind, !.at = "work",
                                        !.draft = draft, !.message = message]]
  /\ OnlyErrand

\* Mutant: GoSafe recovers nothing.
Unrecovered(e, stopped) == dead' = TRUE /\ UNCHANGED errand

\* A panic, after the errand has closed its stop channel or before: recovered,
\* but for the OnPanic of the AI errand, which closes the channel once more.
Panic(e, stopped) ==
  IF errand[e].kind = "ai" /\ stopped
  THEN dead' = TRUE /\ UNCHANGED errand
  ELSE Ended(e) /\ UNCHANGED dead

\* The stop channel is closed and the loading message replaced.
Replaced(e) ==
  IF errand[e].message THEN Ended(e) /\ UNCHANGED dead ELSE Panic(e, TRUE)

\* Rows that are young enough are taken, else the analyzer writes new ones.
FindAnalyses(anew) ==
  IF recent /\ ~anew
  THEN UNCHANGED <<batch, recent>>
  ELSE batch < MaxBatches /\ batch' = batch + 1 /\ recent' = TRUE

\* /analyze, the general analysis, and the refresh, which always analyses.
ShowAnalysis(e) ==
  /\ errand[e].kind \in {"analysis", "refresh"} /\ errand[e].at = "work"
  /\ \/ FindAnalyses(errand[e].kind = "refresh") /\ Replaced(e)
     \/ Ended(e) /\ UNCHANGED <<batch, recent, dead>>
  /\ UNCHANGED <<link, answers, remaining, shown, raced>>

\* The refresh of a position closes the channel in each branch that fails, and
\* again when it goes on after the first two.
RefreshPosition(e) ==
  /\ At(e, "position", "work")
  /\ \E read, analysed \in BOOLEAN :
       IF read /\ analysed THEN Ended(e) /\ UNCHANGED dead ELSE Panic(e, TRUE)
  /\ UNCHANGED <<batch, recent, link, answers, remaining, shown, raced>>
------------------------------------------------------------------------------
\* Mutant: the model is asked whether or not there is an answer.
AskAgain(b) == None

Stored(b) == link[b]

\* AnalyzeStockAI: the latest analyses, and the answer they point to if any.
ReadAnalyses(e) ==
  /\ At(e, "ai", "work")
  /\ FindAnalyses(FALSE)
  /\ IF Stored(batch') = None
     THEN /\ errand' = [errand EXCEPT ![e].at = "tokens", ![e].batch = batch']
          /\ raced' = raced \cup (IF Asking(batch') # {} THEN {batch'} ELSE {})
     ELSE /\ errand' = [errand EXCEPT ![e].at = "tell", ![e].batch = batch',
                                      ![e].answer = Stored(batch')]
          /\ UNCHANGED raced
  /\ UNCHANGED <<link, answers, remaining, dead, shown>>

\* TokenLimiter.Wait.  A prompt of more than Capacity tokens polls in vain.
TakeTokens(e) ==
  /\ At(e, "ai", "tokens")
  /\ \E n \in Prompts : n <= remaining /\ remaining' = remaining - n
  /\ errand' = [errand EXCEPT ![e].at = "ask"]
  /\ UNCHANGED <<batch, recent, link, answers, dead, shown, raced>>

\* The model answers; the row and what points to it are one transaction.
StoreAnswer(e) ==
  /\ At(e, "ai", "ask") /\ answers < MaxAnswers
  /\ answers' = answers + 1
  /\ link' = [link EXCEPT ![errand[e].batch] = answers']
  /\ errand' = [errand EXCEPT ![e].at = "tell", ![e].answer = answers']
  /\ UNCHANGED <<batch, recent, remaining, dead, shown, raced>>

\* The loading message is deleted and the answer sent; either call may fail.
TellAnswer(e) ==
  /\ At(e, "ai", "tell")
  /\ Replaced(e)
  /\ \/ ~errand[e].message /\ UNCHANGED shown
     \/ errand[e].message /\ shown' = shown \cup {<<errand[e].batch, errand[e].answer>>}
  /\ UNCHANGED <<batch, recent, link, answers, remaining, raced>>

\* A query, a call of the model or the transaction fails, or the context of the
\* errand ends: tokens taken stay taken, and the error replaces the message.
AskFails(e) ==
  /\ errand[e].kind = "ai" /\ errand[e].at # "off"
  /\ IF errand[e].at = "tell" THEN errand[e].message /\ Ended(e) /\ UNCHANGED dead
                              ELSE Replaced(e)
  /\ UNCHANGED <<batch, recent, link, answers, remaining, shown, raced>>

\* Something the errand calls panics, its channel still open.
WorkPanics(e) ==
  /\ errand[e].at \in {"work", "tokens", "ask"}
  /\ Panic(e, FALSE)
  /\ UNCHANGED <<batch, recent, link, answers, remaining, shown, raced>>

Refill ==
  /\ remaining < Capacity
  /\ remaining' = Capacity
  /\ UNCHANGED <<errand, batch, recent, link, answers, dead, shown, raced>>

\* The latest analyses become too old to be shown.
Age ==
  /\ recent
  /\ recent' = FALSE
  /\ UNCHANGED <<errand, batch, link, answers, remaining, dead, shown, raced>>
------------------------------------------------------------------------------
ErrandsTypeOK ==
  /\ errand \in [Errand -> Errands]
  /\ batch \in {None} \cup Batch
  /\ recent \in BOOLEAN
  /\ link \in [Batch -> {None} \cup Answer]
  /\ answers \in {None} \cup Answer
  /\ remaining \in 0 .. Capacity
  /\ dead \in BOOLEAN
  /\ shown \subseteq Batch \X Answer
  /\ raced \subseteq Batch
==============================================================================
