------------------------------ MODULE Dialogue ------------------------------
(***************************************************************************)
(* A question of Claude on its way to the requester and back: the worker   *)
(* reads it from Claude's output, the orchestrator stores it and has the   *)
(* messenger send its card, the websocket client brings the clicks, and    *)
(* the answer starts Claude again, which may ask again.  Next to it other  *)
(* handlers use the same messenger.  What Gateway tells of locks, contexts *)
(* and crashes is left out here; what it leaves out, which question a      *)
(* click answers and whether a card can be sent, is told here.             *)
(***************************************************************************)
EXTENDS Confirmation, Messenger, LarkConn

CONSTANTS Questions,   \* what Claude may ask
          Asker,       \* the sender that is the job's run
          MaxRounds    \* bound on the questions of the job

ASSUME DialogueAssumption ==
  /\ Asker \in Senders
  /\ Questions \subseteq [title: Nat, body: Nat, choices: Seq(Choices)]
  /\ MaxRounds \in Nat

VARIABLES pc,         \* the job's run
          question,   \* RequesterConfirmation of the run
          request,    \* row of table approvals: payload and status
          due,        \* a run of the job is enqueued
          cards,      \* cards the chat has, by the round they were asked in
          answer      \* the last click that was taken (history)

jobVars == <<pc, question, request, due, cards, answer>>
vars == <<messengerVars, larkConnVars, jobVars>>

NoQuestion == [title |-> 0, body |-> 0, choices |-> <<>>]
NoRequest == [round |-> 0, open |-> FALSE, choices |-> <<>>]
NoAnswer == [clicked |-> 0, asked |-> 0, button |-> 0, chosen |-> 0]

TypeOK ==
  /\ MessengerTypeOK /\ LarkConnTypeOK
  /\ pc \in {"none", "claude", "save", "send", "sending", "ended"}
  /\ question \in Questions \cup {NoQuestion}
  /\ request \in [round: 0..MaxRounds, open: BOOLEAN, choices: Seq(Choices)]
  /\ due \in BOOLEAN
  /\ \A card \in cards : card.round \in 1..request.round
  /\ answer \in [clicked: Nat, asked: Nat, button: Nat, chosen: Nat]

Init ==
  /\ MessengerInit /\ LarkConnInit
  /\ pc = "none" /\ question = NoQuestion /\ request = NoRequest
  /\ due = FALSE /\ cards = {} /\ answer = NoAnswer

-----------------------------------------------------------------------------
(* serve: ValidateCredentials, then the websocket.  The senders other than *)
(* the asker stand for serve first, for other handlers and runs after it.  *)

Others == Senders \ {Asker}

Validate(s) ==
  /\ serve = "validate"
  /\ Call(s)
  /\ UNCHANGED <<larkConnVars, jobVars>>

Validated(s) ==
  /\ serve = "validate"
  /\ KeepToken(s, "idle")
  /\ serve' = "wait"
  /\ UNCHANGED <<link, lost, ready, closed, logger, jobVars>>

NotValidated(s) ==
  /\ serve = "validate"
  /\ SendFails(s)
  /\ serve' = "failed"
  /\ UNCHANGED <<link, lost, ready, closed, logger, jobVars>>

Connection ==
  /\ \/ \E g \in Loggers : Connect(g) \/ MarkReady(g) \/ CloseReady(g)
     \/ Disconnect \/ WaitUntilReady \/ Woken \/ NotReady
  /\ UNCHANGED <<messengerVars, jobVars>>

\* An event reaches the orchestrator.
Delivers == Started /\ link = "up"

-----------------------------------------------------------------------------
(* The job.                                                                *)

Receive ==
  /\ Delivers /\ pc = "none"
  /\ pc' = "claude"
  /\ UNCHANGED <<messengerVars, larkConnVars, question, request, due, cards, answer>>

\* Mutant: the card goes out before the question is stored.
SendsUnsaved(q) ==
  /\ pc = "claude" /\ request.round < MaxRounds
  /\ IF Accepts(q) THEN pc' = "send" /\ question' = q
                   ELSE pc' = "ended" /\ question' = NoQuestion
  /\ UNCHANGED <<messengerVars, larkConnVars, request, due, cards, answer>>

\* parseJSONResult: a question that is not accepted fails the run.
ClaudeAsks(q) ==
  /\ pc = "claude" /\ request.round < MaxRounds
  /\ IF Accepts(q) THEN pc' = "save" /\ question' = q
                   ELSE pc' = "ended" /\ question' = NoQuestion
  /\ UNCHANGED <<messengerVars, larkConnVars, request, due, cards, answer>>

ClaudeAnswers ==
  /\ pc = "claude"
  /\ pc' = "ended"
  /\ UNCHANGED <<messengerVars, larkConnVars, question, request, due, cards, answer>>

\* onConfirmationRequest: the choices are stored as they are (toApprovalChoices),
\* in the place of those of an earlier question.
SaveQuestion ==
  /\ pc = "save"
  /\ request' = [round |-> request.round + 1, open |-> TRUE, choices |-> question.choices]
  /\ pc' = "send"
  /\ UNCHANGED <<messengerVars, larkConnVars, question, due, cards, answer>>

SendCard ==
  /\ pc = "send"
  /\ Call(Asker)
  /\ pc' = "sending"
  /\ UNCHANGED <<larkConnVars, question, request, due, cards, answer>>

Delivered == [round |-> request.round, card |-> Card(question)]

CardArrives ==
  /\ pc = "sending"
  /\ Deliver(Asker)
  /\ cards' = cards \cup {Delivered}
  /\ pc' = "ended" /\ question' = NoQuestion
  /\ UNCHANGED <<larkConnVars, request, due, answer>>

\* A call that fails while the message is out may have delivered it.
CardFails ==
  /\ pc = "sending"
  /\ SendFails(Asker)
  /\ cards' \in {cards} \cup (IF sender[Asker].pc = "send" THEN {cards \cup {Delivered}} ELSE {})
  /\ pc' = "ended" /\ question' = NoQuestion
  /\ UNCHANGED <<larkConnVars, request, due, answer>>

\* HandleLarkAction of the requester, under a lock that runs do not take: the
\* button's value is looked up among the choices stored last.  An id that is not
\* there is an error, and a click on a request that is decided is ignored.
Click(card, i) ==
  /\ Delivers /\ request.open
  /\ LET value == card.card.buttons[i].value
     IN /\ Matching(request.choices, value) # {}
        /\ answer' = [clicked |-> card.round, asked |-> request.round, button |-> i,
                      chosen |-> FindChoice(request.choices, value)]
  /\ request' = [request EXCEPT !.open = FALSE]
  /\ due' = TRUE
  /\ UNCHANGED <<messengerVars, larkConnVars, pc, question, cards>>

\* The run that was enqueued gets the runner's chat lock when the last one ends.
Resume ==
  /\ due /\ pc = "ended"
  /\ due' = FALSE /\ pc' = "claude"
  /\ UNCHANGED <<messengerVars, larkConnVars, question, request, cards, answer>>

Job ==
  \/ Receive \/ ClaudeAnswers \/ SaveQuestion \/ SendCard \/ CardArrives \/ CardFails \/ Resume
  \/ \E q \in Questions : ClaudeAsks(q)
  \/ \E card \in cards : \E i \in DOMAIN card.card.buttons : Click(card, i)

\* Texts of other handlers and runs.
Text(s) ==
  /\ Started
  /\ \/ Delivers /\ Call(s)
     \/ Deliver(s) \/ SendFails(s)
  /\ UNCHANGED <<larkConnVars, jobVars>>

\* Feishu answers, the answers are kept, and time goes on.
Feishu ==
  /\ \/ \E s \in Senders : Issue(s) \/ (Started /\ KeepToken(s, "send"))
     \/ Tick
  /\ UNCHANGED <<larkConnVars, jobVars>>

Next == \/ \E s \in Others : Validate(s) \/ Validated(s) \/ NotValidated(s) \/ Text(s)
        \/ Connection \/ Job \/ Feishu

Spec == Init /\ [][Next]_vars

-----------------------------------------------------------------------------
(* Properties.                                                             *)

\* A click on a card of the open question is taken for the choice its button
\* stands for: what the worker accepts, the card carries and FindChoice finds
\* agree on when two ids are the same.
ClickFindsItsChoice ==
  answer.clicked = answer.asked => answer.chosen = answer.button

\* What the worker accepts the card shows in full: neither its title nor its
\* body is cut.
ShownInFull == \A card \in cards : ~card.card.title.cut /\ ~card.card.body.cut

\* A click answers the question on whose card it is, and no later one.
AnswersItsQuestion == answer.clicked = answer.asked
=============================================================================
