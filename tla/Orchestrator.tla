---------------------------- MODULE Orchestrator ----------------------------
(***************************************************************************)
(* The orchestrator (internal/orchestrator/service.go, context.go): what a *)
(* message or a click on a decision card does, and the question a run asks *)
(* its requester.                                                          *)
(*                                                                         *)
(* Handlers of one chat exclude each other by the service's own chatLock,  *)
(* which is not the runner's: svc[c] is the handler that holds it, and a   *)
(* handler waiting for it is an event that has not arrived.  Between two   *)
(* statements of a handler the runner's goroutines go on, so a handler     *)
(* keeps what it read in its local state.                                  *)
(*                                                                         *)
(* Replies that change no state (acks, texts, status answers) are left     *)
(* out; a decision card is kept, because it can be clicked as long as the  *)
(* chat exists.  An event that is delivered again is one more event.       *)
(***************************************************************************)
EXTENDS Runner

CONSTANTS MaxResets,    \* bound on the /clear commands of a chat
          MaxCommits    \* bound on the moves of the workspace's HEAD

ASSUME OrchestratorBoundsAssumption == MaxResets \in Nat /\ MaxCommits \in Nat

VARIABLES svc,         \* the handler that holds the service's chatLock, by chat
          cards,       \* kinds of the decision cards delivered, by job
          registered,  \* active rows of registered_users
          repo,        \* HEAD of the workspace repository
          epoch,       \* /clear commands completed, by chat (history)
          consented    \* jobs a registered user has approved (history)

orchestratorVars == <<svc, cards, registered, repo, epoch, consented>>

MessageKinds == {"reset", "status_query", "read_only", "mutation"}

\* What HandleLarkAction decides when it does not return early.
Verdicts == {"invalidated", "rejected", "approved", "confirmed"}

SvcPcs == {"idle", "clear", "reread", "upsert", "create", "ask", "card",
           "decide", "apply"}

SvcRecords == [pc: SvcPcs, message: MessageKinds, verdict: Verdicts,
               user: Users \cup {None}, job: Jobs \cup {None},
               gen: Nat, session: Nat, payload: Payloads]

NoSvc == [pc |-> "idle", message |-> "read_only", verdict |-> "invalidated",
          user |-> None, job |-> None, gen |-> 0, session |-> NoSession,
          payload |-> NoPayload]

SvcTypeOK ==
  /\ svc \in [Chats -> SvcRecords]
  /\ \A c \in Chats : svc[c].pc \in {"ask", "card", "decide", "apply"}
                        => svc[c].job \in Jobs

OrchestratorTypeOK ==
  /\ SvcTypeOK
  /\ cards \in [Jobs -> SUBSET CardKinds]
  /\ registered \in SUBSET Users
  /\ repo \in 0..MaxCommits
  /\ epoch \in [Chats -> Nat]
  /\ consented \in SUBSET Jobs

OrchestratorInit ==
  /\ svc = [c \in Chats |-> NoSvc]
  /\ cards = [j \in Jobs |-> {}]
  /\ registered = {}
  /\ repo = 0
  /\ epoch = [c \in Chats |-> 0]
  /\ consented = {}

Handling(c, pc) == svc[c].pc = pc
Advance(c, pc) == svc' = [svc EXCEPT ![c].pc = pc]
Done(c) == svc' = [svc EXCEPT ![c] = NoSvc]

-----------------------------------------------------------------------------
(* HandleLarkEvent.                                                        *)

\* A register message with the current pairing key, in any chat.
Register(c, u) ==
  /\ Handling(c, "idle")
  /\ registered = {}
  /\ registered' = {u}
  /\ UNCHANGED <<storeVars, runnerVars, svc, cards, repo, epoch, consented>>

UnusedJobs == {j \in Jobs : job[j].status = "none"}

\* Handlers that are going to create a job.
Creating == {c \in Chats : /\ svc[c].pc \in {"upsert", "create"}
                           /\ svc[c].message \in {"read_only", "mutation"}}

\* Bound: a request is received while there is a job id left for it.
JobLeft == Cardinality(UnusedJobs) > Cardinality(Creating)

\* A message arrives, takes the lock and reads the conversation.  A reset of
\* a chat without a row skips the clear and counts from the zero row.
ReceiveMessage(c, u, message) ==
  /\ Handling(c, "idle")
  /\ message = "reset" => epoch[c] < MaxResets
  /\ message \in {"read_only", "mutation"} => JobLeft
  /\ LET fresh == message = "reset" /\ ~conversation[c].exists
     IN svc' = [svc EXCEPT ![c] =
          [NoSvc EXCEPT !.pc = IF message = "reset" /\ ~fresh THEN "clear" ELSE "upsert",
                        !.message = message, !.user = u,
                        !.gen = conversation[c].gen + (IF fresh THEN 1 ELSE 0),
                        !.session = conversation[c].session]]
  /\ UNCHANGED <<storeVars, runnerVars, cards, registered, repo, epoch, consented>>

ResetClear(c) ==
  /\ Handling(c, "clear")
  /\ ClearConversationSession(c)
  /\ Advance(c, "reread")
  /\ UNCHANGED <<job, approval, workerSession, runnerVars, cards, registered,
                 repo, epoch, consented>>

ResetReread(c) ==
  /\ Handling(c, "reread")
  /\ svc' = [svc EXCEPT ![c] =
                [@ EXCEPT !.pc = "upsert", !.gen = conversation[c].gen,
                          !.session = conversation[c].session]]
  /\ UNCHANGED <<storeVars, runnerVars, cards, registered, repo, epoch, consented>>

\* The whole row is written back, from the copy the handler read.
WriteConversation(c) ==
  /\ Handling(c, "upsert")
  /\ IF svc[c].message = "reset"
       THEN /\ UpsertConversation(c, NoSession, svc[c].gen)
            /\ epoch' = [epoch EXCEPT ![c] = @ + 1]
       ELSE /\ UpsertConversation(c, svc[c].session, svc[c].gen)
            /\ UNCHANGED epoch
  /\ IF svc[c].message \in {"read_only", "mutation"} THEN Advance(c, "create")
                                                     ELSE Done(c)
  /\ UNCHANGED <<job, approval, workerSession, runnerVars, cards, registered,
                 repo, consented>>

\* createAndRunJob of a request that needs no approval.
CreateQueuedJob(c, j, r) ==
  /\ Handling(c, "create") /\ svc[c].message = "read_only"
  /\ job[j].status = "none"
  /\ CreateJob(j, c, svc[c].user, "queued", FALSE)
  /\ Enqueue(r, j, c, FALSE, svc[c].session, svc[c].gen, epoch[c])
  /\ Done(c)
  /\ UNCHANGED <<conversation, approval, workerSession, chatLock, workspaceLock,
                 readonlyTokens, born, gone, faults, cards, registered, repo,
                 epoch, consented>>

\* createAndRunJob of a mutation request: the payload is fixed before the job
\* is inserted.
CreateWaitingJob(c, j) ==
  /\ Handling(c, "create") /\ svc[c].message = "mutation"
  /\ job[j].status = "none"
  /\ CreateJob(j, c, svc[c].user, "waiting_approval", TRUE)
  /\ svc' = [svc EXCEPT ![c] =
                [@ EXCEPT !.pc = "ask", !.job = j,
                          !.payload = [kind |-> "approval", gen |-> svc[c].gen,
                                       session |-> svc[c].session, repo |-> repo]]]
  /\ UNCHANGED <<conversation, approval, workerSession, runnerVars, cards,
                 registered, repo, epoch, consented>>

SaveApprovalRequest(c) ==
  /\ Handling(c, "ask")
  /\ SaveApproval(svc[c].job, "pending", svc[c].payload)
  /\ Advance(c, "card")
  /\ UNCHANGED <<conversation, job, workerSession, runnerVars, cards, registered,
                 repo, epoch, consented>>

SendApprovalCard(c) ==
  /\ Handling(c, "card")
  /\ cards' = [cards EXCEPT ![svc[c].job] = @ \cup {"approval"}]
  /\ Done(c)
  /\ UNCHANGED <<storeVars, runnerVars, registered, repo, epoch, consented>>

-----------------------------------------------------------------------------
(* HandleLarkAction.                                                       *)

\* Mutant: a decided card can be clicked again.
DecidableAgain(j, kind) == approval[j].payload.kind = kind

\* The card is of the kind of the pending request; other clicks are ignored or
\* answered with an error.
Decidable(j, kind) ==
  /\ approval[j].status = "pending"
  /\ approval[j].payload.kind = kind

\* ValidateHash recomputes the hash of the stored payload with the HEAD of now.
Drifted(j) == approval[j].payload.repo # repo

\* Mutant: only the generation is compared.
GenerationChanged(j) == approval[j].payload.gen # conversation[job[j].chat].gen

ContextChanged(j) ==
  \/ approval[j].payload.gen # conversation[job[j].chat].gen
  \/ approval[j].payload.session # conversation[job[j].chat].session

\* Mutant: anyone who sees the card can approve.
VerdictOfAnyone(j, u, kind, choice) ==
  IF ContextChanged(j) \/ Drifted(j) THEN {"invalidated"}
  ELSE IF kind = "approval" THEN IF choice THEN {"approved"} ELSE {"rejected"}
  ELSE IF u = job[j].requester /\ choice THEN {"confirmed"} ELSE {}

\* The verdict on a click of u on a card of that kind; choice is TRUE for
\* "approve" and for a listed option.  The clicks the code answers with an
\* error or ignores have no verdict.
Verdict(j, u, kind, choice) ==
  IF ContextChanged(j) \/ Drifted(j) THEN {"invalidated"}
  ELSE IF kind = "approval"
         THEN IF u \notin registered THEN {}
              ELSE IF choice THEN {"approved"} ELSE {"rejected"}
         ELSE IF u = job[j].requester /\ choice THEN {"confirmed"} ELSE {}

\* The reads of HandleLarkAction.  Under the chat lock nothing but a later
\* question replaces the approval row, and none is asked while one is pending.
ReceiveAction(c, j, u, kind, choice) ==
  /\ Handling(c, "idle")
  /\ job[j].chat = c
  /\ kind \in cards[j]
  /\ Decidable(j, kind)
  /\ \E verdict \in Verdict(j, u, kind, choice) :
       /\ svc' = [svc EXCEPT ![c] =
                    [NoSvc EXCEPT !.pc = "decide", !.verdict = verdict, !.job = j,
                                  !.gen = conversation[c].gen,
                                  !.session = conversation[c].session,
                                  !.payload = approval[j].payload]]
       /\ consented' = IF verdict = "approved" /\ u \in registered
                         THEN consented \cup {j} ELSE consented
  /\ UNCHANGED <<storeVars, runnerVars, cards, registered, repo, epoch>>

SaveDecision(c) ==
  /\ Handling(c, "decide")
  /\ SaveApproval(svc[c].job,
                  IF svc[c].verdict = "confirmed" THEN "approved" ELSE svc[c].verdict,
                  svc[c].payload)
  /\ Advance(c, "apply")
  /\ UNCHANGED <<conversation, job, workerSession, runnerVars, cards, registered,
                 repo, epoch, consented>>

\* Mutant: the job row of an invalidated request is not written.
RejectApprovalOnly(c) ==
  /\ Handling(c, "apply") /\ svc[c].verdict \in {"invalidated", "rejected"}
  /\ IF svc[c].verdict = "rejected" THEN UpdateJob(svc[c].job, "rejected")
                                    ELSE UNCHANGED job
  /\ Done(c)
  /\ UNCHANGED <<conversation, approval, workerSession, runnerVars, cards,
                 registered, repo, epoch, consented>>

\* Mutant: the early return of a stale click keeps the chat lock.
RejectKeepingLock(c) ==
  /\ Handling(c, "apply") /\ svc[c].verdict = "rejected"
  /\ UpdateJob(svc[c].job, "rejected")
  /\ Done(c)
  /\ UNCHANGED <<conversation, approval, workerSession, runnerVars, cards,
                 registered, repo, epoch, consented>>

\* UpdateJob of a click that starts nothing.
RejectJob(c) ==
  /\ Handling(c, "apply") /\ svc[c].verdict \in {"invalidated", "rejected"}
  /\ UpdateJob(svc[c].job, "rejected")
  /\ Done(c)
  /\ UNCHANGED <<conversation, approval, workerSession, runnerVars, cards,
                 registered, repo, epoch, consented>>

\* UpdateJob and Enqueue of an approval (mutating) or a confirmation (not).
StartDecidedJob(c, r) ==
  /\ Handling(c, "apply") /\ svc[c].verdict \in {"approved", "confirmed"}
  /\ LET approving == svc[c].verdict = "approved"
     IN /\ UpdateJob(svc[c].job, IF approving THEN "approved" ELSE "queued")
        /\ Enqueue(r, svc[c].job, c, approving, svc[c].session, svc[c].gen, epoch[c])
  /\ Done(c)
  /\ UNCHANGED <<conversation, approval, workerSession, chatLock, workspaceLock,
                 readonlyTokens, born, gone, faults, cards, registered, repo,
                 epoch, consented>>

\* Any statement of a handler may fail, or its request's context end; the
\* handler returns the error and what it has written stays written.
HandlerFails(c) ==
  /\ ~Handling(c, "idle")
  /\ faults < MaxFaults
  /\ faults' = faults + 1
  /\ Done(c)
  /\ UNCHANGED <<storeVars, run, chatLock, workspaceLock, readonlyTokens, born,
                 gone, cards, registered, repo, epoch, consented>>

-----------------------------------------------------------------------------
(* onConfirmationRequest, called by the runner's goroutine: it holds the   *)
(* runner's lock of the chat, not the service's.                           *)

ReadQuestionContext(r) ==
  /\ At(r, "ask")
  /\ LET context == conversation[run[r].chat]
     IN run' = [run EXCEPT ![r] =
          [@ EXCEPT !.payload = [kind |-> "requester_confirmation", gen |-> context.gen,
                                 session |-> context.session, repo |-> repo],
                    !.pc = "question"]]
  /\ UNCHANGED <<storeVars, chatLock, workspaceLock, readonlyTokens, born, gone,
                 faults, orchestratorVars>>

SaveQuestion(r) ==
  /\ At(r, "question")
  /\ SaveApproval(run[r].job, "pending", run[r].payload)
  /\ Goto(r, "card")
  /\ UNCHANGED <<conversation, job, workerSession, chatLock, workspaceLock,
                 readonlyTokens, born, gone, faults, orchestratorVars>>

SendQuestion(r) ==
  /\ At(r, "card")
  /\ cards' = [cards EXCEPT ![run[r].job] = @ \cup {"requester_confirmation"}]
  /\ Finish(r, "waiting_confirmation")
  /\ UNCHANGED <<storeVars, chatLock, workspaceLock, readonlyTokens, born, gone,
                 faults, svc, registered, repo, epoch, consented>>

\* The sending of a card fails; the chat may have it all the same.
CardFails(j, kind) ==
  /\ faults < MaxFaults
  /\ faults' = faults + 1
  /\ cards' \in {cards, [cards EXCEPT ![j] = @ \cup {kind}]}

QuestionFails(r) ==
  /\ At(r, "card")
  /\ CardFails(run[r].job, "requester_confirmation")
  /\ Finish(r, "failed")
  /\ UNCHANGED <<storeVars, chatLock, workspaceLock, readonlyTokens, born, gone,
                 svc, registered, repo, epoch, consented>>

ApprovalCardFails(c) ==
  /\ Handling(c, "card")
  /\ CardFails(svc[c].job, "approval")
  /\ Done(c)
  /\ UNCHANGED <<storeVars, run, chatLock, workspaceLock, readonlyTokens, born,
                 gone, registered, repo, epoch, consented>>

\* Someone, or a Claude run, commits to the workspace.
Commit ==
  /\ repo < MaxCommits
  /\ repo' = repo + 1
  /\ UNCHANGED <<storeVars, runnerVars, svc, cards, registered, epoch, consented>>
=============================================================================
