------------------------------ MODULE Gateway ------------------------------
(***************************************************************************)
(* The gateway process (cmd/server/main.go, runServe): orchestrator,       *)
(* runner and store composed, with crashes and restarts.  A crash loses    *)
(* every goroutine, lock and token and leaves the database and the Claude  *)
(* processes.  A restart reconciles the database before the first event is *)
(* accepted.                                                               *)
(***************************************************************************)
EXTENDS Orchestrator

CONSTANT MaxCrashes    \* bound on the crashes

ASSUME MaxCrashesAssumption == MaxCrashes \in Nat

VARIABLES up,        \* the process accepts events and runs jobs
          crashes,   \* crashes so far
          orphans    \* jobs with a Claude process a crash has left behind

vars == <<storeVars, runnerVars, orchestratorVars, up, crashes, orphans>>

Init ==
  /\ StoreInit /\ RunnerInit /\ OrchestratorInit
  /\ up = TRUE
  /\ crashes = 0
  /\ orphans = {}

Crash ==
  /\ up /\ crashes < MaxCrashes
  /\ up' = FALSE
  /\ crashes' = crashes + 1
  /\ orphans' = orphans \cup {run[r].job : r \in {q \in Runs : run[q].pc \in {"claude", "retry"}}}
  /\ run' = [r \in Runs |-> NoRun]
  /\ chatLock' = [c \in Chats |-> None]
  /\ workspaceLock' = None
  /\ readonlyTokens' = {}
  /\ svc' = [c \in Chats |-> NoSvc]
  /\ UNCHANGED <<storeVars, born, gone, faults, cards, registered, repo, epoch,
                 consented>>

\* ReconcileOrphanedWorkers: kill the processes of the active worker sessions,
\* mark those sessions and then the jobs in progress as interrupted.
Restart ==
  /\ ~up
  /\ up' = TRUE
  /\ orphans' = orphans \ ActiveWorkerSessions
  /\ MarkWorkerSessionsInterrupted
  /\ InterruptInProgressJobs
  /\ UNCHANGED <<conversation, approval, runnerVars, orchestratorVars, crashes>>

\* An orphaned Claude process comes to its end.
OrphanExits(j) ==
  /\ j \in orphans
  /\ orphans' = orphans \ {j}
  /\ UNCHANGED <<storeVars, runnerVars, orchestratorVars, up, crashes>>

\* The steps a handler or a run takes once it has begun.
HandlerStep(c) ==
  \/ ResetClear(c) \/ ResetReread(c) \/ WriteConversation(c)
  \/ \E j \in Jobs : \/ \E r \in Runs : CreateQueuedJob(c, j, r)
                     \/ CreateWaitingJob(c, j)
  \/ SaveApprovalRequest(c) \/ SendApprovalCard(c)
  \/ SaveDecision(c) \/ RejectJob(c) \/ \E r \in Runs : StartDecidedJob(c, r)

RunStep(r) ==
  \/ RunnerStep(r) /\ UNCHANGED orchestratorVars
  \/ ReadQuestionContext(r) \/ SaveQuestion(r) \/ SendQuestion(r)

\* What users and the platform do.
Event(c) ==
  \E u \in Users :
    \/ Register(c, u)
    \/ \E message \in MessageKinds : ReceiveMessage(c, u, message)
    \/ \E j \in Jobs, kind \in CardKinds, choice \in BOOLEAN :
         ReceiveAction(c, j, u, kind, choice)

Fault ==
  \/ \E c \in Chats : HandlerFails(c) \/ ApprovalCardFails(c)
  \/ \E r \in Runs : \/ RunStatementFails(r) /\ UNCHANGED orchestratorVars
                     \/ QuestionFails(r)

Process ==
  /\ up
  /\ \/ \E c \in Chats : HandlerStep(c) \/ Event(c)
     \/ \E r \in Runs : RunStep(r)
     \/ Fault
  /\ UNCHANGED <<up, crashes, orphans>>

Environment == Commit /\ UNCHANGED <<up, crashes, orphans>>

Next == \/ Process \/ Environment \/ Crash \/ Restart
        \/ \E j \in Jobs : OrphanExits(j)

Spec == Init /\ [][Next]_vars

TypeOK ==
  /\ StoreTypeOK /\ RunnerTypeOK /\ OrchestratorTypeOK
  /\ up \in BOOLEAN
  /\ crashes \in 0..MaxCrashes
  /\ orphans \in SUBSET Jobs
=============================================================================
