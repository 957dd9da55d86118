---------------------------- MODULE GatewayProofs ----------------------------
(***************************************************************************)
(* Proofs, for every value of the constants, of invariants of the composed *)
(* gateway: its types, its locks, and the consent to mutations.            *)
(***************************************************************************)
EXTENDS GatewayProperties, FiniteSetTheorems, TLAPS

-----------------------------------------------------------------------------
(* Type correctness: what the updates of a goroutine's record keep.        *)

\* A goroutine that goes on keeps a record of a run with a job and a chat.
LEMMA GotoType ==
  ASSUME RunTypeOK, NEW r \in Runs, run[r].pc # "idle", NEW pc \in RunPcs, Goto(r, pc)
  PROVE  RunTypeOK'
<1>1. run' \in [Runs -> RunRecords]
  BY DEF RunTypeOK, Goto, RunRecords
<1>2. \A q \in Runs : run'[q].pc # "idle" => run'[q].job \in Jobs /\ run'[q].chat \in Chats
  BY DEF RunTypeOK, Goto, RunRecords
<1> QED BY <1>1, <1>2 DEF RunTypeOK

\* So does one that has settled on the outcome of its job,
LEMMA FinishType ==
  ASSUME RunTypeOK, NEW r \in Runs, run[r].pc # "idle", NEW outcome \in Outcomes,
         Finish(r, outcome)
  PROVE  RunTypeOK'
<1>1. [run[r] EXCEPT !.outcome = outcome, !.pc = "update"] \in RunRecords
  BY DEF RunTypeOK, RunRecords, RunPcs
<1> QED BY <1>1 DEF RunTypeOK, Finish, RunRecords

\* one that Enqueue has just started,
LEMMA EnqueueType ==
  ASSUME RunTypeOK, NEW r \in Runs, NEW j \in Jobs, NEW c \in Chats,
         NEW mutating \in BOOLEAN, NEW resume \in Nat, NEW gen \in Nat,
         NEW e \in Nat, Enqueue(r, j, c, mutating, resume, gen, e)
  PROVE  RunTypeOK'
<1>1. run' \in [Runs -> RunRecords]
  BY DEF RunTypeOK, Enqueue, RunRecords, RunPcs, NoRun, NoSession, NoPayload,
         Payloads, CardKinds, Results, Outcomes
<1>2. \A q \in Runs : run'[q].pc # "idle" => run'[q].job \in Jobs /\ run'[q].chat \in Chats
  BY DEF RunTypeOK, Enqueue, NoRun
<1> QED BY <1>1, <1>2 DEF RunTypeOK

\* one that Claude has answered,
LEMMA AnsweredType ==
  ASSUME RunTypeOK, NEW r \in Runs, run[r].pc # "idle", NEW result \in Results,
         NEW session \in Nat, Answered(r, result, session)
  PROVE  RunTypeOK'
<1>1. [run[r] EXCEPT !.result = result, !.session = session, !.pc = "persist"] \in RunRecords
  BY DEF RunTypeOK, RunRecords, RunPcs
<1> QED BY <1>1 DEF RunTypeOK, Answered, RunRecords

\* one whose Claude run has failed,
LEMMA FailedType ==
  ASSUME RunTypeOK, NEW r \in Runs, run[r].pc # "idle", Failed(r)
  PROVE  RunTypeOK'
<1>1. [run[r] EXCEPT !.result = "error", !.pc = "record"] \in RunRecords
  BY DEF RunTypeOK, RunRecords, RunPcs, Results
<1> QED BY <1>1 DEF RunTypeOK, Failed, RunRecords

\* one that tries again without a session,
LEMMA RetryType ==
  ASSUME RunTypeOK, NEW r \in Runs, run[r].pc # "idle", NEW gen \in Nat, Retry(r, gen)
  PROVE  RunTypeOK'
<1>1. [run[r] EXCEPT !.resume = NoSession, !.gen = gen, !.pc = "retry"] \in RunRecords
  BY DEF RunTypeOK, RunRecords, RunPcs, NoSession
<1> QED BY <1>1 DEF RunTypeOK, Retry, RunRecords

\* The records of a goroutine and of a handler that are not there.
LEMMA NoRecordTypes ==
  /\ NoRun \in RunRecords /\ NoRun.pc = "idle"
  /\ NoSvc \in SvcRecords /\ NoSvc.pc = "idle"
<1>1. NoPayload \in Payloads
  BY DEF NoPayload, Payloads, CardKinds, NoSession
<1> QED BY <1>1 DEF NoRun, RunRecords, RunPcs, NoSession, Results, Outcomes,
                    NoSvc, SvcRecords, SvcPcs, MessageKinds, Verdicts

\* and a goroutine that has returned.
LEMMA NoRunType ==
  ASSUME RunTypeOK, NEW r \in Runs, run' = [run EXCEPT ![r] = NoRun]
  PROVE  RunTypeOK'
BY NoRecordTypes DEF RunTypeOK

-----------------------------------------------------------------------------
(* Type correctness: every statement keeps the type of its table.          *)

\* The whole-row write of a conversation.
LEMMA UpsertType ==
  ASSUME StoreTypeOK, NEW c \in Chats, NEW session \in Nat, NEW gen \in Nat,
         UpsertConversation(c, session, gen)
  PROVE  conversation' \in [Chats -> ConversationRows]
  BY DEF StoreTypeOK, UpsertConversation, ConversationRows

\* The write of a session for an expected generation.
LEMMA UpdateSessionType ==
  ASSUME StoreTypeOK, NEW c \in Chats, NEW session \in Nat, NEW gen \in Nat,
         UpdateConversationSession(c, session, gen)
  PROVE  conversation' \in [Chats -> ConversationRows]
  BY DEF StoreTypeOK, UpdateConversationSession, ConversationRows

\* The clearing of a session, which counts the generation up.
LEMMA ClearSessionType ==
  ASSUME StoreTypeOK, NEW c \in Chats, ClearConversationSession(c)
  PROVE  conversation' \in [Chats -> ConversationRows]
<1>1. conversation[c].gen + 1 \in Nat /\ NoSession \in Nat
  BY DEF StoreTypeOK, ConversationRows, NoSession
<1>2. \/ UNCHANGED conversation
      \/ UpsertConversation(c, NoSession, conversation[c].gen + 1)
  BY DEF ClearConversationSession, UpsertConversation
<1> QED BY <1>1, <1>2, UpsertType DEF StoreTypeOK

\* The insertion of a job.
LEMMA CreateJobType ==
  ASSUME StoreTypeOK, NEW j \in Jobs, NEW c \in Chats, NEW u \in Users \cup {None},
         NEW status \in JobStatuses, NEW requiresApproval \in BOOLEAN,
         CreateJob(j, c, u, status, requiresApproval)
  PROVE  job' \in [Jobs -> JobRows]
  BY DEF StoreTypeOK, CreateJob, JobRows

\* The write of a job's status.
LEMMA UpdateJobType ==
  ASSUME StoreTypeOK, NEW j \in Jobs, NEW status \in JobStatuses \cup {"none"},
         UpdateJob(j, status)
  PROVE  job' \in [Jobs -> JobRows]
  BY DEF StoreTypeOK, UpdateJob, JobRows

\* The interruption of the jobs in progress at the start.
LEMMA InterruptType ==
  ASSUME StoreTypeOK, InterruptInProgressJobs
  PROVE  job' \in [Jobs -> JobRows]
  BY DEF StoreTypeOK, InterruptInProgressJobs, JobRows, JobStatuses

\* The write of an approval.
LEMMA ApprovalType ==
  ASSUME StoreTypeOK, NEW j \in Jobs, NEW status \in ApprovalStatuses,
         NEW payload \in Payloads, SaveApproval(j, status, payload)
  PROVE  approval' \in [Jobs -> ApprovalRows]
  BY DEF StoreTypeOK, SaveApproval, ApprovalRows

\* The write of a worker session, and the interruption of them all.
LEMMA WorkerSessionType ==
  ASSUME StoreTypeOK, NEW j \in Jobs, NEW status \in SessionStatuses,
         SaveWorkerSession(j, status) \/ MarkWorkerSessionsInterrupted
  PROVE  workerSession' \in [Jobs -> SessionStatuses]
  BY DEF StoreTypeOK, SaveWorkerSession, MarkWorkerSessionsInterrupted, SessionStatuses

-----------------------------------------------------------------------------
(* Type correctness of the steps of a run.                                 *)

\* Every step of the goroutine of a run keeps the types of the tables and of
\* the runner's variables.
LEMMA RunnerStepType ==
  ASSUME StoreTypeOK, RunnerTypeOK, NEW r \in Runs, RunnerStep(r)
  PROVE  StoreTypeOK' /\ RunnerTypeOK'
<1> DEFINE me == run[r]
<1>0. /\ RunTypeOK
      /\ me \in RunRecords
      /\ me.pc # "idle" => me.job \in Jobs /\ me.chat \in Chats
  BY DEF RunnerTypeOK, RunTypeOK
<1>pc. /\ {"slot", "start", "refresh", "claude", "clear", "record", "ask",
           "release", "unlock"} \subseteq RunPcs
       /\ {"failed", "succeeded"} \subseteq Outcomes
  BY DEF RunPcs, Outcomes
<1>1. CASE AcquireChat(r)
  <2>1. RunTypeOK'
    BY <1>0, <1>1, <1>pc, GotoType DEF AcquireChat, At
  <2>2. chatLock' \in [Chats -> Runs \cup {None}]
    BY <1>0, <1>1 DEF AcquireChat, RunnerTypeOK
  <2> QED BY <1>1, <2>1, <2>2 DEF AcquireChat, storeVars, StoreTypeOK, RunnerTypeOK
<1>2. CASE AcquireWorkspace(r)
  <2>1. RunTypeOK'
    BY <1>0, <1>2, <1>pc, GotoType DEF AcquireWorkspace, At
  <2>2. workspaceLock' \in Jobs \cup {None}
    BY <1>0, <1>2 DEF AcquireWorkspace, At
  <2> QED BY <1>2, <2>1, <2>2 DEF AcquireWorkspace, storeVars, StoreTypeOK, RunnerTypeOK
<1>3. CASE AcquireToken(r)
  <2>1. RunTypeOK'
    BY <1>0, <1>3, <1>pc, GotoType DEF AcquireToken, At
  <2> QED BY <1>3, <2>1 DEF AcquireToken, storeVars, StoreTypeOK, RunnerTypeOK
<1>4. CASE StartJob(r)
  <2>1. RunTypeOK'
    BY <1>0, <1>4, <1>pc, GotoType DEF StartJob, At
  <2>2. job' \in [Jobs -> JobRows]
    BY <1>0, <1>4, UpdateJobType DEF StartJob, At, JobStatuses
  <2> QED BY <1>4, <2>1, <2>2 DEF StartJob, StoreTypeOK, RunnerTypeOK
<1>5. CASE RefreshContext(r)
  <2>1. RunTypeOK'
    BY <1>0, <1>5, <1>pc, GotoType, FinishType DEF RefreshContext, At
  <2> QED BY <1>5, <2>1 DEF RefreshContext, storeVars, StoreTypeOK, RunnerTypeOK
<1>6. CASE ClaudeAnswers(r)
  <2>1. PICK result \in {"answer", "question"} :
          \/ \E session \in {NoSession, me.resume} :
               Answered(r, result, session) /\ UNCHANGED born
          \/ born' = Append(born, me.epoch) /\ Answered(r, result, Len(born) + 1)
    BY <1>6 DEF ClaudeAnswers
  <2>2. result \in Results /\ me.resume \in Nat /\ NoSession \in Nat /\ me.epoch \in Nat
    BY <1>0 DEF Results, RunRecords, NoSession
  <2>3. born \in Seq(Nat) /\ Len(born) + 1 \in Nat
    BY DEF RunnerTypeOK
  <2>4. me.pc # "idle"
    BY <1>6 DEF ClaudeAnswers, At
  <2>5. RunTypeOK'
    BY <1>0, <2>1, <2>2, <2>3, <2>4, AnsweredType
  <2>6. born' \in Seq(Nat)
    BY <2>1, <2>2, <2>3
  <2> QED BY <1>6, <2>5, <2>6 DEF ClaudeAnswers, storeVars, StoreTypeOK, RunnerTypeOK
<1>7. CASE ClaudeFails(r)
  <2>1. RunTypeOK'
    BY <1>0, <1>7, FailedType DEF ClaudeFails, At
  <2> QED BY <1>7, <2>1 DEF ClaudeFails, storeVars, StoreTypeOK, RunnerTypeOK
<1>8. CASE ClaudeMissesSession(r)
  <2>1. RunTypeOK'
    BY <1>0, <1>8, <1>pc, GotoType DEF ClaudeMissesSession, At
  <2>2. gone' \in SUBSET Nat
    BY <1>0, <1>8 DEF ClaudeMissesSession, RunnerTypeOK, RunRecords
  <2> QED BY <1>8, <2>1, <2>2 DEF ClaudeMissesSession, storeVars, StoreTypeOK, RunnerTypeOK
<1>9. CASE ClearMissingSession(r)
  <2>1. me.gen + 1 \in Nat
    BY <1>0 DEF RunRecords
  <2>2. RunTypeOK'
    BY <1>0, <1>9, <2>1, RetryType DEF ClearMissingSession, At
  <2>3. conversation' \in [Chats -> ConversationRows]
    BY <1>0, <1>9, ClearSessionType DEF ClearMissingSession, At
  <2> QED BY <1>9, <2>2, <2>3 DEF ClearMissingSession, StoreTypeOK, RunnerTypeOK
<1>10. CASE PersistSession(r)
  <2>1. RunTypeOK'
    BY <1>0, <1>10, <1>pc, GotoType DEF PersistSession, At
  <2>2. me.chat \in Chats /\ me.session \in Nat /\ me.gen \in Nat
    BY <1>0, <1>10 DEF PersistSession, At, RunRecords
  <2>3. conversation' \in [Chats -> ConversationRows]
    BY <1>10, <2>2, UpdateSessionType DEF PersistSession, StoreTypeOK
  <2> QED BY <1>10, <2>1, <2>3 DEF PersistSession, StoreTypeOK, RunnerTypeOK
<1>11. CASE RecordWorker(r)
  <2>1. RunTypeOK'
    BY <1>0, <1>11, <1>pc, GotoType, FinishType DEF RecordWorker, AfterRecord, At
  <2>2. workerSession' \in [Jobs -> SessionStatuses]
    BY <1>0, <1>11, WorkerSessionType DEF RecordWorker, At, SessionStatuses
  <2> QED BY <1>11, <2>1, <2>2 DEF RecordWorker, StoreTypeOK, RunnerTypeOK
<1>12. CASE WriteOutcome(r)
  <2>1. RunTypeOK'
    BY <1>0, <1>12, <1>pc, GotoType DEF WriteOutcome, At
  <2>2. me.outcome \in JobStatuses \cup {"none"}
    BY <1>0 DEF RunRecords, Outcomes, JobStatuses
  <2>3. job' \in [Jobs -> JobRows]
    BY <1>0, <1>12, <2>2, UpdateJobType DEF WriteOutcome, At
  <2> QED BY <1>12, <2>1, <2>3 DEF WriteOutcome, StoreTypeOK, RunnerTypeOK
<1>13. CASE ReleaseSlot(r)
  <2>1. RunTypeOK'
    BY <1>0, <1>13, <1>pc, GotoType DEF ReleaseSlot, At
  <2> QED BY <1>13, <2>1 DEF ReleaseSlot, storeVars, StoreTypeOK, RunnerTypeOK
<1>14. CASE ReleaseChat(r)
  <2>1. RunTypeOK'
    BY <1>0, <1>14, NoRunType DEF ReleaseChat
  <2>2. chatLock' \in [Chats -> Runs \cup {None}]
    BY <1>14 DEF ReleaseChat, RunnerTypeOK
  <2> QED BY <1>14, <2>1, <2>2 DEF ReleaseChat, storeVars, StoreTypeOK, RunnerTypeOK
<1> QED
  BY <1>1, <1>2, <1>3, <1>4, <1>5, <1>6, <1>7, <1>8, <1>9, <1>10, <1>11, <1>12,
     <1>13, <1>14 DEF RunnerStep

\* What a failing statement of a run leaves.
LEMMA RunFaultType ==
  ASSUME RunnerTypeOK, NEW r \in Runs, RunStatementFails(r)
  PROVE  RunnerTypeOK'
<1>0. RunTypeOK /\ run[r] \in RunRecords
  BY DEF RunnerTypeOK, RunTypeOK
<1>pc. {"release", "ask"} \subseteq RunPcs /\ {"failed", "succeeded"} \subseteq Outcomes
  BY DEF RunPcs, Outcomes
<1>1. run[r].pc # "idle"
  BY DEF RunStatementFails, At
<1>2. \/ \E pc \in {"release", "ask"} : Goto(r, pc)
      \/ \E outcome \in {"failed", "succeeded"} : Finish(r, outcome)
      \/ Failed(r)
  BY DEF RunStatementFails, AfterRecord
<1>3. RunTypeOK'
  BY <1>0, <1>pc, <1>1, <1>2, GotoType, FinishType, FailedType
<1>4. faults' \in 0..MaxFaults
  BY RunnerBoundsAssumption DEF RunnerTypeOK, RunStatementFails
<1> QED BY <1>3, <1>4 DEF RunStatementFails, RunnerTypeOK

-----------------------------------------------------------------------------
(* Type correctness of the handlers.                                       *)

\* A handler goes on with the job it has.
LEMMA AdvanceType ==
  ASSUME SvcTypeOK, NEW c \in Chats, NEW pc \in SvcPcs, Advance(c, pc),
         pc \in {"ask", "card", "decide", "apply"} => svc[c].job \in Jobs
  PROVE  SvcTypeOK'
  BY DEF SvcTypeOK, Advance, SvcRecords

\* A handler returns.
LEMMA DoneType ==
  ASSUME SvcTypeOK, NEW c \in Chats,
         Done(c)
  PROVE  SvcTypeOK'
BY NoRecordTypes DEF SvcTypeOK, Done

\* A row of the approvals table holds a payload, as does a handler's copy.
LEMMA PayloadTypes ==
  ASSUME StoreTypeOK, SvcTypeOK, RunTypeOK
  PROVE  /\ \A j \in Jobs : approval[j].payload \in Payloads
         /\ \A c \in Chats : svc[c].payload \in Payloads
         /\ \A r \in Runs : run[r].payload \in Payloads
  BY DEF StoreTypeOK, SvcTypeOK, RunTypeOK, ApprovalRows, SvcRecords, RunRecords

\* The handler of a message.
LEMMA ReceiveMessageType ==
  ASSUME StoreTypeOK, OrchestratorTypeOK, NEW c \in Chats, NEW u \in Users,
         NEW message \in MessageKinds, ReceiveMessage(c, u, message)
  PROVE  OrchestratorTypeOK'
<1> DEFINE fresh == message = "reset" /\ ~conversation[c].exists
           pc == IF message = "reset" /\ ~fresh THEN "clear" ELSE "upsert"
           gen == conversation[c].gen + (IF fresh THEN 1 ELSE 0)
           new == [NoSvc EXCEPT !.pc = pc, !.message = message, !.user = u,
                                !.gen = gen, !.session = conversation[c].session]
<1>1. gen \in Nat /\ conversation[c].session \in Nat /\ pc \in {"clear", "upsert"}
  BY DEF StoreTypeOK, ConversationRows
<1>2. new \in SvcRecords /\ new.pc \notin {"ask", "card", "decide", "apply"}
  <2> HIDE DEF pc, gen
  <2> QED BY <1>1 DEF NoSvc, SvcRecords, SvcPcs, Verdicts, NoPayload, Payloads,
                      CardKinds, NoSession
<1>3. svc' = [svc EXCEPT ![c] = new]
  BY DEF ReceiveMessage
<1> HIDE DEF new
<1>4. SvcTypeOK'
  BY <1>2, <1>3 DEF OrchestratorTypeOK, SvcTypeOK
<1> QED BY <1>4 DEF ReceiveMessage, OrchestratorTypeOK

\* The handler of a click.
LEMMA ReceiveActionType ==
  ASSUME StoreTypeOK, OrchestratorTypeOK, RunTypeOK, NEW c \in Chats, NEW j \in Jobs,
         NEW u \in Users, NEW kind \in CardKinds, NEW choice \in BOOLEAN,
         ReceiveAction(c, j, u, kind, choice)
  PROVE  OrchestratorTypeOK'
<1>1. PICK verdict \in Verdict(j, u, kind, choice) :
        /\ svc' = [svc EXCEPT ![c] =
                     [NoSvc EXCEPT !.pc = "decide", !.verdict = verdict, !.job = j,
                                   !.gen = conversation[c].gen,
                                   !.session = conversation[c].session,
                                   !.payload = approval[j].payload]]
        /\ consented' = IF verdict = "approved" /\ u \in registered
                          THEN consented \cup {j} ELSE consented
  BY DEF ReceiveAction
<1> DEFINE new == [NoSvc EXCEPT !.pc = "decide", !.verdict = verdict, !.job = j,
                                !.gen = conversation[c].gen,
                                !.session = conversation[c].session,
                                !.payload = approval[j].payload]
<1>2. verdict \in Verdicts
  BY DEF Verdict, Verdicts
<1>3. /\ conversation[c].gen \in Nat /\ conversation[c].session \in Nat
      /\ approval[j].payload \in Payloads
  BY PayloadTypes DEF StoreTypeOK, ConversationRows, OrchestratorTypeOK
<1>4. new \in SvcRecords /\ new.job \in Jobs
  BY <1>2, <1>3 DEF NoSvc, SvcRecords, SvcPcs, MessageKinds
<1> HIDE DEF new
<1>5. svc' = [svc EXCEPT ![c] = new]
  BY <1>1 DEF new
<1>6. SvcTypeOK'
  BY <1>4, <1>5 DEF OrchestratorTypeOK, SvcTypeOK
<1> QED BY <1>1, <1>6 DEF ReceiveAction, OrchestratorTypeOK

\* Every step of a handler keeps the types of the tables, runs and handlers.
LEMMA HandlerStepType ==
  ASSUME StoreTypeOK, RunnerTypeOK, OrchestratorTypeOK, NEW c \in Chats, HandlerStep(c)
  PROVE  StoreTypeOK' /\ RunnerTypeOK' /\ OrchestratorTypeOK'
<1> DEFINE me == svc[c]
<1>0. /\ RunTypeOK /\ SvcTypeOK
      /\ me \in SvcRecords
      /\ me.pc \in {"ask", "card", "decide", "apply"} => me.job \in Jobs
      /\ me.gen \in Nat /\ me.session \in Nat /\ me.payload \in Payloads
      /\ me.user \in Users \cup {None} /\ me.verdict \in Verdicts
      /\ epoch[c] \in Nat
  BY DEF RunnerTypeOK, OrchestratorTypeOK, SvcTypeOK, SvcRecords
<1>pc. {"reread", "upsert", "create", "ask", "card", "decide", "apply"} \subseteq SvcPcs
  BY DEF SvcPcs
<1>1. CASE ResetClear(c)
  <2>1. SvcTypeOK'
    BY <1>0, <1>1, <1>pc, AdvanceType DEF ResetClear
  <2>2. conversation' \in [Chats -> ConversationRows]
    BY <1>1, ClearSessionType DEF ResetClear
  <2> QED BY <1>1, <2>1, <2>2 DEF ResetClear, StoreTypeOK, RunnerTypeOK, RunTypeOK,
             OrchestratorTypeOK, runnerVars
<1>2. CASE ResetReread(c)
  <2>1. conversation[c].gen \in Nat /\ conversation[c].session \in Nat
    BY DEF StoreTypeOK, ConversationRows
  <2> DEFINE new == [me EXCEPT !.pc = "upsert", !.gen = conversation[c].gen,
                               !.session = conversation[c].session]
  <2>2. new \in SvcRecords /\ new.pc = "upsert"
    BY <1>0, <2>1, <1>pc DEF SvcRecords
  <2>3. SvcTypeOK'
    BY <1>0, <1>2, <2>2 DEF ResetReread, SvcTypeOK
  <2> QED BY <1>2, <2>3 DEF ResetReread, StoreTypeOK, RunnerTypeOK, RunTypeOK,
             OrchestratorTypeOK, storeVars, runnerVars
<1>3. CASE WriteConversation(c)
  <2>1. SvcTypeOK'
    BY <1>0, <1>3, <1>pc, AdvanceType, DoneType DEF WriteConversation
  <2>2. conversation' \in [Chats -> ConversationRows]
    BY <1>0, <1>3, UpsertType DEF WriteConversation, NoSession
  <2>3. epoch' \in [Chats -> Nat]
    BY <1>3 DEF WriteConversation, OrchestratorTypeOK
  <2> QED BY <1>3, <2>1, <2>2, <2>3 DEF WriteConversation, StoreTypeOK, RunnerTypeOK,
             RunTypeOK, OrchestratorTypeOK, runnerVars
<1>4. ASSUME NEW j \in Jobs, NEW r \in Runs, CreateQueuedJob(c, j, r)
      PROVE  StoreTypeOK' /\ RunnerTypeOK' /\ OrchestratorTypeOK'
  <2>1. SvcTypeOK'
    BY <1>0, <1>4, DoneType DEF CreateQueuedJob
  <2>2. job' \in [Jobs -> JobRows]
    BY <1>0, <1>4, CreateJobType DEF CreateQueuedJob, JobStatuses
  <2>3. RunTypeOK'
    BY <1>0, <1>4, EnqueueType DEF CreateQueuedJob
  <2> QED BY <1>4, <2>1, <2>2, <2>3 DEF CreateQueuedJob, StoreTypeOK, RunnerTypeOK,
             OrchestratorTypeOK
<1>5. ASSUME NEW j \in Jobs, CreateWaitingJob(c, j)
      PROVE  StoreTypeOK' /\ RunnerTypeOK' /\ OrchestratorTypeOK'
  <2> DEFINE asked == [kind |-> "approval", gen |-> me.gen, session |-> me.session,
                       repo |-> repo]
             new == [me EXCEPT !.pc = "ask", !.job = j, !.payload = asked]
  <2>1. asked \in Payloads
    BY <1>0, OrchestratorBoundsAssumption DEF OrchestratorTypeOK, Payloads, CardKinds
  <2>2. new \in SvcRecords /\ new.job = j
    <3> HIDE DEF asked
    <3> QED BY <1>0, <1>pc, <2>1 DEF SvcRecords
  <2>3. svc' = [svc EXCEPT ![c] = new]
    BY <1>5 DEF CreateWaitingJob
  <2> HIDE DEF new, asked
  <2>4. SvcTypeOK'
    BY <1>0, <2>2, <2>3 DEF SvcTypeOK
  <2>5. job' \in [Jobs -> JobRows]
    BY <1>0, <1>5, CreateJobType DEF CreateWaitingJob, JobStatuses
  <2> QED BY <1>5, <2>4, <2>5 DEF CreateWaitingJob, StoreTypeOK, RunnerTypeOK,
             RunTypeOK, OrchestratorTypeOK, runnerVars
<1>6. CASE SaveApprovalRequest(c)
  <2>1. SvcTypeOK'
    BY <1>0, <1>6, <1>pc, AdvanceType DEF SaveApprovalRequest, Handling
  <2>2. approval' \in [Jobs -> ApprovalRows]
    BY <1>0, <1>6, ApprovalType DEF SaveApprovalRequest, Handling, ApprovalStatuses
  <2> QED BY <1>6, <2>1, <2>2 DEF SaveApprovalRequest, StoreTypeOK, RunnerTypeOK,
             RunTypeOK, OrchestratorTypeOK, runnerVars
<1>7. CASE SendApprovalCard(c)
  <2>1. SvcTypeOK'
    BY <1>0, <1>7, DoneType DEF SendApprovalCard
  <2>2. cards' \in [Jobs -> SUBSET CardKinds]
    BY <1>0, <1>7 DEF SendApprovalCard, Handling, OrchestratorTypeOK, CardKinds
  <2> QED BY <1>7, <2>1, <2>2 DEF SendApprovalCard, StoreTypeOK, RunnerTypeOK,
             RunTypeOK, OrchestratorTypeOK, storeVars, runnerVars
<1>8. CASE SaveDecision(c)
  <2>1. SvcTypeOK'
    BY <1>0, <1>8, <1>pc, AdvanceType DEF SaveDecision, Handling
  <2> DEFINE status == IF me.verdict = "confirmed" THEN "approved" ELSE me.verdict
  <2>2. status \in ApprovalStatuses
    BY <1>0 DEF Verdicts, ApprovalStatuses
  <2>3. SaveApproval(me.job, status, me.payload) /\ me.job \in Jobs
    BY <1>0, <1>8 DEF SaveDecision, Handling
  <2> HIDE DEF status
  <2>4. approval' \in [Jobs -> ApprovalRows]
    BY <1>0, <2>2, <2>3, ApprovalType
  <2> QED BY <1>8, <2>1, <2>4 DEF SaveDecision, StoreTypeOK, RunnerTypeOK,
             RunTypeOK, OrchestratorTypeOK, runnerVars
<1>9. CASE RejectJob(c)
  <2>1. SvcTypeOK'
    BY <1>0, <1>9, DoneType DEF RejectJob
  <2>2. job' \in [Jobs -> JobRows]
    BY <1>0, <1>9, UpdateJobType DEF RejectJob, Handling, JobStatuses
  <2> QED BY <1>9, <2>1, <2>2 DEF RejectJob, StoreTypeOK, RunnerTypeOK,
             RunTypeOK, OrchestratorTypeOK, runnerVars
<1>10. ASSUME NEW r \in Runs, StartDecidedJob(c, r)
       PROVE  StoreTypeOK' /\ RunnerTypeOK' /\ OrchestratorTypeOK'
  <2> DEFINE approving == me.verdict = "approved"
  <2>1. SvcTypeOK'
    BY <1>0, <1>10, DoneType DEF StartDecidedJob
  <2>2. /\ UpdateJob(me.job, IF approving THEN "approved" ELSE "queued")
        /\ Enqueue(r, me.job, c, approving, me.session, me.gen, epoch[c])
        /\ me.job \in Jobs /\ approving \in BOOLEAN
    BY <1>0, <1>10 DEF StartDecidedJob, Handling
  <2>3. (IF approving THEN "approved" ELSE "queued") \in JobStatuses
    BY DEF JobStatuses
  <2>4. job' \in [Jobs -> JobRows]
    BY <2>2, <2>3, UpdateJobType
  <2>5. RunTypeOK'
    BY <1>0, <2>2, EnqueueType
  <2> QED BY <1>10, <2>1, <2>4, <2>5 DEF StartDecidedJob, StoreTypeOK, RunnerTypeOK,
             OrchestratorTypeOK
<1> QED
  BY <1>1, <1>2, <1>3, <1>4, <1>5, <1>6, <1>7, <1>8, <1>9, <1>10 DEF HandlerStep

\* The question of a run to its requester, and its failure.
LEMMA QuestionType ==
  ASSUME StoreTypeOK, RunnerTypeOK, OrchestratorTypeOK, NEW r \in Runs,
         ReadQuestionContext(r) \/ SaveQuestion(r) \/ SendQuestion(r) \/ QuestionFails(r)
  PROVE  StoreTypeOK' /\ RunnerTypeOK' /\ OrchestratorTypeOK'
<1> DEFINE me == run[r]
<1>0. /\ RunTypeOK /\ SvcTypeOK
      /\ me \in RunRecords
      /\ me.pc # "idle" => me.job \in Jobs /\ me.chat \in Chats
      /\ me.payload \in Payloads
  BY DEF RunnerTypeOK, OrchestratorTypeOK, RunTypeOK, RunRecords
<1>pc. /\ {"question", "card"} \subseteq RunPcs
       /\ {"waiting_confirmation", "failed"} \subseteq Outcomes
  BY DEF RunPcs, Outcomes
<1>1. CASE ReadQuestionContext(r)
  <2> DEFINE asked == [kind |-> "requester_confirmation",
                       gen |-> conversation[me.chat].gen,
                       session |-> conversation[me.chat].session, repo |-> repo]
             new == [me EXCEPT !.payload = asked, !.pc = "question"]
  <2>1. me.job \in Jobs /\ me.chat \in Chats
    BY <1>0, <1>1 DEF ReadQuestionContext, At
  <2>2. asked \in Payloads
    BY <2>1, OrchestratorBoundsAssumption
       DEF StoreTypeOK, ConversationRows, OrchestratorTypeOK, Payloads, CardKinds
  <2>3. new \in RunRecords /\ new.job = me.job /\ new.chat = me.chat
    <3> HIDE DEF asked
    <3> QED BY <1>0, <1>pc, <2>2 DEF RunRecords
  <2>4. run' = [run EXCEPT ![r] = new]
    BY <1>1 DEF ReadQuestionContext
  <2> HIDE DEF new, asked
  <2>5. RunTypeOK'
    BY <1>0, <2>1, <2>3, <2>4 DEF RunTypeOK
  <2> QED BY <1>1, <2>5 DEF ReadQuestionContext, StoreTypeOK, RunnerTypeOK,
             SvcTypeOK, OrchestratorTypeOK, storeVars, orchestratorVars
<1>2. CASE SaveQuestion(r)
  <2>1. RunTypeOK'
    BY <1>0, <1>2, <1>pc, GotoType DEF SaveQuestion, At
  <2>2. approval' \in [Jobs -> ApprovalRows]
    BY <1>0, <1>2, ApprovalType DEF SaveQuestion, At, ApprovalStatuses
  <2> QED BY <1>2, <2>1, <2>2 DEF SaveQuestion, StoreTypeOK, RunnerTypeOK,
             SvcTypeOK, OrchestratorTypeOK, orchestratorVars
<1>3. CASE SendQuestion(r)
  <2>1. RunTypeOK'
    BY <1>0, <1>3, <1>pc, FinishType DEF SendQuestion, At
  <2>2. cards' \in [Jobs -> SUBSET CardKinds]
    BY <1>0, <1>3 DEF SendQuestion, At, OrchestratorTypeOK, CardKinds
  <2> QED BY <1>3, <2>1, <2>2 DEF SendQuestion, StoreTypeOK, RunnerTypeOK,
             SvcTypeOK, OrchestratorTypeOK, storeVars
<1>4. CASE QuestionFails(r)
  <2>1. RunTypeOK'
    BY <1>0, <1>4, <1>pc, FinishType DEF QuestionFails, At
  <2>2. cards' \in [Jobs -> SUBSET CardKinds] /\ faults' \in 0..MaxFaults
    BY <1>0, <1>4, RunnerBoundsAssumption
       DEF QuestionFails, CardFails, At, OrchestratorTypeOK, RunnerTypeOK, CardKinds
  <2> QED BY <1>4, <2>1, <2>2 DEF QuestionFails, StoreTypeOK, RunnerTypeOK,
             SvcTypeOK, OrchestratorTypeOK, storeVars
<1> QED BY <1>1, <1>2, <1>3, <1>4

\* The events, and the failures of a handler.
LEMMA EventType ==
  ASSUME StoreTypeOK, RunnerTypeOK, OrchestratorTypeOK, NEW c \in Chats,
         Event(c) \/ HandlerFails(c) \/ ApprovalCardFails(c)
  PROVE  StoreTypeOK' /\ RunnerTypeOK' /\ OrchestratorTypeOK'
<1>0. RunTypeOK /\ SvcTypeOK
  BY DEF RunnerTypeOK, OrchestratorTypeOK
<1>1. ASSUME NEW u \in Users, Register(c, u)
      PROVE  StoreTypeOK' /\ RunnerTypeOK' /\ OrchestratorTypeOK'
  BY <1>1 DEF Register, StoreTypeOK, RunnerTypeOK, RunTypeOK, SvcTypeOK,
              OrchestratorTypeOK, storeVars, runnerVars
<1>2. ASSUME NEW u \in Users, NEW message \in MessageKinds, ReceiveMessage(c, u, message)
      PROVE  StoreTypeOK' /\ RunnerTypeOK' /\ OrchestratorTypeOK'
  <2>1. OrchestratorTypeOK'
    BY <1>2, ReceiveMessageType
  <2> QED BY <1>2, <2>1 DEF ReceiveMessage, StoreTypeOK, RunnerTypeOK, RunTypeOK,
             storeVars, runnerVars
<1>3. ASSUME NEW u \in Users, NEW j \in Jobs, NEW kind \in CardKinds,
             NEW choice \in BOOLEAN, ReceiveAction(c, j, u, kind, choice)
      PROVE  StoreTypeOK' /\ RunnerTypeOK' /\ OrchestratorTypeOK'
  <2>1. OrchestratorTypeOK'
    BY <1>0, <1>3, ReceiveActionType
  <2> QED BY <1>3, <2>1 DEF ReceiveAction, StoreTypeOK, RunnerTypeOK, RunTypeOK,
             storeVars, runnerVars
<1>4. CASE HandlerFails(c)
  <2>1. SvcTypeOK'
    BY <1>0, <1>4, DoneType DEF HandlerFails
  <2>2. faults' \in 0..MaxFaults
    BY <1>4, RunnerBoundsAssumption DEF HandlerFails, RunnerTypeOK
  <2> QED BY <1>4, <2>1, <2>2 DEF HandlerFails, StoreTypeOK, RunnerTypeOK, RunTypeOK,
             OrchestratorTypeOK, storeVars
<1>5. CASE ApprovalCardFails(c)
  <2>1. SvcTypeOK'
    BY <1>0, <1>5, DoneType DEF ApprovalCardFails
  <2>2. faults' \in 0..MaxFaults
    BY <1>5, RunnerBoundsAssumption DEF ApprovalCardFails, CardFails, RunnerTypeOK
  <2>3. cards' \in [Jobs -> SUBSET CardKinds]
    BY <1>0, <1>5 DEF ApprovalCardFails, CardFails, Handling, SvcTypeOK,
                      OrchestratorTypeOK, CardKinds
  <2> QED BY <1>5, <2>1, <2>2, <2>3 DEF ApprovalCardFails, StoreTypeOK, RunnerTypeOK,
             RunTypeOK, OrchestratorTypeOK, storeVars
<1> QED BY <1>1, <1>2, <1>3, <1>4, <1>5 DEF Event

\* A new process on an empty database.
LEMMA TypeInit == Init => TypeOK
<1> SUFFICES ASSUME Init PROVE TypeOK
  OBVIOUS
<1>1. StoreTypeOK
  BY DEF Init, StoreInit, StoreTypeOK, NoConversation, NoJob, NoApproval, NoPayload,
         NoSession, ConversationRows, JobRows, ApprovalRows, Payloads, CardKinds,
         SessionStatuses
<1>2. RunnerTypeOK
  BY NoRecordTypes, RunnerBoundsAssumption DEF Init, RunnerInit, RunnerTypeOK, RunTypeOK
<1>3. OrchestratorTypeOK
  BY NoRecordTypes, OrchestratorBoundsAssumption
     DEF Init, OrchestratorInit, OrchestratorTypeOK, SvcTypeOK
<1> QED BY <1>1, <1>2, <1>3, MaxCrashesAssumption DEF Init, TypeOK

\* TypeOK is kept by every step of the gateway.
LEMMA TypeStep == TypeOK /\ [Next]_vars => TypeOK'
<1> SUFFICES ASSUME TypeOK, [Next]_vars PROVE TypeOK'
  OBVIOUS
<1>0. StoreTypeOK /\ RunnerTypeOK /\ OrchestratorTypeOK /\ RunTypeOK /\ SvcTypeOK
  BY DEF TypeOK, RunnerTypeOK, OrchestratorTypeOK
<1>1. CASE Process
  <2>1. ASSUME NEW c \in Chats, HandlerStep(c) PROVE StoreTypeOK' /\ RunnerTypeOK' /\ OrchestratorTypeOK'
    BY <1>0, <2>1, HandlerStepType
  <2>2. ASSUME NEW c \in Chats, Event(c) \/ HandlerFails(c) \/ ApprovalCardFails(c)
        PROVE  StoreTypeOK' /\ RunnerTypeOK' /\ OrchestratorTypeOK'
    BY <1>0, <2>2, EventType
  <2>3. ASSUME NEW r \in Runs, RunnerStep(r), UNCHANGED orchestratorVars PROVE StoreTypeOK' /\ RunnerTypeOK' /\ OrchestratorTypeOK'
    BY <1>0, <2>3, RunnerStepType DEF OrchestratorTypeOK, SvcTypeOK, orchestratorVars
  <2>4. ASSUME NEW r \in Runs,
               \/ ReadQuestionContext(r) \/ SaveQuestion(r) \/ SendQuestion(r)
               \/ QuestionFails(r)
        PROVE  StoreTypeOK' /\ RunnerTypeOK' /\ OrchestratorTypeOK'
    BY <1>0, <2>4, QuestionType
  <2>5. ASSUME NEW r \in Runs, RunStatementFails(r), UNCHANGED orchestratorVars
        PROVE  StoreTypeOK' /\ RunnerTypeOK' /\ OrchestratorTypeOK'
    <3>1. RunnerTypeOK'
      BY <1>0, <2>5, RunFaultType
    <3> QED BY <1>0, <2>5, <3>1 DEF RunStatementFails, StoreTypeOK, OrchestratorTypeOK,
               SvcTypeOK, storeVars, orchestratorVars
  <2>6. StoreTypeOK' /\ RunnerTypeOK' /\ OrchestratorTypeOK'
    BY <1>1, <2>1, <2>2, <2>3, <2>4, <2>5 DEF Process, RunStep, Fault
  <2> QED BY <1>1, <2>6 DEF Process, TypeOK
<1>2. CASE Environment
  BY <1>0, <1>2, OrchestratorBoundsAssumption
     DEF Environment, Commit, TypeOK, StoreTypeOK, RunnerTypeOK, RunTypeOK,
         OrchestratorTypeOK, SvcTypeOK, storeVars, runnerVars
<1>3. CASE Crash
  <2>1. RunTypeOK'
    BY <1>3, NoRecordTypes DEF Crash, RunTypeOK
  <2>2. SvcTypeOK'
    BY <1>3, NoRecordTypes DEF Crash, SvcTypeOK
  <2> DEFINE running == {q \in Runs : run[q].pc \in {"claude", "retry"}}
  <2>3. \A r \in running : run[r].job \in Jobs
    BY <1>0 DEF RunTypeOK
  <2>4. orphans' \in SUBSET Jobs
    <3>1. orphans' = orphans \cup {run[r].job : r \in running}
      BY <1>3 DEF Crash
    <3> QED BY <2>3, <3>1 DEF TypeOK
  <2>5. crashes' \in 0..MaxCrashes /\ up' \in BOOLEAN
    <3>1. up' = FALSE /\ crashes' = crashes + 1 /\ crashes < MaxCrashes
      BY <1>3 DEF Crash
    <3>2. crashes \in 0..MaxCrashes
      BY DEF TypeOK
    <3>3. crashes' \in 0..MaxCrashes
      BY <3>1, <3>2, MaxCrashesAssumption
    <3> QED BY <3>1, <3>3, Zenon
  <2>6. chatLock' \in [Chats -> Runs \cup {None}]
    BY <1>3 DEF Crash
  <2> QED BY <1>0, <1>3, <2>1, <2>2, <2>4, <2>5, <2>6
             DEF Crash, TypeOK, StoreTypeOK, RunnerTypeOK, OrchestratorTypeOK, storeVars
<1>4. CASE Restart
  <2>1. workerSession' \in [Jobs -> SessionStatuses]
    BY <1>0, <1>4 DEF Restart, MarkWorkerSessionsInterrupted, StoreTypeOK, SessionStatuses
  <2>2. job' \in [Jobs -> JobRows]
    BY <1>0, <1>4, InterruptType DEF Restart
  <2> QED BY <1>0, <1>4, <2>1, <2>2
             DEF Restart, TypeOK, StoreTypeOK, RunnerTypeOK, RunTypeOK,
                 OrchestratorTypeOK, SvcTypeOK, runnerVars, orchestratorVars
<1>5. ASSUME NEW j \in Jobs, OrphanExits(j) PROVE TypeOK'
  BY <1>0, <1>5 DEF OrphanExits, TypeOK, StoreTypeOK, RunnerTypeOK, RunTypeOK,
                    OrchestratorTypeOK, SvcTypeOK, storeVars, runnerVars, orchestratorVars
<1>6. CASE UNCHANGED vars
  BY <1>0, <1>6 DEF vars, TypeOK, StoreTypeOK, RunnerTypeOK, RunTypeOK,
                    OrchestratorTypeOK, SvcTypeOK, storeVars, runnerVars, orchestratorVars
<1> QED BY <1>1, <1>2, <1>3, <1>4, <1>5, <1>6 DEF Next

\* The tables, the goroutines' and handlers' local state and the locks hold what
\* the code's types and statuses allow: in particular a goroutine that is live
\* has a job and a chat, and a handler past createAndRunJob's insert has a job.
THEOREM TypeCorrect == Spec => []TypeOK
<1> QED BY TypeInit, TypeStep, PTL DEF Spec

-----------------------------------------------------------------------------
(* The locks.                                                              *)

\* The inductive invariant of the locks: that the set of tokens is finite lets
\* its size be counted without assuming that the goroutines are finitely many.
LockIndInv == TypeOK /\ LockInv /\ IsFiniteSet(readonlyTokens)

\* Steps that leave the chat locks and those who hold them as they were; and the
\* workspace lock and the tokens.
KeepsChats ==
  /\ UNCHANGED chatLock
  /\ \A q \in Runs : /\ run'[q].pc \in HasChat <=> run[q].pc \in HasChat
                     /\ run[q].pc \in HasChat => run'[q].chat = run[q].chat

KeepsSlots ==
  /\ UNCHANGED <<workspaceLock, readonlyTokens>>
  /\ \A q \in Runs : /\ run'[q].pc \in HasSlot <=> run[q].pc \in HasSlot
                     /\ run[q].pc \in HasSlot => /\ run'[q].job = run[q].job
                                                 /\ run'[q].mutating = run[q].mutating

KeepsHold == KeepsChats /\ KeepsSlots

\* Runs that stay on their side of the chat lock leave it as it should be.
LEMMA KeepsChatsKeepsLock ==
  ASSUME TypeOK, ChatLockHeld, KeepsChats
  PROVE  ChatLockHeld'
<1>1. \A c \in Chats : chatLock[c] # None => chatLock[c] \in Runs
  BY DEF TypeOK, RunnerTypeOK
<1> QED BY <1>1 DEF ChatLockHeld, KeepsChats

\* Runs that stay on their side of the slots leave the workspace lock and the
\* tokens as they should be.
LEMMA KeepsSlotsKeepsLocks ==
  ASSUME WorkspaceLockHeld, TokensHeld, KeepsSlots
  PROVE  WorkspaceLockHeld' /\ TokensHeld'
<1>1. WorkspaceLockHeld'
  BY DEF WorkspaceLockHeld, KeepsSlots
<1>2. TokensHeld'
  BY DEF TokensHeld, KeepsSlots
<1> QED BY <1>1, <1>2

\* Both together: a step that takes and gives back nothing keeps the locks.
LEMMA KeepsHoldKeepsLocks ==
  ASSUME TypeOK, LockInv, KeepsHold
  PROVE  LockInv'
BY KeepsChatsKeepsLock, KeepsSlotsKeepsLocks DEF LockInv, KeepsHold

\* The steps of a goroutine that has its slot and keeps it.
LEMMA SlotMove ==
  ASSUME RunTypeOK, NEW r \in Runs, run[r].pc \in HasSlot,
         UNCHANGED <<chatLock, workspaceLock, readonlyTokens>>,
         \/ \E pc \in HasSlot : Goto(r, pc)
         \/ \E outcome \in Outcomes : Finish(r, outcome)
         \/ \E result \in Results, session \in Nat : Answered(r, result, session)
         \/ Failed(r)
         \/ \E gen \in Nat : Retry(r, gen)
  PROVE  KeepsHold
<1>1. /\ {"update", "persist", "record", "retry"} \subseteq HasSlot
      /\ HasSlot \subseteq HasChat
  BY DEF HasSlot, HasChat, RunPcs
<1>2. PICK new : /\ run' = [run EXCEPT ![r] = new]
                 /\ new.pc \in HasSlot /\ new.job = run[r].job
                 /\ new.chat = run[r].chat /\ new.mutating = run[r].mutating
  <2>0. run[r] \in RunRecords
    BY DEF RunTypeOK
  <2>1. CASE \E pc \in HasSlot : Goto(r, pc)
    <3>1. PICK pc \in HasSlot : Goto(r, pc)
      BY <2>1
    <3> DEFINE new == [run[r] EXCEPT !.pc = pc]
    <3>2. run' = [run EXCEPT ![r] = new]
      BY <3>1 DEF Goto
    <3>3. /\ new.pc = pc /\ new.job = run[r].job
          /\ new.chat = run[r].chat /\ new.mutating = run[r].mutating
      BY <2>0 DEF RunRecords
    <3> QED BY <3>2, <3>3
  <2>2. CASE \E outcome \in Outcomes : Finish(r, outcome)
    BY <1>1, <2>0, <2>2 DEF Finish, RunRecords
  <2>3. CASE \E result \in Results, session \in Nat : Answered(r, result, session)
    <3>1. PICK result \in Results, session \in Nat : Answered(r, result, session)
      BY <2>3
    <3> DEFINE new == [run[r] EXCEPT !.result = result, !.session = session,
                                     !.pc = "persist"]
    <3>2. run' = [run EXCEPT ![r] = new]
      BY <3>1 DEF Answered
    <3>3. /\ new.pc = "persist" /\ new.job = run[r].job
          /\ new.chat = run[r].chat /\ new.mutating = run[r].mutating
      BY <2>0 DEF RunRecords
    <3> QED BY <1>1, <3>2, <3>3
  <2>4. CASE Failed(r)
    <3> DEFINE new == [run[r] EXCEPT !.result = "error", !.pc = "record"]
    <3>1. run' = [run EXCEPT ![r] = new]
      BY <2>4 DEF Failed
    <3>2. /\ new.pc = "record" /\ new.job = run[r].job
          /\ new.chat = run[r].chat /\ new.mutating = run[r].mutating
      BY <2>0 DEF RunRecords
    <3> QED BY <1>1, <3>1, <3>2
  <2>5. CASE \E gen \in Nat : Retry(r, gen)
    BY <1>1, <2>0, <2>5 DEF Retry, RunRecords
  <2> QED BY <2>1, <2>2, <2>3, <2>4, <2>5
<1>3. /\ run'[r] = new
      /\ \A q \in Runs \ {r} : run'[q] = run[q]
  BY <1>2 DEF RunTypeOK
<1> QED BY <1>1, <1>2, <1>3 DEF KeepsHold, KeepsChats, KeepsSlots

\* A new goroutine holds nothing.
LEMMA EnqueueKeepsHold ==
  ASSUME RunTypeOK, NEW r \in Runs, NEW j, NEW c, NEW mutating, NEW resume,
         NEW gen, NEW e, Enqueue(r, j, c, mutating, resume, gen, e),
         UNCHANGED <<chatLock, workspaceLock, readonlyTokens>>
  PROVE  KeepsHold
<1>1. "idle" \notin HasChat /\ "chat" \notin HasChat /\ HasSlot \subseteq HasChat
  BY DEF HasSlot, HasChat
<1>2. run[r].pc = "idle" /\ run'[r].pc = "chat"
  BY DEF Enqueue, At, RunTypeOK, NoRun
<1>3. \A q \in Runs \ {r} : run'[q] = run[q]
  BY DEF Enqueue, RunTypeOK
<1> QED BY <1>1, <1>2, <1>3 DEF KeepsHold, KeepsChats, KeepsSlots

\* The five steps that take or give back a lock.
LEMMA LockSteps ==
  ASSUME TypeOK, LockInv, IsFiniteSet(readonlyTokens), NEW r \in Runs,
         \/ AcquireChat(r) \/ AcquireWorkspace(r) \/ AcquireToken(r)
         \/ ReleaseSlot(r) \/ ReleaseChat(r)
  PROVE  LockInv' /\ IsFiniteSet(readonlyTokens')
<1> DEFINE me == run[r]
<1>0. /\ run \in [Runs -> RunRecords] /\ me \in RunRecords
      /\ me.pc # "idle" => me.job \in Jobs /\ me.chat \in Chats
      /\ chatLock \in [Chats -> Runs \cup {None}]
      /\ None \notin Runs /\ None \notin Jobs
      /\ \A q \in Runs : run[q].pc # "idle" => run[q].job \in Jobs
  BY RunsAssumption, NoneAssumption DEF TypeOK, RunnerTypeOK, RunTypeOK
<1>pc. /\ {"slot", "unlock", "start", "release"} \subseteq HasChat
       /\ {"start", "release"} \subseteq HasSlot /\ HasSlot \subseteq HasChat
       /\ {"slot", "unlock", "chat", "idle"} \cap HasSlot = {}
       /\ {"chat", "idle"} \cap HasChat = {}
  BY DEF HasSlot, HasChat, RunPcs
<1>inv. ChatLockHeld /\ WorkspaceLockHeld /\ TokensHeld
  BY DEF LockInv
<1>1. ASSUME NEW pc, Goto(r, pc)
      PROVE  /\ \A q \in Runs \ {r} : run'[q] = run[q]
             /\ run'[r].pc = pc /\ run'[r].job = me.job
             /\ run'[r].chat = me.chat /\ run'[r].mutating = me.mutating
  BY <1>0, <1>1 DEF Goto, RunRecords
<1>2. CASE AcquireChat(r)
  <2>1. /\ At(r, "chat") /\ Goto(r, "slot") /\ chatLock[me.chat] = None
        /\ chatLock' = [chatLock EXCEPT ![me.chat] = r]
        /\ UNCHANGED <<workspaceLock, readonlyTokens>>
    BY <1>2 DEF AcquireChat
  <2>2. ChatLockHeld'
    BY <1>0, <1>1, <1>pc, <1>inv, <2>1 DEF ChatLockHeld, At
  <2>3. KeepsSlots
    BY <1>1, <1>pc, <2>1 DEF KeepsSlots, At
  <2>4. WorkspaceLockHeld' /\ TokensHeld'
    BY <1>inv, <2>3, KeepsSlotsKeepsLocks
  <2> QED BY <2>1, <2>2, <2>4 DEF LockInv
<1>3. CASE AcquireWorkspace(r)
  <2>1. /\ At(r, "slot") /\ Goto(r, "start") /\ me.mutating /\ workspaceLock = None
        /\ workspaceLock' = me.job
        /\ UNCHANGED <<chatLock, readonlyTokens>>
    BY <1>3 DEF AcquireWorkspace
  <2>2. ChatLockHeld'
    <3>1. KeepsChats
      BY <1>1, <1>pc, <2>1 DEF KeepsChats, At
    <3> QED BY <1>inv, <3>1, KeepsChatsKeepsLock
  <2>3. WorkspaceLockHeld'
    <3>1. \A q \in Runs : ~(run[q].pc \in HasSlot /\ run[q].mutating)
      BY <1>0, <1>pc, <1>inv, <2>1 DEF WorkspaceLockHeld
    <3>2. run'[r].pc \in HasSlot /\ run'[r].mutating /\ workspaceLock' = run'[r].job
      BY <1>1, <1>pc, <2>1
    <3>3. \A q \in Runs : run'[q].pc \in HasSlot /\ run'[q].mutating => q = r
      BY <1>1, <2>1, <3>1
    <3> QED BY <3>2, <3>3 DEF WorkspaceLockHeld
  <2>4. TokensHeld'
    BY <1>0, <1>1, <1>pc, <1>inv, <2>1 DEF TokensHeld, At
  <2> QED BY <2>1, <2>2, <2>3, <2>4 DEF LockInv
<1>4. CASE AcquireToken(r)
  <2>1. /\ At(r, "slot") /\ Goto(r, "start") /\ ~me.mutating
        /\ Cardinality(readonlyTokens) < MaxReadOnly
        /\ readonlyTokens' = readonlyTokens \cup {r}
        /\ UNCHANGED <<chatLock, workspaceLock>>
    BY <1>4 DEF AcquireToken
  <2>2. ChatLockHeld'
    <3>1. KeepsChats
      BY <1>1, <1>pc, <2>1 DEF KeepsChats, At
    <3> QED BY <1>inv, <3>1, KeepsChatsKeepsLock
  <2>3. WorkspaceLockHeld'
    BY <1>0, <1>1, <1>pc, <1>inv, <2>1 DEF WorkspaceLockHeld, At
  <2>4. readonlyTokens' = {q \in Runs : run'[q].pc \in HasSlot /\ ~run'[q].mutating}
    BY <1>0, <1>1, <1>pc, <1>inv, <2>1 DEF TokensHeld, At
  <2>5. IsFiniteSet(readonlyTokens') /\ Cardinality(readonlyTokens') <= MaxReadOnly
    <3>1. r \notin readonlyTokens
      BY <1>pc, <1>inv, <2>1 DEF TokensHeld, At
    <3>2. Cardinality(readonlyTokens) \in Nat
      BY FS_CardinalityType
    <3>3. /\ IsFiniteSet(readonlyTokens \cup {r})
          /\ Cardinality(readonlyTokens \cup {r}) = Cardinality(readonlyTokens) + 1
      BY <3>1, FS_AddElement
    <3> QED BY <2>1, <3>2, <3>3, MaxReadOnlyAssumption
  <2> QED BY <2>2, <2>3, <2>4, <2>5 DEF LockInv, TokensHeld
<1>5. CASE ReleaseSlot(r)
  <2>1. /\ At(r, "release") /\ Goto(r, "unlock")
        /\ workspaceLock' = IF me.mutating /\ workspaceLock = me.job
                              THEN None ELSE workspaceLock
        /\ readonlyTokens' = readonlyTokens \ {r}
        /\ UNCHANGED chatLock
    BY <1>5 DEF ReleaseSlot
  <2>2. ChatLockHeld'
    <3>1. KeepsChats
      BY <1>1, <1>pc, <2>1 DEF KeepsChats, At
    <3> QED BY <1>inv, <3>1, KeepsChatsKeepsLock
  <2>3. WorkspaceLockHeld'
    <3>1. CASE me.mutating
      BY <1>0, <1>1, <1>pc, <1>inv, <2>1, <3>1 DEF WorkspaceLockHeld, At
    <3>2. CASE ~me.mutating
      BY <1>0, <1>1, <1>pc, <1>inv, <2>1, <3>2 DEF WorkspaceLockHeld, At
    <3> QED BY <3>1, <3>2
  <2>4. readonlyTokens' = {q \in Runs : run'[q].pc \in HasSlot /\ ~run'[q].mutating}
    BY <1>0, <1>1, <1>pc, <1>inv, <2>1 DEF TokensHeld, At
  <2>5. IsFiniteSet(readonlyTokens') /\ Cardinality(readonlyTokens') <= MaxReadOnly
    <3>1. /\ IsFiniteSet(readonlyTokens \ {r})
          /\ Cardinality(readonlyTokens \ {r}) <= Cardinality(readonlyTokens)
          /\ Cardinality(readonlyTokens \ {r}) \in Nat
      BY FS_Subset, FS_CardinalityType
    <3>2. Cardinality(readonlyTokens) \in Nat /\ Cardinality(readonlyTokens) <= MaxReadOnly
      BY <1>inv, FS_CardinalityType DEF TokensHeld
    <3> QED BY <2>1, <3>1, <3>2, MaxReadOnlyAssumption
  <2> QED BY <2>2, <2>3, <2>4, <2>5 DEF LockInv, TokensHeld
<1>6. CASE ReleaseChat(r)
  <2>1. /\ At(r, "unlock") /\ run' = [run EXCEPT ![r] = NoRun]
        /\ chatLock' = [chatLock EXCEPT ![me.chat] = None]
        /\ UNCHANGED <<workspaceLock, readonlyTokens>>
    BY <1>6 DEF ReleaseChat
  <2>2. /\ \A q \in Runs : run'[q] = IF q = r THEN NoRun ELSE run[q]
        /\ NoRun.pc = "idle"
    BY <1>0, <2>1, NoRecordTypes
  <2>3. ChatLockHeld'
    BY <1>0, <1>pc, <1>inv, <2>1, <2>2 DEF ChatLockHeld, At
  <2>4. WorkspaceLockHeld' /\ TokensHeld'
    BY <1>0, <1>pc, <1>inv, <2>1, <2>2 DEF WorkspaceLockHeld, TokensHeld, At
  <2> QED BY <2>1, <2>3, <2>4 DEF LockInv
<1> QED BY <1>2, <1>3, <1>4, <1>5, <1>6

\* Every other step of a goroutine is a move within its slot.
LEMMA RunKeepsHold ==
  ASSUME TypeOK, NEW r \in Runs,
         \/ StartJob(r) \/ RefreshContext(r) \/ ClaudeAnswers(r) \/ ClaudeFails(r)
         \/ ClaudeMissesSession(r) \/ ClearMissingSession(r) \/ PersistSession(r)
         \/ RecordWorker(r) \/ WriteOutcome(r) \/ RunStatementFails(r)
         \/ ReadQuestionContext(r) \/ SaveQuestion(r) \/ SendQuestion(r) \/ QuestionFails(r)
  PROVE  KeepsHold
<1> DEFINE me == run[r]
<1>0. RunTypeOK /\ me \in RunRecords /\ born \in Seq(Nat)
  BY DEF TypeOK, RunnerTypeOK, RunTypeOK
<1>pc. {"start", "refresh", "claude", "clear", "retry", "persist", "record", "ask",
        "question", "card", "update", "release"} \subseteq HasSlot
  BY DEF HasSlot, HasChat, RunPcs
<1>o. {"failed", "succeeded", "waiting_confirmation"} \subseteq Outcomes
  BY DEF Outcomes
<1>1. CASE StartJob(r)
  BY <1>0, <1>pc, <1>1, SlotMove DEF StartJob, At
<1>2. CASE RefreshContext(r)
  BY <1>0, <1>pc, <1>o, <1>2, SlotMove DEF RefreshContext, At
<1>3. CASE ClaudeAnswers(r)
  <2>1. PICK result \in {"answer", "question"} :
          \/ \E session \in {NoSession, me.resume} : Answered(r, result, session)
          \/ Answered(r, result, Len(born) + 1)
    BY <1>3 DEF ClaudeAnswers
  <2>2. result \in Results /\ me.resume \in Nat /\ NoSession \in Nat /\ Len(born) + 1 \in Nat
    BY <1>0 DEF Results, RunRecords, NoSession
  <2>3. me.pc \in HasSlot /\ UNCHANGED <<chatLock, workspaceLock, readonlyTokens>>
    BY <1>pc, <1>3 DEF ClaudeAnswers, At
  <2>4. \E session \in Nat : Answered(r, result, session)
    BY <2>1, <2>2
  <2> QED BY <1>0, <2>2, <2>3, <2>4, SlotMove
<1>4. CASE ClaudeFails(r)
  BY <1>0, <1>pc, <1>4, SlotMove DEF ClaudeFails, At
<1>5. CASE ClaudeMissesSession(r)
  BY <1>0, <1>pc, <1>5, SlotMove DEF ClaudeMissesSession, At
<1>6. CASE ClearMissingSession(r)
  <2>1. me.gen + 1 \in Nat
    BY <1>0 DEF RunRecords
  <2> QED BY <1>0, <1>pc, <1>6, <2>1, SlotMove DEF ClearMissingSession, At
<1>7. CASE PersistSession(r)
  BY <1>0, <1>pc, <1>7, SlotMove DEF PersistSession, At
<1>8. CASE RecordWorker(r)
  BY <1>0, <1>pc, <1>o, <1>8, SlotMove DEF RecordWorker, AfterRecord, At
<1>9. CASE WriteOutcome(r)
  BY <1>0, <1>pc, <1>9, SlotMove DEF WriteOutcome, At
<1>10. CASE RunStatementFails(r)
  <2>1. me.pc \in HasSlot /\ UNCHANGED <<chatLock, workspaceLock, readonlyTokens>>
    BY <1>pc, <1>10 DEF RunStatementFails, At
  <2>2. \/ \E pc \in {"release", "ask"} : Goto(r, pc)
        \/ \E outcome \in {"failed", "succeeded"} : Finish(r, outcome)
        \/ Failed(r)
    BY <1>10 DEF RunStatementFails, AfterRecord
  <2> QED BY <1>0, <1>pc, <1>o, <2>1, <2>2, SlotMove
<1>11. CASE ReadQuestionContext(r)
  <2>1. PICK payload : run' = [run EXCEPT ![r] = [@ EXCEPT !.payload = payload,
                                                          !.pc = "question"]]
    BY <1>11 DEF ReadQuestionContext
  <2>2. /\ me.pc \in HasSlot /\ me.pc \in HasChat
        /\ UNCHANGED <<chatLock, workspaceLock, readonlyTokens>>
    BY <1>pc, <1>11 DEF ReadQuestionContext, At, HasSlot
  <2>3. /\ run'[r].pc = "question" /\ run'[r].job = me.job
        /\ run'[r].chat = me.chat /\ run'[r].mutating = me.mutating
        /\ \A q \in Runs \ {r} : run'[q] = run[q]
    BY <1>0, <2>1 DEF RunTypeOK, RunRecords
  <2>4. "question" \in HasSlot /\ "question" \in HasChat
    BY DEF HasSlot, HasChat, RunPcs
  <2> QED BY <2>2, <2>3, <2>4 DEF KeepsHold, KeepsChats, KeepsSlots
<1>12. CASE SaveQuestion(r)
  BY <1>0, <1>pc, <1>12, SlotMove DEF SaveQuestion, At
<1>13. CASE SendQuestion(r)
  BY <1>0, <1>pc, <1>o, <1>13, SlotMove DEF SendQuestion, At
<1>14. CASE QuestionFails(r)
  BY <1>0, <1>pc, <1>o, <1>14, SlotMove DEF QuestionFails, At
<1> QED BY <1>1, <1>2, <1>3, <1>4, <1>5, <1>6, <1>7, <1>8, <1>9, <1>10, <1>11,
           <1>12, <1>13, <1>14

\* A handler takes and gives back none of the runner's locks: it starts a
\* goroutine, or leaves the goroutines alone.
LEMMA HandlerKeepsHold ==
  ASSUME TypeOK, NEW c \in Chats,
         HandlerStep(c) \/ Event(c) \/ HandlerFails(c) \/ ApprovalCardFails(c)
  PROVE  KeepsHold
<1>0. RunTypeOK
  BY DEF TypeOK, RunnerTypeOK
<1>1. ASSUME UNCHANGED <<run, chatLock, workspaceLock, readonlyTokens>>
      PROVE  KeepsHold
  BY <1>1 DEF KeepsHold, KeepsChats, KeepsSlots
<1>2. ASSUME NEW j \in Jobs, NEW r \in Runs, CreateQueuedJob(c, j, r)
      PROVE  KeepsHold
  BY <1>0, <1>2, EnqueueKeepsHold DEF CreateQueuedJob
<1>3. ASSUME NEW r \in Runs, StartDecidedJob(c, r)
      PROVE  KeepsHold
  BY <1>0, <1>3, EnqueueKeepsHold DEF StartDecidedJob
<1>4. CASE \/ ResetClear(c) \/ ResetReread(c) \/ WriteConversation(c)
           \/ \E j \in Jobs : CreateWaitingJob(c, j)
           \/ SaveApprovalRequest(c) \/ SendApprovalCard(c) \/ SaveDecision(c)
           \/ RejectJob(c)
  BY <1>1, <1>4 DEF ResetClear, ResetReread, WriteConversation, CreateWaitingJob,
     SaveApprovalRequest, SendApprovalCard, SaveDecision, RejectJob, runnerVars
<1>5. CASE Event(c)
  BY <1>1, <1>5 DEF Event, Register, ReceiveMessage, ReceiveAction, runnerVars
<1>6. CASE HandlerFails(c) \/ ApprovalCardFails(c)
  BY <1>1, <1>6 DEF HandlerFails, ApprovalCardFails
<1> QED BY <1>2, <1>3, <1>4, <1>5, <1>6 DEF HandlerStep

\* LockIndInv is inductive.
LEMMA LockStep == LockIndInv /\ [Next]_vars => LockIndInv'
<1> SUFFICES ASSUME LockIndInv, [Next]_vars PROVE LockIndInv'
  OBVIOUS
<1>0. TypeOK /\ LockInv /\ IsFiniteSet(readonlyTokens) /\ TypeOK'
  BY TypeStep DEF LockIndInv
<1>1. ASSUME KeepsHold PROVE LockIndInv'
  <2>1. LockInv' /\ readonlyTokens' = readonlyTokens
    BY <1>0, <1>1, KeepsHoldKeepsLocks DEF KeepsHold, KeepsSlots
  <2> QED BY <1>0, <2>1 DEF LockIndInv
<1>2. ASSUME NEW r \in Runs, RunnerStep(r) PROVE LockIndInv'
  <2>1. CASE \/ AcquireChat(r) \/ AcquireWorkspace(r) \/ AcquireToken(r)
             \/ ReleaseSlot(r) \/ ReleaseChat(r)
    BY <1>0, <2>1, LockSteps DEF LockIndInv
  <2>2. CASE \/ StartJob(r) \/ RefreshContext(r) \/ ClaudeAnswers(r) \/ ClaudeFails(r)
             \/ ClaudeMissesSession(r) \/ ClearMissingSession(r) \/ PersistSession(r)
             \/ RecordWorker(r) \/ WriteOutcome(r)
    BY <1>0, <1>1, <2>2, RunKeepsHold
  <2> QED BY <1>2, <2>1, <2>2 DEF RunnerStep
<1>3. ASSUME NEW r \in Runs,
             \/ ReadQuestionContext(r) \/ SaveQuestion(r) \/ SendQuestion(r)
             \/ QuestionFails(r) \/ RunStatementFails(r)
      PROVE  LockIndInv'
  BY <1>0, <1>1, <1>3, RunKeepsHold
<1>4. ASSUME NEW c \in Chats,
             HandlerStep(c) \/ Event(c) \/ HandlerFails(c) \/ ApprovalCardFails(c)
      PROVE  LockIndInv'
  BY <1>0, <1>1, <1>4, HandlerKeepsHold
<1>5. CASE Process
  BY <1>2, <1>3, <1>4, <1>5 DEF Process, RunStep, Fault
<1>6. CASE Crash
  <2>1. /\ \A r \in Runs : run'[r].pc = "idle"
        /\ \A c \in Chats : chatLock'[c] = None
        /\ workspaceLock' = None /\ readonlyTokens' = {}
    BY <1>6, NoRecordTypes DEF Crash
  <2>2. "idle" \notin HasChat /\ "idle" \notin HasSlot
    BY DEF HasSlot, HasChat
  <2>3. ChatLockHeld' /\ WorkspaceLockHeld'
    BY <2>1, <2>2 DEF ChatLockHeld, WorkspaceLockHeld
  <2>4. TokensHeld' /\ IsFiniteSet(readonlyTokens')
    BY <2>1, <2>2, FS_EmptySet, MaxReadOnlyAssumption DEF TokensHeld
  <2> QED BY <1>0, <2>3, <2>4 DEF LockIndInv, LockInv
<1>7. CASE \/ Environment \/ Restart \/ UNCHANGED vars
           \/ \E j \in Jobs : OrphanExits(j)
  <2>1. UNCHANGED <<run, chatLock, workspaceLock, readonlyTokens>>
    BY <1>7 DEF Environment, Commit, Restart, OrphanExits, vars, runnerVars
  <2> QED BY <1>1, <2>1 DEF KeepsHold, KeepsChats, KeepsSlots
<1> QED BY <1>5, <1>6, <1>7 DEF Next

LEMMA LockInit == Init => LockIndInv
<1> SUFFICES ASSUME Init PROVE LockIndInv
  OBVIOUS
<1>1. TypeOK
  BY TypeInit
<1>2. /\ \A r \in Runs : run[r].pc = "idle"
      /\ \A c \in Chats : chatLock[c] = None
      /\ workspaceLock = None /\ readonlyTokens = {}
  BY NoRecordTypes DEF Init, RunnerInit
<1>3. "idle" \notin HasChat /\ "idle" \notin HasSlot
  BY DEF HasSlot, HasChat
<1>4. ChatLockHeld /\ WorkspaceLockHeld
  BY <1>2, <1>3 DEF ChatLockHeld, WorkspaceLockHeld
<1>5. TokensHeld /\ IsFiniteSet(readonlyTokens)
  BY <1>2, <1>3, FS_EmptySet, MaxReadOnlyAssumption DEF TokensHeld
<1> QED BY <1>1, <1>4, <1>5 DEF LockIndInv, LockInv

\* The keyed lock, the workspace lock and the tokens always agree with the
\* goroutines that hold them: one run of a chat at a time, one mutating run at a
\* time, at most MaxReadOnlyWorkers read-only runs, and nothing stays taken after
\* the goroutine that took it, on every path out of Enqueue's closure.
THEOREM LocksAgree == Spec => []LockInv
<1>1. LockIndInv => LockInv
  BY DEF LockIndInv
<1> QED BY <1>1, LockInit, LockStep, PTL DEF Spec

-----------------------------------------------------------------------------
(* No mutation starts without the approval of a registered user.  What     *)
(* makes it inductive is that consent is passed on: from a click to its    *)
(* handler, from there to the run, from the run to the question it asks,   *)
(* from the question's card to the next click.                             *)

Created(j) == job[j].status # "none"

\* Claude may work on the job.
Allowed(j) == job[j].requiresApproval => j \in consented

RunConsent(r) ==
  /\ Created(run[r].job)
  /\ run[r].mutating => run[r].job \in consented
  /\ Allowed(run[r].job)
  /\ run[r].pc = "update" => run[r].outcome # "none"

RunsConsent == \A r \in Runs : run[r].pc # "idle" => RunConsent(r)

RequestsConsent ==
  \A j \in Jobs : approval[j].status # "none" =>
    /\ Created(j)
    /\ approval[j].payload.kind = "requester_confirmation" => Allowed(j)

WithJob == {"ask", "card", "decide", "apply"}

HandlerConsent(c) ==
  /\ Created(svc[c].job)
  /\ svc[c].payload.kind = "requester_confirmation" => Allowed(svc[c].job)
  /\ svc[c].pc \in {"decide", "apply"} =>
       /\ svc[c].verdict = "approved" => svc[c].job \in consented
       /\ svc[c].verdict = "confirmed" => Allowed(svc[c].job)

HandlersConsent == \A c \in Chats : svc[c].pc \in WithJob => HandlerConsent(c)

ConsentInv == TypeOK /\ RunsConsent /\ RequestsConsent /\ HandlersConsent

-----------------------------------------------------------------------------
(* What the parts need of a step.                                          *)

\* A job that exists stays the kind of job it is, and consent is not taken back.
KeepsJobs ==
  /\ \A j \in Jobs : Created(j) => /\ job'[j].status # "none"
                                   /\ job'[j].requiresApproval = job[j].requiresApproval
  /\ consented \subseteq consented'

\* The goroutines go on with the job they have, or return.
KeepsRuns ==
  \A r \in Runs : run'[r].pc # "idle" =>
    /\ run[r].pc # "idle"
    /\ run'[r].job = run[r].job /\ run'[r].mutating = run[r].mutating
    /\ run'[r].pc = "update" => run'[r].outcome # "none"

\* The handlers stay where they are or come to an end, except perhaps one.
KeepsHandlers(c) ==
  \A d \in Chats \ {c} : svc'[d] = svc[d] \/ svc'[d].pc \notin WithJob

LEMMA RunsPass ==
  ASSUME TypeOK, RunsConsent, KeepsJobs, KeepsRuns
  PROVE  RunsConsent'
  <1>1. \A r \in Runs : run[r].pc # "idle" => run[r].job \in Jobs
    BY DEF TypeOK, RunnerTypeOK, RunTypeOK
  <1> QED BY <1>1 DEF RunsConsent, RunConsent, KeepsJobs, KeepsRuns, Created, Allowed

LEMMA RequestsPass ==
  ASSUME RequestsConsent, KeepsJobs, UNCHANGED approval
  PROVE  RequestsConsent'
  BY DEF RequestsConsent, KeepsJobs, Created, Allowed

LEMMA HandlersPass ==
  ASSUME TypeOK, HandlersConsent, KeepsJobs, NEW c \in Chats, KeepsHandlers(c),
         svc'[c].pc \in WithJob => HandlerConsent(c)'
  PROVE  HandlersConsent'
  <1>1. \A d \in Chats : svc[d].pc \in WithJob => svc[d].job \in Jobs
    BY DEF TypeOK, OrchestratorTypeOK, SvcTypeOK, WithJob
  <1>2. ASSUME NEW d \in Chats, svc'[d].pc \in WithJob PROVE HandlerConsent(d)'
    <2>1. CASE d = c
      BY <1>2, <2>1
    <2>2. CASE d # c
      BY <1>1, <1>2, <2>2
      DEF KeepsHandlers, HandlersConsent, HandlerConsent, KeepsJobs, Created, Allowed
    <2> QED BY <2>1, <2>2
  <1> QED BY <1>2 DEF HandlersConsent

\* When no handler moves.
LEMMA HandlersStay ==
  ASSUME TypeOK, HandlersConsent, KeepsJobs, UNCHANGED svc
  PROVE  HandlersConsent'
  <1>1. \A d \in Chats : svc[d].pc \in WithJob => svc[d].job \in Jobs
    BY DEF TypeOK, OrchestratorTypeOK, SvcTypeOK, WithJob
  <1> QED BY <1>1 DEF HandlersConsent, HandlerConsent, KeepsJobs, Created, Allowed

-----------------------------------------------------------------------------
(* The statements on table jobs.                                           *)

LEMMA JobsStay ==
  ASSUME UNCHANGED <<job, consented>>
  PROVE  KeepsJobs
  BY DEF KeepsJobs, Created

LEMMA CreateKeeps ==
  ASSUME TypeOK, NEW j \in Jobs, job[j].status = "none", NEW c, NEW u, NEW status,
         NEW requires, CreateJob(j, c, u, status, requires), UNCHANGED consented
  PROVE  KeepsJobs
  BY DEF TypeOK, StoreTypeOK, CreateJob, KeepsJobs, Created

LEMMA UpdateKeeps ==
  ASSUME TypeOK, NEW j \in Jobs, NEW status, status # "none", UpdateJob(j, status),
         UNCHANGED consented
  PROVE  KeepsJobs
  BY DEF TypeOK, StoreTypeOK, JobRows, UpdateJob, KeepsJobs, Created

LEMMA InterruptKeeps ==
  ASSUME TypeOK, InterruptInProgressJobs, UNCHANGED consented
  PROVE  KeepsJobs
  BY DEF TypeOK, StoreTypeOK, JobRows, InterruptInProgressJobs, KeepsJobs, Created

-----------------------------------------------------------------------------
(* The goroutines.                                                         *)

\* The moves of a goroutine that is there.
LEMMA MoveKeeps ==
  ASSUME RunTypeOK, RunsConsent, NEW r \in Runs, run[r].pc # "idle",
         \/ \E pc \in RunPcs \ {"update"} : Goto(r, pc)
         \/ \E outcome \in Outcomes \ {"none"} : Finish(r, outcome)
         \/ \E result \in Results, session \in Nat : Answered(r, result, session)
         \/ Failed(r)
         \/ \E gen \in Nat : Retry(r, gen)
         \/ run' = [run EXCEPT ![r] = NoRun]
  PROVE  KeepsRuns
  <1>1. run \in [Runs -> RunRecords] /\ run[r] \in RunRecords
    BY DEF RunTypeOK
  <1>2. CASE \E pc \in RunPcs \ {"update"} : Goto(r, pc)
    BY <1>1, <1>2 DEF Goto, KeepsRuns, RunsConsent, RunConsent, RunRecords
  <1>new. ASSUME NEW new, run' = [run EXCEPT ![r] = new], new.job = run[r].job,
                 new.mutating = run[r].mutating, new.pc = "update" => new.outcome # "none"
          PROVE  KeepsRuns
    BY <1>1, <1>new DEF KeepsRuns, RunsConsent, RunConsent
  <1>3. ASSUME NEW outcome \in Outcomes \ {"none"}, Finish(r, outcome) PROVE KeepsRuns
    <2> DEFINE new == [run[r] EXCEPT !.outcome = outcome, !.pc = "update"]
    <2>1. new.job = run[r].job /\ new.mutating = run[r].mutating /\ new.outcome # "none"
      BY <1>1 DEF RunRecords
    <2>2. run' = [run EXCEPT ![r] = new]
      BY <1>3 DEF Finish
    <2> QED BY <1>new, <2>1, <2>2
  <1>4. ASSUME NEW result \in Results, NEW session \in Nat, Answered(r, result, session)
        PROVE  KeepsRuns
    <2> DEFINE new == [run[r] EXCEPT !.result = result, !.session = session, !.pc = "persist"]
    <2>1. new.job = run[r].job /\ new.mutating = run[r].mutating /\ new.pc = "persist"
      BY <1>1 DEF RunRecords
    <2>2. run' = [run EXCEPT ![r] = new]
      BY <1>4 DEF Answered
    <2> QED BY <1>new, <2>1, <2>2
  <1>5. CASE Failed(r)
    <2> DEFINE new == [run[r] EXCEPT !.result = "error", !.pc = "record"]
    <2>1. new.job = run[r].job /\ new.mutating = run[r].mutating /\ new.pc = "record"
      BY <1>1 DEF RunRecords
    <2>2. run' = [run EXCEPT ![r] = new]
      BY <1>5 DEF Failed
    <2> QED BY <1>new, <2>1, <2>2
  <1>6. ASSUME NEW gen \in Nat, Retry(r, gen) PROVE KeepsRuns
    <2> DEFINE new == [run[r] EXCEPT !.resume = NoSession, !.gen = gen, !.pc = "retry"]
    <2>1. new.job = run[r].job /\ new.mutating = run[r].mutating /\ new.pc = "retry"
      BY <1>1 DEF RunRecords
    <2>2. run' = [run EXCEPT ![r] = new]
      BY <1>6 DEF Retry
    <2> QED BY <1>new, <2>1, <2>2
  <1>7. CASE run' = [run EXCEPT ![r] = NoRun]
    BY <1>1, <1>7, NoRecordTypes DEF KeepsRuns, RunsConsent, RunConsent
  <1> QED BY <1>2, <1>3, <1>4, <1>5, <1>6, <1>7

LEMMA RunsStay ==
  ASSUME RunsConsent, UNCHANGED run
  PROVE  KeepsRuns
  BY DEF KeepsRuns, RunsConsent, RunConsent

\* What is left to show of a step of a goroutine that writes no approval.
LEMMA RunStepPasses ==
  ASSUME ConsentInv, KeepsJobs, KeepsRuns, UNCHANGED <<approval, svc>>
  PROVE  RunsConsent' /\ RequestsConsent' /\ HandlersConsent'
  BY RunsPass, RequestsPass, HandlersStay DEF ConsentInv

LEMMA RunnerPasses ==
  ASSUME ConsentInv, NEW r \in Runs,
         RunnerStep(r) \/ RunStatementFails(r), UNCHANGED orchestratorVars
  PROVE  RunsConsent' /\ RequestsConsent' /\ HandlersConsent'
<1> DEFINE me == run[r]
<1>0. /\ TypeOK /\ RunsConsent /\ RunTypeOK /\ me \in RunRecords /\ born \in Seq(Nat)
      /\ me.pc # "idle" => me.job \in Jobs
      /\ UNCHANGED <<svc, consented>>
  BY DEF ConsentInv, TypeOK, RunnerTypeOK, RunTypeOK, orchestratorVars
<1>pc. {"slot", "start", "refresh", "claude", "clear", "retry", "persist", "record", "ask",
        "question", "card", "release", "unlock"} \subseteq RunPcs \ {"update"}
  BY DEF RunPcs
<1>o. {"failed", "succeeded", "waiting_confirmation"} \subseteq Outcomes \ {"none"}
  BY DEF Outcomes
<1>1. ASSUME UNCHANGED <<job, approval>>, KeepsRuns
      PROVE  RunsConsent' /\ RequestsConsent' /\ HandlersConsent'
  BY <1>0, <1>1, JobsStay, RunStepPasses
<1>2. CASE AcquireChat(r) \/ AcquireWorkspace(r) \/ AcquireToken(r) \/ ReleaseSlot(r)
  <2>1. UNCHANGED <<job, approval>> /\ me.pc # "idle" /\ \E pc \in {"slot", "start", "unlock"} : Goto(r, pc)
    BY <1>2 DEF AcquireChat, AcquireWorkspace, AcquireToken, ReleaseSlot, At, storeVars
  <2> QED BY <1>0, <1>1, <1>pc, <2>1, MoveKeeps
<1>3. CASE ReleaseChat(r)
  BY <1>0, <1>1, <1>3, MoveKeeps DEF ReleaseChat, At, storeVars
<1>4. CASE StartJob(r)
  <2>1. KeepsJobs /\ UNCHANGED approval
    BY <1>0, <1>4, UpdateKeeps DEF StartJob, At
  <2>2. KeepsRuns
    BY <1>0, <1>pc, <1>4, MoveKeeps DEF StartJob, At
  <2> QED BY <1>0, <2>1, <2>2, RunStepPasses
<1>5. CASE RefreshContext(r)
  BY <1>0, <1>1, <1>pc, <1>o, <1>5, MoveKeeps DEF RefreshContext, At, storeVars
<1>6. CASE ClaudeAnswers(r)
  <2>1. PICK result \in {"answer", "question"} :
          \/ \E session \in {NoSession, me.resume} : Answered(r, result, session)
          \/ Answered(r, result, Len(born) + 1)
    BY <1>6 DEF ClaudeAnswers
  <2>2. result \in Results /\ me.resume \in Nat /\ NoSession \in Nat /\ Len(born) + 1 \in Nat
    BY <1>0 DEF Results, RunRecords, NoSession
  <2>3. me.pc # "idle" /\ UNCHANGED <<job, approval>>
    BY <1>6 DEF ClaudeAnswers, At, storeVars
  <2>4. \E session \in Nat : Answered(r, result, session)
    BY <2>1, <2>2
  <2> QED BY <1>0, <1>1, <2>2, <2>3, <2>4, MoveKeeps
<1>7. CASE ClaudeFails(r)
  BY <1>0, <1>1, <1>7, MoveKeeps DEF ClaudeFails, At, storeVars
<1>8. CASE ClaudeMissesSession(r)
  BY <1>0, <1>1, <1>pc, <1>8, MoveKeeps DEF ClaudeMissesSession, At, storeVars
<1>9. CASE ClearMissingSession(r)
  <2>1. me.gen + 1 \in Nat
    BY <1>0 DEF RunRecords
  <2> QED BY <1>0, <1>1, <1>9, <2>1, MoveKeeps DEF ClearMissingSession, At
<1>10. CASE PersistSession(r)
  BY <1>0, <1>1, <1>pc, <1>10, MoveKeeps DEF PersistSession, At
<1>11. CASE RecordWorker(r)
  BY <1>0, <1>1, <1>pc, <1>o, <1>11, MoveKeeps DEF RecordWorker, AfterRecord, At
<1>12. CASE WriteOutcome(r)
  <2>1. me.outcome # "none"
    BY <1>0, <1>12 DEF WriteOutcome, At, RunsConsent, RunConsent
  <2>2. KeepsJobs /\ UNCHANGED approval
    BY <1>0, <1>12, <2>1, UpdateKeeps DEF WriteOutcome, At
  <2>3. KeepsRuns
    BY <1>0, <1>pc, <1>12, MoveKeeps DEF WriteOutcome, At
  <2> QED BY <1>0, <2>2, <2>3, RunStepPasses
<1>13. CASE RunStatementFails(r)
  <2>1. me.pc # "idle" /\ UNCHANGED <<job, approval>>
    BY <1>13 DEF RunStatementFails, At, storeVars
  <2>2. \/ \E pc \in {"release", "ask"} : Goto(r, pc)
        \/ \E outcome \in {"failed", "succeeded"} : Finish(r, outcome)
        \/ Failed(r)
    BY <1>13 DEF RunStatementFails, AfterRecord
  <2> QED BY <1>0, <1>1, <1>pc, <1>o, <2>1, <2>2, MoveKeeps
<1> QED BY <1>2, <1>3, <1>4, <1>5, <1>6, <1>7, <1>8, <1>9, <1>10, <1>11, <1>12, <1>13
        DEF RunnerStep

\* The question a run asks is about a job Claude may work on.
LEMMA QuestionPasses ==
  ASSUME ConsentInv, NEW r \in Runs,
         ReadQuestionContext(r) \/ SaveQuestion(r) \/ SendQuestion(r) \/ QuestionFails(r)
  PROVE  RunsConsent' /\ RequestsConsent' /\ HandlersConsent'
<1> DEFINE me == run[r]
<1>0. /\ TypeOK /\ RunsConsent /\ RunTypeOK /\ me \in RunRecords
      /\ me.pc # "idle" => me.job \in Jobs
      /\ run \in [Runs -> RunRecords] /\ approval \in [Jobs -> ApprovalRows]
  BY DEF ConsentInv, TypeOK, RunnerTypeOK, RunTypeOK, StoreTypeOK
<1>1. /\ "card" \in RunPcs \ {"update"}
      /\ {"failed", "waiting_confirmation"} \subseteq Outcomes \ {"none"}
  BY DEF RunPcs, Outcomes
<1>2. UNCHANGED <<job, consented, svc>>
  BY DEF ReadQuestionContext, SaveQuestion, SendQuestion, QuestionFails, storeVars,
         orchestratorVars
<1>3. KeepsJobs
  BY <1>2, JobsStay
<1>4. CASE ReadQuestionContext(r)
  <2>1. PICK payload : run' = [run EXCEPT ![r] = [@ EXCEPT !.payload = payload,
                                                          !.pc = "question"]]
    BY <1>4 DEF ReadQuestionContext
  <2>2. me.pc # "idle" /\ UNCHANGED approval
    BY <1>4 DEF ReadQuestionContext, At, storeVars
  <2>3. KeepsRuns
    BY <1>0, <2>1, <2>2 DEF KeepsRuns, RunsConsent, RunConsent, RunRecords
  <2> QED BY <1>2, <1>3, <2>2, <2>3, RunStepPasses
<1>5. CASE SaveQuestion(r)
  <2>1. me.pc # "idle" /\ SaveApproval(me.job, "pending", me.payload) /\ Goto(r, "card")
    BY <1>5 DEF SaveQuestion, At
  <2>2. KeepsRuns
    BY <1>0, <1>1, <2>1, MoveKeeps
  <2>3. Created(me.job) /\ Allowed(me.job)
    BY <2>1, <1>0 DEF RunsConsent, RunConsent
  <2>4. RequestsConsent'
    BY <1>0, <1>2, <2>1, <2>3
    DEF ConsentInv, RequestsConsent, Created, Allowed, SaveApproval, ApprovalRows
  <2> QED BY <1>0, <1>2, <1>3, <2>2, <2>4, RunsPass, HandlersStay DEF ConsentInv
<1>6. CASE SendQuestion(r) \/ QuestionFails(r)
  <2>1. /\ me.pc # "idle" /\ UNCHANGED approval
        /\ \E outcome \in {"failed", "waiting_confirmation"} : Finish(r, outcome)
    BY <1>6 DEF SendQuestion, QuestionFails, At, storeVars
  <2>2. KeepsRuns
    BY <1>0, <1>1, <2>1, MoveKeeps
  <2> QED BY <1>2, <1>3, <2>1, <2>2, RunStepPasses
<1> QED BY <1>4, <1>5, <1>6

-----------------------------------------------------------------------------
(* The handlers.                                                           *)

\* The steps of a handler that touch neither jobs nor approvals.
LEMMA HandlerMoves ==
  ASSUME ConsentInv, NEW c \in Chats,
         \/ Event(c) \/ ResetClear(c) \/ ResetReread(c) \/ WriteConversation(c)
         \/ SendApprovalCard(c) \/ HandlerFails(c) \/ ApprovalCardFails(c)
  PROVE  RunsConsent' /\ RequestsConsent' /\ HandlersConsent'
<1>0. /\ TypeOK /\ RunsConsent /\ RequestsConsent /\ HandlersConsent
      /\ svc \in [Chats -> SvcRecords] /\ approval \in [Jobs -> ApprovalRows]
  BY DEF ConsentInv, TypeOK, OrchestratorTypeOK, SvcTypeOK, StoreTypeOK
<1>1. UNCHANGED <<job, approval, run>>
  BY DEF Event, Register, ReceiveMessage, ReceiveAction, ResetClear, ResetReread,
         WriteConversation, SendApprovalCard, HandlerFails, ApprovalCardFails, storeVars,
         runnerVars
<1>2. consented \subseteq consented'
  BY DEF Event, Register, ReceiveMessage, ReceiveAction, ResetClear, ResetReread,
         WriteConversation, SendApprovalCard, HandlerFails, ApprovalCardFails
<1>3. KeepsJobs
  BY <1>1, <1>2 DEF KeepsJobs, Created
<1>4. RunsConsent' /\ RequestsConsent'
  BY <1>0, <1>1, <1>3, RunsStay, RunsPass, RequestsPass
<1>5. ASSUME KeepsHandlers(c), svc'[c].pc \in WithJob => HandlerConsent(c)'
      PROVE  HandlersConsent'
  BY <1>0, <1>3, <1>5, HandlersPass
<1>6. ASSUME NEW new, svc' = [svc EXCEPT ![c] = new]
      PROVE  KeepsHandlers(c) /\ svc'[c] = new
  BY <1>0, <1>6 DEF KeepsHandlers
<1>7. CASE \E j \in Jobs, u \in Users, kind \in CardKinds, choice \in BOOLEAN :
             ReceiveAction(c, j, u, kind, choice)
  <2>1. PICK j \in Jobs, u \in Users, kind \in CardKinds, choice \in BOOLEAN :
               ReceiveAction(c, j, u, kind, choice)
    BY <1>7
  <2>2. PICK verdict \in Verdict(j, u, kind, choice) :
          /\ svc' = [svc EXCEPT ![c] =
                       [NoSvc EXCEPT !.pc = "decide", !.verdict = verdict, !.job = j,
                                     !.gen = conversation[c].gen,
                                     !.session = conversation[c].session,
                                     !.payload = approval[j].payload]]
          /\ consented' = IF verdict = "approved" /\ u \in registered
                            THEN consented \cup {j} ELSE consented
    BY <2>1 DEF ReceiveAction
  <2>3. approval[j].status = "pending" /\ approval[j].payload.kind = kind
    BY <2>1 DEF ReceiveAction, Decidable
  <2>4. /\ verdict = "approved" => u \in registered
        /\ verdict = "confirmed" => kind = "requester_confirmation"
    BY DEF Verdict, CardKinds
  <2>5. /\ svc'[c].job = j /\ svc'[c].verdict = verdict
        /\ svc'[c].payload = approval[j].payload
    BY <1>6, <2>2 DEF NoSvc
  <2>6. HandlerConsent(c)'
    BY <1>0, <1>1, <1>2, <2>2, <2>3, <2>4, <2>5
    DEF HandlerConsent, RequestsConsent, Created, Allowed
  <2> QED BY <1>4, <1>5, <1>6, <2>2, <2>6
<1>8. CASE UNCHANGED svc
  BY <1>0, <1>3, <1>4, <1>8, HandlersStay
<1>9. ASSUME NEW new, svc' = [svc EXCEPT ![c] = new], new.pc \notin WithJob
      PROVE  HandlersConsent'
  BY <1>5, <1>6, <1>9
<1>10. ASSUME NEW pc, pc \notin WithJob, Advance(c, pc) PROVE HandlersConsent'
  <2>1. svc' = [svc EXCEPT ![c] = [svc[c] EXCEPT !.pc = pc]]
    BY <1>10 DEF Advance
  <2>2. [svc[c] EXCEPT !.pc = pc].pc = pc
    BY <1>0 DEF SvcRecords
  <2> QED BY <1>9, <1>10, <2>1, <2>2
<1>11. ASSUME Done(c) PROVE HandlersConsent'
  BY <1>9, <1>11, NoRecordTypes DEF Done, WithJob
<1>12. CASE \E u \in Users : Register(c, u)
  BY <1>8, <1>12 DEF Register
<1>13. CASE \E u \in Users, message \in MessageKinds : ReceiveMessage(c, u, message)
  <2>1. PICK u \in Users, message \in MessageKinds : ReceiveMessage(c, u, message)
    BY <1>13
  <2> DEFINE fresh == message = "reset" /\ ~conversation[c].exists
             new == [NoSvc EXCEPT !.pc = IF message = "reset" /\ ~fresh THEN "clear" ELSE "upsert",
                                  !.message = message, !.user = u,
                                  !.gen = conversation[c].gen + (IF fresh THEN 1 ELSE 0),
                                  !.session = conversation[c].session]
  <2>2. svc' = [svc EXCEPT ![c] = new]
    BY <2>1 DEF ReceiveMessage
  <2>3. new.pc = IF message = "reset" /\ ~fresh THEN "clear" ELSE "upsert"
    BY DEF NoSvc
  <2>4. new.pc \notin WithJob
    BY <2>3 DEF WithJob
  <2> QED BY <1>4, <1>9, <2>2, <2>4
<1>14. CASE ResetClear(c)
  BY <1>4, <1>10, <1>14 DEF ResetClear, WithJob
<1>15. CASE ResetReread(c)
  <2> DEFINE new == [svc[c] EXCEPT !.pc = "upsert", !.gen = conversation[c].gen,
                                   !.session = conversation[c].session]
  <2>1. svc' = [svc EXCEPT ![c] = new]
    BY <1>15 DEF ResetReread
  <2>2. new.pc = "upsert"
    BY <1>0 DEF SvcRecords
  <2>3. new.pc \notin WithJob
    BY <2>2 DEF WithJob
  <2> QED BY <1>4, <1>9, <2>1, <2>3
<1>16. CASE WriteConversation(c)
  BY <1>4, <1>10, <1>11, <1>16 DEF WriteConversation, WithJob
<1>17. CASE SendApprovalCard(c) \/ HandlerFails(c) \/ ApprovalCardFails(c)
  BY <1>4, <1>11, <1>17 DEF SendApprovalCard, HandlerFails, ApprovalCardFails
<1> QED BY <1>7, <1>12, <1>13, <1>14, <1>15, <1>16, <1>17 DEF Event

\* The jobs a handler creates, decides and enqueues.
LEMMA HandlerWrites ==
  ASSUME ConsentInv, NEW c \in Chats,
         \/ \E j \in Jobs : \/ \E r \in Runs : CreateQueuedJob(c, j, r)
                           \/ CreateWaitingJob(c, j)
         \/ SaveApprovalRequest(c) \/ SaveDecision(c) \/ RejectJob(c)
         \/ \E r \in Runs : StartDecidedJob(c, r)
  PROVE  RunsConsent' /\ RequestsConsent' /\ HandlersConsent'
<1> DEFINE me == svc[c]
<1>0. /\ TypeOK /\ RunsConsent /\ RequestsConsent /\ HandlersConsent
      /\ svc \in [Chats -> SvcRecords] /\ me \in SvcRecords
      /\ approval \in [Jobs -> ApprovalRows] /\ job \in [Jobs -> JobRows]
      /\ run \in [Runs -> RunRecords]
      /\ \A q \in Runs : run[q].pc # "idle" => run[q].job \in Jobs
      /\ me.pc \in WithJob => me.job \in Jobs /\ HandlerConsent(c)
  BY DEF ConsentInv, TypeOK, OrchestratorTypeOK, SvcTypeOK, StoreTypeOK, WithJob,
         HandlersConsent, RunnerTypeOK, RunTypeOK
<1>1. UNCHANGED consented
  BY DEF CreateQueuedJob, CreateWaitingJob, SaveApprovalRequest, SaveDecision, RejectJob,
         StartDecidedJob
<1>2. ASSUME NEW new, svc' = [svc EXCEPT ![c] = new]
      PROVE  KeepsHandlers(c) /\ svc'[c] = new
  BY <1>0, <1>2 DEF KeepsHandlers
<1>3. ASSUME KeepsJobs, Done(c) PROVE HandlersConsent'
  BY <1>0, <1>2, <1>3, HandlersPass, NoRecordTypes DEF Done, WithJob
<1>4. ASSUME KeepsJobs, NEW r \in Runs, NEW j \in Jobs, NEW mutating \in BOOLEAN, NEW resume,
             NEW gen, NEW e, Enqueue(r, j, c, mutating, resume, gen, e),
             Created(j)', mutating => j \in consented, Allowed(j)'
      PROVE  RunsConsent'
  <2>1. /\ run'[r].job = j /\ run'[r].mutating = mutating /\ run'[r].pc = "chat"
        /\ \A q \in Runs \ {r} : run'[q] = run[q]
    BY <1>0, <1>4 DEF Enqueue, NoRun
  <2>2. RunConsent(r)'
    BY <1>1, <1>4, <2>1 DEF RunConsent
  <2>3. ASSUME NEW q \in Runs \ {r}, run[q].pc # "idle" PROVE RunConsent(q)'
    BY <1>0, <1>4, <2>1, <2>3 DEF RunsConsent, RunConsent, KeepsJobs, Created, Allowed
  <2> QED BY <2>1, <2>2, <2>3 DEF RunsConsent
<1>5. ASSUME NEW j \in Jobs, NEW r \in Runs, CreateQueuedJob(c, j, r)
      PROVE  RunsConsent' /\ RequestsConsent' /\ HandlersConsent'
  <2>1. KeepsJobs /\ UNCHANGED approval /\ Done(c)
    BY <1>0, <1>5, CreateKeeps DEF CreateQueuedJob
  <2>2. Created(j)' /\ Allowed(j)'
    BY <1>0, <1>5 DEF CreateQueuedJob, CreateJob, Created, Allowed
  <2>3. Enqueue(r, j, c, FALSE, me.session, me.gen, epoch[c])
    BY <1>5 DEF CreateQueuedJob
  <2>4. RunsConsent'
    BY <1>4, <2>1, <2>2, <2>3
  <2> QED BY <1>0, <1>3, <2>1, <2>4, RequestsPass
<1>6. ASSUME NEW j \in Jobs, CreateWaitingJob(c, j)
      PROVE  RunsConsent' /\ RequestsConsent' /\ HandlersConsent'
  <2>1. KeepsJobs /\ UNCHANGED <<approval, run>>
    BY <1>0, <1>6, CreateKeeps DEF CreateWaitingJob, runnerVars
  <2> DEFINE new == [me EXCEPT !.pc = "ask", !.job = j,
                               !.payload = [kind |-> "approval", gen |-> me.gen,
                                            session |-> me.session, repo |-> repo]]
  <2>2. svc' = [svc EXCEPT ![c] = new]
    BY <1>6 DEF CreateWaitingJob
  <2>3. new.pc = "ask" /\ new.job = j /\ new.payload.kind = "approval"
    BY <1>0 DEF SvcRecords
  <2>4. Created(j)'
    BY <1>0, <1>6 DEF CreateWaitingJob, CreateJob, Created
  <2>5. HandlerConsent(c)' /\ KeepsHandlers(c)
    BY <1>2, <2>2, <2>3, <2>4 DEF HandlerConsent, Created
  <2>6. RunsConsent' /\ RequestsConsent'
    BY <1>0, <2>1, RunsStay, RunsPass, RequestsPass
  <2> QED BY <1>0, <2>1, <2>5, <2>6, HandlersPass
<1>7. CASE SaveApprovalRequest(c) \/ SaveDecision(c)
  <2>1. PICK status \in ApprovalStatuses, pc \in {"card", "apply"} :
          /\ SaveApproval(me.job, status, me.payload) /\ Advance(c, pc)
          /\ pc = "apply" => me.pc = "decide"
    <3>1. me.verdict \in {"invalidated", "rejected", "approved", "confirmed"}
      BY <1>0 DEF SvcRecords, Verdicts
    <3> DEFINE status == IF me.verdict = "confirmed" THEN "approved" ELSE me.verdict
    <3>2. CASE SaveApprovalRequest(c)
      BY <3>2 DEF SaveApprovalRequest, ApprovalStatuses
    <3>3. CASE SaveDecision(c)
      <4>1. SaveApproval(me.job, status, me.payload) /\ Advance(c, "apply") /\ me.pc = "decide"
        BY <3>3 DEF SaveDecision, Handling
      <4>2. status \in ApprovalStatuses
        BY <3>1 DEF ApprovalStatuses
      <4> QED BY <4>1, <4>2
    <3> QED BY <1>7, <3>2, <3>3
  <2>2. me.pc \in WithJob /\ UNCHANGED <<job, run>>
    BY <1>7 DEF SaveApprovalRequest, SaveDecision, Handling, WithJob, runnerVars
  <2>3. KeepsJobs
    BY <1>1, <2>2, JobsStay
  <2>4. HandlerConsent(c)
    BY <1>0, <2>2
  <2>5. RequestsConsent'
    BY <1>0, <1>1, <2>1, <2>2, <2>4
    DEF RequestsConsent, HandlerConsent, Created, Allowed, SaveApproval, ApprovalRows
  <2> DEFINE new == [me EXCEPT !.pc = pc]
  <2>6. /\ svc' = [svc EXCEPT ![c] = new]
        /\ new.pc = pc /\ new.job = me.job /\ new.payload = me.payload
        /\ new.verdict = me.verdict
    BY <1>0, <2>1 DEF Advance, SvcRecords
  <2>7. KeepsHandlers(c) /\ svc'[c] = new
    BY <1>2, <2>6
  <2>8. HandlerConsent(c)'
    BY <1>1, <2>1, <2>2, <2>4, <2>6, <2>7 DEF HandlerConsent, Created, Allowed
  <2> QED BY <1>0, <2>2, <2>3, <2>5, <2>7, <2>8, RunsStay, RunsPass, HandlersPass
<1>8. CASE RejectJob(c)
  <2>1. me.pc \in WithJob /\ UNCHANGED <<approval, run>> /\ Done(c)
    BY <1>8 DEF RejectJob, Handling, WithJob, runnerVars
  <2>2. KeepsJobs
    BY <1>0, <1>1, <1>8, <2>1, UpdateKeeps DEF RejectJob
  <2> QED BY <1>0, <1>3, <2>1, <2>2, RunsStay, RunsPass, RequestsPass
<1>9. ASSUME NEW r \in Runs, StartDecidedJob(c, r)
      PROVE  RunsConsent' /\ RequestsConsent' /\ HandlersConsent'
  <2> DEFINE approving == me.verdict = "approved"
  <2>1. /\ me.pc = "apply" /\ me.verdict \in {"approved", "confirmed"}
        /\ UpdateJob(me.job, IF approving THEN "approved" ELSE "queued")
        /\ Enqueue(r, me.job, c, approving, me.session, me.gen, epoch[c])
        /\ Done(c) /\ UNCHANGED approval
    BY <1>9 DEF StartDecidedJob, Handling
  <2>2. me.job \in Jobs /\ HandlerConsent(c)
    BY <1>0, <2>1 DEF WithJob
  <2>3. KeepsJobs
    BY <1>0, <1>1, <2>1, <2>2, UpdateKeeps
  <2>4. Created(me.job) /\ (approving => me.job \in consented) /\ Allowed(me.job)
    BY <2>1, <2>2 DEF HandlerConsent, Allowed
  <2>5. job'[me.job].status # "none" /\ (job'[me.job].requiresApproval => me.job \in consented')
    BY <1>1, <2>2, <2>3, <2>4 DEF KeepsJobs, Created, Allowed
  <2> DEFINE j == me.job
  <2>6. RunsConsent'
    <3>1. /\ run'[r].job = j /\ run'[r].mutating = approving /\ run'[r].pc = "chat"
          /\ \A q \in Runs \ {r} : run'[q] = run[q]
      BY <1>0, <2>1 DEF Enqueue, NoRun
    <3>2. RunConsent(r)'
      BY <1>1, <2>4, <2>5, <3>1 DEF RunConsent, Created, Allowed
    <3>3. ASSUME NEW q \in Runs \ {r}, run[q].pc # "idle" PROVE RunConsent(q)'
      BY <1>0, <2>3, <3>1, <3>3 DEF RunsConsent, RunConsent, KeepsJobs, Created, Allowed
    <3> QED BY <3>1, <3>2, <3>3 DEF RunsConsent
  <2> QED BY <1>0, <1>3, <2>1, <2>3, <2>6, RequestsPass
<1> QED BY <1>5, <1>6, <1>7, <1>8, <1>9

-----------------------------------------------------------------------------
(* The invariant.                                                          *)

LEMMA ConsentInit == Init => ConsentInv
<1> SUFFICES ASSUME Init PROVE ConsentInv
  OBVIOUS
<1>1. TypeOK
  BY TypeInit
<1>2. /\ \A r \in Runs : run[r].pc = "idle"
      /\ \A c \in Chats : svc[c].pc = "idle"
      /\ \A j \in Jobs : approval[j].status = "none"
  BY NoRecordTypes DEF Init, RunnerInit, OrchestratorInit, StoreInit, NoApproval
<1> QED BY <1>1, <1>2 DEF ConsentInv, RunsConsent, RequestsConsent, HandlersConsent, WithJob

LEMMA ConsentStep == ConsentInv /\ [Next]_vars => ConsentInv'
<1> SUFFICES ASSUME ConsentInv, [Next]_vars PROVE ConsentInv'
  OBVIOUS
<1>0. TypeOK /\ RunsConsent /\ RequestsConsent /\ HandlersConsent /\ TypeOK'
  BY TypeStep DEF ConsentInv
<1>1. ASSUME RunsConsent', RequestsConsent', HandlersConsent' PROVE ConsentInv'
  BY <1>0, <1>1 DEF ConsentInv
<1>2. ASSUME NEW r \in Runs,
             \/ (RunnerStep(r) \/ RunStatementFails(r)) /\ UNCHANGED orchestratorVars
             \/ ReadQuestionContext(r) \/ SaveQuestion(r) \/ SendQuestion(r) \/ QuestionFails(r)
      PROVE  ConsentInv'
  BY <1>1, <1>2, RunnerPasses, QuestionPasses
<1>3. ASSUME NEW c \in Chats,
             HandlerStep(c) \/ Event(c) \/ HandlerFails(c) \/ ApprovalCardFails(c)
      PROVE  ConsentInv'
  BY <1>1, <1>3, HandlerMoves, HandlerWrites DEF HandlerStep
<1>4. CASE Process
  BY <1>2, <1>3, <1>4 DEF Process, RunStep, Fault
<1>5. CASE Crash
  <2>1. /\ \A r \in Runs : run'[r].pc = "idle"
        /\ \A c \in Chats : svc'[c].pc = "idle"
        /\ UNCHANGED <<job, approval, consented>>
    BY <1>5, NoRecordTypes DEF Crash, storeVars
  <2>2. RequestsConsent'
    BY <1>0, <2>1, JobsStay, RequestsPass
  <2>3. RunsConsent' /\ HandlersConsent'
    BY <2>1 DEF RunsConsent, HandlersConsent, WithJob
  <2> QED BY <1>1, <2>2, <2>3
<1>6. CASE Restart
  <2>1. KeepsJobs /\ UNCHANGED <<approval, run, svc>>
    BY <1>0, <1>6, InterruptKeeps DEF Restart, runnerVars, orchestratorVars
  <2> QED BY <1>0, <1>1, <2>1, RunsStay, RunStepPasses
<1>7. CASE Environment \/ UNCHANGED vars \/ \E j \in Jobs : OrphanExits(j)
  <2>1. UNCHANGED <<job, approval, run, svc, consented>>
    BY <1>7 DEF Environment, Commit, OrphanExits, vars, storeVars, runnerVars, orchestratorVars
  <2> QED BY <1>0, <1>1, <2>1, JobsStay, RunsStay, RunStepPasses
<1> QED BY <1>4, <1>5, <1>6, <1>7 DEF Next

\* However messages, clicks, questions, failures, crashes and restarts fall:
\* Claude is started for a mutation, and a run is given the workspace lock, only
\* for a job that a registered user has approved.
THEOREM MutationsAreApproved == Spec => []NoUnapprovedMutation
<1>1. ConsentInv => NoUnapprovedMutation
  BY DEF ConsentInv, RunsConsent, RunConsent, Allowed, NoUnapprovedMutation, Live
<1> QED BY <1>1, ConsentInit, ConsentStep, PTL DEF Spec
=============================================================================
