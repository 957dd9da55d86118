---------------------------- MODULE SessionProofs ----------------------------
(***************************************************************************)
(* Proof, for every value of the constants, that a cleared conversation    *)
(* stays cleared as long as Claude has not lost a session.  What makes it  *)
(* inductive is the generation: a goroutine that belongs to the row's      *)
(* generation was enqueued in the row's epoch, and none does from the      *)
(* clear of a reset to its last write.                                     *)
(***************************************************************************)
EXTENDS GatewayProofs

\* No session, or one that a request of that epoch has created.
Made(session, e) == session # NoSession => session \in 1..Len(born) /\ born[session] = e

\* The clear of a reset is written, its last write is not.
Closing(c) == svc[c].pc = "reread" \/ (svc[c].pc = "upsert" /\ svc[c].message = "reset")

\* A handler that has read the row, and is going to write or to enqueue with
\* what it has read, has the row's generation.
HandlerSession(c) ==
  LET me == svc[c]
      row == conversation[c]
  IN /\ me.pc \in {"clear", "reread"} => me.message = "reset" /\ row.exists
     /\ me.pc = "upsert" => IF me.message = "reset"
                              THEN row.exists => me.gen = row.gen
                              ELSE me.gen = row.gen /\ Made(me.session, epoch[c])
     /\ me.pc \in {"create", "decide", "apply"} => row.exists /\ me.gen = row.gen

RunSession(r) ==
  LET me == run[r]
      row == conversation[me.chat]
  IN /\ me.pc \notin {"clear", "retry"}
     /\ row.exists /\ me.gen <= row.gen
     /\ me.gen = row.gen => me.epoch = epoch[me.chat] /\ ~Closing(me.chat)
     /\ me.pc = "persist" /\ me.session # me.resume => Made(me.session, me.epoch)

SessionParts ==
  /\ \A c \in Chats : Made(conversation[c].session, epoch[c]) /\ HandlerSession(c)
  /\ \A r \in Runs : run[r].pc # "idle" => RunSession(r)
  /\ \A j \in Jobs : job[j].chat \in Chats => conversation[job[j].chat].exists

SessionInv == TypeOK /\ (gone = {} => SessionParts)

-----------------------------------------------------------------------------
(* What the parts need of a step.                                          *)

\* Sessions keep the epoch they were created in.
BornGrows ==
  \A s \in 1..Len(born) : s \in 1..Len(born') /\ born'[s] = born[s]

LEMMA BornStays ==
  ASSUME UNCHANGED born
  PROVE  BornGrows
BY DEF BornGrows

LEMMA BornAppend ==
  ASSUME TypeOK, NEW e \in Nat, born' = Append(born, e)
  PROVE  BornGrows /\ Len(born) + 1 \in 1..Len(born') /\ born'[Len(born) + 1] = e
<1>1. born \in Seq(Nat)
  BY DEF TypeOK, RunnerTypeOK
<1> QED BY <1>1 DEF BornGrows

LEMMA SessionTypes ==
  ASSUME TypeOK
  PROVE  /\ run \in [Runs -> RunRecords] /\ svc \in [Chats -> SvcRecords]
         /\ conversation \in [Chats -> ConversationRows] /\ epoch \in [Chats -> Nat]
         /\ job \in [Jobs -> JobRows] /\ approval \in [Jobs -> ApprovalRows]
         /\ born \in Seq(Nat) /\ Len(born) \in Nat
         /\ \A r \in Runs : run[r].pc # "idle" => run[r].job \in Jobs /\ run[r].chat \in Chats
BY DEF TypeOK, RunnerTypeOK, RunTypeOK, StoreTypeOK, OrchestratorTypeOK, SvcTypeOK

\* A goroutine moves on, and writes at most a session of its own epoch.
LEMMA RunKeepsSessions ==
  ASSUME TypeOK, SessionParts, BornGrows, NEW r \in Runs, run[r].pc # "idle", NEW new,
         run' = [run EXCEPT ![r] = new],
         new.pc # "idle" =>
           /\ new.chat = run[r].chat /\ new.gen = run[r].gen /\ new.epoch = run[r].epoch
           /\ new.pc \notin {"clear", "retry"}
           /\ new.pc = "persist" /\ new.session # new.resume /\ new.session # NoSession =>
                new.session \in 1..Len(born') /\ born'[new.session] = new.epoch,
         UNCHANGED <<svc, epoch>>, \A j \in Jobs : job'[j].chat = job[j].chat,
         \A c \in Chats :
           /\ conversation'[c].exists = conversation[c].exists
           /\ conversation'[c].gen = conversation[c].gen
           /\ conversation'[c].session # conversation[c].session =>
                Made(conversation'[c].session, epoch[c])
  PROVE  SessionParts'
<1>1. run'[r] = new /\ \A q \in Runs \ {r} : run'[q] = run[q]
  BY SessionTypes
<1>2. ASSUME NEW c \in Chats
      PROVE  Made(conversation[c].session, epoch[c])' /\ HandlerSession(c)'
  BY <1>2 DEF SessionParts, HandlerSession, Made, BornGrows
<1>3. RunSession(r)
  BY DEF SessionParts
<1>4. ASSUME new.pc # "idle" PROVE RunSession(r)'
  BY <1>1, <1>3, <1>4, SessionTypes DEF RunSession, Made, Closing
<1>5. ASSUME NEW q \in Runs \ {r}, run[q].pc # "idle" PROVE RunSession(q)'
  <2>1. RunSession(q) /\ run'[q] = run[q]
    BY <1>1, <1>5 DEF SessionParts
  <2>2. PICK d \in Chats : d = run[q].chat
    BY <1>5, SessionTypes
  <2>3. /\ conversation'[d].exists = conversation[d].exists
        /\ conversation'[d].gen = conversation[d].gen
        /\ epoch'[d] = epoch[d] /\ svc'[d] = svc[d]
    OBVIOUS
  <2> QED BY <2>1, <2>2, <2>3 DEF RunSession, Made, BornGrows, Closing
<1>6. \A j \in Jobs : job'[j].chat \in Chats => conversation'[job'[j].chat].exists
  BY DEF SessionParts
<1> QED BY <1>1, <1>2, <1>4, <1>5, <1>6 DEF SessionParts

\* A handler moves on without writing the conversation.
LEMMA HandlerKeepsSessions ==
  ASSUME TypeOK, SessionParts, NEW c \in Chats, NEW new, svc' = [svc EXCEPT ![c] = new],
         UNCHANGED <<conversation, epoch, born>>, HandlerSession(c)',
         Closing(c)' => Closing(c) \/ ~conversation[c].exists,
         \A j \in Jobs : \/ job'[j].chat = job[j].chat
                         \/ job'[j].chat = c /\ conversation[c].exists,
         \A r \in Runs : \/ run'[r] = run[r]
                         \/ /\ run'[r].pc = "chat" /\ run'[r].chat = c
                            /\ run'[r].gen = conversation[c].gen /\ run'[r].epoch = epoch[c]
                            /\ conversation[c].exists /\ ~Closing(c)
  PROVE  SessionParts'
<1>1. svc'[c] = new /\ \A d \in Chats \ {c} : svc'[d] = svc[d]
  BY SessionTypes
<1>2. \A d \in Chats : Made(conversation[d].session, epoch[d])'
  BY DEF SessionParts, Made
<1>3. ASSUME NEW d \in Chats \ {c} PROVE HandlerSession(d)' /\ (Closing(d)' <=> Closing(d))
  BY <1>1, <1>3 DEF SessionParts, HandlerSession, Made, Closing
<1>4. ASSUME NEW r \in Runs, run'[r].pc # "idle" PROVE RunSession(r)'
  <2>1. CASE run'[r] = run[r]
    <3>1. PICK d \in Chats : d = run[r].chat
      BY <1>4, <2>1, SessionTypes
    <3>2. RunSession(r) /\ (Closing(d)' => Closing(d) \/ ~conversation[d].exists)
      BY <1>3, <1>4, <2>1 DEF SessionParts
    <3>3. run[r].gen = conversation[d].gen => ~Closing(d)'
      BY <3>1, <3>2 DEF RunSession
    <3> QED BY <2>1, <3>1, <3>2, <3>3 DEF RunSession, Made, Closing
  <2>2. CASE run'[r] # run[r]
    <3>1. conversation[c].gen \in Nat
      BY SessionTypes DEF ConversationRows
    <3>2. ~Closing(c)'
      BY <2>2
    <3> QED BY <1>4, <2>2, <3>1, <3>2 DEF RunSession, Closing
  <2> QED BY <2>1, <2>2
<1>5. \A j \in Jobs : job'[j].chat \in Chats => conversation'[job'[j].chat].exists
  BY DEF SessionParts
<1> QED BY <1>2, <1>3, <1>4, <1>5 DEF SessionParts

-----------------------------------------------------------------------------
(* The goroutines.                                                         *)

\* The rows stay, but for sessions of their own epoch.
RowsKept ==
  \A c \in Chats :
    /\ conversation'[c].exists = conversation[c].exists
    /\ conversation'[c].gen = conversation[c].gen
    /\ conversation'[c].session # conversation[c].session =>
         Made(conversation'[c].session, epoch[c])

JobChatsKept == \A j \in Jobs : job'[j].chat = job[j].chat

LEMMA UpdateKeepsChats ==
  ASSUME TypeOK, NEW j \in Jobs, NEW status, UpdateJob(j, status)
  PROVE  JobChatsKept
BY SessionTypes DEF UpdateJob, JobChatsKept, JobRows

\* The moves that bring no session.
LEMMA MoveKeepsSessions ==
  ASSUME TypeOK, SessionParts, NEW r \in Runs, run[r].pc # "idle",
         \/ \E pc \in RunPcs \ {"idle", "clear", "retry", "persist"} : Goto(r, pc)
         \/ \E outcome : Finish(r, outcome)
         \/ Failed(r)
         \/ run' = [run EXCEPT ![r] = NoRun],
         RowsKept, JobChatsKept, UNCHANGED <<svc, epoch, born>>
  PROVE  SessionParts'
<1>1. run[r] \in RunRecords
  BY SessionTypes
<1>2. ASSUME NEW new, run' = [run EXCEPT ![r] = new],
             new.pc # "idle" => /\ new.chat = run[r].chat /\ new.gen = run[r].gen
                                /\ new.epoch = run[r].epoch
                                /\ new.pc \notin {"clear", "retry", "persist"}
      PROVE  SessionParts'
  BY <1>2, BornStays, RunKeepsSessions DEF RowsKept, JobChatsKept
<1>3. ASSUME NEW pc \in RunPcs \ {"idle", "clear", "retry", "persist"}, Goto(r, pc)
      PROVE  SessionParts'
  <2> DEFINE new == [run[r] EXCEPT !.pc = pc]
  <2>1. /\ run' = [run EXCEPT ![r] = new]
        /\ new.chat = run[r].chat /\ new.gen = run[r].gen /\ new.epoch = run[r].epoch
        /\ new.pc = pc
    BY <1>1, <1>3 DEF Goto, RunRecords
  <2> HIDE DEF new
  <2> QED BY <1>2, <2>1
<1>4. ASSUME NEW outcome, Finish(r, outcome) PROVE SessionParts'
  <2> DEFINE new == [run[r] EXCEPT !.outcome = outcome, !.pc = "update"]
  <2>1. /\ run' = [run EXCEPT ![r] = new]
        /\ new.chat = run[r].chat /\ new.gen = run[r].gen /\ new.epoch = run[r].epoch
        /\ new.pc = "update"
    BY <1>1, <1>4 DEF Finish, RunRecords
  <2> HIDE DEF new
  <2> QED BY <1>2, <2>1
<1>5. CASE Failed(r)
  <2> DEFINE new == [run[r] EXCEPT !.result = "error", !.pc = "record"]
  <2>1. /\ run' = [run EXCEPT ![r] = new]
        /\ new.chat = run[r].chat /\ new.gen = run[r].gen /\ new.epoch = run[r].epoch
        /\ new.pc = "record"
    BY <1>1, <1>5 DEF Failed, RunRecords
  <2> HIDE DEF new
  <2> QED BY <1>2, <2>1
<1>6. CASE run' = [run EXCEPT ![r] = NoRun]
  BY <1>2, <1>6, NoRecordTypes
<1> QED BY <1>3, <1>4, <1>5, <1>6

\* Claude answers, with the session it has resumed or one it has created.
LEMMA AnswerKeepsSessions ==
  ASSUME TypeOK, SessionParts, NEW r \in Runs, ClaudeAnswers(r), UNCHANGED <<svc, epoch>>
  PROVE  SessionParts'
<1>1. run[r].pc # "idle" /\ UNCHANGED <<conversation, job>>
  BY DEF ClaudeAnswers, At, storeVars
<1>2. run[r] \in RunRecords /\ Len(born) + 1 # NoSession
  BY SessionTypes DEF NoSession
<1>3. PICK result, session :
        /\ Answered(r, result, session)
        /\ \/ session \in {NoSession, run[r].resume} /\ UNCHANGED born
           \/ session = Len(born) + 1 /\ born' = Append(born, run[r].epoch)
  <2>1. PICK result \in {"answer", "question"} :
          \/ \E session \in {NoSession, run[r].resume} :
               Answered(r, result, session) /\ UNCHANGED born
          \/ born' = Append(born, run[r].epoch) /\ Answered(r, result, Len(born) + 1)
    BY DEF ClaudeAnswers
  <2> QED BY <2>1
<1> DEFINE new == [run[r] EXCEPT !.result = result, !.session = session, !.pc = "persist"]
<1>4. /\ run' = [run EXCEPT ![r] = new]
      /\ new.chat = run[r].chat /\ new.gen = run[r].gen /\ new.epoch = run[r].epoch
      /\ new.pc = "persist" /\ new.session = session /\ new.resume = run[r].resume
  BY <1>2, <1>3 DEF Answered, RunRecords
<1> HIDE DEF new
<1>5. BornGrows /\ (session \notin {NoSession, run[r].resume} =>
                      session \in 1..Len(born') /\ born'[session] = run[r].epoch)
  <2>1. CASE session \in {NoSession, run[r].resume} /\ UNCHANGED born
    BY <2>1, BornStays
  <2>2. CASE session = Len(born) + 1 /\ born' = Append(born, run[r].epoch)
    <3>1. run[r].epoch \in Nat
      BY <1>2 DEF RunRecords
    <3> QED BY <2>2, <3>1, BornAppend
  <2> QED BY <1>3, <2>1, <2>2
<1>6. new.session # new.resume /\ new.session # NoSession =>
        new.session \in 1..Len(born') /\ born'[new.session] = new.epoch
  BY <1>4, <1>5
<1> QED BY <1>1, <1>4, <1>5, <1>6, RunKeepsSessions

LEMMA RunnerKeepsSessions ==
  ASSUME TypeOK, SessionParts, NEW r \in Runs, RunnerStep(r) \/ RunStatementFails(r),
         UNCHANGED orchestratorVars, gone' = {}
  PROVE  SessionParts'
<1>0. /\ UNCHANGED <<svc, epoch>>
      /\ run[r].pc # "idle" => run[r].job \in Jobs /\ run[r].chat \in Chats
  BY SessionTypes DEF orchestratorVars
<1>1. /\ UNCHANGED conversation => RowsKept
      /\ UNCHANGED job => JobChatsKept
  BY DEF RowsKept, JobChatsKept
<1>2. CASE AcquireChat(r) \/ AcquireWorkspace(r) \/ AcquireToken(r) \/ ReleaseSlot(r)
  <2>1. UNCHANGED <<conversation, job, born>> /\ run[r].pc # "idle"
    BY <1>2 DEF AcquireChat, AcquireWorkspace, AcquireToken, ReleaseSlot, At, storeVars
  <2>2. \E pc \in RunPcs \ {"idle", "clear", "retry", "persist"} : Goto(r, pc)
    BY <1>2 DEF AcquireChat, AcquireWorkspace, AcquireToken, ReleaseSlot, RunPcs
  <2> QED BY <1>0, <1>1, <2>1, <2>2, MoveKeepsSessions
<1>3. CASE StartJob(r) \/ WriteOutcome(r)
  <2>1. UNCHANGED <<conversation, born>> /\ run[r].pc # "idle" /\ JobChatsKept
    BY <1>0, <1>3, UpdateKeepsChats DEF StartJob, WriteOutcome, At
  <2>2. \E pc \in RunPcs \ {"idle", "clear", "retry", "persist"} : Goto(r, pc)
    BY <1>3 DEF StartJob, WriteOutcome, RunPcs
  <2> QED BY <1>0, <1>1, <2>1, <2>2, MoveKeepsSessions
<1>4. CASE RefreshContext(r) \/ ClaudeFails(r)
  <2>1. UNCHANGED <<conversation, job, born>> /\ run[r].pc # "idle"
    BY <1>4 DEF RefreshContext, ClaudeFails, At, storeVars
  <2>2. \/ \E pc \in RunPcs \ {"idle", "clear", "retry", "persist"} : Goto(r, pc)
        \/ Finish(r, "failed") \/ Failed(r)
    BY <1>4 DEF RefreshContext, ClaudeFails, RunPcs
  <2> QED BY <1>0, <1>1, <2>1, <2>2, MoveKeepsSessions
<1>5. CASE ClaudeAnswers(r)
  BY <1>0, <1>5, AnswerKeepsSessions
<1>6. ~ClaudeMissesSession(r)
  BY DEF ClaudeMissesSession
<1>7. ~ClearMissingSession(r)
  BY DEF ClearMissingSession, At, SessionParts, RunSession
<1>8. CASE PersistSession(r)
  <2>1. UNCHANGED <<job, born>> /\ run[r].pc = "persist" /\ Goto(r, "record")
    BY <1>8 DEF PersistSession, At
  <2>2. RowsKept
    <3>1. CASE run[r].session \in {NoSession, run[r].resume}
      BY <1>1, <1>8, <3>1 DEF PersistSession
    <3>2. CASE run[r].session \notin {NoSession, run[r].resume}
      <4>1. UpdateConversationSession(run[r].chat, run[r].session, run[r].gen)
        BY <1>8, <3>2 DEF PersistSession
      <4>2. PICK d \in Chats : d = run[r].chat
        BY <1>0, <2>1
      <4>3. RunSession(r)
        BY <2>1 DEF SessionParts
      <4>4. CASE run[r].gen = conversation[d].gen
        <5>1. Made(run[r].session, epoch[d])
          BY <2>1, <3>2, <4>2, <4>3, <4>4 DEF RunSession
        <5>2. \/ UNCHANGED conversation
              \/ conversation' = [conversation EXCEPT ![d].session = run[r].session]
          BY <4>1, <4>2 DEF UpdateConversationSession
        <5>3. CASE conversation' = [conversation EXCEPT ![d].session = run[r].session]
          <6>1. /\ conversation'[d].exists = conversation[d].exists
                /\ conversation'[d].gen = conversation[d].gen
                /\ conversation'[d].session = run[r].session
                /\ \A c \in Chats \ {d} : conversation'[c] = conversation[c]
            BY <5>3, SessionTypes DEF ConversationRows
          <6> QED BY <5>1, <6>1 DEF RowsKept, Made
        <5> QED BY <1>1, <5>2, <5>3
      <4>5. CASE run[r].gen # conversation[d].gen
        BY <1>1, <4>1, <4>2, <4>5 DEF UpdateConversationSession
      <4> QED BY <4>4, <4>5
    <3> QED BY <3>1, <3>2
  <2>3. \E pc \in RunPcs \ {"idle", "clear", "retry", "persist"} : Goto(r, pc)
    BY <2>1 DEF RunPcs
  <2> QED BY <1>0, <1>1, <2>1, <2>2, <2>3, MoveKeepsSessions
<1>9. AfterRecord(r) => \/ \E pc \in RunPcs \ {"idle", "clear", "retry", "persist"} : Goto(r, pc)
                        \/ \E outcome : Finish(r, outcome)
  BY DEF AfterRecord, RunPcs
<1>10. CASE RecordWorker(r)
  <2>1. UNCHANGED <<conversation, job, born>> /\ run[r].pc # "idle" /\ AfterRecord(r)
    BY <1>10 DEF RecordWorker, At
  <2> QED BY <1>0, <1>1, <1>9, <2>1, MoveKeepsSessions
<1>11. CASE ReleaseChat(r)
  <2>1. /\ UNCHANGED <<conversation, job, born>> /\ run[r].pc # "idle"
        /\ run' = [run EXCEPT ![r] = NoRun]
    BY <1>11 DEF ReleaseChat, At, storeVars
  <2> QED BY <1>0, <1>1, <2>1, MoveKeepsSessions
<1>12. CASE RunStatementFails(r)
  <2>1. UNCHANGED <<conversation, job, born>> /\ run[r].pc # "idle"
    BY <1>12 DEF RunStatementFails, At, storeVars
  <2>2. \/ Goto(r, "release") \/ Finish(r, "failed") \/ Failed(r) \/ AfterRecord(r)
    BY <1>12 DEF RunStatementFails
  <2>3. "release" \in RunPcs \ {"idle", "clear", "retry", "persist"}
    BY DEF RunPcs
  <2> QED BY <1>0, <1>1, <1>9, <2>1, <2>2, <2>3, MoveKeepsSessions
<1> QED BY <1>2, <1>3, <1>4, <1>5, <1>6, <1>7, <1>8, <1>10, <1>11, <1>12 DEF RunnerStep

LEMMA QuestionKeepsSessions ==
  ASSUME TypeOK, SessionParts, NEW r \in Runs,
         ReadQuestionContext(r) \/ SaveQuestion(r) \/ SendQuestion(r) \/ QuestionFails(r)
  PROVE  SessionParts'
<1>1. /\ UNCHANGED <<conversation, job, born, svc, epoch>> /\ run[r].pc # "idle"
      /\ RowsKept /\ JobChatsKept
  BY DEF ReadQuestionContext, SaveQuestion, SendQuestion, QuestionFails, At, storeVars,
         orchestratorVars, RowsKept, JobChatsKept
<1>2. CASE ReadQuestionContext(r)
  <2>1. PICK payload : run' = [run EXCEPT ![r] = [@ EXCEPT !.payload = payload,
                                                          !.pc = "question"]]
    BY <1>2 DEF ReadQuestionContext
  <2> DEFINE new == [run[r] EXCEPT !.payload = payload, !.pc = "question"]
  <2>2. /\ run' = [run EXCEPT ![r] = new]
        /\ new.chat = run[r].chat /\ new.gen = run[r].gen /\ new.epoch = run[r].epoch
        /\ new.pc = "question"
    BY <2>1, SessionTypes DEF RunRecords
  <2> HIDE DEF new
  <2> QED BY <1>1, <2>2, BornStays, RunKeepsSessions DEF RowsKept, JobChatsKept
<1>3. CASE SaveQuestion(r) \/ SendQuestion(r) \/ QuestionFails(r)
  <2>1. \/ \E pc \in RunPcs \ {"idle", "clear", "retry", "persist"} : Goto(r, pc)
        \/ \E outcome : Finish(r, outcome)
    BY <1>3 DEF SaveQuestion, SendQuestion, QuestionFails, RunPcs
  <2> QED BY <1>1, <2>1, MoveKeepsSessions
<1> QED BY <1>2, <1>3

-----------------------------------------------------------------------------
(* The handlers.                                                           *)

\* A reset clears the session and counts the generation up: no goroutine that
\* is there belongs to the new one.
LEMMA ClearKeepsSessions ==
  ASSUME TypeOK, SessionParts, NEW c \in Chats, ResetClear(c)
  PROVE  SessionParts'
<1>1. /\ svc[c].pc = "clear" /\ UNCHANGED <<job, run, born, epoch>>
      /\ svc' = [svc EXCEPT ![c].pc = "reread"]
  BY DEF ResetClear, Handling, Advance, runnerVars
<1>2. svc[c].message = "reset" /\ conversation[c].exists
  BY <1>1 DEF SessionParts, HandlerSession
<1>3. /\ conversation'[c] = [exists |-> TRUE, session |-> NoSession,
                             gen |-> conversation[c].gen + 1]
      /\ \A d \in Chats \ {c} : conversation'[d] = conversation[d]
  BY <1>2, SessionTypes DEF ResetClear, ClearConversationSession
<1>4. /\ svc'[c].pc = "reread" /\ svc'[c].message = "reset"
      /\ \A d \in Chats \ {c} : svc'[d] = svc[d]
  BY <1>1, <1>2, SessionTypes DEF SvcRecords
<1>5. conversation[c].gen \in Nat
  BY SessionTypes DEF ConversationRows
<1>6. ASSUME NEW d \in Chats
      PROVE  Made(conversation[d].session, epoch[d])' /\ HandlerSession(d)'
  <2>1. CASE d = c
    BY <1>3, <1>4, <2>1 DEF Made, HandlerSession
  <2>2. CASE d # c
    BY <1>1, <1>3, <1>4, <2>2 DEF SessionParts, Made, HandlerSession
  <2> QED BY <2>1, <2>2
<1>7. ASSUME NEW r \in Runs, run'[r].pc # "idle" PROVE RunSession(r)'
  <2>1. RunSession(r) /\ run'[r] = run[r] /\ run[r].gen \in Nat
    BY <1>1, <1>7, SessionTypes DEF SessionParts, RunRecords
  <2>2. PICK d \in Chats : d = run[r].chat
    BY <1>1, <1>7, SessionTypes
  <2>3. CASE d = c
    BY <1>1, <1>3, <1>5, <2>1, <2>2, <2>3 DEF RunSession, Made
  <2>4. CASE d # c
    BY <1>1, <1>3, <1>4, <2>1, <2>2, <2>4 DEF RunSession, Made, Closing
  <2> QED BY <2>3, <2>4
<1>8. \A j \in Jobs : job'[j].chat \in Chats => conversation'[job'[j].chat].exists
  BY <1>1, <1>3 DEF SessionParts
<1> QED BY <1>6, <1>7, <1>8 DEF SessionParts

\* The row is written back; a reset completes its epoch.
LEMMA WriteKeepsSessions ==
  ASSUME TypeOK, SessionParts, NEW c \in Chats, WriteConversation(c)
  PROVE  SessionParts'
<1> DEFINE me == svc[c]
           reset == me.message = "reset"
<1>1. me.pc = "upsert" /\ UNCHANGED <<job, run, born>> /\ HandlerSession(c)
  BY DEF WriteConversation, Handling, runnerVars, SessionParts
<1>2. /\ conversation'[c] = [exists |-> TRUE, gen |-> me.gen,
                             session |-> IF reset THEN NoSession ELSE me.session]
      /\ \A d \in Chats \ {c} : conversation'[d] = conversation[d]
      /\ epoch'[c] = epoch[c] + (IF reset THEN 1 ELSE 0)
      /\ \A d \in Chats \ {c} : epoch'[d] = epoch[d]
  <2>1. CASE reset
    <3>1. /\ conversation' = [conversation EXCEPT
                               ![c] = [exists |-> TRUE, session |-> NoSession, gen |-> me.gen]]
          /\ epoch' = [epoch EXCEPT ![c] = @ + 1]
      BY <2>1 DEF WriteConversation, UpsertConversation
    <3> QED BY <2>1, <3>1, SessionTypes
  <2>2. CASE ~reset
    <3>1. /\ conversation' = [conversation EXCEPT
                               ![c] = [exists |-> TRUE, session |-> me.session, gen |-> me.gen]]
          /\ epoch' = epoch
      BY <2>2 DEF WriteConversation, UpsertConversation
    <3>2. epoch[c] + 0 = epoch[c]
      BY SessionTypes
    <3> QED BY <2>2, <3>1, <3>2, SessionTypes
  <2> QED BY <2>1, <2>2
<1>3. /\ svc'[c].pc \in {"create", "idle"} /\ (svc'[c].pc = "create" => ~reset)
      /\ svc'[c].pc = "create" => svc'[c].gen = me.gen
      /\ \A d \in Chats \ {c} : svc'[d] = svc[d]
  <2>1. CASE Advance(c, "create") /\ ~reset
    BY <2>1, SessionTypes DEF Advance, SvcRecords
  <2>2. CASE Done(c)
    BY <2>2, SessionTypes, NoRecordTypes DEF Done
  <2> QED BY <2>1, <2>2 DEF WriteConversation
<1>4. ASSUME NEW d \in Chats
      PROVE  Made(conversation[d].session, epoch[d])' /\ HandlerSession(d)'
  <2>1. CASE d = c
    <3>1. HandlerSession(c)'
      BY <1>2, <1>3 DEF HandlerSession
    <3>2. ~reset => Made(me.session, epoch[c])
      BY <1>1 DEF HandlerSession
    <3>3. epoch[c] + 0 = epoch[c]
      BY SessionTypes
    <3>4. Made(conversation[c].session, epoch[c])'
      BY <1>1, <1>2, <3>2, <3>3 DEF Made
    <3> QED BY <2>1, <3>1, <3>4
  <2>2. CASE d # c
    BY <1>1, <1>2, <1>3, <2>2 DEF SessionParts, Made, HandlerSession
  <2> QED BY <2>1, <2>2
<1>5. ASSUME NEW r \in Runs, run'[r].pc # "idle" PROVE RunSession(r)'
  <2>1. RunSession(r) /\ run'[r] = run[r] /\ run[r].gen \in Nat
    BY <1>1, <1>5, SessionTypes DEF SessionParts, RunRecords
  <2>2. PICK d \in Chats : d = run[r].chat
    BY <1>1, <1>5, SessionTypes
  <2>3. CASE d = c
    <3>1. me.gen = conversation[c].gen
      BY <1>1, <2>1, <2>2, <2>3 DEF RunSession, HandlerSession
    <3>2. reset => run[r].gen # conversation[c].gen
      BY <1>1, <2>1, <2>2, <2>3 DEF RunSession, Closing
    <3>3. ~Closing(c)'
      BY <1>3 DEF Closing
    <3>4. epoch[c] + 0 = epoch[c]
      BY SessionTypes
    <3> QED BY <1>1, <1>2, <2>1, <2>2, <2>3, <3>1, <3>2, <3>3, <3>4 DEF RunSession, Made, Closing
  <2>4. CASE d # c
    BY <1>1, <1>2, <1>3, <2>1, <2>2, <2>4 DEF RunSession, Made, Closing
  <2> QED BY <2>3, <2>4
<1>6. \A j \in Jobs : job'[j].chat \in Chats => conversation'[job'[j].chat].exists
  BY <1>1, <1>2 DEF SessionParts
<1> QED BY <1>4, <1>5, <1>6 DEF SessionParts

\* The handler returns, or goes on with its request's row and card.
LEMMA QuietHandler ==
  ASSUME TypeOK, SessionParts, NEW c \in Chats, NEW new, svc' = [svc EXCEPT ![c] = new],
         new.pc \in {"idle", "ask", "card"}, UNCHANGED <<conversation, epoch, born>>,
         \A j \in Jobs : \/ job'[j].chat = job[j].chat
                         \/ job'[j].chat = c /\ conversation[c].exists,
         \A r \in Runs : \/ run'[r] = run[r]
                         \/ /\ run'[r].pc = "chat" /\ run'[r].chat = c
                            /\ run'[r].gen = conversation[c].gen /\ run'[r].epoch = epoch[c]
                            /\ conversation[c].exists /\ ~Closing(c)
  PROVE  SessionParts'
<1>1. svc'[c] = new
  BY SessionTypes
<1>2. HandlerSession(c)' /\ ~Closing(c)'
  BY <1>1 DEF HandlerSession, Closing
<1> QED BY <1>2, HandlerKeepsSessions

\* A goroutine is started with what the handler has read.
LEMMA StartKeepsSessions ==
  ASSUME TypeOK, SessionParts, NEW c \in Chats, svc[c].pc \in {"create", "apply"},
         NEW r \in Runs, NEW j, NEW mutating,
         Enqueue(r, j, c, mutating, svc[c].session, svc[c].gen, epoch[c]), Done(c),
         UNCHANGED <<conversation, epoch, born>>,
         \A k \in Jobs : job'[k].chat = job[k].chat \/ job'[k].chat = c
  PROVE  SessionParts'
<1>1. conversation[c].exists /\ svc[c].gen = conversation[c].gen /\ ~Closing(c)
  BY DEF SessionParts, HandlerSession, Closing
<1>2. /\ run'[r].pc = "chat" /\ run'[r].chat = c
      /\ run'[r].gen = svc[c].gen /\ run'[r].epoch = epoch[c]
      /\ \A q \in Runs \ {r} : run'[q] = run[q]
  BY SessionTypes DEF Enqueue, NoRun
<1>3. svc' = [svc EXCEPT ![c] = NoSvc] /\ NoSvc.pc = "idle"
  BY NoRecordTypes DEF Done
<1>4. \A q \in Runs : \/ run'[q] = run[q]
                      \/ /\ run'[q].pc = "chat" /\ run'[q].chat = c
                         /\ run'[q].gen = conversation[c].gen /\ run'[q].epoch = epoch[c]
                         /\ conversation[c].exists /\ ~Closing(c)
  BY <1>1, <1>2
<1> QED BY <1>1, <1>3, <1>4, QuietHandler

\* A message or a click is received: what the handler goes on with is read
\* from the row.
LEMMA EventKeepsSessions ==
  ASSUME TypeOK, SessionParts, NEW c \in Chats, Event(c)
  PROVE  SessionParts'
<1>1. /\ svc[c].pc = "idle"
      /\ UNCHANGED <<conversation, job, run, born, epoch>>
  BY DEF Event, Register, ReceiveMessage, ReceiveAction, Handling, storeVars, runnerVars
<1>2. ~Closing(c)
  BY <1>1 DEF Closing
<1>3. Made(conversation[c].session, epoch[c]) /\ conversation[c].gen \in Nat
  BY SessionTypes DEF SessionParts, ConversationRows
<1>4. PICK u \in Users :
        \/ Register(c, u)
        \/ \E message \in MessageKinds : ReceiveMessage(c, u, message)
        \/ \E j \in Jobs, kind \in CardKinds, choice \in BOOLEAN :
             ReceiveAction(c, j, u, kind, choice)
  BY DEF Event
<1>5. ASSUME NEW new, svc' = [svc EXCEPT ![c] = new], HandlerSession(c)',
             Closing(c)' => ~conversation[c].exists
      PROVE  SessionParts'
  BY <1>1, <1>5, HandlerKeepsSessions
<1>6. CASE Register(c, u)
  <2>1. svc' = [svc EXCEPT ![c] = svc[c]]
    BY <1>6, SessionTypes DEF Register
  <2>2. HandlerSession(c)' /\ ~Closing(c)'
    BY <1>1, <1>6 DEF Register, HandlerSession, Closing
  <2> QED BY <1>5, <2>1, <2>2
<1>7. ASSUME NEW message \in MessageKinds, ReceiveMessage(c, u, message) PROVE SessionParts'
  <2> DEFINE fresh == message = "reset" /\ ~conversation[c].exists
             new == [NoSvc EXCEPT !.pc = IF message = "reset" /\ ~fresh THEN "clear" ELSE "upsert",
                        !.message = message, !.user = u,
                        !.gen = conversation[c].gen + (IF fresh THEN 1 ELSE 0),
                        !.session = conversation[c].session]
  <2>1. svc' = [svc EXCEPT ![c] = new]
    BY <1>7 DEF ReceiveMessage
  <2>2. /\ new.pc = IF message = "reset" /\ ~fresh THEN "clear" ELSE "upsert"
        /\ new.message = message /\ new.session = conversation[c].session
        /\ ~fresh => new.gen = conversation[c].gen
    BY <1>3, NoRecordTypes DEF SvcRecords
  <2>3. svc'[c] = new
    BY <2>1, SessionTypes
  <2> HIDE DEF new
  <2>4. HandlerSession(c)'
    BY <1>1, <1>3, <2>2, <2>3 DEF HandlerSession, Made
  <2>5. Closing(c)' => ~conversation[c].exists
    BY <2>2, <2>3 DEF Closing
  <2> QED BY <1>5, <2>1, <2>4, <2>5
<1>8. ASSUME NEW j \in Jobs, NEW kind \in CardKinds, NEW choice \in BOOLEAN,
             ReceiveAction(c, j, u, kind, choice)
      PROVE  SessionParts'
  <2>1. PICK verdict \in Verdict(j, u, kind, choice) :
          svc' = [svc EXCEPT ![c] =
                    [NoSvc EXCEPT !.pc = "decide", !.verdict = verdict, !.job = j,
                                  !.gen = conversation[c].gen,
                                  !.session = conversation[c].session,
                                  !.payload = approval[j].payload]]
    BY <1>8 DEF ReceiveAction
  <2> DEFINE new == [NoSvc EXCEPT !.pc = "decide", !.verdict = verdict, !.job = j,
                                  !.gen = conversation[c].gen,
                                  !.session = conversation[c].session,
                                  !.payload = approval[j].payload]
  <2>2. new.pc = "decide" /\ new.gen = conversation[c].gen
    BY NoRecordTypes DEF SvcRecords
  <2>3. svc' = [svc EXCEPT ![c] = new] /\ svc'[c] = new
    BY <2>1, SessionTypes
  <2> HIDE DEF new
  <2>4. conversation[c].exists
    BY <1>8 DEF ReceiveAction, SessionParts
  <2>5. HandlerSession(c)' /\ ~Closing(c)'
    BY <1>1, <2>2, <2>3, <2>4 DEF HandlerSession, Closing
  <2> QED BY <1>5, <2>3, <2>5
<1> QED BY <1>4, <1>6, <1>7, <1>8

\* A handler goes on with its request or decision; the row stays.
LEMMA HandlerStepKeepsSessions ==
  ASSUME TypeOK, SessionParts, NEW c \in Chats, HandlerStep(c)
  PROVE  SessionParts'
<1>1. HandlerSession(c) /\ svc[c] \in SvcRecords /\ (svc[c].pc \in {"ask", "card", "decide", "apply"}
                                                       => svc[c].job \in Jobs)
  BY DEF SessionParts, TypeOK, OrchestratorTypeOK, SvcTypeOK
<1>2. CASE ResetClear(c)
  BY <1>2, ClearKeepsSessions
<1>3. CASE ResetReread(c)
  <2> DEFINE new == [svc[c] EXCEPT !.pc = "upsert", !.gen = conversation[c].gen,
                                   !.session = conversation[c].session]
  <2>1. svc' = [svc EXCEPT ![c] = new] /\ svc[c].pc = "reread"
    BY <1>3 DEF ResetReread, Handling
  <2>2. new.pc = "upsert" /\ new.message = "reset" /\ new.gen = conversation[c].gen
    BY <1>1, <2>1 DEF HandlerSession, SvcRecords
  <2>3. svc'[c] = new
    BY <2>1, SessionTypes
  <2> HIDE DEF new
  <2>4. UNCHANGED <<conversation, job, run, born, epoch>>
    BY <1>3 DEF ResetReread, storeVars, runnerVars
  <2>5. HandlerSession(c)' /\ Closing(c)
    BY <2>1, <2>2, <2>3, <2>4 DEF HandlerSession, Closing
  <2> QED BY <2>1, <2>4, <2>5, HandlerKeepsSessions
<1>4. CASE WriteConversation(c)
  BY <1>4, WriteKeepsSessions
<1>5. ASSUME NEW j \in Jobs, NEW r \in Runs, CreateQueuedJob(c, j, r) PROVE SessionParts'
  <2>1. /\ svc[c].pc \in {"create", "apply"} /\ UNCHANGED <<conversation, epoch, born>>
        /\ Enqueue(r, j, c, FALSE, svc[c].session, svc[c].gen, epoch[c]) /\ Done(c)
    BY <1>5 DEF CreateQueuedJob, Handling
  <2>2. \A k \in Jobs : job'[k].chat = job[k].chat \/ job'[k].chat = c
    BY <1>5, SessionTypes DEF CreateQueuedJob, CreateJob
  <2> QED BY <2>1, <2>2, StartKeepsSessions
<1>6. ASSUME NEW j \in Jobs, CreateWaitingJob(c, j) PROVE SessionParts'
  <2> DEFINE new == [svc[c] EXCEPT !.pc = "ask", !.job = j,
                          !.payload = [kind |-> "approval", gen |-> svc[c].gen,
                                       session |-> svc[c].session, repo |-> repo]]
  <2>1. svc' = [svc EXCEPT ![c] = new] /\ svc[c].pc = "create"
    BY <1>6 DEF CreateWaitingJob, Handling
  <2>2. new.pc = "ask"
    BY <1>1 DEF SvcRecords
  <2> HIDE DEF new
  <2>3. UNCHANGED <<conversation, run, born, epoch>> /\ conversation[c].exists
    BY <1>1, <1>6, <2>1 DEF CreateWaitingJob, runnerVars, HandlerSession
  <2>4. \A k \in Jobs : job'[k].chat = job[k].chat \/ job'[k].chat = c
    BY <1>6, SessionTypes DEF CreateWaitingJob, CreateJob
  <2> QED BY <2>1, <2>2, <2>3, <2>4, QuietHandler
<1>7. CASE SaveApprovalRequest(c)
  <2> DEFINE new == [svc[c] EXCEPT !.pc = "card"]
  <2>1. /\ svc' = [svc EXCEPT ![c] = new]
        /\ UNCHANGED <<conversation, job, run, born, epoch>>
    BY <1>7 DEF SaveApprovalRequest, Advance, runnerVars
  <2>2. new.pc = "card"
    BY <1>1 DEF SvcRecords
  <2> HIDE DEF new
  <2> QED BY <2>1, <2>2, QuietHandler
<1>8. CASE SendApprovalCard(c)
  <2>1. /\ svc' = [svc EXCEPT ![c] = NoSvc]
        /\ UNCHANGED <<conversation, job, run, born, epoch>>
    BY <1>8 DEF SendApprovalCard, Done, storeVars, runnerVars
  <2> QED BY <2>1, QuietHandler, NoRecordTypes
<1>9. CASE SaveDecision(c)
  <2> DEFINE new == [svc[c] EXCEPT !.pc = "apply"]
  <2>1. /\ svc' = [svc EXCEPT ![c] = new] /\ svc[c].pc = "decide"
        /\ UNCHANGED <<conversation, job, run, born, epoch>>
    BY <1>9 DEF SaveDecision, Advance, Handling, runnerVars
  <2>2. new.pc = "apply" /\ new.gen = svc[c].gen
    BY <1>1 DEF SvcRecords
  <2>3. svc'[c] = new
    BY <2>1, SessionTypes
  <2> HIDE DEF new
  <2>4. HandlerSession(c)' /\ ~Closing(c)'
    BY <1>1, <2>1, <2>2, <2>3 DEF HandlerSession, Closing
  <2> QED BY <2>1, <2>4, HandlerKeepsSessions
<1>10. CASE RejectJob(c)
  <2>1. svc' = [svc EXCEPT ![c] = NoSvc] /\ UNCHANGED <<conversation, run, born, epoch>>
    BY <1>10 DEF RejectJob, Done, runnerVars
  <2>2. UpdateJob(svc[c].job, "rejected") /\ svc[c].job \in Jobs
    BY <1>1, <1>10 DEF RejectJob, Handling
  <2>3. JobChatsKept
    BY <2>2, UpdateKeepsChats
  <2> QED BY <2>1, <2>3, QuietHandler, NoRecordTypes DEF JobChatsKept
<1>11. ASSUME NEW r \in Runs, StartDecidedJob(c, r) PROVE SessionParts'
  <2>1. PICK approving : approving = (svc[c].verdict = "approved")
    OBVIOUS
  <2>2. /\ svc[c].pc \in {"create", "apply"} /\ UNCHANGED <<conversation, epoch, born>>
        /\ Enqueue(r, svc[c].job, c, approving, svc[c].session, svc[c].gen, epoch[c])
        /\ Done(c) /\ svc[c].job \in Jobs
    BY <1>1, <1>11, <2>1 DEF StartDecidedJob, Handling
  <2>3. PICK status : UpdateJob(svc[c].job, status)
    BY <1>11 DEF StartDecidedJob
  <2>4. JobChatsKept
    BY <2>2, <2>3, UpdateKeepsChats
  <2> QED BY <2>2, <2>4, StartKeepsSessions DEF JobChatsKept
<1> QED BY <1>2, <1>3, <1>4, <1>5, <1>6, <1>7, <1>8, <1>9, <1>10, <1>11 DEF HandlerStep

-----------------------------------------------------------------------------
(* The gateway.                                                            *)

\* Crash, restart, and the steps that touch no conversation.
LEMMA OutageKeepsSessions ==
  ASSUME TypeOK, SessionParts,
         \/ Crash \/ Restart \/ Commit \/ UNCHANGED vars
         \/ \E j \in Jobs : OrphanExits(j)
  PROVE  SessionParts'
<1>1. /\ UNCHANGED <<conversation, born, epoch>>
      /\ \A c \in Chats : svc'[c] = svc[c] \/ svc'[c] = NoSvc
      /\ \A r \in Runs : run'[r] = run[r] \/ run'[r] = NoRun
  BY DEF Crash, Restart, Commit, OrphanExits, vars, storeVars, runnerVars, orchestratorVars
<1>2. JobChatsKept
  <2>1. job' = job \/ InterruptInProgressJobs
    BY DEF Crash, Restart, Commit, OrphanExits, vars, storeVars
  <2> QED BY <2>1, SessionTypes DEF InterruptInProgressJobs, JobChatsKept, JobRows
<1>3. ASSUME NEW c \in Chats
      PROVE  Made(conversation[c].session, epoch[c])' /\ HandlerSession(c)'
  BY <1>1, <1>3, NoRecordTypes DEF SessionParts, Made, HandlerSession
<1>4. ASSUME NEW r \in Runs, run'[r].pc # "idle" PROVE RunSession(r)'
  <2>1. RunSession(r) /\ run'[r] = run[r]
    BY <1>1, <1>4, NoRecordTypes DEF SessionParts
  <2>2. PICK d \in Chats : d = run[r].chat
    BY <1>4, <2>1, SessionTypes
  <2>3. Closing(d)' => Closing(d)
    BY <1>1, NoRecordTypes DEF Closing
  <2> QED BY <1>1, <2>1, <2>2, <2>3 DEF RunSession, Made
<1>5. \A j \in Jobs : job'[j].chat \in Chats => conversation'[job'[j].chat].exists
  BY <1>1, <1>2 DEF SessionParts, JobChatsKept
<1> QED BY <1>3, <1>4, <1>5 DEF SessionParts

LEMMA SessionInit == Init => SessionInv
<1> SUFFICES ASSUME Init PROVE SessionInv
  OBVIOUS
<1>1. TypeOK
  BY TypeInit
<1>2. /\ \A c \in Chats : conversation[c] = NoConversation /\ svc[c] = NoSvc
      /\ \A r \in Runs : run[r] = NoRun
      /\ \A j \in Jobs : job[j] = NoJob
  BY DEF Init, StoreInit, RunnerInit, OrchestratorInit
<1>3. \A c \in Chats : Made(conversation[c].session, epoch[c]) /\ HandlerSession(c)
  BY <1>2, NoRecordTypes DEF Made, HandlerSession, NoConversation
<1>4. \A j \in Jobs : job[j].chat \notin Chats
  BY <1>2, NoneAssumption DEF NoJob
<1> QED BY <1>1, <1>2, <1>3, <1>4, NoRecordTypes DEF SessionInv, SessionParts

\* What Claude has lost stays lost, and it loses none when the bound is zero.
LEMMA GoneGrows ==
  ASSUME [Next]_vars
  PROVE  gone \subseteq gone' /\ (MaxVanish = 0 /\ gone = {} => gone' = {})
<1>1. ASSUME NEW c \in Chats, HandlerStep(c) \/ Event(c) PROVE UNCHANGED gone
  <2>1. HandlerStep(c) => UNCHANGED gone
    BY DEF HandlerStep, ResetClear, ResetReread, WriteConversation, CreateQueuedJob,
           CreateWaitingJob, SaveApprovalRequest, SendApprovalCard, SaveDecision, RejectJob,
           StartDecidedJob, runnerVars
  <2>2. Event(c) => UNCHANGED gone
    BY DEF Event, Register, ReceiveMessage, ReceiveAction, runnerVars
  <2> QED BY <1>1, <2>1, <2>2
<1>2. ASSUME NEW r \in Runs, RunStep(r) \/ QuestionFails(r) \/ RunStatementFails(r),
             ~ClaudeMissesSession(r)
      PROVE  UNCHANGED gone
  <2>1. RunnerStep(r) => UNCHANGED gone
    BY <1>2 DEF RunnerStep, AcquireChat, AcquireWorkspace, AcquireToken, StartJob,
                RefreshContext, ClaudeAnswers, ClaudeFails, ClearMissingSession,
                PersistSession, RecordWorker, WriteOutcome, ReleaseSlot, ReleaseChat
  <2> QED BY <1>2, <2>1 DEF RunStep, ReadQuestionContext, SaveQuestion, SendQuestion,
                            QuestionFails, RunStatementFails
<1>3. ASSUME NEW r \in Runs, ClaudeMissesSession(r)
      PROVE  gone \subseteq gone' /\ ~(MaxVanish = 0 /\ gone = {})
  BY <1>3, FS_EmptySet DEF ClaudeMissesSession
<1>4. Fault => UNCHANGED gone \/ \E r \in Runs : QuestionFails(r) \/ RunStatementFails(r)
  BY DEF Fault, HandlerFails, ApprovalCardFails
<1>5. ASSUME NEW r \in Runs, QuestionFails(r) \/ RunStatementFails(r) PROVE UNCHANGED gone
  BY <1>5 DEF QuestionFails, RunStatementFails
<1>6. \/ Environment \/ Crash \/ Restart \/ UNCHANGED vars
      \/ \E j \in Jobs : OrphanExits(j)
      => UNCHANGED gone
  BY DEF Environment, Commit, Crash, Restart, OrphanExits, vars, runnerVars
<1> QED BY <1>1, <1>2, <1>3, <1>4, <1>5, <1>6 DEF Next, Process

LEMMA SessionStep == SessionInv /\ [Next]_vars => SessionInv'
<1> SUFFICES ASSUME TypeOK, SessionInv, [Next]_vars, gone' = {} PROVE SessionParts'
  BY TypeStep DEF SessionInv
<1>1. SessionParts
  BY GoneGrows DEF SessionInv
<1>2. ASSUME NEW c \in Chats, HandlerStep(c) PROVE SessionParts'
  BY <1>1, <1>2, HandlerStepKeepsSessions
<1>3. ASSUME NEW c \in Chats, Event(c) PROVE SessionParts'
  BY <1>1, <1>3, EventKeepsSessions
<1>4. ASSUME NEW r \in Runs, RunStep(r) PROVE SessionParts'
  BY <1>1, <1>4, RunnerKeepsSessions, QuestionKeepsSessions DEF RunStep
<1>5. CASE Fault
  <2>1. ASSUME NEW c \in Chats, HandlerFails(c) \/ ApprovalCardFails(c) PROVE SessionParts'
    <3>1. svc' = [svc EXCEPT ![c] = NoSvc] /\ UNCHANGED <<conversation, job, run, born, epoch>>
      BY <2>1 DEF HandlerFails, ApprovalCardFails, Done, storeVars
    <3> QED BY <1>1, <3>1, QuietHandler, NoRecordTypes
  <2>2. ASSUME NEW r \in Runs, \/ RunStatementFails(r) /\ UNCHANGED orchestratorVars
                               \/ QuestionFails(r)
        PROVE  SessionParts'
    BY <1>1, <2>2, RunnerKeepsSessions, QuestionKeepsSessions
  <2> QED BY <1>5, <2>1, <2>2 DEF Fault
<1>6. CASE Environment \/ Crash \/ Restart \/ (\E j \in Jobs : OrphanExits(j)) \/ UNCHANGED vars
  BY <1>1, <1>6, OutageKeepsSessions DEF Environment
<1> QED BY <1>2, <1>3, <1>4, <1>5, <1>6 DEF Next, Process

\* After /clear or /new the chat has no session that a request made before the
\* command has created, however late that request's run ends, whatever crashes
\* and whatever fails, as long as Claude has lost no session: a run that finds
\* its session missing takes over the new generation, and stores what it makes.
THEOREM ClearedWhileSessionsLast == Spec => [](gone = {} => ClearedStaysCleared)
<1>1. SessionInv => (gone = {} => ClearedStaysCleared)
  BY DEF SessionInv, SessionParts, Made, ClearedStaysCleared
<1> QED BY <1>1, SessionInit, SessionStep, PTL DEF Spec

\* If Claude never loses a session, no crash, failure or interleaving brings a
\* cleared session back.
THEOREM ClearedForGood ==
  ASSUME MaxVanish = 0
  PROVE  Spec => []ClearedStaysCleared
<1>1. Init => gone = {}
  BY DEF Init, RunnerInit
<1>2. gone = {} /\ [Next]_vars => (gone = {})'
  BY GoneGrows
<1> QED BY <1>1, <1>2, ClearedWhileSessionsLast, PTL DEF Spec
=============================================================================
