------------------------------- MODULE Runner -------------------------------
(***************************************************************************)
(* The job runner (internal/jobs/runner.go, lock.go): one goroutine per    *)
(* enqueued WorkerRequest.  It takes the runner's lock of the chat, then   *)
(* the workspace lock (mutating) or a read-only token, marks the job       *)
(* running, checks that the conversation is still the one the request was  *)
(* made in, runs Claude, persists the session Claude answered with, and    *)
(* writes the job's outcome.                                               *)
(*                                                                         *)
(* A step is the code between two database statements or lock operations.  *)
(* The record run[r] is the goroutine's local state; r is recycled when    *)
(* the goroutine returns.  Claude is external: an invocation may answer,   *)
(* ask the requester to confirm, fail, time out (a failure), or report     *)
(* that the session it was to resume is missing.                           *)
(***************************************************************************)
EXTENDS Store, Sequences

CONSTANTS Runs,         \* goroutines that can be live at the same time
          MaxReadOnly,  \* cfg.MaxReadOnlyWorkers
          MaxSessions,  \* bound on the sessions Claude creates
          MaxVanish,    \* bound on the sessions Claude loses
          MaxFaults     \* bound on failing statements and cards

ASSUME RunsAssumption == None \notin Runs
\* registry.Config.Validate refuses a limit below one.
ASSUME MaxReadOnlyAssumption == MaxReadOnly \in Nat \ {0}
ASSUME RunnerBoundsAssumption ==
  MaxSessions \in Nat /\ MaxVanish \in Nat /\ MaxFaults \in Nat

VARIABLES run,             \* goroutine-local state
          chatLock,        \* Runner.chatLock: holder by chat, or None
          workspaceLock,   \* Runner.workspaceLock: ownerID, or None when unlocked
          readonlyTokens,  \* senders of the tokens in the readonlyTokens channel
          born,            \* sessions created so far; born[s] is the epoch of
                           \* the request that created s (history)
          gone,            \* sessions Claude no longer knows
          faults           \* failures so far

runnerVars == <<run, chatLock, workspaceLock, readonlyTokens, born, gone, faults>>

RunPcs == {"idle", "chat", "slot", "start", "refresh", "claude", "clear",
           "retry", "persist", "record", "ask", "question", "card", "update",
           "release", "unlock"}

Results == {"none", "answer", "question", "error"}

Outcomes == {"none", "succeeded", "failed", "waiting_confirmation"}

RunRecords == [pc: RunPcs, job: Jobs \cup {None}, chat: Chats \cup {None},
               mutating: BOOLEAN, resume: Nat, gen: Nat, epoch: Nat,
               result: Results, session: Nat, payload: Payloads,
               outcome: Outcomes]

NoRun == [pc |-> "idle", job |-> None, chat |-> None, mutating |-> FALSE,
          resume |-> NoSession, gen |-> 0, epoch |-> 0, result |-> "none",
          session |-> NoSession, payload |-> NoPayload, outcome |-> "none"]

RunTypeOK ==
  /\ run \in [Runs -> RunRecords]
  /\ \A r \in Runs : run[r].pc # "idle" => run[r].job \in Jobs /\ run[r].chat \in Chats

RunnerTypeOK ==
  /\ RunTypeOK
  /\ chatLock \in [Chats -> Runs \cup {None}]
  /\ workspaceLock \in Jobs \cup {None}
  /\ readonlyTokens \in SUBSET Runs
  /\ born \in Seq(Nat)
  /\ gone \in SUBSET Nat
  /\ faults \in 0..MaxFaults

RunnerInit ==
  /\ run = [r \in Runs |-> NoRun]
  /\ chatLock = [c \in Chats |-> None]
  /\ workspaceLock = None
  /\ readonlyTokens = {}
  /\ born = <<>>
  /\ gone = {}
  /\ faults = 0

At(r, pc) == run[r].pc = pc
Goto(r, pc) == run' = [run EXCEPT ![r].pc = pc]
Finish(r, outcome) ==
  run' = [run EXCEPT ![r] = [@ EXCEPT !.outcome = outcome, !.pc = "update"]]

Answered(r, result, session) ==
  run' = [run EXCEPT ![r] = [@ EXCEPT !.result = result, !.session = session,
                                      !.pc = "persist"]]
Failed(r) ==
  run' = [run EXCEPT ![r] = [@ EXCEPT !.result = "error", !.pc = "record"]]
Retry(r, gen) ==
  run' = [run EXCEPT ![r] = [@ EXCEPT !.resume = NoSession, !.gen = gen, !.pc = "retry"]]

HasChat == RunPcs \ {"idle", "chat"}
HasSlot == HasChat \ {"slot", "unlock"}

-----------------------------------------------------------------------------
(* Enqueue and the locks.                                                  *)

\* Mutant: the request does not carry the job id.
EnqueueNamelessJob(r, j, c, mutating, resume, gen, epoch) ==
  /\ At(r, "idle")
  /\ run' = [run EXCEPT ![r] =
               [NoRun EXCEPT !.pc = "chat", !.chat = c, !.mutating = mutating,
                             !.resume = resume, !.gen = gen, !.epoch = epoch]]

\* Enqueue starts a goroutine.  It is a conjunct of the orchestrator's actions.
Enqueue(r, j, c, mutating, resume, gen, epoch) ==
  /\ At(r, "idle")
  /\ run' = [run EXCEPT ![r] =
               [NoRun EXCEPT !.pc = "chat", !.job = j, !.chat = c,
                             !.mutating = mutating, !.resume = resume,
                             !.gen = gen, !.epoch = epoch]]

AcquireChat(r) ==
  /\ At(r, "chat")
  /\ chatLock[run[r].chat] = None
  /\ chatLock' = [chatLock EXCEPT ![run[r].chat] = r]
  /\ Goto(r, "slot")
  /\ UNCHANGED <<storeVars, workspaceLock, readonlyTokens, born, gone, faults>>

\* WorkspaceLock.Acquire returns when the lock is found free under its mutex.
AcquireWorkspace(r) ==
  /\ At(r, "slot") /\ run[r].mutating
  /\ workspaceLock = None
  /\ workspaceLock' = run[r].job
  /\ Goto(r, "start")
  /\ UNCHANGED <<storeVars, chatLock, readonlyTokens, born, gone, faults>>

AcquireToken(r) ==
  /\ At(r, "slot") /\ ~run[r].mutating
  /\ Cardinality(readonlyTokens) < MaxReadOnly
  /\ readonlyTokens' = readonlyTokens \cup {r}
  /\ Goto(r, "start")
  /\ UNCHANGED <<storeVars, chatLock, workspaceLock, born, gone, faults>>

\* Mutant: a read-only run does not take its token out of the channel.
ReleaseWorkspaceOnly(r) ==
  /\ At(r, "release")
  /\ workspaceLock' = IF run[r].mutating /\ workspaceLock = run[r].job
                        THEN None ELSE workspaceLock
  /\ Goto(r, "unlock")
  /\ UNCHANGED <<storeVars, chatLock, readonlyTokens, born, gone, faults>>

\* The deferred calls run last in, first out: the slot, then the chat lock.
\* WorkspaceLock.Release does nothing for a caller that is not the owner.
ReleaseSlot(r) ==
  /\ At(r, "release")
  /\ workspaceLock' = IF run[r].mutating /\ workspaceLock = run[r].job
                        THEN None ELSE workspaceLock
  /\ readonlyTokens' = readonlyTokens \ {r}
  /\ Goto(r, "unlock")
  /\ UNCHANGED <<storeVars, chatLock, born, gone, faults>>

\* Mutant: the goroutine returns with the chat lock held.
ReturnHoldingChat(r) ==
  /\ At(r, "unlock")
  /\ run' = [run EXCEPT ![r] = NoRun]
  /\ UNCHANGED <<storeVars, chatLock, workspaceLock, readonlyTokens, born, gone,
                 faults>>

ReleaseChat(r) ==
  /\ At(r, "unlock")
  /\ chatLock' = [chatLock EXCEPT ![run[r].chat] = None]
  /\ run' = [run EXCEPT ![r] = NoRun]
  /\ UNCHANGED <<storeVars, workspaceLock, readonlyTokens, born, gone, faults>>

-----------------------------------------------------------------------------
(* execute.                                                                *)

\* GetJob and UpdateJob(running).  The columns GetJob reads here are written
\* back unchanged except for the status.
StartJob(r) ==
  /\ At(r, "start")
  /\ UpdateJob(run[r].job, "running")
  /\ Goto(r, "refresh")
  /\ UNCHANGED <<conversation, approval, workerSession, chatLock, workspaceLock,
                 readonlyTokens, born, gone, faults>>

\* No row reads as generation 0 and no session, which is also what the code
\* accepts from a request when it finds no row.
ContextUnchanged(r) ==
  /\ conversation[run[r].chat].gen = run[r].gen
  /\ conversation[run[r].chat].session = run[r].resume

\* Mutant: a run whose context changed returns without failing its job.
RefreshOrReturn(r) ==
  /\ At(r, "refresh")
  /\ IF ContextUnchanged(r) THEN Goto(r, "claude") ELSE Goto(r, "release")
  /\ UNCHANGED <<storeVars, chatLock, workspaceLock, readonlyTokens, born, gone,
                 faults>>

RefreshContext(r) ==
  /\ At(r, "refresh")
  /\ IF ContextUnchanged(r) THEN Goto(r, "claude") ELSE Finish(r, "failed")
  /\ UNCHANGED <<storeVars, chatLock, workspaceLock, readonlyTokens, born, gone,
                 faults>>

\* Claude exits with a JSON result: an answer, or a question to the requester.
\* session_id may be absent, the resumed session, or a session it created.
ClaudeAnswers(r) ==
  /\ At(r, "claude") \/ At(r, "retry")
  /\ run[r].resume \notin gone
  /\ \E result \in {"answer", "question"} :
       \/ \E session \in {NoSession, run[r].resume} :
            /\ Answered(r, result, session)
            /\ UNCHANGED born
       \/ /\ Len(born) < MaxSessions
          /\ born' = Append(born, run[r].epoch)
          /\ Answered(r, result, Len(born) + 1)
  /\ UNCHANGED <<storeVars, chatLock, workspaceLock, readonlyTokens, gone, faults>>

\* A non-zero exit, output that does not parse, or the 15 minutes are over (and
\* nothing Claude has started keeps its output open: there is no WaitDelay).
ClaudeFails(r) ==
  /\ At(r, "claude") \/ At(r, "retry")
  /\ Failed(r)
  /\ UNCHANGED <<storeVars, chatLock, workspaceLock, readonlyTokens, born, gone,
                 faults>>

\* "No conversation found with session ID".
ClaudeMissesSession(r) ==
  /\ At(r, "claude") /\ run[r].resume # NoSession
  /\ run[r].resume \in gone \/ Cardinality(gone) < MaxVanish
  /\ gone' = gone \cup {run[r].resume}
  /\ Goto(r, "clear")
  /\ UNCHANGED <<storeVars, chatLock, workspaceLock, readonlyTokens, born, faults>>

\* runClaude clears the stored session, counts its own generation up with the
\* row's, and runs Claude again without a session.
ClearMissingSession(r) ==
  /\ At(r, "clear")
  /\ ClearConversationSession(run[r].chat)
  /\ Retry(r, run[r].gen + 1)
  /\ UNCHANGED <<job, approval, workerSession, chatLock, workspaceLock,
                 readonlyTokens, born, gone, faults>>

\* persistConversationSession: only a session other than the resumed one is
\* written, and only into the generation the run belongs to.
PersistSession(r) ==
  /\ At(r, "persist")
  /\ IF run[r].session \in {NoSession, run[r].resume}
       THEN UNCHANGED conversation
       ELSE UpdateConversationSession(run[r].chat, run[r].session, run[r].gen)
  /\ Goto(r, "record")
  /\ UNCHANGED <<job, approval, workerSession, chatLock, workspaceLock,
                 readonlyTokens, born, gone, faults>>

\* SaveWorkerSession, then the branch on what the run came to.
AfterRecord(r) ==
  CASE run[r].result = "error"    -> Finish(r, "failed")
    [] run[r].result = "question" -> Goto(r, "ask")
    [] OTHER                      -> Finish(r, "succeeded")

RecordWorker(r) ==
  /\ At(r, "record")
  /\ SaveWorkerSession(run[r].job, IF run[r].result = "error" THEN "failed"
                                                              ELSE "finished")
  /\ AfterRecord(r)
  /\ UNCHANGED <<conversation, job, approval, chatLock, workspaceLock,
                 readonlyTokens, born, gone, faults>>

\* The last UpdateJob writes the row read at the start with the outcome,
\* whatever a decision has made of the job in the meantime.
WriteOutcome(r) ==
  /\ At(r, "update")
  /\ UpdateJob(run[r].job, run[r].outcome)
  /\ Goto(r, "release")
  /\ UNCHANGED <<conversation, approval, workerSession, chatLock, workspaceLock,
                 readonlyTokens, born, gone, faults>>

\* A statement of the goroutine returns an error.  The error of
\* SaveWorkerSession is dropped; the others end the run or fail the job.
RunStatementFails(r) ==
  /\ faults < MaxFaults
  /\ faults' = faults + 1
  /\ \/ run[r].pc \in {"start", "update"} /\ Goto(r, "release")
     \/ run[r].pc \in {"refresh", "ask", "question"} /\ Finish(r, "failed")
     \/ /\ run[r].pc \in {"clear", "persist"}
        /\ Failed(r)
     \/ At(r, "record") /\ AfterRecord(r)
  /\ UNCHANGED <<storeVars, chatLock, workspaceLock, readonlyTokens, born, gone>>

RunnerStep(r) ==
  \/ AcquireChat(r) \/ AcquireWorkspace(r) \/ AcquireToken(r)
  \/ StartJob(r) \/ RefreshContext(r)
  \/ ClaudeAnswers(r) \/ ClaudeFails(r) \/ ClaudeMissesSession(r)
  \/ ClearMissingSession(r) \/ PersistSession(r) \/ RecordWorker(r)
  \/ WriteOutcome(r) \/ ReleaseSlot(r) \/ ReleaseChat(r)
=============================================================================
