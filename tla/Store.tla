------------------------------- MODULE Store -------------------------------
(***************************************************************************)
(* The tables of the gateway's SQLite database that its control flow reads *)
(* (internal/store/store.go).  The pool has one connection, so a statement *)
(* is atomic and two statements of one goroutine are not: every operator   *)
(* below is one statement, used as one conjunct of one action.             *)
(*                                                                         *)
(* A Claude session id is a positive number, in order of creation; the     *)
(* empty id is NoSession.  Texts, timestamps and hashes are left out: a    *)
(* row keeps the columns that some branch of the program depends on.       *)
(***************************************************************************)
EXTENDS Naturals, FiniteSets

CONSTANTS Chats, Users, Jobs, None

ASSUME NoneAssumption == None \notin Chats \cup Users \cup Jobs

VARIABLES conversation,   \* table conversations, by chat
          job,            \* table jobs, by job id
          approval,       \* table approvals, by job id
          workerSession   \* column status of table worker_sessions, by job id

storeVars == <<conversation, job, approval, workerSession>>

NoSession == 0

JobStatuses == {"queued", "waiting_approval", "waiting_confirmation",
                "approved", "running", "succeeded", "failed", "rejected",
                "interrupted"}

ApprovalStatuses == {"pending", "approved", "rejected", "invalidated"}

CardKinds == {"approval", "requester_confirmation"}

\* The part of approval.Payload the decision is checked against.
Payloads == [kind: CardKinds, gen: Nat, session: Nat, repo: Nat]

ConversationRows == [exists: BOOLEAN, session: Nat, gen: Nat]

JobRows == [status: JobStatuses \cup {"none"}, chat: Chats \cup {None},
            requester: Users \cup {None}, requiresApproval: BOOLEAN]

ApprovalRows == [status: ApprovalStatuses \cup {"none"}, payload: Payloads]

SessionStatuses == {"none", "starting", "running", "finished", "failed",
                    "interrupted"}

\* What a query that finds no row gives the Go code: zero values.
NoConversation == [exists |-> FALSE, session |-> NoSession, gen |-> 0]

NoJob == [status |-> "none", chat |-> None, requester |-> None,
          requiresApproval |-> FALSE]

NoPayload == [kind |-> "approval", gen |-> 0, session |-> NoSession, repo |-> 0]

NoApproval == [status |-> "none", payload |-> NoPayload]

StoreTypeOK ==
  /\ conversation \in [Chats -> ConversationRows]
  /\ job \in [Jobs -> JobRows]
  /\ approval \in [Jobs -> ApprovalRows]
  /\ workerSession \in [Jobs -> SessionStatuses]

StoreInit ==
  /\ conversation = [c \in Chats |-> NoConversation]
  /\ job = [j \in Jobs |-> NoJob]
  /\ approval = [j \in Jobs |-> NoApproval]
  /\ workerSession = [j \in Jobs |-> "none"]

-----------------------------------------------------------------------------
(* Table conversations.                                                    *)

\* INSERT ... ON CONFLICT DO UPDATE: the whole row is replaced, with the
\* session and the generation the caller holds.
UpsertConversation(c, session, gen) ==
  conversation' = [conversation EXCEPT
                     ![c] = [exists |-> TRUE, session |-> session, gen |-> gen]]

\* Mutant: the generation is not part of the WHERE clause.
UpdateSessionOfAnyGeneration(c, session, expected) ==
  IF conversation[c].exists
    THEN conversation' = [conversation EXCEPT ![c].session = session]
    ELSE UNCHANGED conversation

\* UPDATE ... WHERE session_generation = expected: no row, no effect.
UpdateConversationSession(c, session, expected) ==
  IF conversation[c].exists /\ conversation[c].gen = expected
    THEN conversation' = [conversation EXCEPT ![c].session = session]
    ELSE UNCHANGED conversation

ClearConversationSession(c) ==
  IF conversation[c].exists
    THEN conversation' = [conversation EXCEPT
                            ![c] = [exists |-> TRUE, session |-> NoSession,
                                    gen |-> conversation[c].gen + 1]]
    ELSE UNCHANGED conversation

-----------------------------------------------------------------------------
(* Tables jobs and approvals.                                              *)

CreateJob(j, c, u, status, requiresApproval) ==
  job' = [job EXCEPT ![j] = [status |-> status, chat |-> c, requester |-> u,
                             requiresApproval |-> requiresApproval]]

\* UPDATE jobs: the caller's copy of the row is written whatever the status
\* has become since the caller read it.
UpdateJob(j, status) == job' = [job EXCEPT ![j].status = status]

\* One row per job: a new card of the job replaces the previous one.
SaveApproval(j, status, payload) ==
  approval' = [approval EXCEPT ![j] = [status |-> status, payload |-> payload]]

InProgress == {"running", "queued", "approved"}

\* Mutant: jobs that had not started are not interrupted.
InterruptRunningJobs ==
  job' = [j \in Jobs |-> IF job[j].status = "running"
                           THEN [job[j] EXCEPT !.status = "interrupted"]
                           ELSE job[j]]

InterruptInProgressJobs ==
  job' = [j \in Jobs |-> IF job[j].status \in InProgress
                           THEN [job[j] EXCEPT !.status = "interrupted"]
                           ELSE job[j]]

-----------------------------------------------------------------------------
(* Table worker_sessions.                                                  *)

SaveWorkerSession(j, status) ==
  workerSession' = [workerSession EXCEPT ![j] = status]

ActiveWorkerSessions == {j \in Jobs : workerSession[j] \in {"running", "starting"}}

MarkWorkerSessionsInterrupted ==
  workerSession' = [j \in Jobs |-> IF j \in ActiveWorkerSessions
                                     THEN "interrupted" ELSE workerSession[j]]
=============================================================================
