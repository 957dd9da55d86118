-------------------------- MODULE GatewayProperties --------------------------
(***************************************************************************)
(* What the gateway is expected to guarantee, stated over its composition. *)
(***************************************************************************)
EXTENDS Gateway

Live(r) == run[r].pc # "idle"

\* The run has not reached the point where a question of its own can be
\* answered: nothing it does has been decided again.
Undecided(r) == run[r].pc \in RunPcs \ {"idle", "card", "update", "release", "unlock"}

Executing(r) == run[r].pc \in {"refresh", "claude", "clear", "retry", "persist",
                               "record", "ask", "question"}

-----------------------------------------------------------------------------
(* Locks.                                                                  *)

\* The runs past the runner's chat lock hold it, alone (KeyedLock).
ChatLockHeld ==
  /\ \A r \in Runs : run[r].pc \in HasChat => chatLock[run[r].chat] = r
  /\ \A c \in Chats : chatLock[c] # None =>
       /\ run[chatLock[c]].pc \in HasChat
       /\ run[chatLock[c]].chat = c

\* A mutating run past the workspace lock is its one owner (WorkspaceLock), so
\* two mutating runs never execute at the same time, whatever their chats.
WorkspaceLockHeld ==
  /\ \A r \in Runs : run[r].pc \in HasSlot /\ run[r].mutating =>
       /\ workspaceLock = run[r].job
       /\ \A q \in Runs : run[q].pc \in HasSlot /\ run[q].mutating => q = r
  /\ workspaceLock # None =>
       \E r \in Runs : run[r].pc \in HasSlot /\ run[r].mutating

\* The read-only runs past the channel hold its tokens, at most
\* MaxReadOnlyWorkers of them.
TokensHeld ==
  /\ readonlyTokens = {r \in Runs : run[r].pc \in HasSlot /\ ~run[r].mutating}
  /\ Cardinality(readonlyTokens) <= MaxReadOnly

\* The three locks agree with the runs: none is lost and none is shared, across
\* every path out of a run, failures and crashes included.
LockInv == ChatLockHeld /\ WorkspaceLockHeld /\ TokensHeld

-----------------------------------------------------------------------------
(* Decisions.                                                              *)

\* Claude is started for a mutation request, and a run is given the workspace
\* lock, only after a registered user has approved that job.
NoUnapprovedMutation ==
  \A r \in Runs : Live(r) /\ (run[r].mutating \/ job[run[r].job].requiresApproval)
                    => run[r].job \in consented

\* One decision starts one run: two goroutines of one job are never both short
\* of their result, however often a card is clicked.
OneRunPerDecision ==
  \A r, q \in Runs : Undecided(r) /\ Undecided(q) /\ run[r].job = run[q].job => r = q

\* A run that follows a decision works in the conversation the decision was
\* asked in: the session and generation of the card's payload.
DecidedContextIsRun ==
  \A r \in Runs :
    LET a == approval[run[r].job]
    IN run[r].pc \in {"chat", "slot", "start", "refresh", "claude"}
         /\ a.status = "approved"
         => a.payload.gen = run[r].gen /\ a.payload.session = run[r].resume

\* While a run executes nobody else writes its job's status.
ExecutingIsRunning ==
  \A r \in Runs : Executing(r) => job[run[r].job].status = "running"

\* A job the table shows as queued, approved or running has a goroutine that
\* is going to take it further; a restart leaves none behind.  A failed
\* statement does: the last write of a run, for one.
InProgressHasRun ==
  up /\ faults = 0 => \A j \in Jobs : job[j].status \in InProgress =>
                        \E r \in Runs : run[r].job = j

\* A job that waits for an approval can be approved: its request is pending and
\* its card delivered, unless a handler is about to see to it.  A crash or a
\* failed statement between the two writes leaves a job that waits for ever.
WaitingCanBeApproved ==
  \A j \in Jobs : crashes = 0 /\ faults = 0 /\ job[j].status = "waiting_approval" =>
    \/ \E c \in Chats : svc[c].pc \in {"ask", "card", "decide", "apply"} /\ svc[c].job = j
    \/ approval[j].status = "pending" /\ "approval" \in cards[j]

-----------------------------------------------------------------------------
(* The abstract life of a job.                                             *)

\* What is asked of the users about a job.
RequestOf(j) ==
  LET pending == approval[j].status = "pending"
      kind    == approval[j].payload.kind
  IN CASE approval[j].status = "none"     -> "none"
       [] pending /\ kind = "approval"    -> "approval"
       [] pending /\ kind # "approval"    -> "question"
       [] OTHER                           -> "decided"

\* A decision is in a handler's hands between SaveDecision and its UpdateJob.
DecisionOn(j) ==
  LET verdicts == {svc[c].verdict : c \in {d \in Chats : svc[d].pc = "apply" /\ svc[d].job = j}}
  IN CASE verdicts = {}            -> "none"
       [] "approved" \in verdicts  -> "approve"
       [] "confirmed" \in verdicts -> "confirm"
       [] OTHER                    -> "reject"

\* A run is going to mark its job running, or is on its way to its last write.
DuePcs == {"chat", "slot", "start"}
WorkingPcs == RunPcs \ (DuePcs \cup {"idle", "release", "unlock"})

JobsOf(pcs) == {run[r].job : r \in {q \in Runs : run[q].pc \in pcs}}

Lifecycle == INSTANCE JobLifecycle WITH
  status   <- [j \in Jobs |-> job[j].status],
  request  <- [j \in Jobs |-> RequestOf(j)],
  decision <- [j \in Jobs |-> DecisionOn(j)],
  due      <- JobsOf(DuePcs),
  working  <- JobsOf(WorkingPcs),
  mishaps  <- faults + crashes

\* Handlers, goroutines, locks, cards, crashes and restarts together lead every
\* job through the life JobLifecycle describes: a request is decided once, one
\* at a time works on a job, a job succeeds only when nothing about it is open,
\* and what has succeeded is never run or decided again.
LifecycleKept == Lifecycle!LifecycleSpec

-----------------------------------------------------------------------------
(* Conversations.                                                          *)

Resetting(c) == svc[c].message = "reset" /\ svc[c].pc # "idle"

\* After /clear or /new the chat has no session that a request made before the
\* command has created, however late that request's run ends.
ClearedStaysCleared ==
  \A c \in Chats : ~Resetting(c) /\ conversation[c].session # NoSession
                     => born[conversation[c].session] = epoch[c]

\* A stored session is given up only for a newer one, for a reset, or because
\* Claude no longer has it.
SessionKept ==
  [][\A c \in Chats :
       conversation[c].session # NoSession /\ conversation'[c].session # conversation[c].session
         => \/ conversation'[c].session > conversation[c].session
            \/ Resetting(c)
            \/ conversation[c].session \in gone]_vars

\* Two Claude processes never work on mutation requests at the same time.
MutationsSerialized ==
  \A r, q \in Runs : /\ run[r].pc \in {"claude", "retry"} /\ job[run[r].job].requiresApproval
                     /\ run[q].pc \in {"claude", "retry"} /\ job[run[q].job].requiresApproval
                     => r = q

-----------------------------------------------------------------------------
(* Progress.                                                               *)

\* The process is scheduled, statements and Claude return (Claude by the 15
\* minute timeout), and a restart comes.  A Go mutex and a channel serve their
\* waiters in turn; the workspace lock's condition variable does not.
Fairness ==
  /\ WF_vars(Restart)
  /\ \A c \in Chats : WF_vars(up /\ HandlerStep(c) /\ UNCHANGED <<up, crashes, orphans>>)
  /\ \A r \in Runs :
       /\ WF_vars(up /\ RunStep(r) /\ UNCHANGED <<up, crashes, orphans>>)
       /\ SF_vars(up /\ AcquireChat(r) /\ UNCHANGED <<orchestratorVars, up, crashes, orphans>>)
       /\ SF_vars(up /\ AcquireToken(r) /\ UNCHANGED <<orchestratorVars, up, crashes, orphans>>)

FairSpec == Spec /\ Fairness

\* Every goroutine that is started comes to its end: nobody waits for ever on
\* the chat lock, the workspace lock or the tokens.
RunsEnd == \A r \in Runs : run[r].pc = "chat" ~> run[r].pc = "idle"

\* Every handler releases the service's chat lock.
HandlersEnd == \A c \in Chats : svc[c].pc # "idle" ~> svc[c].pc = "idle"

\* Every job that was queued or approved comes to an outcome, a question or an
\* interruption, also across a crash.
JobsSettle ==
  \A j \in Jobs : job[j].status \in InProgress ~> job[j].status \notin InProgress
=============================================================================
