------------------------- MODULE JobLifecycleProofs -------------------------
(* What follows from the life of a job, for any set of jobs. *)
EXTENDS JobLifecycle, TLAPS

\* Nothing is open, decided or on its way for a job that has succeeded.
Settled ==
  \A j \in Jobs : status[j] = "succeeded" =>
    ~Open(j) /\ decision[j] = "none" /\ j \notin due /\ j \notin working

\* A job that has not begun has neither been undertaken nor decided, and an
\* approval is open only while its job waits for it.  A decision closes what it
\* decides.
Unbegun ==
  \A j \in Jobs :
    /\ status[j] = "none" => request[j] = "none" /\ decision[j] = "none"
    /\ status[j] \in {"none", "waiting_approval"} => j \notin due /\ j \notin working
    /\ request[j] = "approval" => status[j] = "waiting_approval"
    /\ decision[j] # "none" => request[j] = "decided"

LifeInv == LifecycleTypeOK /\ Settled /\ Unbegun

USE DEF Open, InProgressStatuses, Final

LEMMA LifeInit == Initially => LifeInv
  BY DEF Initially, LifeInv, LifecycleTypeOK, Settled, Unbegun

LEMMA LifeStep == LifeInv /\ [LifecycleNext]_lifecycleVars => LifeInv'
  <1> SUFFICES ASSUME LifeInv, [LifecycleNext]_lifecycleVars PROVE LifeInv'
    OBVIOUS
  <1> USE DEF LifeInv, LifecycleTypeOK, Settled, Unbegun, SetStatus
  <1>1. ASSUME NEW j \in Jobs, Submit(j) \/ SubmitMutation(j) PROVE LifeInv'
    BY <1>1 DEF Submit, SubmitMutation
  <1>2. ASSUME NEW j \in Jobs, AskApproval(j) \/ AskQuestion(j) PROVE LifeInv'
    BY <1>2 DEF AskApproval, AskQuestion
  <1>3. ASSUME NEW j \in Jobs, Decide(j) PROVE LifeInv'
    BY <1>3 DEF Decide
  <1>4. ASSUME NEW j \in Jobs, Start(j) PROVE LifeInv'
    BY <1>4 DEF Start
  <1>5. ASSUME NEW j \in Jobs, Reject(j) PROVE LifeInv'
    BY <1>5 DEF Reject
  <1>6. ASSUME NEW j \in Jobs, Begin(j) PROVE LifeInv'
    BY <1>6 DEF Begin
  <1>7. ASSUME NEW j \in Jobs, End(j) PROVE LifeInv'
    BY <1>7 DEF End
  <1>8. ASSUME NEW j \in Jobs, Fail(j) PROVE LifeInv'
    BY <1>8 DEF Fail
  <1>9. CASE EndAll
    BY <1>9 DEF EndAll
  <1>10. CASE Recover
    BY <1>10 DEF Recover
  <1>11. CASE UNCHANGED lifecycleVars
    BY <1>11 DEF lifecycleVars
  <1> QED
    BY <1>1, <1>2, <1>3, <1>4, <1>5, <1>6, <1>7, <1>8, <1>9, <1>10, <1>11
    DEF LifecycleNext, Lives

KeepsSuccess == \A j \in Jobs : status[j] = "succeeded" => status'[j] = "succeeded"

\* A job that has succeeded is never run, asked about or decided again.
SucceededIsFinal == [][KeepsSuccess]_lifecycleVars

LEMMA SucceededStep ==
  ASSUME LifeInv, LifecycleNext, NEW j \in Jobs, status[j] = "succeeded"
  PROVE  status'[j] = "succeeded"
  BY DEF LifeInv, LifecycleTypeOK, Settled, LifecycleNext, Lives, SetStatus, Submit,
         SubmitMutation, AskApproval, AskQuestion, Decide, Start, Reject, Begin, End, Fail,
         EndAll, Recover

\* The lifecycle promises that success is final (WriteOutcome, SaveDecision and
\* the restart never touch a job that has succeeded).
THEOREM SuccessIsFinal == LifecycleSpec => SucceededIsFinal
  <1>1. LifecycleSpec => []LifeInv
    BY LifeInit, LifeStep, PTL DEF LifecycleSpec
  <1>2. LifeInv /\ [LifecycleNext]_lifecycleVars => [KeepsSuccess]_lifecycleVars
    BY SucceededStep DEF KeepsSuccess
  <1> QED
    BY <1>1, <1>2, PTL DEF LifecycleSpec, SucceededIsFinal

\* The lifecycle promises that nothing of a mutation runs before its approval
\* is decided, and that an open approval always finds its job waiting.
THEOREM ApprovalComesFirst == LifecycleSpec => []Unbegun
  BY LifeInit, LifeStep, PTL DEF LifecycleSpec, LifeInv
=============================================================================
