---------------------------- MODULE JobLifecycle ----------------------------
(***************************************************************************)
(* What the gateway promises about one job, whoever handles it: the life   *)
(* of its row in the jobs table (domain/types.go, JobStatus), told without *)
(* handlers, goroutines, locks, sessions or cards.                         *)
(*                                                                         *)
(* A job is due when somebody has undertaken to run it, and being worked   *)
(* on when somebody writes its outcome next.  Its request is what is asked *)
(* of the users, and a decision has been made on it but not acted upon.    *)
(* Gateway implements this specification under the mapping of              *)
(* GatewayProperties.                                                      *)
(***************************************************************************)
EXTENDS Naturals

CONSTANT Jobs

VARIABLES status,    \* column status of table jobs, "none" before the insert
          request,   \* "none" so far, an open "approval" or "question", or
                     \* "decided", the last one
          decision,  \* "none", or what is about to be done about the request
          due,       \* jobs to be run
          working,   \* jobs being run
          mishaps    \* failures and ends of the process so far

lifecycleVars == <<status, request, decision, due, working, mishaps>>

InProgressStatuses == {"queued", "approved", "running"}
Final == {"succeeded", "failed", "waiting_confirmation"}

LifecycleTypeOK ==
  /\ status \in [Jobs -> InProgressStatuses \cup Final
                           \cup {"none", "waiting_approval", "rejected", "interrupted"}]
  /\ request \in [Jobs -> {"none", "approval", "question", "decided"}]
  /\ decision \in [Jobs -> {"none", "approve", "confirm", "reject"}]
  /\ due \in SUBSET Jobs
  /\ working \in SUBSET Jobs
  /\ mishaps \in Nat

Initially ==
  /\ status = [j \in Jobs |-> "none"]
  /\ request = [j \in Jobs |-> "none"]
  /\ decision = [j \in Jobs |-> "none"]
  /\ due = {} /\ working = {}
  /\ mishaps = 0

Open(j) == request[j] \in {"approval", "question"}

SetStatus(j, s) == status' = [status EXCEPT ![j] = s]

\* A request that needs no approval is queued and due at once.
Submit(j) ==
  /\ status[j] = "none"
  /\ SetStatus(j, "queued")
  /\ due' = due \cup {j}
  /\ UNCHANGED <<request, decision, working, mishaps>>

SubmitMutation(j) ==
  /\ status[j] = "none"
  /\ SetStatus(j, "waiting_approval")
  /\ UNCHANGED <<request, decision, due, working, mishaps>>

\* The approval is asked for once, before anything of the job has run.
AskApproval(j) ==
  /\ status[j] = "waiting_approval" /\ request[j] = "none"
  /\ request' = [request EXCEPT ![j] = "approval"]
  /\ UNCHANGED <<status, decision, due, working, mishaps>>

\* The one who works on a job asks, and only while nothing else is on its way.
AskQuestion(j) ==
  /\ j \in working /\ j \notin due /\ ~Open(j) /\ decision[j] = "none"
  /\ status[j] = "running"
  /\ request' = [request EXCEPT ![j] = "question"]
  /\ UNCHANGED <<status, decision, due, working, mishaps>>

\* An open request is decided once.  An approval finds its job waiting; a
\* question may be answered before the job is seen to wait for it.
Decide(j) ==
  /\ Open(j) /\ decision[j] = "none" /\ j \notin due
  /\ request[j] = "approval" => status[j] = "waiting_approval" /\ j \notin working
  /\ \E d \in {"reject", IF request[j] = "approval" THEN "approve" ELSE "confirm"} :
       decision' = [decision EXCEPT ![j] = d]
  /\ request' = [request EXCEPT ![j] = "decided"]
  /\ UNCHANGED <<status, due, working, mishaps>>

Start(j) ==
  /\ decision[j] \in {"approve", "confirm"}
  /\ SetStatus(j, IF decision[j] = "approve" THEN "approved" ELSE "queued")
  /\ decision' = [decision EXCEPT ![j] = "none"]
  /\ due' = due \cup {j}
  /\ UNCHANGED <<request, working, mishaps>>

Reject(j) ==
  /\ decision[j] = "reject"
  /\ SetStatus(j, "rejected")
  /\ decision' = [decision EXCEPT ![j] = "none"]
  /\ UNCHANGED <<request, due, working, mishaps>>

\* One at a time works on a job.
Begin(j) ==
  /\ j \in due /\ j \notin working
  /\ ~Open(j) /\ decision[j] = "none"
  /\ SetStatus(j, "running")
  /\ due' = due \ {j} /\ working' = working \cup {j}
  /\ UNCHANGED <<request, decision, mishaps>>

\* A job succeeds when it is running, nothing is asked of anyone, and nobody
\* is going to run it again.
End(j) ==
  /\ j \in working
  /\ \/ /\ status[j] = "running" /\ ~Open(j) /\ decision[j] = "none" /\ j \notin due
        /\ SetStatus(j, "succeeded")
     \/ request[j] \in {"question", "decided"} /\ SetStatus(j, "waiting_confirmation")
     \/ SetStatus(j, "failed")
  /\ working' = working \ {j}
  /\ UNCHANGED <<request, decision, due, mishaps>>

\* Something fails; whoever was to see to the job may no longer do so.
Fail(j) ==
  /\ mishaps' = mishaps + 1
  /\ \/ due' = due \ {j} /\ UNCHANGED <<decision, working>>
     \/ working' = working \ {j} /\ UNCHANGED <<decision, due>>
     \/ decision' = [decision EXCEPT ![j] = "none"] /\ UNCHANGED <<due, working>>
  /\ UNCHANGED <<status, request>>

\* The process ends: nobody sees to anything any more; what is written stays.
EndAll ==
  /\ mishaps' = mishaps + 1
  /\ due' = {} /\ working' = {}
  /\ decision' = [j \in Jobs |-> "none"]
  /\ UNCHANGED <<status, request>>

\* Before anything else happens, no job is left in progress.
Recover ==
  /\ due = {} /\ working = {}
  /\ \A j \in Jobs : decision[j] = "none"
  /\ status' = [j \in Jobs |-> IF status[j] \in InProgressStatuses THEN "interrupted"
                                                                   ELSE status[j]]
  /\ UNCHANGED <<request, decision, due, working, mishaps>>

Lives(j) ==
  \/ Submit(j) \/ SubmitMutation(j) \/ AskApproval(j) \/ AskQuestion(j)
  \/ Decide(j) \/ Start(j) \/ Reject(j) \/ Begin(j) \/ End(j) \/ Fail(j)

LifecycleNext == (\E j \in Jobs : Lives(j)) \/ EndAll \/ Recover

LifecycleSpec == Initially /\ [][LifecycleNext]_lifecycleVars
=============================================================================
