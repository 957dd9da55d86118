----------------------- MODULE GatewayLifecycleProofs -----------------------
(***************************************************************************)
(* Proofs, for every value of the constants, that the gateway leads each   *)
(* job through the life JobLifecycle describes.  What makes it inductive   *)
(* is that a job is in one hand at a time: a goroutine that has not come   *)
(* to its question or its end, an open request, or a handler between the   *)
(* request and what follows from it.  A step moves one job from hand to    *)
(* hand, so the invariant is stated job by job, and of a step one shows    *)
(* what it does to its job and that it touches no other.                   *)
(***************************************************************************)
EXTENDS GatewayProofs

UndecidedPcs == RunPcs \ {"idle", "card", "update", "release", "unlock"}

\* The goroutine has its job in hand: only it can take the job further.
Holds(me) == me.pc \in UndecidedPcs \/ (me.pc = "update" /\ me.outcome = "succeeded")

\* Its job is running until it writes the outcome.
Carries(me) ==
  \/ me.pc \in {"refresh", "claude", "clear", "retry", "persist", "record", "ask", "question"}
  \/ me.pc = "update" /\ me.outcome = "succeeded"

\* It has asked the requester, and is about to write that it has.
Asked(me) == me.pc = "card" \/ (me.pc = "update" /\ me.outcome = "waiting_confirmation")

\* It has not answered to the context it was enqueued with yet.
Bound(me) == me.pc \in {"chat", "slot", "start", "refresh", "claude"}

On(r, j) == run[r].pc # "idle" /\ run[r].job = j
Handles(c, j) == svc[c].pc \in WithJob /\ svc[c].job = j
Pending(j) == approval[j].status = "pending"
Questions(j) == approval[j].payload.kind = "requester_confirmation"

\* What a goroutine of the job says about the rest of the gateway.
RunInv(r, j) ==
  /\ run[r].chat = job[j].chat
  /\ Holds(run[r]) => /\ ~Pending(j)
                      /\ \A q \in Runs : On(q, j) /\ Holds(run[q]) => q = r
                      /\ \A c \in Chats : ~Handles(c, j)
  /\ Carries(run[r]) => job[j].status = "running"
  /\ run[r].pc = "question" => run[r].payload.kind = "requester_confirmation"
  /\ Asked(run[r]) => approval[j].status # "none" /\ (Pending(j) => Questions(j))
  /\ Bound(run[r]) /\ approval[j].status = "approved" =>
       /\ approval[j].payload.gen = run[r].gen
       /\ approval[j].payload.session = run[r].resume

Decision(verdict) == IF verdict = "confirmed" THEN "approved" ELSE verdict

\* What a handler of the job says.
HandlerInv(c, j) ==
  LET me == svc[c]
  IN /\ job[j].chat = c
     /\ me.pc \in {"ask", "card"} => /\ job[j].status = "waiting_approval"
                                     /\ me.payload.kind = "approval"
     /\ me.pc = "ask" => approval[j].status = "none"
     /\ me.pc \in {"card", "decide"} => Pending(j)
     /\ me.pc \in {"card", "decide", "apply"} => approval[j].payload = me.payload
     /\ me.pc = "apply" => approval[j].status = Decision(me.verdict)
     /\ me.pc \in {"decide", "apply"} =>
          /\ me.verdict = "approved" => me.payload.kind = "approval"
          /\ me.verdict = "confirmed" => me.payload.kind = "requester_confirmation"
          /\ me.verdict \in {"approved", "confirmed"} =>
               me.payload.gen = me.gen /\ me.payload.session = me.session

\* A job whose approval is asked for waits, and nobody runs it.
RowInv(j) ==
  /\ Pending(j) /\ ~Questions(j) => job[j].status = "waiting_approval"
  /\ job[j].status = "waiting_approval" => \A r \in Runs : ~On(r, j)

\* Somebody is going to take a job in progress further.
CaredFor(j) ==
  up /\ faults = 0 /\ job[j].status \in InProgress =>
    \E r \in Runs : On(r, j) /\ run[r].pc \in DuePcs \cup WorkingPcs

Approvable(j) ==
  crashes = 0 /\ faults = 0 /\ job[j].status = "waiting_approval" =>
    \/ \E c \in Chats : Handles(c, j)
    \/ Pending(j) /\ "approval" \in cards[j]

JobInv(j) ==
  /\ \A r \in Runs : On(r, j) => RunInv(r, j)
  /\ \A c \in Chats : Handles(c, j) => HandlerInv(c, j)
  /\ RowInv(j) /\ CaredFor(j) /\ Approvable(j)

\* A process that is down has neither goroutines nor handlers.
DownInv == ~up => /\ \A r \in Runs : run[r].pc = "idle"
                  /\ \A c \in Chats : svc[c].pc = "idle"

LifeInv == LockIndInv /\ ConsentInv /\ DownInv /\ \A j \in Jobs : JobInv(j)

-----------------------------------------------------------------------------
(* A step of one job leaves the others alone.                              *)

SameJob(j) ==
  /\ job'[j] = job[j] /\ approval'[j] = approval[j] /\ cards[j] \subseteq cards'[j]
  /\ \A r \in Runs : On(r, j) \/ On(r, j)' => run'[r] = run[r]
  /\ \A c \in Chats : Handles(c, j) \/ Handles(c, j)' => svc'[c] = svc[c]

OnlyJob(k) == \A j \in Jobs \ {k} : SameJob(j)

\* Counters count up, and a process that runs has been running.
GoesOn ==
  /\ faults' = 0 => faults = 0
  /\ crashes' = 0 => crashes = 0
  /\ up' => up

LEMMA SameJobPasses ==
  ASSUME NEW j \in Jobs, JobInv(j), SameJob(j), GoesOn
  PROVE  JobInv(j)'
<1>1. /\ \A r \in Runs : On(r, j)' <=> On(r, j)
      /\ \A c \in Chats : Handles(c, j)' <=> Handles(c, j)
  BY DEF SameJob, On, Handles
<1>2. ASSUME NEW r \in Runs, On(r, j)' PROVE RunInv(r, j)'
  <2>1. RunInv(r, j) /\ run'[r] = run[r]
    BY <1>1, <1>2 DEF SameJob, JobInv
  <2>2. \A q \in Runs : On(q, j)' => run'[q] = run[q]
    BY DEF SameJob
  <2> QED BY <1>1, <2>1, <2>2 DEF RunInv, SameJob, Pending, Questions
<1>3. ASSUME NEW c \in Chats, Handles(c, j)' PROVE HandlerInv(c, j)'
  <2>1. HandlerInv(c, j) /\ svc'[c] = svc[c]
    BY <1>1, <1>3 DEF SameJob, JobInv
  <2> QED BY <2>1 DEF HandlerInv, SameJob, Pending
<1>4. RowInv(j)'
  BY <1>1 DEF JobInv, RowInv, SameJob, Pending, Questions
<1>5. CaredFor(j)'
  BY <1>1 DEF JobInv, CaredFor, SameJob, GoesOn
<1>6. Approvable(j)'
  BY <1>1 DEF JobInv, Approvable, SameJob, GoesOn, Pending
<1> QED BY <1>2, <1>3, <1>4, <1>5, <1>6 DEF JobInv

\* Two goroutines of one job are never both past the runner's lock of its chat.
LEMMA OneInChat ==
  ASSUME LifeInv, NEW j \in Jobs, NEW r \in Runs, NEW q \in Runs, On(r, j), On(q, j),
         run[r].pc \in HasChat, run[q].pc \in HasChat
  PROVE  q = r
BY DEF LifeInv, JobInv, RunInv, LockIndInv, LockInv, ChatLockHeld

\* A job has one handler.
LEMMA OneHandler ==
  ASSUME LifeInv, NEW j \in Jobs, NEW c \in Chats, NEW d \in Chats,
         Handles(c, j), Handles(d, j)
  PROVE  d = c
BY DEF LifeInv, JobInv, HandlerInv

\* What the types say.
LEMMA LifeTypes ==
  ASSUME LifeInv
  PROVE  /\ TypeOK /\ run \in [Runs -> RunRecords] /\ svc \in [Chats -> SvcRecords]
         /\ job \in [Jobs -> JobRows] /\ approval \in [Jobs -> ApprovalRows]
         /\ cards \in [Jobs -> SUBSET CardKinds]
         /\ \A r \in Runs : run[r].pc # "idle" => run[r].job \in Jobs
         /\ \A c \in Chats : svc[c].pc \in WithJob => svc[c].job \in Jobs
         /\ faults \in Nat /\ crashes \in Nat /\ up \in BOOLEAN
BY RunnerBoundsAssumption, MaxCrashesAssumption
   DEF LifeInv, LockIndInv, TypeOK, RunnerTypeOK, RunTypeOK, StoreTypeOK,
       OrchestratorTypeOK, SvcTypeOK, WithJob

\* A goroutine moves on.
LEMMA RunMovesAlone ==
  ASSUME LifeInv, NEW r \in Runs, run[r].pc # "idle", NEW new,
         run' = [run EXCEPT ![r] = new], new.pc = "idle" \/ new.job = run[r].job,
         NEW k, k = run[r].job,
         \A j \in Jobs \ {k} : /\ job'[j] = job[j] /\ approval'[j] = approval[j]
                               /\ cards[j] \subseteq cards'[j],
         UNCHANGED svc
  PROVE  OnlyJob(k)
BY LifeTypes DEF OnlyJob, SameJob, On, Handles

\* What a goroutine may do without writing its job or its request: it takes
\* nothing in hand, and lets nothing go unless it fails.
Follows(new, old) ==
  /\ new.pc # "idle" /\ new.job = old.job /\ new.chat = old.chat
  /\ Holds(new) => Holds(old)
  /\ Carries(new) => Carries(old)
  /\ new.pc = "question" => new.payload.kind = "requester_confirmation"
  /\ Asked(new) => Asked(old)
  /\ Bound(new) => Bound(old) /\ new.gen = old.gen /\ new.resume = old.resume

LEMMA RunMoves ==
  ASSUME LifeInv, GoesOn, NEW r \in Runs, run[r].pc # "idle", NEW new,
         run' = [run EXCEPT ![r] = new], Follows(new, run[r]), NEW k, k = run[r].job,
         UNCHANGED <<job, approval, svc>>, \A j \in Jobs : cards[j] \subseteq cards'[j],
         \/ faults' # 0
         \/ run[r].pc \in DuePcs \cup WorkingPcs => new.pc \in DuePcs \cup WorkingPcs
  PROVE  OnlyJob(k) /\ JobInv(k)'
<1>0. k \in Jobs /\ JobInv(k) /\ run'[r] = new /\ \A q \in Runs \ {r} : run'[q] = run[q]
  BY LifeTypes DEF LifeInv
<1>1. OnlyJob(k)
  BY RunMovesAlone DEF Follows
<1>2. /\ On(r, k) /\ On(r, k)'
      /\ \A q \in Runs \ {r} : On(q, k)' <=> On(q, k)
      /\ \A c \in Chats : Handles(c, k)' <=> Handles(c, k)
  BY <1>0 DEF On, Handles, Follows
<1>3. RunInv(r, k)'
  BY <1>0, <1>2 DEF JobInv, RunInv, Follows, Pending, Questions
<1>4. ASSUME NEW q \in Runs \ {r}, On(q, k) PROVE RunInv(q, k)'
  BY <1>0, <1>2, <1>4 DEF JobInv, RunInv, Follows, Pending, Questions
<1>5. ASSUME NEW c \in Chats, Handles(c, k) PROVE HandlerInv(c, k)'
  BY <1>0, <1>2, <1>5 DEF JobInv, HandlerInv, Pending
<1>6. RowInv(k)'
  BY <1>0, <1>2 DEF JobInv, RowInv, Pending, Questions
<1>7. CaredFor(k)'
  BY <1>0, <1>2 DEF JobInv, CaredFor, GoesOn
<1>8. Approvable(k)'
  BY <1>0, <1>2 DEF JobInv, Approvable, GoesOn, Pending
<1> QED BY <1>1, <1>2, <1>3, <1>4, <1>5, <1>6, <1>7, <1>8 DEF JobInv

-----------------------------------------------------------------------------
(* What JobLifecycle sees of a step.                                       *)

StatusView == [j \in Jobs |-> job[j].status]
RequestView == [j \in Jobs |-> RequestOf(j)]
DecisionView == [j \in Jobs |-> DecisionOn(j)]
DueView == JobsOf(DuePcs)
WorkingView == JobsOf(WorkingPcs)

Due(j) == \E r \in Runs : On(r, j) /\ run[r].pc \in DuePcs
WorkedOn(j) == \E r \in Runs : On(r, j) /\ run[r].pc \in WorkingPcs

\* DecisionOn, for any state s of the handlers.
DecisionIn(s, j) ==
  LET verdicts == {s[c].verdict : c \in {d \in Chats : s[d].pc = "apply" /\ s[d].job = j}}
  IN CASE verdicts = {}            -> "none"
       [] "approved" \in verdicts  -> "approve"
       [] "confirmed" \in verdicts -> "confirm"
       [] OTHER                    -> "reject"

Meaning(verdict) ==
  CASE verdict = "approved"  -> "approve"
    [] verdict = "confirmed" -> "confirm"
    [] OTHER                 -> "reject"

LEMMA DecisionOnIs ==
  /\ \A j : DecisionOn(j) = DecisionIn(svc, j)
  /\ \A j : DecisionOn(j)' = DecisionIn(svc', j)
BY DEF DecisionOn, DecisionIn

LEMMA NoDecision ==
  ASSUME NEW s, NEW j, \A d \in Chats : ~(s[d].pc = "apply" /\ s[d].job = j)
  PROVE  DecisionIn(s, j) = "none"
<1>1. {s[c].verdict : c \in {d \in Chats : s[d].pc = "apply" /\ s[d].job = j}} = {}
  OBVIOUS
<1> QED BY <1>1 DEF DecisionIn

LEMMA OneDecision ==
  ASSUME NEW s, NEW j, NEW c \in Chats, s[c].pc = "apply", s[c].job = j,
         \A d \in Chats : s[d].pc = "apply" /\ s[d].job = j => d = c
  PROVE  DecisionIn(s, j) = Meaning(s[c].verdict)
<1>1. {s[e].verdict : e \in {d \in Chats : s[d].pc = "apply" /\ s[d].job = j}} = {s[c].verdict}
  OBVIOUS
<1> QED BY <1>1 DEF DecisionIn, Meaning

\* The jobs of the goroutines at some places.
LEMMA JobsAt ==
  ASSUME NEW f, \A r \in Runs : f[r].pc # "idle" => f[r].job \in Jobs, NEW pcs, "idle" \notin pcs
  PROVE  {f[r].job : r \in {q \in Runs : f[q].pc \in pcs}}
           = {j \in Jobs : \E r \in Runs : /\ f[r].pc # "idle" /\ f[r].job = j
                                           /\ f[r].pc \in pcs}
OBVIOUS

LEMMA DueAndWorking ==
  ASSUME \A r \in Runs : run[r].pc # "idle" => run[r].job \in Jobs
  PROVE  DueView = {j \in Jobs : Due(j)} /\ WorkingView = {j \in Jobs : WorkedOn(j)}
<1>1. "idle" \notin DuePcs /\ "idle" \notin WorkingPcs
  BY DEF DuePcs, WorkingPcs
<1> QED BY <1>1, JobsAt DEF DueView, WorkingView, JobsOf, Due, WorkedOn, On

LEMMA DueAndWorkingNext ==
  ASSUME \A r \in Runs : run'[r].pc # "idle" => run'[r].job \in Jobs
  PROVE  /\ DueView' = {j \in Jobs : Due(j)'}
         /\ WorkingView' = {j \in Jobs : WorkedOn(j)'}
<1>1. "idle" \notin DuePcs /\ "idle" \notin WorkingPcs
  BY DEF DuePcs, WorkingPcs
<1> QED BY <1>1, JobsAt DEF DueView, WorkingView, JobsOf, Due, WorkedOn, On

\* JobLifecycle sees nothing of the step at j.
Quiet(j) ==
  /\ job'[j].status = job[j].status
  /\ RequestOf(j)' = RequestOf(j) /\ DecisionOn(j)' = DecisionOn(j)
  /\ Due(j)' <=> Due(j)
  /\ WorkedOn(j)' <=> WorkedOn(j)

LEMMA SameIsQuiet ==
  ASSUME NEW j \in Jobs, SameJob(j)
  PROVE  Quiet(j)
<1>1. RequestOf(j)' = RequestOf(j)
  BY DEF SameJob, RequestOf
<1>2. DecisionIn(svc', j) = DecisionIn(svc, j)
  <2>1. \A d \in Chats : svc'[d].pc = "apply" /\ svc'[d].job = j
                           <=> svc[d].pc = "apply" /\ svc[d].job = j
    BY DEF SameJob, Handles, WithJob
  <2>2. \A d \in Chats : svc[d].pc = "apply" /\ svc[d].job = j => svc'[d] = svc[d]
    BY DEF SameJob, Handles, WithJob
  <2>3. {svc'[c].verdict : c \in {d \in Chats : svc'[d].pc = "apply" /\ svc'[d].job = j}}
          = {svc[c].verdict : c \in {d \in Chats : svc[d].pc = "apply" /\ svc[d].job = j}}
    BY <2>1, <2>2
  <2> QED BY <2>3 DEF DecisionIn
<1>3. (Due(j)' <=> Due(j)) /\ (WorkedOn(j)' <=> WorkedOn(j))
  BY DEF SameJob, Due, WorkedOn, On
<1> QED BY <1>1, <1>2, <1>3, DecisionOnIs DEF SameJob, Quiet

\* A step of one job, as JobLifecycle sees it.
OneJobView(k) ==
  /\ StatusView' = [StatusView EXCEPT ![k] = job'[k].status]
  /\ RequestView' = [RequestView EXCEPT ![k] = RequestOf(k)']
  /\ DecisionView' = [DecisionView EXCEPT ![k] = DecisionOn(k)']
  /\ Due(k)' => DueView' = DueView \cup {k}
  /\ ~Due(k)' => DueView' = DueView \ {k}
  /\ WorkedOn(k)' => WorkingView' = WorkingView \cup {k}
  /\ ~WorkedOn(k)' => WorkingView' = WorkingView \ {k}

LEMMA OnlyJobView ==
  ASSUME TypeOK, TypeOK', NEW k \in Jobs, OnlyJob(k)
  PROVE  OneJobView(k)
<1>1. \A j \in Jobs \ {k} : Quiet(j)
  BY SameIsQuiet DEF OnlyJob
<1>2. DueView = {j \in Jobs : Due(j)} /\ WorkingView = {j \in Jobs : WorkedOn(j)}
  BY DueAndWorking DEF TypeOK, RunnerTypeOK, RunTypeOK
<1>3. DueView' = {j \in Jobs : Due(j)'} /\ WorkingView' = {j \in Jobs : WorkedOn(j)'}
  BY DueAndWorkingNext DEF TypeOK, RunnerTypeOK, RunTypeOK
<1>4. /\ Due(k)' => DueView' = DueView \cup {k}
      /\ ~Due(k)' => DueView' = DueView \ {k}
  BY <1>1, <1>2, <1>3 DEF Quiet
<1>5. /\ WorkedOn(k)' => WorkingView' = WorkingView \cup {k}
      /\ ~WorkedOn(k)' => WorkingView' = WorkingView \ {k}
  BY <1>1, <1>2, <1>3 DEF Quiet
<1>6. /\ StatusView' = [StatusView EXCEPT ![k] = job'[k].status]
      /\ RequestView' = [RequestView EXCEPT ![k] = RequestOf(k)']
      /\ DecisionView' = [DecisionView EXCEPT ![k] = DecisionOn(k)']
  BY <1>1 DEF StatusView, RequestView, DecisionView, Quiet
<1> QED BY <1>4, <1>5, <1>6 DEF OneJobView

LifeStep == Lifecycle!LifecycleNext \/ UNCHANGED Lifecycle!lifecycleVars

\* The goroutine that holds a job: nothing is open, decided or due beside it.
LEMMA HeldView ==
  ASSUME LifeInv, NEW j \in Jobs, NEW r \in Runs, On(r, j), Holds(run[r])
  PROVE  /\ RequestOf(j) \in {"none", "decided"}
         /\ DecisionOn(j) = "none"
         /\ Due(j) <=> run[r].pc \in DuePcs
<1>1. RunInv(r, j)
  BY DEF LifeInv, JobInv
<1>2. RequestOf(j) \in {"none", "decided"}
  BY <1>1 DEF RunInv, RequestOf, Pending
<1>3. DecisionOn(j) = "none"
  BY <1>1, DecisionOnIs, NoDecision DEF RunInv, Handles, WithJob
<1>4. Due(j) <=> run[r].pc \in DuePcs
  BY <1>1 DEF RunInv, Due, Holds, UndecidedPcs, DuePcs, RunPcs
<1> QED BY <1>2, <1>3, <1>4

\* What is due has been decided.
LEMMA DueIsDecided ==
  ASSUME LifeInv, NEW j \in Jobs, Due(j)
  PROVE  DecisionOn(j) = "none"
<1>1. PICK r \in Runs : On(r, j) /\ run[r].pc \in DuePcs
  BY DEF Due
<1>2. Holds(run[r])
  BY <1>1 DEF Holds, UndecidedPcs, DuePcs, RunPcs
<1> QED BY <1>1, <1>2, HeldView

\* A step JobLifecycle sees nothing of, except perhaps that something failed.
LEMMA QuietStep ==
  ASSUME LifeInv, TypeOK', \A j \in Jobs : Quiet(j),
         faults' \in {faults, faults + 1}, crashes' = crashes
  PROVE  LifeStep
<1>1. DueView = {j \in Jobs : Due(j)} /\ WorkingView = {j \in Jobs : WorkedOn(j)}
  BY LifeTypes, DueAndWorking
<1>2. DueView' = {j \in Jobs : Due(j)'} /\ WorkingView' = {j \in Jobs : WorkedOn(j)'}
  BY DueAndWorkingNext DEF TypeOK, RunnerTypeOK, RunTypeOK
<1>3. UNCHANGED <<StatusView, RequestView, DecisionView, DueView, WorkingView>>
  <2>1. UNCHANGED <<StatusView, RequestView, DecisionView>>
    BY DEF Quiet, StatusView, RequestView, DecisionView
  <2>2. UNCHANGED <<DueView, WorkingView>>
    BY <1>1, <1>2 DEF Quiet
  <2> QED BY <2>1, <2>2
<1>4. CASE faults' = faults
  BY <1>3, <1>4 DEF LifeStep, Lifecycle!lifecycleVars, StatusView, RequestView, DecisionView,
                    DueView, WorkingView
<1>5. CASE faults' = faults + 1
  <2>1. faults' + crashes' = (faults + crashes) + 1
    BY <1>5, LifeTypes
  <2>2. CASE Jobs = {}
    <3>1. DueView = {} /\ WorkingView = {} /\ DecisionView = [j \in Jobs |-> "none"]
      BY <1>1, <2>2 DEF DecisionView
    <3>2. Lifecycle!EndAll
      BY <1>3, <2>1, <3>1 DEF Lifecycle!EndAll, StatusView, RequestView, DecisionView,
                              DueView, WorkingView
    <3> QED BY <3>2 DEF LifeStep, Lifecycle!LifecycleNext
  <2>3. ASSUME NEW j \in Jobs PROVE LifeStep
    <3>1. j \notin DueView \/ DecisionView[j] = "none"
      BY <1>1, DueIsDecided DEF DecisionView
    <3>2. \/ DueView' = DueView \ {j} /\ UNCHANGED <<DecisionView, WorkingView>>
          \/ /\ DecisionView' = [DecisionView EXCEPT ![j] = "none"]
             /\ UNCHANGED <<DueView, WorkingView>>
      BY <1>3, <3>1 DEF DecisionView
    <3>3. Lifecycle!Fail(j)
      BY <1>3, <2>1, <3>2 DEF Lifecycle!Fail, StatusView, RequestView, DecisionView,
                              DueView, WorkingView
    <3> QED BY <3>3 DEF LifeStep, Lifecycle!LifecycleNext, Lifecycle!Lives
  <2> QED BY <2>2, <2>3
<1> QED BY <1>4, <1>5

\* The step keeps the invariant of every job and is one of JobLifecycle.
Proceeds == (\A j \in Jobs : JobInv(j)') /\ LifeStep

\* It is enough to look at one job.
LEMMA OneJobProceeds ==
  ASSUME LifeInv, GoesOn, NEW k \in Jobs, OnlyJob(k), JobInv(k)', LifeStep
  PROVE  Proceeds
BY SameJobPasses DEF OnlyJob, Proceeds, LifeInv

\* or at none.
LEMMA NoJobProceeds ==
  ASSUME LifeInv, TypeOK', GoesOn, \A j \in Jobs : SameJob(j),
         faults' \in {faults, faults + 1}, crashes' = crashes
  PROVE  Proceeds
BY SameJobPasses, SameIsQuiet, QuietStep DEF Proceeds, LifeInv

-----------------------------------------------------------------------------
(* The steps of a goroutine that write neither its job nor its request.    *)

\* Where JobLifecycle sees the goroutine.
SamePart(pc, old) ==
  /\ pc \in DuePcs <=> old \in DuePcs
  /\ pc \in WorkingPcs <=> old \in WorkingPcs

LEMMA QuietMove ==
  ASSUME LifeInv, NEW r \in Runs, run[r].pc # "idle", NEW new, run' = [run EXCEPT ![r] = new],
         NEW k \in Jobs, k = run[r].job, SamePart(new.pc, run[r].pc),
         new.pc = "idle" \/ new.job = k,
         UNCHANGED <<job, approval, svc>>
  PROVE  Quiet(k)
<1>1. run'[r] = new /\ \A q \in Runs \ {r} : run'[q] = run[q]
  BY LifeTypes
<1>2. "idle" \notin DuePcs /\ "idle" \notin WorkingPcs
  BY DEF DuePcs, WorkingPcs
<1>3. (Due(k)' <=> Due(k)) /\ (WorkedOn(k)' <=> WorkedOn(k))
  BY <1>1, <1>2 DEF Due, WorkedOn, On, SamePart
<1>4. RequestOf(k)' = RequestOf(k) /\ DecisionOn(k)' = DecisionOn(k)
  BY DecisionOnIs DEF RequestOf
<1> QED BY <1>3, <1>4 DEF Quiet

\* The rest of the gateway stays, but for new cards and failures counted.
RestStays ==
  /\ UNCHANGED <<job, approval, svc, crashes, up>>
  /\ \A j \in Jobs : cards[j] \subseteq cards'[j]
  /\ faults' \in {faults, faults + 1}

LEMMA StayingGoesOn ==
  ASSUME LifeInv, RestStays
  PROVE  GoesOn
BY LifeTypes DEF RestStays, GoesOn

LEMMA RunProceeds ==
  ASSUME LifeInv, TypeOK', RestStays, NEW r \in Runs, run[r].pc # "idle", NEW new,
         run' = [run EXCEPT ![r] = new], Follows(new, run[r]), SamePart(new.pc, run[r].pc)
  PROVE  Proceeds
<1> DEFINE k == run[r].job
<1>1. PICK i \in Jobs : i = k
  BY LifeTypes
<1>2. OnlyJob(i) /\ JobInv(i)'
  BY <1>1, StayingGoesOn, RunMoves DEF SamePart, RestStays
<1>3. Quiet(i)
  BY <1>1, QuietMove DEF Follows, RestStays
<1>4. \A j \in Jobs : Quiet(j)
  BY <1>2, <1>3, SameIsQuiet DEF OnlyJob
<1> QED BY <1>2, <1>4, StayingGoesOn, QuietStep, OneJobProceeds DEF RestStays

LEMMA GotoProceeds ==
  ASSUME LifeInv, TypeOK', RestStays, NEW r \in Runs, NEW pc, Goto(r, pc),
         <<run[r].pc, pc>> \in {<<"chat", "slot">>, <<"slot", "start">>, <<"refresh", "claude">>,
                                <<"claude", "clear">>, <<"persist", "record">>,
                                <<"record", "ask">>, <<"release", "unlock">>}
  PROVE  Proceeds
<1> DEFINE new == [run[r] EXCEPT !.pc = pc]
<1>1. run' = [run EXCEPT ![r] = new]
  BY DEF Goto
<1>2. /\ run[r].pc # "idle" /\ run[r] \in RunRecords
      /\ run[r].pc \in {"chat", "slot", "refresh", "claude", "persist", "record", "release"}
  BY LifeTypes
<1>3. /\ new.pc = pc /\ new.job = run[r].job /\ new.chat = run[r].chat
      /\ new.gen = run[r].gen /\ new.resume = run[r].resume
  BY <1>2 DEF RunRecords
<1>4. Follows(new, run[r]) /\ SamePart(pc, run[r].pc)
  <2> HIDE DEF new
  <2> QED BY <1>2, <1>3 DEF Follows, SamePart, Holds, UndecidedPcs, Carries, Asked, Bound,
                            RunPcs, DuePcs, WorkingPcs
<1> QED BY <1>1, <1>2, <1>3, <1>4, RunProceeds

LEMMA FinishProceeds ==
  ASSUME LifeInv, TypeOK', RestStays, NEW r \in Runs, NEW outcome, Finish(r, outcome),
         \/ run[r].pc \in {"refresh", "record", "ask", "question", "card"} /\ outcome = "failed"
         \/ run[r].pc = "record" /\ outcome = "succeeded"
         \/ run[r].pc = "card" /\ outcome = "waiting_confirmation"
  PROVE  Proceeds
<1> DEFINE new == [run[r] EXCEPT !.outcome = outcome, !.pc = "update"]
<1>1. run' = [run EXCEPT ![r] = new]
  BY DEF Finish
<1>2. run[r].pc # "idle" /\ run[r] \in RunRecords
  BY LifeTypes
<1>3. /\ new.pc = "update" /\ new.job = run[r].job /\ new.chat = run[r].chat
      /\ new.outcome = outcome
  BY <1>2 DEF RunRecords
<1>4. Follows(new, run[r]) /\ SamePart(new.pc, run[r].pc)
  <2> HIDE DEF new
  <2> QED BY <1>2, <1>3 DEF Follows, SamePart, Holds, UndecidedPcs, Carries, Asked, Bound,
                            RunPcs, DuePcs, WorkingPcs
<1> QED BY <1>1, <1>2, <1>4, RunProceeds

\* The other moves: Claude's answer and failure, the second try, the question.
LEMMA WorkProceeds ==
  ASSUME LifeInv, TypeOK', RestStays, NEW r \in Runs,
         \/ /\ run[r].pc \in {"claude", "retry"}
            /\ \E result, session : Answered(r, result, session)
         \/ run[r].pc \in {"claude", "retry", "clear", "persist"} /\ Failed(r)
         \/ run[r].pc = "clear" /\ \E gen : Retry(r, gen)
         \/ /\ run[r].pc = "ask"
            /\ \E payload : /\ payload.kind = "requester_confirmation"
                            /\ run' = [run EXCEPT ![r] = [@ EXCEPT !.payload = payload,
                                                                  !.pc = "question"]]
  PROVE  Proceeds
<1>1. run[r].pc # "idle" /\ run[r] \in RunRecords
  BY LifeTypes
<1>2. PICK new : /\ run' = [run EXCEPT ![r] = new]
                 /\ new.job = run[r].job /\ new.chat = run[r].chat
                 /\ new.pc \in {"persist", "record", "retry", "question"}
                 /\ new.pc = "question" => new.payload.kind = "requester_confirmation"
  <2>1. ASSUME NEW result, NEW session, Answered(r, result, session)
        PROVE  \E new : /\ run' = [run EXCEPT ![r] = new]
                        /\ new.job = run[r].job /\ new.chat = run[r].chat /\ new.pc = "persist"
    <3> WITNESS [run[r] EXCEPT !.result = result, !.session = session, !.pc = "persist"]
    <3> QED BY <1>1, <2>1 DEF Answered, RunRecords
  <2>2. ASSUME Failed(r)
        PROVE  \E new : /\ run' = [run EXCEPT ![r] = new]
                        /\ new.job = run[r].job /\ new.chat = run[r].chat /\ new.pc = "record"
    <3> WITNESS [run[r] EXCEPT !.result = "error", !.pc = "record"]
    <3> QED BY <1>1, <2>2 DEF Failed, RunRecords
  <2>3. ASSUME NEW gen, Retry(r, gen)
        PROVE  \E new : /\ run' = [run EXCEPT ![r] = new]
                        /\ new.job = run[r].job /\ new.chat = run[r].chat /\ new.pc = "retry"
    <3> WITNESS [run[r] EXCEPT !.resume = NoSession, !.gen = gen, !.pc = "retry"]
    <3> QED BY <1>1, <2>3 DEF Retry, RunRecords
  <2>4. ASSUME NEW payload, payload.kind = "requester_confirmation",
               run' = [run EXCEPT ![r] = [@ EXCEPT !.payload = payload, !.pc = "question"]]
        PROVE  \E new : /\ run' = [run EXCEPT ![r] = new]
                        /\ new.job = run[r].job /\ new.chat = run[r].chat /\ new.pc = "question"
                        /\ new.payload.kind = "requester_confirmation"
    <3> WITNESS [run[r] EXCEPT !.payload = payload, !.pc = "question"]
    <3> QED BY <1>1, <2>4 DEF RunRecords
  <2> QED BY <2>1, <2>2, <2>3, <2>4
<1>3. Follows(new, run[r]) /\ SamePart(new.pc, run[r].pc)
  BY <1>1, <1>2 DEF Follows, SamePart, Holds, UndecidedPcs, Carries, Asked, Bound, RunPcs,
                    DuePcs, WorkingPcs
<1> QED BY <1>1, <1>2, <1>3, RunProceeds

-----------------------------------------------------------------------------
(* The steps of a goroutine that JobLifecycle sees.                        *)

\* A job is due, or worked on, because of a goroutine.
LEMMA Membership ==
  ASSUME LifeInv, NEW j \in Jobs
  PROVE  (j \in DueView <=> Due(j)) /\ (j \in WorkingView <=> WorkedOn(j))
BY LifeTypes, DueAndWorking

\* The goroutine returns.
LEMMA ReturnProceeds ==
  ASSUME LifeInv, TypeOK', RestStays, NEW r \in Runs, run[r].pc = "unlock",
         run' = [run EXCEPT ![r] = NoRun], faults' = faults
  PROVE  Proceeds
<1>1. PICK k \in Jobs : k = run[r].job
  BY LifeTypes
<1>2. /\ run'[r].pc = "idle" /\ \A q \in Runs \ {r} : run'[q] = run[q]
      /\ NoRun.pc = "idle"
  BY LifeTypes, NoRecordTypes
<1>3. OnlyJob(k)
  BY <1>1, <1>2, RunMovesAlone DEF RestStays
<1>4. JobInv(k) /\ UNCHANGED <<job, approval, svc>> /\ GoesOn /\ cards[k] \subseteq cards'[k]
  BY StayingGoesOn DEF LifeInv, RestStays
<1>5. /\ ~On(r, k)'
      /\ \A q \in Runs \ {r} : On(q, k)' <=> On(q, k)
      /\ \A c \in Chats : Handles(c, k)' <=> Handles(c, k)
  BY <1>2, <1>4 DEF On, Handles
<1>6. JobInv(k)'
  <2>1. ASSUME NEW q \in Runs \ {r}, On(q, k) PROVE RunInv(q, k)'
    BY <1>2, <1>4, <1>5, <2>1 DEF JobInv, RunInv, Pending, Questions
  <2>2. ASSUME NEW c \in Chats, Handles(c, k) PROVE HandlerInv(c, k)'
    BY <1>4, <2>2 DEF JobInv, HandlerInv, Pending
  <2>3. RowInv(k)'
    BY <1>2, <1>4, <1>5 DEF JobInv, RowInv, Pending, Questions
  <2>4. CaredFor(k)'
    BY <1>2, <1>4, <1>5 DEF JobInv, CaredFor, GoesOn, DuePcs, WorkingPcs
  <2>5. Approvable(k)'
    BY <1>4, <1>5 DEF JobInv, Approvable, GoesOn, Pending
  <2> QED BY <1>5, <2>1, <2>2, <2>3, <2>4, <2>5 DEF JobInv
<1>7. Quiet(k)
  <2>1. SamePart("idle", "unlock")
    BY DEF SamePart, DuePcs, WorkingPcs
  <2> QED BY <1>1, <1>2, <1>4, <2>1, QuietMove
<1>8. \A j \in Jobs : Quiet(j)
  BY <1>3, <1>7, SameIsQuiet DEF OnlyJob
<1> QED BY <1>3, <1>4, <1>6, <1>8, QuietStep, OneJobProceeds DEF RestStays

\* A goroutine that has the chat's lock works on its job alone.
LEMMA AloneInChat ==
  ASSUME LifeInv, NEW k \in Jobs, NEW r \in Runs, On(r, k), run[r].pc \in HasChat,
         NEW q \in Runs, On(q, k), run[q].pc \in WorkingPcs
  PROVE  q = r
<1>1. run[q].pc \in HasChat
  BY DEF WorkingPcs, DuePcs, HasChat
<1> QED BY <1>1, OneInChat

LEMMA StartProceeds ==
  ASSUME LifeInv, TypeOK', NEW r \in Runs, StartJob(r), UNCHANGED <<svc, cards, crashes, up>>
  PROVE  Proceeds
<1> DEFINE new == [run[r] EXCEPT !.pc = "refresh"]
<1>1. PICK k \in Jobs : k = run[r].job
  BY LifeTypes DEF StartJob, At
<1>2. /\ run[r].pc = "start" /\ run' = [run EXCEPT ![r] = new]
      /\ job' = [job EXCEPT ![k].status = "running"]
      /\ UNCHANGED <<approval, faults>>
  BY <1>1 DEF StartJob, At, Goto, UpdateJob
<1>3. /\ new.pc = "refresh" /\ new.job = k /\ new.chat = run[r].chat
      /\ new.gen = run[r].gen /\ new.resume = run[r].resume
  BY <1>1, LifeTypes DEF RunRecords
<1> HIDE DEF new
<1>4. /\ run'[r] = new /\ \A q \in Runs \ {r} : run'[q] = run[q]
      /\ job'[k].status = "running" /\ job'[k].chat = job[k].chat
      /\ \A j \in Jobs \ {k} : job'[j] = job[j]
  BY <1>2, LifeTypes DEF JobRows
<1>5. OnlyJob(k)
  BY <1>1, <1>2, <1>3, <1>4, RunMovesAlone
<1>6. JobInv(k) /\ GoesOn
  BY <1>2, LifeTypes DEF LifeInv, GoesOn
<1>7. /\ On(r, k) /\ On(r, k)'
      /\ \A q \in Runs \ {r} : On(q, k)' <=> On(q, k)
      /\ \A c \in Chats : Handles(c, k)' <=> Handles(c, k)
  BY <1>1, <1>2, <1>3, <1>4 DEF On, Handles
<1>8. /\ Holds(run[r]) /\ Bound(run[r])
      /\ ~Pending(k) /\ \A c \in Chats : ~Handles(c, k)
      /\ \A q \in Runs \ {r} : On(q, k) => ~Holds(run[q])
  <2>1. Holds(run[r]) /\ Bound(run[r])
    BY <1>2 DEF Holds, UndecidedPcs, Bound, RunPcs
  <2> QED BY <1>6, <1>7, <2>1 DEF JobInv, RunInv
<1>9. JobInv(k)'
  <2>1. ~Asked(new) /\ Holds(new) /\ new.pc # "question"
    BY <1>3 DEF Asked, Holds, UndecidedPcs, RunPcs
  <2>2. RunInv(r, k)'
    BY <1>2, <1>3, <1>4, <1>6, <1>7, <1>8, <2>1 DEF JobInv, RunInv, Pending, Questions
  <2>3. ASSUME NEW q \in Runs \ {r}, On(q, k) PROVE RunInv(q, k)'
    <3>1. ~Holds(run[q]) /\ RunInv(q, k) /\ run'[q] = run[q]
      BY <1>4, <1>6, <1>8, <2>3 DEF JobInv
    <3>2. ~Bound(run[q])
      BY <3>1 DEF Bound, Holds, UndecidedPcs, RunPcs
    <3> QED BY <1>2, <1>4, <3>1, <3>2 DEF RunInv, Pending, Questions
  <2>4. RowInv(k)' /\ Approvable(k)'
    BY <1>2, <1>4, <1>8 DEF RowInv, Approvable, Pending
  <2>5. CaredFor(k)'
    BY <1>3, <1>4, <1>7 DEF CaredFor, WorkingPcs, DuePcs, RunPcs
  <2> QED BY <1>7, <1>8, <2>2, <2>3, <2>4, <2>5 DEF JobInv
<1>10. LifeStep
  <2>1. OneJobView(k) /\ k \in DueView /\ k \notin WorkingView
    <3>1. Due(k)
      BY <1>2, <1>7 DEF Due, DuePcs
    <3>2. ~WorkedOn(k)
      BY <1>2, <1>7, AloneInChat DEF WorkedOn, WorkingPcs, DuePcs, HasChat, RunPcs
    <3> QED BY <1>5, <3>1, <3>2, Membership, OnlyJobView, LifeTypes
  <2>2. RequestOf(k)' = RequestOf(k) /\ DecisionOn(k)' = DecisionOn(k)
    BY <1>2, DecisionOnIs DEF RequestOf
  <2>3. RequestOf(k) \in {"none", "decided"} /\ DecisionOn(k) = "none"
    BY <1>7, <1>8, HeldView
  <2>4. ~Due(k)' /\ WorkedOn(k)'
    <3>1. \A q \in Runs \ {r} : On(q, k)' => run'[q].pc \notin DuePcs
      BY <1>4, <1>7, <1>8 DEF Holds, UndecidedPcs, DuePcs, RunPcs
    <3> QED BY <1>3, <1>4, <1>7, <3>1 DEF Due, WorkedOn, DuePcs, WorkingPcs, RunPcs
  <2>5. /\ StatusView' = [StatusView EXCEPT ![k] = "running"]
        /\ RequestView' = RequestView /\ DecisionView' = DecisionView
        /\ DueView' = DueView \ {k} /\ WorkingView' = WorkingView \cup {k}
    BY <1>4, <2>1, <2>2, <2>4 DEF OneJobView, RequestView, DecisionView
  <2>6. Lifecycle!Begin(k)
    BY <1>2, <2>1, <2>3, <2>5
    DEF Lifecycle!Begin, Lifecycle!Open, Lifecycle!SetStatus, StatusView, RequestView,
        DecisionView, DueView, WorkingView
  <2> QED BY <2>6 DEF LifeStep, Lifecycle!LifecycleNext, Lifecycle!Lives
<1> QED BY <1>5, <1>6, <1>9, <1>10, OneJobProceeds

LEMMA OutcomeProceeds ==
  ASSUME LifeInv, TypeOK', NEW r \in Runs, WriteOutcome(r), UNCHANGED <<svc, cards, crashes, up>>
  PROVE  Proceeds
<1> DEFINE new == [run[r] EXCEPT !.pc = "release"]
           outcome == run[r].outcome
<1>1. PICK k \in Jobs : k = run[r].job
  BY LifeTypes DEF WriteOutcome, At
<1>2. PICK o : o = outcome
  OBVIOUS
<1>3. /\ run[r].pc = "update" /\ run' = [run EXCEPT ![r] = new]
      /\ job' = [job EXCEPT ![k].status = o]
      /\ UNCHANGED <<approval, faults>>
  BY <1>1, <1>2 DEF WriteOutcome, At, Goto, UpdateJob
<1>4. o \in {"succeeded", "failed", "waiting_confirmation"}
  <2>1. run[r] \in RunRecords
    BY LifeTypes
  <2>2. o \in Outcomes
    BY <1>2, <2>1 DEF RunRecords
  <2>3. o # "none"
    BY <1>2, <1>3 DEF LifeInv, ConsentInv, RunsConsent, RunConsent
  <2> QED BY <2>2, <2>3 DEF Outcomes
<1>5. new.pc = "release" /\ new.job = k /\ new.chat = run[r].chat
  BY <1>1, LifeTypes DEF RunRecords
<1> HIDE DEF new
<1>6. /\ run'[r] = new /\ \A q \in Runs \ {r} : run'[q] = run[q]
      /\ job'[k].status = o /\ job'[k].chat = job[k].chat
      /\ \A j \in Jobs \ {k} : job'[j] = job[j]
  BY <1>3, LifeTypes DEF JobRows
<1>7. OnlyJob(k)
  BY <1>1, <1>3, <1>5, <1>6, RunMovesAlone
<1>8. JobInv(k) /\ GoesOn
  BY <1>3, LifeTypes DEF LifeInv, GoesOn
<1>9. /\ On(r, k) /\ On(r, k)'
      /\ \A q \in Runs \ {r} : On(q, k)' <=> On(q, k)
      /\ \A c \in Chats : Handles(c, k)' <=> Handles(c, k)
  BY <1>1, <1>3, <1>5, <1>6 DEF On, Handles
<1>10. \A q \in Runs \ {r} : On(q, k) => run[q].pc \notin WorkingPcs
  BY <1>3, <1>9, AloneInChat DEF HasChat, RunPcs
<1>11. job[k].status # "waiting_approval"
  BY <1>8, <1>9 DEF JobInv, RowInv
<1>12. JobInv(k)'
  <2>1. ~Holds(new) /\ ~Carries(new) /\ ~Asked(new) /\ ~Bound(new) /\ new.pc # "question"
    BY <1>5 DEF Holds, UndecidedPcs, Carries, Asked, Bound
  <2>2. RunInv(r, k)'
    BY <1>5, <1>6, <1>8, <1>9, <2>1 DEF JobInv, RunInv
  <2>3. ASSUME NEW q \in Runs \ {r}, On(q, k) PROVE RunInv(q, k)'
    <3>1. RunInv(q, k) /\ run'[q] = run[q]
      BY <1>6, <1>8, <2>3 DEF JobInv
    <3>2. ~Carries(run[q])
      BY <1>10, <2>3 DEF Carries, WorkingPcs, DuePcs, RunPcs
    <3>3. \A p \in Runs : On(p, k)' /\ Holds(run'[p]) => On(p, k) /\ Holds(run[p])
      BY <1>6, <1>9, <2>1
    <3> QED BY <1>3, <1>6, <1>9, <3>1, <3>2, <3>3 DEF RunInv, Pending, Questions
  <2>4. ASSUME NEW c \in Chats, Handles(c, k) PROVE HandlerInv(c, k)'
    <3>1. svc[c].pc \notin {"ask", "card"}
      BY <1>8, <1>11, <2>4 DEF JobInv, HandlerInv
    <3> QED BY <1>3, <1>6, <1>8, <2>4, <3>1 DEF JobInv, HandlerInv, Pending
  <2>5. RowInv(k)'
    BY <1>3, <1>4, <1>6, <1>8, <1>11 DEF JobInv, RowInv, Pending, Questions
  <2>6. CaredFor(k)' /\ Approvable(k)'
    BY <1>4, <1>6 DEF CaredFor, Approvable, InProgress
  <2> QED BY <1>9, <2>2, <2>3, <2>4, <2>5, <2>6 DEF JobInv
<1>13. LifeStep
  <2>1. OneJobView(k) /\ k \in WorkingView
    <3>1. WorkedOn(k)
      BY <1>3, <1>9 DEF WorkedOn, WorkingPcs, RunPcs, DuePcs
    <3> QED BY <1>7, <3>1, Membership, OnlyJobView, LifeTypes
  <2>2. RequestOf(k)' = RequestOf(k) /\ DecisionOn(k)' = DecisionOn(k)
    BY <1>3, DecisionOnIs DEF RequestOf
  <2>3. (Due(k)' <=> Due(k)) /\ ~WorkedOn(k)'
    BY <1>3, <1>5, <1>6, <1>9, <1>10 DEF Due, WorkedOn, DuePcs, WorkingPcs
  <2>4. /\ StatusView' = [StatusView EXCEPT ![k] = o]
        /\ RequestView' = RequestView /\ DecisionView' = DecisionView
        /\ DueView' = DueView /\ WorkingView' = WorkingView \ {k}
    BY <1>6, <2>1, <2>2, <2>3, Membership DEF OneJobView, RequestView, DecisionView
  <2>5. \/ o = "succeeded" /\ job[k].status = "running" /\ k \notin DueView
           /\ RequestOf(k) \in {"none", "decided"} /\ DecisionOn(k) = "none"
        \/ o = "waiting_confirmation" /\ RequestOf(k) \in {"question", "decided"}
        \/ o = "failed"
    <3>1. CASE o = "succeeded"
      <4>1. Holds(run[r]) /\ Carries(run[r])
        BY <1>2, <1>3, <3>1 DEF Holds, Carries
      <4>2. RunInv(r, k) /\ run[r].pc \notin DuePcs
        BY <1>3, <1>8, <1>9 DEF JobInv, DuePcs
      <4> QED BY <1>9, <3>1, <4>1, <4>2, HeldView, Membership DEF RunInv
    <3>2. CASE o = "waiting_confirmation"
      <4>1. Asked(run[r]) /\ RunInv(r, k)
        BY <1>2, <1>3, <1>8, <1>9, <3>2 DEF Asked, JobInv
      <4> QED BY <3>2, <4>1 DEF RunInv, RequestOf, Pending, Questions
    <3> QED BY <1>4, <3>1, <3>2
  <2>6. Lifecycle!End(k)
    BY <1>3, <2>1, <2>4, <2>5
    DEF Lifecycle!End, Lifecycle!Open, Lifecycle!SetStatus, StatusView, RequestView,
        DecisionView, DueView, WorkingView
  <2> QED BY <2>6 DEF LifeStep, Lifecycle!LifecycleNext, Lifecycle!Lives
<1> QED BY <1>7, <1>8, <1>12, <1>13, OneJobProceeds

LEMMA QuestionProceeds ==
  ASSUME LifeInv, TypeOK', NEW r \in Runs, SaveQuestion(r), UNCHANGED <<crashes, up>>
  PROVE  Proceeds
<1> DEFINE new == [run[r] EXCEPT !.pc = "card"]
<1>1. PICK k \in Jobs : k = run[r].job
  BY LifeTypes DEF SaveQuestion, At
<1>2. /\ run[r].pc = "question" /\ run' = [run EXCEPT ![r] = new]
      /\ approval' = [approval EXCEPT ![k] = [status |-> "pending", payload |-> run[r].payload]]
      /\ UNCHANGED <<job, faults, svc, cards>>
  BY <1>1 DEF SaveQuestion, At, Goto, SaveApproval, orchestratorVars
<1>3. new.pc = "card" /\ new.job = k /\ new.chat = run[r].chat
  BY <1>1, LifeTypes DEF RunRecords
<1> HIDE DEF new
<1>4. /\ run'[r] = new /\ \A q \in Runs \ {r} : run'[q] = run[q]
      /\ approval'[k].status = "pending" /\ approval'[k].payload = run[r].payload
      /\ \A j \in Jobs \ {k} : approval'[j] = approval[j]
  BY <1>2, LifeTypes
<1>5. OnlyJob(k)
  BY <1>1, <1>2, <1>3, <1>4, RunMovesAlone
<1>6. JobInv(k) /\ GoesOn
  BY <1>2, LifeTypes DEF LifeInv, GoesOn
<1>7. /\ On(r, k) /\ On(r, k)'
      /\ \A q \in Runs \ {r} : On(q, k)' <=> On(q, k)
      /\ \A c \in Chats : Handles(c, k)' <=> Handles(c, k)
  BY <1>1, <1>2, <1>3, <1>4 DEF On, Handles
<1>8. /\ Holds(run[r]) /\ job[k].status = "running"
      /\ run[r].payload.kind = "requester_confirmation"
      /\ \A c \in Chats : ~Handles(c, k)
      /\ \A q \in Runs \ {r} : On(q, k) => ~Holds(run[q])
  <2>1. Holds(run[r]) /\ Carries(run[r])
    BY <1>2 DEF Holds, Carries, UndecidedPcs, RunPcs
  <2> QED BY <1>2, <1>6, <1>7, <2>1 DEF JobInv, RunInv
<1>9. Questions(k)'
  BY <1>4, <1>8 DEF Questions
<1>10. JobInv(k)'
  <2>1. ~Holds(new) /\ ~Carries(new) /\ ~Bound(new) /\ new.pc # "question"
    BY <1>3 DEF Holds, UndecidedPcs, Carries, Bound
  <2>2. RunInv(r, k)'
    BY <1>2, <1>3, <1>4, <1>6, <1>7, <1>9, <2>1 DEF JobInv, RunInv
  <2>3. ASSUME NEW q \in Runs \ {r}, On(q, k) PROVE RunInv(q, k)'
    <3>1. ~Holds(run[q]) /\ RunInv(q, k) /\ run'[q] = run[q]
      BY <1>4, <1>6, <1>8, <2>3 DEF JobInv
    <3>2. ~Bound(run[q]) /\ run[q].pc # "question"
      BY <3>1 DEF Bound, Holds, UndecidedPcs, RunPcs
    <3> QED BY <1>2, <1>4, <1>9, <3>1, <3>2 DEF RunInv
  <2>4. RowInv(k)' /\ Approvable(k)'
    BY <1>2, <1>8, <1>9 DEF RowInv, Approvable
  <2>5. CaredFor(k)'
    BY <1>3, <1>4, <1>7 DEF CaredFor, WorkingPcs, DuePcs, RunPcs
  <2> QED BY <1>7, <1>8, <2>2, <2>3, <2>4, <2>5 DEF JobInv
<1>11. LifeStep
  <2>1. /\ OneJobView(k) /\ k \notin DueView /\ k \in WorkingView
        /\ RequestOf(k) \in {"none", "decided"} /\ DecisionOn(k) = "none"
    <3>1. WorkedOn(k)
      BY <1>2, <1>7 DEF WorkedOn, WorkingPcs, DuePcs, RunPcs
    <3>2. ~Due(k)
      BY <1>2, <1>7, <1>8, HeldView DEF DuePcs
    <3> QED BY <1>5, <1>7, <1>8, <3>1, <3>2, HeldView, Membership, OnlyJobView, LifeTypes
  <2>2. RequestOf(k)' = "question" /\ DecisionOn(k)' = DecisionOn(k)
    BY <1>2, <1>4, <1>8, DecisionOnIs DEF RequestOf
  <2>3. ~Due(k)' /\ WorkedOn(k)'
    <3>1. ~Due(k)
      BY <2>1, Membership
    <3> QED BY <1>3, <1>4, <1>7, <3>1 DEF Due, WorkedOn, DuePcs, WorkingPcs, RunPcs
  <2>4. /\ RequestView' = [RequestView EXCEPT ![k] = "question"]
        /\ StatusView' = StatusView /\ DecisionView' = DecisionView
        /\ DueView' = DueView /\ WorkingView' = WorkingView
    BY <1>2, <2>1, <2>2, <2>3 DEF OneJobView, StatusView, DecisionView
  <2>5. Lifecycle!AskQuestion(k)
    BY <1>2, <1>8, <2>1, <2>4
    DEF Lifecycle!AskQuestion, Lifecycle!Open, StatusView, RequestView, DecisionView, DueView,
        WorkingView
  <2> QED BY <2>5 DEF LifeStep, Lifecycle!LifecycleNext, Lifecycle!Lives
<1> QED BY <1>5, <1>6, <1>10, <1>11, OneJobProceeds

\* A statement that fails ends the goroutine before its job is running, or
\* leaves the outcome unwritten.
LEMMA AbandonProceeds ==
  ASSUME LifeInv, TypeOK', NEW r \in Runs, run[r].pc \in {"start", "update"},
         Goto(r, "release"), RestStays, faults' = faults + 1
  PROVE  Proceeds
<1> DEFINE new == [run[r] EXCEPT !.pc = "release"]
<1>1. PICK k \in Jobs : k = run[r].job
  BY LifeTypes
<1>2. run' = [run EXCEPT ![r] = new] /\ new.pc = "release" /\ new.job = k /\ new.chat = run[r].chat
  BY <1>1, LifeTypes DEF Goto, RunRecords
<1> HIDE DEF new
<1>3. UNCHANGED <<job, approval, svc, crashes>> /\ GoesOn /\ faults' # 0
  BY LifeTypes, StayingGoesOn DEF RestStays
<1>4. OnlyJob(k) /\ JobInv(k)'
  <2>1. Follows(new, run[r])
    BY <1>1, <1>2 DEF Follows, Holds, UndecidedPcs, Carries, Asked, Bound
  <2> QED BY <1>1, <1>2, <1>3, <2>1, RunMoves DEF RestStays
<1>5. LifeStep
  <2>1. OneJobView(k)
    BY <1>4, OnlyJobView, LifeTypes
  <2>2. RequestOf(k)' = RequestOf(k) /\ DecisionOn(k)' = DecisionOn(k)
    BY <1>3, DecisionOnIs DEF RequestOf
  <2>3. /\ run'[r] = new /\ \A q \in Runs \ {r} : run'[q] = run[q] /\ (On(q, k)' <=> On(q, k))
        /\ On(r, k)
    BY <1>1, <1>2, LifeTypes DEF On
  <2>4. /\ StatusView' = StatusView /\ RequestView' = RequestView
        /\ DecisionView' = DecisionView
    BY <1>3, <2>1, <2>2 DEF OneJobView, StatusView, RequestView, DecisionView
  <2>5. \/ DueView' = DueView \ {k} /\ WorkingView' = WorkingView
        \/ WorkingView' = WorkingView \ {k} /\ DueView' = DueView
    <3>1. CASE run[r].pc = "start"
      <4>1. Holds(run[r])
        BY <3>1 DEF Holds, UndecidedPcs, RunPcs
      <4>2. \A q \in Runs \ {r} : On(q, k) => ~Holds(run[q])
        BY <2>3, <4>1 DEF LifeInv, JobInv, RunInv
      <4>3. ~Due(k)'
        BY <1>2, <2>3, <4>2 DEF Due, DuePcs, Holds, UndecidedPcs, RunPcs
      <4>4. WorkedOn(k)' <=> WorkedOn(k)
        BY <1>2, <2>3, <3>1 DEF WorkedOn, WorkingPcs, DuePcs
      <4> QED BY <2>1, <4>3, <4>4, Membership DEF OneJobView
    <3>2. CASE run[r].pc = "update"
      <4>1. \A q \in Runs \ {r} : On(q, k) => run[q].pc \notin WorkingPcs
        BY <2>3, <3>2, AloneInChat DEF HasChat, RunPcs
      <4>2. ~WorkedOn(k)'
        BY <1>2, <2>3, <4>1 DEF WorkedOn, WorkingPcs
      <4>3. Due(k)' <=> Due(k)
        BY <1>2, <2>3, <3>2 DEF Due, DuePcs
      <4> QED BY <2>1, <4>2, <4>3, Membership DEF OneJobView
    <3> QED BY <3>1, <3>2
  <2>6. faults' + crashes' = (faults + crashes) + 1
    BY <1>3, LifeTypes
  <2>7. Lifecycle!Fail(k)
    BY <2>4, <2>5, <2>6
    DEF Lifecycle!Fail, StatusView, RequestView, DecisionView, DueView, WorkingView
  <2> QED BY <2>7 DEF LifeStep, Lifecycle!LifecycleNext, Lifecycle!Lives
<1> QED BY <1>3, <1>4, <1>5, OneJobProceeds

\* The runner's goroutine, whatever it does next.
LEMMA RunnerProceeds ==
  ASSUME LifeInv, TypeOK', NEW r \in Runs, RunnerStep(r) \/ RunStatementFails(r),
         UNCHANGED <<orchestratorVars, crashes, up>>
  PROVE  Proceeds
<1>0. UNCHANGED <<svc, cards>>
  BY DEF orchestratorVars
<1>1. ASSUME UNCHANGED <<job, approval>>, faults' \in {faults, faults + 1} PROVE RestStays
  BY <1>0, <1>1 DEF RestStays
<1>2. CASE AcquireChat(r) \/ AcquireWorkspace(r) \/ AcquireToken(r) \/ ReleaseSlot(r)
  <2>1. RestStays
    BY <1>1, <1>2 DEF AcquireChat, AcquireWorkspace, AcquireToken, ReleaseSlot, storeVars
  <2>2. \/ run[r].pc = "chat" /\ Goto(r, "slot")
        \/ run[r].pc = "slot" /\ Goto(r, "start")
        \/ run[r].pc = "release" /\ Goto(r, "unlock")
    BY <1>2 DEF AcquireChat, AcquireWorkspace, AcquireToken, ReleaseSlot, At
  <2> QED BY <2>1, <2>2, GotoProceeds
<1>3. CASE StartJob(r)
  BY <1>0, <1>3, StartProceeds
<1>4. CASE RefreshContext(r)
  <2>1. RestStays
    BY <1>1, <1>4 DEF RefreshContext, storeVars
  <2>2. run[r].pc = "refresh" /\ (Goto(r, "claude") \/ Finish(r, "failed"))
    BY <1>4 DEF RefreshContext, At
  <2> QED BY <2>1, <2>2, GotoProceeds, FinishProceeds
<1>5. CASE ClaudeAnswers(r) \/ ClaudeFails(r) \/ ClearMissingSession(r)
  <2>1. RestStays
    BY <1>1, <1>5 DEF ClaudeAnswers, ClaudeFails, ClearMissingSession, storeVars
  <2>2. \/ /\ run[r].pc \in {"claude", "retry"}
           /\ \E result, session : Answered(r, result, session)
        \/ run[r].pc \in {"claude", "retry"} /\ Failed(r)
        \/ run[r].pc = "clear" /\ \E gen : Retry(r, gen)
    BY <1>5 DEF ClaudeAnswers, ClaudeFails, ClearMissingSession, At
  <2> QED BY <2>1, <2>2, WorkProceeds
<1>6. CASE ClaudeMissesSession(r)
  <2>1. RestStays
    BY <1>1, <1>6 DEF ClaudeMissesSession, storeVars
  <2> QED BY <1>6, <2>1, GotoProceeds DEF ClaudeMissesSession, At
<1>7. CASE PersistSession(r)
  <2>1. RestStays
    BY <1>1, <1>7 DEF PersistSession
  <2> QED BY <1>7, <2>1, GotoProceeds DEF PersistSession, At
<1>8. ASSUME AfterRecord(r), run[r].pc = "record", RestStays PROVE Proceeds
  <2>1. Finish(r, "failed") \/ Goto(r, "ask") \/ Finish(r, "succeeded")
    BY <1>8 DEF AfterRecord
  <2> QED BY <1>8, <2>1, GotoProceeds, FinishProceeds
<1>9. CASE RecordWorker(r)
  <2>1. RestStays
    BY <1>1, <1>9 DEF RecordWorker
  <2> QED BY <1>8, <1>9, <2>1 DEF RecordWorker, At
<1>10. CASE WriteOutcome(r)
  BY <1>0, <1>10, OutcomeProceeds
<1>11. CASE ReleaseChat(r)
  <2>1. RestStays /\ faults' = faults
    BY <1>1, <1>11 DEF ReleaseChat, storeVars
  <2> QED BY <1>11, <2>1, ReturnProceeds DEF ReleaseChat, At
<1>12. CASE RunStatementFails(r)
  <2>1. RestStays /\ faults' = faults + 1
    BY <1>1, <1>12 DEF RunStatementFails, storeVars
  <2>2. \/ run[r].pc \in {"start", "update"} /\ Goto(r, "release")
        \/ run[r].pc \in {"refresh", "ask", "question"} /\ Finish(r, "failed")
        \/ run[r].pc \in {"clear", "persist"} /\ Failed(r)
        \/ run[r].pc = "record" /\ AfterRecord(r)
    BY <1>12 DEF RunStatementFails, At
  <2> QED BY <1>8, <2>1, <2>2, AbandonProceeds, FinishProceeds, WorkProceeds
<1> QED BY <1>2, <1>3, <1>4, <1>5, <1>6, <1>7, <1>9, <1>10, <1>11, <1>12 DEF RunnerStep

\* The goroutine that asks the requester.
LEMMA AskerProceeds ==
  ASSUME LifeInv, TypeOK', NEW r \in Runs,
         ReadQuestionContext(r) \/ SaveQuestion(r) \/ SendQuestion(r) \/ QuestionFails(r),
         UNCHANGED <<crashes, up>>
  PROVE  Proceeds
<1>0. cards \in [Jobs -> SUBSET CardKinds] /\ (run[r].pc # "idle" => run[r].job \in Jobs)
  BY LifeTypes
<1>1. CASE ReadQuestionContext(r)
  <2>1. RestStays
    BY <1>1 DEF ReadQuestionContext, RestStays, storeVars, orchestratorVars
  <2>2. /\ run[r].pc = "ask"
        /\ \E payload : /\ payload.kind = "requester_confirmation"
                        /\ run' = [run EXCEPT ![r] = [@ EXCEPT !.payload = payload,
                                                              !.pc = "question"]]
    BY <1>1 DEF ReadQuestionContext, At
  <2> QED BY <2>1, <2>2, WorkProceeds
<1>2. CASE SaveQuestion(r)
  BY <1>2, QuestionProceeds
<1>3. CASE SendQuestion(r) \/ QuestionFails(r)
  <2>1. /\ run[r].pc = "card" /\ UNCHANGED <<job, approval, svc>>
        /\ Finish(r, "waiting_confirmation") \/ Finish(r, "failed")
        /\ cards' \in {cards, [cards EXCEPT ![run[r].job] = @ \cup {"requester_confirmation"}]}
        /\ faults' \in {faults, faults + 1}
    BY <1>3 DEF SendQuestion, QuestionFails, CardFails, At, storeVars
  <2>2. RestStays
    BY <1>0, <2>1 DEF RestStays
  <2> QED BY <2>1, <2>2, FinishProceeds
<1> QED BY <1>1, <1>2, <1>3

-----------------------------------------------------------------------------
(* The steps of a handler.                                                 *)

LEMMA DecisionOf ==
  ASSUME NEW s, NEW j, NEW c \in Chats,
         \A d \in Chats : s[d].pc = "apply" /\ s[d].job = j => d = c
  PROVE  DecisionIn(s, j) = IF s[c].pc = "apply" /\ s[c].job = j THEN Meaning(s[c].verdict)
                                                                ELSE "none"
BY NoDecision, OneDecision

\* No other handler has the job.
OwnHandler(c, k) == \A d \in Chats : Handles(d, k) => d = c

\* The rows and the goroutines of the other jobs stay.
OthersStay(k) ==
  \A j \in Jobs \ {k} :
    /\ job'[j] = job[j] /\ approval'[j] = approval[j] /\ cards[j] \subseteq cards'[j]
    /\ \A q \in Runs : On(q, j) \/ On(q, j)' => run'[q] = run[q]

\* A handler moves on, with the one job it has or takes.
LEMMA SvcMoves ==
  ASSUME LifeInv, NEW c \in Chats, NEW new, svc' = [svc EXCEPT ![c] = new], NEW k \in Jobs,
         svc[c].pc \in WithJob => svc[c].job = k, new.pc \in WithJob => new.job = k,
         OwnHandler(c, k), OthersStay(k)
  PROVE  /\ OnlyJob(k)
         /\ svc'[c] = new
         /\ OwnHandler(c, k)'
         /\ Handles(c, k)' <=> new.pc \in WithJob
         /\ svc[c].pc # "apply" => DecisionOn(k) = "none"
         /\ svc[c].pc = "apply" => DecisionOn(k) = Meaning(svc[c].verdict)
         /\ new.pc # "apply" => DecisionOn(k)' = "none"
         /\ new.pc = "apply" => DecisionOn(k)' = Meaning(new.verdict)
<1>1. svc'[c] = new /\ \A d \in Chats \ {c} : svc'[d] = svc[d]
  BY LifeTypes
<1>2. OwnHandler(c, k)'
  BY <1>1 DEF OwnHandler, Handles
<1>3. Handles(c, k)' <=> new.pc \in WithJob
  BY <1>1 DEF Handles
<1>4. OnlyJob(k)
  BY <1>1 DEF OnlyJob, SameJob, Handles, OthersStay, OwnHandler
<1>5. "apply" \in WithJob
  BY DEF WithJob
<1>6. DecisionIn(svc, k) = IF svc[c].pc = "apply" THEN Meaning(svc[c].verdict) ELSE "none"
  BY <1>5, DecisionOf DEF Handles, OwnHandler
<1>7. DecisionIn(svc', k) = IF new.pc = "apply" THEN Meaning(new.verdict) ELSE "none"
  <2>1. PICK t : t = svc'
    OBVIOUS
  <2>2. \A d \in Chats : t[d].pc = "apply" /\ t[d].job = k => d = c
    BY <1>2, <1>5, <2>1 DEF Handles, OwnHandler
  <2>3. DecisionIn(t, k) = IF t[c].pc = "apply" /\ t[c].job = k THEN Meaning(t[c].verdict)
                                                                ELSE "none"
    BY ONLY <2>2, DecisionOf, k \in Jobs, c \in Chats
  <2>4. DecisionIn(svc', k) = IF svc'[c].pc = "apply" /\ svc'[c].job = k
                                THEN Meaning(svc'[c].verdict) ELSE "none"
    BY <2>1, <2>3 DEF DecisionIn
  <2> QED BY <1>1, <1>5, <2>4
<1> QED BY <1>1, <1>2, <1>3, <1>4, <1>6, <1>7, DecisionOnIs

\* A handler without a job goes on without one.
LEMMA JoblessProceeds ==
  ASSUME LifeInv, TypeOK', NEW c \in Chats, NEW new, svc' = [svc EXCEPT ![c] = new],
         svc[c].pc \notin WithJob, new.pc \notin WithJob,
         UNCHANGED <<job, approval, cards, run, crashes, up>>, faults' \in {faults, faults + 1}
  PROVE  Proceeds
<1>1. \A d \in Chats : svc'[d].pc \in WithJob <=> svc[d].pc \in WithJob
  BY LifeTypes
<1>2. \A d \in Chats : svc'[d].pc \in WithJob => svc'[d] = svc[d]
  BY LifeTypes
<1>3. \A j \in Jobs : SameJob(j)
  BY <1>1, <1>2 DEF SameJob, Handles
<1>4. GoesOn
  BY LifeTypes DEF GoesOn
<1> QED BY <1>3, <1>4, NoJobProceeds

\* A handler that writes no row moves on: the rows and the goroutines of its
\* job are as they were.
LEMMA HandlerMoveProceeds ==
  ASSUME LifeInv, TypeOK', NEW c \in Chats, NEW new, svc' = [svc EXCEPT ![c] = new],
         NEW k \in Jobs, svc[c].pc \in WithJob => svc[c].job = k,
         new.pc \in WithJob => new.job = k,
         new.pc \in WithJob => HandlerInv(c, k)' /\ \A r \in Runs : On(r, k) => ~Holds(run[r]),
         OwnHandler(c, k),
         UNCHANGED <<job, approval, run, crashes, up>>, faults' \in {faults, faults + 1},
         \A j \in Jobs : cards[j] \subseteq cards'[j],
         Approvable(k)', svc[c].pc # "apply", new.pc # "apply"
  PROVE  Proceeds
<1>1. OthersStay(k)
  BY DEF OthersStay
<1>2. /\ OnlyJob(k) /\ svc'[c] = new /\ OwnHandler(c, k)'
      /\ Handles(c, k)' <=> new.pc \in WithJob
      /\ DecisionOn(k)' = DecisionOn(k)
  BY <1>1, SvcMoves
<1>3. GoesOn /\ JobInv(k)
  BY LifeTypes DEF GoesOn, LifeInv
<1>4. JobInv(k)'
  <2>1. ASSUME NEW r \in Runs, On(r, k)' PROVE RunInv(r, k)'
    <3>1. On(r, k) /\ RunInv(r, k) /\ run'[r] = run[r]
      BY <1>3, <2>1 DEF JobInv, On
    <3> QED BY <1>2, <3>1 DEF RunInv, On, Pending, Questions, OwnHandler
  <2>2. ASSUME NEW d \in Chats, Handles(d, k)' PROVE HandlerInv(d, k)'
    BY <1>2, <2>2 DEF OwnHandler
  <2>3. RowInv(k)' /\ CaredFor(k)'
    BY <1>3 DEF JobInv, RowInv, CaredFor, On, Pending, Questions, GoesOn
  <2> QED BY <2>1, <2>2, <2>3 DEF JobInv
<1>5. \A j \in Jobs : Quiet(j)
  <2>1. Quiet(k)
    BY <1>2 DEF Quiet, RequestOf, Due, WorkedOn, On
  <2> QED BY <1>2, <2>1, SameIsQuiet DEF OnlyJob
<1> QED BY <1>2, <1>3, <1>4, <1>5, QuietStep, OneJobProceeds

\* A handler is the only one of its job.
LEMMA HandlerIsOwn ==
  ASSUME LifeInv, NEW c \in Chats, NEW k \in Jobs, job[k].chat = c
  PROVE  OwnHandler(c, k)
BY DEF LifeInv, JobInv, HandlerInv, OwnHandler

\* A click on a card is taken up.
LEMMA ActionProceeds ==
  ASSUME LifeInv, TypeOK', NEW c \in Chats, NEW k \in Jobs, NEW u \in Users,
         NEW kind \in CardKinds, NEW choice \in BOOLEAN,
         ReceiveAction(c, k, u, kind, choice), UNCHANGED <<crashes, up>>
  PROVE  Proceeds
<1>1. PICK verdict \in Verdict(k, u, kind, choice) :
        svc' = [svc EXCEPT ![c] =
                  [NoSvc EXCEPT !.pc = "decide", !.verdict = verdict, !.job = k,
                                !.gen = conversation[c].gen,
                                !.session = conversation[c].session,
                                !.payload = approval[k].payload]]
  BY DEF ReceiveAction
<1> DEFINE new == [NoSvc EXCEPT !.pc = "decide", !.verdict = verdict, !.job = k,
                                !.gen = conversation[c].gen,
                                !.session = conversation[c].session,
                                !.payload = approval[k].payload]
<1>2. /\ svc' = [svc EXCEPT ![c] = new]
      /\ new.pc = "decide" /\ new.job = k /\ new.verdict = verdict
      /\ new.gen = conversation[c].gen /\ new.session = conversation[c].session
      /\ new.payload = approval[k].payload
  BY <1>1 DEF NoSvc
<1> HIDE DEF new
<1>3. /\ svc[c].pc = "idle" /\ job[k].chat = c /\ Pending(k) /\ approval[k].payload.kind = kind
      /\ UNCHANGED <<job, approval, run, cards, faults>>
  BY DEF ReceiveAction, Handling, Decidable, Pending, storeVars, runnerVars
<1>4. /\ verdict = "approved" => kind = "approval"
      /\ verdict = "confirmed" => kind = "requester_confirmation"
      /\ verdict \in {"approved", "confirmed"} => ~ContextChanged(k)
  BY <1>1 DEF Verdict, CardKinds
<1>5. svc'[c] = new
  BY <1>2, LifeTypes
<1>6. HandlerInv(c, k)'
  BY <1>2, <1>3, <1>4, <1>5 DEF HandlerInv, Pending, ContextChanged
<1>7. \A r \in Runs : On(r, k) => ~Holds(run[r])
  BY <1>3 DEF LifeInv, JobInv, RunInv
<1>8. Approvable(k)'
  BY <1>2, <1>5 DEF Approvable, Handles, WithJob
<1>9. "idle" \notin WithJob
  BY DEF WithJob
<1> QED BY <1>2, <1>3, <1>6, <1>7, <1>8, <1>9, HandlerIsOwn, HandlerMoveProceeds

\* The other events, and the commands, see to no job.
LEMMA EventProceeds ==
  ASSUME LifeInv, TypeOK', NEW c \in Chats,
         Event(c) \/ ResetClear(c) \/ ResetReread(c) \/ WriteConversation(c),
         UNCHANGED <<crashes, up>>
  PROVE  Proceeds
<1>0. svc \in [Chats -> SvcRecords] /\ svc[c] \in SvcRecords /\ svc = [svc EXCEPT ![c] = svc[c]]
  BY LifeTypes
<1>1. ASSUME UNCHANGED <<job, approval, cards, run, faults>>, svc[c].pc \notin WithJob,
             NEW new, svc' = [svc EXCEPT ![c] = new], new.pc \notin WithJob
      PROVE  Proceeds
  BY <1>1, JoblessProceeds
<1>2. ASSUME NEW u \in Users, Register(c, u) PROVE Proceeds
  <2>1. svc[c].pc \notin WithJob
    BY <1>2 DEF Register, Handling, WithJob
  <2>2. UNCHANGED <<job, approval, cards, run, faults, svc>>
    BY <1>2 DEF Register, storeVars, runnerVars
  <2> QED BY <1>0, <1>1, <2>1, <2>2
<1>3. ASSUME NEW u \in Users, NEW message \in MessageKinds, ReceiveMessage(c, u, message)
      PROVE  Proceeds
  <2> DEFINE fresh == message = "reset" /\ ~conversation[c].exists
             new == [NoSvc EXCEPT !.pc = IF message = "reset" /\ ~fresh THEN "clear" ELSE "upsert",
                                  !.message = message, !.user = u,
                                  !.gen = conversation[c].gen + (IF fresh THEN 1 ELSE 0),
                                  !.session = conversation[c].session]
  <2>1. svc' = [svc EXCEPT ![c] = new]
    BY <1>3 DEF ReceiveMessage
  <2>2. new.pc = IF message = "reset" /\ ~fresh THEN "clear" ELSE "upsert"
    BY DEF NoSvc
  <2>3. new.pc \notin WithJob
    BY <2>2 DEF WithJob
  <2>4. svc[c].pc \notin WithJob /\ UNCHANGED <<job, approval, cards, run, faults>>
    BY <1>3 DEF ReceiveMessage, Handling, WithJob, storeVars, runnerVars
  <2> HIDE DEF new
  <2> QED BY <1>1, <2>1, <2>3, <2>4
<1>4. CASE ResetClear(c)
  <2> DEFINE new == [svc[c] EXCEPT !.pc = "reread"]
  <2>1. svc' = [svc EXCEPT ![c] = new] /\ new.pc = "reread"
    BY <1>0, <1>4 DEF ResetClear, Advance, SvcRecords
  <2>2. new.pc \notin WithJob /\ svc[c].pc \notin WithJob
    BY <1>4, <2>1 DEF ResetClear, Handling, WithJob
  <2>3. UNCHANGED <<job, approval, cards, run, faults>>
    BY <1>4 DEF ResetClear, runnerVars
  <2> HIDE DEF new
  <2> QED BY <1>1, <2>1, <2>2, <2>3
<1>5. CASE ResetReread(c)
  <2> DEFINE new == [svc[c] EXCEPT !.pc = "upsert", !.gen = conversation[c].gen,
                                   !.session = conversation[c].session]
  <2>1. svc' = [svc EXCEPT ![c] = new] /\ new.pc = "upsert"
    BY <1>0, <1>5 DEF ResetReread, SvcRecords
  <2>2. new.pc \notin WithJob /\ svc[c].pc \notin WithJob
    BY <1>5, <2>1 DEF ResetReread, Handling, WithJob
  <2>3. UNCHANGED <<job, approval, cards, run, faults>>
    BY <1>5 DEF ResetReread, storeVars, runnerVars
  <2> HIDE DEF new
  <2> QED BY <1>1, <2>1, <2>2, <2>3
<1>6. CASE WriteConversation(c)
  <2>1. PICK new : svc' = [svc EXCEPT ![c] = new] /\ new.pc \in {"create", "idle"}
    <3>1. CASE Advance(c, "create")
      <4> WITNESS [svc[c] EXCEPT !.pc = "create"]
      <4> QED BY <1>0, <3>1 DEF Advance, SvcRecords
    <3>2. CASE Done(c)
      <4> WITNESS NoSvc
      <4> QED BY <3>2, NoRecordTypes DEF Done
    <3> QED BY <1>6, <3>1, <3>2 DEF WriteConversation
  <2>2. new.pc \notin WithJob /\ svc[c].pc \notin WithJob
    BY <1>6, <2>1 DEF WriteConversation, Handling, WithJob
  <2>3. UNCHANGED <<job, approval, cards, run, faults>>
    BY <1>6 DEF WriteConversation, runnerVars
  <2> QED BY <1>1, <2>1, <2>2, <2>3
<1> QED BY <1>2, <1>3, <1>4, <1>5, <1>6, ActionProceeds DEF Event

\* A handler that gives its card, or its error, back.
LEMMA HandlerReturns ==
  ASSUME LifeInv, TypeOK', NEW c \in Chats,
         SendApprovalCard(c) \/ HandlerFails(c) \/ ApprovalCardFails(c), UNCHANGED <<crashes, up>>
  PROVE  Proceeds
<1>0. /\ svc' = [svc EXCEPT ![c] = NoSvc] /\ NoSvc.pc = "idle" /\ NoSvc.pc \notin WithJob
      /\ UNCHANGED <<job, approval, run>> /\ faults' \in {faults, faults + 1}
      /\ cards \in [Jobs -> SUBSET CardKinds]
  BY LifeTypes, NoRecordTypes
  DEF SendApprovalCard, HandlerFails, ApprovalCardFails, CardFails, Done, WithJob, storeVars,
      runnerVars
<1>1. CASE svc[c].pc \notin WithJob
  <2>1. UNCHANGED cards
    BY <1>1 DEF SendApprovalCard, HandlerFails, ApprovalCardFails, Handling, WithJob
  <2> QED BY <1>0, <1>1, <2>1, JoblessProceeds
<1>2. ASSUME svc[c].pc \in WithJob PROVE Proceeds
  <2>1. PICK k \in Jobs : k = svc[c].job
    BY <1>2, LifeTypes
  <2>2. /\ Handles(c, k) /\ HandlerInv(c, k) /\ OwnHandler(c, k)
    BY <1>2, <2>1, HandlerIsOwn DEF Handles, LifeInv, JobInv, HandlerInv
  <2>3. \A j \in Jobs : cards[j] \subseteq cards'[j]
    BY <1>0, <2>1 DEF SendApprovalCard, HandlerFails, ApprovalCardFails, CardFails
  <2>4. \/ faults' = faults + 1 /\ faults' # 0
        \/ svc[c].pc = "card" /\ "approval" \in cards'[k]
    BY <1>0, <2>1, LifeTypes
    DEF SendApprovalCard, HandlerFails, ApprovalCardFails, CardFails, Handling
  <2>5. Approvable(k)'
    BY <1>0, <2>2, <2>4 DEF Approvable, HandlerInv, Pending
  <2>6. CASE svc[c].pc # "apply"
    BY <1>0, <1>2, <2>1, <2>2, <2>3, <2>5, <2>6, HandlerMoveProceeds
  <2>7. CASE svc[c].pc = "apply"
    <3>1. OthersStay(k) /\ faults' = faults + 1 /\ faults' # 0
      BY <1>0, <2>3, <2>4, <2>7 DEF OthersStay
    <3>2. /\ OnlyJob(k) /\ svc'[c] = NoSvc /\ OwnHandler(c, k)' /\ ~Handles(c, k)'
          /\ DecisionOn(k)' = "none"
      BY <1>0, <2>1, <2>2, <3>1, SvcMoves
    <3>3. GoesOn /\ JobInv(k)
      BY <3>1, LifeTypes DEF GoesOn, LifeInv
    <3>4. JobInv(k)'
      <4>1. ASSUME NEW r \in Runs, On(r, k)' PROVE RunInv(r, k)'
        <5>1. On(r, k) /\ RunInv(r, k) /\ run'[r] = run[r]
          BY <1>0, <3>3, <4>1 DEF JobInv, On
        <5> QED BY <1>0, <3>2, <5>1 DEF RunInv, On, Pending, Questions, OwnHandler
      <4>2. \A d \in Chats : ~Handles(d, k)'
        BY <3>2 DEF OwnHandler
      <4>3. RowInv(k)' /\ CaredFor(k)'
        BY <1>0, <3>1, <3>3 DEF JobInv, RowInv, CaredFor, On, Pending, Questions, GoesOn
      <4> QED BY <2>5, <4>1, <4>2, <4>3 DEF JobInv
    <3>5. LifeStep
      <4>1. OneJobView(k)
        BY <3>2, OnlyJobView, LifeTypes
      <4>2. RequestOf(k)' = RequestOf(k) /\ (Due(k)' <=> Due(k)) /\ (WorkedOn(k)' <=> WorkedOn(k))
        BY <1>0 DEF RequestOf, Due, WorkedOn, On
      <4>3. /\ StatusView' = StatusView /\ RequestView' = RequestView
            /\ DueView' = DueView /\ WorkingView' = WorkingView
            /\ DecisionView' = [DecisionView EXCEPT ![k] = "none"]
        BY <1>0, <3>2, <4>1, <4>2, Membership DEF OneJobView, StatusView, RequestView, DecisionView
      <4>4. faults' + crashes' = (faults + crashes) + 1
        BY <3>1, LifeTypes
      <4>5. Lifecycle!Fail(k)
        BY <4>3, <4>4
        DEF Lifecycle!Fail, StatusView, RequestView, DecisionView, DueView, WorkingView
      <4> QED BY <4>5 DEF LifeStep, Lifecycle!LifecycleNext, Lifecycle!Lives
    <3> QED BY <3>2, <3>3, <3>4, <3>5, OneJobProceeds
  <2> QED BY <2>6, <2>7
<1> QED BY <1>1, <1>2

\* A job that has not been inserted is in nobody's hands.
LEMMA NoJobYet ==
  ASSUME LifeInv, NEW k \in Jobs, job[k].status = "none"
  PROVE  /\ approval[k].status = "none"
         /\ \A r \in Runs : ~On(r, k)
         /\ \A d \in Chats : ~Handles(d, k)
BY DEF LifeInv, ConsentInv, RunsConsent, RunConsent, RequestsConsent, HandlersConsent,
       HandlerConsent, Created, On, Handles

\* Enqueue starts one goroutine.
LEMMA Enqueued ==
  ASSUME LifeInv, NEW r \in Runs, NEW k \in Jobs, NEW c, NEW mutating, NEW resume, NEW gen,
         NEW e, Enqueue(r, k, c, mutating, resume, gen, e)
  PROVE  /\ run[r].pc = "idle" /\ run'[r].pc = "chat" /\ run'[r].job = k /\ run'[r].chat = c
         /\ run'[r].gen = gen /\ run'[r].resume = resume
         /\ \A q \in Runs \ {r} : run'[q] = run[q]
BY LifeTypes DEF Enqueue, At, NoRun

LEMMA SubmitProceeds ==
  ASSUME LifeInv, TypeOK', NEW c \in Chats, NEW k \in Jobs, NEW r \in Runs,
         CreateQueuedJob(c, k, r), UNCHANGED <<crashes, up>>
  PROVE  Proceeds
<1>1. /\ svc[c].pc = "create" /\ job[k].status = "none"
      /\ CreateJob(k, c, svc[c].user, "queued", FALSE)
      /\ Enqueue(r, k, c, FALSE, svc[c].session, svc[c].gen, epoch[c])
      /\ svc' = [svc EXCEPT ![c] = NoSvc] /\ UNCHANGED <<approval, faults, cards>>
  BY DEF CreateQueuedJob, Handling, Done
<1>2. /\ job'[k].status = "queued" /\ job'[k].chat = c
      /\ \A j \in Jobs \ {k} : job'[j] = job[j]
  BY <1>1, LifeTypes DEF CreateJob
<1>3. /\ run[r].pc = "idle" /\ run'[r].pc = "chat" /\ run'[r].job = k /\ run'[r].chat = c
      /\ \A q \in Runs \ {r} : run'[q] = run[q]
  BY <1>1, Enqueued
<1>4. /\ approval[k].status = "none"
      /\ \A q \in Runs : ~On(q, k)
      /\ \A d \in Chats : ~Handles(d, k)
  BY <1>1, NoJobYet
<1>5. NoSvc.pc = "idle" /\ "idle" \notin WithJob /\ "create" \notin WithJob
  BY NoRecordTypes DEF WithJob
<1>6. OthersStay(k) /\ OwnHandler(c, k)
  BY <1>1, <1>2, <1>3, <1>4 DEF OthersStay, OwnHandler, On
<1>7. /\ OnlyJob(k) /\ OwnHandler(c, k)' /\ ~Handles(c, k)'
      /\ DecisionOn(k) = "none" /\ DecisionOn(k)' = "none"
  <2>1. /\ svc' = [svc EXCEPT ![c] = NoSvc]
        /\ svc[c].pc \notin WithJob /\ svc[c].pc # "apply"
        /\ NoSvc.pc \notin WithJob /\ NoSvc.pc # "apply"
    BY <1>1, <1>5
  <2> QED BY <2>1, <1>6, SvcMoves
<1>8. On(r, k)' /\ \A q \in Runs \ {r} : ~On(q, k)'
  BY <1>3, <1>4 DEF On
<1>9. GoesOn
  BY <1>1 DEF GoesOn
<1>10. JobInv(k)'
  <2>1. RunInv(r, k)'
    BY <1>1, <1>2, <1>3, <1>4, <1>7, <1>8 DEF RunInv, Carries, Asked, Pending, OwnHandler
  <2>2. \A d \in Chats : ~Handles(d, k)'
    BY <1>7 DEF OwnHandler
  <2>3. RowInv(k)' /\ Approvable(k)'
    BY <1>1, <1>2, <1>4 DEF RowInv, Approvable, Pending
  <2>4. CaredFor(k)'
    BY <1>3, <1>8 DEF CaredFor, DuePcs
  <2> QED BY <1>8, <2>1, <2>2, <2>3, <2>4 DEF JobInv
<1>11. LifeStep
  <2>1. OneJobView(k)
    BY <1>7, OnlyJobView, LifeTypes
  <2>2. RequestOf(k)' = RequestOf(k)
    BY <1>1 DEF RequestOf
  <2>3. Due(k)' /\ ~WorkedOn(k)' /\ ~WorkedOn(k)
    BY <1>3, <1>4, <1>8 DEF Due, WorkedOn, DuePcs, WorkingPcs
  <2>4. /\ StatusView' = [StatusView EXCEPT ![k] = "queued"]
        /\ RequestView' = RequestView /\ DecisionView' = DecisionView
        /\ DueView' = DueView \cup {k} /\ WorkingView' = WorkingView
    BY <1>2, <1>7, <2>1, <2>2, <2>3, Membership DEF OneJobView, RequestView, DecisionView
  <2>5. Lifecycle!Submit(k)
    BY <1>1, <2>4
    DEF Lifecycle!Submit, Lifecycle!SetStatus, StatusView, RequestView, DecisionView, DueView,
        WorkingView
  <2> QED BY <2>5 DEF LifeStep, Lifecycle!LifecycleNext, Lifecycle!Lives
<1> QED BY <1>7, <1>9, <1>10, <1>11, OneJobProceeds

LEMMA SubmitMutationProceeds ==
  ASSUME LifeInv, TypeOK', NEW c \in Chats, NEW k \in Jobs, CreateWaitingJob(c, k),
         UNCHANGED <<crashes, up>>
  PROVE  Proceeds
<1> DEFINE new == [svc[c] EXCEPT !.pc = "ask", !.job = k,
                                 !.payload = [kind |-> "approval", gen |-> svc[c].gen,
                                              session |-> svc[c].session, repo |-> repo]]
<1>1. /\ svc[c].pc = "create" /\ job[k].status = "none"
      /\ CreateJob(k, c, svc[c].user, "waiting_approval", TRUE)
      /\ svc' = [svc EXCEPT ![c] = new] /\ UNCHANGED <<approval, faults, cards, run>>
  BY DEF CreateWaitingJob, Handling, runnerVars
<1>2. new.pc = "ask" /\ new.job = k /\ new.payload.kind = "approval"
  BY LifeTypes DEF SvcRecords
<1> HIDE DEF new
<1>3. /\ job'[k].status = "waiting_approval" /\ job'[k].chat = c
      /\ \A j \in Jobs \ {k} : job'[j] = job[j]
  BY <1>1, LifeTypes DEF CreateJob
<1>4. /\ approval[k].status = "none"
      /\ \A q \in Runs : ~On(q, k) /\ ~On(q, k)'
      /\ \A d \in Chats : ~Handles(d, k)
  BY <1>1, NoJobYet DEF On
<1>5. "ask" \in WithJob /\ "create" \notin WithJob
  BY DEF WithJob
<1>6. OthersStay(k) /\ OwnHandler(c, k)
  BY <1>1, <1>3, <1>4 DEF OthersStay, OwnHandler
<1>7. /\ OnlyJob(k) /\ OwnHandler(c, k)' /\ Handles(c, k)' /\ svc'[c] = new
      /\ DecisionOn(k) = "none" /\ DecisionOn(k)' = "none"
  <2>1. /\ svc' = [svc EXCEPT ![c] = new]
        /\ svc[c].pc \notin WithJob /\ svc[c].pc # "apply"
        /\ new.pc \in WithJob /\ new.pc # "apply" /\ new.job = k
    BY <1>1, <1>2, <1>5
  <2> QED BY <2>1, <1>6, SvcMoves
<1>8. GoesOn
  BY <1>1 DEF GoesOn
<1>9. JobInv(k)'
  <2>1. HandlerInv(c, k)'
    BY <1>1, <1>2, <1>3, <1>4, <1>7 DEF HandlerInv
  <2>2. RowInv(k)' /\ Approvable(k)' /\ CaredFor(k)'
    BY <1>1, <1>3, <1>4, <1>7 DEF RowInv, Approvable, CaredFor, Pending, InProgress
  <2> QED BY <1>4, <1>7, <2>1, <2>2 DEF JobInv, OwnHandler
<1>10. LifeStep
  <2>1. OneJobView(k)
    BY <1>7, OnlyJobView, LifeTypes
  <2>2. RequestOf(k)' = RequestOf(k) /\ ~Due(k) /\ ~Due(k)' /\ ~WorkedOn(k) /\ ~WorkedOn(k)'
    BY <1>1, <1>4 DEF RequestOf, Due, WorkedOn
  <2>3. /\ StatusView' = [StatusView EXCEPT ![k] = "waiting_approval"]
        /\ RequestView' = RequestView /\ DecisionView' = DecisionView
        /\ DueView' = DueView /\ WorkingView' = WorkingView
    BY <1>3, <1>7, <2>1, <2>2, Membership DEF OneJobView, RequestView, DecisionView
  <2>4. Lifecycle!SubmitMutation(k)
    BY <1>1, <2>3
    DEF Lifecycle!SubmitMutation, Lifecycle!SetStatus, StatusView, RequestView, DecisionView,
        DueView, WorkingView
  <2> QED BY <2>4 DEF LifeStep, Lifecycle!LifecycleNext, Lifecycle!Lives
<1> QED BY <1>7, <1>8, <1>9, <1>10, OneJobProceeds

\* The approval is asked for, or a request decided: the handler writes the
\* request of its job and goes on.
LEMMA RequestProceeds ==
  ASSUME LifeInv, TypeOK', NEW c \in Chats, SaveApprovalRequest(c) \/ SaveDecision(c),
         UNCHANGED <<crashes, up>>
  PROVE  Proceeds
<1> DEFINE asking == svc[c].pc = "ask"
           new == [svc[c] EXCEPT !.pc = IF asking THEN "card" ELSE "apply"]
           row == [status |-> IF asking THEN "pending" ELSE Decision(svc[c].verdict),
                   payload |-> svc[c].payload]
<1>1. svc[c].pc \in {"ask", "decide"} /\ "ask" \in WithJob /\ "decide" \in WithJob
  BY DEF SaveApprovalRequest, SaveDecision, Handling, WithJob
<1>2. PICK k \in Jobs : k = svc[c].job
  BY <1>1, LifeTypes
<1>3. /\ svc' = [svc EXCEPT ![c] = new] /\ approval' = [approval EXCEPT ![k] = row]
      /\ UNCHANGED <<job, run, faults, cards>>
  BY <1>1, <1>2 DEF SaveApprovalRequest, SaveDecision, Handling, SaveApproval, Advance,
                    Decision, runnerVars
<1>4. /\ asking => new.pc = "card"
      /\ ~asking => new.pc = "apply"
      /\ new.job = k /\ new.payload = svc[c].payload /\ new.verdict = svc[c].verdict
      /\ new.gen = svc[c].gen /\ new.session = svc[c].session
  BY <1>2, LifeTypes DEF SvcRecords
<1>5. /\ asking => row.status = "pending"
      /\ ~asking => row.status = Decision(svc[c].verdict)
      /\ row.payload = svc[c].payload
  OBVIOUS
<1>6. svc[c].verdict \in Verdicts
  BY LifeTypes DEF SvcRecords
<1> HIDE DEF new, row, asking
<1>7. approval'[k] = row /\ \A j \in Jobs \ {k} : approval'[j] = approval[j]
  BY <1>3, LifeTypes
<1>8. Handles(c, k) /\ HandlerInv(c, k) /\ OwnHandler(c, k) /\ OthersStay(k)
  BY <1>1, <1>2, <1>3, <1>7, HandlerIsOwn DEF Handles, LifeInv, JobInv, HandlerInv, OthersStay
<1>9. new.pc \in WithJob
  BY <1>4 DEF WithJob
<1>10. /\ OnlyJob(k) /\ OwnHandler(c, k)' /\ Handles(c, k)' /\ svc'[c] = new
       /\ DecisionOn(k) = "none"
       /\ asking => DecisionOn(k)' = "none"
       /\ ~asking => DecisionOn(k)' = Meaning(svc[c].verdict)
  <2>1. /\ svc' = [svc EXCEPT ![c] = new] /\ svc[c].pc # "apply"
        /\ svc[c].job = k /\ new.job = k
    BY <1>1, <1>2, <1>3, <1>4
  <2>2. /\ OnlyJob(k) /\ OwnHandler(c, k)' /\ Handles(c, k)' /\ svc'[c] = new
        /\ DecisionOn(k) = "none"
        /\ new.pc # "apply" => DecisionOn(k)' = "none"
        /\ new.pc = "apply" => DecisionOn(k)' = Meaning(new.verdict)
    BY <1>8, <1>9, <2>1, SvcMoves
  <2> QED BY <1>4, <2>2
<1>11. GoesOn /\ JobInv(k)
  BY <1>3 DEF GoesOn, LifeInv
<1>12. \A r \in Runs : (On(r, k)' <=> On(r, k)) /\ (On(r, k) => ~Holds(run[r]))
  BY <1>3, <1>8, <1>11 DEF JobInv, RunInv, On
<1>13. asking <=> svc[c].pc = "ask"
  BY DEF asking
<1>14. JobInv(k)'
  <2>1. HandlerInv(c, k)'
    BY <1>1, <1>3, <1>4, <1>5, <1>7, <1>8, <1>10, <1>13 DEF HandlerInv, Pending
  <2>2. ASSUME NEW r \in Runs, On(r, k)' PROVE RunInv(r, k)'
    <3>1. RunInv(r, k) /\ ~Holds(run[r]) /\ run'[r] = run[r]
      BY <1>3, <1>11, <1>12, <2>2 DEF JobInv
    <3>2. ~Bound(run[r])
      BY <3>1 DEF Bound, Holds, UndecidedPcs, RunPcs
    <3>3. asking => ~On(r, k)
      BY <1>8, <1>11, <1>13 DEF HandlerInv, JobInv, RowInv
    <3>4. ~asking => ~Pending(k)' /\ approval'[k].status # "none"
      BY <1>5, <1>6, <1>7 DEF Decision, Verdicts, Pending
    <3> QED BY <1>3, <1>12, <2>2, <3>1, <3>2, <3>3, <3>4 DEF RunInv
  <2>3. RowInv(k)'
    <3>1. ~asking => ~Pending(k)'
      BY <1>5, <1>6, <1>7 DEF Decision, Verdicts, Pending
    <3>2. asking => job[k].status = "waiting_approval"
      BY <1>8, <1>13 DEF HandlerInv
    <3> QED BY <1>3, <1>11, <1>12, <3>1, <3>2 DEF JobInv, RowInv
  <2>4. CaredFor(k)' /\ Approvable(k)'
    BY <1>3, <1>10, <1>11, <1>12 DEF JobInv, CaredFor, Approvable
  <2> QED BY <1>10, <2>1, <2>2, <2>3, <2>4 DEF JobInv, OwnHandler
<1>15. LifeStep
  <2>1. OneJobView(k)
    BY <1>10, OnlyJobView, LifeTypes
  <2>2. (Due(k)' <=> Due(k)) /\ (WorkedOn(k)' <=> WorkedOn(k)) /\ ~Due(k)
    BY <1>3, <1>12 DEF Due, WorkedOn, On, Holds, UndecidedPcs, DuePcs, RunPcs
  <2>3. /\ StatusView' = StatusView /\ DueView' = DueView /\ WorkingView' = WorkingView
        /\ k \notin DueView /\ (k \in WorkingView <=> WorkedOn(k))
    BY <1>3, <2>1, <2>2, Membership DEF OneJobView, StatusView
  <2>4. CASE asking
    <3>1. /\ job[k].status = "waiting_approval" /\ approval[k].status = "none"
          /\ svc[c].payload.kind = "approval"
      BY <1>8, <1>13, <2>4 DEF HandlerInv
    <3>2. RequestOf(k) = "none" /\ RequestOf(k)' = "approval"
      BY <1>5, <1>7, <2>4, <3>1 DEF RequestOf
    <3>3. RequestView' = [RequestView EXCEPT ![k] = "approval"] /\ DecisionView' = DecisionView
      BY <1>10, <2>1, <2>4, <3>2 DEF OneJobView, DecisionView
    <3>4. Lifecycle!AskApproval(k)
      BY <1>3, <2>3, <3>1, <3>2, <3>3
      DEF Lifecycle!AskApproval, StatusView, RequestView, DecisionView, DueView, WorkingView
    <3> QED BY <3>4 DEF LifeStep, Lifecycle!LifecycleNext, Lifecycle!Lives
  <2>5. CASE ~asking
    <3>1. Pending(k) /\ approval[k].payload = svc[c].payload
      BY <1>1, <1>8, <1>13, <2>5 DEF HandlerInv
    <3>2. approval[k].payload.kind \in CardKinds
      BY LifeTypes DEF ApprovalRows, Payloads
    <3>3. RequestOf(k) = IF Questions(k) THEN "question" ELSE "approval"
      BY <3>1, <3>2 DEF RequestOf, Questions, CardKinds, Pending
    <3>4. RequestOf(k)' = "decided"
      BY <1>5, <1>6, <1>7, <2>5 DEF RequestOf, Decision, Verdicts
    <3>5. ~Questions(k) => job[k].status = "waiting_approval" /\ ~WorkedOn(k)
      BY <1>11, <3>1 DEF JobInv, RowInv, WorkedOn
    <3>6. Meaning(svc[c].verdict) \in {"reject", IF Questions(k) THEN "confirm" ELSE "approve"}
      BY <1>1, <1>6, <1>8, <1>13, <2>5, <3>1 DEF HandlerInv, Meaning, Verdicts, Questions
    <3>7. /\ RequestView' = [RequestView EXCEPT ![k] = "decided"]
          /\ DecisionView' = [DecisionView EXCEPT ![k] = Meaning(svc[c].verdict)]
      BY <1>10, <2>1, <2>5, <3>4 DEF OneJobView
    <3>8. /\ StatusView[k] = job[k].status /\ RequestView[k] = RequestOf(k)
          /\ DecisionView[k] = "none"
      BY <1>10 DEF StatusView, RequestView, DecisionView
    <3>9. \E d \in {"reject", IF RequestView[k] = "approval" THEN "approve" ELSE "confirm"} :
             DecisionView' = [DecisionView EXCEPT ![k] = d]
      BY <3>3, <3>6, <3>7, <3>8
    <3>10. Lifecycle!Decide(k)
      BY <1>3, <2>3, <3>3, <3>5, <3>7, <3>8, <3>9
      DEF Lifecycle!Decide, Lifecycle!Open, StatusView, RequestView, DecisionView, DueView,
          WorkingView
    <3> QED BY <3>10 DEF LifeStep, Lifecycle!LifecycleNext, Lifecycle!Lives
  <2> QED BY <2>4, <2>5
<1> QED BY <1>10, <1>11, <1>14, <1>15, OneJobProceeds

\* A handler that has saved its decision is done with the job when it has acted.
LEMMA DecidedFacts ==
  ASSUME LifeInv, NEW c \in Chats, svc[c].pc = "apply", NEW k \in Jobs, k = svc[c].job
  PROVE  /\ Handles(c, k) /\ HandlerInv(c, k) /\ OwnHandler(c, k)
         /\ JobInv(k) /\ ~Pending(k) /\ job[k].chat = c
         /\ \A r \in Runs : On(r, k) => ~Holds(run[r]) /\ ~Carries(run[r]) /\ ~Bound(run[r])
         /\ ~Due(k)
<1>1. Handles(c, k) /\ HandlerInv(c, k) /\ OwnHandler(c, k) /\ JobInv(k) /\ job[k].chat = c
  BY HandlerIsOwn DEF Handles, WithJob, LifeInv, JobInv, HandlerInv
<1>2. svc[c].verdict \in Verdicts
  BY LifeTypes DEF SvcRecords
<1>3. ~Pending(k)
  BY <1>1, <1>2 DEF HandlerInv, Pending, Decision, Verdicts
<1>4. \A r \in Runs : On(r, k) => ~Holds(run[r])
  BY <1>1 DEF JobInv, RunInv
<1>5. \A r \in Runs : ~Holds(run[r]) => /\ ~Carries(run[r]) /\ ~Bound(run[r])
                                        /\ run[r].pc \notin DuePcs
  BY DEF Holds, Carries, Bound, UndecidedPcs, RunPcs, DuePcs
<1> QED BY <1>1, <1>3, <1>4, <1>5 DEF Due

LEMMA RejectProceeds ==
  ASSUME LifeInv, TypeOK', NEW c \in Chats, RejectJob(c), UNCHANGED <<crashes, up>>
  PROVE  Proceeds
<1>1. PICK k \in Jobs : k = svc[c].job
  BY LifeTypes DEF RejectJob, Handling, WithJob
<1>2. /\ svc[c].pc = "apply" /\ svc[c].verdict \in {"invalidated", "rejected"}
      /\ job' = [job EXCEPT ![k].status = "rejected"]
      /\ svc' = [svc EXCEPT ![c] = NoSvc] /\ UNCHANGED <<approval, run, faults, cards>>
  BY <1>1 DEF RejectJob, Handling, UpdateJob, Done, runnerVars
<1>3. /\ job'[k].status = "rejected" /\ job'[k].chat = job[k].chat
      /\ \A j \in Jobs \ {k} : job'[j] = job[j]
  BY <1>2, LifeTypes DEF JobRows
<1>4. /\ Handles(c, k) /\ OwnHandler(c, k) /\ JobInv(k) /\ ~Pending(k) /\ ~Due(k)
      /\ \A r \in Runs : On(r, k) => ~Holds(run[r]) /\ ~Carries(run[r]) /\ ~Bound(run[r])
  BY <1>1, <1>2, DecidedFacts
<1>5. /\ OnlyJob(k) /\ OwnHandler(c, k)' /\ ~Handles(c, k)'
      /\ DecisionOn(k) = "reject" /\ DecisionOn(k)' = "none"
  <2>1. OthersStay(k)
    BY <1>2, <1>3 DEF OthersStay
  <2>2. NoSvc.pc = "idle" /\ "idle" \notin WithJob
    BY NoRecordTypes DEF WithJob
  <2>3. /\ svc' = [svc EXCEPT ![c] = NoSvc] /\ svc[c].job = k /\ svc[c].pc = "apply"
        /\ NoSvc.pc \notin WithJob /\ NoSvc.pc # "apply"
    BY <1>1, <1>2, <2>2
  <2>4. /\ OnlyJob(k) /\ OwnHandler(c, k)' /\ ~Handles(c, k)'
        /\ DecisionOn(k) = Meaning(svc[c].verdict) /\ DecisionOn(k)' = "none"
    BY <1>4, <2>1, <2>3, SvcMoves
  <2> QED BY <1>2, <2>4 DEF Meaning
<1>6. GoesOn
  BY <1>2 DEF GoesOn
<1>7. JobInv(k)'
  <2>1. ASSUME NEW r \in Runs, On(r, k)' PROVE RunInv(r, k)'
    <3>1. On(r, k) /\ RunInv(r, k) /\ ~Holds(run[r]) /\ ~Carries(run[r]) /\ run'[r] = run[r]
      BY <1>2, <1>4, <2>1 DEF JobInv, On
    <3> QED BY <1>2, <1>3, <3>1 DEF RunInv, Pending, Questions
  <2>2. RowInv(k)' /\ CaredFor(k)' /\ Approvable(k)'
    BY <1>2, <1>3, <1>4 DEF RowInv, CaredFor, Approvable, Pending, InProgress
  <2> QED BY <1>5, <2>1, <2>2 DEF JobInv, OwnHandler
<1>8. LifeStep
  <2>1. OneJobView(k)
    BY <1>5, OnlyJobView, LifeTypes
  <2>2. RequestOf(k)' = RequestOf(k) /\ (Due(k)' <=> Due(k)) /\ (WorkedOn(k)' <=> WorkedOn(k))
    BY <1>2 DEF RequestOf, Due, WorkedOn, On
  <2>3. /\ StatusView' = [StatusView EXCEPT ![k] = "rejected"]
        /\ DecisionView' = [DecisionView EXCEPT ![k] = "none"] /\ DecisionView[k] = "reject"
        /\ RequestView' = RequestView /\ DueView' = DueView /\ WorkingView' = WorkingView
    BY <1>3, <1>5, <2>1, <2>2, Membership DEF OneJobView, RequestView, DecisionView
  <2>4. Lifecycle!Reject(k)
    BY <1>2, <2>3
    DEF Lifecycle!Reject, Lifecycle!SetStatus, StatusView, RequestView, DecisionView, DueView,
        WorkingView
  <2> QED BY <2>4 DEF LifeStep, Lifecycle!LifecycleNext, Lifecycle!Lives
<1> QED BY <1>5, <1>6, <1>7, <1>8, OneJobProceeds

LEMMA DecidedStartProceeds ==
  ASSUME LifeInv, TypeOK', NEW c \in Chats, NEW r \in Runs, StartDecidedJob(c, r),
         UNCHANGED <<crashes, up>>
  PROVE  Proceeds
<1>1. PICK k \in Jobs : k = svc[c].job
  BY LifeTypes DEF StartDecidedJob, Handling, WithJob
<1>2. PICK s : s = IF svc[c].verdict = "approved" THEN "approved" ELSE "queued"
  OBVIOUS
<1>3. /\ svc[c].pc = "apply" /\ svc[c].verdict \in {"approved", "confirmed"}
      /\ job' = [job EXCEPT ![k].status = s]
      /\ Enqueue(r, k, c, svc[c].verdict = "approved", svc[c].session, svc[c].gen, epoch[c])
      /\ svc' = [svc EXCEPT ![c] = NoSvc] /\ UNCHANGED <<approval, faults, cards>>
  BY <1>1, <1>2 DEF StartDecidedJob, Handling, UpdateJob, Done
<1>4. /\ job'[k].status = s /\ job'[k].chat = job[k].chat /\ s \in {"approved", "queued"}
      /\ \A j \in Jobs \ {k} : job'[j] = job[j]
  BY <1>2, <1>3, LifeTypes DEF JobRows
<1>5. /\ Handles(c, k) /\ HandlerInv(c, k) /\ OwnHandler(c, k) /\ JobInv(k) /\ ~Pending(k)
      /\ ~Due(k) /\ job[k].chat = c
      /\ \A q \in Runs : On(q, k) => ~Holds(run[q]) /\ ~Carries(run[q]) /\ ~Bound(run[q])
  BY <1>1, <1>3, DecidedFacts
<1>6. /\ run[r].pc = "idle" /\ run'[r].pc = "chat" /\ run'[r].job = k /\ run'[r].chat = c
      /\ run'[r].gen = svc[c].gen /\ run'[r].resume = svc[c].session
      /\ \A q \in Runs \ {r} : run'[q] = run[q]
  BY <1>3, Enqueued
<1>7. /\ OnlyJob(k) /\ OwnHandler(c, k)' /\ ~Handles(c, k)'
      /\ DecisionOn(k) = Meaning(svc[c].verdict) /\ DecisionOn(k)' = "none"
  <2>1. OthersStay(k)
    BY <1>3, <1>4, <1>6 DEF OthersStay, On
  <2>2. NoSvc.pc = "idle" /\ "idle" \notin WithJob
    BY NoRecordTypes DEF WithJob
  <2>3. /\ svc' = [svc EXCEPT ![c] = NoSvc] /\ svc[c].job = k /\ svc[c].pc = "apply"
        /\ NoSvc.pc \notin WithJob /\ NoSvc.pc # "apply"
    BY <1>1, <1>3, <2>2
  <2> QED BY <1>5, <2>1, <2>3, SvcMoves
<1>8. On(r, k)' /\ ~On(r, k) /\ \A q \in Runs \ {r} : On(q, k)' <=> On(q, k)
  BY <1>6 DEF On
<1>9. GoesOn
  BY <1>3 DEF GoesOn
<1>10. JobInv(k)'
  <2>1. \A d \in Chats : ~Handles(d, k)'
    BY <1>7 DEF OwnHandler
  <2>2. RunInv(r, k)'
    <3>1. ~Carries(run'[r]) /\ ~Asked(run'[r]) /\ run'[r].pc # "question"
      BY <1>6 DEF Carries, Asked
    <3>2. approval'[k].payload.gen = run'[r].gen /\ approval'[k].payload.session = run'[r].resume
      BY <1>3, <1>5, <1>6 DEF HandlerInv
    <3>3. \A q \in Runs : On(q, k)' /\ Holds(run'[q]) => q = r
      BY <1>5, <1>6, <1>8
    <3> QED BY <1>3, <1>4, <1>5, <1>6, <2>1, <3>1, <3>2, <3>3 DEF RunInv, Pending
  <2>3. ASSUME NEW q \in Runs \ {r}, On(q, k)' PROVE RunInv(q, k)'
    <3>1. /\ On(q, k) /\ RunInv(q, k) /\ ~Holds(run[q]) /\ ~Carries(run[q]) /\ ~Bound(run[q])
          /\ run'[q] = run[q]
      BY <1>5, <1>6, <1>8, <2>3 DEF JobInv
    <3> QED BY <1>3, <1>4, <3>1 DEF RunInv, Pending, Questions
  <2>4. RowInv(k)' /\ Approvable(k)'
    BY <1>3, <1>4, <1>5 DEF RowInv, Approvable, Pending
  <2>5. CaredFor(k)'
    BY <1>6, <1>8 DEF CaredFor, DuePcs
  <2> QED BY <2>1, <2>2, <2>3, <2>4, <2>5 DEF JobInv
<1>11. LifeStep
  <2>1. OneJobView(k)
    BY <1>7, OnlyJobView, LifeTypes
  <2>2. RequestOf(k)' = RequestOf(k) /\ Due(k)' /\ (WorkedOn(k)' <=> WorkedOn(k))
    BY <1>3, <1>6, <1>8 DEF RequestOf, Due, WorkedOn, DuePcs, WorkingPcs
  <2>3. /\ DecisionView[k] \in {"approve", "confirm"}
        /\ s = IF DecisionView[k] = "approve" THEN "approved" ELSE "queued"
    BY <1>2, <1>3, <1>7 DEF DecisionView, Meaning
  <2>4. /\ StatusView' = [StatusView EXCEPT ![k] = s]
        /\ DecisionView' = [DecisionView EXCEPT ![k] = "none"]
        /\ RequestView' = RequestView /\ DueView' = DueView \cup {k}
        /\ WorkingView' = WorkingView
    BY <1>4, <1>7, <2>1, <2>2, Membership DEF OneJobView, RequestView
  <2>5. Lifecycle!Start(k)
    BY <1>3, <2>3, <2>4
    DEF Lifecycle!Start, Lifecycle!SetStatus, StatusView, RequestView, DecisionView, DueView,
        WorkingView
  <2> QED BY <2>5 DEF LifeStep, Lifecycle!LifecycleNext, Lifecycle!Lives
<1> QED BY <1>7, <1>9, <1>10, <1>11, OneJobProceeds

-----------------------------------------------------------------------------
(* Crash, restart, and what happens outside the process.                   *)

\* No goroutine and no handler is there.
Empty == (\A r \in Runs : run[r].pc = "idle") /\ (\A c \in Chats : svc[c].pc = "idle")

LEMMA EmptyFacts ==
  ASSUME Empty
  PROVE  \A j : /\ \A r \in Runs : ~On(r, j)
                /\ \A c \in Chats : ~Handles(c, j)
                /\ DecisionIn(svc, j) = "none" /\ ~Due(j) /\ ~WorkedOn(j)
<1>1. \A c \in Chats : svc[c].pc # "apply" /\ svc[c].pc \notin WithJob
  BY DEF Empty, WithJob
<1> QED BY <1>1, NoDecision DEF Empty, On, Handles, Due, WorkedOn

\* How an empty process looks.
LEMMA EmptyView ==
  ASSUME TypeOK, Empty
  PROVE  DueView = {} /\ WorkingView = {} /\ DecisionView = [j \in Jobs |-> "none"]
<1>1. DueView = {j \in Jobs : Due(j)} /\ WorkingView = {j \in Jobs : WorkedOn(j)}
  BY DueAndWorking DEF TypeOK, RunnerTypeOK, RunTypeOK
<1> QED BY <1>1, EmptyFacts, DecisionOnIs DEF DecisionView

LEMMA CrashProceeds ==
  ASSUME LifeInv, TypeOK', Crash
  PROVE  Proceeds
<1>1. /\ UNCHANGED <<job, approval, cards, faults>> /\ crashes' = crashes + 1 /\ ~up'
      /\ \A r \in Runs : run'[r].pc = "idle"
      /\ \A c \in Chats : svc'[c].pc = "idle"
  BY NoRecordTypes DEF Crash, storeVars
<1>2. \A j : /\ \A r \in Runs : ~On(r, j)'
             /\ \A c \in Chats : ~Handles(c, j)'
             /\ ~Due(j)' /\ ~WorkedOn(j)'
  BY <1>1 DEF On, Handles, WithJob, Due, WorkedOn
<1>3. \A j \in Jobs : DecisionOn(j)' = "none"
  <2>1. PICK t : t = svc'
    OBVIOUS
  <2>2. ASSUME NEW j \in Jobs PROVE DecisionIn(t, j) = "none"
    <3>1. \A d \in Chats : ~(t[d].pc = "apply" /\ t[d].job = j)
      BY <1>1, <2>1
    <3> QED BY ONLY <3>1, NoDecision
  <2>3. \A j \in Jobs : DecisionIn(svc', j) = "none"
    BY <2>1, <2>2 DEF DecisionIn
  <2> QED BY <2>3, DecisionOnIs
<1>4. \A j \in Jobs : JobInv(j)'
  <2> SUFFICES ASSUME NEW j \in Jobs PROVE JobInv(j)'
    OBVIOUS
  <2>1. JobInv(j) /\ crashes' # 0
    BY <1>1, LifeTypes DEF LifeInv
  <2>2. RowInv(j)' /\ CaredFor(j)' /\ Approvable(j)'
    BY <1>1, <1>2, <2>1 DEF JobInv, RowInv, CaredFor, Approvable, Pending, Questions
  <2> QED BY <1>2, <2>2 DEF JobInv
<1>5. LifeStep
  <2>1. DueView' = {j \in Jobs : Due(j)'} /\ WorkingView' = {j \in Jobs : WorkedOn(j)'}
    BY DueAndWorkingNext DEF TypeOK, RunnerTypeOK, RunTypeOK
  <2>2. /\ DueView' = {} /\ WorkingView' = {} /\ DecisionView' = [j \in Jobs |-> "none"]
        /\ UNCHANGED <<StatusView, RequestView>>
    BY <1>1, <1>2, <1>3, <2>1 DEF DecisionView, StatusView, RequestView, RequestOf
  <2>3. faults' + crashes' = (faults + crashes) + 1
    BY <1>1, LifeTypes
  <2>4. Lifecycle!EndAll
    BY <2>2, <2>3
    DEF Lifecycle!EndAll, StatusView, RequestView, DecisionView, DueView, WorkingView
  <2> QED BY <2>4 DEF LifeStep, Lifecycle!LifecycleNext
<1> QED BY <1>4, <1>5 DEF Proceeds

LEMMA RestartProceeds ==
  ASSUME LifeInv, TypeOK', Restart
  PROVE  Proceeds
<1>1. /\ Empty /\ InterruptInProgressJobs
      /\ UNCHANGED <<approval, run, svc, cards, faults, crashes>>
  BY DEF Restart, LifeInv, DownInv, Empty, runnerVars, orchestratorVars
<1>2. \A j : /\ \A r \in Runs : ~On(r, j) /\ ~On(r, j)'
             /\ \A c \in Chats : ~Handles(c, j) /\ ~Handles(c, j)'
  BY <1>1, EmptyFacts DEF On, Handles
<1>3. \A j \in Jobs : /\ job[j].status \in InProgress => job'[j].status = "interrupted"
                      /\ job[j].status \notin InProgress => job'[j] = job[j]
  BY <1>1, LifeTypes DEF InterruptInProgressJobs, JobRows
<1>4. \A j \in Jobs : JobInv(j)'
  <2> SUFFICES ASSUME NEW j \in Jobs PROVE JobInv(j)'
    OBVIOUS
  <2>1. JobInv(j)
    BY DEF LifeInv
  <2>2. RowInv(j)' /\ CaredFor(j)' /\ Approvable(j)'
    BY <1>1, <1>2, <1>3, <2>1
    DEF JobInv, RowInv, CaredFor, Approvable, Pending, Questions, InProgress
  <2> QED BY <1>2, <2>2 DEF JobInv
<1>5. LifeStep
  <2>1. /\ DueView = {} /\ WorkingView = {} /\ DecisionView = [j \in Jobs |-> "none"]
        /\ UNCHANGED <<DueView, WorkingView, DecisionView, RequestView>>
    <3>1. DueView = {} /\ WorkingView = {} /\ DecisionView = [j \in Jobs |-> "none"]
      BY <1>1, EmptyView, LifeTypes
    <3>2. DueView' = DueView /\ WorkingView' = WorkingView
      BY <1>1 DEF DueView, WorkingView, JobsOf
    <3>3. DecisionView' = DecisionView
      BY <1>1 DEF DecisionView, DecisionOn
    <3>4. RequestView' = RequestView
      BY <1>1 DEF RequestView, RequestOf
    <3> QED BY <3>1, <3>2, <3>3, <3>4
  <2>2. StatusView' = [j \in Jobs |-> IF StatusView[j] \in InProgress THEN "interrupted"
                                                                      ELSE StatusView[j]]
    BY <1>3 DEF StatusView
  <2>3. InProgress = Lifecycle!InProgressStatuses
    BY DEF InProgress, Lifecycle!InProgressStatuses
  <2>4. \A j \in Jobs : DecisionView[j] = "none"
    BY <2>1
  <2>5. Lifecycle!Recover
    BY <1>1, <2>1, <2>2, <2>3, <2>4
    DEF Lifecycle!Recover, StatusView, RequestView, DecisionView, DueView, WorkingView
  <2> QED BY <2>5 DEF LifeStep, Lifecycle!LifecycleNext
<1> QED BY <1>4, <1>5 DEF Proceeds

-----------------------------------------------------------------------------
(* The invariant and the refinement.                                       *)

LEMMA LifeInit == Init => LifeInv /\ Lifecycle!Initially
<1> SUFFICES ASSUME Init PROVE LifeInv /\ Lifecycle!Initially
  OBVIOUS
<1>1. LockIndInv /\ ConsentInv /\ TypeOK
  BY LockInit, ConsentInit, TypeInit
<1>2. /\ Empty /\ faults = 0 /\ crashes = 0 /\ up
      /\ job = [j \in Jobs |-> NoJob] /\ approval = [j \in Jobs |-> NoApproval]
  BY NoRecordTypes DEF Init, RunnerInit, OrchestratorInit, StoreInit, Empty
<1>3. \A j \in Jobs : JobInv(j)
  BY <1>2, EmptyFacts
  DEF JobInv, RowInv, CaredFor, Approvable, Pending, NoJob, NoApproval, InProgress
<1>4. Lifecycle!Initially
  <2>1. DueView = {} /\ WorkingView = {} /\ DecisionView = [j \in Jobs |-> "none"]
    BY <1>1, <1>2, EmptyView
  <2>2. /\ StatusView = [j \in Jobs |-> "none"] /\ RequestView = [j \in Jobs |-> "none"]
    BY <1>2 DEF StatusView, RequestView, RequestOf, NoJob, NoApproval
  <2>3. faults + crashes = 0
    BY <1>2
  <2> QED BY <2>1, <2>2, <2>3
          DEF Lifecycle!Initially, StatusView, RequestView, DecisionView, DueView, WorkingView
<1> QED BY <1>1, <1>2, <1>3, <1>4 DEF LifeInv, DownInv

LEMMA NextProceeds ==
  ASSUME LifeInv, TypeOK', [Next]_vars
  PROVE  Proceeds /\ DownInv'
<1>1. CASE Process
  <2>1. UNCHANGED <<crashes, up>> /\ DownInv'
    BY <1>1 DEF Process, DownInv
  <2>2. ASSUME NEW r \in Runs,
               \/ (RunnerStep(r) \/ RunStatementFails(r)) /\ UNCHANGED orchestratorVars
               \/ ReadQuestionContext(r) \/ SaveQuestion(r) \/ SendQuestion(r) \/ QuestionFails(r)
        PROVE  Proceeds
    BY <2>1, <2>2, RunnerProceeds, AskerProceeds
  <2>3. ASSUME NEW c \in Chats, HandlerStep(c) PROVE Proceeds
    BY <2>1, <2>3, EventProceeds, SubmitProceeds, SubmitMutationProceeds, RequestProceeds,
       HandlerReturns, RejectProceeds, DecidedStartProceeds DEF HandlerStep
  <2>4. ASSUME NEW c \in Chats, Event(c) \/ HandlerFails(c) \/ ApprovalCardFails(c)
        PROVE  Proceeds
    BY <2>1, <2>4, EventProceeds, HandlerReturns
  <2> QED BY <1>1, <2>1, <2>2, <2>3, <2>4 DEF Process, RunStep, Fault
<1>2. CASE Crash
  <2>1. DownInv'
    BY <1>2, NoRecordTypes DEF Crash, DownInv
  <2> QED BY <1>2, <2>1, CrashProceeds
<1>3. CASE Restart
  <2>1. DownInv'
    BY <1>3 DEF Restart, DownInv
  <2> QED BY <1>3, <2>1, RestartProceeds
<1>4. CASE Environment \/ UNCHANGED vars \/ \E j \in Jobs : OrphanExits(j)
  <2>1. UNCHANGED <<job, approval, run, svc, cards, faults, crashes, up>>
    BY <1>4 DEF Environment, Commit, OrphanExits, vars, storeVars, runnerVars, orchestratorVars
  <2>2. GoesOn /\ \A j \in Jobs : SameJob(j)
    BY <2>1 DEF GoesOn, SameJob
  <2>3. DownInv'
    BY <2>1 DEF LifeInv, DownInv
  <2> QED BY <2>1, <2>2, <2>3, NoJobProceeds
<1> QED BY <1>1, <1>2, <1>3, <1>4 DEF Next

LEMMA LifeInvStep == LifeInv /\ [Next]_vars => LifeInv' /\ LifeStep
<1> SUFFICES ASSUME LifeInv, [Next]_vars PROVE LifeInv' /\ LifeStep
  OBVIOUS
<1>1. LockIndInv' /\ ConsentInv'
  BY LockStep, ConsentStep DEF LifeInv
<1>2. TypeOK'
  BY <1>1 DEF ConsentInv
<1>3. Proceeds /\ DownInv'
  BY <1>2, NextProceeds
<1> QED BY <1>1, <1>3 DEF LifeInv, Proceeds

\* Handlers, goroutines, locks, cards, failures, crashes and restarts together
\* lead every job through the life JobLifecycle describes: each request is
\* decided once, each decision acted upon once, and a job succeeds only when
\* nothing about it is open, decided or due.
THEOREM LifecycleImplemented == Spec => LifecycleKept
<1>1. Init => LifeInv /\ Lifecycle!Initially
  BY LifeInit
<1>2. LifeInv /\ [Next]_vars => LifeInv' /\ [Lifecycle!LifecycleNext]_(Lifecycle!lifecycleVars)
  BY LifeInvStep DEF LifeStep
<1> QED BY <1>1, <1>2, PTL DEF Spec, LifecycleKept, Lifecycle!LifecycleSpec

LEMMA LifeInvHolds == Spec => []LifeInv
BY LifeInit, LifeInvStep, PTL DEF Spec

\* One decision starts one goroutine: two of a job are never both short of their
\* result, however often its cards are clicked and whatever fails.
THEOREM DecisionsRunOnce == Spec => []OneRunPerDecision
<1>1. LifeInv => OneRunPerDecision
  BY LifeTypes DEF LifeInv, JobInv, RunInv, OneRunPerDecision, Undecided, UndecidedPcs, On, Holds
<1> QED BY <1>1, LifeInvHolds, PTL

\* While a goroutine executes nobody else writes its job's status, which is
\* running until that goroutine writes its outcome.
THEOREM ExecutionOwnsStatus == Spec => []ExecutingIsRunning
<1>1. LifeInv => ExecutingIsRunning
  BY LifeTypes DEF LifeInv, JobInv, RunInv, ExecutingIsRunning, Executing, On, Carries
<1> QED BY <1>1, LifeInvHolds, PTL

\* As long as no statement has failed, a job in progress has a goroutine that
\* is going to take it further, also after a crash and the reconciliation.
THEOREM NoJobIsForgotten == Spec => []InProgressHasRun
<1>1. LifeInv => InProgressHasRun
  BY DEF LifeInv, JobInv, CaredFor, InProgressHasRun, On
<1> QED BY <1>1, LifeInvHolds, PTL

\* As long as nothing has failed, a job that waits for an approval can be
\* approved: its request is pending and its card delivered, or a handler is
\* between the two.
THEOREM WaitingIsApprovable == Spec => []WaitingCanBeApproved
<1>1. LifeInv => WaitingCanBeApproved
  <2>1. LifeInv => \A j \in Jobs : Approvable(j)
    BY DEF LifeInv, JobInv
  <2>2. (\A j \in Jobs : Approvable(j)) => WaitingCanBeApproved
    BY Zenon DEF Approvable, WaitingCanBeApproved, Handles, WithJob, Pending
  <2> QED BY <2>1, <2>2
<1> QED BY <1>1, LifeInvHolds, PTL

\* A run that follows a decision is given the session and generation of the
\* card's request, and keeps them until Claude has answered: no question asked
\* or decision made in between puts another request under it.
THEOREM DecidedContextRuns == Spec => []DecidedContextIsRun
<1>1. LifeInv => DecidedContextIsRun
  <2> SUFFICES ASSUME LifeInv, NEW r \in Runs, Bound(run[r]),
                      approval[run[r].job].status = "approved"
               PROVE  /\ approval[run[r].job].payload.gen = run[r].gen
                      /\ approval[run[r].job].payload.session = run[r].resume
    BY DEF DecidedContextIsRun, Bound
  <2>1. run[r].job \in Jobs /\ On(r, run[r].job)
    BY LifeTypes DEF Bound, On
  <2> QED BY <2>1 DEF LifeInv, JobInv, RunInv
<1> QED BY <1>1, LifeInvHolds, PTL

-----------------------------------------------------------------------------
(* What is proved of JobLifecycle holds of the rows of the gateway.        *)

Life == INSTANCE JobLifecycleProofs WITH
  status   <- [j \in Jobs |-> job[j].status],
  request  <- [j \in Jobs |-> RequestOf(j)],
  decision <- [j \in Jobs |-> DecisionOn(j)],
  due      <- JobsOf(DuePcs),
  working  <- JobsOf(WorkingPcs),
  mishaps  <- faults + crashes

LEMMA SameLives ==
  ASSUME NEW j \in Jobs
  PROVE  Life!Lives(j) <=> Lifecycle!Lives(j)
BY DEF Life!Lives, Life!Submit, Life!SubmitMutation, Life!AskApproval, Life!AskQuestion,
       Life!Decide, Life!Start, Life!Reject, Life!Begin, Life!End, Life!Fail,
       Life!SetStatus, Life!Open,
       Lifecycle!Lives, Lifecycle!Submit, Lifecycle!SubmitMutation, Lifecycle!AskApproval,
       Lifecycle!AskQuestion, Lifecycle!Decide, Lifecycle!Start, Lifecycle!Reject,
       Lifecycle!Begin, Lifecycle!End, Lifecycle!Fail, Lifecycle!SetStatus, Lifecycle!Open

LEMMA SameLife == Lifecycle!LifecycleSpec => Life!LifecycleSpec
<1>1. Lifecycle!Initially => Life!Initially
  BY DEF Life!Initially, Lifecycle!Initially
<1>2. Lifecycle!LifecycleNext => Life!LifecycleNext
  BY SameLives DEF Life!LifecycleNext, Life!EndAll, Life!Recover, Life!InProgressStatuses,
                   Lifecycle!LifecycleNext, Lifecycle!EndAll, Lifecycle!Recover,
                   Lifecycle!InProgressStatuses
<1>3. [Lifecycle!LifecycleNext]_(Lifecycle!lifecycleVars)
        => [Life!LifecycleNext]_(Life!lifecycleVars)
  BY <1>2 DEF Life!lifecycleVars, Lifecycle!lifecycleVars
<1> QED BY <1>1, <1>3, PTL DEF Life!LifecycleSpec, Lifecycle!LifecycleSpec

\* No late decision, second click, repeated run, crash or restart takes a success
\* back.
SuccessStays ==
  [][\A j \in Jobs : job[j].status = "succeeded" => job'[j].status = "succeeded"]_vars

\* A job of the gateway that has succeeded stays so: the theorem SuccessIsFinal
\* of the abstract life, brought down to the column jobs.status.
THEOREM SuccessLasts == Spec => SuccessStays
<1>1. Spec => Life!SucceededIsFinal
  BY LifecycleImplemented, SameLife, Life!SuccessIsFinal DEF LifecycleKept
<1>2. [Life!KeepsSuccess]_(Life!lifecycleVars)
        => [\A j \in Jobs : job[j].status = "succeeded" => job'[j].status = "succeeded"]_vars
  <2> SUFFICES ASSUME [Life!KeepsSuccess]_(Life!lifecycleVars),
                      NEW j \in Jobs, job[j].status = "succeeded"
               PROVE  job'[j].status = "succeeded"
    OBVIOUS
  <2>1. /\ [i \in Jobs |-> job[i].status]'[j] = job'[j].status
        /\ [i \in Jobs |-> job[i].status][j] = job[j].status
    OBVIOUS
  <2>2. CASE UNCHANGED Life!lifecycleVars
    <3>1. [i \in Jobs |-> job[i].status]' = [i \in Jobs |-> job[i].status]
      BY <2>2 DEF Life!lifecycleVars
    <3> QED BY <2>1, <3>1
  <2>3. CASE Life!KeepsSuccess
    BY <2>1, <2>3 DEF Life!KeepsSuccess
  <2> QED BY <2>2, <2>3
<1> QED BY <1>1, <1>2, PTL DEF SuccessStays, Life!SucceededIsFinal
=============================================================================
