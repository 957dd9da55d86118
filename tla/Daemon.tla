------------------------------- MODULE Daemon -------------------------------
(***************************************************************************)
(* The life of the gateway process and the commands that manage it         *)
(* (cmd/server/main.go, internal/daemon/runtime.go).  Everything they know *)
(* of each other goes through one file, runtime.json, the process table    *)
(* and the probes of the local HTTP server.                                *)
(*                                                                         *)
(* An instance is one run of "serve".  Its main goroutine and, after a     *)
(* signal, its shutdown goroutine both update the runtime state; an update *)
(* changes the copy in memory under Runtime.mu and saves all of it.        *)
(* A process id is not used twice.                                         *)
(***************************************************************************)
EXTENDS Download, FiniteSets

CONSTANTS Instances,    \* runs of "serve"
          NoInstance,
          MaxKills      \* bound on the kills of an instance

ASSUME DaemonAssumption == NoInstance \notin Instances /\ MaxKills \in Nat

VARIABLES instance,  \* state of each instance
          file,      \* runtime.json
          shell,     \* state of each terminal
          kills,
          \* History, which no action looks at:
          overlapped,   \* a command was run next to another, or next to a boot
          overwritten,  \* a process at its end has saved over, or removed, the
                        \* file of another that runs
          abandoned     \* instances whose end a stop has not waited for

historyVars == <<overlapped, overwritten, abandoned>>
daemonVars == <<instance, file, shell, kills, historyVars>>
vars == <<daemonVars, downloadVars>>

Components == {"http", "feishu", "claude"}
Statuses == {"starting", "ready", "stopping", "failed"}

\* The fields of daemon.State that a branch depends on.
States == [status: Statuses, ready: SUBSET Components]
NewState == [status |-> "starting", ready |-> {}]

\* Main goroutine: "boot" opens the store and reconciles it; "credentials",
\* "feishu" and "claude" wait for something outside; "validate" and "preflight"
\* are before the update that announces such a wait; "failing" and "removing"
\* are the deferred functions; "exiting" the rest of them.
Waits == {"credentials", "feishu", "claude"}
InstancePcs == {"unused", "boot", "listen", "http", "validate", "preflight", "serving",
                "draining", "failing", "removing", "exiting", "gone"} \cup Waits

\* Shutdown goroutine: not signalled, woken, state marked, server shut down.
Shutdowns == {"none", "woken", "marked", "closed"}

\* The memory of a process goes with it.
InstanceRecords == [pc: InstancePcs, state: States, shutdown: Shutdowns]
NoProcess == [pc |-> "unused", state |-> NewState, shutdown |-> "none"]
Ended == [NoProcess EXCEPT !.pc = "gone"]

Commands == {"start", "stop", "restart", "upgrade"}
ShellPcs == {"idle", "read", "decide", "remove", "spawn", "await", "replace",
             "stop", "stopping"}

\* The runtime file: the id of the instance that saved it, and its state.
Files == [id: Instances \cup {NoInstance}, state: States]
NoFile == [id |-> NoInstance, state |-> NewState]

ShellRecords == [pc: ShellPcs, command: Commands, seen: Files,
                 child: Instances \cup {NoInstance}]

NoCommand == [pc |-> "idle", command |-> "start", seen |-> NoFile, child |-> NoInstance]

TypeOK ==
  /\ instance \in [Instances -> InstanceRecords]
  /\ file \in Files
  /\ shell \in [Shells -> ShellRecords]
  /\ kills \in 0..MaxKills
  /\ overlapped \in BOOLEAN /\ overwritten \in BOOLEAN
  /\ abandoned \subseteq Instances
  /\ DownloadTypeOK

Init ==
  /\ DownloadInit
  /\ instance = [i \in Instances |-> NoProcess]
  /\ file = NoFile
  /\ shell = [s \in Shells |-> NoCommand]
  /\ kills = 0
  /\ overlapped = FALSE /\ overwritten = FALSE /\ abandoned = {}

Is(i, pc) == instance[i].pc = pc

Alive(i) == i \in Instances /\ instance[i].pc \notin {"unused", "gone"}

\* It uses the database or runs jobs.
Running(i) == instance[i].pc \notin {"unused", "failing", "removing", "exiting", "gone"}

\* processExists: start does not wait for its child, which stays in the process
\* table as long as start does.
ProcessExists(i) ==
  \/ Alive(i)
  \/ /\ i \in Instances /\ Is(i, "gone")
     /\ \E s \in Shells : shell[s].pc = "await" /\ shell[s].child = i

\* GET /healthz and /readyz.
Healthy(i) == /\ Alive(i)
              /\ instance[i].pc \notin {"boot", "listen"}
              /\ instance[i].shutdown # "closed"

IsReady(state) == state.status = "ready" /\ state.ready = Components

Ready(i) == Healthy(i) /\ IsReady(instance[i].state)

-----------------------------------------------------------------------------
(* The runtime state.                                                      *)

\* reconcileOverallStatus: a state that is stopping or has failed stays so.
Reconciled(state) ==
  IF state.status \in {"failed", "stopping"} THEN state
  ELSE [state EXCEPT !.status = IF state.ready = Components THEN "ready" ELSE "starting"]

\* The file is replaced or removed, whoever saved it.
TakesFile(i) ==
  overwritten' = \/ overwritten
                 \/ /\ instance[i].shutdown # "none"
                    /\ file.id \in Instances \ {i} /\ Running(file.id)

\* Runtime.update, together with a step of the goroutine.
Update(i, state, pc, shutdown) ==
  LET new == Reconciled(state)
  IN /\ instance' = [instance EXCEPT ![i] = [pc |-> pc, state |-> new, shutdown |-> shutdown]]
     /\ file' = [id |-> i, state |-> new]
     /\ TakesFile(i)

Step(i, pc) == instance' = [instance EXCEPT ![i].pc = pc]

End(i) == instance' = [instance EXCEPT ![i] = Ended]

\* runServe returns: the first deferred function, stop(), cancels the shutdown
\* context whatever ended the wait.
Return(i, pc) ==
  LET shutdown == instance[i].shutdown
  IN instance' = [instance EXCEPT ![i] =
       [@ EXCEPT !.pc = pc, !.shutdown = IF shutdown = "none" THEN "woken" ELSE shutdown]]

\* Mutant: the arguments are swapped.
MarkSwapped(i, component, pc) ==
  Update(i, [instance[i].state EXCEPT !.ready = @ \cup {pc}], component,
         instance[i].shutdown)

\* Mutant: a component that becomes ready has the overall status worked out anew.
MarkAnew(i, component, pc) ==
  Update(i, [instance[i].state EXCEPT !.ready = @ \cup {component}, !.status = "starting"],
         pc, instance[i].shutdown)

MarkReady(i, component, pc) ==
  Update(i, [instance[i].state EXCEPT !.ready = @ \cup {component}], pc,
         instance[i].shutdown)

-----------------------------------------------------------------------------
(* An instance.                                                            *)

\* NewRuntime, once the store is open and reconciled.
Boot(i) ==
  /\ Is(i, "boot")
  /\ Step(i, "listen")
  /\ file' = [id |-> i, state |-> NewState]
  /\ UNCHANGED <<shell, kills, historyVars>>

\* An error before there is a runtime state ends the process without a file.
BootFails(i) ==
  /\ Is(i, "boot")
  /\ End(i)
  /\ UNCHANGED <<file, shell, kills, historyVars>>

\* NotifyContext, and the goroutine of the HTTP server.
Listen(i) ==
  /\ Is(i, "listen")
  /\ Step(i, "http")
  /\ UNCHANGED <<file, shell, kills, historyVars>>

HTTPReady(i) ==
  /\ Is(i, "http")
  /\ MarkReady(i, "http", "validate")
  /\ UNCHANGED <<shell, kills, overlapped, abandoned>>

\* MarkFeishuWaiting and MarkClaudeWaiting: the component was not ready before.
MarkWaiting(i, from, to) ==
  /\ Is(i, from)
  /\ Update(i, instance[i].state, to, instance[i].shutdown)
  /\ UNCHANGED <<shell, kills, overlapped, abandoned>>

CredentialsValid(i) == MarkWaiting(i, "credentials", "feishu")

\* The websocket is connected.
FeishuReady(i) ==
  /\ Is(i, "feishu")
  /\ MarkReady(i, "feishu", "preflight")
  /\ UNCHANGED <<shell, kills, overlapped, abandoned>>

ClaudeReady(i) ==
  /\ Is(i, "claude")
  /\ MarkReady(i, "claude", "serving")
  /\ UNCHANGED <<shell, kills, overlapped, abandoned>>

\* Mutant: waiting for Feishu does not end with the shutdown context.
OnlyClaudeCancelled(i) ==
  /\ Is(i, "claude") /\ instance[i].shutdown # "none"
  /\ Return(i, "failing")
  /\ UNCHANGED <<file, shell, kills, historyVars>>

\* The waits are bound to the context the signal cancels.
Cancelled(i) ==
  /\ instance[i].pc \in Waits /\ instance[i].shutdown # "none"
  /\ Return(i, "failing")
  /\ UNCHANGED <<file, shell, kills, historyVars>>

\* A component does not become ready in time, or fails later.
ComponentFails(i) ==
  /\ instance[i].pc \in Waits \cup {"serving"}
  /\ Return(i, "failing")
  /\ UNCHANGED <<file, shell, kills, historyVars>>

Shutdown(i) ==
  /\ Is(i, "serving") /\ instance[i].shutdown # "none"
  /\ Step(i, "draining")
  /\ UNCHANGED <<file, shell, kills, historyVars>>

\* Runner.Wait returns, once every run has ended.
Drained(i) ==
  /\ Is(i, "draining")
  /\ Return(i, "removing")
  /\ UNCHANGED <<file, shell, kills, historyVars>>

RemoveFile(i) ==
  /\ Is(i, "removing")
  /\ Step(i, "exiting")
  /\ file' = NoFile /\ TakesFile(i)
  /\ UNCHANGED <<shell, kills, overlapped, abandoned>>

SetFailed(i) ==
  /\ Is(i, "failing")
  /\ Update(i, [instance[i].state EXCEPT !.status = "failed"], "exiting",
            instance[i].shutdown)
  /\ UNCHANGED <<shell, kills, overlapped, abandoned>>

Exit(i) ==
  /\ Is(i, "exiting")
  /\ End(i)
  /\ UNCHANGED <<file, shell, kills, historyVars>>

\* The shutdown goroutine: it marks the state, then shuts the server down.
MarkStopping(i) ==
  /\ Alive(i) /\ instance[i].shutdown = "woken"
  /\ Update(i, [instance[i].state EXCEPT !.status = "stopping"], instance[i].pc, "marked")
  /\ UNCHANGED <<shell, kills, overlapped, abandoned>>

CloseServer(i) ==
  /\ Alive(i) /\ instance[i].shutdown = "marked"
  /\ instance' = [instance EXCEPT ![i].shutdown = "closed"]
  /\ UNCHANGED <<file, shell, kills, historyVars>>

\* The machine or its user kills the process.
Kill(i) ==
  /\ Alive(i) /\ kills < MaxKills
  /\ kills' = kills + 1
  /\ End(i)
  /\ UNCHANGED <<file, shell, historyVars>>

\* SIGTERM: before NotifyContext and after its stop() it ends the process, and one
\* that has ended it does not reach.
Signalled(i) ==
  IF instance[i].pc \in {"boot", "listen", "failing", "removing", "exiting", "gone"}
    THEN Ended
    ELSE [instance[i] EXCEPT !.shutdown = IF @ = "none" THEN "woken" ELSE @]

-----------------------------------------------------------------------------
(* The commands.                                                           *)

InShell(s, pc) == shell[s].pc = pc
Command(s) == shell[s].command
ShellStep(s, pc) == shell' = [shell EXCEPT ![s].pc = pc]

\* The command has printed its outcome and ends.
Done(s) == shell' = [shell EXCEPT ![s] = NoCommand]

\* The command reads or changes something, rather than only waiting for its child.
Acting(s) == shell[s].pc \notin {"idle", "await"}

\* Bound: start and restart need an instance that no other terminal may take.
InstanceLeft ==
  Cardinality({t \in Shells : Acting(t)})
    < Cardinality({i \in Instances : Is(i, "unused")})

Run(s, command) ==
  /\ InShell(s, "idle")
  /\ command \in {"start", "restart"} => InstanceLeft
  /\ shell' = [shell EXCEPT ![s] =
       [pc |-> "read", command |-> command, seen |-> NoFile, child |-> NoInstance]]
  /\ IF command = "upgrade" THEN BeginUpgrade(s) ELSE UNCHANGED downloadVars
  /\ overlapped' = \/ overlapped
                   \/ \E t \in Shells : Acting(t)
                   \/ \E i \in Instances : Is(i, "boot")
  /\ UNCHANGED <<instance, file, kills, overwritten, abandoned>>

\* currentRuntime; restart stops first.
Read(s) ==
  /\ InShell(s, "read")
  /\ shell' = [shell EXCEPT ![s] =
       [@ EXCEPT !.seen = file,
                 !.pc = IF Command(s) \in {"stop", "restart"} THEN "stop" ELSE "decide"]]
  /\ UNCHANGED <<instance, file, kills, historyVars>>

\* Mutant: only the ready condition holds start and upgrade back.
BusyWhenReady(s) == Ready(shell[s].seen.id)

\* runtimeCondition is "ready" or "starting".
Busy(s) ==
  LET i == shell[s].seen.id
  IN \/ Healthy(i)
     \/ ProcessExists(i) /\ shell[s].seen.state.status \in {"ready", "starting"}

\* runtimeCondition is "stale" or "failed".
Dead(s) == LET seen == shell[s].seen
           IN seen # NoFile /\ (~ProcessExists(seen.id) \/ seen.state.status = "failed")

\* start goes on to remove any file, upgrade only a stale or failed one.
Decide(s) ==
  /\ InShell(s, "decide")
  /\ IF shell[s].seen # NoFile /\ Busy(s)
       THEN /\ Done(s)
            /\ IF Command(s) = "upgrade" THEN EndUpgrade(s) ELSE UNCHANGED downloadVars
       ELSE /\ shell' = [shell EXCEPT ![s] =
                 [@ EXCEPT !.seen = NoFile,
                           !.pc = IF Command(s) = "upgrade" /\ ~Dead(s)
                                    THEN "replace" ELSE "remove"]]
            /\ UNCHANGED downloadVars
  /\ UNCHANGED <<instance, file, kills, historyVars>>

Remove(s) ==
  /\ InShell(s, "remove")
  /\ ShellStep(s, IF Command(s) = "upgrade" THEN "replace" ELSE "spawn")
  /\ file' = NoFile
  /\ UNCHANGED <<instance, kills, historyVars>>

Spawn(s) ==
  /\ InShell(s, "spawn")
  /\ \E j \in Instances : Is(j, "unused")
  /\ LET i == CHOOSE j \in Instances : Is(j, "unused")
     IN /\ Step(i, "boot")
        /\ shell' = [shell EXCEPT ![s] = [@ EXCEPT !.pc = "await", !.child = i]]
  /\ UNCHANGED <<file, kills, historyVars>>

\* waitForReadyInstance: the file is the child's and ready, and so says the
\* child's server.
AwaitReady(s) ==
  /\ InShell(s, "await")
  /\ file.id = shell[s].child
  /\ IsReady(file.state) /\ Ready(file.id)
  /\ Done(s)
  /\ UNCHANGED <<instance, file, kills, historyVars>>

\* The end of the child ends the wait only by what it has saved: until start has
\* ended, processExists is true of it.
AwaitFailed(s) ==
  /\ InShell(s, "await")
  /\ file.id = shell[s].child /\ file.state.status = "failed"
  /\ Done(s)
  /\ UNCHANGED <<instance, file, kills, historyVars>>

\* upgrade goes on to the download, and ends.
Replace(s) ==
  /\ InShell(s, "replace")
  /\ \/ DownloadStep(s) /\ UNCHANGED shell
     \/ EndUpgrade(s) /\ Done(s)
  /\ UNCHANGED <<instance, file, kills, historyVars>>

\* After a stop, restart goes on as start does.
Stopped(s) ==
  IF Command(s) = "restart"
    THEN shell' = [shell EXCEPT ![s] = [NoCommand EXCEPT !.pc = "read"]]
    ELSE Done(s)

\* No file, a stale file, or a process to signal.
Stop(s) ==
  LET i == shell[s].seen.id
  IN /\ InShell(s, "stop")
     /\ \/ /\ shell[s].seen = NoFile
           /\ Stopped(s)
           /\ UNCHANGED <<instance, file>>
        \/ /\ shell[s].seen # NoFile /\ ~ProcessExists(i)
           /\ file' = NoFile
           /\ Stopped(s)
           /\ UNCHANGED instance
        \/ /\ ProcessExists(i)
           /\ instance' = [instance EXCEPT ![i] = Signalled(i)]
           /\ ShellStep(s, "stopping")
           /\ UNCHANGED file
     /\ UNCHANGED <<kills, historyVars>>

\* Mutant: stop does not wait for the process it has signalled.
StopAtOnce(s) ==
  /\ InShell(s, "stopping")
  /\ file' = NoFile
  /\ Stopped(s)
  /\ UNCHANGED <<instance, kills, historyVars>>

\* The process is gone, or the file is.
StopWait(s) ==
  /\ InShell(s, "stopping")
  /\ ~ProcessExists(shell[s].seen.id) \/ file = NoFile
  /\ file' = NoFile
  /\ Stopped(s)
  /\ UNCHANGED <<instance, kills, historyVars>>

\* Mutant: a command that gives up clears the runtime file.
TimesOutCleanly(s) ==
  /\ shell[s].pc \in {"await", "stopping"}
  /\ abandoned' = abandoned \cup {i \in Instances : InShell(s, "stopping") /\ shell[s].seen.id = i}
  /\ Done(s)
  /\ file' = NoFile
  /\ UNCHANGED <<instance, kills, overlapped, overwritten>>

\* start waits 30 seconds for its child, stop 10 for the end of the process, and
\* restart ends when its stop does so.
TimesOut(s) ==
  /\ shell[s].pc \in {"await", "stopping"}
  /\ abandoned' = abandoned \cup {i \in Instances : InShell(s, "stopping") /\ shell[s].seen.id = i}
  /\ Done(s)
  /\ UNCHANGED <<instance, file, kills, overlapped, overwritten>>

-----------------------------------------------------------------------------
(* The specification.                                                      *)

\* What an instance does by itself, once begun.
Proceeds(i) ==
  /\ \/ Boot(i) \/ Listen(i) \/ HTTPReady(i) \/ Cancelled(i) \/ Shutdown(i)
     \/ MarkWaiting(i, "validate", "credentials") \/ MarkWaiting(i, "preflight", "claude")
     \/ RemoveFile(i) \/ SetFailed(i) \/ Exit(i)
  /\ UNCHANGED downloadVars

\* What depends on Feishu, Claude, its runs and the machine.
External(i) == \/ Drained(i) \/ CredentialsValid(i) \/ FeishuReady(i) \/ ClaudeReady(i)
               \/ ComponentFails(i) \/ BootFails(i) \/ Kill(i)

Next ==
  \/ \E i \in Instances : Proceeds(i)
  \/ /\ \E i \in Instances : External(i) \/ MarkStopping(i) \/ CloseServer(i)
     /\ UNCHANGED downloadVars
  \/ \E s \in Shells : Decide(s) \/ Replace(s) \/ \E command \in Commands : Run(s, command)
  \/ /\ \E s \in Shells :
          \/ Read(s) \/ Remove(s) \/ Spawn(s) \/ AwaitReady(s)
          \/ AwaitFailed(s) \/ Stop(s) \/ StopWait(s) \/ TimesOut(s)
     /\ UNCHANGED downloadVars
  \/ Release /\ UNCHANGED daemonVars

Spec == Init /\ [][Next]_vars

\* The main goroutine runs.  Nothing says that the runs it waits for end.
FairSpec == Spec /\ \A i \in Instances : WF_instance(Proceeds(i))

-----------------------------------------------------------------------------
(* Properties.                                                             *)

\* Commands were run one after the other, a start given time to open the store,
\* and no process at its end has put itself in the place of its successor.
Orderly == ~overlapped /\ ~overwritten

\* A gateway is active until it has been told to end and a stop that told it has
\* given up waiting for that.
Active(i) == Running(i) /\ (instance[i].shutdown = "none" \/ i \notin abandoned)

\* One gateway at a time: a second one would reconcile the jobs of the first
\* as interrupted and answer the same chats.  Killed processes, slow ends, a
\* start or stop that gives up and any number of terminals do not bring it about.
OneGateway ==
  Orderly => \A i, j \in Instances : Active(i) /\ Active(j) => i = j

\* Once stopping or failed, an instance is never again shown as starting or
\* ready, though components go on becoming ready in the other goroutine.
EndIsFinal ==
  [][\A i \in Instances : instance[i].state.status \in {"stopping", "failed"}
       => Is(i, "gone")' \/ instance'[i].state.status \in {"stopping", "failed"}]_vars

\* From its first save on, the file is the gateway's: stop, status and upgrade
\* find it, and find it as it is.  No command removes it, though none of them
\* looks whose file it removes.
FileFindsGateway ==
  Orderly => \A i \in Instances : Active(i) /\ ~Is(i, "boot")
               => file = [id |-> i, state |-> instance[i].state]


\* The binary is replaced under the feet of no gateway, but one whose end a stop
\* has given up waiting for.
UpgradeSparesGateway ==
  Orderly => \A s \in Shells : InShell(s, "replace") => \A i \in Instances : ~Active(i)

\* An instance whose shutdown context is cancelled gets to waiting for its runs,
\* whatever it is waiting for, and once these have ended, to its own end.
SignalEnds ==
  \A i \in Instances :
    instance[i].shutdown # "none" ~> Is(i, "gone") \/ Is(i, "draining")
=============================================================================
