---------------------------- MODULE DaemonProofs ----------------------------
(***************************************************************************)
(* Proofs about the process and its commands, for any number of gateways *)
(* and terminals, whatever is slow, killed or given up: the types, the     *)
(* binary that is always whole, the end that is final, and, as long as the *)
(* history is orderly, one active gateway, which is found by its file and  *)
(* under whose feet nothing is upgraded.  For one terminal: what an        *)
(* upgrade reports is installed.                                           *)
(***************************************************************************)
EXTENDS Daemon, TLAPS

-----------------------------------------------------------------------------
(* The binary.                                                             *)

\* What has been done to a temporary file that is about to become the binary.
TempInv(s) ==
  /\ upgrade[s].pc \in {"chmod", "rename"} => temp[s].whole
  /\ upgrade[s].pc = "rename" => temp[s].executable

DownloadInv == DownloadTypeOK /\ BinaryWhole /\ \A s \in Shells : TempInv(s)

\* A step of one upgrade that leaves the binary alone.
LEMMA OneUpgrade ==
  ASSUME DownloadInv, NEW s \in Shells,
         NEW file1 \in Binaries, NEW record \in UpgradeRecords,
         temp' = [temp EXCEPT ![s] = file1], upgrade' = [upgrade EXCEPT ![s] = record],
         UNCHANGED <<latest, binary>>,
         record.pc \in {"chmod", "rename"} => file1.whole,
         record.pc = "rename" => file1.executable
  PROVE  DownloadInv'
<1>1. DownloadTypeOK' /\ BinaryWhole'
  BY DEF DownloadInv, DownloadTypeOK, BinaryWhole
<1>2. \A t \in Shells : TempInv(t)'
  BY DEF DownloadInv, DownloadTypeOK, TempInv
<1> QED BY <1>1, <1>2 DEF DownloadInv

LEMMA NothingDownloaded == NoBinary \in Binaries /\ NoUpgrade \in UpgradeRecords
BY DownloadAssumption DEF NoBinary, Binaries, Versions, NoUpgrade, UpgradeRecords, UpgradePcs

LEMMA DownloadStarts == Init => DownloadInv
<1> SUFFICES ASSUME Init PROVE DownloadInv
  OBVIOUS
<1>1. DownloadTypeOK
  BY NothingDownloaded, DownloadAssumption DEF Init, DownloadInit, DownloadTypeOK, Binaries, Versions
<1>2. BinaryWhole /\ \A s \in Shells : TempInv(s)
  BY DEF Init, DownloadInit, BinaryWhole, TempInv, NoUpgrade
<1> QED BY <1>1, <1>2 DEF DownloadInv

\* Every step of an upgrade.
LEMMA UpgradeStep ==
  ASSUME DownloadInv, NEW s \in Shells, BeginUpgrade(s) \/ DownloadStep(s) \/ EndUpgrade(s)
  PROVE  DownloadInv'
<1>0. /\ latest \in 1..MaxReleases /\ binary \in Binaries
      /\ temp \in [Shells -> Binaries] /\ upgrade \in [Shells -> UpgradeRecords]
      /\ temp[s] \in Binaries /\ upgrade[s] \in UpgradeRecords /\ TempInv(s) /\ BinaryWhole
  BY DEF DownloadInv, DownloadTypeOK
<1>same. temp = [temp EXCEPT ![s] = temp[s]]
  BY <1>0
<1>1. CASE BeginUpgrade(s)
  <2> DEFINE record == [NoUpgrade EXCEPT !.pc = "resolve", !.current = binary.version]
  <2>1. record \in UpgradeRecords /\ record.pc = "resolve"
    BY <1>0, NothingDownloaded DEF UpgradeRecords, UpgradePcs, Binaries
  <2>2. temp' = [temp EXCEPT ![s] = temp[s]] /\ UNCHANGED <<latest, binary>>
        /\ upgrade' = [upgrade EXCEPT ![s] = record]
    BY <1>1, <1>same DEF BeginUpgrade
  <2> HIDE DEF record
  <2> QED BY <1>0, <2>1, <2>2, OneUpgrade
<1>2. CASE Resolve(s)
  <2>1. PICK tag \in 1..MaxReleases :
          upgrade' = [upgrade EXCEPT ![s] =
            [@ EXCEPT !.tag = tag, !.pc = IF tag = upgrade[s].current THEN "over" ELSE "request"]]
    BY <1>2 DEF Resolve
  <2> DEFINE next == IF tag = upgrade[s].current THEN "over" ELSE "request"
             record == [upgrade[s] EXCEPT !.tag = tag, !.pc = next]
  <2>2. tag \in Versions /\ next \in UpgradePcs /\ next \in {"over", "request"}
    BY DownloadAssumption DEF Versions, UpgradePcs
  <2>3. record \in UpgradeRecords /\ record.pc \in {"over", "request"}
    <3> HIDE DEF next
    <3> QED BY <1>0, <2>2 DEF UpgradeRecords
  <2>4. temp' = [temp EXCEPT ![s] = temp[s]] /\ UNCHANGED <<latest, binary>>
        /\ upgrade' = [upgrade EXCEPT ![s] = record]
    BY <1>2, <1>same, <2>1 DEF Resolve
  <2> HIDE DEF record
  <2> QED BY <1>0, <2>3, <2>4, OneUpgrade
<1>3. ASSUME NEW pc \in UpgradePcs, NEW file1 \in Binaries,
             temp' = [temp EXCEPT ![s] = file1], GoOn(s, pc), UNCHANGED <<latest, binary>>,
             pc \in {"chmod", "rename"} => file1.whole, pc = "rename" => file1.executable
      PROVE  DownloadInv'
  <2> DEFINE record == [upgrade[s] EXCEPT !.pc = pc]
  <2>1. record \in UpgradeRecords /\ record.pc = pc
    BY <1>0 DEF UpgradeRecords
  <2>2. upgrade' = [upgrade EXCEPT ![s] = record]
    BY <1>3 DEF GoOn
  <2> HIDE DEF record
  <2> QED BY <1>3, <2>1, <2>2, OneUpgrade
<1>4. CASE Request(s)
  <2> DEFINE file1 == [NoBinary EXCEPT !.version = upgrade[s].tag]
  <2>1. file1 \in Binaries
    BY <1>0, NothingDownloaded DEF Binaries, UpgradeRecords
  <2> QED BY <1>3, <1>4, <2>1 DEF Request, UpgradePcs
<1>5. CASE Copy(s)
  <2> DEFINE file1 == [temp[s] EXCEPT !.whole = TRUE]
  <2>1. file1 \in Binaries /\ file1.whole
    BY <1>0 DEF Binaries
  <2> QED BY <1>3, <1>5, <2>1 DEF Copy, UpgradePcs
<1>6. CASE Chmod(s)
  <2> DEFINE file1 == [temp[s] EXCEPT !.executable = TRUE]
  <2>1. file1 \in Binaries /\ file1.whole /\ file1.executable
    BY <1>0, <1>6 DEF Binaries, Chmod, At, TempInv
  <2> QED BY <1>3, <1>6, <2>1 DEF Chmod, UpgradePcs
<1>7. CASE Rename(s)
  <2>1. BinaryWhole'
    BY <1>0, <1>7 DEF Rename, At, TempInv, BinaryWhole
  <2>2. DownloadTypeOK'
    BY <1>0, <1>7, NothingDownloaded DEF Rename, GoOn, DownloadTypeOK, UpgradeRecords, UpgradePcs
  <2>3. \A t \in Shells : TempInv(t)'
    BY <1>0, <1>7 DEF Rename, GoOn, TempInv, DownloadInv, UpgradeRecords
  <2> QED BY <2>1, <2>2, <2>3 DEF DownloadInv
<1>8. CASE UpgradeFails(s)
  BY <1>3, <1>8, NothingDownloaded DEF UpgradeFails, UpgradePcs
<1>9. CASE EndUpgrade(s)
  <2>1. NoUpgrade.pc = "idle"
    BY DEF NoUpgrade
  <2> QED BY <1>9, <2>1, NothingDownloaded, OneUpgrade DEF EndUpgrade
<1> QED BY <1>1, <1>2, <1>4, <1>5, <1>6, <1>7, <1>8, <1>9 DEF DownloadStep

\* The daemon touches the binary through the steps of an upgrade only.
LEMMA DownloadKept == DownloadInv /\ [Next]_vars => DownloadInv'
<1> SUFFICES ASSUME DownloadInv, [Next]_vars PROVE DownloadInv'
  OBVIOUS
<1>1. CASE UNCHANGED downloadVars
  BY <1>1 DEF downloadVars, DownloadInv, DownloadTypeOK, BinaryWhole, TempInv
<1>2. ASSUME NEW s \in Shells,
             Decide(s) \/ Replace(s) \/ \E command \in Commands : Run(s, command)
      PROVE  DownloadInv'
  BY <1>1, <1>2, UpgradeStep DEF Decide, Replace, Run
<1>3. CASE Release
  BY <1>3, DownloadAssumption DEF Release, DownloadInv, DownloadTypeOK, BinaryWhole, TempInv
<1> QED BY <1>1, <1>2, <1>3 DEF Next, Proceeds, vars

-----------------------------------------------------------------------------
(* The processes.                                                          *)

InstanceOK == instance \in [Instances -> InstanceRecords] /\ file \in Files

\* What a step may do to the states of the processes: nothing, or something to
\* one of them that does not take its end back.
EndKept ==
  \A i \in Instances : instance[i].state.status \in {"stopping", "failed"}
    => Is(i, "gone")' \/ instance'[i].state.status \in {"stopping", "failed"}

LEMMA NoFileOK == NewState \in States /\ NoFile \in Files
BY DEF NewState, States, Statuses, Components, NoFile, Files

\* Another place or shutdown state, the same runtime state.
LEMMA Moves ==
  ASSUME InstanceOK, NEW i \in Instances, NEW pc \in InstancePcs, NEW sh \in Shutdowns,
         instance' = [instance EXCEPT ![i] = [@ EXCEPT !.pc = pc, !.shutdown = sh]],
         file' \in Files
  PROVE  InstanceOK' /\ EndKept
BY DEF InstanceOK, InstanceRecords, EndKept

LEMMA NoProcessOK == NoProcess \in InstanceRecords /\ Ended \in InstanceRecords
BY NoFileOK DEF NoProcess, Ended, InstanceRecords, InstancePcs, Shutdowns

LEMMA EndedIsGone == Ended.pc = "gone" /\ Ended.shutdown = "none"
BY DEF Ended, NoProcess

LEMMA EndMoves ==
  ASSUME InstanceOK, NEW i \in Instances,
         instance' = [instance EXCEPT ![i] = Ended], file' \in Files
  PROVE  InstanceOK' /\ EndKept
BY NoProcessOK, EndedIsGone DEF InstanceOK, EndKept, Is

LEMMA StepMoves ==
  ASSUME InstanceOK, NEW i \in Instances, NEW pc \in InstancePcs, Step(i, pc), file' \in Files
  PROVE  InstanceOK' /\ EndKept
BY DEF Step, InstanceOK, InstanceRecords, EndKept

LEMMA ReturnMoves ==
  ASSUME InstanceOK, NEW i \in Instances, NEW pc \in InstancePcs, Return(i, pc), file' \in Files
  PROVE  InstanceOK' /\ EndKept
<1> DEFINE sh == IF instance[i].shutdown = "none" THEN "woken" ELSE instance[i].shutdown
<1>1. sh \in Shutdowns
  BY DEF InstanceOK, InstanceRecords, Shutdowns
<1>2. instance' = [instance EXCEPT ![i] = [@ EXCEPT !.pc = pc, !.shutdown = sh]]
  BY DEF Return
<1> HIDE DEF sh
<1> QED BY <1>1, <1>2, Moves

\* reconcileOverallStatus leaves an end alone.
LEMMA UpdateMoves ==
  ASSUME InstanceOK, NEW i \in Instances, NEW state \in States, NEW pc \in InstancePcs,
         NEW sh \in Shutdowns, Update(i, state, pc, sh),
         instance[i].state.status \in {"stopping", "failed"}
           => state.status \in {"stopping", "failed"}
  PROVE  InstanceOK' /\ EndKept
<1> DEFINE new == Reconciled(state)
<1>1. /\ new \in States
      /\ state.status \in {"stopping", "failed"} => new.status \in {"stopping", "failed"}
  BY DEF Reconciled, States, Statuses
<1>2. /\ instance' = [instance EXCEPT ![i] = [pc |-> pc, state |-> new, shutdown |-> sh]]
      /\ file' = [id |-> i, state |-> new]
  BY DEF Update
<1> HIDE DEF new
<1>3. file' \in Files
  BY <1>1, <1>2 DEF Files
<1>4. [pc |-> pc, state |-> new, shutdown |-> sh] \in InstanceRecords
  BY <1>1 DEF InstanceRecords
<1> QED BY <1>1, <1>2, <1>3, <1>4 DEF InstanceOK, EndKept

LEMMA MarkReadyMoves ==
  ASSUME InstanceOK, NEW i \in Instances, NEW component \in Components,
         NEW pc \in InstancePcs, MarkReady(i, component, pc)
  PROVE  InstanceOK' /\ EndKept
<1> DEFINE state == [instance[i].state EXCEPT !.ready = @ \cup {component}]
<1>1. state \in States /\ state.status = instance[i].state.status
  BY DEF InstanceOK, InstanceRecords, States
<1>2. instance[i].shutdown \in Shutdowns
  BY DEF InstanceOK, InstanceRecords
<1>3. Update(i, state, pc, instance[i].shutdown)
  BY DEF MarkReady
<1> HIDE DEF state
<1> QED BY <1>1, <1>2, <1>3, UpdateMoves

\* Every step of a process.
LEMMA InstanceStep ==
  ASSUME InstanceOK, NEW i \in Instances,
         Proceeds(i) \/ External(i) \/ MarkStopping(i) \/ CloseServer(i)
  PROVE  InstanceOK' /\ EndKept
<1>0. /\ instance[i].pc \in InstancePcs /\ instance[i].state \in States
      /\ instance[i].shutdown \in Shutdowns /\ file \in Files
  BY DEF InstanceOK, InstanceRecords
<1>1. CASE Boot(i)
  <2>1. file' \in Files
    BY <1>1, NoFileOK DEF Boot, Files
  <2> QED BY <1>1, <2>1, StepMoves DEF Boot, InstancePcs
<1>2. CASE Listen(i) \/ Shutdown(i)
  BY <1>0, <1>2, StepMoves DEF Listen, Shutdown, InstancePcs
<1>10. CASE BootFails(i) \/ Exit(i) \/ Kill(i)
  BY <1>0, <1>10, EndMoves DEF BootFails, Exit, Kill, End
<1>3. CASE HTTPReady(i) \/ FeishuReady(i) \/ ClaudeReady(i)
  BY <1>3, MarkReadyMoves DEF HTTPReady, FeishuReady, ClaudeReady, Components, InstancePcs
<1>4. CASE MarkWaiting(i, "validate", "credentials") \/ MarkWaiting(i, "preflight", "claude")
             \/ CredentialsValid(i)
  <2>1. {"credentials", "claude", "feishu"} \subseteq InstancePcs
    BY DEF InstancePcs, Waits
  <2> QED BY <1>0, <1>4, <2>1, UpdateMoves DEF MarkWaiting, CredentialsValid
<1>5. CASE Cancelled(i) \/ ComponentFails(i) \/ Drained(i)
  BY <1>0, <1>5, ReturnMoves DEF Cancelled, ComponentFails, Drained, InstancePcs
<1>6. CASE RemoveFile(i)
  BY <1>6, NoFileOK, StepMoves DEF RemoveFile, InstancePcs
<1>7. CASE SetFailed(i)
  <2> DEFINE state == [instance[i].state EXCEPT !.status = "failed"]
  <2>1. state \in States /\ state.status = "failed"
    BY <1>0 DEF States, Statuses
  <2>2. Update(i, state, "exiting", instance[i].shutdown)
    BY <1>7 DEF SetFailed
  <2> HIDE DEF state
  <2> QED BY <1>0, <2>1, <2>2, UpdateMoves DEF InstancePcs
<1>8. CASE MarkStopping(i)
  <2> DEFINE state == [instance[i].state EXCEPT !.status = "stopping"]
  <2>1. state \in States /\ state.status = "stopping"
    BY <1>0 DEF States, Statuses
  <2>2. Update(i, state, instance[i].pc, "marked")
    BY <1>8 DEF MarkStopping
  <2> HIDE DEF state
  <2> QED BY <1>0, <2>1, <2>2, UpdateMoves DEF Shutdowns
<1>9. CASE CloseServer(i)
  <2>1. instance' = [instance EXCEPT ![i] = [@ EXCEPT !.pc = instance[i].pc, !.shutdown = "closed"]]
    BY <1>0, <1>9 DEF CloseServer, InstanceOK, InstanceRecords
  <2> QED BY <1>0, <1>9, <2>1, Moves DEF CloseServer, Shutdowns
<1> QED BY <1>1, <1>2, <1>3, <1>4, <1>5, <1>6, <1>7, <1>8, <1>9, <1>10 DEF Proceeds, External

-----------------------------------------------------------------------------
(* The terminals.                                                          *)

ShellOK ==
  /\ shell \in [Shells -> ShellRecords]
  /\ kills \in 0..MaxKills
  /\ overlapped \in BOOLEAN /\ overwritten \in BOOLEAN /\ abandoned \subseteq Instances

LEMMA NoCommandOK == NoCommand \in ShellRecords
BY NoFileOK DEF NoCommand, ShellRecords, ShellPcs, Commands

\* A command that goes on, goes on with another one, or ends.
LEMMA ShellMoves ==
  ASSUME ShellOK, NEW s \in Shells,
         \/ \E pc \in ShellPcs : ShellStep(s, pc)
         \/ Done(s)
         \/ Stopped(s)
  PROVE  shell' \in [Shells -> ShellRecords]
<1>0. shell[s] \in ShellRecords
  BY DEF ShellOK
<1>1. ASSUME NEW pc \in ShellPcs, ShellStep(s, pc) PROVE shell' \in [Shells -> ShellRecords]
  <2>1. [shell[s] EXCEPT !.pc = pc] \in ShellRecords
    BY <1>0 DEF ShellRecords
  <2> QED BY <1>1, <2>1 DEF ShellStep, ShellOK
<1>2. CASE Done(s)
  BY <1>2, NoCommandOK DEF Done, ShellOK
<1>3. CASE Stopped(s)
  <2>1. [NoCommand EXCEPT !.pc = "read"] \in ShellRecords
    BY NoCommandOK DEF ShellRecords, ShellPcs
  <2> QED BY <1>2, <1>3, <2>1 DEF Stopped, ShellOK
<1> QED BY <1>1, <1>2, <1>3

\* Every step of a terminal.
LEMMA TerminalStep ==
  ASSUME InstanceOK, ShellOK, NEW s \in Shells,
         \/ Decide(s) \/ Replace(s) \/ \E command \in Commands : Run(s, command)
         \/ Read(s) \/ Remove(s) \/ Spawn(s) \/ AwaitReady(s)
         \/ AwaitFailed(s) \/ Stop(s) \/ StopWait(s) \/ TimesOut(s)
  PROVE  InstanceOK' /\ EndKept /\ ShellOK'
<1>0. /\ shell[s] \in ShellRecords /\ file \in Files
      /\ shell \in [Shells -> ShellRecords]
      /\ instance \in [Instances -> InstanceRecords]
      /\ kills \in 0..MaxKills /\ abandoned \subseteq Instances
      /\ overlapped \in BOOLEAN /\ overwritten \in BOOLEAN
  BY DEF ShellOK, InstanceOK
<1>keep. UNCHANGED instance => EndKept
  BY DEF EndKept
<1>1. ASSUME NEW command \in Commands, Run(s, command) PROVE InstanceOK' /\ EndKept /\ ShellOK'
  <2>1. [pc |-> "read", command |-> command, seen |-> NoFile, child |-> NoInstance] \in ShellRecords
    BY NoFileOK DEF ShellRecords, ShellPcs
  <2>2. shell' \in [Shells -> ShellRecords] /\ UNCHANGED <<instance, file, kills, overwritten, abandoned>>
    BY <1>0, <1>1, <2>1 DEF Run
  <2>3. overlapped' \in BOOLEAN
    BY <1>1 DEF Run
  <2> QED BY <1>0, <1>keep, <2>2, <2>3 DEF InstanceOK, ShellOK
<1>2. CASE Read(s)
  <2> DEFINE next == IF Command(s) \in {"stop", "restart"} THEN "stop" ELSE "decide"
  <2>1. next \in ShellPcs
    BY DEF ShellPcs
  <2>2. shell' = [shell EXCEPT ![s] = [@ EXCEPT !.seen = file, !.pc = next]]
    BY <1>2 DEF Read
  <2> HIDE DEF next
  <2>3. [shell[s] EXCEPT !.seen = file, !.pc = next] \in ShellRecords
    BY <1>0, <2>1 DEF ShellRecords
  <2> QED BY <1>0, <1>2, <1>keep, <2>2, <2>3 DEF Read, InstanceOK, ShellOK, historyVars
<1>3. CASE Decide(s) \/ Remove(s)
  <2>1. shell' \in [Shells -> ShellRecords]
    <3>1. ASSUME NEW pc \in ShellPcs,
                 shell' = [shell EXCEPT ![s] = [@ EXCEPT !.seen = NoFile, !.pc = pc]]
          PROVE  shell' \in [Shells -> ShellRecords]
      <4>1. [shell[s] EXCEPT !.seen = NoFile, !.pc = pc] \in ShellRecords
        BY <1>0, NoFileOK DEF ShellRecords
      <4> QED BY <1>0, <3>1, <4>1
    <3>2. CASE Decide(s)
      <4>1. CASE Done(s)
        BY <4>1, ShellMoves
      <4>2. CASE ~Done(s)
        <5>1. PICK pc \in {"replace", "remove"} :
                shell' = [shell EXCEPT ![s] = [@ EXCEPT !.seen = NoFile, !.pc = pc]]
          BY <3>2, <4>2 DEF Decide
        <5> QED BY <3>1, <5>1 DEF ShellPcs
      <4> QED BY <4>1, <4>2
    <3>3. CASE Remove(s)
      BY <3>3, ShellMoves DEF Remove, ShellPcs
    <3> QED BY <1>3, <3>2, <3>3
  <2> QED BY <1>0, <1>3, <1>keep, <2>1, NoFileOK DEF Decide, Remove, InstanceOK, ShellOK, historyVars
<1>4. CASE Spawn(s)
  <2>1. PICK i \in Instances :
           /\ Step(i, "boot")
           /\ shell' = [shell EXCEPT ![s] = [@ EXCEPT !.pc = "await", !.child = i]]
    BY <1>4 DEF Spawn
  <2>2. [shell[s] EXCEPT !.pc = "await", !.child = i] \in ShellRecords
    BY <1>0 DEF ShellRecords, ShellPcs
  <2>3. UNCHANGED <<file, kills, historyVars>>
    BY <1>4 DEF Spawn
  <2>4. InstanceOK' /\ EndKept
    BY <1>0, <2>1, <2>3, StepMoves DEF InstancePcs
  <2> QED BY <1>0, <2>1, <2>2, <2>3, <2>4 DEF ShellOK, historyVars
<1>5. CASE AwaitReady(s) \/ AwaitFailed(s)
  <2>1. shell' \in [Shells -> ShellRecords]
    BY <1>5, ShellMoves DEF AwaitReady, AwaitFailed
  <2> QED BY <1>0, <1>5, <1>keep, <2>1 DEF AwaitReady, AwaitFailed, InstanceOK, ShellOK, historyVars
<1>6. CASE Replace(s)
  <2>1. shell' \in [Shells -> ShellRecords]
    BY <1>0, <1>6, ShellMoves DEF Replace
  <2> QED BY <1>0, <1>6, <1>keep, <2>1 DEF Replace, InstanceOK, ShellOK, historyVars
<1>7. CASE Stop(s)
  <2>1. UNCHANGED <<kills, overlapped, overwritten, abandoned>>
    BY <1>7 DEF Stop, historyVars
  <2>2. CASE Stopped(s) /\ UNCHANGED instance /\ file' \in {file, NoFile}
    BY <1>0, <1>keep, <2>1, <2>2, ShellMoves, NoFileOK DEF InstanceOK, ShellOK
  <2>3. CASE /\ ProcessExists(shell[s].seen.id) /\ ShellStep(s, "stopping") /\ UNCHANGED file
             /\ instance' = [instance EXCEPT ![shell[s].seen.id] = Signalled(shell[s].seen.id)]
    <3> DEFINE i == shell[s].seen.id
               sh == IF instance[i].shutdown = "none" THEN "woken" ELSE instance[i].shutdown
    <3>1. i \in Instances
      BY <2>3 DEF ProcessExists, Alive
    <3>2. InstanceOK' /\ EndKept
      <4>1. CASE Signalled(i) = Ended
        BY <1>0, <2>3, <3>1, <4>1, EndMoves
      <4>2. CASE Signalled(i) # Ended
        <5> DEFINE pc == instance[i].pc
        <5>1. sh \in Shutdowns /\ pc \in InstancePcs
          BY <1>0, <3>1 DEF InstanceRecords, Shutdowns
        <5>2. Signalled(i) = [instance[i] EXCEPT !.pc = pc, !.shutdown = sh]
          BY <1>0, <3>1, <4>2 DEF Signalled, InstanceRecords
        <5>3. instance' = [instance EXCEPT ![i] = [@ EXCEPT !.pc = pc, !.shutdown = sh]]
          BY <2>3, <5>2
        <5> HIDE DEF i, sh, pc
        <5> QED BY <1>0, <2>3, <3>1, <5>1, <5>3, Moves
      <4> QED BY <4>1, <4>2
    <3>3. "stopping" \in ShellPcs
      BY DEF ShellPcs
    <3>4. shell' \in [Shells -> ShellRecords]
      BY <2>3, <3>3, ShellMoves
    <3> QED BY <1>0, <2>1, <3>2, <3>4 DEF ShellOK
  <2> QED BY <1>7, <2>2, <2>3 DEF Stop
<1>8. CASE StopWait(s)
  <2>1. shell' \in [Shells -> ShellRecords]
    BY <1>8, ShellMoves DEF StopWait
  <2> QED BY <1>0, <1>8, <1>keep, <2>1, NoFileOK DEF StopWait, InstanceOK, ShellOK, historyVars
<1>9. CASE TimesOut(s)
  <2>1. shell' \in [Shells -> ShellRecords]
    BY <1>9, ShellMoves DEF TimesOut
  <2> QED BY <1>0, <1>9, <1>keep, <2>1 DEF TimesOut, InstanceOK, ShellOK
<1> QED BY <1>1, <1>2, <1>3, <1>4, <1>5, <1>6, <1>7, <1>8, <1>9

-----------------------------------------------------------------------------
(* The theorems.                                                           *)

DaemonInv == DownloadInv /\ InstanceOK /\ ShellOK

LEMMA DaemonStarts == Init => DaemonInv
<1> SUFFICES ASSUME Init PROVE DaemonInv
  OBVIOUS
<1>2. InstanceOK
  BY NoProcessOK, NoFileOK DEF Init, InstanceOK
<1>3. ShellOK
  <2>1. shell \in [Shells -> ShellRecords]
    BY NoCommandOK DEF Init
  <2>2. 0 \in 0..MaxKills
    BY DaemonAssumption
  <2> QED BY <2>1, <2>2 DEF Init, ShellOK
<1> QED BY <1>2, <1>3, DownloadStarts DEF DaemonInv

LEMMA DaemonStep == DaemonInv /\ [Next]_vars => DaemonInv' /\ EndKept
<1> SUFFICES ASSUME DaemonInv, [Next]_vars PROVE InstanceOK' /\ EndKept /\ ShellOK'
  BY DownloadKept DEF DaemonInv
<1>1. ASSUME NEW i \in Instances,
             Proceeds(i) \/ External(i) \/ MarkStopping(i) \/ CloseServer(i)
      PROVE  InstanceOK' /\ EndKept /\ ShellOK'
  <2>1. ShellOK'
    <3>1. CASE Kill(i)
      BY <3>1, DaemonAssumption DEF Kill, DaemonInv, ShellOK, historyVars
    <3>2. CASE HTTPReady(i) \/ FeishuReady(i) \/ ClaudeReady(i) \/ SetFailed(i) \/ RemoveFile(i)
               \/ CredentialsValid(i) \/ MarkWaiting(i, "validate", "credentials")
               \/ MarkWaiting(i, "preflight", "claude") \/ MarkStopping(i)
      <4>1. UNCHANGED <<shell, kills, overlapped, abandoned>> /\ TakesFile(i)
        BY <3>2 DEF HTTPReady, FeishuReady, ClaudeReady, SetFailed, RemoveFile, MarkReady,
                    CredentialsValid, MarkWaiting, MarkStopping, Update
      <4>2. overwritten' \in BOOLEAN
        BY <4>1 DEF TakesFile
      <4> QED BY <4>1, <4>2 DEF DaemonInv, ShellOK
    <3>3. CASE Boot(i) \/ BootFails(i) \/ Listen(i) \/ Cancelled(i) \/ ComponentFails(i)
               \/ Shutdown(i) \/ Drained(i) \/ Exit(i) \/ CloseServer(i)
      <4>1. UNCHANGED <<shell, kills, historyVars>>
        BY <3>3 DEF Boot, BootFails, Listen, Cancelled, ComponentFails, Shutdown, Drained,
                    Exit, CloseServer
      <4> QED BY <4>1 DEF DaemonInv, ShellOK, historyVars
    <3> QED BY <1>1, <3>1, <3>2, <3>3 DEF Proceeds, External
  <2> QED BY <1>1, <2>1, InstanceStep DEF DaemonInv
<1>2. ASSUME UNCHANGED daemonVars PROVE InstanceOK' /\ EndKept /\ ShellOK'
  BY <1>2 DEF daemonVars, historyVars, DaemonInv, InstanceOK, ShellOK, EndKept
<1> QED BY <1>1, <1>2, TerminalStep DEF Next, vars, DaemonInv

\* The processes, the terminals, the runtime file and the upgrades hold what their
\* types say, whatever the commands of any number of terminals.
THEOREM DaemonTypeCorrect == Spec => []TypeOK
<1>1. DaemonInv => TypeOK
  BY DEF DaemonInv, DownloadInv, InstanceOK, ShellOK, TypeOK
<1>2. DaemonInv /\ [Next]_vars => DaemonInv'
  BY DaemonStep
<1> QED BY <1>1, <1>2, DaemonStarts, PTL DEF Spec

\* Whatever is interrupted, also with upgrades of several terminals at once, the
\* binary is a whole release that can be executed.
THEOREM BinaryStaysWhole == Spec => []BinaryWhole
<1>1. DownloadInv => BinaryWhole
  BY DEF DownloadInv
<1> QED BY <1>1, DownloadStarts, DownloadKept, PTL DEF Spec

\* Neither a component that becomes ready nor the other goroutine takes a stopping
\* or failed state back.
THEOREM EndStays == Spec => EndIsFinal
<1>1. DaemonInv /\ [Next]_vars =>
        DaemonInv' /\ [\A i \in Instances : instance[i].state.status \in {"stopping", "failed"}
                         => Is(i, "gone")' \/ instance'[i].state.status \in {"stopping", "failed"}]_vars
  BY DaemonStep DEF EndKept
<1> QED BY <1>1, DaemonStarts, PTL DEF Spec, EndIsFinal

-----------------------------------------------------------------------------
(* One gateway.                                                            *)

\* What a command in this place has found out about a gateway that is active.
Knows(me, i) ==
  /\ me.pc \notin {"remove", "spawn", "replace"}
  /\ me.pc \in {"decide", "stop", "stopping"} => me.seen.id = i
  /\ me.pc = "decide" => me.seen.state.status \in {"starting", "ready"}
  /\ me.pc = "stopping" => instance[i].shutdown # "none"

\* The active gateway is the only one.  No command acts while it boots; from then
\* on the file is its file, and who has signalled it still waits for its end.
RunsAlone(i) ==
  /\ \A j \in Instances \ {i} : ~Active(j)
  /\ Is(i, "boot") => \A s \in Shells : ~Acting(s)
  /\ ~Is(i, "boot") => file = [id |-> i, state |-> instance[i].state]
  /\ instance[i].shutdown = "none" => instance[i].state.status \in {"starting", "ready"}
  /\ instance[i].shutdown # "none" =>
       \E s \in Shells : InShell(s, "stopping") /\ shell[s].seen.id = i
  /\ \A s \in Shells : Knows(shell[s], i)

\* A process before its runtime file, and one in its deferred functions.
BeginsAndEnds(i) ==
  /\ instance[i].pc \in {"unused", "boot"} =>
       instance[i].shutdown = "none" /\ instance[i].state = NewState
  /\ instance[i].pc \in {"failing", "removing", "exiting"} => instance[i].shutdown # "none"

OneActs == \A s, t \in Shells : Acting(s) /\ Acting(t) => s = t

Alone ==
  /\ OneActs
  /\ \A i \in Instances : BeginsAndEnds(i) /\ (Active(i) => RunsAlone(i))

AloneInv == DaemonInv /\ (Orderly => Alone)

\* What has gone wrong stays so.
LEMMA DisorderStays == DaemonInv /\ [Next]_vars /\ Orderly' => Orderly
<1> SUFFICES ASSUME DaemonInv, [Next]_vars, Orderly' PROVE Orderly
  OBVIOUS
<1>1. CASE UNCHANGED <<overlapped, overwritten>>
  BY <1>1 DEF Orderly
<1>2. ASSUME NEW s \in Shells, NEW command \in Commands, Run(s, command) PROVE Orderly
  BY <1>2 DEF Run, Orderly
<1>3. ASSUME NEW i \in Instances, UNCHANGED overlapped, TakesFile(i) PROVE Orderly
  BY <1>3 DEF TakesFile, Orderly
<1>4. ASSUME NEW i \in Instances,
             Proceeds(i) \/ External(i) \/ MarkStopping(i) \/ CloseServer(i)
      PROVE  Orderly
  <2>1. \/ UNCHANGED <<overlapped, overwritten>>
        \/ UNCHANGED overlapped /\ TakesFile(i)
    BY <1>4 DEF Proceeds, External, Boot, BootFails, Listen, HTTPReady, MarkWaiting, MarkReady,
                CredentialsValid, FeishuReady, ClaudeReady, Cancelled, ComponentFails, Update,
                Shutdown, Drained, RemoveFile, SetFailed, Exit, Kill, MarkStopping, CloseServer,
                historyVars
  <2> QED BY <1>1, <1>3, <2>1
<1>5. ASSUME NEW s \in Shells,
             \/ Decide(s) \/ Replace(s) \/ Read(s) \/ Remove(s) \/ Spawn(s) \/ AwaitReady(s)
             \/ AwaitFailed(s) \/ Stop(s) \/ StopWait(s) \/ TimesOut(s)
      PROVE  Orderly
  BY <1>1, <1>5 DEF Decide, Replace, Read, Remove, Spawn, AwaitReady, AwaitFailed, Stop,
                    StopWait, TimesOut, historyVars
<1> QED BY <1>1, <1>2, <1>4, <1>5 DEF Next, vars, daemonVars, historyVars

\* A process moves on.  If it is active it saves what it is; if it is not, the
\* file it saves or removes is that of no other that runs.
LEMMA ProcessMoves ==
  ASSUME InstanceOK, Alone, Orderly', NEW k \in Instances, Alive(k), NEW new,
         instance' = [instance EXCEPT ![k] = new], UNCHANGED <<shell, abandoned>>,
         new.pc \notin {"unused", "boot"},
         new.pc \in {"failing", "removing", "exiting"} => new.shutdown # "none",
         file' = file \/ TakesFile(k) \/ Active(k),
         new.pc \notin {"failing", "removing", "exiting", "gone"} =>
           /\ Running(k)
           /\ new.shutdown = "none" <=> instance[k].shutdown = "none"
           /\ Active(k) =>
                /\ file' = [id |-> k, state |-> new.state]
                /\ new.shutdown = "none" => new.state.status \in {"starting", "ready"}
  PROVE  Alone'
<1>1. instance'[k] = new /\ \A j \in Instances \ {k} : instance'[j] = instance[j]
  BY DEF InstanceOK
<1>2. OneActs'
  BY DEF Alone, OneActs, Acting
<1>3. \A i \in Instances : BeginsAndEnds(i)'
  BY <1>1 DEF Alone, BeginsAndEnds
<1>4. \A i \in Instances : Active(i)' => Active(i)
  BY <1>1 DEF Active, Running
<1>5. ASSUME NEW i \in Instances \ {k}, Active(i)' PROVE RunsAlone(i)'
  <2>1. Active(i) /\ RunsAlone(i) /\ ~Active(k) /\ instance'[i] = instance[i]
    BY <1>1, <1>4, <1>5 DEF Alone, RunsAlone
  <2>2. ~Is(i, "boot") => file' = file
    <3> SUFFICES ASSUME ~Is(i, "boot"), TakesFile(k) PROVE FALSE
      BY <2>1
    <3>1. file.id = i /\ Running(i)
      BY <2>1 DEF RunsAlone, Active
    <3>2. instance[k].shutdown # "none"
      BY <2>1 DEF Alone, BeginsAndEnds, Active, Running, Alive
    <3> QED BY <3>1, <3>2 DEF TakesFile, Orderly
  <2>3. \A j \in Instances \ {i} : ~Active(j)'
    BY <1>4, <2>1 DEF RunsAlone
  <2>4. \A s \in Shells : Knows(shell[s], i)'
    BY <2>1 DEF RunsAlone, Knows
  <2> QED BY <2>1, <2>2, <2>3, <2>4 DEF RunsAlone, Is, InShell, Acting
<1>6. ASSUME Active(k)' PROVE RunsAlone(k)'
  <2>1. Active(k) /\ RunsAlone(k)
    BY <1>4, <1>6 DEF Alone
  <2>2. new.pc \notin {"failing", "removing", "exiting", "gone"}
    BY <1>1, <1>6 DEF Active, Running
  <2>3. \A j \in Instances \ {k} : ~Active(j)'
    BY <1>4, <2>1 DEF RunsAlone
  <2>4. \A s \in Shells : Knows(shell[s], k)'
    BY <1>1, <2>1, <2>2 DEF RunsAlone, Knows
  <2> QED BY <1>1, <2>1, <2>2, <2>3, <2>4 DEF RunsAlone, Is, InShell, Acting
<1> QED BY <1>2, <1>3, <1>5, <1>6 DEF Alone

\* A command goes on, the processes do not.
LEMMA CommandMoves ==
  ASSUME ShellOK, Alone, NEW s \in Shells, NEW new,
         shell' = [shell EXCEPT ![s] = new], UNCHANGED instance, abandoned \subseteq abandoned',
         new.pc \notin {"idle", "await"} => \A t \in Shells \ {s} : ~Acting(t),
         \A i \in Instances : Active(i) /\ Active(i)' /\ RunsAlone(i) =>
           /\ Is(i, "boot") => new.pc \in {"idle", "await"}
           /\ ~Is(i, "boot") => file' = file
           /\ instance[i].shutdown # "none" => shell[s].pc # "stopping"
           /\ Knows(new, i)
  PROVE  Alone'
<1>1. shell'[s] = new /\ \A t \in Shells \ {s} : shell'[t] = shell[t]
  BY DEF ShellOK
<1>2. OneActs'
  BY <1>1 DEF Alone, OneActs, Acting
<1>3. \A i \in Instances : BeginsAndEnds(i)'
  BY DEF Alone, BeginsAndEnds
<1>4. \A i \in Instances : Active(i)' => Active(i)
  BY DEF Active, Running
<1>5. ASSUME NEW i \in Instances, Active(i)' PROVE RunsAlone(i)'
  <2>1. Active(i) /\ RunsAlone(i)
    BY <1>4, <1>5 DEF Alone
  <2>2. \A t \in Shells : Knows(shell[t], i)'
    <3>1. Knows(new, i)
      BY <1>5, <2>1
    <3> QED BY <1>1, <2>1, <3>1 DEF RunsAlone, Knows
  <2>3. \A j \in Instances \ {i} : ~Active(j)'
    BY <1>4, <2>1 DEF RunsAlone
  <2>4. Is(i, "boot") => \A t \in Shells : ~Acting(t)'
    BY <1>1, <1>5, <2>1 DEF RunsAlone, Acting
  <2>5. ASSUME instance[i].shutdown # "none"
        PROVE  \E t \in Shells : InShell(t, "stopping")' /\ shell'[t].seen.id = i
    BY <1>1, <1>5, <2>1, <2>5 DEF RunsAlone, InShell
  <2> QED BY <1>5, <2>1, <2>2, <2>3, <2>4, <2>5 DEF RunsAlone, Is
<1> QED BY <1>2, <1>3, <1>5 DEF Alone

\* Every step of a process.
LEMMA ProcessKeepsAlone ==
  ASSUME InstanceOK, Alone, Orderly', NEW k \in Instances,
         Proceeds(k) \/ External(k) \/ MarkStopping(k) \/ CloseServer(k)
  PROVE  Alone'
<1> DEFINE me == instance[k]
<1>0. /\ me \in InstanceRecords /\ me.state \in States /\ me.shutdown \in Shutdowns
      /\ instance \in [Instances -> InstanceRecords] /\ BeginsAndEnds(k)
  BY DEF InstanceOK, InstanceRecords, Alone
<1>1. Active(k) => RunsAlone(k)
  BY DEF Alone
<1>2. UNCHANGED <<shell, abandoned>>
  BY DEF Proceeds, External, Boot, BootFails, Listen, HTTPReady, MarkWaiting, historyVars,
         CredentialsValid, FeishuReady, ClaudeReady, Cancelled, ComponentFails,
         Shutdown, Drained, RemoveFile, SetFailed, Exit, Kill, MarkStopping, CloseServer
<1>3. Alive(k)
  BY DEF Proceeds, External, Boot, BootFails, Listen, HTTPReady, MarkWaiting,
         CredentialsValid, FeishuReady, ClaudeReady, Cancelled, ComponentFails, Waits,
         Shutdown, Drained, RemoveFile, SetFailed, Exit, Kill, MarkStopping, CloseServer,
         Alive, Is
\* A process that gets to its end, or goes on there.
<1>4. ASSUME NEW new, instance' = [instance EXCEPT ![k] = new],
             \/ new.pc = "gone"
             \/ new.pc \in {"failing", "removing", "exiting"} /\ new.shutdown # "none",
             file' = file \/ TakesFile(k)
      PROVE  Alone'
  BY <1>2, <1>3, <1>4, ProcessMoves
\* A gateway that goes on, past its boot.
<1>5. ASSUME NEW new, instance' = [instance EXCEPT ![k] = new],
             Running(k), new.pc \notin {"unused", "boot", "failing", "removing", "exiting", "gone"},
             file' = file \/ TakesFile(k),
             new.shutdown = "none" <=> me.shutdown = "none",
             Active(k) =>
               /\ file' = [id |-> k, state |-> new.state]
               /\ new.shutdown = "none" => new.state.status \in {"starting", "ready"}
      PROVE  Alone'
  BY <1>2, <1>3, <1>5, ProcessMoves
<1>6. CASE Boot(k)
  <2> DEFINE new == [me EXCEPT !.pc = "listen"]
  <2>1. /\ instance' = [instance EXCEPT ![k] = new]
        /\ new.pc = "listen" /\ new.state = me.state /\ new.shutdown = me.shutdown
    BY <1>0, <1>6 DEF Boot, Step, InstanceRecords
  <2>2. me.shutdown = "none" /\ me.state = NewState
    BY <1>0, <1>6 DEF BeginsAndEnds, Boot, Is
  <2> HIDE DEF new
  <2>3. file' = [id |-> k, state |-> new.state] /\ new.state.status = "starting"
    BY <1>6, <2>1, <2>2 DEF Boot, NewState
  <2>4. Running(k) /\ Active(k)
    BY <1>6, <2>2 DEF Boot, Is, Running, Active
  <2> QED BY <1>2, <1>3, <2>1, <2>3, <2>4, ProcessMoves
\* A move within the same runtime state.
<1>7. ASSUME NEW pc, Step(k, pc), UNCHANGED file, Running(k), ~Is(k, "boot"),
             pc \notin {"unused", "boot", "failing", "removing", "exiting", "gone"}
      PROVE  Alone'
  <2> DEFINE new == [me EXCEPT !.pc = pc]
  <2>1. /\ instance' = [instance EXCEPT ![k] = new]
        /\ new.pc = pc /\ new.state = me.state /\ new.shutdown = me.shutdown
    BY <1>0, <1>7 DEF Step, InstanceRecords
  <2> HIDE DEF new
  <2> QED BY <1>1, <1>5, <1>7, <2>1 DEF RunsAlone
<1>8. ASSUME NEW pc \in {"failing", "removing"}, Return(k, pc), UNCHANGED file
      PROVE  Alone'
  <2> DEFINE sh == IF me.shutdown = "none" THEN "woken" ELSE me.shutdown
             new == [me EXCEPT !.pc = pc, !.shutdown = sh]
  <2>1. instance' = [instance EXCEPT ![k] = new]
    BY <1>8 DEF Return
  <2>2. sh # "none"
    OBVIOUS
  <2> HIDE DEF sh
  <2>3. new.pc = pc /\ new.shutdown = sh
    BY <1>0 DEF InstanceRecords
  <2> HIDE DEF new
  <2> QED BY <1>4, <1>8, <2>1, <2>2, <2>3
\* An update of a gateway that is not at its end.
<1>9. ASSUME NEW ready, NEW pc, Update(k, [me.state EXCEPT !.ready = ready], pc, me.shutdown),
             Running(k), ~Is(k, "boot"),
             pc \notin {"unused", "boot", "failing", "removing", "exiting", "gone"}
      PROVE  Alone'
  <2> DEFINE state == Reconciled([me.state EXCEPT !.ready = ready])
             new == [pc |-> pc, state |-> state, shutdown |-> me.shutdown]
  <2>1. me.state.status \in {"starting", "ready"} => state.status \in {"starting", "ready"}
    BY <1>0 DEF Reconciled, States
  <2>2. /\ instance' = [instance EXCEPT ![k] = new] /\ file' = [id |-> k, state |-> new.state]
        /\ new.pc = pc /\ new.state = state /\ new.shutdown = me.shutdown /\ TakesFile(k)
    BY <1>9 DEF Update
  <2> HIDE DEF state, new
  <2> QED BY <1>1, <1>5, <1>9, <2>1, <2>2 DEF RunsAlone
<1>10. CASE BootFails(k) \/ Exit(k) \/ Kill(k)
  <2>1. instance' = [instance EXCEPT ![k] = Ended] /\ UNCHANGED file
    BY <1>10 DEF BootFails, Exit, Kill, End
  <2> QED BY <1>4, <2>1, EndedIsGone
<1>11. CASE Cancelled(k) \/ ComponentFails(k) \/ Drained(k)
  BY <1>8, <1>11 DEF Cancelled, ComponentFails, Drained
<1>12. CASE Listen(k) \/ Shutdown(k)
  BY <1>7, <1>12 DEF Listen, Shutdown, Is, Running
<1>13. CASE RemoveFile(k)
  <2> DEFINE new == [me EXCEPT !.pc = "exiting"]
  <2>1. /\ instance' = [instance EXCEPT ![k] = new] /\ TakesFile(k)
        /\ new.pc = "exiting" /\ new.shutdown = me.shutdown /\ me.shutdown # "none"
    BY <1>0, <1>13 DEF RemoveFile, Step, InstanceRecords, Is, BeginsAndEnds
  <2> HIDE DEF new
  <2> QED BY <1>4, <2>1
<1>14. CASE HTTPReady(k) \/ FeishuReady(k) \/ ClaudeReady(k)
  <2>1. \/ MarkReady(k, "http", "validate") \/ MarkReady(k, "feishu", "preflight")
        \/ MarkReady(k, "claude", "serving")
    BY <1>14 DEF HTTPReady, FeishuReady, ClaudeReady
  <2>2. Running(k) /\ ~Is(k, "boot")
    BY <1>14 DEF HTTPReady, FeishuReady, ClaudeReady, Is, Running
  <2> QED BY <1>9, <2>1, <2>2 DEF MarkReady
<1>15. CASE MarkWaiting(k, "validate", "credentials") \/ MarkWaiting(k, "preflight", "claude")
              \/ CredentialsValid(k)
  <2>1. PICK pc \in {"credentials", "claude", "feishu"} : Update(k, me.state, pc, me.shutdown)
    BY <1>15 DEF MarkWaiting, CredentialsValid
  <2>2. Running(k) /\ ~Is(k, "boot")
    BY <1>15 DEF MarkWaiting, CredentialsValid, Is, Running
  <2>3. me.state = [me.state EXCEPT !.ready = me.state.ready]
    BY <1>0 DEF States
  <2> QED BY <1>9, <2>1, <2>2, <2>3
<1>16. CASE SetFailed(k)
  <2> DEFINE new == [pc |-> "exiting", shutdown |-> me.shutdown,
                     state |-> Reconciled([me.state EXCEPT !.status = "failed"])]
  <2>1. /\ instance' = [instance EXCEPT ![k] = new] /\ TakesFile(k)
        /\ new.pc = "exiting" /\ new.shutdown = me.shutdown
    BY <1>16 DEF SetFailed, Update
  <2> HIDE DEF new
  <2>2. me.shutdown # "none"
    BY <1>0, <1>16 DEF SetFailed, Is, BeginsAndEnds
  <2> QED BY <1>4, <2>1, <2>2
<1>17. CASE MarkStopping(k)
  <2> DEFINE state == Reconciled([me.state EXCEPT !.status = "stopping"])
             new == [pc |-> me.pc, state |-> state, shutdown |-> "marked"]
  <2>1. /\ instance' = [instance EXCEPT ![k] = new] /\ file' = [id |-> k, state |-> new.state]
        /\ new.pc = me.pc /\ new.shutdown = "marked" /\ me.shutdown = "woken" /\ TakesFile(k)
    BY <1>17 DEF MarkStopping, Update
  <2>2. me.pc \notin {"unused", "boot", "gone"}
    BY <1>0, <1>3, <2>1 DEF BeginsAndEnds, Alive
  <2> HIDE DEF state, new
  <2>3. CASE Running(k)
    BY <1>5, <2>1, <2>2, <2>3 DEF Running
  <2>4. CASE ~Running(k)
    BY <1>4, <2>1, <2>2, <2>4 DEF Running
  <2> QED BY <2>3, <2>4
<1>18. CASE CloseServer(k)
  <2> DEFINE new == [me EXCEPT !.shutdown = "closed"]
  <2>1. /\ instance' = [instance EXCEPT ![k] = new] /\ UNCHANGED file
        /\ new.pc = me.pc /\ new.shutdown = "closed" /\ new.state = me.state
        /\ me.shutdown = "marked"
    BY <1>0, <1>18 DEF CloseServer, InstanceRecords
  <2>2. me.pc \notin {"unused", "boot", "gone"}
    BY <1>0, <1>3, <2>1 DEF BeginsAndEnds, Alive
  <2> HIDE DEF new
  <2>3. CASE Running(k)
    BY <1>1, <1>5, <2>1, <2>2, <2>3 DEF Running, RunsAlone, Is
  <2>4. CASE ~Running(k)
    BY <1>4, <2>1, <2>2, <2>4 DEF Running
  <2> QED BY <2>3, <2>4
<1> QED BY <1>6, <1>10, <1>11, <1>12, <1>13, <1>14, <1>15, <1>16, <1>17, <1>18
        DEF Proceeds, External

\* While a command acts that is not waiting for an end, an active gateway is past
\* its boot, nobody has told it to end, and the file is its file.
LEMMA WhoActsSees ==
  ASSUME Alone, NEW s \in Shells, Acting(s), NEW i \in Instances, Active(i)
  PROVE  /\ ~Is(i, "boot") /\ file = [id |-> i, state |-> instance[i].state]
         /\ ~InShell(s, "stopping") =>
              instance[i].shutdown = "none" /\ file.state.status \in {"starting", "ready"}
         /\ Alive(i) /\ ProcessExists(i) /\ Knows(shell[s], i)
<1>1. RunsAlone(i) /\ OneActs
  BY DEF Alone
<1>2. ~Is(i, "boot") /\ file = [id |-> i, state |-> instance[i].state]
  BY <1>1 DEF RunsAlone
<1>3. ASSUME ~InShell(s, "stopping") PROVE instance[i].shutdown = "none"
  <2>1. ASSUME NEW t \in Shells, InShell(t, "stopping") PROVE FALSE
    <3>1. Acting(t)
      BY <2>1 DEF InShell, Acting
    <3> QED BY <1>1, <1>3, <2>1, <3>1 DEF OneActs
  <2> QED BY <1>1, <2>1 DEF RunsAlone
<1>4. Alive(i)
  BY DEF Active, Running, Alive
<1> QED BY <1>1, <1>2, <1>3, <1>4 DEF RunsAlone, ProcessExists

\* A stop signals the one process it has found: it goes on to its end.
LEMMA SignalMoves ==
  ASSUME InstanceOK, ShellOK, Alone, NEW s \in Shells, InShell(s, "stop"),
         ProcessExists(shell[s].seen.id), ShellStep(s, "stopping"), UNCHANGED <<file, abandoned>>,
         instance' = [instance EXCEPT ![shell[s].seen.id] = Signalled(shell[s].seen.id)]
  PROVE  Alone'
<1>1. PICK k \in Instances : k = shell[s].seen.id
  BY DEF ProcessExists, Alive
<1> DEFINE me == instance[k]
           next == [shell[s] EXCEPT !.pc = "stopping"]
<1>2. /\ instance'[k] = Signalled(k)
      /\ \A j \in Instances \ {k} : instance'[j] = instance[j]
  BY <1>1 DEF InstanceOK
<1>3. /\ shell'[s] = next /\ next.pc = "stopping" /\ next.seen.id = k
      /\ \A t \in Shells \ {s} : shell'[t] = shell[t]
  BY <1>1 DEF ShellStep, ShellOK, ShellRecords
<1> HIDE DEF next
<1>4. /\ Acting(s) /\ OneActs
      /\ \A t \in Shells \ {s} : ~Acting(t)
  BY DEF InShell, Acting, Alone, OneActs
<1>5. OneActs'
  BY <1>3, <1>4 DEF OneActs, Acting
<1>6. me \in InstanceRecords /\ me.pc # "unused"
  BY <1>1 DEF InstanceOK, ProcessExists, Alive, Is
\* Either the signal has ended it, or it is in the same place.
<1>7. \/ instance'[k] = Ended
      \/ /\ me.pc \notin {"boot", "listen", "failing", "removing", "exiting", "gone"}
         /\ instance'[k].pc = me.pc /\ instance'[k].state = me.state
         /\ instance'[k].shutdown # "none"
  <2> DEFINE sh == IF me.shutdown = "none" THEN "woken" ELSE me.shutdown
             new == [me EXCEPT !.shutdown = sh]
  <2>1. sh # "none"
    OBVIOUS
  <2>2. instance'[k] = Ended \/ instance'[k] = new
    BY <1>2 DEF Signalled
  <2>3. instance'[k] # Ended =>
          me.pc \notin {"boot", "listen", "failing", "removing", "exiting", "gone"}
    BY <1>2 DEF Signalled
  <2> HIDE DEF sh
  <2>4. new.pc = me.pc /\ new.state = me.state /\ new.shutdown = sh
    BY <1>6 DEF InstanceRecords
  <2> HIDE DEF new
  <2> QED BY <2>1, <2>2, <2>3, <2>4
<1>8. \A i \in Instances : BeginsAndEnds(i)'
  BY <1>2, <1>6, <1>7, EndedIsGone DEF Alone, BeginsAndEnds
<1>9. ASSUME NEW i \in Instances \ {k} PROVE ~Active(i)'
  <2>1. ~Active(i)
    BY <1>1, <1>4, <1>9, WhoActsSees DEF Knows, InShell
  <2> QED BY <1>2, <1>9, <2>1 DEF Active, Running
<1>10. ASSUME Active(k)' PROVE RunsAlone(k)'
  <2>1. instance'[k].pc = me.pc /\ instance'[k].state = me.state /\ instance'[k].shutdown # "none"
    BY <1>7, <1>10, EndedIsGone DEF Active, Running
  <2>2. Active(k)
    BY <1>10, <2>1 DEF Active, Running
  <2>3. RunsAlone(k) /\ ~Is(k, "boot") /\ file = [id |-> k, state |-> me.state]
    BY <1>4, <2>2, WhoActsSees DEF Alone
  <2>4. \A t \in Shells : Knows(shell[t], k)'
    BY <1>3, <1>4, <2>1 DEF Knows, Acting
  <2> QED BY <1>3, <1>9, <2>1, <2>3, <2>4 DEF RunsAlone, Is, InShell
<1> QED BY <1>5, <1>8, <1>9, <1>10 DEF Alone

\* A start boots a new process, when no other is active.
LEMMA SpawnMoves ==
  ASSUME InstanceOK, ShellOK, Alone, NEW s \in Shells, Spawn(s)
  PROVE  Alone'
<1>1. PICK k \in Instances :
        /\ Is(k, "unused") /\ Step(k, "boot")
        /\ shell' = [shell EXCEPT ![s] = [@ EXCEPT !.pc = "await", !.child = k]]
  BY DEF Spawn
<1>2. InShell(s, "spawn") /\ UNCHANGED <<file, abandoned>>
  BY DEF Spawn, historyVars
<1> DEFINE next == [shell[s] EXCEPT !.pc = "await", !.child = k]
<1>3. /\ shell'[s] = next /\ next.pc = "await"
      /\ \A t \in Shells \ {s} : shell'[t] = shell[t]
  BY <1>1 DEF ShellOK, ShellRecords
<1> HIDE DEF next
<1>4. /\ \A t \in Shells \ {s} : ~Acting(t)
      /\ \A i \in Instances : ~Active(i)
  BY <1>2, WhoActsSees DEF InShell, Acting, Alone, OneActs, Knows
<1>5. \A t \in Shells : shell'[t].pc \in {"idle", "await"}
  BY <1>3, <1>4 DEF Acting
<1>6. /\ instance'[k].pc = "boot" /\ instance'[k].shutdown = instance[k].shutdown
      /\ instance'[k].state = instance[k].state
      /\ \A j \in Instances \ {k} : instance'[j] = instance[j]
  BY <1>1 DEF Step, InstanceOK, InstanceRecords
<1>7. instance[k].shutdown = "none" /\ instance[k].state = NewState
  BY <1>1 DEF Alone, BeginsAndEnds, Is
<1>8. \A i \in Instances : BeginsAndEnds(i)'
  BY <1>6, <1>7 DEF Alone, BeginsAndEnds
<1>9. \A i \in Instances \ {k} : ~Active(i)'
  BY <1>2, <1>4, <1>6 DEF Active, Running
<1>10. RunsAlone(k)'
  BY <1>5, <1>6, <1>7, <1>9 DEF RunsAlone, Is, Acting, Knows, NewState
<1> QED BY <1>5, <1>8, <1>9, <1>10 DEF Alone, OneActs, Acting

\* Every step of a command.
LEMMA CommandKeepsAlone ==
  ASSUME InstanceOK, ShellOK, Alone, Orderly', NEW s \in Shells,
         \/ Decide(s) \/ Replace(s) \/ \E command \in Commands : Run(s, command)
         \/ Read(s) \/ Remove(s) \/ Spawn(s) \/ AwaitReady(s)
         \/ AwaitFailed(s) \/ Stop(s) \/ StopWait(s) \/ TimesOut(s)
  PROVE  Alone'
<1> DEFINE me == shell[s]
<1>0. me \in ShellRecords /\ NoCommand.pc = "idle" /\ NoCommand \in ShellRecords
  BY NoCommandOK DEF ShellOK, NoCommand
<1>1. Acting(s) => \A t \in Shells \ {s} : ~Acting(t)
  BY DEF Alone, OneActs
\* A command that has found that no gateway is active.
<1>2. ASSUME Acting(s), NEW new, shell' = [shell EXCEPT ![s] = new],
             UNCHANGED <<instance, abandoned>>, \A i \in Instances : ~Active(i)
      PROVE  Alone'
  BY <1>1, <1>2, CommandMoves
\* One that gives up its place, or goes back to where it knows nothing.
<1>3. ASSUME me.pc # "stopping", NEW new, shell' = [shell EXCEPT ![s] = new],
             UNCHANGED <<instance, file, abandoned>>,
             new.pc = "idle" \/ (new.pc = "read" /\ Acting(s))
      PROVE  Alone'
  <2>1. \A i \in Instances : Active(i) => Knows(new, i)
    BY <1>3 DEF Knows
  <2>2. \A i \in Instances : Active(i) /\ Is(i, "boot") => new.pc = "idle"
    BY <1>3, WhoActsSees
  <2> QED BY <1>1, <1>3, <2>1, <2>2, CommandMoves
<1>4. Stopped(s) => \E new : shell' = [shell EXCEPT ![s] = new] /\ new.pc \in {"idle", "read"}
  <2>1. [NoCommand EXCEPT !.pc = "read"].pc = "read"
    BY <1>0 DEF ShellRecords
  <2> QED BY <1>0, <2>1 DEF Stopped, Done
<1>5. ASSUME NEW command \in Commands, Run(s, command) PROVE Alone'
  <2> DEFINE new == [pc |-> "read", command |-> command, seen |-> NoFile, child |-> NoInstance]
  <2>1. shell' = [shell EXCEPT ![s] = new] /\ new.pc = "read"
    BY <1>5 DEF Run
  <2> HIDE DEF new
  <2>2. /\ me.pc = "idle" /\ UNCHANGED <<instance, file, abandoned>>
        /\ \A t \in Shells : ~Acting(t)
        /\ \A i \in Instances : ~Is(i, "boot")
    BY <1>5 DEF Run, InShell, Orderly
  <2>3. \A i \in Instances : Knows(new, i)
    BY <2>1 DEF Knows
  <2> QED BY <2>1, <2>2, <2>3, CommandMoves
<1>6. CASE Read(s)
  <2> DEFINE next == IF Command(s) \in {"stop", "restart"} THEN "stop" ELSE "decide"
             new == [me EXCEPT !.seen = file, !.pc = next]
  <2>1. /\ shell' = [shell EXCEPT ![s] = new] /\ UNCHANGED <<instance, file, abandoned>>
        /\ me.pc = "read"
    BY <1>6 DEF Read, InShell, historyVars
  <2>2. new.pc \in {"stop", "decide"} /\ new.seen = file
    BY <1>0 DEF ShellRecords
  <2> HIDE DEF new
  <2>3. Acting(s) /\ ~InShell(s, "stopping")
    BY <2>1 DEF Acting, InShell
  <2>4. ASSUME NEW i \in Instances, Active(i) PROVE ~Is(i, "boot") /\ Knows(new, i)
    BY <2>2, <2>3, <2>4, WhoActsSees DEF Knows
  <2> QED BY <1>1, <2>1, <2>3, <2>4, CommandMoves
<1>7. CASE Decide(s)
  <2>1. /\ me.pc = "decide" /\ UNCHANGED <<instance, file, abandoned>>
        /\ Acting(s) /\ \E new : shell' = [shell EXCEPT ![s] = new]
    BY <1>7 DEF Decide, InShell, Acting, Done, historyVars
  <2>2. CASE me.seen # NoFile /\ Busy(s)
    BY <1>0, <1>3, <1>7, <2>1, <2>2 DEF Decide, Done
  <2>3. CASE ~(me.seen # NoFile /\ Busy(s))
    <3>1. ASSUME NEW i \in Instances, Active(i) PROVE FALSE
      <4>1. me.seen.id = i /\ me.seen.state.status \in {"starting", "ready"} /\ ProcessExists(i)
        BY <2>1, <3>1, WhoActsSees DEF Knows
      <4>2. me.seen # NoFile
        BY <4>1, DaemonAssumption DEF NoFile
      <4> QED BY <2>3, <4>1, <4>2 DEF Busy
    <3> QED BY <1>2, <2>1, <3>1
  <2> QED BY <2>2, <2>3
<1>8. CASE Remove(s) \/ Replace(s)
  <2>1. Acting(s) /\ \A i \in Instances : ~Active(i)
    BY <1>8, WhoActsSees DEF Remove, Replace, InShell, Knows, Acting
  <2>2. UNCHANGED <<instance, abandoned>>
    BY <1>8 DEF Remove, Replace, historyVars
  <2>3. \E new : shell' = [shell EXCEPT ![s] = new]
    <3>1. shell = [shell EXCEPT ![s] = me]
      BY <1>0 DEF ShellOK
    <3> QED BY <1>8, <3>1 DEF Remove, Replace, ShellStep, Done
  <2> QED BY <1>2, <2>1, <2>2, <2>3
<1>9. CASE Spawn(s)
  BY <1>9, SpawnMoves
<1>10. CASE AwaitReady(s) \/ AwaitFailed(s)
  BY <1>0, <1>3, <1>10 DEF AwaitReady, AwaitFailed, Done, InShell, historyVars
<1>11. CASE TimesOut(s)
  <2>1. /\ shell' = [shell EXCEPT ![s] = NoCommand] /\ UNCHANGED <<instance, file>>
        /\ abandoned' = abandoned \cup {i \in Instances : InShell(s, "stopping") /\ me.seen.id = i}
        /\ me.pc \in {"await", "stopping"}
    BY <1>11 DEF TimesOut, Done
  <2>2. CASE me.pc = "await"
    BY <1>0, <1>3, <2>1, <2>2 DEF InShell
  <2>3. CASE me.pc = "stopping"
    <3>1. ASSUME NEW i \in Instances, Active(i), Active(i)' PROVE FALSE
      <4>1. Acting(s) /\ InShell(s, "stopping")
        BY <2>3 DEF Acting, InShell
      <4>2. me.seen.id = i /\ instance[i].shutdown # "none"
        BY <2>3, <3>1, <4>1, WhoActsSees DEF Knows
      <4> QED BY <2>1, <3>1, <4>1, <4>2 DEF Active
    <3> QED BY <1>0, <2>1, <3>1, CommandMoves
  <2> QED BY <2>1, <2>2, <2>3
<1>12. CASE Stop(s)
  <2>1. /\ me.pc = "stop" /\ InShell(s, "stop") /\ Acting(s) /\ UNCHANGED abandoned
    BY <1>12 DEF Stop, InShell, Acting, historyVars
  <2>2. \A i \in Instances : Active(i) => me.seen.id = i /\ ProcessExists(i)
    BY <2>1, WhoActsSees DEF Knows
  <2>3. CASE me.seen = NoFile /\ Stopped(s) /\ UNCHANGED <<instance, file>>
    BY <1>2, <1>4, <2>1, <2>2, <2>3, DaemonAssumption DEF NoFile
  <2>4. CASE ~ProcessExists(me.seen.id) /\ Stopped(s) /\ UNCHANGED instance
    BY <1>2, <1>4, <2>1, <2>2, <2>4
  <2>5. CASE /\ ProcessExists(me.seen.id) /\ ShellStep(s, "stopping") /\ UNCHANGED file
             /\ instance' = [instance EXCEPT ![me.seen.id] = Signalled(me.seen.id)]
    BY <2>1, <2>5, SignalMoves
  <2> QED BY <1>12, <2>3, <2>4, <2>5 DEF Stop
<1>13. CASE StopWait(s)
  <2>1. /\ me.pc = "stopping" /\ Acting(s) /\ Stopped(s) /\ UNCHANGED <<instance, abandoned>>
        /\ ~ProcessExists(me.seen.id) \/ file = NoFile
    BY <1>13 DEF StopWait, InShell, Acting, historyVars
  <2>2. ASSUME NEW i \in Instances, Active(i) PROVE FALSE
    <3>1. ProcessExists(i) /\ me.seen.id = i /\ file.id = i
      BY <2>1, <2>2, WhoActsSees DEF Knows
    <3> QED BY <2>1, <3>1, DaemonAssumption DEF NoFile
  <2> QED BY <1>2, <1>4, <2>1, <2>2
<1> QED BY <1>5, <1>6, <1>7, <1>8, <1>9, <1>10, <1>11, <1>12, <1>13

LEMMA AloneStep == AloneInv /\ [Next]_vars => AloneInv'
<1> SUFFICES ASSUME AloneInv, [Next]_vars, Orderly' PROVE Alone'
  BY DaemonStep DEF AloneInv
<1>1. DaemonInv /\ InstanceOK /\ ShellOK /\ Alone
  BY DisorderStays DEF AloneInv, DaemonInv
<1>2. ASSUME UNCHANGED daemonVars PROVE Alone'
  BY <1>1, <1>2 DEF daemonVars, historyVars, Alone, OneActs, BeginsAndEnds, RunsAlone, Active,
                    Running, Is, InShell, Knows, Acting
<1> QED BY <1>1, <1>2, ProcessKeepsAlone, CommandKeepsAlone DEF Next, vars

LEMMA AloneInit == Init => AloneInv
<1> SUFFICES ASSUME Init PROVE Alone
  BY DaemonStarts DEF AloneInv
<1>1. ASSUME NEW i \in Instances PROVE BeginsAndEnds(i) /\ ~Active(i)
  BY <1>1 DEF Init, BeginsAndEnds, Active, Running, NoProcess
<1>2. \A s \in Shells : ~Acting(s)
  BY DEF Init, NoCommand, Acting
<1> QED BY <1>1, <1>2 DEF Alone, OneActs

\* Whatever is killed or slow, and whatever start and stop give up waiting for:
\* as long as commands are typed one after the other, and no process at its end
\* takes the file of its successor, no two gateways use the database.
THEOREM OneGatewayRuns == Spec => []OneGateway
<1>1. AloneInv => OneGateway
  BY DEF AloneInv, Alone, RunsAlone, OneGateway
<1>2. AloneInv /\ [Next]_vars => AloneInv'
  BY AloneStep
<1> QED BY <1>1, <1>2, AloneInit, PTL DEF Spec

\* In the same histories the file is the gateway's from its first save on and says
\* what the gateway is: none of the commands that remove the file has removed it.
THEOREM GatewayIsFound == Spec => []FileFindsGateway
<1>1. AloneInv => FileFindsGateway
  BY DEF AloneInv, Alone, RunsAlone, FileFindsGateway
<1>2. AloneInv /\ [Next]_vars => AloneInv'
  BY AloneStep
<1> QED BY <1>1, <1>2, AloneInit, PTL DEF Spec

\* In the same histories, whatever upgrade has read in the runtime file, no gateway
\* is active from its decision until it ends.  What is left to happen under its
\* feet is a gateway whose end a stop has given up waiting for.
THEOREM UpgradesSpareGateways == Spec => []UpgradeSparesGateway
<1>1. AloneInv => UpgradeSparesGateway
  BY DEF AloneInv, Alone, RunsAlone, Knows, InShell, UpgradeSparesGateway
<1>2. AloneInv /\ [Next]_vars => AloneInv'
  BY AloneStep
<1> QED BY <1>1, <1>2, AloneInit, PTL DEF Spec

-----------------------------------------------------------------------------
(* What an upgrade reports.                                                *)

\* The version that was resolved is the one in the temporary file, and then in
\* the binary.
VersionInv(s) ==
  /\ upgrade[s].pc \in {"copy", "chmod", "rename"} => temp[s].version = upgrade[s].tag
  /\ At(s, "upgraded") => binary.version = upgrade[s].tag

ReportInv == DownloadTypeOK /\ \A s \in Shells : VersionInv(s)

LEMMA ReportStep ==
  ASSUME \A s, t \in Shells : s = t, ReportInv, NEW s \in Shells,
         BeginUpgrade(s) \/ DownloadStep(s) \/ EndUpgrade(s)
  PROVE  VersionInv(s)'
<1> DEFINE me == upgrade[s]
<1>0. /\ me \in UpgradeRecords /\ temp[s] \in Binaries /\ VersionInv(s)
      /\ temp \in [Shells -> Binaries] /\ upgrade \in [Shells -> UpgradeRecords]
  BY DEF ReportInv, DownloadTypeOK
<1>1. CASE BeginUpgrade(s)
  <2>1. upgrade'[s].pc = "resolve"
    BY <1>0, <1>1, NothingDownloaded DEF BeginUpgrade, UpgradeRecords
  <2> QED BY <2>1 DEF VersionInv, At
<1>2. CASE Resolve(s)
  <2>1. upgrade'[s].pc \in {"over", "request"}
    BY <1>0, <1>2 DEF Resolve, UpgradeRecords
  <2> QED BY <2>1 DEF VersionInv, At
<1>3. CASE Request(s)
  <2>1. temp'[s].version = me.tag
    BY <1>0, <1>3, NothingDownloaded DEF Request, Binaries
  <2>2. upgrade'[s].pc = "copy" /\ upgrade'[s].tag = me.tag
    BY <1>0, <1>3 DEF Request, GoOn, UpgradeRecords
  <2> QED BY <2>1, <2>2 DEF VersionInv, At
<1>4. CASE Copy(s) \/ Chmod(s)
  <2>1. temp'[s].version = temp[s].version
    BY <1>0, <1>4 DEF Copy, Chmod, Binaries
  <2>2. upgrade'[s].pc \in {"chmod", "rename"} /\ upgrade'[s].tag = me.tag
    BY <1>0, <1>4 DEF Copy, Chmod, GoOn, UpgradeRecords
  <2>3. temp[s].version = me.tag
    BY <1>0, <1>4 DEF Copy, Chmod, At, VersionInv
  <2> QED BY <2>1, <2>2, <2>3 DEF VersionInv, At
<1>5. CASE Rename(s)
  <2>1. binary'.version = me.tag
    BY <1>0, <1>5 DEF Rename, At, VersionInv
  <2>2. upgrade'[s].pc = "upgraded" /\ upgrade'[s].tag = me.tag
    BY <1>0, <1>5 DEF Rename, GoOn, UpgradeRecords
  <2> QED BY <2>1, <2>2 DEF VersionInv, At
<1>6. CASE UpgradeFails(s)
  <2>1. upgrade'[s].pc = "over"
    BY <1>0, <1>6 DEF UpgradeFails, GoOn, UpgradeRecords
  <2> QED BY <2>1 DEF VersionInv, At
<1>7. CASE EndUpgrade(s)
  <2>1. upgrade'[s].pc = "idle"
    BY <1>0, <1>7 DEF EndUpgrade, NoUpgrade
  <2> QED BY <2>1 DEF VersionInv, At
<1> QED BY <1>1, <1>2, <1>3, <1>4, <1>5, <1>6, <1>7 DEF DownloadStep

\* An upgrade that reports a version has installed that version, whatever is
\* released on its way, unless another terminal upgrades as well.
THEOREM UpgradeReportsTruth ==
  ASSUME \A s, t \in Shells : s = t
  PROVE  Spec => []ReportsWhatIsInstalled
<1>1. Init => DownloadInv /\ ReportInv
  <2>1. Init => \A s \in Shells : VersionInv(s)
    <3> SUFFICES ASSUME Init, NEW s \in Shells PROVE VersionInv(s)
      OBVIOUS
    <3>1. upgrade[s].pc = "idle"
      BY DEF Init, DownloadInit, NoUpgrade
    <3> QED BY <3>1 DEF VersionInv, At
  <2> QED BY <2>1, DownloadStarts DEF DownloadInv, ReportInv
<1>2. DownloadInv /\ ReportInv /\ [Next]_vars => (DownloadInv /\ ReportInv)'
  <2> SUFFICES ASSUME DownloadInv, ReportInv, [Next]_vars
               PROVE  \A s \in Shells : VersionInv(s)'
    BY DownloadKept DEF ReportInv, DownloadInv
  <2>1. CASE UNCHANGED <<binary, temp, upgrade>>
    BY <2>1 DEF ReportInv, VersionInv, At
  <2>2. ASSUME NEW s \in Shells, BeginUpgrade(s) \/ DownloadStep(s) \/ EndUpgrade(s)
        PROVE  \A t \in Shells : VersionInv(t)'
    <3>1. VersionInv(s)'
      BY <2>2, ReportStep
    <3> QED BY <3>1
  <2>3. \/ UNCHANGED <<binary, temp, upgrade>>
        \/ \E s \in Shells : BeginUpgrade(s) \/ DownloadStep(s) \/ EndUpgrade(s)
    BY DEF Next, vars, downloadVars, Proceeds, Decide, Replace, Run, Release
  <2> QED BY <2>1, <2>2, <2>3
<1>3. ReportInv => ReportsWhatIsInstalled
  BY DEF ReportInv, VersionInv, ReportsWhatIsInstalled
<1> QED BY <1>1, <1>2, <1>3, PTL DEF Spec
=============================================================================
