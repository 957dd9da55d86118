------------------------------ MODULE Download ------------------------------
(***************************************************************************)
(* How "upgrade" replaces the binary (cmd/server/main.go from line 424 on, *)
(* internal/upgrade/upgrade.go): the target version is resolved, its asset *)
(* is downloaded into a temporary file next to the binary, which then      *)
(* takes the binary's name.  The command may be killed between any two     *)
(* steps; a temporary file it leaves is never used again.                  *)
(*                                                                         *)
(* Releases are numbered in their order, 0 is the version of a binary      *)
(* built by hand ("dev").  GitHub is external: a release may be made at    *)
(* any time, and a request may fail.                                       *)
(***************************************************************************)
EXTENDS Naturals

CONSTANTS Shells,       \* terminals, each with one command at a time
          MaxReleases

ASSUME DownloadAssumption == MaxReleases \in Nat \ {0}

VARIABLES latest,    \* the newest release
          binary,    \* the file at the target path
          temp,      \* the temporary file of each upgrade
          upgrade    \* where each upgrade is

downloadVars == <<latest, binary, temp, upgrade>>

Versions == 0..MaxReleases
\* executable: by whom is left out.
Binaries == [version: Versions, whole: BOOLEAN, executable: BOOLEAN]
NoBinary == [version |-> 0, whole |-> FALSE, executable |-> FALSE]

UpgradePcs == {"idle", "resolve", "request", "copy", "chmod", "rename", "upgraded", "over"}

\* current: compiled into the command.
UpgradeRecords == [pc: UpgradePcs, current: Versions, tag: Versions]
NoUpgrade == [pc |-> "idle", current |-> 0, tag |-> 0]

DownloadTypeOK ==
  /\ latest \in 1..MaxReleases
  /\ binary \in Binaries
  /\ temp \in [Shells -> Binaries]
  /\ upgrade \in [Shells -> UpgradeRecords]

DownloadInit ==
  /\ latest = 1
  /\ binary = [version |-> 1, whole |-> TRUE, executable |-> TRUE]
  /\ temp = [s \in Shells |-> NoBinary]
  /\ upgrade = [s \in Shells |-> NoUpgrade]

At(s, pc) == upgrade[s].pc = pc
GoOn(s, pc) == upgrade' = [upgrade EXCEPT ![s].pc = pc]

\* The command is run from the binary that is installed.
BeginUpgrade(s) ==
  /\ upgrade' = [upgrade EXCEPT ![s] = [NoUpgrade EXCEPT !.pc = "resolve",
                                                         !.current = binary.version]]
  /\ UNCHANGED <<latest, binary, temp>>

\* ResolveTargetVersion: the version asked for, which may not exist, or the one
\* the redirect of the latest release names.  Nothing is done when the command
\* is of that version.
Resolve(s) ==
  /\ At(s, "resolve")
  /\ \E tag \in 1..MaxReleases :
       upgrade' = [upgrade EXCEPT ![s] =
         [@ EXCEPT !.tag = tag, !.pc = IF tag = upgrade[s].current THEN "over" ELSE "request"]]
  /\ UNCHANGED <<latest, binary, temp>>

\* Mutant: the asset of the latest release is downloaded.
RequestLatest(s) ==
  /\ At(s, "request")
  /\ temp' = [temp EXCEPT ![s] = [NoBinary EXCEPT !.version = latest]]
  /\ GoOn(s, "copy")
  /\ UNCHANGED <<latest, binary>>

\* DownloadURL of the tag, answered with 200, and CreateTemp, with mode 0600.
Request(s) ==
  /\ At(s, "request") /\ upgrade[s].tag <= latest
  /\ temp' = [temp EXCEPT ![s] = [NoBinary EXCEPT !.version = upgrade[s].tag]]
  /\ GoOn(s, "copy")
  /\ UNCHANGED <<latest, binary>>

\* Mutant: an error while the answer is read ends the copy like its end.
CopyAnything(s) ==
  /\ At(s, "copy")
  /\ \E whole \in BOOLEAN : temp' = [temp EXCEPT ![s].whole = whole]
  /\ GoOn(s, "chmod")
  /\ UNCHANGED <<latest, binary>>

\* copyWithProgress, up to the end of the answer.
Copy(s) ==
  /\ At(s, "copy")
  /\ temp' = [temp EXCEPT ![s].whole = TRUE]
  /\ GoOn(s, "chmod")
  /\ UNCHANGED <<latest, binary>>

\* The mode of the file that is replaced, or one that can be executed.
Chmod(s) ==
  /\ At(s, "chmod")
  /\ temp' = [temp EXCEPT ![s].executable = TRUE]
  /\ GoOn(s, "rename")
  /\ UNCHANGED <<latest, binary>>

Rename(s) ==
  /\ At(s, "rename")
  /\ binary' = temp[s]
  /\ temp' = [temp EXCEPT ![s] = NoBinary]
  /\ GoOn(s, "upgraded")
  /\ UNCHANGED latest

\* An error or the timeout: the deferred Remove takes the temporary file away.
UpgradeFails(s) ==
  /\ upgrade[s].pc \in {"resolve", "request", "copy", "chmod", "rename"}
  /\ temp' = [temp EXCEPT ![s] = NoBinary]
  /\ GoOn(s, "over")
  /\ UNCHANGED <<latest, binary>>

\* The command has told its outcome, or is killed at any point.
EndUpgrade(s) ==
  /\ ~At(s, "idle")
  /\ temp' = [temp EXCEPT ![s] = NoBinary]
  /\ upgrade' = [upgrade EXCEPT ![s] = NoUpgrade]
  /\ UNCHANGED <<latest, binary>>

DownloadStep(s) ==
  \/ Resolve(s) \/ Request(s) \/ Copy(s) \/ Chmod(s) \/ Rename(s) \/ UpgradeFails(s)

\* GitHub: a new release.
Release ==
  /\ latest < MaxReleases
  /\ latest' = latest + 1
  /\ UNCHANGED <<binary, temp, upgrade>>

\* Whenever the machine or the user stops an upgrade, and whatever GitHub
\* answers, the file that start runs is a whole release that can be executed.
BinaryWhole == binary.whole /\ binary.executable

\* An upgrade that reports a version has installed that version, also when a
\* newer one is released while it is on its way.
ReportsWhatIsInstalled ==
  \A s \in Shells : At(s, "upgraded") => binary.version = upgrade[s].tag
=============================================================================
