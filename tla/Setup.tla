------------------------------- MODULE Setup -------------------------------
(***************************************************************************)
(* The setup command (internal/setup/setup.go), the configuration file     *)
(* (internal/registry) and what start and serve need of it                 *)
(* (internal/config): the wizard asks for two values, saves them, opens    *)
(* the database and sees to a pairing key; the other processes open the    *)
(* database only with a valid configuration.  A command may be interrupted *)
(* and a write may fail at any point.                                      *)
(*                                                                         *)
(* One setup runs at a time: two would share the temporary file.  The      *)
(* settings that are always the same are left out of the file's contents.  *)
(***************************************************************************)
EXTENDS Pairing

CONSTANTS Wizard,   \* the client that is the setup command
          Texts,    \* what can be entered
          NoText    \* the empty line, and a value that is not there

ASSUME SetupAssumption == Wizard \in Clients /\ NoText \notin Texts

VARIABLES file,     \* fox-gateway.json
          tmp,      \* fox-gateway.json.tmp
          wizard,   \* where setup is, with what it has read and been told
          opened    \* other clients whose process has opened the database

setupVars == <<file, tmp, wizard, opened>>
allVars == <<vars, setupVars>>

Configs == [id: Texts \cup {NoText}, secret: Texts \cup {NoText}]
NoConfig == [id |-> NoText, secret |-> NoText]

\* torn: some of the bytes are not there, or none.
Files == [state: {"absent", "torn", "whole"}, config: Configs]
NoFile == [state |-> "absent", config |-> NoConfig]
TornFile == [state |-> "torn", config |-> NoConfig]

WizardPcs == {"idle", "id", "secret", "truncate", "write", "rename", "open", "message",
              "complete"}

NoWizard == [pc |-> "idle", config |-> NoConfig]

\* RuntimeConfig.Validate, of the two values that are asked for.
Validate(config) == config.id # NoText /\ config.secret # NoText

SetupTypeOK ==
  /\ file \in Files /\ tmp \in Files
  /\ wizard \in [pc: WizardPcs, config: Configs]
  /\ opened \in SUBSET (Clients \ {Wizard})
  /\ wizard.pc \in {"truncate", "write", "rename"} => Validate(wizard.config)
  /\ file.state = "whole" => Validate(file.config)

SetupInit ==
  /\ Init
  /\ file = NoFile /\ tmp = NoFile
  /\ wizard = NoWizard
  /\ opened = {}

Setting(pc) == wizard.pc = pc
Continue(pc) == wizard' = [wizard EXCEPT !.pc = pc]

-----------------------------------------------------------------------------
(* The wizard.                                                             *)

\* registry.Open: a file that cannot be parsed is an error, for setup as well.
OpenRegistry ==
  /\ wizard.pc \in {"idle", "complete"} /\ file.state # "torn"
  /\ wizard' = [pc |-> "id", config |-> file.config]
  /\ UNCHANGED <<vars, file, tmp, opened>>

\* Mutant: an empty line is an answer.
TakeAnyLine(current, line) == {line}

\* promptRequired: an empty line keeps what is there; without anything there the
\* question is asked again.
Answer(current, line) ==
  IF line # NoText THEN {line} ELSE {current} \ {NoText}

EnterID(line) ==
  /\ Setting("id")
  /\ \E id \in Answer(wizard.config.id, line) :
       wizard' = [wizard EXCEPT !.pc = "secret", !.config.id = id]
  /\ UNCHANGED <<vars, file, tmp, opened>>

EnterSecret(line) ==
  /\ Setting("secret")
  /\ \E secret \in Answer(wizard.config.secret, line) :
       wizard' = [wizard EXCEPT !.pc = "truncate", !.config.secret = secret]
  /\ UNCHANGED <<vars, file, tmp, opened>>

\* Mutant: the configuration is written over the one that is there.
TruncateInPlace ==
  /\ Setting("truncate")
  /\ file' = TornFile /\ tmp' = TornFile
  /\ Continue("write")
  /\ UNCHANGED <<vars, opened>>

\* saveLocked: WriteFile makes the temporary file empty and then fills it.
Truncate ==
  /\ Setting("truncate")
  /\ tmp' = TornFile
  /\ Continue("write")
  /\ UNCHANGED <<vars, file, opened>>

Write ==
  /\ Setting("write")
  /\ tmp' = [state |-> "whole", config |-> wizard.config]
  /\ Continue("rename")
  /\ UNCHANGED <<vars, file, opened>>

Rename ==
  /\ Setting("rename")
  /\ file' = tmp /\ tmp' = NoFile
  /\ Continue("open")
  /\ UNCHANGED <<vars, opened>>

\* store.Open and the transaction of BootstrapMessage.
OpenStore ==
  /\ Setting("open")
  /\ Begin(Wizard, "message", None, 0)
  /\ Continue("message")
  /\ UNCHANGED <<file, tmp, opened>>

SeePairing ==
  /\ Setting("message")
  /\ Seed(Wizard) \/ Commit(Wizard) \/ (CountUsers(Wizard) /\ users = {})
  /\ UNCHANGED setupVars

\* The key is looked up and not shown.
Complete ==
  /\ Setting("message")
  /\ \/ CountUsers(Wizard) /\ users # {}
     \/ /\ At(Wizard, "key") /\ Done(Wizard)
        /\ UNCHANGED <<users, pairing, issued, printed>>
  /\ Continue("complete")
  /\ UNCHANGED <<file, tmp, opened>>

\* Mutant: an error of BootstrapMessage is dropped.
CompleteAnyway ==
  /\ wizard.pc \notin {"idle", "complete"}
  /\ wizard' = IF Setting("message") THEN [wizard EXCEPT !.pc = "complete"] ELSE NoWizard
  /\ IF At(Wizard, "idle") THEN UNCHANGED vars ELSE Rollback(Wizard)
  /\ UNCHANGED <<file, tmp, opened>>

\* An error ends the command, or the user does; the temporary file stays.
Abort ==
  /\ wizard.pc \notin {"idle", "complete"}
  /\ wizard' = NoWizard
  /\ IF At(Wizard, "idle") THEN UNCHANGED vars ELSE Rollback(Wizard)
  /\ UNCHANGED <<file, tmp, opened>>

-----------------------------------------------------------------------------
(* The other processes.                                                    *)

\* config.Load of serve or start, and store.Open.
Load(c) ==
  /\ c # Wizard /\ c \notin opened
  /\ file.state = "whole" /\ Validate(file.config)
  /\ opened' = opened \cup {c}
  /\ UNCHANGED <<vars, file, tmp, wizard>>

Close(c) ==
  /\ c \in opened /\ At(c, "idle")
  /\ opened' = opened \ {c}
  /\ UNCHANGED <<vars, file, tmp, wizard>>

Pair(c) ==
  /\ c \in opened
  /\ \/ Begin(c, "message", None, 0)
     \/ \E u \in Users, k \in 1..MaxKeys : Begin(c, "register", u, k)
     \/ Seed(c) \/ RegisterUser(c) \/ Consume(c) \/ Refuse(c) \/ Commit(c) \/ Rollback(c)
     \/ CountUsers(c) \/ ShowKey(c)
  /\ UNCHANGED setupVars

SetupNext ==
  \/ OpenRegistry
  \/ \E line \in Texts \cup {NoText} : EnterID(line) \/ EnterSecret(line)
  \/ Truncate \/ Write \/ Rename \/ OpenStore \/ SeePairing \/ Complete \/ Abort
  \/ \E c \in Clients : Load(c) \/ Close(c) \/ Pair(c)

SetupSpec == SetupInit /\ [][SetupNext]_allVars

-----------------------------------------------------------------------------
(* Properties.                                                             *)

\* Wherever setup is interrupted, the file at its place is a complete one or not
\* there: a torn one would stop start, serve and setup itself.
ConfigWhole == file.state # "torn"

\* A setup that returns without an error has left all that the next steps of the
\* quick start need: a valid configuration, and a key unless somebody has paired.
SetupSuffices ==
  Setting("complete") => /\ file.state = "whole" /\ file.config = wizard.config
                         /\ users # {} \/ Usable(pairing)
=============================================================================
