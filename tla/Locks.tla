------------------------------- MODULE Locks -------------------------------
(***************************************************************************)
(* The locks of the job runner, one primitive operation of package sync or *)
(* of a channel per step (internal/jobs/lock.go, and the closure of        *)
(* Runner.Enqueue that uses them).                                         *)
(*                                                                         *)
(*   KeyedLock      a map of mutexes, filled on demand under a mutex       *)
(*   WorkspaceLock  a flag under a mutex, with a condition variable        *)
(*   readonlyTokens a channel with room for MaxReadOnly values             *)
(*                                                                         *)
(* The goroutines start at once and run once.  What a mutating goroutine   *)
(* passes as ownerID is its job id, and a job is approved once, so owners  *)
(* are identified with goroutines.                                         *)
(***************************************************************************)
EXTENDS Naturals, FiniteSets

CONSTANTS Goroutines, Keys, NoKey, None, MaxReadOnly

ASSUME LocksAssumption ==
  /\ NoKey \notin Keys /\ None \notin Goroutines
  /\ MaxReadOnly \in Nat \ {0}

VARIABLES request,   \* the chat id and the Mutating flag of the goroutine's request
          pc,        \* the operation the goroutine is about to do
          keyMu,     \* KeyedLock.mu: the goroutine that has it locked, or None
          locks,     \* KeyedLock.locks: a mutex, named by its creator, or None
          mutex,     \* what mutexFor has returned to the goroutine
          lockedBy,  \* the goroutine that has a mutex of the map locked, or None
          mu,        \* WorkspaceLock.mu
          owner,     \* WorkspaceLock.ownerID, None when locked is false
          waiting,   \* goroutines parked in cond.Wait
          tokens     \* number of values in readonlyTokens

vars == <<request, pc, keyMu, locks, mutex, lockedBy, mu, owner, waiting, tokens>>
keyVars == <<keyMu, locks, mutex, lockedBy>>
workspaceVars == <<mu, owner, waiting>>

Pcs == {"find", "create", "lock", "slot", "check", "wait", "work", "give", "drop",
        "findAgain", "unlock", "done"}

Requests == [key: Keys \cup {NoKey}, mutating: BOOLEAN]

TypeOK ==
  /\ request \in [Goroutines -> Requests]
  /\ pc \in [Goroutines -> Pcs]
  /\ keyMu \in Goroutines \cup {None}
  /\ locks \in [Keys -> Goroutines \cup {None}]
  /\ mutex \in [Goroutines -> Goroutines \cup {None}]
  /\ lockedBy \in [Goroutines -> Goroutines \cup {None}]
  /\ mu \in Goroutines \cup {None}
  /\ owner \in Goroutines \cup {None}
  /\ waiting \in SUBSET Goroutines
  /\ tokens \in 0..MaxReadOnly

Init ==
  /\ request \in [Goroutines -> Requests]
  /\ pc = [g \in Goroutines |-> "find"]
  /\ keyMu = None
  /\ locks = [k \in Keys |-> None]
  /\ mutex = [g \in Goroutines |-> None]
  /\ lockedBy = [g \in Goroutines |-> None]
  /\ mu = None
  /\ owner = None
  /\ waiting = {}
  /\ tokens = 0

At(g, l) == pc[g] = l
Goto(g, l) == pc' = [pc EXCEPT ![g] = l]

Key(g) == request[g].key

-----------------------------------------------------------------------------
(* KeyedLock.                                                              *)

\* The empty key takes no lock and gives none back.
SkipKey(g) ==
  /\ Key(g) = NoKey
  /\ \/ At(g, "find") /\ Goto(g, "slot")
     \/ At(g, "findAgain") /\ Goto(g, "done")
  /\ UNCHANGED <<request, keyVars, workspaceVars, tokens>>

\* Mutant: mutexFor looks the key up without locking the map.
FindUnlocked(g) ==
  /\ At(g, "find") /\ Key(g) # NoKey
  /\ IF locks[Key(g)] = None
       THEN /\ Goto(g, "create")
            /\ UNCHANGED mutex
       ELSE /\ Goto(g, "lock")
            /\ mutex' = [mutex EXCEPT ![g] = locks[Key(g)]]
  /\ UNCHANGED <<request, keyMu, locks, lockedBy, workspaceVars, tokens>>

\* mutexFor, in Acquire: it locks the map, and unlocks it on return.
Find(g) ==
  /\ At(g, "find") /\ Key(g) # NoKey
  /\ keyMu = None
  /\ IF locks[Key(g)] = None
       THEN /\ Goto(g, "create")
            /\ keyMu' = g
            /\ UNCHANGED mutex
       ELSE /\ Goto(g, "lock")
            /\ mutex' = [mutex EXCEPT ![g] = locks[Key(g)]]
            /\ UNCHANGED keyMu
  /\ UNCHANGED <<request, locks, lockedBy, workspaceVars, tokens>>

Create(g) ==
  /\ At(g, "create")
  /\ locks' = [locks EXCEPT ![Key(g)] = g]
  /\ mutex' = [mutex EXCEPT ![g] = g]
  /\ keyMu' = None
  /\ Goto(g, "lock")
  /\ UNCHANGED <<request, lockedBy, workspaceVars, tokens>>

LockKey(g) ==
  /\ At(g, "lock")
  /\ lockedBy[mutex[g]] = None
  /\ lockedBy' = [lockedBy EXCEPT ![mutex[g]] = g]
  /\ Goto(g, "slot")
  /\ UNCHANGED <<request, keyMu, locks, mutex, workspaceVars, tokens>>

\* Release looks the mutex up again.
FindAgain(g) ==
  /\ At(g, "findAgain") /\ Key(g) # NoKey
  /\ keyMu = None
  /\ mutex' = [mutex EXCEPT ![g] = locks[Key(g)]]
  /\ Goto(g, "unlock")
  /\ UNCHANGED <<request, keyMu, locks, lockedBy, workspaceVars, tokens>>

UnlockKey(g) ==
  /\ At(g, "unlock")
  /\ lockedBy' = [lockedBy EXCEPT ![mutex[g]] = None]
  /\ Goto(g, "done")
  /\ UNCHANGED <<request, keyMu, locks, mutex, workspaceVars, tokens>>

-----------------------------------------------------------------------------
(* WorkspaceLock.                                                          *)

LockMu(g) ==
  /\ request[g].mutating
  /\ mu = None
  /\ mu' = g
  /\ \/ At(g, "slot") /\ Goto(g, "check")
     \/ At(g, "wait") /\ g \notin waiting /\ Goto(g, "check")
     \/ At(g, "give") /\ Goto(g, "drop")
  /\ UNCHANGED <<request, keyVars, owner, waiting, tokens>>

\* for l.locked { l.cond.Wait() }, and the assignments once it is free.  Wait
\* parks the goroutine and unlocks mu in one step.
Test(g) ==
  /\ At(g, "check")
  /\ mu' = None
  /\ IF owner # None
       THEN /\ waiting' = waiting \cup {g}
            /\ Goto(g, "wait")
            /\ UNCHANGED owner
       ELSE /\ owner' = g
            /\ Goto(g, "work")
            /\ UNCHANGED waiting
  /\ UNCHANGED <<request, keyVars, tokens>>

\* Mutant: nobody is woken.
DropSilently(g) ==
  /\ At(g, "drop")
  /\ mu' = None
  /\ owner' = None
  /\ Goto(g, "findAgain")
  /\ UNCHANGED <<request, keyVars, waiting, tokens>>

\* Release of the owner, with the Broadcast.
Drop(g) ==
  /\ At(g, "drop")
  /\ mu' = None
  /\ IF owner = g THEN owner' = None /\ waiting' = {} ELSE UNCHANGED <<owner, waiting>>
  /\ Goto(g, "findAgain")
  /\ UNCHANGED <<request, keyVars, tokens>>

-----------------------------------------------------------------------------
(* The channel, and the work between the locks.                            *)

\* Mutant: the channel has no limit.
SendUnlimited(g) ==
  /\ At(g, "slot") /\ ~request[g].mutating
  /\ tokens' = tokens + 1
  /\ Goto(g, "work")
  /\ UNCHANGED <<request, keyVars, workspaceVars>>

SendToken(g) ==
  /\ At(g, "slot") /\ ~request[g].mutating
  /\ tokens < MaxReadOnly
  /\ tokens' = tokens + 1
  /\ Goto(g, "work")
  /\ UNCHANGED <<request, keyVars, workspaceVars>>

ReceiveToken(g) ==
  /\ At(g, "give") /\ ~request[g].mutating
  /\ tokens > 0
  /\ tokens' = tokens - 1
  /\ Goto(g, "findAgain")
  /\ UNCHANGED <<request, keyVars, workspaceVars>>

\* execute returns.
Execute(g) ==
  /\ At(g, "work")
  /\ Goto(g, "give")
  /\ UNCHANGED <<request, keyVars, workspaceVars, tokens>>

Step(g) ==
  \/ SkipKey(g) \/ Find(g) \/ Create(g) \/ LockKey(g) \/ FindAgain(g) \/ UnlockKey(g)
  \/ LockMu(g) \/ Test(g) \/ Drop(g)
  \/ SendToken(g) \/ ReceiveToken(g) \/ Execute(g)

\* The system stops when no goroutine can go on; AllWork says when that is.
Next == \E g \in Goroutines : Step(g)

Spec == Init /\ [][Next]_vars

-----------------------------------------------------------------------------
(* Properties.                                                             *)

\* How far a goroutine has come, in the terms of Slots.
PhaseAt(l) ==
  CASE l \in {"find", "create", "lock"} -> "waiting"
    [] l \in {"slot", "check", "wait"}  -> "entered"
    [] l \in {"work", "give", "drop"}   -> "working"
    [] l \in {"findAgain", "unlock"}    -> "leaving"
    [] OTHER                            -> "done"

phase == [g \in Goroutines |-> PhaseAt(pc[g])]

Promise == INSTANCE Slots

\* The primitive operations implement the promise of the locks, through every
\* interleaving of lookups, waits, broadcasts and channel operations.
SlotsKept == Promise!SlotsSpec

\* A goroutine is parked only while somebody holds the workspace: Release leaves
\* nobody behind that it should have woken.
NoLostWakeup == waiting # {} => owner # None

\* The Go runtime: a runnable goroutine runs, and a mutex or a channel serves
\* its waiters in turn.
FairSpec ==
  /\ Spec
  /\ \A g \in Goroutines :
       WF_vars(Step(g)) /\ SF_vars(LockKey(g)) /\ SF_vars(LockMu(g)) /\ SF_vars(SendToken(g))

\* Every request enqueued is worked on and gives everything back.
AllWork == <>(\A g \in Goroutines : pc[g] = "done")
=============================================================================
