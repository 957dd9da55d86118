----------------------------- MODULE LocksProofs -----------------------------
(***************************************************************************)
(* Proofs, for any number of goroutines, chats and tokens, that the locks  *)
(* of the runner keep what Slots promises and strand no waiter.            *)
(***************************************************************************)
EXTENDS Locks, FiniteSetTheorems, TLAPS

\* Where a goroutine with a key has its mutex, and where it has it locked.
HasMutex == Pcs \ {"find", "create", "done"}
HasLocked == HasMutex \ {"lock"}

\* Read-only goroutines with a value in the channel.
Senders == {g \in Goroutines : pc[g] \in {"work", "give"} /\ ~request[g].mutating}

\* The map has one mutex for a chat and no mutex for two, and is changed only by
\* the goroutine that has it locked.
MapInv ==
  /\ \A g \in Goroutines : pc[g] = "create" => keyMu = g /\ locks[Key(g)] = None
  /\ \A k \in Keys : locks[k] # None => Key(locks[k]) = k
  /\ \A g \in Goroutines : pc[g] \in {"create", "lock", "unlock"} => Key(g) # NoKey
  /\ \A g \in Goroutines : pc[g] \in HasMutex /\ Key(g) # NoKey =>
       mutex[g] # None /\ mutex[g] = locks[Key(g)]

\* A goroutine in its chat has the chat's mutex locked.
ChatInv ==
  \A g \in Goroutines : pc[g] \in HasLocked /\ Key(g) # NoKey => lockedBy[mutex[g]] = g

\* A mutating goroutine at work owns the workspace.
WorkspaceInv ==
  /\ \A g \in Goroutines : pc[g] \in {"check", "wait", "drop"} => request[g].mutating
  /\ \A g \in Goroutines : pc[g] \in {"work", "give", "drop"} /\ request[g].mutating
                             => owner = g

\* The channel counts the read-only goroutines at work.
ChannelInv == IsFiniteSet(Senders) /\ tokens = Cardinality(Senders)

\* The inductive invariant.
LocksInv == TypeOK /\ MapInv /\ ChatInv /\ WorkspaceInv /\ ChannelInv /\ NoLostWakeup

-----------------------------------------------------------------------------
(* The invariant.                                                          *)

\* At the start nothing is locked and nobody waits.
LEMMA LocksInit == Init => LocksInv
<1> SUFFICES ASSUME Init PROVE LocksInv
  OBVIOUS
<1>0. TypeOK
  BY LocksAssumption DEF Init, TypeOK, Pcs
<1>1. Senders = {}
  BY DEF Init, Senders
<1>2. ChannelInv
  BY <1>1, FS_EmptySet DEF Init, ChannelInv
<1>3. MapInv /\ ChatInv /\ WorkspaceInv /\ NoLostWakeup
  BY DEF Init, MapInv, ChatInv, WorkspaceInv, NoLostWakeup, HasLocked, HasMutex
<1> QED BY <1>0, <1>2, <1>3 DEF LocksInv

\* A step that moves no read-only goroutine into or out of its work keeps the
\* count of the channel.
LEMMA SameSenders ==
  ASSUME TypeOK, ChannelInv, NEW g \in Goroutines, NEW l \in Pcs, Goto(g, l),
         UNCHANGED <<request, tokens>>,
         request[g].mutating \/ (pc[g] \in {"work", "give"} <=> l \in {"work", "give"})
  PROVE  ChannelInv'
<1>1. Senders' = Senders
  BY DEF Senders, Goto, TypeOK
<1> QED BY <1>1 DEF ChannelInv

\* The type of every variable is kept.
LEMMA LocksType == LocksInv /\ [Next]_vars => TypeOK'
<1> SUFFICES ASSUME LocksInv, [Next]_vars PROVE TypeOK'
  OBVIOUS
<1> USE LocksAssumption DEF LocksInv, TypeOK, Goto, At, Pcs, keyVars, workspaceVars
<1>1. CASE UNCHANGED vars
  BY <1>1 DEF vars
<1>2. ASSUME NEW g \in Goroutines, Step(g) PROVE TypeOK'
  <2>0. request[g] \in Requests /\ Key(g) \in Keys \cup {NoKey}
    BY DEF Requests, Key
  <2>1. CASE SkipKey(g) BY <2>1 DEF SkipKey
  <2>2. CASE Find(g) BY <2>0, <2>2 DEF Find
  <2>3. CASE Create(g) BY <2>3 DEF Create
  <2>4. CASE LockKey(g) BY <2>4 DEF LockKey
  <2>5. CASE FindAgain(g) BY <2>0, <2>5 DEF FindAgain
  <2>6. CASE UnlockKey(g) BY <2>6 DEF UnlockKey
  <2>7. CASE LockMu(g) BY <2>7 DEF LockMu
  <2>8. CASE Test(g) BY <2>8 DEF Test
  <2>9. CASE Drop(g) BY <2>9 DEF Drop
  <2>10. CASE SendToken(g) BY <2>10 DEF SendToken
  <2>11. CASE ReceiveToken(g) BY <2>11 DEF ReceiveToken
  <2>12. CASE Execute(g) BY <2>12 DEF Execute
  <2> QED BY <1>2, <2>1, <2>2, <2>3, <2>4, <2>5, <2>6, <2>7, <2>8, <2>9, <2>10, <2>11,
             <2>12 DEF Step
<1> QED BY <1>1, <1>2 DEF Next

\* The map and the mutexes of the chats.
LEMMA LocksChats == LocksInv /\ [Next]_vars => MapInv' /\ ChatInv'
<1> SUFFICES ASSUME LocksInv, [Next]_vars PROVE MapInv' /\ ChatInv'
  OBVIOUS
<1> USE LocksAssumption DEF LocksInv, TypeOK, MapInv, ChatInv, Goto, At, Pcs, Key, HasMutex,
        HasLocked, keyVars, workspaceVars
<1>1. CASE UNCHANGED vars
  BY <1>1 DEF vars
<1>2. ASSUME NEW g \in Goroutines, Step(g) PROVE MapInv' /\ ChatInv'
  <2>1. CASE SkipKey(g) BY <2>1 DEF SkipKey
  <2>2. CASE Find(g) BY <2>2 DEF Find
  <2>3. CASE Create(g)
    <3>1. /\ pc' = [pc EXCEPT ![g] = "lock"] /\ pc[g] = "create"
          /\ mutex' = [mutex EXCEPT ![g] = g]
          /\ locks' = [locks EXCEPT ![Key(g)] = g] /\ Key(g) \in Keys
          /\ UNCHANGED <<request, lockedBy>>
      BY <2>3 DEF Create, Requests
    <3>2. \A h \in Goroutines : pc'[h] # "create"
      BY <3>1
    <3>3. ASSUME NEW k \in Keys, locks'[k] # None PROVE request'[locks'[k]].key = k
      <4>1. CASE k = request[g].key
        <5>1. locks'[k] = g
          BY <3>1, <4>1
        <5> QED BY <5>1, <3>1, <4>1
      <4>2. CASE k # request[g].key
        <5>1. locks'[k] = locks[k]
          BY <3>1, <4>2
        <5>2. request[locks[k]].key = k
          BY <5>1, <3>3
        <5> QED BY <5>1, <5>2, <3>1
      <4> QED BY <4>1, <4>2
    <3>4. \A h \in Goroutines : pc'[h] \in {"create", "lock", "unlock"}
                                 => request'[h].key # NoKey
      BY <3>1
    <3>5. ASSUME NEW h \in Goroutines, pc'[h] \in HasMutex, request'[h].key # NoKey
          PROVE  mutex'[h] # None /\ mutex'[h] = locks'[request'[h].key]
      <4>1. CASE h = g
        BY <3>1, <4>1
      <4>2. CASE h # g
        <5>1. /\ pc[h] \in HasMutex /\ Key(h) \in Keys /\ request'[h].key = Key(h)
              /\ mutex'[h] = mutex[h]
          BY <3>1, <3>5, <4>2 DEF Requests
        <5>2. mutex[h] # None /\ mutex[h] = locks[Key(h)] /\ locks[Key(g)] = None
          BY <3>1, <3>5, <5>1
        <5>3. locks'[Key(h)] = locks[Key(h)]
          BY <3>1, <5>1, <5>2
        <5> QED BY <5>1, <5>2, <5>3
      <4> QED BY <4>1, <4>2
    <3>6. ChatInv'
      BY <3>1
    <3>7. MapInv'
      BY <3>2, <3>3, <3>4, <3>5
    <3> QED BY <3>6, <3>7
  <2>4. CASE LockKey(g) BY <2>4 DEF LockKey
  <2>5. CASE FindAgain(g) BY <2>5 DEF FindAgain
  <2>6. CASE UnlockKey(g) BY <2>6 DEF UnlockKey
  <2>7. CASE LockMu(g) BY <2>7 DEF LockMu
  <2>8. CASE Test(g) BY <2>8 DEF Test
  <2>9. CASE Drop(g) BY <2>9 DEF Drop
  <2>10. CASE SendToken(g) BY <2>10 DEF SendToken
  <2>11. CASE ReceiveToken(g) BY <2>11 DEF ReceiveToken
  <2>12. CASE Execute(g) BY <2>12 DEF Execute
  <2> QED BY <1>2, <2>1, <2>2, <2>3, <2>4, <2>5, <2>6, <2>7, <2>8, <2>9, <2>10, <2>11,
             <2>12 DEF Step
<1> QED BY <1>1, <1>2 DEF Next

\* The workspace lock and its waiters.
LEMMA LocksWorkspace == LocksInv /\ [Next]_vars => WorkspaceInv' /\ NoLostWakeup'
<1> SUFFICES ASSUME LocksInv, [Next]_vars PROVE WorkspaceInv' /\ NoLostWakeup'
  OBVIOUS
<1> USE LocksAssumption DEF LocksInv, TypeOK, WorkspaceInv, NoLostWakeup, Goto, At, Pcs,
        keyVars, workspaceVars
<1>1. CASE UNCHANGED vars
  BY <1>1 DEF vars
<1>2. ASSUME NEW g \in Goroutines, Step(g) PROVE WorkspaceInv' /\ NoLostWakeup'
  <2>1. CASE SkipKey(g) BY <2>1 DEF SkipKey
  <2>2. CASE Find(g) BY <2>2 DEF Find
  <2>3. CASE Create(g) BY <2>3 DEF Create
  <2>4. CASE LockKey(g) BY <2>4 DEF LockKey
  <2>5. CASE FindAgain(g) BY <2>5 DEF FindAgain
  <2>6. CASE UnlockKey(g) BY <2>6 DEF UnlockKey
  <2>7. CASE LockMu(g) BY <2>7 DEF LockMu
  <2>8. CASE Test(g) BY <2>8 DEF Test
  <2>9. CASE Drop(g) BY <2>9 DEF Drop
  <2>10. CASE SendToken(g) BY <2>10 DEF SendToken
  <2>11. CASE ReceiveToken(g) BY <2>11 DEF ReceiveToken
  <2>12. CASE Execute(g) BY <2>12 DEF Execute
  <2> QED BY <1>2, <2>1, <2>2, <2>3, <2>4, <2>5, <2>6, <2>7, <2>8, <2>9, <2>10, <2>11,
             <2>12 DEF Step
<1> QED BY <1>1, <1>2 DEF Next

\* The count of the channel.
LEMMA LocksChannel == LocksInv /\ [Next]_vars => ChannelInv'
<1> SUFFICES ASSUME LocksInv, [Next]_vars PROVE ChannelInv'
  OBVIOUS
<1> USE DEF LocksInv
<1>1. CASE UNCHANGED vars
  BY <1>1 DEF vars, ChannelInv, Senders
<1>2. ASSUME NEW g \in Goroutines, Step(g) PROVE ChannelInv'
  <2>1. CASE SendToken(g)
    <3>1. Senders' = Senders \cup {g} /\ g \notin Senders
      BY <2>1 DEF SendToken, Senders, Goto, At, TypeOK
    <3>2. IsFiniteSet(Senders') /\ Cardinality(Senders') = Cardinality(Senders) + 1
      BY <3>1, FS_AddElement DEF ChannelInv
    <3> QED BY <2>1, <3>2 DEF ChannelInv, SendToken
  <2>2. CASE ReceiveToken(g)
    <3>1. Senders' = Senders \ {g} /\ g \in Senders
      BY <2>2 DEF ReceiveToken, Senders, Goto, At, TypeOK
    <3>2. IsFiniteSet(Senders') /\ Cardinality(Senders') = Cardinality(Senders) - 1
      BY <3>1, FS_RemoveElement DEF ChannelInv
    <3> QED BY <2>2, <3>2 DEF ChannelInv, ReceiveToken
  <2>3. ASSUME Step(g), ~SendToken(g), ~ReceiveToken(g)
        PROVE  /\ UNCHANGED <<request, tokens>>
               /\ \E l \in Pcs :
                    /\ Goto(g, l)
                    /\ \/ request[g].mutating
                       \/ pc[g] \in {"work", "give"} <=> l \in {"work", "give"}
    <3> USE DEF Pcs, At, Goto
    <3>1. CASE SkipKey(g) BY <3>1 DEF SkipKey
    <3>2. CASE Find(g) BY <3>2 DEF Find
    <3>3. CASE Create(g) BY <3>3 DEF Create
    <3>4. CASE LockKey(g) BY <3>4 DEF LockKey
    <3>5. CASE FindAgain(g) BY <3>5 DEF FindAgain
    <3>6. CASE UnlockKey(g) BY <3>6 DEF UnlockKey
    <3>7. CASE LockMu(g) BY <3>7 DEF LockMu
    <3>8. CASE Test(g) BY <3>8 DEF Test, WorkspaceInv
    <3>9. CASE Drop(g) BY <3>9 DEF Drop
    <3>10. CASE Execute(g) BY <3>10 DEF Execute
    <3> QED BY <2>3, <3>1, <3>2, <3>3, <3>4, <3>5, <3>6, <3>7, <3>8, <3>9, <3>10 DEF Step
  <2> QED BY <1>2, <2>1, <2>2, <2>3, SameSenders
<1> QED BY <1>1, <1>2 DEF Next

\* LocksInv is inductive.
LEMMA LocksStep == LocksInv /\ [Next]_vars => LocksInv'
BY LocksType, LocksChats, LocksWorkspace, LocksChannel DEF LocksInv

\* LocksInv holds in every reachable state.
LEMMA LocksInvariant == Spec => []LocksInv
BY LocksInit, LocksStep, PTL DEF Spec

\* The variables of the locks hold what their types say; the tokens never exceed
\* the limit.
THEOREM LocksTypeCorrect == Spec => []TypeOK
<1>1. LocksInv => TypeOK
  BY DEF LocksInv
<1> QED BY <1>1, LocksInvariant, PTL

\* No goroutine is parked in cond.Wait while the workspace is free: the Broadcast
\* of Release and the loop of Acquire leave no window.
THEOREM NobodyStranded == Spec => []NoLostWakeup
<1>1. LocksInv => NoLostWakeup
  BY DEF LocksInv
<1> QED BY <1>1, LocksInvariant, PTL
-----------------------------------------------------------------------------
(* The refinement.                                                         *)

\* A goroutine that moves in the code moves, or stays, in Slots.
LEMMA PhaseMove ==
  ASSUME TypeOK, NEW g \in Goroutines, NEW l, Goto(g, l)
  PROVE  phase[g] = PhaseAt(pc[g]) /\ phase' = [phase EXCEPT ![g] = PhaseAt(l)]
<1>1. phase[g] = PhaseAt(pc[g])
  BY DEF phase
<1>2. \A h \in Goroutines : pc'[h] = IF h = g THEN l ELSE pc[h]
  BY DEF TypeOK, Goto
<1>3. phase' = [h \in Goroutines |-> PhaseAt(pc'[h])]
  BY DEF phase
<1>4. phase' = [h \in Goroutines |-> IF h = g THEN PhaseAt(l) ELSE phase[h]]
  BY <1>2, <1>3 DEF phase
<1>5. [phase EXCEPT ![g] = PhaseAt(l)]
        = [h \in Goroutines |-> IF h = g THEN PhaseAt(l) ELSE phase[h]]
  BY DEF phase
<1> QED BY <1>1, <1>4, <1>5

\* The values of PhaseAt.
LEMMA PhaseTable ==
  /\ PhaseAt("find") = "waiting" /\ PhaseAt("create") = "waiting" /\ PhaseAt("lock") = "waiting"
  /\ PhaseAt("slot") = "entered" /\ PhaseAt("check") = "entered" /\ PhaseAt("wait") = "entered"
  /\ PhaseAt("work") = "working" /\ PhaseAt("give") = "working" /\ PhaseAt("drop") = "working"
  /\ PhaseAt("findAgain") = "leaving" /\ PhaseAt("unlock") = "leaving"
  /\ PhaseAt("done") = "done"
BY DEF PhaseAt

\* A goroutine with a key is in its chat only while it has the chat's mutex.
LEMMA InChatLocked ==
  ASSUME LocksInv, NEW h \in Goroutines, phase[h] \in Promise!InChat, Key(h) # NoKey
  PROVE  mutex[h] = locks[Key(h)] /\ lockedBy[mutex[h]] = h
<1>1. pc[h] \in HasLocked
  BY DEF LocksInv, TypeOK, Pcs, phase, PhaseAt, Promise!InChat, HasLocked, HasMutex
<1> QED BY <1>1 DEF LocksInv, MapInv, ChatInv, HasLocked

\* What Slots counts as working.
LEMMA WorkersAre ==
  ASSUME LocksInv
  PROVE  /\ Promise!Working(FALSE) = Senders
         /\ \A h \in Promise!Working(TRUE) : owner = h
<1>1. ASSUME NEW h \in Goroutines
      PROVE  /\ phase[h] = "working" <=> pc[h] \in {"work", "give", "drop"}
             /\ pc[h] = "drop" => request[h].mutating
             /\ request[h].mutating \in BOOLEAN
  BY DEF LocksInv, TypeOK, Pcs, phase, PhaseAt, WorkspaceInv, Requests
<1>2. Promise!Working(FALSE) = Senders
  BY <1>1 DEF Promise!Working, Senders
<1>3. ASSUME NEW h \in Promise!Working(TRUE) PROVE owner = h
  BY <1>1 DEF Promise!Working, LocksInv, WorkspaceInv
<1> QED BY <1>2, <1>3

\* The first lookup starts in Slots too.
LEMMA RefineInit == Init => Promise!Init
BY DEF Init, Promise!Init, Requests, Promise!Requests, phase, PhaseAt

\* Entering a chat: with a key, nobody else of that chat is inside.
LEMMA RefineEnter ==
  ASSUME LocksInv, NEW g \in Goroutines, (SkipKey(g) /\ At(g, "find")) \/ LockKey(g)
  PROVE  Promise!EnterChat(g)
<1> USE DEF LocksInv
<1>1. Promise!Move(g, "waiting", "entered")
  <2>1. Goto(g, "slot") /\ pc[g] \in {"find", "lock"}
    BY DEF SkipKey, LockKey, At, Goto, TypeOK
  <2> QED BY <2>1, PhaseMove, PhaseTable DEF Promise!Move
<1>2. ASSUME Key(g) # NoKey, NEW h \in Goroutines, Key(h) = Key(g), phase[h] \in Promise!InChat
      PROVE  FALSE
  <2>1. pc[g] = "lock" /\ lockedBy[mutex[g]] = None
    BY <1>2 DEF SkipKey, LockKey, At
  <2>2. mutex[g] = locks[Key(g)]
    BY <1>2, <2>1 DEF MapInv, HasMutex, Pcs
  <2>3. mutex[h] = locks[Key(h)] /\ lockedBy[mutex[h]] = h
    BY <1>2, InChatLocked
  <2> QED BY <1>2, <2>1, <2>2, <2>3, LocksAssumption
<1> QED BY <1>1, <1>2 DEF Promise!EnterChat, Key

\* Starting to work: the workspace is free, or the channel has room.
LEMMA RefineStart ==
  ASSUME LocksInv, NEW g \in Goroutines, (Test(g) /\ owner = None) \/ SendToken(g)
  PROVE  Promise!StartWork(g)
<1> USE DEF LocksInv
<1>1. Promise!Move(g, "entered", "working")
  <2>1. Goto(g, "work") /\ pc[g] \in {"check", "slot"}
    BY DEF Test, SendToken, At
  <2> QED BY <2>1, PhaseMove, PhaseTable DEF Promise!Move
<1>2. CASE Test(g) /\ owner = None
  <2>1. request[g].mutating
    BY <1>2 DEF Test, At, WorkspaceInv
  <2>2. Promise!Working(TRUE) = {}
    BY <1>2, WorkersAre, LocksAssumption DEF Promise!Working
  <2> QED BY <1>1, <2>1, <2>2 DEF Promise!StartWork
<1>3. CASE SendToken(g)
  <2>1. ~request[g].mutating /\ tokens < MaxReadOnly
    BY <1>3 DEF SendToken
  <2>2. Promise!Cardinality(Promise!Working(FALSE)) = tokens
    <3>1. Cardinality(Promise!Working(FALSE)) = tokens
      BY WorkersAre DEF ChannelInv
    <3> QED BY <3>1 DEF Cardinality, Promise!Cardinality
  <2> QED BY <1>1, <2>1, <2>2 DEF Promise!StartWork
<1> QED BY <1>2, <1>3

\* Giving back the workspace or the token, and then the chat.
LEMMA RefineLeave ==
  ASSUME LocksInv, NEW g \in Goroutines
  PROVE  /\ Drop(g) \/ ReceiveToken(g) => Promise!EndWork(g)
         /\ UnlockKey(g) \/ (SkipKey(g) /\ At(g, "findAgain")) => Promise!LeaveChat(g)
<1> USE DEF LocksInv
<1>1. ASSUME Drop(g) \/ ReceiveToken(g) PROVE Promise!EndWork(g)
  <2>1. Goto(g, "findAgain") /\ pc[g] \in {"drop", "give"}
    BY <1>1 DEF Drop, ReceiveToken, At
  <2> QED BY <2>1, PhaseMove, PhaseTable DEF Promise!Move, Promise!EndWork
<1>2. ASSUME UnlockKey(g) \/ (SkipKey(g) /\ At(g, "findAgain")) PROVE Promise!LeaveChat(g)
  <2>1. Goto(g, "done") /\ pc[g] \in {"unlock", "findAgain"}
    BY <1>2 DEF UnlockKey, SkipKey, At, Goto, TypeOK
  <2> QED BY <2>1, PhaseMove, PhaseTable DEF Promise!Move, Promise!LeaveChat
<1> QED BY <1>1, <1>2

\* The other operations change nothing that Slots sees.
LEMMA RefineStutter ==
  ASSUME LocksInv, NEW g \in Goroutines,
         \/ Find(g) \/ Create(g) \/ FindAgain(g) \/ LockMu(g) \/ Execute(g)
         \/ (Test(g) /\ owner # None)
  PROVE  phase' = phase
<1> USE DEF LocksInv
<1>1. PICK l \in Pcs : Goto(g, l) /\ PhaseAt(l) = PhaseAt(pc[g])
  <2> USE PhaseTable DEF At, Pcs
  <2>1. CASE Find(g) BY <2>1 DEF Find
  <2>2. CASE Create(g) BY <2>2 DEF Create
  <2>3. CASE FindAgain(g) BY <2>3 DEF FindAgain
  <2>4. CASE LockMu(g) BY <2>4 DEF LockMu
  <2>5. CASE Execute(g) BY <2>5 DEF Execute
  <2>6. CASE Test(g) /\ owner # None BY <2>6 DEF Test
  <2> QED BY <2>1, <2>2, <2>3, <2>4, <2>5, <2>6
<1>2. phase' = [phase EXCEPT ![g] = phase[g]]
  BY <1>1, PhaseMove
<1> QED BY <1>2 DEF phase

\* The primitive operations of KeyedLock, WorkspaceLock and the channel keep the
\* promise of the locks: one goroutine of a chat at a time, one mutating goroutine
\* at a time, at most MaxReadOnly others.
THEOREM LocksImplementSlots == Spec => SlotsKept
<1>1. LocksInv /\ [Next]_vars => [Promise!Next]_<<request, phase>>
  <2> SUFFICES ASSUME LocksInv, [Next]_vars PROVE [Promise!Next]_<<request, phase>>
    OBVIOUS
  <2>1. CASE UNCHANGED vars
    <3>1. request' = request /\ phase' = phase
      BY <2>1 DEF vars, phase
    <3> QED BY <3>1
  <2>2. ASSUME NEW g \in Goroutines, Step(g) PROVE [Promise!Next]_<<request, phase>>
    <3>1. request' = request
      BY <2>2 DEF Step, SkipKey, Find, Create, LockKey, FindAgain, UnlockKey, LockMu, Test,
                  Drop, SendToken, ReceiveToken, Execute
    <3>2. \/ Promise!EnterChat(g) \/ Promise!StartWork(g)
          \/ Promise!EndWork(g) \/ Promise!LeaveChat(g)
          \/ phase' = phase
      <4>1. CASE SkipKey(g)
        <5>1. At(g, "find") \/ At(g, "findAgain")
          BY <4>1 DEF SkipKey
        <5> QED BY <4>1, <5>1, RefineEnter, RefineLeave
      <4>2. CASE LockKey(g) BY <4>2, RefineEnter
      <4>3. CASE Test(g)
        <5>1. CASE owner = None BY <4>3, <5>1, RefineStart
        <5>2. CASE owner # None BY <4>3, <5>2, RefineStutter
        <5> QED BY <5>1, <5>2
      <4>4. CASE SendToken(g) BY <4>4, RefineStart
      <4>5. CASE Drop(g) BY <4>5, RefineLeave
      <4>6. CASE ReceiveToken(g) BY <4>6, RefineLeave
      <4>7. CASE UnlockKey(g) BY <4>7, RefineLeave
      <4>8. CASE Find(g) \/ Create(g) \/ FindAgain(g) \/ LockMu(g) \/ Execute(g)
        BY <4>8, RefineStutter
      <4> QED BY <2>2, <4>1, <4>2, <4>3, <4>4, <4>5, <4>6, <4>7, <4>8 DEF Step
    <3> QED BY <3>1, <3>2 DEF Promise!Next
  <2> QED BY <2>1, <2>2 DEF Next
<1> QED BY <1>1, RefineInit, LocksInvariant, PTL DEF Spec, SlotsKept, Promise!SlotsSpec
=============================================================================
