--------------------------- MODULE PairingProofs ---------------------------
(***************************************************************************)
(* Proofs about pairing, for every set of clients and users and any number *)
(* of keys: the transactions pair the gateway with one user, and the setup *)
(* wizard, composed with them, keeps to that and leaves what start needs.  *)
(***************************************************************************)
EXTENDS Setup, FiniteSetTheorems, TLAPS

\* What a client in a transaction sees: nothing has been committed since it
\* began (its shared lock sees to that), and what it has written itself is the
\* prefix of a registration.
ViewOK(c) ==
  LET me == client[c]
  IN /\ me.writing => users = {} /\ InTransaction(c)
     /\ InTransaction(c) /\ ~me.writing =>
          /\ me.users = users /\ me.pairing = pairing
          /\ me.pc \in {"seed", "decide"}
     /\ me.pc = "seed" => ~me.writing /\ users = {}
     /\ me.pc = "seed" \/ (me.pc = "decide" /\ me.writing) => ~Usable(pairing)
     /\ me.writing /\ me.pc = "decide" => me.users = {} /\ ~me.pairing.consumed
     /\ me.pc \in {"consume", "commit"} =>
          /\ me.writing /\ me.op = "register"
          /\ me.users = {me.user} /\ me.user \in Users
     /\ me.pc = "consume" => ~me.pairing.consumed
     /\ me.pc = "commit" => me.pairing.consumed
     /\ me.pc \in {"seed", "decide"} /\ me.op = "register" => me.user \in Users

OneWriter ==
  \A c, d \in Clients : client[c].writing /\ client[d].writing => c = d

\* The inductive invariant.  Without the views, a second registration that had
\* read the empty table could still commit after the first.
PairingInv ==
  /\ TypeOK
  /\ OneWriter
  /\ \A c \in Clients : ViewOK(c)
  /\ ConsumedIffRegistered
  /\ PrintedKeyWorks

\* The record of a client that is not in a transaction.
LEMMA NoClientOK == NoClient \in ClientRecords /\ ~NoClient.writing /\ NoClient.pc = "idle"
BY DEF NoClient, ClientRecords, Pcs, Operations, Rows, NoRow

\* An empty database satisfies the invariant.
LEMMA PairingInit == Init => PairingInv
<1> SUFFICES ASSUME Init PROVE PairingInv
  OBVIOUS
<1>1. TypeOK
  BY NoClientOK DEF Init, TypeOK, NoRow, Rows
<1>2. OneWriter /\ \A c \in Clients : ViewOK(c)
  BY NoClientOK DEF Init, OneWriter, ViewOK, InTransaction
<1>3. ConsumedIffRegistered /\ PrintedKeyWorks
  BY DEF Init, ConsumedIffRegistered, PrintedKeyWorks, NoRow
<1> QED BY <1>1, <1>2, <1>3 DEF PairingInv

\* A step of one client that commits nothing.
LEMMA LocalStep ==
  ASSUME PairingInv, NEW c \in Clients, NEW new \in ClientRecords,
         client' = [client EXCEPT ![c] = new],
         UNCHANGED <<users, pairing>>, issued' \in Nat, printed' \in SUBSET Nat,
         PrintedKeyWorks',
         new.writing => NobodyElseWrites(c),
         ViewOK(c)'
  PROVE  PairingInv'
<1>1. TypeOK'
  BY DEF PairingInv, TypeOK
<1>2. /\ client'[c] = new
      /\ \A d \in Clients \ {c} : client'[d] = client[d]
  BY DEF PairingInv, TypeOK
<1>3. OneWriter'
  BY <1>2 DEF PairingInv, OneWriter, NobodyElseWrites
<1>4. \A d \in Clients : ViewOK(d)'
  BY <1>2 DEF PairingInv, ViewOK, InTransaction, Usable
<1>5. ConsumedIffRegistered'
  BY DEF PairingInv, ConsumedIffRegistered
<1> QED BY <1>1, <1>3, <1>4, <1>5 DEF PairingInv

\* A client that is done has no transaction.
LEMMA DoneStep ==
  ASSUME PairingInv, NEW c \in Clients, Done(c),
         UNCHANGED <<users, pairing>>, issued' \in Nat, printed' \in SUBSET Nat,
         PrintedKeyWorks'
  PROVE  PairingInv'
<1>1. client'[c] = NoClient
  BY DEF Done, PairingInv, TypeOK
<1>2. ViewOK(c)'
  BY <1>1, NoClientOK DEF ViewOK, InTransaction
<1> QED BY <1>2, NoClientOK, LocalStep DEF Done

\* PairingInv is inductive.
LEMMA PairingStep == PairingInv /\ [Next]_vars => PairingInv'
<1> SUFFICES ASSUME PairingInv, [Next]_vars PROVE PairingInv'
  OBVIOUS
<1>0. /\ users \in SUBSET Users /\ pairing \in Rows /\ issued \in Nat
      /\ printed \in SUBSET Nat
      /\ \A c \in Clients : client[c] \in ClientRecords /\ ViewOK(c)
      /\ client \in [Clients -> ClientRecords]
      /\ ConsumedIffRegistered /\ PrintedKeyWorks
  BY DEF PairingInv, TypeOK
<1>keep. UNCHANGED <<users, pairing, printed>> => PrintedKeyWorks'
  BY <1>0 DEF PrintedKeyWorks, Usable
<1>1. ASSUME NEW c \in Clients, NEW op \in Operations, NEW u \in Users \cup {None},
             NEW k \in Nat, op = "register" => u \in Users, Begin(c, op, u, k)
      PROVE  PairingInv'
  <2> DEFINE new == [pc |-> IF users = {} /\ ~Usable(pairing) THEN "seed" ELSE "decide",
                     op |-> op, user |-> u, key |-> k, writing |-> FALSE,
                     users |-> users, pairing |-> pairing]
  <2>1. /\ new \in ClientRecords /\ new.pc \in {"seed", "decide"}
        /\ new.pc = "seed" => users = {} /\ ~Usable(pairing)
    BY <1>0 DEF ClientRecords, Pcs
  <2>2. /\ new.op = op /\ new.user = u /\ ~new.writing
        /\ new.users = users /\ new.pairing = pairing
    OBVIOUS
  <2>3. client' = [client EXCEPT ![c] = new] /\ UNCHANGED <<users, pairing, issued, printed>>
    BY <1>1 DEF Begin
  <2> HIDE DEF new
  <2>4. client'[c] = new
    BY <1>0, <2>3
  <2>5. ViewOK(c)'
    BY <1>1, <2>1, <2>2, <2>3, <2>4 DEF ViewOK, InTransaction, Usable
  <2> QED BY <1>0, <2>1, <2>2, <2>3, <2>5, <1>keep, LocalStep
<1>2. ASSUME NEW c \in Clients, Seed(c) PROVE PairingInv'
  <2> DEFINE row == [key |-> issued + 1, consumed |-> FALSE]
             new == [client[c] EXCEPT !.pc = "decide", !.writing = TRUE, !.pairing = row]
  <2>0. row \in Rows /\ ~row.consumed /\ issued' \in Nat
    BY <1>0, <1>2 DEF Rows, Seed
  <2>1. /\ client' = [client EXCEPT ![c] = new]
        /\ At(c, "seed") /\ NobodyElseWrites(c)
        /\ UNCHANGED <<users, pairing, printed>>
    BY <1>2 DEF Seed
  <2> HIDE DEF row
  <2>2. /\ new \in ClientRecords /\ new.pc = "decide" /\ new.writing
        /\ new.op = client[c].op /\ new.user = client[c].user
        /\ new.users = client[c].users /\ new.pairing = row
    BY <1>0, <2>0 DEF ClientRecords, Pcs
  <2> HIDE DEF new
  <2>3. client'[c] = new
    BY <1>0, <2>1
  <2>4. ViewOK(c)'
    BY <1>0, <2>0, <2>1, <2>2, <2>3 DEF ViewOK, InTransaction, Usable, At
  <2> QED BY <1>0, <2>0, <2>1, <2>2, <2>4, <1>keep, LocalStep
<1>3. ASSUME NEW c \in Clients, RegisterUser(c) PROVE PairingInv'
  <2> DEFINE new == [client[c] EXCEPT !.pc = "consume", !.writing = TRUE,
                                      !.users = {client[c].user}]
  <2>1. /\ client' = [client EXCEPT ![c] = new]
        /\ At(c, "decide") /\ client[c].op = "register"
        /\ Accepts(c) /\ NobodyElseWrites(c)
        /\ UNCHANGED <<users, pairing, issued, printed>>
    BY <1>3 DEF RegisterUser
  <2>2. client[c].user \in Users
    BY <1>0, <2>1 DEF ViewOK, At
  <2>3. /\ new \in ClientRecords /\ new.pc = "consume" /\ new.writing
        /\ new.op = client[c].op /\ new.user = client[c].user
        /\ new.users = {client[c].user} /\ new.pairing = client[c].pairing
    BY <1>0, <2>2 DEF ClientRecords, Pcs
  <2> HIDE DEF new
  <2>4. client'[c] = new
    BY <1>0, <2>1
  <2>5. users = {} /\ ~client[c].pairing.consumed
    BY <1>0, <2>1 DEF ViewOK, InTransaction, Accepts, Usable, At
  <2>6. ViewOK(c)'
    BY <2>1, <2>2, <2>3, <2>4, <2>5 DEF ViewOK, InTransaction, Usable
  <2> QED BY <1>0, <2>1, <2>3, <2>6, <1>keep, LocalStep
<1>4. ASSUME NEW c \in Clients, Consume(c) PROVE PairingInv'
  <2> DEFINE row == [key |-> client[c].pairing.key, consumed |-> TRUE]
             new == [client[c] EXCEPT !.pc = "commit", !.pairing = row]
  <2>0. row \in Rows /\ row.consumed
    BY <1>0 DEF Rows, ClientRecords
  <2>1. /\ client' = [client EXCEPT ![c] = new] /\ At(c, "consume")
        /\ UNCHANGED <<users, pairing, issued, printed>>
    BY <1>4 DEF Consume
  <2> HIDE DEF row
  <2>2. /\ new \in ClientRecords /\ new.pc = "commit" /\ new.writing = client[c].writing
        /\ new.op = client[c].op /\ new.user = client[c].user
        /\ new.users = client[c].users /\ new.pairing = row
    BY <1>0, <2>0 DEF ClientRecords, Pcs
  <2> HIDE DEF new
  <2>3. client'[c] = new
    BY <1>0, <2>1
  <2>4. ViewOK(c)'
    BY <1>0, <2>0, <2>1, <2>2, <2>3 DEF ViewOK, InTransaction, Usable, At
  <2>5. NobodyElseWrites(c)
    BY <1>0, <2>1 DEF PairingInv, OneWriter, NobodyElseWrites, ViewOK, At
  <2> QED BY <1>0, <2>1, <2>2, <2>4, <2>5, <1>keep, LocalStep
<1>5. ASSUME NEW c \in Clients, Commit(c) PROVE PairingInv'
  <2> DEFINE after == IF client[c].op = "message" THEN [NoClient EXCEPT !.pc = "count"]
                                                  ELSE NoClient
  <2>1. /\ after \in ClientRecords /\ ~after.writing
        /\ after.pc \notin {"seed", "decide", "consume", "commit"}
    BY NoClientOK DEF ClientRecords, Pcs
  <2>2. /\ client' = [client EXCEPT ![c] = after]
        /\ UNCHANGED <<issued, printed>>
        /\ At(c, "commit") \/ (At(c, "decide") /\ client[c].op = "message")
    BY <1>5 DEF Commit, Done
  <2> HIDE DEF after
  <2>3. /\ client'[c] = after
        /\ \A d \in Clients \ {c} : client'[d] = client[d]
    BY <1>0, <2>2
  <2>4. ViewOK(c)'
    BY <2>1, <2>3 DEF ViewOK, InTransaction, Usable
  <2>5. CASE ~client[c].writing
    <3>1. UNCHANGED <<users, pairing>>
      BY <1>5, <2>5 DEF Commit
    <3> QED BY <1>0, <2>1, <2>2, <2>4, <3>1, <1>keep, LocalStep
  <2>6. CASE client[c].writing
    <3>1. /\ \A d \in Clients \ {c} : ~InTransaction(d)
          /\ users' = client[c].users /\ pairing' = client[c].pairing
      BY <1>5, <2>6 DEF Commit
    <3>2. TypeOK'
      BY <1>0, <2>1, <2>2, <3>1 DEF TypeOK, ClientRecords
    <3>3. \A d \in Clients \ {c} : ~client[d].writing
      BY <1>0, <3>1 DEF ViewOK
    <3>4. OneWriter'
      BY <2>1, <2>3, <3>3 DEF OneWriter
    <3>5. ASSUME NEW d \in Clients \ {c} PROVE ViewOK(d)'
      BY <2>3, <3>1, <3>3 DEF ViewOK, InTransaction, Usable
    <3>6. ConsumedIffRegistered'
      BY <1>0, <2>2, <2>6, <3>1 DEF ConsumedIffRegistered, ViewOK, At
    <3>7. PrintedKeyWorks'
      BY <1>0, <2>2, <2>6, <3>1 DEF PrintedKeyWorks, ViewOK, At
    <3> QED BY <2>4, <3>2, <3>4, <3>5, <3>6, <3>7 DEF PairingInv
  <2> QED BY <2>5, <2>6
<1>6. ASSUME NEW c \in Clients, Refuse(c) \/ Rollback(c) \/ ShowKey(c)
      PROVE  PairingInv'
  <2>1. Done(c) /\ UNCHANGED <<users, pairing, issued>>
    BY <1>6 DEF Refuse, Rollback, ShowKey
  <2>2. printed' \in SUBSET Nat
    BY <1>0, <1>6 DEF Refuse, Rollback, ShowKey, Rows
  <2>3. PrintedKeyWorks'
    BY <1>0, <1>6, <2>1 DEF PrintedKeyWorks, Usable, Refuse, Rollback, ShowKey
  <2> QED BY <1>0, <2>1, <2>2, <2>3, DoneStep
<1>7. ASSUME NEW c \in Clients, CountUsers(c) PROVE PairingInv'
  <2>1. UNCHANGED <<users, pairing, issued, printed>> /\ At(c, "count")
    BY <1>7 DEF CountUsers
  <2>2. CASE users = {}
    <3> DEFINE new == [client[c] EXCEPT !.pc = "key"]
    <3>1. client' = [client EXCEPT ![c] = new]
      BY <1>7, <2>2 DEF CountUsers
    <3>2. new \in ClientRecords /\ new.pc = "key" /\ new.writing = client[c].writing
      BY <1>0 DEF ClientRecords, Pcs
    <3> HIDE DEF new
    <3>3. ~new.writing
      BY <1>0, <2>1, <3>2 DEF ViewOK, InTransaction, Usable, At
    <3>4. ViewOK(c)'
      BY <1>0, <3>1, <3>2, <3>3 DEF ViewOK, InTransaction, Usable
    <3> QED BY <1>0, <2>1, <3>1, <3>2, <3>3, <3>4, <1>keep, LocalStep
  <2>3. CASE users # {}
    BY <1>0, <1>7, <2>1, <2>3, <1>keep, DoneStep DEF CountUsers
  <2> QED BY <2>2, <2>3
<1>8. CASE UNCHANGED vars
  <2>1. \A c \in Clients : ViewOK(c)'
    BY <1>0, <1>8 DEF vars, ViewOK, InTransaction, Usable
  <2> QED BY <1>8, <1>keep, <2>1 DEF vars, PairingInv, TypeOK, OneWriter,
                                     ConsumedIffRegistered
<1>9. CASE Next
  <2>1. \A k \in 1..MaxKeys : k \in Nat
    OBVIOUS
  <2>2. "message" \in Operations /\ "register" \in Operations /\ 0 \in Nat
    BY DEF Operations
  <2> QED BY <1>1, <1>2, <1>3, <1>4, <1>5, <1>6, <1>7, <1>9, <2>1, <2>2 DEF Next
<1> QED BY <1>8, <1>9

\* The tables and the transactions hold what their types say.
THEOREM PairingTypeCorrect == Spec => []TypeOK
<1>1. PairingInv => TypeOK
  BY DEF PairingInv
<1> QED BY <1>1, PairingInit, PairingStep, PTL DEF Spec

\* The pairing key is consumed exactly when a user is registered, whatever
\* transactions overlap and wherever a process dies.
THEOREM ConsumedOnce == Spec => []ConsumedIffRegistered
<1>1. PairingInv => ConsumedIffRegistered
  BY DEF PairingInv
<1> QED BY <1>1, PairingInit, PairingStep, PTL DEF Spec

\* Nobody is registered after the first user, and nobody with him.
THEOREM OneUserPairs == Spec => FirstUserStays
<1>1. ASSUME PairingInv, [Next]_vars
      PROVE  [/\ users # {} => users' = users
              /\ users = {} => Cardinality(users') <= 1]_vars
  <2>1. CASE UNCHANGED users
    <3>1. users = {} => Cardinality(users') <= 1
      BY <2>1, FS_EmptySet
    <3> QED BY <2>1, <3>1
  <2>2. CASE users' # users
    <3>1. PICK c \in Clients : Commit(c) /\ client[c].writing
      BY <1>1, <2>2 DEF Next, vars, Begin, Seed, RegisterUser, Consume, Refuse,
         Commit, Rollback, CountUsers, ShowKey
    <3>2. users = {} /\ users' = client[c].users
      BY <1>1, <3>1 DEF Commit, PairingInv, ViewOK
    <3>3. users' = {} \/ \E u : users' = {u}
      BY <1>1, <3>1, <3>2 DEF Commit, PairingInv, ViewOK, At
    <3>4. Cardinality(users') = 0 \/ Cardinality(users') = 1
      BY <3>3, FS_EmptySet, FS_Singleton
    <3> QED BY <3>2, <3>4
  <2> QED BY <2>1, <2>2
<1> QED BY <1>1, PairingInit, PairingStep, PTL DEF Spec, FirstUserStays

\* The key the operator was shown registers until a user is registered.
THEOREM PrintedKeyStays == Spec => []PrintedKeyWorks
<1>1. PairingInv => PrintedKeyWorks
  BY DEF PairingInv
<1> QED BY <1>1, PairingInit, PairingStep, PTL DEF Spec

-----------------------------------------------------------------------------
(* The setup wizard, for any number of other clients, users, keys and      *)
(* texts: the composition with the configuration file lets the pairing     *)
(* transactions do nothing new, the file is never torn, and setup leaves   *)
(* behind what start needs.                                                *)

\* Somebody has paired, or can.
Ready == users # {} \/ Usable(pairing)

\* What ensureBootstrapPairingTx has seen to, for the transaction that called it
\* and, once committed, for everybody.
KeyInv ==
  \A c \in Clients :
    /\ At(c, "decide") => client[c].users # {} \/ Usable(client[c].pairing)
    /\ client[c].pc \in {"count", "key"} => Ready

\* How far the wizard has brought the file.
WizardInv ==
  /\ file.state # "torn"
  /\ Setting("secret") => wizard.config.id # NoText
  /\ Setting("rename") => tmp.state = "whole" /\ tmp.config = wizard.config
  /\ wizard.pc \in {"open", "message", "complete"} =>
       file.state = "whole" /\ file.config = wizard.config
  /\ Setting("complete") => Ready

SetupInv == PairingInv /\ KeyInv /\ SetupTypeOK /\ WizardInv

-----------------------------------------------------------------------------
\* Every step of the composition is a step of the transactions, or none: what is
\* proved of Pairing holds with a wizard as well.
LEMMA SetupStepMaps == SetupInv /\ [SetupNext]_allVars => [Next]_vars
<1> SUFFICES ASSUME SetupInv, [SetupNext]_allVars PROVE [Next]_vars
  OBVIOUS
<1> USE SetupAssumption
<1>1. CASE OpenStore
  BY <1>1 DEF OpenStore, Next
<1>2. CASE SeePairing
  BY <1>2 DEF SeePairing, Next
<1>3. CASE Complete
  <2>1. CASE At(Wizard, "key")
    BY <1>3, <2>1 DEF Complete, CountUsers, Rollback, At, Next
  <2> QED BY <1>3, <2>1 DEF Complete, Next
<1>4. CASE Abort
  BY <1>4 DEF Abort, Next
<1>5. ASSUME NEW c \in Clients, Pair(c) PROVE [Next]_vars
  BY <1>5 DEF Pair, Next
<1>6. ASSUME UNCHANGED vars PROVE [Next]_vars
  BY <1>6
<1>7. CASE OpenRegistry \/ Truncate \/ Write \/ Rename
  BY <1>7 DEF OpenRegistry, Truncate, Write, Rename
<1>8. ASSUME NEW line \in Texts \cup {NoText}, EnterID(line) \/ EnterSecret(line)
      PROVE  [Next]_vars
  BY <1>8 DEF EnterID, EnterSecret
<1>9. ASSUME NEW c \in Clients, Load(c) \/ Close(c) PROVE [Next]_vars
  BY <1>9 DEF Load, Close
<1>10. CASE UNCHANGED allVars
  BY <1>10 DEF allVars
<1> QED BY <1>1, <1>2, <1>3, <1>4, <1>5, <1>7, <1>8, <1>9, <1>10 DEF SetupNext

\* A key that is there stays until somebody has paired.
LEMMA KeyStep ==
  PairingInv /\ KeyInv /\ [Next]_vars => KeyInv' /\ (Ready => Ready')
<1> SUFFICES ASSUME PairingInv, KeyInv, [Next]_vars
             PROVE  KeyInv' /\ (Ready => Ready')
  OBVIOUS
<1>0. /\ client \in [Clients -> ClientRecords] /\ issued \in Nat
      /\ \A c \in Clients : ViewOK(c)
  BY DEF PairingInv, TypeOK
<1>1. ASSUME NEW c \in Clients, Commit(c)
      PROVE  Ready' /\ (At(c, "decide") \/ At(c, "commit"))
             /\ client'[c].pc \in {"idle", "count"}
             /\ \A d \in Clients \ {c} : client'[d] = client[d]
  <2>1. client'[c].pc \in {"idle", "count"} /\ \A d \in Clients \ {c} : client'[d] = client[d]
    BY <1>0, <1>1 DEF Commit, Done, NoClient
  <2>2. CASE At(c, "commit")
    BY <1>0, <1>1, <2>2, <2>1 DEF Commit, ViewOK, At, Ready
  <2>3. CASE At(c, "decide") /\ client[c].writing
    BY <1>0, <1>1, <2>1, <2>3 DEF Commit, KeyInv, Ready, Usable
  <2>4. CASE At(c, "decide") /\ ~client[c].writing
    <3>1. client[c].users = users /\ client[c].pairing = pairing
      BY <1>0, <2>4 DEF ViewOK, InTransaction, At
    <3> QED BY <1>1, <2>1, <2>4, <3>1 DEF Commit, KeyInv, Ready, Usable
  <2> QED BY <1>1, <2>2, <2>3, <2>4 DEF Commit
<1>2. ASSUME NEW c \in Clients, UNCHANGED <<users, pairing>>,
             \A d \in Clients \ {c} : client'[d] = client[d],
             At(c, "decide")' => client'[c].users # {} \/ Usable(client'[c].pairing),
             client'[c].pc \in {"count", "key"} => Ready
      PROVE  KeyInv' /\ (Ready => Ready')
  BY <1>2 DEF KeyInv, Ready, Usable, At
<1>3. ASSUME NEW c \in Clients,
             \/ Begin(c, "message", None, 0)
             \/ \E u \in Users, k \in 1..MaxKeys : Begin(c, "register", u, k)
      PROVE  KeyInv' /\ (Ready => Ready')
  BY <1>0, <1>2, <1>3 DEF Begin, At, Usable
<1>4. ASSUME NEW c \in Clients, Seed(c) PROVE KeyInv' /\ (Ready => Ready')
  <2> DEFINE row == [key |-> issued + 1, consumed |-> FALSE]
             new == [client[c] EXCEPT !.pc = "decide", !.writing = TRUE, !.pairing = row]
  <2>1. client' = [client EXCEPT ![c] = new] /\ UNCHANGED <<users, pairing>>
    BY <1>4 DEF Seed
  <2>2. new.pc = "decide" /\ new.pairing = row /\ Usable(row)
    BY <1>0 DEF ClientRecords, Usable
  <2> HIDE DEF new, row
  <2>3. client'[c] = new /\ \A d \in Clients \ {c} : client'[d] = client[d]
    BY <1>0, <2>1
  <2> QED BY <1>2, <2>1, <2>2, <2>3
<1>5. ASSUME NEW c \in Clients, RegisterUser(c) \/ Consume(c)
      PROVE  KeyInv' /\ (Ready => Ready')
  <2>1. client'[c].pc \in {"consume", "commit"}
    BY <1>0, <1>5 DEF RegisterUser, Consume, ClientRecords
  <2> QED BY <1>0, <1>2, <1>5, <2>1 DEF RegisterUser, Consume, At
<1>6. ASSUME NEW c \in Clients, Refuse(c) \/ Rollback(c) \/ ShowKey(c)
      PROVE  KeyInv' /\ (Ready => Ready')
  BY <1>0, <1>2, <1>6 DEF Refuse, Rollback, ShowKey, Done, NoClient, At
<1>7. ASSUME NEW c \in Clients, CountUsers(c) PROVE KeyInv' /\ (Ready => Ready')
  <2>1. Ready
    BY <1>7 DEF CountUsers, KeyInv, At
  <2>2. client'[c].pc \in {"key", "idle"}
    BY <1>0, <1>7 DEF CountUsers, Done, NoClient, ClientRecords
  <2> QED BY <1>0, <1>2, <1>7, <2>1, <2>2 DEF CountUsers, Done, At
<1>8. ASSUME NEW c \in Clients, Commit(c) PROVE KeyInv' /\ (Ready => Ready')
  BY <1>1, <1>8 DEF KeyInv, At
<1>9. CASE UNCHANGED vars
  BY <1>9 DEF vars, KeyInv, Ready, Usable, At
<1> QED BY <1>3, <1>4, <1>5, <1>6, <1>7, <1>8, <1>9 DEF Next

LEMMA SetupStart == SetupInit => SetupInv
<1> SUFFICES ASSUME SetupInit PROVE SetupInv
  OBVIOUS
<1>1. PairingInv
  BY PairingInit DEF SetupInit
<1>2. KeyInv
  BY NoClientOK DEF SetupInit, Init, KeyInv, At
<1>3. NoConfig \in Configs
  BY DEF NoConfig, Configs
<1>4. SetupTypeOK /\ WizardInv
  BY <1>3 DEF SetupInit, SetupTypeOK, WizardInv, NoFile, NoWizard, Files, WizardPcs, Setting
<1> QED BY <1>1, <1>2, <1>4 DEF SetupInv

\* SetupInv is inductive.
LEMMA SetupStep == SetupInv /\ [SetupNext]_allVars => SetupInv'
<1> SUFFICES ASSUME SetupInv, [SetupNext]_allVars PROVE SetupInv'
  OBVIOUS
<1>1. PairingInv' /\ KeyInv' /\ (Ready => Ready')
  BY SetupStepMaps, PairingStep, KeyStep DEF SetupInv
<1>0. /\ SetupTypeOK /\ WizardInv
      /\ file \in Files /\ tmp \in Files /\ opened \in SUBSET (Clients \ {Wizard})
      /\ wizard \in [pc: WizardPcs, config: Configs]
  BY DEF SetupInv, SetupTypeOK
<1> SUFFICES SetupTypeOK' /\ WizardInv'
  BY <1>1 DEF SetupInv
<1>2. CASE OpenRegistry
  <2>1. wizard' = [pc |-> "id", config |-> file.config]
    BY <1>2 DEF OpenRegistry
  <2>2. file.config \in Configs
    BY <1>0 DEF Files
  <2> QED BY <1>0, <1>2, <2>1, <2>2 DEF OpenRegistry, SetupTypeOK, WizardInv, WizardPcs, Setting
<1>3. ASSUME NEW line \in Texts \cup {NoText}, EnterID(line)
      PROVE  SetupTypeOK' /\ WizardInv'
  <2>1. PICK id \in Answer(wizard.config.id, line) :
           wizard' = [wizard EXCEPT !.pc = "secret", !.config.id = id]
    BY <1>3 DEF EnterID
  <2>2. id \in Texts /\ id # NoText
    BY <1>0, SetupAssumption DEF Answer, Configs
  <2>3. wizard'.pc = "secret" /\ wizard'.config.id = id
        /\ wizard' \in [pc: WizardPcs, config: Configs]
    BY <1>0, <2>1, <2>2 DEF Configs, WizardPcs
  <2> QED BY <1>0, <1>3, <2>2, <2>3 DEF EnterID, SetupTypeOK, WizardInv, Setting
<1>4. ASSUME NEW line \in Texts \cup {NoText}, EnterSecret(line)
      PROVE  SetupTypeOK' /\ WizardInv'
  <2>1. PICK secret \in Answer(wizard.config.secret, line) :
           wizard' = [wizard EXCEPT !.pc = "truncate", !.config.secret = secret]
    BY <1>4 DEF EnterSecret
  <2>2. secret \in Texts /\ secret # NoText
    BY <1>0, SetupAssumption DEF Answer, Configs
  <2>3. wizard'.pc = "truncate" /\ wizard'.config.secret = secret
        /\ wizard'.config.id = wizard.config.id
        /\ wizard' \in [pc: WizardPcs, config: Configs]
    BY <1>0, <2>1, <2>2 DEF Configs, WizardPcs
  <2>4. Validate(wizard'.config)
    BY <1>0, <1>4, <2>2, <2>3 DEF EnterSecret, WizardInv, Validate
  <2> QED BY <1>0, <1>4, <2>3, <2>4 DEF EnterSecret, SetupTypeOK, WizardInv, Setting
<1>5. ASSUME NEW pc \in WizardPcs, Continue(pc)
      PROVE  /\ wizard'.pc = pc /\ wizard'.config = wizard.config
             /\ wizard' \in [pc: WizardPcs, config: Configs]
  BY <1>0, <1>5 DEF Continue
<1>6. NoConfig \in Configs
  BY DEF NoConfig, Configs
<1>7. CASE Truncate
  <2>1. tmp' \in Files
    BY <1>6, <1>7 DEF Truncate, TornFile, Files
  <2>2. wizard'.pc = "write" /\ wizard'.config = wizard.config
        /\ wizard' \in [pc: WizardPcs, config: Configs]
    BY <1>5, <1>7 DEF Truncate, WizardPcs
  <2> QED BY <1>0, <1>7, <2>1, <2>2 DEF Truncate, SetupTypeOK, WizardInv, Setting
<1>8. CASE Write
  <2>1. tmp' \in Files /\ tmp'.state = "whole" /\ tmp'.config = wizard.config
    BY <1>0, <1>8 DEF Write, Files
  <2>2. wizard'.pc = "rename" /\ wizard'.config = wizard.config
        /\ wizard' \in [pc: WizardPcs, config: Configs]
    BY <1>5, <1>8 DEF Write, WizardPcs
  <2> QED BY <1>0, <1>8, <2>1, <2>2 DEF Write, SetupTypeOK, WizardInv, Setting
<1>9. CASE Rename
  <2>1. file' = tmp /\ tmp' = NoFile /\ NoFile \in Files
    BY <1>6, <1>9 DEF Rename, NoFile, Files
  <2>2. wizard'.pc = "open" /\ wizard'.config = wizard.config
        /\ wizard' \in [pc: WizardPcs, config: Configs]
    BY <1>5, <1>9 DEF Rename, WizardPcs
  <2>3. file'.state = "whole" /\ file'.config = wizard.config /\ Validate(wizard.config)
    BY <1>0, <1>9, <2>1 DEF Rename, WizardInv, SetupTypeOK, Setting
  <2> QED BY <1>0, <1>9, <2>1, <2>2, <2>3 DEF Rename, SetupTypeOK, WizardInv, Setting
<1>10. CASE OpenStore
  <2>1. wizard'.pc = "message" /\ wizard'.config = wizard.config
        /\ wizard' \in [pc: WizardPcs, config: Configs]
    BY <1>5, <1>10 DEF OpenStore, WizardPcs
  <2> QED BY <1>0, <1>10, <2>1 DEF OpenStore, SetupTypeOK, WizardInv, Setting
<1>11. CASE SeePairing
  BY <1>0, <1>11 DEF SeePairing, setupVars, SetupTypeOK, WizardInv, Setting
<1>12. CASE Complete
  <2>1. wizard'.pc = "complete" /\ wizard'.config = wizard.config
        /\ wizard' \in [pc: WizardPcs, config: Configs]
    BY <1>5, <1>12 DEF Complete, WizardPcs
  <2>2. Ready
    BY <1>12, SetupAssumption DEF Complete, Ready, SetupInv, KeyInv, At
  <2> QED BY <1>0, <1>1, <1>12, <2>1, <2>2 DEF Complete, SetupTypeOK, WizardInv, Setting
<1>13. CASE Abort
  <2>1. wizard'.pc = "idle" /\ wizard' \in [pc: WizardPcs, config: Configs]
    BY <1>6, <1>13 DEF Abort, NoWizard, WizardPcs
  <2> QED BY <1>0, <1>13, <2>1 DEF Abort, SetupTypeOK, WizardInv, Setting
<1>14. ASSUME NEW c \in Clients, Load(c) \/ Close(c) \/ Pair(c)
      PROVE  SetupTypeOK' /\ WizardInv'
  <2>1. UNCHANGED <<file, tmp, wizard>> /\ opened' \in SUBSET (Clients \ {Wizard})
    BY <1>0, <1>14 DEF Load, Close, Pair, setupVars
  <2> QED BY <1>0, <1>1, <2>1 DEF SetupTypeOK, WizardInv, Setting
<1>15. CASE UNCHANGED allVars
  BY <1>0, <1>1, <1>15 DEF allVars, setupVars, SetupTypeOK, WizardInv, Setting
<1> QED
  BY <1>2, <1>3, <1>4, <1>7, <1>8, <1>9, <1>10, <1>11, <1>12, <1>13, <1>14, <1>15 DEF SetupNext

-----------------------------------------------------------------------------
\* setup, start and serve share the database without doing anything to it that
\* Pairing does not allow: its theorems hold of the whole.
THEOREM SetupImplementsPairing == SetupSpec => Spec
<1>1. SetupInit => Init
  BY DEF SetupInit
<1> QED BY <1>1, SetupStart, SetupStep, SetupStepMaps, PTL DEF SetupSpec, Spec

\* The wizard's values and the files hold what their types say, and only a valid
\* configuration is written.
THEOREM SetupTypeCorrect == SetupSpec => []SetupTypeOK
<1>1. SetupInv => SetupTypeOK
  BY DEF SetupInv
<1> QED BY <1>1, SetupStart, SetupStep, PTL DEF SetupSpec

\* The configuration file is complete or not there, wherever saveLocked stops.
THEOREM ConfigStaysWhole == SetupSpec => []ConfigWhole
<1>1. SetupInv => ConfigWhole
  BY DEF SetupInv, WizardInv, ConfigWhole
<1> QED BY <1>1, SetupStart, SetupStep, PTL DEF SetupSpec

\* After a setup without an error start finds a valid configuration and a key.
THEOREM SetupLeavesAll == SetupSpec => []SetupSuffices
<1>1. SetupInv => SetupSuffices
  BY DEF SetupInv, WizardInv, SetupSuffices, Setting, Ready
<1> QED BY <1>1, SetupStart, SetupStep, PTL DEF SetupSpec
=============================================================================
