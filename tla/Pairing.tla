------------------------------ MODULE Pairing ------------------------------
(***************************************************************************)
(* Pairing with the first user (internal/store/store.go): the tables       *)
(* registered_users and bootstrap_pairing, the transactions that issue and *)
(* consume the pairing key, and the message with the key that serve,       *)
(* start and setup ask for.                                                *)
(*                                                                         *)
(* The database file is shared by the serving process and the command line *)
(* tools, so transactions of different processes interleave.  SQLite gives *)
(* a transaction a shared lock with its first read, which keeps others     *)
(* from committing; the one write lock with its first write; and a commit  *)
(* when nobody else reads.  A transaction that gets no lock in time is     *)
(* rolled back, as is one whose process dies.  Clients of one process      *)
(* share a connection, which only takes interleavings away.                *)
(***************************************************************************)
EXTENDS Naturals, FiniteSets

CONSTANTS Clients,   \* goroutines of the processes that open the database
          Users, None,
          MaxKeys    \* bound on the calls of RandomHex

ASSUME PairingAssumption == None \notin Users /\ MaxKeys \in Nat

VARIABLES users,     \* active rows of registered_users, committed
          pairing,   \* row 1 of bootstrap_pairing, committed
          client,    \* the transaction of each client, with what it sees
          issued,    \* keys made so far; the n-th key is n
          printed    \* keys shown to the operator (history)

vars == <<users, pairing, client, issued, printed>>

\* Key 0 stands for no row; an empty key in a row behaves the same.
Rows == [key: Nat, consumed: BOOLEAN]
NoRow == [key |-> 0, consumed |-> FALSE]

\* A client calls BootstrapMessage, or RegisterFirstUserWithBootstrap.
Operations == {"message", "register"}

Pcs == {"idle", "seed", "decide", "consume", "commit", "count", "key"}

ClientRecords == [pc: Pcs, op: Operations, user: Users \cup {None}, key: Nat,
                  writing: BOOLEAN, users: SUBSET Users, pairing: Rows]

NoClient == [pc |-> "idle", op |-> "message", user |-> None, key |-> 0,
             writing |-> FALSE, users |-> {}, pairing |-> NoRow]

TypeOK ==
  /\ users \in SUBSET Users
  /\ pairing \in Rows
  /\ client \in [Clients -> ClientRecords]
  /\ issued \in Nat
  /\ printed \in SUBSET Nat

Init ==
  /\ users = {}
  /\ pairing = NoRow
  /\ client = [c \in Clients |-> NoClient]
  /\ issued = 0
  /\ printed = {}

At(c, pc) == client[c].pc = pc
Done(c) == client' = [client EXCEPT ![c] = NoClient]

\* Mutant: the reads do not belong to the transaction.
WritesOnly(c) == client[c].writing

InTransaction(c) == client[c].pc \in {"seed", "decide", "consume", "commit"}

NobodyElseWrites(c) == \A d \in Clients \ {c} : ~client[d].writing

Usable(row) == row.key # 0 /\ ~row.consumed

-----------------------------------------------------------------------------
(* The transactions.                                                       *)

\* Mutant: every call makes a key as long as there is no user.
BeginAfresh(c, op, u, k) ==
  /\ At(c, "idle")
  /\ client' = [client EXCEPT ![c] =
       [pc |-> IF users = {} THEN "seed" ELSE "decide",
        op |-> op, user |-> u, key |-> k, writing |-> FALSE,
        users |-> users, pairing |-> pairing]]
  /\ UNCHANGED <<users, pairing, issued, printed>>

\* BEGIN and the reads of ensureBootstrapPairingTx.
Begin(c, op, u, k) ==
  /\ At(c, "idle")
  /\ client' = [client EXCEPT ![c] =
       [pc |-> IF users = {} /\ ~Usable(pairing) THEN "seed" ELSE "decide",
        op |-> op, user |-> u, key |-> k, writing |-> FALSE,
        users |-> users, pairing |-> pairing]]
  /\ UNCHANGED <<users, pairing, issued, printed>>

\* The INSERT or UPDATE of a new key.
Seed(c) ==
  /\ At(c, "seed")
  /\ NobodyElseWrites(c)
  /\ issued < MaxKeys
  /\ issued' = issued + 1
  /\ client' = [client EXCEPT ![c] =
       [@ EXCEPT !.pc = "decide", !.writing = TRUE,
                 !.pairing = [key |-> issued + 1, consumed |-> FALSE]]]
  /\ UNCHANGED <<users, pairing, printed>>

Accepts(c) == /\ client[c].users = {}
              /\ Usable(client[c].pairing)
              /\ client[c].key = client[c].pairing.key

\* Mutant: the sender's open id does not get into the row.
RegisterNobody(c) ==
  /\ At(c, "decide") /\ client[c].op = "register"
  /\ Accepts(c)
  /\ NobodyElseWrites(c)
  /\ client' = [client EXCEPT ![c] =
       [@ EXCEPT !.pc = "consume", !.writing = TRUE, !.users = {None}]]
  /\ UNCHANGED <<users, pairing, issued, printed>>

RegisterUser(c) ==
  /\ At(c, "decide") /\ client[c].op = "register"
  /\ Accepts(c)
  /\ NobodyElseWrites(c)
  /\ client' = [client EXCEPT ![c] =
       [@ EXCEPT !.pc = "consume", !.writing = TRUE, !.users = {client[c].user}]]
  /\ UNCHANGED <<users, pairing, issued, printed>>

\* Mutant: the key stays usable.
SkipConsume(c) ==
  /\ At(c, "consume")
  /\ client' = [client EXCEPT ![c].pc = "commit"]
  /\ UNCHANGED <<users, pairing, issued, printed>>

Consume(c) ==
  /\ At(c, "consume")
  /\ client' = [client EXCEPT ![c] =
       [@ EXCEPT !.pc = "commit", !.pairing = [key |-> client[c].pairing.key,
                                               consumed |-> TRUE]]]
  /\ UNCHANGED <<users, pairing, issued, printed>>

\* Paired already, closed, unavailable, or another key: rolled back, with the
\* key Seed has written.
Refuse(c) ==
  /\ At(c, "decide") /\ client[c].op = "register"
  /\ ~Accepts(c)
  /\ Done(c)
  /\ UNCHANGED <<users, pairing, issued, printed>>

Commit(c) ==
  /\ At(c, "commit") \/ (At(c, "decide") /\ client[c].op = "message")
  /\ IF client[c].writing
       THEN /\ \A d \in Clients \ {c} : ~InTransaction(d)
            /\ users' = client[c].users
            /\ pairing' = client[c].pairing
       ELSE UNCHANGED <<users, pairing>>
  /\ IF client[c].op = "message"
       THEN client' = [client EXCEPT ![c] = [NoClient EXCEPT !.pc = "count"]]
       ELSE Done(c)
  /\ UNCHANGED <<issued, printed>>

\* A statement fails, a lock does not come in time, or the process dies.
Rollback(c) ==
  /\ ~At(c, "idle")
  /\ Done(c)
  /\ UNCHANGED <<users, pairing, issued, printed>>

-----------------------------------------------------------------------------
(* BootstrapMessage goes on with two statements of their own.              *)

CountUsers(c) ==
  /\ At(c, "count")
  /\ IF users = {} THEN client' = [client EXCEPT ![c].pc = "key"] ELSE Done(c)
  /\ UNCHANGED <<users, pairing, issued, printed>>

ShowKey(c) ==
  /\ At(c, "key")
  /\ printed' = IF Usable(pairing) THEN printed \cup {pairing.key} ELSE printed
  /\ Done(c)
  /\ UNCHANGED <<users, pairing, issued>>

Next ==
  \E c \in Clients :
    \/ Begin(c, "message", None, 0)
    \/ \E u \in Users, k \in 1..MaxKeys : Begin(c, "register", u, k)
    \/ Seed(c) \/ RegisterUser(c) \/ Consume(c) \/ Refuse(c) \/ Commit(c) \/ Rollback(c)
    \/ CountUsers(c) \/ ShowKey(c)

Spec == Init /\ [][Next]_vars

-----------------------------------------------------------------------------
(* Properties.                                                             *)

\* The first user to pair is the only one there ever is, whatever registrations
\* of several chats and processes overlap.
FirstUserStays ==
  [][/\ users # {} => users' = users
     /\ users = {} => Cardinality(users') <= 1]_vars

\* The key is used up exactly when a user is registered: the two statements take
\* effect together, also when the process dies between them.
ConsumedIffRegistered == users # {} <=> pairing.consumed

\* The key in a message the operator was shown registers until somebody has:
\* no later start, setup or failed registration replaces it.
PrintedKeyWorks ==
  users = {} => \A k \in printed : Usable(pairing) /\ pairing.key = k
=============================================================================
