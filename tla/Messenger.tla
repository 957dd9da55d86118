----------------------------- MODULE Messenger -----------------------------
(***************************************************************************)
(* The Feishu messenger (internal/httpserver/messenger.go): any number of  *)
(* goroutines send through one client, which keeps an access token until   *)
(* shortly before it expires.  The mutex is held for the lookup and for    *)
(* the store, not for the request in between, so several goroutines may    *)
(* fetch a token at the same time and store what they got in any order.    *)
(*                                                                         *)
(* Time is counted in ticks.  A request takes at most Timeout ticks, the   *)
(* timeout of the http.Client; the code around it takes none.  Feishu is   *)
(* external: it hands out its newest token as long as that has MinLife     *)
(* ticks left, or a new one, and an old token stays valid until it dies.   *)
(***************************************************************************)
EXTENDS Naturals, Sequences

CONSTANTS Senders,
          Timeout,    \* httpClient.Timeout
          Margin,     \* the 60 seconds taken off a token's life
          Lifetime,   \* of a new token
          MinLife,    \* the shortest life Feishu gives away
          MaxClock, MaxTokens

ASSUME MessengerAssumption ==
  /\ Timeout \in Nat \ {0} /\ MaxClock \in Nat /\ MaxTokens \in Nat
  /\ Lifetime \in Nat /\ MinLife \in Nat
\* Timeouts of 15 seconds, 60 seconds off, and lives of half an hour and more.
ASSUME LifeAssumption ==
  /\ Margin \in Nat /\ Margin >= 2 * Timeout
  /\ MinLife > 2 * Timeout /\ Lifetime >= MinLife

VARIABLES clock,
          cached,   \* LarkClient.token and tokenExpiry; token 0 is none
          dies,     \* Feishu: when each token issued dies
          sender    \* goroutine-local state

messengerVars == <<clock, cached, dies, sender>>

SenderPcs == {"idle", "fetch", "answered", "send"}

\* since: when the request under way was made; expire: of the answer.
SenderRecords == [pc: SenderPcs, token: Nat, since: Nat, expire: Nat]

Quiet == [pc |-> "idle", token |-> 0, since |-> 0, expire |-> 0]

MessengerTypeOK ==
  /\ clock \in 0..MaxClock
  /\ cached \in [token: Nat, expiry: Nat]
  /\ dies \in Seq(Nat)
  /\ sender \in [Senders -> SenderRecords]
  /\ \A s \in Senders : sender[s].token <= Len(dies)
  /\ \A s \in Senders : sender[s].pc \in {"answered", "send"} => sender[s].token > 0

MessengerInit ==
  /\ clock = 0
  /\ cached = [token |-> 0, expiry |-> 0]
  /\ dies = <<>>
  /\ sender = [s \in Senders |-> Quiet]

Alive(token) == clock < dies[token]

Sending(s, token) ==
  sender' = [sender EXCEPT ![s] = [pc |-> "send", token |-> token, since |-> clock,
                                   expire |-> 0]]

\* tenantAccessToken up to its first unlock; then the message or the fetch.
Call(s) ==
  /\ sender[s].pc = "idle"
  /\ IF cached.token # 0 /\ clock < cached.expiry
       THEN Sending(s, cached.token)
       ELSE sender' = [sender EXCEPT ![s] = [pc |-> "fetch", token |-> 0, since |-> clock,
                                             expire |-> 0]]
  /\ UNCHANGED <<clock, cached, dies>>

\* Feishu: a token and the life it has left, on its way back.
Answer(s, token, expire) ==
  sender' = [sender EXCEPT ![s] = [pc |-> "answered", token |-> token, since |-> @.since,
                                   expire |-> expire]]

Issue(s) ==
  /\ sender[s].pc = "fetch"
  /\ \/ /\ dies # <<>> /\ dies[Len(dies)] >= clock + MinLife
        /\ Answer(s, Len(dies), dies[Len(dies)] - clock)
        /\ UNCHANGED dies
     \/ /\ Len(dies) < MaxTokens
        /\ dies' = Append(dies, clock + Lifetime)
        /\ Answer(s, Len(dies) + 1, Lifetime)
  /\ UNCHANGED <<clock, cached>>

\* Mutant: the token is kept for as long as Feishu says.
KeepWithoutMargin(s, next) ==
  /\ sender[s].pc = "answered"
  /\ cached' = [token |-> sender[s].token, expiry |-> clock + sender[s].expire]
  /\ IF next = "send" THEN Sending(s, sender[s].token)
                      ELSE sender' = [sender EXCEPT ![s] = Quiet]
  /\ UNCHANGED <<clock, dies>>

\* The answer has arrived: it is kept, whatever is kept already, from now on for
\* its life less the margin.  The caller goes on to send, or has all it wanted.
KeepToken(s, next) ==
  /\ sender[s].pc = "answered"
  /\ LET expiry == clock + sender[s].expire
     IN cached' = [token |-> sender[s].token,
                   expiry |-> IF expiry > Margin THEN expiry - Margin ELSE 0]
  /\ IF next = "send" THEN Sending(s, sender[s].token)
                      ELSE sender' = [sender EXCEPT ![s] = Quiet]
  /\ UNCHANGED <<clock, dies>>

\* The message is delivered, and the call returns.
Deliver(s) ==
  /\ sender[s].pc = "send"
  /\ sender' = [sender EXCEPT ![s] = Quiet]
  /\ UNCHANGED <<clock, cached, dies>>

\* The call returns an error: a refusal, a timeout, the end of its context.
SendFails(s) ==
  /\ sender[s].pc # "idle"
  /\ sender' = [sender EXCEPT ![s] = Quiet]
  /\ UNCHANGED <<clock, cached, dies>>

\* Requests that are out of time end before time goes on.
Tick ==
  /\ clock < MaxClock
  /\ \A s \in Senders : sender[s].pc # "idle" => clock < sender[s].since + Timeout
  /\ clock' = clock + 1
  /\ UNCHANGED <<cached, dies, sender>>

\* A message goes out with a token that is alive when Feishu reads it: no
\* request that was in time carries a token that has died in the cache, in the
\* hands of its sender, or because an older answer was stored over a newer one.
TokenAlive == \A s \in Senders : sender[s].pc = "send" => Alive(sender[s].token)
=============================================================================
