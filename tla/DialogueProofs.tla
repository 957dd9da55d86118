--------------------------- MODULE DialogueProofs ---------------------------
(***************************************************************************)
(* Proofs about Dialogue: no message carries a token that has died, for    *)
(* every number of senders and every timeout, margin and life within       *)
(* LifeAssumption; whoever waits for the websocket learns that it is       *)
(* connected, for every number of goroutines that connect; a card shows    *)
(* all of its question and its buttons are found, for all questions; and   *)
(* the types, for the whole.                                               *)
(***************************************************************************)
EXTENDS Dialogue, SequenceTheorems, TLAPS

-----------------------------------------------------------------------------
(* The token.                                                              *)

\* A sender's request is in time, and what it holds outlives it: the answer by
\* the rest of the life Feishu gives away, the message by its own timeout.
SenderInv(s) ==
  /\ sender[s].pc # "idle" => sender[s].since <= clock /\ clock <= sender[s].since + Timeout
  /\ sender[s].pc = "answered" =>
       /\ dies[sender[s].token] >= sender[s].since + MinLife
       /\ dies[sender[s].token] >= sender[s].since + sender[s].expire
  /\ sender[s].pc = "send" => dies[sender[s].token] > sender[s].since + Timeout

\* What is kept is given up early enough for the request that fetched it to have
\* been slow and for the one that sends with it to be slow again.
CachedInv ==
  /\ cached.token <= Len(dies)
  /\ cached.token # 0 /\ cached.expiry > 0 =>
       dies[cached.token] + Timeout >= cached.expiry + Margin

TokenTypeOK ==
  /\ clock \in Nat
  /\ cached \in [token: Nat, expiry: Nat]
  /\ dies \in Seq(Nat)
  /\ sender \in [Senders -> SenderRecords]
  /\ \A s \in Senders : sender[s].token <= Len(dies)
  /\ \A s \in Senders : sender[s].pc \in {"answered", "send"} => sender[s].token > 0

TokenInv == TokenTypeOK /\ CachedInv /\ \A s \in Senders : SenderInv(s)

LEMMA TokenInit == Init => TokenInv
  BY MessengerAssumption, LifeAssumption
     DEF Init, MessengerInit, TokenInv, TokenTypeOK, CachedInv, SenderInv,
         SenderRecords, SenderPcs, Quiet

\* What a sender is sure of does not depend on the other senders' records.
LEMMA OthersKeep ==
  ASSUME NEW s \in Senders, TokenInv,
         NEW record \in SenderRecords, record.token <= Len(dies),
         record.pc \in {"answered", "send"} => record.token > 0,
         sender' = [sender EXCEPT ![s] = record],
         UNCHANGED <<clock, dies>>,
         cached' \in [token: Nat, expiry: Nat], CachedInv', SenderInv(s)'
  PROVE  TokenInv'
  <1>1. TokenTypeOK'
    BY DEF TokenInv, TokenTypeOK
  <1>2. ASSUME NEW t \in Senders PROVE SenderInv(t)'
    <2>1. CASE t = s
      BY <2>1
    <2>2. CASE t # s
      <3>1. sender'[t] = sender[t]
        BY <2>2 DEF TokenInv, TokenTypeOK
      <3> QED BY <3>1 DEF TokenInv, SenderInv
    <2> QED BY <2>1, <2>2
  <1> QED BY <1>1, <1>2 DEF TokenInv

\* The record of a sender whose request goes out.
LEMMA RecordOK ==
  ASSUME NEW place \in SenderPcs, NEW token \in Nat, NEW since \in Nat, NEW expire \in Nat
  PROVE  [pc |-> place, token |-> token, since |-> since, expire |-> expire] \in SenderRecords
  BY DEF SenderRecords

LEMMA TokenCall ==
  ASSUME NEW s \in Senders, TokenInv, Call(s)
  PROVE  TokenInv'
  <1>1. CASE cached.token # 0 /\ clock < cached.expiry
    <2> DEFINE record == [pc |-> "send", token |-> cached.token, since |-> clock, expire |-> 0]
    <2>0. cached.token \in Nat /\ clock \in Nat /\ "send" \in SenderPcs
      BY DEF TokenInv, TokenTypeOK, SenderPcs
    <2>1. sender' = [sender EXCEPT ![s] = record]
      BY <1>1 DEF Call, Sending
    <2>2. /\ record \in SenderRecords /\ record.token <= Len(dies) /\ record.token > 0
          /\ record.pc = "send" /\ record.token = cached.token /\ record.since = clock
      BY <1>1, <2>0, RecordOK DEF TokenInv, CachedInv
    <2>3. dies[cached.token] \in Nat
      BY <1>1 DEF TokenInv, TokenTypeOK, CachedInv
    <2>4. dies[cached.token] > clock + Timeout
      BY <1>1, <2>3, MessengerAssumption, LifeAssumption DEF TokenInv, TokenTypeOK, CachedInv
    <2>5. sender'[s] = record
      BY <2>1 DEF TokenInv, TokenTypeOK
    <2>6. SenderInv(s)'
      BY <2>2, <2>4, <2>5, MessengerAssumption DEF SenderInv, TokenInv, TokenTypeOK, Call
    <2>7. CachedInv' /\ cached' \in [token: Nat, expiry: Nat]
      BY DEF TokenInv, TokenTypeOK, CachedInv, Call
    <2> HIDE DEF record
    <2> QED BY <2>1, <2>2, <2>6, <2>7, OthersKeep DEF Call
  <1>2. CASE ~(cached.token # 0 /\ clock < cached.expiry)
    <2> DEFINE record == [pc |-> "fetch", token |-> 0, since |-> clock, expire |-> 0]
    <2>0. clock \in Nat /\ "fetch" \in SenderPcs /\ 0 <= Len(dies)
      BY DEF TokenInv, TokenTypeOK, SenderPcs
    <2>1. sender' = [sender EXCEPT ![s] = record]
      BY <1>2 DEF Call
    <2>2. /\ record \in SenderRecords /\ record.token <= Len(dies)
          /\ record.pc = "fetch" /\ record.since = clock
      BY <2>0, RecordOK
    <2>3. sender'[s] = record
      BY <2>1 DEF TokenInv, TokenTypeOK
    <2>4. SenderInv(s)'
      BY <2>2, <2>3, MessengerAssumption DEF SenderInv, TokenInv, TokenTypeOK, Call
    <2>5. CachedInv' /\ cached' \in [token: Nat, expiry: Nat]
      BY DEF TokenInv, TokenTypeOK, CachedInv, Call
    <2> HIDE DEF record
    <2> QED BY <2>1, <2>2, <2>4, <2>5, OthersKeep DEF Call
  <1> QED BY <1>1, <1>2

\* An answer that is under way outlives the start of its request.
LEMMA LivesOn ==
  ASSUME NEW d \in Nat, NEW c \in Nat, NEW since \in Nat, NEW life \in Nat,
         since <= c, d >= c + life
  PROVE  d >= since + life /\ d >= since + (d - c)
  OBVIOUS

LEMMA TokenIssue ==
  ASSUME NEW s \in Senders, TokenInv, Issue(s)
  PROVE  TokenInv'
  <1> USE MessengerAssumption, LifeAssumption
  <1>0. /\ clock \in Nat /\ sender[s] \in SenderRecords /\ sender[s].pc = "fetch"
        /\ sender[s].since \in Nat /\ sender[s].since <= clock
        /\ clock <= sender[s].since + Timeout
        /\ dies \in Seq(Nat) /\ Len(dies) \in Nat
    BY DEF TokenInv, TokenTypeOK, SenderInv, Issue, SenderRecords
  <1>1. CASE /\ dies # <<>> /\ dies[Len(dies)] >= clock + MinLife
             /\ Answer(s, Len(dies), dies[Len(dies)] - clock)
             /\ UNCHANGED dies
    <2> DEFINE record == [pc |-> "answered", token |-> Len(dies), since |-> sender[s].since,
                          expire |-> dies[Len(dies)] - clock]
    <2>0. /\ Len(dies) > 0 /\ dies[Len(dies)] \in Nat /\ dies[Len(dies)] - clock \in Nat
          /\ "answered" \in SenderPcs
      BY <1>0, <1>1 DEF SenderPcs
    <2>1. sender' = [sender EXCEPT ![s] = record]
      BY <1>1 DEF Answer, TokenInv, TokenTypeOK
    <2>2. /\ record \in SenderRecords /\ record.token <= Len(dies) /\ record.token > 0
          /\ record.pc = "answered" /\ record.token = Len(dies)
          /\ record.since = sender[s].since /\ record.expire = dies[Len(dies)] - clock
      BY <1>0, <2>0, RecordOK
    <2>3. sender'[s] = record
      BY <2>1 DEF TokenInv, TokenTypeOK
    <2>4. dies' = dies /\ clock' = clock /\ cached' = cached
      BY <1>1 DEF Issue
    <2> HIDE DEF record
    <2>5. SenderInv(s)'
      <3>1. /\ dies[Len(dies)] >= sender[s].since + MinLife
            /\ dies[Len(dies)] >= sender[s].since + (dies[Len(dies)] - clock)
        BY <1>0, <1>1, <2>0, LivesOn
      <3> QED BY <1>0, <2>2, <2>3, <2>4, <3>1 DEF SenderInv
    <2>6. CachedInv' /\ cached' \in [token: Nat, expiry: Nat]
      BY <2>4 DEF TokenInv, TokenTypeOK, CachedInv
    <2> QED BY <2>1, <2>2, <2>4, <2>5, <2>6, OthersKeep
  <1>2. CASE /\ dies' = Append(dies, clock + Lifetime)
             /\ Answer(s, Len(dies) + 1, Lifetime)
    <2> DEFINE record == [pc |-> "answered", token |-> Len(dies) + 1,
                          since |-> sender[s].since, expire |-> Lifetime]
    <2>a. clock + Lifetime \in Nat
      BY <1>0
    <2>b. /\ dies' \in Seq(Nat) /\ Len(dies') = Len(dies) + 1
          /\ dies'[Len(dies) + 1] = clock + Lifetime
          /\ \A t \in 1..Len(dies) : dies'[t] = dies[t]
      BY <1>0, <1>2, <2>a, AppendProperties
    <2>0. /\ dies' \in Seq(Nat) /\ Len(dies') = Len(dies) + 1
          /\ dies'[Len(dies) + 1] = clock + Lifetime
          /\ \A t \in Nat : t > 0 /\ t <= Len(dies) => dies'[t] = dies[t]
          /\ clock' = clock /\ cached' = cached /\ "answered" \in SenderPcs
      BY <1>0, <2>b DEF SenderPcs, Issue
    <2>1. sender' = [sender EXCEPT ![s] = record]
      BY <1>2 DEF Answer, TokenInv, TokenTypeOK
    <2>2. /\ record \in SenderRecords /\ record.token = Len(dies) + 1
          /\ record.pc = "answered" /\ record.since = sender[s].since
          /\ record.expire = Lifetime
      BY <1>0, <2>0, RecordOK
    <2> HIDE DEF record
    <2>3. sender'[s] = record /\ \A t \in Senders \ {s} : sender'[t] = sender[t]
      BY <2>1 DEF TokenInv, TokenTypeOK
    <2>4. SenderInv(s)'
      <3>1. /\ clock + Lifetime >= sender[s].since + MinLife
            /\ clock + Lifetime >= sender[s].since + Lifetime
        BY <1>0
      <3> QED BY <1>0, <2>0, <2>2, <2>3, <3>1 DEF SenderInv
    <2>5. ASSUME NEW t \in Senders, t # s PROVE SenderInv(t)'
      <3>1. sender'[t] = sender[t] /\ sender[t].token \in Nat /\ sender[t].token <= Len(dies)
            /\ (sender[t].pc \in {"answered", "send"} => sender[t].token > 0)
        BY <2>3, <2>5 DEF TokenInv, TokenTypeOK, SenderRecords
      <3>2. sender[t].pc \in {"answered", "send"}
              => dies'[sender[t].token] = dies[sender[t].token]
        BY <1>0, <2>0, <3>1
      <3> QED BY <2>0, <3>1, <3>2 DEF TokenInv, SenderInv
    <2>6. CachedInv'
      <3>1. cached.token \in Nat /\ cached.token <= Len(dies)
        BY DEF TokenInv, TokenTypeOK, CachedInv
      <3>2. cached.token # 0 => dies'[cached.token] = dies[cached.token]
        <4> SUFFICES ASSUME cached.token # 0 PROVE dies'[cached.token] = dies[cached.token]
          OBVIOUS
        <4>1. cached.token > 0
          BY <3>1
        <4> QED BY <2>0, <3>1, <4>1
      <3>3. cached' = cached /\ Len(dies') = Len(dies) + 1 /\ Len(dies) \in Nat
        BY <1>0, <2>0
      <3>4. cached.token <= Len(dies')
        BY <3>1, <3>3
      <3> QED BY <3>2, <3>3, <3>4 DEF TokenInv, CachedInv
    <2>7. TokenTypeOK'
      <3>1. sender' \in [Senders -> SenderRecords]
        BY <2>1, <2>2 DEF TokenInv, TokenTypeOK
      <3>3. \A t \in Senders : sender[t].token \in Nat
        BY DEF TokenInv, TokenTypeOK, SenderRecords
      <3>2. ASSUME NEW t \in Senders
            PROVE  /\ sender'[t].token <= Len(dies')
                   /\ sender'[t].pc \in {"answered", "send"} => sender'[t].token > 0
        <4>1. CASE t = s
          BY <1>0, <2>0, <2>2, <2>3, <4>1
        <4>2. CASE t # s
          <5>1. sender'[t] = sender[t] /\ sender[t].token \in Nat
                /\ sender[t].token <= Len(dies)
                /\ (sender[t].pc \in {"answered", "send"} => sender[t].token > 0)
            BY <2>3, <4>2 DEF TokenInv, TokenTypeOK, SenderRecords
          <5> QED BY <1>0, <2>0, <5>1
        <4> QED BY <4>1, <4>2
      <3> QED BY <2>0, <3>1, <3>2 DEF TokenInv, TokenTypeOK
    <2> QED BY <2>4, <2>5, <2>6, <2>7 DEF TokenInv
  <1> QED BY <1>1, <1>2 DEF Issue

\* The record of a sender that is through.
LEMMA TokenQuiet ==
  ASSUME NEW s \in Senders, TokenInv,
         sender' = [sender EXCEPT ![s] = Quiet], UNCHANGED <<clock, dies>>,
         cached' \in [token: Nat, expiry: Nat], CachedInv'
  PROVE  TokenInv'
  <1>1. Quiet \in SenderRecords /\ Quiet.token <= Len(dies) /\ Quiet.pc = "idle"
    BY DEF Quiet, SenderRecords, SenderPcs, TokenInv, TokenTypeOK
  <1>2. SenderInv(s)'
    <2>1. sender'[s] = Quiet
      BY DEF TokenInv, TokenTypeOK
    <2> QED BY <1>1, <2>1 DEF SenderInv
  <1> QED BY <1>1, <1>2, OthersKeep

LEMMA TokenEnd ==
  ASSUME NEW s \in Senders, TokenInv, Deliver(s) \/ SendFails(s)
  PROVE  TokenInv'
  <1>1. cached' \in [token: Nat, expiry: Nat] /\ CachedInv'
    BY DEF TokenInv, TokenTypeOK, CachedInv, Deliver, SendFails
  <1> QED BY <1>1, TokenQuiet DEF Deliver, SendFails

\* The margin covers the two requests.
LEMMA MarginCovers ==
  ASSUME NEW c \in Nat, NEW d \in Nat, NEW since \in Nat, NEW expire \in Nat,
         c <= since + Timeout, d >= since + MinLife, d >= since + expire,
         c + expire > Margin
  PROVE  /\ c + expire - Margin \in Nat
         /\ d + Timeout >= (c + expire - Margin) + Margin
         /\ d > c + Timeout
  BY MessengerAssumption, LifeAssumption

LEMMA LifeCovers ==
  ASSUME NEW c \in Nat, NEW d \in Nat, NEW since \in Nat,
         c <= since + Timeout, d >= since + MinLife
  PROVE  d > c + Timeout
  BY MessengerAssumption, LifeAssumption

LEMMA TokenKeep ==
  ASSUME NEW s \in Senders, NEW next \in {"send", "idle"}, TokenInv, KeepToken(s, next)
  PROVE  TokenInv'
  <1> DEFINE token == sender[s].token
             expiry == clock + sender[s].expire
             kept == IF expiry > Margin THEN expiry - Margin ELSE 0
  <1>0. /\ clock \in Nat /\ token \in Nat /\ token > 0 /\ token <= Len(dies)
        /\ sender[s].since \in Nat /\ sender[s].expire \in Nat
        /\ clock <= sender[s].since + Timeout
        /\ dies[token] >= sender[s].since + MinLife
        /\ dies[token] >= sender[s].since + sender[s].expire
        /\ sender \in [Senders -> SenderRecords]
    BY DEF TokenInv, TokenTypeOK, SenderInv, KeepToken, SenderRecords
  <1>1. dies[token] \in Nat
    BY <1>0 DEF TokenInv, TokenTypeOK
  <1>2. cached' = [token |-> token, expiry |-> kept] /\ dies' = dies /\ clock' = clock
    BY DEF KeepToken
  <1>3. kept \in Nat /\ (kept > 0 => dies[token] + Timeout >= kept + Margin)
    <2>1. CASE expiry > Margin
      <3>1. /\ clock + sender[s].expire - Margin \in Nat
            /\ dies[token] + Timeout >= (clock + sender[s].expire - Margin) + Margin
        <4> HIDE DEF token
        <4> QED BY <1>0, <1>1, <2>1, MarginCovers
      <3>2. kept = clock + sender[s].expire - Margin
        BY <1>0, <2>1, LifeAssumption
      <3> HIDE DEF kept, token
      <3> QED BY <3>1, <3>2
    <2>2. CASE ~(expiry > Margin)
      BY <2>2
    <2> QED BY <2>1, <2>2
  <1>4. dies[token] > clock + Timeout
    BY <1>0, <1>1, LifeCovers
  <1> HIDE DEF kept, token, expiry
  <1>5. cached' \in [token: Nat, expiry: Nat] /\ cached'.token = token /\ cached'.expiry = kept
    BY <1>0, <1>2, <1>3
  <1>6. CachedInv'
    BY <1>0, <1>2, <1>3, <1>5 DEF CachedInv
  <1>7. CASE next = "send"
    <2> DEFINE record == [pc |-> "send", token |-> token, since |-> clock, expire |-> 0]
    <2>1. record \in SenderRecords
      BY <1>0, RecordOK DEF SenderPcs
    <2>2. /\ record.token = token /\ record.pc = "send" /\ record.since = clock
          /\ sender' = [sender EXCEPT ![s] = record]
      BY <1>7 DEF KeepToken, Sending, token
    <2> HIDE DEF record
    <2>3. sender'[s] = record
      BY <1>0, <2>2
    <2>4. SenderInv(s)'
      BY <1>0, <1>2, <1>4, <2>2, <2>3, MessengerAssumption DEF SenderInv
    <2> QED BY <1>0, <1>2, <1>5, <1>6, <2>1, <2>2, <2>4, OthersKeep
  <1>8. CASE next = "idle"
    BY <1>2, <1>5, <1>6, <1>8, TokenQuiet DEF KeepToken
  <1> QED BY <1>7, <1>8

LEMMA TokenTick ==
  ASSUME TokenInv, Tick
  PROVE  TokenInv'
  <1>1. TokenTypeOK' /\ CachedInv'
    <2>1. clock' = clock + 1 /\ clock + 1 \in Nat /\ UNCHANGED <<cached, dies, sender>>
      BY DEF TokenInv, TokenTypeOK, Tick
    <2> QED BY <2>1 DEF TokenInv, TokenTypeOK, CachedInv
  <1>2. ASSUME NEW s \in Senders PROVE SenderInv(s)'
    <2>1. sender[s].since \in Nat /\ clock \in Nat
      BY DEF TokenInv, TokenTypeOK, SenderRecords
    <2>2. sender[s].pc # "idle" => clock < sender[s].since + Timeout
      BY DEF Tick
    <2>3. sender' = sender /\ dies' = dies /\ clock' = clock + 1
      BY DEF Tick
    <2>4. SenderInv(s)
      BY DEF TokenInv
    <2>5. sender[s].pc # "idle" => sender[s].since <= clock' /\ clock' <= sender[s].since + Timeout
      BY <2>1, <2>2, <2>3, <2>4, MessengerAssumption DEF SenderInv
    <2> QED BY <2>3, <2>4, <2>5 DEF SenderInv
  <1> QED BY <1>1, <1>2 DEF TokenInv

LEMMA TokenSame ==
  ASSUME TokenInv, UNCHANGED messengerVars
  PROVE  TokenInv'
  BY DEF TokenInv, TokenTypeOK, CachedInv, SenderInv, messengerVars

LEMMA TokenNext ==
  ASSUME TokenInv, [Next]_vars
  PROVE  TokenInv'
  <1>1. CASE UNCHANGED vars
    BY <1>1, TokenSame DEF vars
  <1>2. ASSUME NEW s \in Others, Validate(s) PROVE TokenInv'
    BY <1>2, TokenCall DEF Validate, Others
  <1>3. ASSUME NEW s \in Others, Validated(s) PROVE TokenInv'
    BY <1>3, TokenKeep DEF Validated, Others
  <1>4. ASSUME NEW s \in Others, NotValidated(s) PROVE TokenInv'
    BY <1>4, TokenEnd DEF NotValidated, Others
  <1>5. ASSUME NEW s \in Others, Text(s) PROVE TokenInv'
    BY <1>5, TokenCall, TokenEnd DEF Text, Others
  <1>6. CASE Connection
    BY <1>6, TokenSame DEF Connection
  <1>7. CASE Job
    <2>1. CASE SendCard
      BY <2>1, TokenCall, DialogueAssumption DEF SendCard
    <2>2. CASE CardArrives \/ CardFails
      BY <2>2, TokenEnd, DialogueAssumption DEF CardArrives, CardFails
    <2>3. CASE Receive \/ ClaudeAnswers \/ SaveQuestion \/ Resume
      BY <2>3, TokenSame DEF Receive, ClaudeAnswers, SaveQuestion, Resume
    <2>4. ASSUME NEW q \in Questions, ClaudeAsks(q) PROVE TokenInv'
      BY <2>4, TokenSame DEF ClaudeAsks
    <2>5. ASSUME NEW card \in cards, NEW i \in DOMAIN card.card.buttons, Click(card, i)
          PROVE  TokenInv'
      BY <2>5, TokenSame DEF Click
    <2> QED BY <1>7, <2>1, <2>2, <2>3, <2>4, <2>5 DEF Job
  <1>8. CASE Feishu
    <2>1. ASSUME NEW s \in Senders, Issue(s) PROVE TokenInv'
      BY <2>1, TokenIssue
    <2>2. ASSUME NEW s \in Senders, KeepToken(s, "send") PROVE TokenInv'
      BY <2>2, TokenKeep
    <2>3. CASE Tick
      BY <2>3, TokenTick
    <2> QED BY <1>8, <2>1, <2>2, <2>3 DEF Feishu
  <1> QED BY <1>1, <1>2, <1>3, <1>4, <1>5, <1>6, <1>7, <1>8 DEF Next

\* Every message goes out with a token that Feishu still takes, for any number
\* of senders that fetch tokens at the same time and store them in any order.
THEOREM LiveTokens == Spec => []TokenAlive
  <1>1. TokenInv => TokenAlive
    <2> SUFFICES ASSUME TokenInv, NEW s \in Senders, sender[s].pc = "send"
                 PROVE  clock < dies[sender[s].token]
      BY DEF TokenAlive, Alive
    <2>1. /\ clock \in Nat /\ sender[s].since \in Nat /\ sender[s].token \in Nat
          /\ sender[s].token > 0 /\ sender[s].token <= Len(dies)
          /\ clock <= sender[s].since + Timeout
          /\ dies[sender[s].token] > sender[s].since + Timeout
      BY DEF TokenInv, TokenTypeOK, SenderInv, SenderRecords
    <2>2. dies[sender[s].token] \in Nat
      BY <2>1 DEF TokenInv, TokenTypeOK
    <2> QED BY <2>1, <2>2, MessengerAssumption
  <1> QED BY TokenInit, TokenNext, <1>1, PTL DEF Spec

-----------------------------------------------------------------------------
(* The connection.                                                         *)

\* The channel is closed after ready is set, and until then by a goroutine that
\* is on its way to do so.
ReadyInv ==
  /\ logger \in [Loggers -> LoggerPcs]
  /\ ready /\ ~closed => \E g \in Loggers : logger[g] = "once"
  /\ closed => ready
  /\ \A g \in Loggers : logger[g] = "once" => ready
  /\ serve = "up" => ready

LEMMA ReadyInit == Init => ReadyInv
  BY DEF Init, LarkConnInit, ReadyInv, LoggerPcs

\* The goroutines of the SDK.
LEMMA LoggerStep ==
  ASSUME ReadyInv, NEW g \in Loggers, Connect(g) \/ MarkReady(g) \/ CloseReady(g)
  PROVE  ReadyInv'
  <1>1. CASE Connect(g)
    <2>1. /\ logger[g] = "idle" /\ logger' = [logger EXCEPT ![g] = "log"]
          /\ UNCHANGED <<ready, closed, serve>>
      BY <1>1 DEF Connect
    <2> QED BY <2>1 DEF ReadyInv, LoggerPcs
  <1>2. CASE MarkReady(g)
    <2>1. CASE ready
      <3>1. /\ logger[g] = "log" /\ logger' = [logger EXCEPT ![g] = "idle"]
            /\ ready' = TRUE /\ UNCHANGED <<closed, serve>>
        BY <1>2, <2>1 DEF MarkReady
      <3> QED BY <2>1, <3>1 DEF ReadyInv, LoggerPcs
    <2>2. CASE ~ready
      <3>1. /\ logger' = [logger EXCEPT ![g] = "once"]
            /\ ready' = TRUE /\ UNCHANGED <<closed, serve>>
        BY <1>2, <2>2 DEF MarkReady
      <3> QED BY <2>2, <3>1 DEF ReadyInv, LoggerPcs
    <2> QED BY <2>1, <2>2
  <1>3. CASE CloseReady(g)
    <2>1. /\ logger[g] = "once" /\ logger' = [logger EXCEPT ![g] = "idle"]
          /\ closed' = TRUE /\ UNCHANGED <<ready, serve>>
      BY <1>3 DEF CloseReady
    <2> QED BY <2>1 DEF ReadyInv, LoggerPcs
  <1> QED BY <1>1, <1>2, <1>3

\* serve and the websocket.
LEMMA ServeStep ==
  ASSUME ReadyInv, UNCHANGED <<ready, closed, logger>>,
         serve' = "up" => serve = "up" \/ ready
  PROVE  ReadyInv'
  BY DEF ReadyInv

LEMMA ReadyNext ==
  ASSUME ReadyInv, [Next]_vars
  PROVE  ReadyInv'
  <1>1. CASE UNCHANGED larkConnVars
    BY <1>1, ServeStep DEF larkConnVars
  <1>2. ASSUME NEW s \in Others, Validated(s) \/ NotValidated(s) PROVE ReadyInv'
    BY <1>2, ServeStep DEF Validated, NotValidated
  <1>3. CASE Connection
    <2>1. ASSUME NEW g \in Loggers, Connect(g) \/ MarkReady(g) \/ CloseReady(g) PROVE ReadyInv'
      BY <2>1, LoggerStep
    <2>2. CASE Disconnect \/ NotReady
      BY <2>2, ServeStep DEF Disconnect, NotReady
    <2>3. CASE WaitUntilReady
      BY <2>3, ServeStep DEF WaitUntilReady
    <2>4. CASE Woken
      BY <2>4, ServeStep DEF Woken, ReadyInv
    <2> QED BY <1>3, <2>1, <2>2, <2>3, <2>4 DEF Connection
  <1>4. ASSUME NEW s \in Others, Validate(s) \/ Text(s) PROVE UNCHANGED larkConnVars
    BY <1>4 DEF Validate, Text
  <1>5. CASE Job
    <2>1. UNCHANGED larkConnVars
      BY <1>5 DEF Job, Receive, ClaudeAsks, ClaudeAnswers, SaveQuestion, SendCard, CardArrives,
                  CardFails, Click, Resume
    <2> QED BY <1>1, <2>1
  <1>6. CASE Feishu
    BY <1>1, <1>6 DEF Feishu
  <1>7. CASE UNCHANGED vars
    BY <1>1, <1>7 DEF vars
  <1> QED BY <1>1, <1>2, <1>3, <1>4, <1>5, <1>6, <1>7 DEF Next

\* Whoever waits for the connection learns of it, for any number of goroutines
\* that log connections.
THEOREM ReadinessLearned == Spec => []ReadinessKept
  <1>1. ReadyInv => ReadinessKept
    BY DEF ReadyInv, ReadinessKept
  <1> QED BY ReadyInit, ReadyNext, <1>1, PTL DEF Spec

-----------------------------------------------------------------------------
(* The choice.                                                             *)

\* What validateRequesterConfirmation establishes of the choices.
Fit(choices) ==
  /\ choices \in Seq(Choices)
  /\ \A i \in DOMAIN choices : ~choices[i].id.upper
  /\ Distinct(choices)

\* Two ids that the worker tells apart FindChoice tells apart.
LEMMA SameId ==
  ASSUME NEW a \in Ids, NEW b \in Ids, ~a.upper, ~b.upper,
         EqualFold(TrimSpace(a), TrimSpace(b))
  PROVE  TrimSpace(a) = TrimSpace(b)
  BY DEF Ids, EqualFold, TrimSpace

LEMMA OneMatch ==
  ASSUME NEW choices, Fit(choices), NEW i \in DOMAIN choices
  PROVE  Matching(choices, choices[i].id) = {i} /\ FindChoice(choices, choices[i].id) = i
  <1>1. ASSUME NEW k \in DOMAIN choices PROVE choices[k].id \in Ids /\ ~choices[k].id.upper
    <2>1. choices[k] \in Choices
      BY DEF Fit
    <2> QED BY <2>1 DEF Fit, Choices
  <1>2. i \in Matching(choices, choices[i].id)
    BY DEF Matching, EqualFold
  <1>3. ASSUME NEW k \in Matching(choices, choices[i].id) PROVE k = i
    <2>1. k \in DOMAIN choices /\ EqualFold(TrimSpace(choices[k].id), TrimSpace(choices[i].id))
      BY <1>3 DEF Matching
    <2>2. TrimSpace(choices[k].id) = TrimSpace(choices[i].id)
      BY <1>1, <2>1, SameId
    <2> QED BY <2>1, <2>2 DEF Fit, Distinct
  <1>4. Matching(choices, choices[i].id) = {i}
    BY <1>2, <1>3
  <1>5. i \in Nat /\ i <= i
    BY DEF Fit
  <1>6. FindChoice(choices, choices[i].id) = CHOOSE k \in {i} : \A l \in {i} : k <= l
    BY <1>4 DEF FindChoice
  <1> QED BY <1>4, <1>5, <1>6

\* The buttons of a card of the last question are its choices.
Shows(card, choices) ==
  /\ DOMAIN card.card.buttons = DOMAIN choices
  /\ \A i \in DOMAIN choices : card.card.buttons[i].value = choices[i].id

CardInv ==
  /\ question \in Questions \cup {NoQuestion}
  /\ pc \in {"save", "send", "sending"} => Fit(question.choices)
  /\ pc \in {"send", "sending"} => request.choices = question.choices
  /\ request.round \in Nat /\ Fit(request.choices)
  /\ \A card \in cards :
       /\ card.round \in Nat /\ card.round <= request.round
       /\ card.round = request.round => Shows(card, request.choices)
  /\ ClickFindsItsChoice

LEMMA CardInit == Init => CardInv
  BY DEF Init, CardInv, NoRequest, NoQuestion, NoAnswer, ClickFindsItsChoice, Fit, Distinct

LEMMA AcceptedFits ==
  ASSUME NEW q \in Questions, Accepts(q)
  PROVE  Fit(q.choices)
  BY DialogueAssumption DEF Accepts, Fit, ValidChoice

LEMMA CardsGrow ==
  ASSUME CardInv, pc = "sending", cards' \in {cards, cards \cup {Delivered}},
         pc' = "ended", question' = NoQuestion, UNCHANGED <<request, answer>>
  PROVE  CardInv'
  <1>1. Delivered.round = request.round /\ Shows(Delivered, request.choices)
    BY DEF Delivered, Card, Button, Shows, CardInv
  <1>2. ASSUME NEW card \in cards'
        PROVE  /\ card.round \in Nat /\ card.round <= request.round
               /\ card.round = request.round => Shows(card, request.choices)
    <2>1. CASE card \in cards
      BY <2>1 DEF CardInv
    <2>2. CASE card = Delivered
      BY <1>1, <2>2 DEF CardInv
    <2> QED BY <1>2, <2>1, <2>2
  <1>3. /\ request' = request /\ answer' = answer /\ pc' = "ended"
        /\ question' \in Questions \cup {NoQuestion}
    OBVIOUS
  <1>4. \A card \in cards' :
          /\ card.round \in Nat /\ card.round <= request'.round
          /\ card.round = request'.round => Shows(card, request'.choices)
    BY <1>2, <1>3
  <1>5. ClickFindsItsChoice'
    BY <1>3 DEF CardInv, ClickFindsItsChoice
  <1> QED BY <1>3, <1>4, <1>5 DEF CardInv, Shows

LEMMA CardSave ==
  ASSUME CardInv, SaveQuestion
  PROVE  CardInv'
  <1>1. /\ request'.round = request.round + 1 /\ request'.choices = question.choices
        /\ UNCHANGED <<question, cards, answer>> /\ pc = "save" /\ pc' = "send"
    BY DEF SaveQuestion
  <1>2. ASSUME NEW card \in cards
        PROVE  card.round \in Nat /\ card.round <= request'.round /\ card.round # request'.round
    BY <1>1 DEF CardInv
  <1>3. request'.round \in Nat /\ Fit(question.choices) /\ question \in Questions \cup {NoQuestion}
    BY <1>1 DEF CardInv
  <1>4. ClickFindsItsChoice'
    BY <1>1 DEF CardInv, ClickFindsItsChoice
  <1> QED BY <1>1, <1>2, <1>3, <1>4 DEF CardInv, Fit, Distinct, Shows

LEMMA CardClick ==
  ASSUME CardInv, NEW card \in cards, NEW i \in DOMAIN card.card.buttons, Click(card, i)
  PROVE  CardInv'
  <1>1. /\ request'.round = request.round /\ request'.choices = request.choices
        /\ UNCHANGED <<question, cards, pc>>
    BY DEF Click, CardInv
  <1>2. /\ answer'.clicked = card.round /\ answer'.asked = request.round
        /\ answer'.button = i
        /\ answer'.chosen = FindChoice(request.choices, card.card.buttons[i].value)
    BY DEF Click
  <1>3. ClickFindsItsChoice'
    <2>1. CASE card.round = request.round
      <3>1. i \in DOMAIN request.choices /\ card.card.buttons[i].value = request.choices[i].id
        BY <2>1 DEF CardInv, Shows
      <3>2. FindChoice(request.choices, card.card.buttons[i].value) = i
        BY <3>1, OneMatch DEF CardInv
      <3> QED BY <1>2, <3>2 DEF ClickFindsItsChoice
    <2>2. CASE card.round # request.round
      BY <1>2, <2>2 DEF ClickFindsItsChoice
    <2> QED BY <2>1, <2>2
  <1> QED BY <1>1, <1>3 DEF CardInv, Fit, Distinct, Shows

LEMMA CardNext ==
  ASSUME CardInv, [Next]_vars
  PROVE  CardInv'
  <1>1. CASE UNCHANGED jobVars
    BY <1>1 DEF jobVars, CardInv, ClickFindsItsChoice
  <1>2. CASE \E s \in Others : Validate(s) \/ Validated(s) \/ NotValidated(s) \/ Text(s)
    BY <1>1, <1>2 DEF Validate, Validated, NotValidated, Text, jobVars
  <1>3. CASE Connection \/ Feishu \/ UNCHANGED vars
    BY <1>1, <1>3 DEF Connection, Feishu, vars
  <1>4. CASE Job
    <2>1. CASE Receive \/ ClaudeAnswers \/ Resume
      BY <2>1 DEF Receive, ClaudeAnswers, Resume, CardInv, ClickFindsItsChoice
    <2>2. CASE SendCard
      BY <2>2 DEF SendCard, CardInv, ClickFindsItsChoice
    <2>3. CASE SaveQuestion
      BY <2>3, CardSave
    <2>4. CASE CardArrives
      BY <2>4, CardsGrow DEF CardArrives
    <2>5. CASE CardFails
      BY <2>5, CardsGrow DEF CardFails
    <2>6. ASSUME NEW q \in Questions, ClaudeAsks(q) PROVE CardInv'
      BY <2>6, AcceptedFits DEF ClaudeAsks, CardInv, ClickFindsItsChoice
    <2>7. ASSUME NEW card \in cards, NEW i \in DOMAIN card.card.buttons, Click(card, i)
          PROVE  CardInv'
      BY <2>7, CardClick
    <2> QED BY <1>4, <2>1, <2>2, <2>3, <2>4, <2>5, <2>6, <2>7 DEF Job
  <1> QED BY <1>2, <1>3, <1>4 DEF Next

\* A click on the card of the open question is taken for the choice its button
\* stands for, whatever Claude may ask.
THEOREM ClicksFindTheirChoice == Spec => []ClickFindsItsChoice
  <1>1. CardInv => ClickFindsItsChoice
    BY DEF CardInv
  <1> QED BY CardInit, CardNext, <1>1, PTL DEF Spec

-----------------------------------------------------------------------------
(* The card.                                                               *)

Uncut(card) == ~card.card.title.cut /\ ~card.card.body.cut

FullInv ==
  /\ pc \in {"save", "send", "sending"} => Accepts(question)
  /\ \A card \in cards : Uncut(card)

LEMMA AcceptedUncut ==
  ASSUME Accepts(question)
  PROVE  Uncut(Delivered)
  <1>1. question.title \in Nat /\ question.title <= MaxTitle
        /\ question.body \in Nat /\ question.body <= MaxBody
    BY DEF Accepts, MaxTitle, MaxBody
  <1>2. ~(question.title > MaxTitle) /\ ~(question.body > MaxBody)
    BY <1>1 DEF MaxTitle, MaxBody
  <1> QED BY <1>2 DEF Uncut, Delivered, Card, TruncateForCard

LEMMA FullNext ==
  ASSUME FullInv, [Next]_vars
  PROVE  FullInv'
  <1>1. CASE UNCHANGED jobVars
    BY <1>1 DEF jobVars, FullInv, Accepts
  <1>2. CASE \E s \in Others : Validate(s) \/ Validated(s) \/ NotValidated(s) \/ Text(s)
    BY <1>1, <1>2 DEF Validate, Validated, NotValidated, Text, jobVars
  <1>3. CASE Connection \/ Feishu \/ UNCHANGED vars
    BY <1>1, <1>3 DEF Connection, Feishu, vars
  <1>4. CASE Job
    <2>1. CASE Receive \/ ClaudeAnswers \/ Resume
      BY <2>1 DEF Receive, ClaudeAnswers, Resume, FullInv
    <2>2. CASE SendCard \/ SaveQuestion
      BY <2>2 DEF SendCard, SaveQuestion, FullInv, Accepts
    <2>3. CASE CardArrives \/ CardFails
      BY <2>3, AcceptedUncut DEF CardArrives, CardFails, FullInv
    <2>4. ASSUME NEW q \in Questions, ClaudeAsks(q) PROVE FullInv'
      BY <2>4 DEF ClaudeAsks, FullInv, Accepts
    <2>5. ASSUME NEW card \in cards, NEW i \in DOMAIN card.card.buttons, Click(card, i)
          PROVE  FullInv'
      BY <2>5 DEF Click, FullInv, Accepts
    <2> QED BY <1>4, <2>1, <2>2, <2>3, <2>4, <2>5 DEF Job
  <1> QED BY <1>2, <1>3, <1>4 DEF Next

\* No card cuts what Claude asks, whatever it may ask.
THEOREM CardsShowAll == Spec => []ShownInFull
  <1>1. Init => FullInv
    BY DEF Init, FullInv
  <1>2. FullInv => ShownInFull
    BY DEF FullInv, ShownInFull, Uncut
  <1> QED BY <1>1, <1>2, FullNext, PTL DEF Spec
-----------------------------------------------------------------------------
(* The types.                                                              *)

WireTypeOK == clock \in 0..MaxClock /\ LarkConnTypeOK

\* A question is stored only if the bound leaves room for it, and a card goes out
\* only after a question was stored.
JobTypeOK ==
  /\ pc \in {"none", "claude", "save", "send", "sending", "ended"}
  /\ request \in [round: 0..MaxRounds, open: BOOLEAN, choices: Seq(Choices)]
  /\ pc = "save" => request.round < MaxRounds
  /\ pc \in {"send", "sending"} => request.round > 0
  /\ due \in BOOLEAN
  /\ \A card \in cards : card.round \in 1..request.round /\ DOMAIN card.card.buttons \subseteq Nat
  /\ answer \in [clicked: Nat, asked: Nat, button: Nat, chosen: Nat]

\* Among choices that the worker has accepted an id is found once at most.
LEMMA FoundIsNat ==
  ASSUME NEW choices, Fit(choices), NEW id, Matching(choices, id) # {}
  PROVE  FindChoice(choices, id) \in Nat
  <1>1. ASSUME NEW k \in DOMAIN choices PROVE choices[k].id \in Ids /\ ~choices[k].id.upper
    <2>1. choices[k] \in Choices
      BY DEF Fit
    <2> QED BY <2>1 DEF Fit, Choices
  <1>2. PICK i \in Matching(choices, id) : TRUE
    OBVIOUS
  <1>3. ASSUME NEW k \in Matching(choices, id) PROVE k = i
    <2>1. /\ i \in DOMAIN choices /\ EqualFold(TrimSpace(choices[i].id), TrimSpace(id))
          /\ k \in DOMAIN choices /\ EqualFold(TrimSpace(choices[k].id), TrimSpace(id))
      BY <1>2, <1>3 DEF Matching
    <2>2. EqualFold(TrimSpace(choices[k].id), TrimSpace(choices[i].id))
      BY <2>1 DEF EqualFold
    <2>3. TrimSpace(choices[k].id) = TrimSpace(choices[i].id)
      BY <1>1, <2>1, <2>2, SameId
    <2> QED BY <2>1, <2>3 DEF Fit, Distinct
  <1>4. Matching(choices, id) = {i}
    BY <1>2, <1>3
  <1>5. i \in Nat /\ i <= i
    BY <1>2 DEF Matching, Fit
  <1>6. FindChoice(choices, id) = CHOOSE k \in {i} : \A l \in {i} : k <= l
    BY <1>4 DEF FindChoice
  <1> QED BY <1>5, <1>6

LEMMA WireNext ==
  ASSUME WireTypeOK, [Next]_vars
  PROVE  WireTypeOK'
  <1>1. CASE UNCHANGED <<clock, larkConnVars>>
    BY <1>1 DEF WireTypeOK, LarkConnTypeOK, larkConnVars
  <1>2. CASE UNCHANGED vars
    BY <1>1, <1>2 DEF vars, messengerVars
  <1>3. ASSUME NEW s \in Others, Validate(s) \/ Validated(s) \/ NotValidated(s) \/ Text(s)
        PROVE  WireTypeOK'
    <2>1. CASE Validate(s) \/ Text(s)
      BY <1>1, <2>1 DEF Validate, Text, Call, Deliver, SendFails
    <2>2. CASE Validated(s) \/ NotValidated(s)
      BY <2>2 DEF Validated, NotValidated, KeepToken, SendFails,
                  WireTypeOK, LarkConnTypeOK, ServePcs
    <2> QED BY <1>3, <2>1, <2>2
  <1>4. CASE Connection
    <2>1. clock' = clock
      BY <1>4 DEF Connection, messengerVars
    <2>2. ASSUME NEW g \in Loggers, Connect(g) \/ MarkReady(g) \/ CloseReady(g) PROVE WireTypeOK'
      BY <2>1, <2>2 DEF Connect, MarkReady, CloseReady, WireTypeOK, LarkConnTypeOK, LoggerPcs
    <2>3. CASE Disconnect
      BY <2>1, <2>3, LarkConnAssumption DEF Disconnect, WireTypeOK, LarkConnTypeOK
    <2>4. CASE WaitUntilReady \/ Woken \/ NotReady
      BY <2>1, <2>4 DEF WaitUntilReady, Woken, NotReady, WireTypeOK, LarkConnTypeOK, ServePcs
    <2> QED BY <1>4, <2>2, <2>3, <2>4 DEF Connection
  <1>5. CASE Job
    <2>1. UNCHANGED <<clock, larkConnVars>>
      BY <1>5 DEF Job, Receive, ClaudeAsks, ClaudeAnswers, SaveQuestion, SendCard, CardArrives,
                  CardFails, Click, Resume, Call, Deliver, SendFails, messengerVars
    <2> QED BY <1>1, <2>1
  <1>6. CASE Feishu
    <2>1. CASE Tick
      BY <1>6, <2>1, MessengerAssumption
         DEF Feishu, Tick, WireTypeOK, LarkConnTypeOK, larkConnVars
    <2>2. CASE ~Tick
      BY <1>1, <1>6, <2>2 DEF Feishu, Issue, KeepToken
    <2> QED BY <2>1, <2>2
  <1> QED BY <1>2, <1>3, <1>4, <1>5, <1>6 DEF Next

LEMMA JobSave ==
  ASSUME CardInv, JobTypeOK, SaveQuestion
  PROVE  JobTypeOK'
  <1>1. /\ request' = [round |-> request.round + 1, open |-> TRUE, choices |-> question.choices]
        /\ pc = "save" /\ pc' = "send" /\ UNCHANGED <<due, cards, answer>>
    BY DEF SaveQuestion
  <1>2. request.round \in Nat /\ request.round + 1 \in 0..MaxRounds
    BY <1>1, DialogueAssumption DEF JobTypeOK
  <1>3. question.choices \in Seq(Choices)
    BY <1>1 DEF CardInv, Fit
  <1>4. /\ request' \in [round: 0..MaxRounds, open: BOOLEAN, choices: Seq(Choices)]
        /\ request'.round = request.round + 1
    BY <1>1, <1>2, <1>3
  <1>5. \A card \in cards : card.round \in 1..(request.round + 1)
    BY <1>2 DEF JobTypeOK
  <1> QED BY <1>1, <1>2, <1>4, <1>5 DEF JobTypeOK

LEMMA JobCards ==
  ASSUME CardInv, JobTypeOK, CardArrives \/ CardFails
  PROVE  JobTypeOK'
  <1>1. /\ pc = "sending" /\ pc' = "ended" /\ UNCHANGED <<request, due, answer>>
        /\ cards' \in {cards, cards \cup {Delivered}}
    BY DEF CardArrives, CardFails
  <1>2. Delivered.round \in 1..request.round
    BY <1>1 DEF JobTypeOK, Delivered
  <1>3. DOMAIN Delivered.card.buttons \subseteq Nat
    BY <1>1 DEF Delivered, Card, CardInv, Fit
  <1>4. \A card \in cards' :
          card.round \in 1..request'.round /\ DOMAIN card.card.buttons \subseteq Nat
    BY <1>1, <1>2, <1>3 DEF JobTypeOK
  <1> QED BY <1>1, <1>4 DEF JobTypeOK

LEMMA JobClick ==
  ASSUME CardInv, JobTypeOK, NEW card \in cards, NEW i \in DOMAIN card.card.buttons,
         Click(card, i)
  PROVE  JobTypeOK'
  <1> DEFINE chosen == FindChoice(request.choices, card.card.buttons[i].value)
  <1>1. /\ answer' = [clicked |-> card.round, asked |-> request.round, button |-> i,
                      chosen |-> chosen]
        /\ Matching(request.choices, card.card.buttons[i].value) # {}
        /\ request' = [request EXCEPT !.open = FALSE] /\ due' = TRUE
        /\ UNCHANGED <<pc, cards>>
    BY DEF Click
  <1>2. chosen \in Nat
    BY <1>1, FoundIsNat DEF CardInv
  <1> HIDE DEF chosen
  <1>3. answer' \in [clicked: Nat, asked: Nat, button: Nat, chosen: Nat]
    BY <1>1, <1>2 DEF JobTypeOK, CardInv
  <1>4. /\ request' \in [round: 0..MaxRounds, open: BOOLEAN, choices: Seq(Choices)]
        /\ request'.round = request.round
    BY <1>1 DEF JobTypeOK
  <1> QED BY <1>1, <1>3, <1>4 DEF JobTypeOK

LEMMA JobTypeNext ==
  ASSUME CardInv, JobTypeOK, [Next]_vars
  PROVE  JobTypeOK'
  <1>1. CASE UNCHANGED jobVars
    BY <1>1 DEF jobVars, JobTypeOK
  <1>2. CASE \E s \in Others : Validate(s) \/ Validated(s) \/ NotValidated(s) \/ Text(s)
    BY <1>1, <1>2 DEF Validate, Validated, NotValidated, Text, jobVars
  <1>3. CASE Connection \/ Feishu \/ UNCHANGED vars
    BY <1>1, <1>3 DEF Connection, Feishu, vars
  <1>4. CASE Job
    <2>1. CASE Receive \/ ClaudeAnswers \/ Resume
      BY <2>1 DEF Receive, ClaudeAnswers, Resume, JobTypeOK
    <2>2. CASE SendCard
      BY <2>2 DEF SendCard, JobTypeOK
    <2>3. CASE SaveQuestion
      BY <2>3, JobSave
    <2>4. CASE CardArrives \/ CardFails
      BY <2>4, JobCards
    <2>5. ASSUME NEW q \in Questions, ClaudeAsks(q) PROVE JobTypeOK'
      BY <2>5 DEF ClaudeAsks, JobTypeOK
    <2>6. ASSUME NEW card \in cards, NEW i \in DOMAIN card.card.buttons, Click(card, i)
          PROVE  JobTypeOK'
      BY <2>6, JobClick
    <2> QED BY <1>4, <2>1, <2>2, <2>3, <2>4, <2>5, <2>6 DEF Job
  <1> QED BY <1>2, <1>3, <1>4 DEF Next

\* Every part of the dialogue keeps its type: in particular every card in the chat
\* belongs to a question that has been stored, and the place FindChoice gives to a
\* click is always defined.
THEOREM DialogueTypeCorrect == Spec => []TypeOK
  <1>1. Init => WireTypeOK /\ JobTypeOK
    <2> SUFFICES ASSUME Init PROVE WireTypeOK /\ JobTypeOK
      OBVIOUS
    <2>1. 0 \in 0..MaxClock /\ 0 \in 0..MaxReconnects /\ 0 \in 0..MaxRounds
      BY MessengerAssumption, LarkConnAssumption, DialogueAssumption
    <2>2. WireTypeOK
      BY <2>1
         DEF Init, MessengerInit, LarkConnInit, WireTypeOK, LarkConnTypeOK, LoggerPcs, ServePcs
    <2>3. NoRequest \in [round: 0..MaxRounds, open: BOOLEAN, choices: Seq(Choices)]
      <3>1. <<>> \in Seq(Choices)
        OBVIOUS
      <3> QED BY <2>1, <3>1 DEF NoRequest
    <2>4. JobTypeOK
      BY <2>3 DEF Init, NoAnswer, JobTypeOK
    <2> QED BY <2>2, <2>4
  <1>2. TokenInv /\ WireTypeOK /\ CardInv /\ JobTypeOK => TypeOK
    BY DEF TokenInv, TokenTypeOK, WireTypeOK, CardInv, JobTypeOK, TypeOK, MessengerTypeOK
  <1> QED BY <1>1, <1>2, TokenInit, TokenNext, CardInit, CardNext, WireNext, JobTypeNext, PTL
          DEF Spec
=============================================================================
