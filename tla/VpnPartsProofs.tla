--------------------------- MODULE VpnPartsProofs ---------------------------
(* What is proved of the parts of HidraVPN that stand by themselves: the     *)
(* control channel between the clients and the service, the table of peers   *)
(* of a node's WireGuard, the account tokens of a client, the accounts of    *)
(* the issuer with the machines that fetch passes from it, the limiter of an *)
(* open node, the kill switch and the network of the client's machine, and   *)
(* the pocket of nodes it is admitted on.                                    *)
EXTENDS NodePocket, ControlChannel, UserspaceWg, PassOrders, PassAccounts, SessionLimiter, Host, SumTheorems,
        FiniteSetTheorems, SequenceTheorems, TLAPS

-----------------------------------------------------------------------------
(* The control channel.                                                      *)

\* What the other program has is told apart by whom it names.
LEMMA LineOrAnswer ==
  ASSUME heard \subseteq AnyLine \cup AnyAnswer
  PROVE  Lines \subseteq AnyLine /\ Answers \subseteq AnyAnswer
PROOF
<1>1. Lines \subseteq AnyLine
  BY DEF Lines, AnyLine, AnyAnswer
<1>2. ASSUME NEW h \in AnyLine PROVE "from" \in DOMAIN h
  BY <1>2 DEF AnyLine
<1>3. Answers \subseteq AnyAnswer
  BY <1>2 DEF Lines, Answers
<1> QED BY <1>1, <1>3

LEMMA ChanTypes ==
  ASSUME ChanTyped, ChanNext
  PROVE  ChanTyped'
PROOF
<1> USE DEF ChanTyped, Serving, CallPcs, Tokens, Runs
<1> USE ChannelConstants
<1>1. ASSUME Listen PROVE ChanTyped'
  BY <1>1 DEF Listen, Asked
<1>2. ASSUME WriteKey PROVE ChanTyped'
  BY <1>2 DEF WriteKey, Asked
<1>3. ASSUME WriteToken PROVE ChanTyped'
  BY <1>3 DEF WriteToken, Asked
<1>4. ASSUME StopService PROVE ChanTyped'
  BY <1>4 DEF StopService, Asked
<1>5. ASSUME OtherComes \/ OtherGoes PROVE ChanTyped'
  BY <1>5 DEF OtherComes, OtherGoes, Asked
<1>6. ASSUME NEW h \in Lines, PassOn(h) PROVE ChanTyped'
  <2>1. h \in AnyLine
    BY LineOrAnswer
  <2>2. answer_to(h) \in AnyAnswer
    BY <2>1 DEF answer_to, Answer, AnyLine, AnyAnswer
  <2> QED BY <1>6, <2>2 DEF PassOn, Asked
<1>7. ASSUME NEW c \in Callers, ReadToken(c) PROVE ChanTyped'
  BY <1>7 DEF ReadToken, Asked
<1>8. ASSUME NEW c \in Callers, ReadKey(c) PROVE ChanTyped'
  <2> DEFINE q == [call[c] EXCEPT !.pc = "keyed", !.key = key_file]
  <2>1. /\ call[c].pc = "token" /\ call' = [call EXCEPT ![c] = q]
        /\ UNCHANGED <<run, serving, token_file, key_file, served, heard>>
    BY <1>8 DEF ReadKey
  <2>2. q \in [pc : CallPcs, token : Tokens, key : Tokens,
              peer : {"none", "service", "other"}, answer : AnyAnswer]
    OBVIOUS
  <2> HIDE DEF q
  <2>3. call' \in [Callers -> [pc : CallPcs, token : Tokens, key : Tokens,
                              peer : {"none", "service", "other"}, answer : AnyAnswer]]
    BY <2>1, <2>2
  <2>4. served' \subseteq Asked'
    BY <2>1 DEF Asked
  <2> QED BY <2>1, <2>3, <2>4
<1>9. ASSUME NEW c \in Callers, Call(c) PROVE ChanTyped'
  <2>1. Line(c, call[c].token, call[c].key) \in AnyLine
    BY DEF Line, AnyLine
  <2> QED BY <1>9, <2>1 DEF Call, Step, Asked
<1>10. ASSUME NEW c \in Callers, Believe(c) PROVE ChanTyped'
  BY <1>10 DEF Believe, Step, Asked
<1>11. ASSUME NEW c \in Callers, Accept(c) PROVE ChanTyped'
  BY <1>11 DEF Accept, Asked
<1>12. ASSUME NEW c \in Callers, HandleConn(c) PROVE ChanTyped'
  <2>1. answer_to(Line(c, call[c].token, call[c].key)) \in AnyAnswer
    BY DEF Line, answer_to, Answer, AnyAnswer
  <2> QED BY <1>12, <2>1 DEF HandleConn, Asked
<1>13. ASSUME NEW c \in Callers, OtherAnswers(c) PROVE ChanTyped'
  <2>1. \A a \in Answers \cup {Answer("none", NoRun)} : a \in AnyAnswer
    <3>1. Answer("none", NoRun) \in AnyAnswer
      BY DEF Answer, AnyAnswer
    <3> QED BY <3>1, LineOrAnswer
  <2>2. PICK a \in AnyAnswer : call' = [call EXCEPT ![c].pc = "answered", ![c].answer = a]
    BY <1>13, <2>1 DEF OtherAnswers
  <2> DEFINE moved == [call[c] EXCEPT !.pc = "answered", !.answer = a]
  <2>3. moved \in [pc : CallPcs, token : Tokens, key : Tokens,
                  peer : {"none", "service", "other"}, answer : AnyAnswer]
    OBVIOUS
  <2>4. call' = [call EXCEPT ![c] = moved] /\ moved.pc = "answered"
    BY <2>2
  <2> HIDE DEF moved
  <2>5. UNCHANGED <<run, serving, token_file, key_file, served, heard>>
    BY <1>13 DEF OtherAnswers
  <2> QED BY <2>3, <2>4, <2>5 DEF Asked
<1> QED
  BY <1>1, <1>2, <1>3, <1>4, <1>5, <1>6, <1>7, <1>8, <1>9, <1>10, <1>11, <1>12, <1>13
  DEF ChanNext

\* No step takes back a request that was carried out, nor changes what a client
\* that has asked asked.
AskedKept ==
  /\ Asked \subseteq Asked'
  /\ \A c \in Asked : call'[c].token = call[c].token /\ call'[c].key = call[c].key
  /\ handled \subseteq handled'

TruthfulAfter(a) ==
  a.key # NoRun =>
    /\ a.to \in Asked'
    /\ a.key = call'[a.to].key /\ a.key = call'[a.to].token => <<a.to, a.key>> \in handled'

LEMMA TruthKept ==
  ASSUME AskedKept
  PROVE  \A a : Truthful(a) => TruthfulAfter(a)
BY DEF AskedKept, Truthful, TruthfulAfter

LEMMA TruthAfter ==
  ASSUME \A a \in Answers' : TruthfulAfter(a),
         \A c \in Callers : TruthfulAfter(call'[c].answer)
  PROVE  AnswersTruthful'
BY DEF AnswersTruthful, Truthful, TruthfulAfter

LEMMA AskedStays ==
  ASSUME ChanTyped, ChanNext
  PROVE  AskedKept
PROOF
<1> USE DEF ChanTyped, AskedKept, Asked
<1>1. ASSUME Listen \/ WriteKey \/ WriteToken \/ OtherComes \/ OtherGoes PROVE AskedKept
  BY <1>1 DEF Listen, WriteKey, WriteToken, OtherComes, OtherGoes
<1>2. ASSUME StopService PROVE AskedKept
  BY <1>2 DEF StopService
<1>3. ASSUME NEW h \in Lines, PassOn(h) PROVE AskedKept
  BY <1>3 DEF PassOn
<1>4. ASSUME NEW c \in Callers, ReadToken(c) \/ ReadKey(c) PROVE AskedKept
  BY <1>4 DEF ReadToken, ReadKey
<1>5. ASSUME NEW c \in Callers, Call(c) PROVE AskedKept
  BY <1>5 DEF Call, Step
<1>6. ASSUME NEW c \in Callers, Believe(c) \/ Accept(c) PROVE AskedKept
  BY <1>6 DEF Believe, Accept, Step
<1>7. ASSUME NEW c \in Callers, HandleConn(c) PROVE AskedKept
  BY <1>7 DEF HandleConn
<1>8. ASSUME NEW c \in Callers, OtherAnswers(c) PROVE AskedKept
  BY <1>8 DEF OtherAnswers
<1> QED
  BY <1>1, <1>2, <1>3, <1>4, <1>5, <1>6, <1>7, <1>8 DEF ChanNext

\* The order the files are written in.
LEMMA TokenStep ==
  ASSUME ChanTyped, ChanTyped', TokenAfterKey, ChanNext
  PROVE  TokenAfterKey'
PROOF
<1> USE DEF TokenAfterKey, KeyBeforeToken
<1> USE ChannelConstants
<1>1. ASSUME Listen PROVE TokenAfterKey'
  BY <1>1 DEF Listen, ChanTyped, Runs
<1>2. ASSUME WriteKey PROVE TokenAfterKey'
  BY <1>2 DEF WriteKey, ChanTyped, Runs
<1>3. ASSUME WriteToken PROVE TokenAfterKey'
  BY <1>3 DEF WriteToken, ChanTyped, Runs
<1>4. ASSUME StopService PROVE TokenAfterKey'
  BY <1>4 DEF StopService, ChanTyped, Runs
<1>5. ASSUME OtherComes \/ OtherGoes PROVE TokenAfterKey'
  BY <1>5 DEF OtherComes, OtherGoes
<1>6. ASSUME NEW h \in Lines, PassOn(h) PROVE TokenAfterKey'
  BY <1>6 DEF PassOn
<1>7. ASSUME NEW c \in Callers, ReadToken(c) PROVE TokenAfterKey'
  BY <1>7 DEF ReadToken, ChanTyped, Tokens
<1>8. ASSUME NEW c \in Callers, ReadKey(c) PROVE TokenAfterKey'
  BY <1>8 DEF ReadKey, ChanTyped
<1>9. ASSUME NEW c \in Callers, Call(c) PROVE TokenAfterKey'
  BY <1>9 DEF Call, Step, ChanTyped
<1>10. ASSUME NEW c \in Callers, Believe(c) PROVE TokenAfterKey'
  BY <1>10 DEF Believe, Step, ChanTyped
<1>11. ASSUME NEW c \in Callers, Accept(c) PROVE TokenAfterKey'
  BY <1>11 DEF Accept
<1>12. ASSUME NEW c \in Callers, HandleConn(c) PROVE TokenAfterKey'
  <2>1. call[c].pc \notin {"start", "token", "not_running"}
    BY <1>12 DEF HandleConn, ChanTyped, Asked
  <2>2. \A d \in Callers : /\ call'[d].token = call[d].token /\ call'[d].key = call[d].key
                           /\ call'[d].pc = call[d].pc \/ d = c
    BY <1>12 DEF HandleConn, ChanTyped
  <2>3. UNCHANGED <<run, serving, token_file, key_file>>
    BY <1>12 DEF HandleConn
  <2> QED BY <2>1, <2>2, <2>3
<1>13. ASSUME NEW c \in Callers, OtherAnswers(c) PROVE TokenAfterKey'
  BY <1>13 DEF OtherAnswers, ChanTyped
<1> QED
  BY <1>1, <1>2, <1>3, <1>4, <1>5, <1>6, <1>7, <1>8, <1>9, <1>10, <1>11, <1>12, <1>13
  DEF ChanNext

\* What the other program has heard is what was asked, and true.
LEMMA HeardStep ==
  ASSUME ChanTyped, ChanTyped', LinesAsAsked, AnswersTruthful, ChanNext
  PROVE  LinesAsAsked' /\ AnswersTruthful'
PROOF
<1>1. AskedKept
  BY AskedStays
<1>2. ASSUME NEW h \in AnyLine, h.from \in Asked,
             h.token = call[h.from].token, h.key = call[h.from].key
      PROVE  Truthful(answer_to(h)) \/ (h.key = run /\ h.token = run)
  BY <1>2 DEF Truthful, answer_to, Answer, opens
<1>3. ASSUME UNCHANGED heard,
             \A c \in Callers : \/ call'[c].answer = call[c].answer
                                \/ TruthfulAfter(call'[c].answer)
      PROVE  LinesAsAsked' /\ AnswersTruthful'
  <2>1. LinesAsAsked'
    <3>1. Lines' = Lines
      BY <1>3 DEF Lines
    <3> QED BY <1>1, <3>1 DEF LinesAsAsked, AskedKept
  <2>2. \A a \in Answers' : TruthfulAfter(a)
    BY <1>1, <1>3, TruthKept DEF AnswersTruthful, Answers, Lines
  <2>3. \A c \in Callers : TruthfulAfter(call'[c].answer)
    BY <1>1, <1>3, TruthKept DEF AnswersTruthful
  <2> QED BY <2>1, <2>2, <2>3, TruthAfter
<1>4. ASSUME Listen \/ WriteKey \/ WriteToken \/ OtherComes \/ OtherGoes
      PROVE  LinesAsAsked' /\ AnswersTruthful'
  BY <1>3, <1>4 DEF Listen, WriteKey, WriteToken, OtherComes, OtherGoes
<1>5. ASSUME StopService PROVE LinesAsAsked' /\ AnswersTruthful'
  BY <1>3, <1>5 DEF StopService, ChanTyped
<1>6. ASSUME NEW h \in Lines, PassOn(h) PROVE LinesAsAsked' /\ AnswersTruthful'
  <2>1. h \in AnyLine /\ heard \subseteq AnyLine \cup AnyAnswer
    BY LineOrAnswer DEF ChanTyped
  <2>2. heard' = heard \cup {answer_to(h)} /\ answer_to(h) \in AnyAnswer /\ call' = call
    <3>1. answer_to(h) \in AnyAnswer
      BY <2>1, ChannelConstants DEF answer_to, Answer, AnyLine, AnyAnswer, Tokens
    <3> QED BY <1>6, <3>1 DEF PassOn
  <2>3. /\ h.from \in Asked
        /\ h.token = call[h.from].token /\ h.key = call[h.from].key
    BY DEF LinesAsAsked
  <2>4. TruthfulAfter(answer_to(h))
    <3>1. CASE Truthful(answer_to(h))
      BY <1>1, <3>1, TruthKept
    <3>2. CASE h.key = run /\ h.token = run
      <4>1. <<h.from, run>> \in handled'
        BY <1>6, <3>2 DEF PassOn, carries_out, opens, token_ok
      <4>2. answer_to(h).to = h.from /\ answer_to(h).key = run
        BY <3>2 DEF answer_to, Answer, opens
      <4> QED BY <1>1, <2>3, <4>1, <4>2 DEF TruthfulAfter, AskedKept
    <3> QED BY <1>2, <2>1, <2>3, <3>1, <3>2
  <2>5. Lines' = Lines /\ Answers' = Answers \cup {answer_to(h)}
    BY <2>2 DEF Lines, Answers, AnyAnswer
  <2>6. LinesAsAsked'
    BY <1>1, <2>1, <2>5, LineOrAnswer DEF LinesAsAsked, AskedKept
  <2>7. \A a \in Answers : TruthfulAfter(a)
    BY <1>1, TruthKept DEF AnswersTruthful
  <2>8. \A c \in Callers : TruthfulAfter(call[c].answer)
    BY <1>1, TruthKept DEF AnswersTruthful
  <2> QED BY <2>2, <2>4, <2>5, <2>6, <2>7, <2>8, TruthAfter
<1>7. ASSUME NEW c \in Callers, ReadToken(c) \/ ReadKey(c) \/ Believe(c) \/ Accept(c)
      PROVE  LinesAsAsked' /\ AnswersTruthful'
  <2>1. heard' = heard /\ \A d \in Callers : call'[d].answer = call[d].answer
    BY <1>7 DEF ReadToken, ReadKey, Believe, Accept, Step, ChanTyped
  <2> QED BY <1>3, <2>1
<1>8. ASSUME NEW c \in Callers, Call(c) PROVE LinesAsAsked' /\ AnswersTruthful'
  <2> DEFINE line == Line(c, call[c].token, call[c].key)
  <2>1. \A d \in Callers : call'[d].answer = call[d].answer
    BY <1>8 DEF Call, Step, ChanTyped
  <2>2. CASE UNCHANGED heard
    BY <1>3, <2>1, <2>2
  <2>3. CASE heard' # heard
    <3>1. /\ heard' = heard \cup {line}
          /\ call' = [call EXCEPT ![c].pc = "sent", ![c].peer = "other"]
      BY <1>8, <2>3 DEF Call
    <3>2. line \in AnyLine /\ line.from = c
      BY DEF Line, AnyLine, ChanTyped
    <3>3. c \in Asked' /\ line.token = call'[c].token /\ line.key = call'[c].key
      BY <3>1 DEF Line, Asked, ChanTyped
    <3>4. Lines' = Lines \cup {line} /\ Answers' = Answers
      BY <3>1, <3>2 DEF Lines, Answers, AnyLine
    <3>5. \A h \in Lines : /\ h.from \in Asked'
                           /\ h.token = call'[h.from].token /\ h.key = call'[h.from].key
      BY <1>1 DEF LinesAsAsked, AskedKept
    <3>6. LinesAsAsked'
      BY <3>2, <3>3, <3>4, <3>5 DEF LinesAsAsked
    <3>7. AnswersTruthful'
      BY <1>1, <2>1, <3>4, TruthKept, TruthAfter DEF AnswersTruthful
    <3> QED BY <3>6, <3>7
  <2> QED BY <2>2, <2>3
<1>9. ASSUME NEW c \in Callers, HandleConn(c) PROVE LinesAsAsked' /\ AnswersTruthful'
  <2> DEFINE line == Line(c, call[c].token, call[c].key)
  <2>1. /\ line \in AnyLine /\ line.from = c /\ line.token = call[c].token
        /\ line.key = call[c].key
    BY DEF Line, AnyLine, ChanTyped
  <2>2. c \in Asked
    BY <1>9 DEF HandleConn, ChanTyped
  <2>3. \A d \in Callers : \/ call'[d].answer = call[d].answer
                           \/ /\ d = c /\ call'[d].answer = answer_to(line)
                              /\ carries_out(line) => <<c, run>> \in handled'
    BY <1>9 DEF HandleConn, ChanTyped
  <2>4. ASSUME carries_out(line) => <<c, run>> \in handled' PROVE TruthfulAfter(answer_to(line))
    <3> HIDE DEF line
    <3>1. CASE Truthful(answer_to(line))
      BY <1>1, <3>1, TruthKept
    <3>2. CASE line.key = run /\ line.token = run
      <4>1. <<c, run>> \in handled'
        BY <2>4, <3>2 DEF carries_out, opens, token_ok
      <4>2. answer_to(line).to = c /\ answer_to(line).key = run
        BY <2>1, <3>2 DEF answer_to, Answer, opens
      <4> QED BY <1>1, <2>2, <4>1, <4>2 DEF TruthfulAfter, AskedKept
    <3> QED BY <1>2, <2>1, <2>2, <3>1, <3>2
  <2>5. UNCHANGED heard
    BY <1>9 DEF HandleConn
  <2>6. \A d \in Callers : call'[d].answer = call[d].answer \/ TruthfulAfter(call'[d].answer)
    <3> HIDE DEF line
    <3> QED BY <2>3, <2>4
  <2> QED BY <1>3, <2>5, <2>6
<1>10. ASSUME NEW c \in Callers, OtherAnswers(c) PROVE LinesAsAsked' /\ AnswersTruthful'
  <2>1. Truthful(Answer("none", NoRun))
    BY DEF Truthful, Answer
  <2>2. \A a \in Answers \cup {Answer("none", NoRun)} : TruthfulAfter(a)
    BY <1>1, <2>1, TruthKept DEF AnswersTruthful
  <2>3. PICK a : TruthfulAfter(a) /\ call' = [call EXCEPT ![c].pc = "answered", ![c].answer = a]
    BY <1>10, <2>2 DEF OtherAnswers
  <2>4. UNCHANGED heard
    BY <1>10 DEF OtherAnswers
  <2>5. \A d \in Callers : call'[d].answer = call[d].answer \/ call'[d].answer = a
    BY <2>3 DEF ChanTyped
  <2> QED BY <1>3, <2>3, <2>4, <2>5
<1> QED
  BY <1>4, <1>5, <1>6, <1>7, <1>8, <1>9, <1>10 DEF ChanNext

\* Only an answer that opens is believed, and then only of what it is true of.
LEMMA BelievedStep ==
  ASSUME ChanTyped, AnswersTruthful, BelievedIsTheService, ChanNext
  PROVE  BelievedIsTheService'
PROOF
<1>1. AskedKept
  BY AskedStays
<1>2. ASSUME \A c \in Callers : call'[c].pc = "believed" => call[c].pc = "believed"
      PROVE  BelievedIsTheService'
  BY <1>1, <1>2 DEF AskedKept, Asked, BelievedIsTheService
<1>3. ASSUME NEW c \in Callers, Believe(c) PROVE BelievedIsTheService'
  <2>1. call'[c].key = call[c].key /\ call'[c].token = call[c].token /\ handled' = handled
    BY <1>3 DEF Believe, Step, ChanTyped
  <2>2. ASSUME call'[c].pc = "believed", call[c].key # NoRun, call[c].token = call[c].key
        PROVE  <<c, call[c].key>> \in handled
    <3>1. answer_opens(c, call[c].answer)
      BY <1>3, <2>2 DEF Believe, Step, ChanTyped
    <3> QED BY <2>2, <3>1 DEF answer_opens, AnswersTruthful, Truthful
  <2>3. \A d \in Callers \ {c} : call'[d] = call[d]
    BY <1>3 DEF Believe, Step, ChanTyped
  <2> QED BY <2>1, <2>2, <2>3 DEF BelievedIsTheService
<1>4. ASSUME Listen \/ WriteKey \/ WriteToken \/ OtherComes \/ OtherGoes
      PROVE  \A c \in Callers : call'[c].pc = "believed" => call[c].pc = "believed"
  BY <1>4 DEF Listen, WriteKey, WriteToken, OtherComes, OtherGoes
<1>5. ASSUME StopService
      PROVE  \A c \in Callers : call'[c].pc = "believed" => call[c].pc = "believed"
  BY <1>5 DEF StopService, ChanTyped
<1>6. ASSUME NEW h \in Lines, PassOn(h)
      PROVE  \A c \in Callers : call'[c].pc = "believed" => call[c].pc = "believed"
  BY <1>6 DEF PassOn
<1>7. ASSUME NEW c \in Callers, ReadToken(c) \/ ReadKey(c) \/ Call(c) \/ Accept(c)
      PROVE  \A d \in Callers : call'[d].pc = "believed" => call[d].pc = "believed"
  BY <1>7 DEF ReadToken, ReadKey, Call, Accept, Step, ChanTyped
<1>8. ASSUME NEW c \in Callers, HandleConn(c) \/ OtherAnswers(c)
      PROVE  \A d \in Callers : call'[d].pc = "believed" => call[d].pc = "believed"
  BY <1>8 DEF HandleConn, OtherAnswers, ChanTyped
<1> QED
  BY <1>2, <1>3, <1>4, <1>5, <1>6, <1>7, <1>8 DEF ChanNext

LEMMA ChannelKept ==
  ChanSpec => []ChannelInv
PROOF
<1>1. ChanInit => ChannelInv
  <2> SUFFICES ASSUME ChanInit PROVE ChannelInv
    OBVIOUS
  <2> USE DEF ChanInit, NewCall
  <2>1. ChanTyped
    BY ChannelConstants
    DEF ChanTyped, Answer, AnyAnswer, Tokens, CallPcs, Serving, Asked
  <2>2. TokenAfterKey
    BY ChannelConstants DEF TokenAfterKey, KeyBeforeToken, Runs
  <2>3. LinesAsAsked /\ AnswersTruthful /\ BelievedIsTheService
    BY DEF LinesAsAsked, AnswersTruthful, Truthful, Answer, Lines, Answers, BelievedIsTheService
  <2> QED BY <2>1, <2>2, <2>3 DEF ChannelInv
<1>2. ChannelInv /\ [ChanNext]_chanVars => ChannelInv'
  <2> SUFFICES ASSUME ChannelInv, [ChanNext]_chanVars PROVE ChannelInv'
    OBVIOUS
  <2>1. CASE ChanNext
    BY <2>1, ChanTypes, TokenStep, HeardStep, BelievedStep DEF ChannelInv
  <2>2. CASE UNCHANGED chanVars
    BY <2>2 DEF chanVars, ChannelInv, ChanTyped, TokenAfterKey, KeyBeforeToken, LinesAsAsked,
                AnswersTruthful, Truthful, Lines, Answers, Asked, BelievedIsTheService
  <2> QED BY <2>1, <2>2
<1> QED BY <1>1, <1>2, PTL DEF ChanSpec

\* However often the service is started again, and whatever a program beside it
\* passes on or answers: a client believes only the service, and the token of
\* the service that is up is known to no one who could not read its file.
\* crates/hidravpn-service/src/ipc.rs, crates/hidravpn/src/ipc.rs.
THEOREM ChannelIsTrusted == ChanSpec => []ChannelTrusted
PROOF
<1>1. ChannelInv => ChannelTrusted
  <2> SUFFICES ASSUME ChannelInv PROVE TokenStaysHere
    BY DEF ChannelTrusted, ChannelInv
  <2>1. ASSUME NEW h \in Lines, h.key = NoRun, serving = "up", h.token = run PROVE FALSE
    <3>1. /\ h.from \in Callers /\ call[h.from].token = run /\ call[h.from].key = NoRun
          /\ call[h.from].pc \notin {"start", "token", "not_running"}
      BY <2>1 DEF ChannelInv, LinesAsAsked, Asked
    <3> QED BY <2>1, <3>1, ChannelConstants DEF ChannelInv, TokenAfterKey, ChanTyped, Runs
  <2> QED BY <2>1 DEF TokenStaysHere
<1> QED BY <1>1, ChannelKept, PTL

-----------------------------------------------------------------------------
(* The peers of a node's WireGuard.                                          *)

\* A peer made is a new one, and those made before are as they were.
LEMMA PeerMade ==
  ASSUME PeersMade, NEW k, NEW a, NEW replace, SetPeer(k, a, replace)
  PROVE  /\ NewPeer \in Nat \ {0} /\ NewPeer \notin DOMAIN peer_of
         /\ DOMAIN peer_of' = DOMAIN peer_of \cup {NewPeer}
         /\ \A p \in DOMAIN peer_of : peer_of'[p] = peer_of[p]
         /\ PeersCounted'
PROOF
<1> DEFINE n == Cardinality(DOMAIN peer_of)
<1>1. n \in Nat
  BY FS_CardinalityType DEF PeersMade, PeersCounted
<1>2. DOMAIN peer_of = 1..n /\ NewPeer = n + 1
  BY DEF PeersMade, PeersCounted, NewPeer
<1>3. DOMAIN peer_of' = DOMAIN peer_of \cup {NewPeer}
  BY DEF SetPeer, with
<1>4. \A p \in DOMAIN peer_of : p # NewPeer => peer_of'[p] = peer_of[p]
  BY DEF SetPeer, with
<1>5. NewPeer \notin DOMAIN peer_of
  BY <1>1, <1>2
<1>6. IsFiniteSet(DOMAIN peer_of') /\ Cardinality(DOMAIN peer_of') = n + 1
  <2> DEFINE D == DOMAIN peer_of
  <2>1. IsFiniteSet(D) /\ NewPeer \notin D
    BY <1>5 DEF PeersMade, PeersCounted
  <2> HIDE DEF D
  <2>2. IsFiniteSet(D \cup {NewPeer}) /\ Cardinality(D \cup {NewPeer}) = Cardinality(D) + 1
    BY <2>1, FS_AddElement
  <2> QED BY <1>3, <2>2 DEF D
<1>7. DOMAIN peer_of' = 1..(n + 1)
  BY <1>1, <1>2, <1>3
<1>8. PeersCounted'
  BY <1>6, <1>7 DEF PeersCounted
<1> QED BY <1>1, <1>2, <1>3, <1>4, <1>5, <1>8

LEMMA SamePeersCounted ==
  ASSUME PeersCounted, UNCHANGED peer_of
  PROVE  PeersCounted'
BY DEF PeersCounted

LEMMA SetPeerKeeps ==
  ASSUME WgInv, NEW k, NEW a, NEW replace, SetPeer(k, a, replace)
  PROVE  WgInv'
PROOF
<1> DEFINE i == index_for(k)
           had == k \in DOMAIN by_key
           old == by_index[by_key[k]]
           kept_addrs == IF had /\ ~replace THEN peer_of[old].allowed ELSE {}
<1>1. PeersMade /\ WgSound
  BY DEF WgInv
<1>a. \A l \in DOMAIN by_key : by_key[l] \in DOMAIN by_index /\ peer_of[by_index[by_key[l]]].key = l
  BY <1>1 DEF WgSound
<1>b. \A j \in DOMAIN by_index :
        /\ peer_of[by_index[j]].index = j /\ j < next_index
        /\ peer_of[by_index[j]].key \in DOMAIN by_key /\ by_key[peer_of[by_index[j]].key] = j
        /\ j \in Nat /\ next_index \in Nat
  BY <1>1 DEF WgSound, PeersMade
<1>c. next_index \notin DOMAIN by_index /\ next_index \in Nat
  <2>1. next_index \in Nat
    BY <1>1 DEF PeersMade
  <2>2. ASSUME next_index \in DOMAIN by_index PROVE FALSE
    <3>1. next_index < next_index
      BY <1>b, <2>2
    <3> QED BY <2>1, <3>1
  <2> QED BY <2>1, <2>2
<1>2. /\ NewPeer \in Nat \ {0} /\ NewPeer \notin DOMAIN peer_of
      /\ DOMAIN peer_of' = DOMAIN peer_of \cup {NewPeer}
      /\ \A p \in DOMAIN peer_of : peer_of'[p] = peer_of[p]
      /\ PeersCounted'
  BY <1>1, PeerMade
<1>3. peer_of'[NewPeer] = [key |-> k, index |-> i, allowed |-> kept_addrs \cup {a}]
  BY DEF SetPeer, with
<1>4. /\ DOMAIN by_index' = DOMAIN by_index \cup {i} /\ by_index'[i] = NewPeer
      /\ \A j \in DOMAIN by_index \ {i} : by_index'[j] = by_index[j]
  BY DEF SetPeer, with
<1>5. /\ DOMAIN by_key' = DOMAIN by_key \cup {k} /\ by_key'[k] = i
      /\ \A l \in DOMAIN by_key \ {k} : by_key'[l] = by_key[l]
  BY DEF SetPeer, with
<1>6. /\ next_index' = IF i = next_index THEN next_index + 1 ELSE next_index
      /\ UNCHANGED <<session, down, upward>>
      /\ \A j \in DOMAIN by_index : peer_of[by_index[j]].key # k => a \notin peer_of[by_index[j]].allowed
  BY DEF SetPeer
<1>7. IF had THEN i = by_key[k] /\ i \in DOMAIN by_index /\ i < next_index
      ELSE i = next_index /\ i \notin DOMAIN by_index
  BY <1>a, <1>b, <1>c DEF index_for
<1>8. i \in Nat /\ i < next_index' /\ next_index' \in Nat /\ next_index <= next_index'
  BY <1>b, <1>c, <1>6, <1>7
<1> HIDE DEF i, kept_addrs
\* The others are of other keys, and none has the address.
<1>9. ASSUME NEW j \in DOMAIN by_index \ {i}
      PROVE  /\ peer_of'[by_index'[j]] = peer_of[by_index[j]] /\ peer_of[by_index[j]].key # k
             /\ a \notin peer_of[by_index[j]].allowed
             /\ kept_addrs \cap peer_of[by_index[j]].allowed = {}
  <2>1. peer_of'[by_index'[j]] = peer_of[by_index[j]]
    BY <1>1, <1>2, <1>4 DEF PeersMade
  <2>2. peer_of[by_index[j]].key # k
    BY <1>b, <1>7
  <2>3. a \notin peer_of[by_index[j]].allowed
    BY <1>6, <2>2
  <2>4. kept_addrs \cap peer_of[by_index[j]].allowed = {}
    BY <1>1, <1>7 DEF WgSound, kept_addrs
  <2> QED BY <2>1, <2>2, <2>3, <2>4
<1>10. PeersMade'
  BY <1>1, <1>2, <1>4, <1>6, <1>8 DEF PeersMade
<1>11. \A l \in DOMAIN by_key' : by_key'[l] \in DOMAIN by_index' /\ peer_of'[by_index'[by_key'[l]]].key = l
  <2>1. by_key'[k] \in DOMAIN by_index' /\ peer_of'[by_index'[by_key'[k]]].key = k
    BY <1>3, <1>4, <1>5
  <2>2. ASSUME NEW l \in DOMAIN by_key \ {k}
        PROVE  by_key'[l] \in DOMAIN by_index' /\ peer_of'[by_index'[by_key'[l]]].key = l
    <3>1. by_key[l] \in DOMAIN by_index /\ peer_of[by_index[by_key[l]]].key = l
      BY <1>1 DEF WgSound
    <3>2. by_key[l] # i
      BY <1>a, <1>b, <1>7, <3>1
    <3> QED BY <1>4, <1>5, <1>9, <3>1, <3>2
  <2> QED BY <1>5, <2>1, <2>2
<1>12. \A j \in DOMAIN by_index' :
         /\ peer_of'[by_index'[j]].index = j /\ j < next_index'
         /\ peer_of'[by_index'[j]].key \in DOMAIN by_key' /\ by_key'[peer_of'[by_index'[j]].key] = j
  <2>1. ASSUME NEW j \in DOMAIN by_index \ {i}
        PROVE  /\ peer_of'[by_index'[j]].index = j /\ j < next_index'
               /\ peer_of'[by_index'[j]].key \in DOMAIN by_key' /\ by_key'[peer_of'[by_index'[j]].key] = j
    <3>1. /\ peer_of[by_index[j]].index = j /\ j < next_index /\ j \in Nat
          /\ peer_of[by_index[j]].key \in DOMAIN by_key /\ by_key[peer_of[by_index[j]].key] = j
      BY <1>1 DEF WgSound, PeersMade
    <3>2. j < next_index'
      BY <1>b, <1>c, <1>8, <3>1
    <3> QED BY <1>5, <1>9, <3>1, <3>2
  <2> QED BY <1>3, <1>4, <1>5, <1>8, <2>1
<1>13. \A j, l \in DOMAIN by_index' :
         j # l => peer_of'[by_index'[j]].allowed \cap peer_of'[by_index'[l]].allowed = {}
  <2>1. ASSUME NEW j \in DOMAIN by_index \ {i}
        PROVE  peer_of'[by_index'[j]].allowed \cap peer_of'[by_index'[i]].allowed = {}
    BY <1>3, <1>4, <1>9
  <2>2. ASSUME NEW j \in DOMAIN by_index \ {i}, NEW l \in DOMAIN by_index \ {i}, j # l
        PROVE  peer_of'[by_index'[j]].allowed \cap peer_of'[by_index'[l]].allowed = {}
    BY <1>1, <1>9, <2>2 DEF WgSound
  <2> QED BY <1>4, <2>1, <2>2
<1>14. upward'.addr # "" => upward'.addr \in peer_of'[upward'.peer].allowed /\ peer_of'[upward'.peer].key = upward'.key
  BY <1>1, <1>2, <1>6 DEF WgSound, PeersMade
<1> QED BY <1>10, <1>11, <1>12, <1>13, <1>14 DEF WgInv, WgSound

LEMMA WgStep ==
  ASSUME WgInv, [WgNext]_wgVars
  PROVE  WgInv'
PROOF
<1>1. ASSUME NEW k, RemovePeer(k) PROVE WgInv'
  <2>1. UNCHANGED <<next_index, peer_of, session, upward>>
    BY <1>1 DEF RemovePeer
  <2>2. /\ DOMAIN by_index' = DOMAIN by_index \ {by_key[k]} /\ DOMAIN by_key' = DOMAIN by_key \ {k}
        /\ \A i \in DOMAIN by_index' : by_index'[i] = by_index[i]
        /\ \A l \in DOMAIN by_key' : by_key'[l] = by_key[l]
    BY <1>1 DEF RemovePeer, less
  <2>3. PeersMade'
    BY <2>1, <2>2, SamePeersCounted DEF WgInv, PeersMade
  <2>4. k \in DOMAIN by_key
    BY <1>1 DEF RemovePeer
  <2>5. \A l \in DOMAIN by_key' : by_key[l] \in DOMAIN by_index' /\ peer_of[by_index[by_key[l]]].key = l
    <3>1. \A l \in DOMAIN by_key : by_key[l] \in DOMAIN by_index /\ peer_of[by_index[by_key[l]]].key = l
      BY DEF WgInv, WgSound
    <3>2. \A l \in DOMAIN by_key : l # k => by_key[l] # by_key[k]
      BY <2>4, <3>1
    <3> QED BY <2>2, <3>1, <3>2
  <2>6. \A i \in DOMAIN by_index' : peer_of[by_index[i]].key \in DOMAIN by_key'
    BY <2>2, <2>4 DEF WgInv, WgSound
  <2>7. WgSound'
    <3>1. \A l \in DOMAIN by_key' : /\ by_key'[l] \in DOMAIN by_index'
                                    /\ peer_of'[by_index'[by_key'[l]]].key = l
      BY <2>1, <2>2, <2>5
    <3>2. \A i \in DOMAIN by_index' :
            /\ peer_of'[by_index'[i]].index = i /\ i < next_index'
            /\ peer_of'[by_index'[i]].key \in DOMAIN by_key' /\ by_key'[peer_of'[by_index'[i]].key] = i
      <4> SUFFICES ASSUME NEW i \in DOMAIN by_index'
                   PROVE  /\ peer_of[by_index[i]].index = i /\ i < next_index
                          /\ peer_of[by_index[i]].key \in DOMAIN by_key'
                          /\ by_key[peer_of[by_index[i]].key] = i
        BY <2>1, <2>2
      <4>1. i \in DOMAIN by_index
        BY <2>2
      <4> QED BY <2>6, <4>1 DEF WgInv, WgSound
    <3>3. \A i, j \in DOMAIN by_index' :
            i # j => peer_of'[by_index'[i]].allowed \cap peer_of'[by_index'[j]].allowed = {}
      <4> SUFFICES ASSUME NEW i \in DOMAIN by_index', NEW j \in DOMAIN by_index', i # j
                   PROVE  peer_of[by_index[i]].allowed \cap peer_of[by_index[j]].allowed = {}
        BY <2>1, <2>2
      <4>1. i \in DOMAIN by_index /\ j \in DOMAIN by_index
        BY <2>2
      <4> QED BY <4>1 DEF WgInv, WgSound
    <3> QED BY <2>1, <3>1, <3>2, <3>3 DEF WgInv, WgSound
  <2> QED BY <2>3, <2>7 DEF WgInv
<1>2. ASSUME ReplacePeers PROVE WgInv'
  <2>1. UNCHANGED <<next_index, peer_of, session, upward>> /\ DOMAIN by_index' = {} /\ DOMAIN by_key' = {}
    BY <1>2 DEF ReplacePeers
  <2> QED BY <2>1, SamePeersCounted DEF WgInv, WgSound, PeersMade
<1>3. ASSUME UdpDone \/ TunSends PROVE WgInv'
  <2>1. /\ UNCHANGED <<by_index, by_key, next_index, peer_of, session>>
        /\ upward' = upward \/ upward' = Idle0
    BY <1>3 DEF UdpDone, TunSends
  <2>2. CASE upward' = upward
    BY <2>1, <2>2, SamePeersCounted DEF WgInv, WgSound, PeersMade
  <2>3. CASE upward' = Idle0
    <3>1. upward' \in [peer : {0}, addr : {""}, key : {""}] /\ upward'.addr = ""
      BY <2>3 DEF Idle0
    <3> QED BY <2>1, <3>1, SamePeersCounted DEF WgInv, WgSound, PeersMade
  <2> QED BY <2>1, <2>2, <2>3
<1>4. ASSUME NEW k \in WgKeys, NEW i, UdpTakes(k, i) PROVE WgInv'
  BY <1>4, SamePeersCounted DEF UdpTakes, WgInv, WgSound, PeersMade
<1>5. ASSUME NEW p, UdpHandshake(p) PROVE WgInv'
  BY <1>5, SamePeersCounted DEF UdpHandshake, Idle0, WgInv, WgSound, PeersMade
<1>6. ASSUME NEW p, NEW a \in WgAddrs, UdpData(p, a) PROVE WgInv'
  <2>1. /\ upward.peer \in DOMAIN peer_of /\ peer_of[upward.peer].key = upward.key
        /\ UNCHANGED <<by_index, by_key, next_index, peer_of, session, down>>
    BY <1>6 DEF UdpData, WgInv, PeersMade
  <2>2. \/ upward' = Idle0
        \/ upward' = [upward EXCEPT !.addr = a] /\ a \in peer_of[upward.peer].allowed
    BY <1>6 DEF UdpData
  <2>3. CASE upward' = Idle0
    <3>1. upward' \in [peer : {0}, addr : {""}, key : {""}] /\ upward'.addr = ""
      BY <2>3 DEF Idle0
    <3> QED BY <2>1, <3>1, SamePeersCounted DEF WgInv, WgSound, PeersMade
  <2>4. CASE upward' = [upward EXCEPT !.addr = a] /\ a \in peer_of[upward.peer].allowed
    <3>1. /\ upward' \in [peer : {0} \cup DOMAIN peer_of, addr : WgAddrs \cup {""}, key : WgKeys \cup {""}]
          /\ upward'.addr = a /\ upward'.peer = upward.peer /\ upward'.key = upward.key
      BY <2>4 DEF WgInv, PeersMade
    <3> QED BY <2>1, <2>4, <3>1, SamePeersCounted DEF WgInv, WgSound, PeersMade
  <2> QED BY <2>2, <2>3, <2>4
<1>7. ASSUME NEW a, TunTakes(a) PROVE WgInv'
  BY <1>7, SamePeersCounted DEF TunTakes, WgInv, WgSound, PeersMade
<1>8. CASE UNCHANGED wgVars
  BY <1>8, SamePeersCounted DEF wgVars, WgInv, WgSound, PeersMade
<1> QED
  BY <1>1, <1>2, <1>3, <1>4, <1>5, <1>6, <1>7, <1>8, SetPeerKeeps DEF WgNext

\* Whatever requests come over the control socket between the packets, and
\* however many: the two indexes agree, no key has two peers and no address two
\* owners, and a packet out of the tunnel is from an address its sender was
\* given, though its peer be replaced or gone.  crates/hidravpn-node/src/userspace.rs.
THEOREM WgIsSound == WgSpec => []WgSound
PROOF
<1>1. WgInit => WgInv
  <2> SUFFICES ASSUME WgInit PROVE WgInv
    OBVIOUS
  <2>1. DOMAIN peer_of = {} /\ DOMAIN by_index = {} /\ DOMAIN by_key = {}
    BY DEF WgInit
  <2>2. PeersCounted
    BY <2>1, FS_EmptySet DEF PeersCounted
  <2>3. upward = [peer |-> 0, addr |-> "", key |-> ""] /\ next_index = 1 /\ session = {}
    BY DEF WgInit, Idle0
  <2>4. PeersMade
    BY <2>1, <2>2, <2>3 DEF PeersMade
  <2> QED BY <2>1, <2>3, <2>4 DEF WgInv, WgSound
<1>2. WgInv /\ [WgNext]_wgVars => WgInv'
  BY WgStep
<1>3. WgInv => WgSound
  BY DEF WgInv
<1> QED BY <1>1, <1>2, <1>3, PTL DEF WgSpec
-----------------------------------------------------------------------------
(* The account tokens of a client.                                           *)

\* keep_token's middle step: nothing kept is let go of, and the one read is
\* kept, unless there is none or it is the one to be written.
LEMMA KeepsTheOld ==
  ASSUME previous \in [Names -> Tok], NEW p \in Process, keeps(p)
  PROVE  /\ previous' \in [Names -> Tok]
         /\ KeptTokens \subseteq KeptTokens'
         /\ p.old \in {NoToken, p.token} \cup KeptTokens'
PROOF
<1>p. p.old \in Tok
  BY DEF Process
<1>1. CASE p.old \in {NoToken, p.token} \cup KeptTokens
  <2>1. previous' = previous
    BY <1>1 DEF keeps
  <2> QED BY <1>1, <2>1 DEF KeptTokens
<1>2. CASE p.old \notin {NoToken, p.token} \cup KeptTokens
  <2>1. PICK n \in free_name : previous' = [previous EXCEPT ![n] = p.old]
    BY <1>2 DEF keeps
  <2>2. n \in Names /\ previous[n] = NoToken
    BY DEF free_name
  <2>3. previous' \in [Names -> Tok] /\ previous'[n] = p.old
    BY <2>1, <2>2, <1>p
  <2>4. ASSUME NEW k \in KeptTokens PROVE k \in KeptTokens'
    <3>1. PICK m \in Names : k = previous[m]
      BY DEF KeptTokens
    <3>2. k # NoToken
      BY DEF KeptTokens
    <3>3. previous'[m] = k
      BY <2>1, <2>2, <3>1, <3>2
    <3> QED BY <3>2, <3>3 DEF KeptTokens
  <2>5. p.old \in KeptTokens'
    BY <1>2, <2>2, <2>3 DEF KeptTokens
  <2> QED BY <2>3, <2>4, <2>5
<1> QED BY <1>1, <1>2

\* A command under way holds the lock, so every other one has not begun or is
\* over.
LEMMA OthersAtRest ==
  ASSUME OrdersInv, NEW s \in Shells, file_lock \in {s, Nobody}
  PROVE  \A u \in Shells \ {s} : shell[u].pc \in {"start", "over"}
PROOF BY OrdersConstants DEF OrdersInv, Alone

\* What a step of a command must see to for the tokens to be kept.
LEMMA CommandKeeps ==
  ASSUME OrdersInv, InTurn, OrdersTyped', NEW s \in Shells, NEW q \in Process,
         shell' = [shell EXCEPT ![s] = q], setting' = setting, q.pc # shell[s].pc,
         file_lock \in {s, Nobody},
         file_lock' = s \/ (q.pc = "over" /\ file_lock' = Nobody),
         KeptTokens \subseteq KeptTokens',
         pass_token \in {NoToken, pass_token'} \cup KeptTokens',
         Midway(q) => q.old = pass_token',
         q.pc = "write" => q.old \in {NoToken, q.token} \cup KeptTokens',
         q.pc = "quote" => q.token = pass_token' /\ pass_token' # NoToken,
         \A o \in issued_orders' : o.token = pass_token' \/ \E i \in issued_orders : i.token = o.token
  PROVE  OrdersInv'
PROOF
<1>s. shell \in [Shells -> Process] /\ setting \in [SvcSets -> Process]
  BY DEF OrdersInv, OrdersTyped
<1>q. shell'[s] = q /\ \A u \in Shells \ {s} : shell'[u] = shell[u]
  BY <1>s
<1>r. \A t \in SvcSets : setting[t].pc \in {"start", "over"}
  BY <1>q DEF InTurn
<1>o. \A u \in Shells \ {s} : shell'[u].pc \in {"start", "over"}
  BY <1>q, OthersAtRest
<1>1. Alone'
  <2>1. ASSUME NEW u \in Shells, shell'[u].pc \notin {"start", "over"} PROVE file_lock' = u
    <3>1. u = s
      BY <2>1, <1>o
    <3> QED BY <2>1, <3>1, <1>q
  <2>2. \A t \in SvcSets : ~Midway(setting'[t])
    BY <1>r DEF Midway
  <2> QED BY <2>1, <2>2 DEF Alone, Midway
<1>2. ReadsAreFresh'
  <2>1. ASSUME NEW u \in Shells
        PROVE  OldIsKept(shell[u])' /\ ((shell[u].pc = "quote")' => (shell[u].token = pass_token /\ pass_token # NoToken)')
    <3>1. CASE u = s
      BY <3>1, <1>q DEF OldIsKept, Midway
    <3>2. CASE u # s
      <4>1. shell'[u].pc \in {"start", "over"}
        BY <3>2, <1>o
      <4> QED BY <4>1 DEF OldIsKept, Midway
    <3> QED BY <3>1, <3>2
  <2>2. ASSUME NEW t \in SvcSets
        PROVE  OldIsKept(setting[t])' /\ (setting[t].pc \in {"start", "keep", "write", "over"})'
    BY <1>r DEF OldIsKept, Midway
  <2> QED BY <2>1, <2>2 DEF ReadsAreFresh
<1>3. TokensKept'
  <2>1. ASSUME NEW o \in issued_orders' PROVE (o.token \in KeptTokens \cup {pass_token})'
    <3>1. CASE o.token = pass_token'
      BY <3>1
    <3>2. CASE o.token # pass_token'
      <4>1. PICK i \in issued_orders : i.token = o.token
        BY <3>2
      <4>2. i.token \in KeptTokens \cup {pass_token}
        BY DEF OrdersInv, TokensKept
      <4>3. i.token # NoToken
        BY OrdersConstants DEF OrdersInv, OrdersTyped
      <4> QED BY <4>1, <4>2, <4>3
    <3> QED BY <3>1, <3>2
  <2> QED BY <2>1 DEF TokensKept
<1> QED BY <1>1, <1>2, <1>3 DEF OrdersInv

\* Who is under way holds the lock, and gives it back when it ends.
LEMMA LockGiven ==
  ASSUME OrdersInv, NEW s \in Shells, shell[s].pc \notin {"start", "over"}
  PROVE  file_lock = s /\ (Free(s) => file_lock' = Nobody)
PROOF BY DEF OrdersInv, Alone, Free

\* The service's three steps, none of a command between them.
LEMMA ServiceKeeps ==
  ASSUME OrdersInv, InTurn, NEW t \in SvcSets, SvcToken(t)
  PROVE  OrdersInv'
PROOF
<1> DEFINE p == setting[t]
<1>u. UNCHANGED <<order_file, list_wallet, file_lock, shell, issued_orders, lists_seen>>
  BY DEF SvcToken
<1>t. OrdersTyped /\ p \in Process /\ t \in Tok /\ setting \in [SvcSets -> Process]
  BY OrdersConstants DEF OrdersInv, OrdersTyped, Tok
<1>p. PICK q \in Process :
        /\ setting' = [setting EXCEPT ![t] = q] /\ q.pc # p.pc
        /\ previous' \in [Names -> Tok] /\ KeptTokens \subseteq KeptTokens'
        /\ pass_token' \in Tok /\ pass_token \in {NoToken, pass_token'} \cup KeptTokens'
        /\ q.pc \in {"keep", "write", "over"} /\ (Midway(q) => q.token = t /\ q.old = pass_token')
        /\ (q.pc = "write" => q.old \in {NoToken, q.token} \cup KeptTokens')
  <2>1. CASE p.pc = "start"
    <3> DEFINE q == [p EXCEPT !.pc = "keep", !.token = t, !.old = pass_token]
    <3>1. q \in Process /\ q.pc = "keep" /\ q.token = t /\ q.old = pass_token
      BY <1>t DEF Process, OrdersTyped
    <3>2. setting' = [setting EXCEPT ![t] = q] /\ UNCHANGED <<pass_token, previous>>
      BY <2>1, <1>t DEF SvcToken, ReadOld
    <3> HIDE DEF q
    <3>3. KeptTokens' = KeptTokens
      BY <3>2 DEF KeptTokens
    <3> QED BY <2>1, <1>t, <3>1, <3>2, <3>3 DEF OrdersTyped
  <2>2. CASE p.pc = "keep"
    <3> DEFINE q == [p EXCEPT !.pc = "write"]
    <3>1. q \in Process /\ q.pc = "write" /\ q.token = p.token /\ q.old = p.old
      BY <1>t DEF Process
    <3>2. setting' = [setting EXCEPT ![t] = q] /\ UNCHANGED pass_token /\ keeps(p)
      BY <2>2, <1>t DEF SvcToken
    <3>3. p.token = t /\ p.old = pass_token
      BY <2>2 DEF OrdersInv, Alone, ReadsAreFresh, OldIsKept, Midway
    <3>4. /\ previous' \in [Names -> Tok] /\ KeptTokens \subseteq KeptTokens'
          /\ p.old \in {NoToken, p.token} \cup KeptTokens'
      BY <1>t, <3>2, KeepsTheOld DEF OrdersTyped
    <3> HIDE DEF q, p
    <3> QED BY <2>2, <1>t, <3>1, <3>2, <3>3, <3>4 DEF OrdersTyped
  <2>3. CASE p.pc = "write"
    <3> DEFINE q == [p EXCEPT !.pc = "over"]
    <3>1. q \in Process /\ q.pc = "over"
      BY <1>t DEF Process
    <3>2. setting' = [setting EXCEPT ![t] = q] /\ pass_token' = t /\ UNCHANGED previous
      BY <2>3, <1>t DEF SvcToken
    <3>3. p.token = t /\ p.old = pass_token /\ p.old \in {NoToken, p.token} \cup KeptTokens
      BY <2>3 DEF OrdersInv, Alone, ReadsAreFresh, OldIsKept, Midway
    <3>4. KeptTokens' = KeptTokens
      BY <3>2 DEF KeptTokens
    <3> HIDE DEF q, p
    <3> QED BY <2>3, <1>t, <3>1, <3>2, <3>3, <3>4 DEF OrdersTyped, Midway
  <2> QED BY <2>1, <2>2, <2>3 DEF SvcToken
<1>q. setting'[t] = q /\ setting'[t] # setting[t] /\ \A v \in SvcSets \ {t} : setting'[v] = setting[v]
  BY <1>p, <1>t
<1>n. file_lock = Nobody /\ \A v \in SvcSets \ {t} : setting[v].pc \in {"start", "over"}
  BY <1>q DEF InTurn
<1>s. \A s \in Shells : shell[s].pc \in {"start", "over"}
  BY <1>n, OrdersConstants DEF OrdersInv, Alone
<1> HIDE DEF p
<1>1. OrdersTyped'
  BY <1>u, <1>t, <1>p DEF OrdersTyped
<1>2. Alone'
  BY <1>u, <1>p, <1>q, <1>n, <1>s DEF Alone, Midway
<1>3. ReadsAreFresh'
  <2>1. ASSUME NEW s \in Shells
        PROVE  OldIsKept(shell[s])' /\ ((shell[s].pc = "quote")' => (shell[s].token = pass_token /\ pass_token # NoToken)')
    BY <1>u, <1>s DEF OldIsKept, Midway
  <2>2. ASSUME NEW v \in SvcSets
        PROVE  OldIsKept(setting[v])' /\ (setting[v].pc \in {"start", "keep", "write", "over"})'
    BY <1>p, <1>q, <1>n DEF OldIsKept, Midway
  <2> QED BY <2>1, <2>2 DEF ReadsAreFresh
<1>4. TokensKept'
  <2>1. \A o \in issued_orders : o.token # NoToken
    BY OrdersConstants DEF OrdersInv, OrdersTyped
  <2> QED BY <1>u, <1>p, <2>1 DEF OrdersInv, TokensKept
<1> QED BY <1>1, <1>2, <1>3, <1>4 DEF OrdersInv

LEMMA OrdersStep ==
  ASSUME OrdersInv, OrdersNext, InTurn
  PROVE  OrdersInv'
PROOF
<1>t. OrdersTyped
  BY DEF OrdersInv
<1>i. \A o \in issued_orders : o.token = pass_token \/ \E i \in issued_orders : i.token = o.token
  OBVIOUS
<1>k. ASSUME previous' = previous PROVE KeptTokens' = KeptTokens
  BY <1>k DEF KeptTokens
<1>c. Typed \cup SvcSets \subseteq AccountTokens
  BY OrdersConstants
<1>1. ASSUME NEW s \in Shells, NEW t \in Typed, TokenStart(s, t) PROVE OrdersInv'
  <2> DEFINE q == [shell[s] EXCEPT !.pc = "keep", !.token = t, !.old = pass_token]
  <2>1. shell' = [shell EXCEPT ![s] = q]
    BY <1>1, <1>t DEF TokenStart, ReadOld, OrdersTyped
  <2>2. q \in Process /\ q.pc = "keep" /\ q.old = pass_token
    BY <1>t, <1>c DEF OrdersTyped, Process, Tok
  <2>3. OrdersTyped'
    BY <1>1, <2>1, <2>2, <1>t DEF TokenStart, OrdersTyped
  <2> HIDE DEF q
  <2> QED BY <1>1, <1>i, <1>k, <2>1, <2>2, <2>3, CommandKeeps DEF TokenStart
<1>2. ASSUME NEW s \in Shells, TokenKeep(s) PROVE OrdersInv'
  <2> DEFINE q == [shell[s] EXCEPT !.pc = "write"]
  <2>1. shell' = [shell EXCEPT ![s] = q] /\ shell[s] \in Process
    BY <1>2, <1>t DEF TokenKeep, OrdersTyped
  <2>2. q \in Process /\ q.pc = "write" /\ q.old = shell[s].old /\ q.token = shell[s].token
    BY <2>1 DEF Process
  <2>3. /\ previous' \in [Names -> Tok] /\ KeptTokens \subseteq KeptTokens'
        /\ q.old \in {NoToken, q.token} \cup KeptTokens'
    BY <1>2, <2>1, <2>2, <1>t, KeepsTheOld DEF TokenKeep, OrdersTyped
  <2>4. shell[s].pc = "keep" /\ shell[s].old = pass_token /\ file_lock = s
    BY <1>2 DEF TokenKeep, OrdersInv, ReadsAreFresh, OldIsKept, Midway, Alone
  <2> HIDE DEF q
  <2>5. OrdersTyped'
    BY <1>2, <2>1, <2>2, <2>3, <1>t DEF TokenKeep, OrdersTyped
  <2> QED BY <1>2, <1>i, <2>1, <2>2, <2>3, <2>4, <2>5, CommandKeeps DEF TokenKeep
<1>3. ASSUME NEW s \in Shells, TokenWrite(s) PROVE OrdersInv'
  <2> DEFINE q == [shell[s] EXCEPT !.pc = "over"]
  <2>1. shell' = [shell EXCEPT ![s] = q] /\ shell[s] \in Process
    BY <1>3, <1>t DEF TokenWrite, Over, OrdersTyped
  <2>2. q \in Process /\ q.pc = "over" /\ shell[s].token \in Tok
    BY <2>1 DEF Process
  <2>3. /\ shell[s].pc = "write" /\ shell[s].old = pass_token
        /\ pass_token \in {NoToken, shell[s].token} \cup KeptTokens
    BY <1>3 DEF TokenWrite, OrdersInv, ReadsAreFresh, OldIsKept, Midway
  <2>4. file_lock = s /\ file_lock' = Nobody
    BY <1>3, <2>3, LockGiven DEF TokenWrite, Over
  <2> HIDE DEF q
  <2>5. OrdersTyped'
    BY <1>3, <2>1, <2>2, <2>4, <1>t DEF TokenWrite, OrdersTyped
  <2>6. \A o \in issued_orders' : \E i \in issued_orders : i.token = o.token
    BY <1>3 DEF TokenWrite
  <2>7. pass_token' = shell[s].token /\ KeptTokens' = KeptTokens /\ setting' = setting
    BY <1>3, <1>k DEF TokenWrite
  <2> QED BY <2>1, <2>2, <2>3, <2>4, <2>5, <2>6, <2>7, CommandKeeps DEF Midway
<1>4. ASSUME NEW s \in Shells, NEW r \in BOOLEAN, BuyStart(s, r) PROVE OrdersInv'
  <2> DEFINE q == [shell[s] EXCEPT !.pc = "buy"]
  <2>1. shell' = [shell EXCEPT ![s] = q] /\ shell[s] \in Process
    BY <1>4, <1>t DEF BuyStart, OrdersTyped
  <2>2. q \in Process /\ q.pc = "buy"
    BY <2>1 DEF Process
  <2> HIDE DEF q
  <2>3. OrdersTyped'
    BY <1>4, <2>1, <2>2, <1>t DEF BuyStart, OrdersTyped
  <2> QED BY <1>4, <1>i, <1>k, <2>1, <2>2, <2>3, CommandKeeps DEF BuyStart, Midway
<1>5. ASSUME NEW s \in Shells, NEW a \in Amounts, ClaimStart(s, a) PROVE OrdersInv'
  <2> DEFINE q == [shell[s] EXCEPT !.pc = "claim", !.token = pass_token, !.order = order_file, !.amount = a]
  <2>1. shell' = [shell EXCEPT ![s] = q] /\ shell[s] \in Process
    BY <1>5, <1>t DEF ClaimStart, OrdersTyped
  <2>2. q \in Process /\ q.pc = "claim"
    BY <2>1, <1>t DEF Process, OrdersTyped
  <2> HIDE DEF q
  <2>3. file_lock' = s /\ UNCHANGED <<pass_token, previous, order_file, list_wallet, setting, issued_orders>>
    BY <1>5 DEF ClaimStart
  <2>4. OrdersTyped'
    BY <2>1, <2>2, <2>3, <1>t DEF OrdersTyped
  <2> QED BY <1>5, <1>i, <1>k, <2>1, <2>2, <2>4, CommandKeeps DEF ClaimStart, Midway
<1>6. ASSUME NEW s \in Shells, token_for_purchase(s) PROVE OrdersInv'
  <2>1. PICK t \in AccountTokens :
          /\ pass_token' = t /\ (pass_token = NoToken \/ pass_token = t)
          /\ shell' = [shell EXCEPT ![s].pc = "quote", ![s].token = t]
    BY <1>6, <1>t DEF token_for_purchase, Unused, Made, OrdersTyped, Tok
  <2> DEFINE q == [shell[s] EXCEPT !.pc = "quote", !.token = t]
  <2>2. shell' = [shell EXCEPT ![s] = q] /\ shell[s] \in Process
    BY <2>1, <1>t DEF OrdersTyped
  <2>3. q \in Process /\ q.pc = "quote" /\ q.token = t /\ t # NoToken
    BY <2>2, OrdersConstants DEF Process, Tok
  <2> HIDE DEF q
  <2>a. UNCHANGED <<previous, order_file, list_wallet, file_lock, setting, issued_orders>>
    BY <1>6 DEF token_for_purchase
  <2>b. pass_token' \in Tok /\ shell' \in [Shells -> Process]
    BY <2>1, <2>2, <2>3, <1>t DEF OrdersTyped, Tok
  <2>4. OrdersTyped'
    BY <2>a, <2>b, <1>t DEF OrdersTyped
  <2>5. shell[s].pc = "buy" /\ file_lock = s
    BY <1>6, LockGiven DEF token_for_purchase
  <2>6. \A o \in issued_orders' : \E i \in issued_orders : i.token = o.token
    BY <1>6 DEF token_for_purchase
  <2>7. KeptTokens' = KeptTokens /\ setting' = setting /\ file_lock' = file_lock
    BY <1>6, <1>k DEF token_for_purchase
  <2> QED BY <2>1, <2>2, <2>3, <2>4, <2>5, <2>6, <2>7, CommandKeeps DEF Midway
<1>7. ASSUME NEW s \in Shells, NEW w \in Wallets, Quote(s, w) PROVE OrdersInv'
  <2> DEFINE a == Cardinality(issued_orders) + 1
             o == [token |-> shell[s].token, amount |-> a, paid |-> FALSE, credited |-> FALSE]
             q == [shell[s] EXCEPT !.pc = "order", !.order = Order(shell[s].token, a, list_wallet)]
             z == [shell[s] EXCEPT !.pc = "over"]
  <2>1. a \in Amounts /\ issued_orders' = issued_orders \cup {o}
    BY <1>7 DEF Quote
  <2>2. shell[s].pc = "quote" /\ shell[s].token = pass_token /\ pass_token # NoToken
    BY <1>7 DEF Quote, OrdersInv, ReadsAreFresh
  <2>3. file_lock = s /\ (Free(s) => file_lock' = Nobody) /\ shell[s] \in Process
    BY <2>2, <1>t, LockGiven DEF OrdersTyped
  <2>4. \/ shell' = [shell EXCEPT ![s] = q] /\ file_lock' = s
        \/ shell' = [shell EXCEPT ![s] = z] /\ file_lock' = Nobody
    BY <1>7, <1>t, <2>3 DEF Quote, Over, OrdersTyped
  <2>5. UNCHANGED <<pass_token, previous, order_file, list_wallet, setting, lists_seen>>
    BY <1>7 DEF Quote
  <2> HIDE DEF a
  <2>6. o \in [token : AccountTokens, amount : Amounts, paid : BOOLEAN, credited : BOOLEAN] /\ o.token = pass_token
    BY <2>1, <2>2, <1>t DEF OrdersTyped, Tok
  <2>7. Order(shell[s].token, a, list_wallet) \in AnyOrder
    BY <2>1, <2>2, <1>t DEF OrdersTyped, Order, AnyOrder
  <2>8. q \in Process /\ q.pc = "order" /\ z \in Process /\ z.pc = "over"
    BY <2>3, <2>7 DEF Process
  <2> HIDE DEF q, z, o
  <2>9. OrdersTyped'
    BY <2>1, <2>3, <2>4, <2>5, <2>6, <2>8, <1>t DEF OrdersTyped
  <2>10. \A i \in issued_orders' : i.token = pass_token' \/ \E j \in issued_orders : j.token = i.token
    BY <2>1, <2>5, <2>6
  <2>11. KeptTokens' = KeptTokens
    BY <2>5, <1>k
  <2>12. CASE shell' = [shell EXCEPT ![s] = q] /\ file_lock' = s
    BY <2>12, <2>2, <2>3, <2>5, <2>8, <2>9, <2>10, <2>11, CommandKeeps DEF Midway
  <2>13. CASE shell' = [shell EXCEPT ![s] = z] /\ file_lock' = Nobody
    BY <2>13, <2>2, <2>3, <2>5, <2>8, <2>9, <2>10, <2>11, CommandKeeps DEF Midway
  <2> QED BY <2>4, <2>12, <2>13
<1>8. ASSUME NEW s \in Shells, KeepOrder(s) \/ RemoveOrder(s) \/ Killed(s) PROVE OrdersInv'
  <2> DEFINE z == [shell[s] EXCEPT !.pc = "over"]
  <2>1. shell' = [shell EXCEPT ![s] = z] /\ shell[s] \in Process /\ Free(s)
    BY <1>8, <1>t DEF KeepOrder, RemoveOrder, Killed, Over, OrdersTyped
  <2>2. shell[s].pc \notin {"start", "over"}
    BY <1>8 DEF KeepOrder, RemoveOrder, Killed
  <2>3. file_lock = s /\ file_lock' = Nobody
    BY <2>1, <2>2, LockGiven
  <2>4. z \in Process /\ z.pc = "over" /\ shell[s].order \in AnyOrder
    BY <2>1 DEF Process
  <2>5. UNCHANGED <<pass_token, previous, list_wallet, setting, issued_orders, lists_seen>>
    BY <1>8 DEF KeepOrder, RemoveOrder, Killed
  <2>6. order_file' \in AnyOrder
    BY <1>8, <1>t, <2>4 DEF KeepOrder, RemoveOrder, Killed, OrdersTyped, AnyOrder
  <2> HIDE DEF z
  <2>7. OrdersTyped'
    BY <2>1, <2>3, <2>4, <2>5, <2>6, <1>t DEF OrdersTyped
  <2> QED BY <2>1, <2>2, <2>3, <2>4, <2>5, <2>7, <1>k, CommandKeeps DEF Midway
<1>9. ASSUME NEW s \in Shells, SendClaim(s) PROVE OrdersInv'
  <2> DEFINE q == [shell[s] EXCEPT !.pc = "remove"]
             z == [shell[s] EXCEPT !.pc = "over"]
             mine == {o \in issued_orders : paid_by(o, shell[s].token, shell[s].amount)}
             f(o) == IF o \in mine THEN [o EXCEPT !.credited = TRUE] ELSE o
             Issued == [token : AccountTokens, amount : Amounts, paid : BOOLEAN, credited : BOOLEAN]
  <2>1. shell[s].pc = "claim" /\ issued_orders' = {f(o) : o \in issued_orders}
    BY <1>9 DEF SendClaim
  <2>2. ASSUME NEW o \in issued_orders PROVE f(o) \in Issued /\ f(o).token = o.token
    <3>1. o \in Issued
      BY <1>t DEF OrdersTyped
    <3>2. [o EXCEPT !.credited = TRUE] \in Issued /\ [o EXCEPT !.credited = TRUE].token = o.token
      BY <3>1
    <3> QED BY <3>1, <3>2
  <2>3. file_lock = s /\ (Free(s) => file_lock' = Nobody) /\ shell[s] \in Process
    BY <2>1, <1>t, LockGiven DEF OrdersTyped
  <2>4. \/ shell' = [shell EXCEPT ![s] = q] /\ file_lock' = s
        \/ shell' = [shell EXCEPT ![s] = z] /\ file_lock' = Nobody
    BY <1>9, <1>t, <2>3 DEF SendClaim, Over, OrdersTyped
  <2>5. UNCHANGED <<pass_token, previous, order_file, list_wallet, setting, lists_seen>>
    BY <1>9 DEF SendClaim
  <2>6. q \in Process /\ q.pc = "remove" /\ z \in Process /\ z.pc = "over"
    BY <2>3 DEF Process
  <2> HIDE DEF q, z, f
  <2>7. issued_orders' \subseteq Issued /\ \A i \in issued_orders' : \E j \in issued_orders : j.token = i.token
    BY <2>1, <2>2
  <2>8. OrdersTyped'
    BY <2>3, <2>4, <2>5, <2>6, <2>7, <1>t DEF OrdersTyped
  <2>9. KeptTokens' = KeptTokens
    BY <2>5, <1>k
  <2>10. CASE shell' = [shell EXCEPT ![s] = q] /\ file_lock' = s
    BY <2>10, <2>1, <2>3, <2>5, <2>6, <2>7, <2>8, <2>9, CommandKeeps DEF Midway
  <2>11. CASE shell' = [shell EXCEPT ![s] = z] /\ file_lock' = Nobody
    BY <2>11, <2>1, <2>3, <2>5, <2>6, <2>7, <2>8, <2>9, CommandKeeps DEF Midway
  <2> QED BY <2>4, <2>10, <2>11
<1>10. ASSUME NEW t \in SvcSets, SvcToken(t) PROVE OrdersInv'
  BY <1>10, ServiceKeeps
<1>11. ASSUME NEW o \in issued_orders, PayAmount(o) PROVE OrdersInv'
  <2> DEFINE Issued == [token : AccountTokens, amount : Amounts, paid : BOOLEAN, credited : BOOLEAN]
             p == [o EXCEPT !.paid = TRUE]
  <2>1. p \in Issued /\ p.token = o.token
    BY <1>t DEF OrdersTyped
  <2> HIDE DEF p
  <2>2. issued_orders' = (issued_orders \ {o}) \cup {p}
    BY <1>11 DEF PayAmount, p
  <2>3. UNCHANGED <<pass_token, previous, order_file, list_wallet, file_lock, shell, setting>>
    BY <1>11 DEF PayAmount
  <2>4. OrdersTyped'
    BY <2>1, <2>2, <2>3, <1>t DEF OrdersTyped
  <2>5. KeptTokens' = KeptTokens
    BY <2>3, <1>k
  <2>6. TokensKept'
    BY <2>1, <2>2, <2>3, <2>5 DEF TokensKept, OrdersInv
  <2>7. Alone' /\ ReadsAreFresh'
    BY <2>3, <2>5 DEF OrdersInv, Alone, ReadsAreFresh, OldIsKept, Midway
  <2> QED BY <2>4, <2>6, <2>7 DEF OrdersInv
<1>12. ASSUME NEW w \in Wallets, ImportList(w) PROVE OrdersInv'
  <2>1. UNCHANGED <<pass_token, previous, order_file, file_lock, shell, setting, issued_orders>> /\ list_wallet' = w
    BY <1>12 DEF ImportList
  <2>2. KeptTokens' = KeptTokens
    BY <2>1, <1>k
  <2> QED BY <2>1, <2>2 DEF OrdersInv, OrdersTyped, TokensKept, Alone, ReadsAreFresh, OldIsKept, Midway
<1> QED
  BY <1>1, <1>2, <1>3, <1>4, <1>5, <1>6, <1>7, <1>8, <1>9, <1>10, <1>11, <1>12, Zenon DEF OrdersNext

\* However often a token is made, typed in, replaced or given to the service,
\* and wherever a command is killed: the token of a paid order is still on the
\* machine, if the service's keep_token, which takes no lock, runs between the
\* commands (what comes of it otherwise is the run token_lost).
\* crates/hidravpn-service/src/passes.rs.
THEOREM PaidTokenIsKept == OrdersInTurn => []PaidTokenKept
PROOF
<1>1. OrdersInit => OrdersInv
  <2> SUFFICES ASSUME OrdersInit PROVE OrdersInv
    OBVIOUS
  <2>1. Rest \in Process /\ Rest.pc = "start"
    BY DEF Rest, Process, Tok, AnyOrder
  <2> HIDE DEF Rest
  <2>2. \A s \in Shells : shell[s] = Rest
    BY DEF OrdersInit
  <2>3. \A t \in SvcSets : setting[t] = Rest
    BY DEF OrdersInit
  <2>4. OrdersTyped
    BY <2>1, OrdersConstants DEF OrdersInit, OrdersTyped, Tok, AnyOrder
  <2>5. Alone /\ ReadsAreFresh
    BY <2>1, <2>2, <2>3 DEF Alone, ReadsAreFresh, OldIsKept, Midway
  <2> QED BY <2>4, <2>5 DEF OrdersInv, TokensKept, OrdersInit
<1>2. OrdersInv /\ [OrdersNext /\ InTurn]_orderVars => OrdersInv'
  <2>1. CASE UNCHANGED orderVars
    BY <2>1 DEF orderVars, OrdersInv, OrdersTyped, Alone, ReadsAreFresh, OldIsKept, Midway, TokensKept, KeptTokens
  <2> QED BY <2>1, OrdersStep
<1>3. OrdersInv => PaidTokenKept
  BY DEF OrdersInv, TokensKept, PaidTokenKept
<1> QED BY <1>1, <1>2, <1>3, PTL DEF OrdersInTurn
-----------------------------------------------------------------------------
(* The issuer's accounts.                                                    *)

AnyIssue == [pc : {"none", "asked", "charge", "sign", "refund", "answer"}, n : Nat, day : Int]
AnyFetch == [pc : {"idle", "chunk", "asking", "stopped"}, left : Int, got : Nat, asked : {0}]

\* What a request adds to those in hand, and what an account has left to give.
charged(r) == IF r.pc \in {"sign", "refund"} THEN r.n ELSE 0
balance_of(a) == IF a # NoAccount /\ prepaid(a) THEN a.balance ELSE 0

LEMMA Counting ==
  ASSUME AccountsTyped
  PROVE  /\ InHand \subseteq Machines /\ IsFiniteSet(InHand) /\ in_hand \in Int
         /\ \A m \in Machines : issue[m].n \in Int
PROOF
<1>1. InHand \subseteq Machines /\ IsFiniteSet(InHand)
  BY AccountConstants, FS_Subset DEF InHand
<1>2. \A m \in Machines : issue[m].n \in Int
  BY DEF AccountsTyped
<1> DEFINE f == [m \in Machines |-> issue[m].n]
<1>3. \A m \in InHand : f[m] \in Int
  BY <1>1, <1>2
<1> HIDE DEF f
<1>4. SumOf(f, InHand) \in Int
  BY <1>1, <1>3, SumIsInt
<1> QED BY <1>1, <1>2, <1>4 DEF in_hand, f

\* One request moves on: the sum changes by what it counts.
LEMMA HandMoves ==
  ASSUME AccountsTyped, NEW m \in Machines, NEW q \in AnyIssue, issue' = [issue EXCEPT ![m] = q]
  PROVE  in_hand' = in_hand - charged(issue[m]) + charged(q)
PROOF
<1> DEFINE f == [x \in Machines |-> issue[x].n]
           g == [x \in Machines |-> issue'[x].n]
           R == InHand \ {m}
<1>t. issue \in [Machines -> AnyIssue]
  BY DEF AccountsTyped, AnyIssue
<1>i. issue'[m] = q /\ \A x \in Machines \ {m} : issue'[x] = issue[x]
  BY <1>t
<1>1. InHand \subseteq Machines /\ IsFiniteSet(InHand) /\ IsFiniteSet(R) /\ m \notin R
  BY Counting, FS_Subset
<1>2. InHand' = {x \in Machines : issue'[x].pc \in {"sign", "refund"}}
  BY DEF InHand
<1>3. InHand = IF issue[m].pc \in {"sign", "refund"} THEN R \cup {m} ELSE R
  BY DEF InHand
<1>4. InHand' = IF q.pc \in {"sign", "refund"} THEN R \cup {m} ELSE R
  BY <1>2, <1>i DEF InHand
<1>5. \A x \in R : f[x] = g[x] /\ f[x] \in Int /\ g[x] \in Int
  BY <1>1, <1>i, Counting
<1>6. f[m] = issue[m].n /\ g[m] = q.n /\ f[m] \in Int /\ g[m] \in Int
  BY <1>i, <1>t DEF AnyIssue
<1>7. in_hand = SumOf(f, InHand) /\ in_hand' = SumOf(g, InHand')
  BY DEF in_hand
<1> HIDE DEF f, g, R
<1>8. SumOf(f, R) = SumOf(g, R) /\ SumOf(f, R) \in Int
  BY <1>1, <1>5, SumSame, SumIsInt
<1>9. SumOf(f, R \cup {m}) = f[m] + SumOf(f, R) /\ SumOf(g, R \cup {m}) = g[m] + SumOf(g, R)
  <2>1. SumOf(f, R \cup {m}) = f[m] + SumOf(f, R)
    BY <1>1, <1>5, <1>6, SumWith
  <2>2. SumOf(g, R \cup {m}) = g[m] + SumOf(g, R)
    BY <1>1, <1>5, <1>6, SumWith
  <2> QED BY <2>1, <2>2
<1>10. in_hand = charged(issue[m]) + SumOf(f, R)
  BY <1>3, <1>6, <1>7, <1>8, <1>9 DEF charged
<1>11. in_hand' = charged(q) + SumOf(f, R)
  BY <1>4, <1>6, <1>7, <1>8, <1>9 DEF charged
<1>12. charged(q) \in Int /\ charged(issue[m]) \in Int
  BY <1>6 DEF charged
<1> QED BY <1>8, <1>10, <1>11, <1>12

\* The account after each change of it.
LEMMA Credited ==
  ASSUME NEW a \in AnyAccount \cup {NoAccount}, NEW n \in Int
  PROVE  credit(a, n) \in AnyAccount /\ balance_of(credit(a, n)) = balance_of(a) + n
PROOF
<1> USE AccountConstants
<1>1. CASE a = NoAccount
  <2>1. credit(a, n) \in AnyAccount /\ credit(a, n).balance = n
    BY <1>1 DEF credit, AnyAccount
  <2> QED BY <1>1, <2>1 DEF balance_of, prepaid, AnyAccount
<1>2. CASE a \in AnyAccount
  <2>1. a # NoAccount /\ a.balance \in Int \cup {NoBalance}
    BY <1>2 DEF AnyAccount
  <2> DEFINE b == IF a.balance = NoBalance THEN n ELSE a.balance + n
  <2>2. b \in Int
    BY <2>1
  <2>3. credit(a, n) = [a EXCEPT !.balance = b]
    BY <2>1, <1>2 DEF credit, AnyAccount
  <2>4. credit(a, n) \in AnyAccount /\ credit(a, n).balance = b
    BY <1>2, <2>2, <2>3 DEF AnyAccount
  <2> QED BY <2>1, <2>2, <2>4 DEF balance_of, prepaid, AnyAccount
<1> QED BY <1>1, <1>2

LEMMA Rolled ==
  ASSUME NEW a \in AnyAccount, NEW d \in Int
  PROVE  rolled(a, d) \in AnyAccount /\ rolled(a, d).balance = a.balance /\ (prepaid(rolled(a, d)) <=> prepaid(a))
PROOF
<1> DEFINE r == [a EXCEPT !.day = d, !.used = 0]
<1>1. r \in AnyAccount
  <2> DEFINE x == [a EXCEPT !.day = d]
  <2>1. x \in AnyAccount
    BY DEF AnyAccount
  <2>2. r = [x EXCEPT !.used = 0]
    BY DEF AnyAccount
  <2> HIDE DEF x, r
  <2> QED BY <2>1, <2>2 DEF AnyAccount
<1>2. r.balance = a.balance
  BY DEF AnyAccount
<1>3. rolled(a, d) \in {a, r}
  BY DEF rolled
<1> HIDE DEF r
<1> QED BY <1>1, <1>2, <1>3 DEF prepaid

LEMMA Charged ==
  ASSUME NEW a \in AnyAccount, NEW n \in Nat, NEW d \in Int
  PROVE  /\ charge(a, n, d) \in AnyAccount /\ balance_of(a) \in Int
         /\ balance_of(charge(a, n, d)) = IF may_charge(a, n, d) /\ prepaid(a) THEN balance_of(a) - n ELSE balance_of(a)
PROOF
<1> USE AccountConstants
<1> DEFINE r == rolled(a, d)
           p == [r EXCEPT !.balance = @ - n]
           u == [r EXCEPT !.used = @ + n]
<1>1. r \in AnyAccount /\ r.balance = a.balance /\ (prepaid(r) <=> prepaid(a))
  BY Rolled
<1>2. a # NoAccount /\ r # NoAccount /\ a.balance \in Int \cup {NoBalance}
  BY <1>1 DEF AnyAccount
<1>3. balance_of(a) \in Int /\ balance_of(r) = balance_of(a)
  BY <1>1, <1>2 DEF balance_of, prepaid
<1>c. charge(a, n, d) = IF ~a.enabled THEN a ELSE IF n > left_on(r) THEN r ELSE IF prepaid(r) THEN p ELSE u
  BY DEF charge
<1>m. may_charge(a, n, d) <=> a.enabled /\ n <= left_on(r)
  BY DEF may_charge
<1>l. left_on(r) \in Int
  BY <1>1, <1>2 DEF left_on, prepaid, minus, AnyAccount
<1>e. a.enabled \in BOOLEAN
  BY DEF AnyAccount
<1> HIDE DEF r
<1>4. ASSUME prepaid(r) PROVE p \in AnyAccount /\ p.balance = r.balance - n /\ r.balance \in Int
  <2>1. r.balance \in Int
    BY <1>1, <1>2, <1>4 DEF prepaid
  <2>2. r.balance - n \in Int
    BY <2>1
  <2> QED BY <1>1, <2>1, <2>2 DEF AnyAccount
<1>5. u \in AnyAccount /\ u.balance = r.balance
  <2>1. r.used + n \in Int
    BY <1>1 DEF AnyAccount
  <2> QED BY <1>1, <2>1 DEF AnyAccount
<1> HIDE DEF p, u
<1>6. CASE ~may_charge(a, n, d)
  <2>1. charge(a, n, d) \in {a, r}
    BY <1>6, <1>c, <1>m, <1>l, <1>e
  <2> QED BY <1>6, <2>1, <1>1, <1>3
<1>7. CASE may_charge(a, n, d) /\ prepaid(r)
  <2>1. charge(a, n, d) = p
    BY <1>7, <1>c, <1>m, <1>l, <1>e
  <2>2. p # NoAccount /\ prepaid(p)
    BY <1>4, <1>7 DEF AnyAccount, prepaid
  <2>3. balance_of(p) = r.balance - n /\ balance_of(r) = r.balance
    BY <1>4, <1>7, <1>2, <2>2 DEF balance_of
  <2> QED BY <1>7, <2>1, <2>3, <1>4, <1>1, <1>3
<1>8. CASE may_charge(a, n, d) /\ ~prepaid(r)
  <2>1. charge(a, n, d) = u
    BY <1>8, <1>c, <1>m, <1>l, <1>e
  <2>2. balance_of(u) = 0 /\ balance_of(r) = 0
    BY <1>5, <1>8 DEF balance_of, prepaid
  <2> QED BY <1>8, <2>1, <2>2, <1>5, <1>1, <1>3
<1> QED BY <1>6, <1>7, <1>8

LEMMA Refunded ==
  ASSUME NEW a \in AnyAccount, NEW n \in Nat, NEW d \in Int
  PROVE  /\ refund(a, n, d) \in AnyAccount
         /\ balance_of(refund(a, n, d)) = IF prepaid(a) THEN balance_of(a) + n ELSE balance_of(a)
PROOF
<1> USE AccountConstants
<1> DEFINE p == [a EXCEPT !.balance = @ + n]
           u == [a EXCEPT !.used = minus(@, n)]
<1>1. a # NoAccount /\ a.balance \in Int \cup {NoBalance} /\ a.used \in Int
  BY DEF AnyAccount
<1>2. refund(a, n, d) = IF prepaid(a) THEN p ELSE IF a.day = d THEN u ELSE a
  BY DEF refund
<1>3. ASSUME prepaid(a) PROVE p \in AnyAccount /\ p.balance = a.balance + n /\ a.balance \in Int
  <2>1. a.balance \in Int
    BY <1>1, <1>3 DEF prepaid
  <2>2. a.balance + n \in Int
    BY <2>1
  <2> QED BY <2>1, <2>2 DEF AnyAccount
<1>4. u \in AnyAccount /\ u.balance = a.balance
  <2>1. minus(a.used, n) \in Int
    BY <1>1 DEF minus
  <2> QED BY <2>1 DEF AnyAccount
<1> HIDE DEF p, u
<1>5. CASE prepaid(a)
  <2>1. p # NoAccount /\ prepaid(p)
    BY <1>3, <1>5 DEF AnyAccount, prepaid
  <2>2. balance_of(p) = a.balance + n /\ balance_of(a) = a.balance
    BY <1>1, <1>3, <1>5, <2>1 DEF balance_of
  <2> QED BY <1>2, <1>3, <1>5, <2>2
<1>6. CASE ~prepaid(a)
  <2>1. refund(a, n, d) \in {u, a}
    BY <1>2, <1>6
  <2>2. balance_of(u) = 0 /\ balance_of(a) = 0
    BY <1>4, <1>6 DEF balance_of, prepaid
  <2> QED BY <1>4, <1>6, <2>1, <2>2
<1> QED BY <1>5, <1>6

\* An exact balance, in the terms of the lemmas above.
LEMMA Exact == BalanceExact <=> balance_of(account) + in_hand + signed + lost = topped + onQuota
PROOF BY DEF BalanceExact, balance_of

LEMMA ExactAfter ==
  ASSUME AccountInv, in_hand' \in Int, signed' \in Int, lost' \in Int, topped' \in Int, onQuota' \in Int,
         balance_of(account') \in Int,
         (balance_of(account') - balance_of(account)) + (in_hand' - in_hand) + (signed' - signed) + (lost' - lost)
           = (topped' - topped) + (onQuota' - onQuota)
  PROVE  BalanceExact'
PROOF
<1>1. balance_of(account) \in Int
  BY AccountConstants DEF AccountInv, AccountsTyped, AnyAccount, balance_of, prepaid
<1>2. in_hand \in Int /\ signed \in Int /\ lost \in Int /\ topped \in Int /\ onQuota \in Int
  BY Counting DEF AccountInv, AccountsTyped
<1>3. balance_of(account) + in_hand + signed + lost = topped + onQuota
  BY Exact DEF AccountInv
<1>4. balance_of(account') + in_hand' + signed' + lost' = topped' + onQuota'
  <2> DEFINE b == balance_of(account)
             c == balance_of(account')
             h == in_hand
             i == in_hand'
             s == signed + lost
             t == signed' + lost'
             p == topped + onQuota
             q == topped' + onQuota'
  <2>1. /\ b \in Int /\ c \in Int /\ h \in Int /\ i \in Int /\ s \in Int /\ t \in Int /\ p \in Int /\ q \in Int
    BY <1>1, <1>2
  <2>2. (signed' - signed) + (lost' - lost) = t - s /\ (topped' - topped) + (onQuota' - onQuota) = q - p
    BY <1>2
  <2>3. (c - b) + (i - h) + ((signed' - signed) + (lost' - lost)) = q - p
    <3>1. (c - b) + (i - h) \in Int /\ signed' - signed \in Int /\ lost' - lost \in Int
      BY <2>1, <1>2
    <3>2. (c - b) + (i - h) + (signed' - signed) + (lost' - lost) = q - p
      BY <2>2
    <3> HIDE DEF b, c, h, i, q, p
    <3> QED BY <3>1, <3>2
  <2>4. (c - b) + (i - h) + (t - s) = q - p
    BY <2>2, <2>3
  <2>5. b + h + s = p
    BY <1>1, <1>2, <1>3
  <2> HIDE DEF b, c, h, i, s, t, p, q
  <2>6. c + i + t = q
    BY <2>1, <2>4, <2>5
  <2>7. c + i \in Int /\ c + i + t = q
    BY <2>1, <2>6
  <2>8. c + i + signed' + lost' = c + i + t
    BY <2>1 DEF t
  <2> QED BY <2>7, <2>8 DEF c, i, q
<1> QED BY <1>4 DEF BalanceExact, balance_of, in_hand, InHand

\* A request put aside, and what its machine does then.
LEMMA Refusing ==
  ASSUME AccountsTyped, NEW m \in Machines, Refuse(m)
  PROVE  /\ issue' = [issue EXCEPT ![m] = NoIssue] /\ NoIssue \in AnyIssue /\ charged(NoIssue) = 0
         /\ fetching' \in [Machines -> AnyFetch] /\ \A x \in Machines : fetching'[x].got = fetching[x].got
         /\ issue' \in [Machines -> AnyIssue]
PROOF
<1>t. fetching \in [Machines -> AnyFetch] /\ issue \in [Machines -> AnyIssue]
  BY DEF AccountsTyped, AnyFetch, AnyIssue
<1>1. NoIssue \in AnyIssue /\ charged(NoIssue) = 0
  BY DEF NoIssue, AnyIssue, charged
<1>2. issue' = [issue EXCEPT ![m] = NoIssue]
  BY DEF Refuse
<1> DEFINE s == [fetching[m] EXCEPT !.pc = "stopped"]
<1>3. s \in AnyFetch /\ s.got = fetching[m].got
  BY <1>t DEF AnyFetch
<1>4. fetching' = fetching \/ fetching' = [fetching EXCEPT ![m] = s]
  BY <1>t DEF Refuse
<1> HIDE DEF s
<1> QED BY <1>t, <1>1, <1>2, <1>3, <1>4

LEMMA AccountFacts ==
  ASSUME AccountInv
  PROVE  /\ AccountsTyped /\ issue \in [Machines -> AnyIssue] /\ fetching \in [Machines -> AnyFetch]
         /\ account \in AnyAccount \cup {NoAccount} /\ balance_of(account) \in Int /\ in_hand \in Int
         /\ \A m \in Machines : received[m] = held_passes[m] + fetching[m].got
         /\ \A m \in Machines : issue[m].pc \in {"sign", "refund"} => account # NoAccount
         /\ signed \in Int /\ lost \in Int /\ topped \in Int /\ onQuota \in Int /\ day \in Int
         /\ received \in [Machines -> Nat] /\ held_passes \in [Machines -> Nat]
PROOF
<1>1. AccountsTyped /\ issue \in [Machines -> AnyIssue] /\ fetching \in [Machines -> AnyFetch]
  BY DEF AccountInv, AccountsTyped, AnyIssue, AnyFetch
<1>2. account \in AnyAccount \cup {NoAccount} /\ balance_of(account) \in Int
  BY AccountConstants DEF AccountInv, AccountsTyped, AnyAccount, balance_of, prepaid
<1>3. in_hand \in Int
  BY <1>1, Counting
<1>4. \A m \in Machines : received[m] = held_passes[m] + fetching[m].got
  BY DEF AccountInv, PaidPassesKept
<1>5. \A m \in Machines : issue[m].pc \in {"sign", "refund"} => account # NoAccount
  BY DEF AccountInv
<1>6. /\ signed \in Int /\ lost \in Int /\ topped \in Int /\ onQuota \in Int /\ day \in Int
      /\ received \in [Machines -> Nat] /\ held_passes \in [Machines -> Nat]
  BY <1>1 DEF AccountsTyped
<1> QED BY <1>1, <1>2, <1>3, <1>4, <1>5, <1>6

LEMMA NotNoAccount == AnyAccount \cap {NoAccount} = {}
PROOF BY AccountConstants DEF AnyAccount

\* The invariant from its parts, for a step that changes one request.
LEMMA RequestMoves ==
  ASSUME AccountInv, NEW m \in Machines, NEW q \in AnyIssue, issue' = [issue EXCEPT ![m] = q],
         account' \in AnyAccount \cup {NoAccount}, account # NoAccount => account' # NoAccount,
         q.pc \in {"sign", "refund"} => account' # NoAccount,
         fetching' \in [Machines -> AnyFetch], held_passes' = held_passes, received' \in [Machines -> Nat],
         \A x \in Machines : received'[x] = held_passes[x] + fetching'[x].got, UNCHANGED <<day, topped>>,
         balance_of(account') \in Int, signed' \in Int, lost' \in Int, onQuota' \in Int,
         (balance_of(account') - balance_of(account)) + (charged(q) - charged(issue[m])) + (signed' - signed)
           + (lost' - lost) = onQuota' - onQuota
  PROVE  AccountInv'
PROOF
<1>1. AccountsTyped /\ issue \in [Machines -> AnyIssue] /\ in_hand \in Int /\ topped \in Int /\ day \in Int
      /\ signed \in Int /\ lost \in Int /\ onQuota \in Int
  BY AccountFacts
<1>2. in_hand' = in_hand - charged(issue[m]) + charged(q)
  BY <1>1, HandMoves
<1>3. charged(q) \in Int /\ charged(issue[m]) \in Int
  BY <1>1 DEF charged, AnyIssue
<1>b. balance_of(account) \in Int
  BY AccountFacts
<1>4. /\ in_hand' \in Int /\ topped' \in Int
      /\ (balance_of(account') - balance_of(account)) + (in_hand' - in_hand) + (signed' - signed) + (lost' - lost)
           = (topped' - topped) + (onQuota' - onQuota)
  BY <1>1, <1>2, <1>3, <1>b
<1>5. BalanceExact'
  BY <1>4, ExactAfter
<1>6. issue' \in [Machines -> AnyIssue] /\ \A x \in Machines : issue'[x].pc \in {"sign", "refund"} => account' # NoAccount
  BY <1>1, AccountFacts
<1>7. held_passes' \in [Machines -> Nat]
  BY AccountFacts
<1>8. AccountsTyped'
  BY <1>1, <1>6, <1>7 DEF AccountsTyped, AnyIssue, AnyFetch
<1>9. PaidPassesKept'
  BY DEF PaidPassesKept
<1> QED BY <1>5, <1>6, <1>8, <1>9 DEF AccountInv

\* A request of the issuer, one of its steps after another.
LEMMA IssueKeeps ==
  ASSUME AccountInv, NEW m \in Machines, IssueAsk(m) \/ IssueSign(m) \/ IssueAnswer(m)
  PROVE  AccountInv'
PROOF
<1>f. /\ AccountsTyped /\ issue[m] \in AnyIssue /\ issue \in [Machines -> AnyIssue] /\ fetching \in [Machines -> AnyFetch]
      /\ account \in AnyAccount \cup {NoAccount} /\ balance_of(account) \in Int /\ day \in Int
      /\ (issue[m].pc \in {"sign", "refund"} => account # NoAccount)
      /\ signed \in Int /\ lost \in Int /\ topped \in Int /\ onQuota \in Int
      /\ received \in [Machines -> Nat] /\ held_passes \in [Machines -> Nat]
  BY AccountFacts
<1>k. \A x \in Machines : received[x] = held_passes[x] + fetching[x].got
  BY AccountFacts
<1>n. issue[m].n \in Nat
  BY <1>f DEF AnyIssue
<1>1. ASSUME IssueAsk(m), Refuse(m) PROVE AccountInv'
  <2>1. issue[m].pc = "asked" /\ UNCHANGED <<account, day, held_passes, signed, received, lost, topped, onQuota>>
    BY <1>1 DEF IssueAsk, history
  <2>2. charged(issue[m]) = 0 /\ NoIssue.pc = "none"
    BY <2>1 DEF charged, NoIssue
  <2>3. /\ issue' = [issue EXCEPT ![m] = NoIssue] /\ NoIssue \in AnyIssue /\ charged(NoIssue) = 0
        /\ fetching' \in [Machines -> AnyFetch] /\ \A x \in Machines : fetching'[x].got = fetching[x].got
    BY <1>1, <1>f, Refusing
  <2> HIDE DEF NoIssue
  <2>4. /\ balance_of(account') \in Int /\ signed' \in Int /\ lost' \in Int /\ onQuota' \in Int
        /\ (balance_of(account') - balance_of(account)) + (charged(NoIssue) - charged(issue[m])) + (signed' - signed)
             + (lost' - lost) = onQuota' - onQuota
    BY <2>1, <2>2, <2>3, <1>f
  <2> QED BY <2>1, <2>2, <2>3, <2>4, <1>f, <1>k, RequestMoves
<1>2. ASSUME IssueAsk(m), issue' = [issue EXCEPT ![m].pc = "charge", ![m].day = day], UNCHANGED fetching PROVE AccountInv'
  <2>1. issue[m].pc = "asked" /\ UNCHANGED <<account, day, held_passes, signed, received, lost, topped, onQuota>>
    BY <1>2 DEF IssueAsk, history
  <2> DEFINE q == [issue[m] EXCEPT !.pc = "charge", !.day = day]
  <2>2. q \in AnyIssue /\ q.pc = "charge"
    BY <1>f DEF AnyIssue
  <2>3. issue' = [issue EXCEPT ![m] = q]
    BY <1>2, <1>f
  <2> HIDE DEF q
  <2>4. charged(q) = 0 /\ charged(issue[m]) = 0
    BY <2>1, <2>2 DEF charged
  <2>5. /\ balance_of(account') \in Int /\ signed' \in Int /\ lost' \in Int /\ onQuota' \in Int
        /\ (balance_of(account') - balance_of(account)) + (charged(q) - charged(issue[m])) + (signed' - signed)
             + (lost' - lost) = onQuota' - onQuota
    BY <2>1, <2>4, <1>f
  <2> QED BY <1>2, <2>1, <2>2, <2>3, <2>5, <1>f, <1>k, RequestMoves
<1>3. ASSUME IssueSign(m) PROVE AccountInv'
  <2>1. issue[m].pc = "sign" /\ UNCHANGED <<account, day, fetching, held_passes, received, lost, topped, onQuota>>
    BY <1>3 DEF IssueSign
  <2>2. charged(issue[m]) = issue[m].n
    BY <2>1 DEF charged
  <2> DEFINE q == [issue[m] EXCEPT !.pc = "answer"]
             r == [issue[m] EXCEPT !.pc = "refund"]
  <2>3. q \in AnyIssue /\ q.pc = "answer" /\ r \in AnyIssue /\ r.pc = "refund" /\ r.n = issue[m].n
    BY <1>f DEF AnyIssue
  <2>4. \/ issue' = [issue EXCEPT ![m] = q] /\ signed' = signed + issue[m].n
        \/ issue' = [issue EXCEPT ![m] = r] /\ signed' = signed
    BY <1>3, <1>f DEF IssueSign
  <2> HIDE DEF q, r
  <2>5. charged(q) = 0 /\ charged(r) = issue[m].n
    BY <2>3 DEF charged
  <2>6. account # NoAccount
    BY <2>1, <1>f
  <2>7. CASE issue' = [issue EXCEPT ![m] = q] /\ signed' = signed + issue[m].n
    <3>1. /\ balance_of(account') \in Int /\ signed' \in Int /\ lost' \in Int /\ onQuota' \in Int
          /\ (balance_of(account') - balance_of(account)) + (charged(q) - charged(issue[m])) + (signed' - signed)
               + (lost' - lost) = onQuota' - onQuota
      BY <2>1, <2>2, <2>5, <2>7, <1>f, <1>n
    <3> QED BY <2>1, <2>3, <2>6, <2>7, <3>1, <1>f, <1>k, RequestMoves
  <2>8. CASE issue' = [issue EXCEPT ![m] = r] /\ signed' = signed
    <3>1. /\ balance_of(account') \in Int /\ signed' \in Int /\ lost' \in Int /\ onQuota' \in Int
          /\ (balance_of(account') - balance_of(account)) + (charged(r) - charged(issue[m])) + (signed' - signed)
               + (lost' - lost) = onQuota' - onQuota
      BY <2>1, <2>2, <2>5, <2>8, <1>f, <1>n
    <3> QED BY <2>1, <2>3, <2>6, <2>8, <3>1, <1>f, <1>k, RequestMoves
  <2> QED BY <2>4, <2>7, <2>8
<1>4. ASSUME IssueAnswer(m) PROVE AccountInv'
  <2>1. /\ issue[m].pc = "answer" /\ issue' = [issue EXCEPT ![m] = NoIssue]
        /\ UNCHANGED <<account, day, held_passes, signed, lost, topped, onQuota>>
    BY <1>4 DEF IssueAnswer
  <2>2. charged(issue[m]) = 0 /\ NoIssue.pc = "none" /\ NoIssue \in AnyIssue /\ charged(NoIssue) = 0
    BY <2>1 DEF charged, NoIssue, AnyIssue
  <2>3. /\ fetching' \in [Machines -> AnyFetch] /\ received' \in [Machines -> Nat]
        /\ \A x \in Machines : received'[x] = held_passes[x] + fetching'[x].got
    <3>1. CASE ~waits(m)
      BY <3>1, <1>4, <1>f, <1>k DEF IssueAnswer
    <3>2. CASE waits(m)
      <4> DEFINE g == [fetching[m] EXCEPT !.pc = "chunk", !.got = @ + issue[m].n, !.left = @ - issue[m].n]
      <4>1. fetching[m] \in AnyFetch /\ fetching[m].got + issue[m].n \in Nat /\ fetching[m].left - issue[m].n \in Int
        BY <1>f, <1>n DEF AnyFetch
      <4>2. g \in AnyFetch /\ g.got = fetching[m].got + issue[m].n
        BY <4>1 DEF AnyFetch
      <4>3. fetching' = [fetching EXCEPT ![m] = g] /\ received' = [received EXCEPT ![m] = received[m] + issue[m].n]
        BY <3>2, <1>4, <1>f DEF IssueAnswer
      <4> HIDE DEF g
      <4>4. received[m] \in Nat /\ held_passes[m] \in Nat /\ fetching[m].got \in Nat
        BY <4>1, <1>f DEF AnyFetch
      <4>5. ASSUME NEW x \in Machines PROVE received'[x] = held_passes[x] + fetching'[x].got
        <5>1. CASE x = m
          BY <5>1, <4>2, <4>3, <4>4, <1>k, <1>n, <1>f
        <5>2. CASE x # m
          BY <5>2, <4>3, <1>k, <1>f
        <5> QED BY <5>1, <5>2
      <4> QED BY <4>2, <4>3, <4>4, <4>5, <1>n, <1>f
    <3> QED BY <3>1, <3>2
  <2> HIDE DEF NoIssue
  <2>4. /\ balance_of(account') \in Int /\ signed' \in Int /\ lost' \in Int /\ onQuota' \in Int
        /\ (balance_of(account') - balance_of(account)) + (charged(NoIssue) - charged(issue[m])) + (signed' - signed)
             + (lost' - lost) = onQuota' - onQuota
    BY <2>1, <2>2, <1>f
  <2> QED BY <2>1, <2>2, <2>3, <2>4, <1>f, RequestMoves
<1> QED BY <1>1, <1>2, <1>3, <1>4 DEF IssueAsk

\* Charging: what leaves the balance, or is counted on the quota, is in hand.
LEMMA ChargeKeeps ==
  ASSUME AccountInv, NEW m \in Machines, IssueCharge(m)
  PROVE  AccountInv'
PROOF
<1> DEFINE n == issue[m].n
           d == issue[m].day
<1>f. /\ AccountsTyped /\ issue[m] \in AnyIssue /\ issue \in [Machines -> AnyIssue] /\ fetching \in [Machines -> AnyFetch]
      /\ account \in AnyAccount \cup {NoAccount} /\ balance_of(account) \in Int
      /\ signed \in Int /\ lost \in Int /\ topped \in Int /\ onQuota \in Int
      /\ received \in [Machines -> Nat] /\ held_passes \in [Machines -> Nat]
  BY AccountFacts
<1>k. \A x \in Machines : received[x] = held_passes[x] + fetching[x].got
  BY AccountFacts
<1>n. n \in Nat /\ d \in Int
  BY <1>f DEF AnyIssue
<1>1. issue[m].pc = "charge" /\ UNCHANGED <<day, held_passes, signed, received, lost, topped>>
  BY DEF IssueCharge
<1>2. charged(issue[m]) = 0
  BY <1>1 DEF charged
<1>3. \/ /\ ~(account # NoAccount /\ may_charge(account, n, d))
         /\ account' = IF account = NoAccount THEN account ELSE charge(account, n, d)
         /\ Refuse(m) /\ UNCHANGED onQuota
      \/ /\ account # NoAccount /\ may_charge(account, n, d)
         /\ account' = charge(account, n, d) /\ issue' = [issue EXCEPT ![m].pc = "sign"]
         /\ onQuota' = IF prepaid(account) THEN onQuota ELSE onQuota + n
         /\ UNCHANGED fetching
      \/ Refuse(m) /\ UNCHANGED <<account, onQuota>>
  BY DEF IssueCharge, NotSavedThen
<1>4. ASSUME account # NoAccount
      PROVE  /\ charge(account, n, d) \in AnyAccount /\ charge(account, n, d) # NoAccount
             /\ balance_of(charge(account, n, d)) = IF may_charge(account, n, d) /\ prepaid(account)
                                                    THEN balance_of(account) - n ELSE balance_of(account)
  <2>1. account \in AnyAccount
    BY <1>4, <1>f
  <2> HIDE DEF n, d
  <2>2. charge(account, n, d) \in AnyAccount
    BY <2>1, <1>n, Charged
  <2>3. balance_of(charge(account, n, d)) = IF may_charge(account, n, d) /\ prepaid(account)
                                                    THEN balance_of(account) - n ELSE balance_of(account)
    BY <2>1, <1>n, Charged
  <2> QED BY <2>2, <2>3, NotNoAccount
<1>5. ASSUME Refuse(m), account' \in AnyAccount \cup {NoAccount}, balance_of(account') = balance_of(account),
             account # NoAccount => account' # NoAccount, UNCHANGED onQuota
      PROVE  AccountInv'
  <2>1. /\ issue' = [issue EXCEPT ![m] = NoIssue] /\ NoIssue \in AnyIssue /\ charged(NoIssue) = 0
        /\ fetching' \in [Machines -> AnyFetch] /\ \A x \in Machines : fetching'[x].got = fetching[x].got
    BY <1>5, <1>f, Refusing
  <2>2. NoIssue.pc = "none"
    BY DEF NoIssue
  <2> HIDE DEF NoIssue
  <2>3. /\ balance_of(account') \in Int /\ signed' \in Int /\ lost' \in Int /\ onQuota' \in Int
        /\ (balance_of(account') - balance_of(account)) + (charged(NoIssue) - charged(issue[m])) + (signed' - signed)
             + (lost' - lost) = onQuota' - onQuota
    BY <1>1, <1>2, <1>5, <2>1, <1>f
  <2> QED BY <1>1, <1>5, <2>1, <2>2, <2>3, <1>f, <1>k, RequestMoves
<1>6. CASE /\ ~(account # NoAccount /\ may_charge(account, n, d))
           /\ account' = IF account = NoAccount THEN account ELSE charge(account, n, d)
           /\ Refuse(m) /\ UNCHANGED onQuota
  <2> HIDE DEF n, d
  <2>1. account' \in AnyAccount \cup {NoAccount} /\ balance_of(account') = balance_of(account)
        /\ (account # NoAccount => account' # NoAccount)
    BY <1>4, <1>6, <1>f
  <2> QED BY <1>5, <1>6, <2>1
<1>7. CASE /\ account # NoAccount /\ may_charge(account, n, d)
           /\ account' = charge(account, n, d) /\ issue' = [issue EXCEPT ![m].pc = "sign"]
           /\ onQuota' = IF prepaid(account) THEN onQuota ELSE onQuota + n
           /\ UNCHANGED fetching
  <2> DEFINE q == [issue[m] EXCEPT !.pc = "sign"]
  <2>1. q \in AnyIssue /\ q.pc = "sign" /\ q.n = n
    BY <1>f DEF AnyIssue
  <2>2. issue' = [issue EXCEPT ![m] = q]
    BY <1>7, <1>f
  <2> HIDE DEF q, n, d
  <2>3. charged(q) = n
    BY <2>1 DEF charged
  <2>4. account' \in AnyAccount /\ account' # NoAccount
    BY <1>4, <1>7
  <2>5. balance_of(account') = IF prepaid(account) THEN balance_of(account) - n ELSE balance_of(account)
    BY <1>4, <1>7
  <2>6. /\ balance_of(account') \in Int /\ signed' \in Int /\ lost' \in Int /\ onQuota' \in Int
        /\ (balance_of(account') - balance_of(account)) + (charged(q) - charged(issue[m])) + (signed' - signed)
             + (lost' - lost) = onQuota' - onQuota
    <3>1. CASE prepaid(account)
      <4>1. balance_of(account') = balance_of(account) - n /\ onQuota' = onQuota
        BY <3>1, <2>5, <1>7
      <4> QED BY <4>1, <2>3, <1>1, <1>2, <1>n, <1>f
    <3>2. CASE ~prepaid(account)
      <4>1. balance_of(account') = balance_of(account) /\ onQuota' = onQuota + n
        BY <3>2, <2>5, <1>7
      <4> QED BY <4>1, <2>3, <1>1, <1>2, <1>n, <1>f
    <3> QED BY <3>1, <3>2
  <2> QED BY <1>1, <1>7, <2>1, <2>2, <2>4, <2>6, <1>f, <1>k, RequestMoves
<1>8. CASE Refuse(m) /\ UNCHANGED <<account, onQuota>>
  BY <1>5, <1>8, <1>f
<1> QED BY <1>3, <1>6, <1>7, <1>8

\* Giving back: to the balance, to the quota of the day, or it is lost.
LEMMA RefundKeeps ==
  ASSUME AccountInv, NEW m \in Machines, IssueRefund(m)
  PROVE  AccountInv'
PROOF
<1> DEFINE n == issue[m].n
           d == issue[m].day
           same_day == ~prepaid(account) /\ account.day = d
<1>f. /\ AccountsTyped /\ issue[m] \in AnyIssue /\ issue \in [Machines -> AnyIssue] /\ fetching \in [Machines -> AnyFetch]
      /\ account \in AnyAccount \cup {NoAccount} /\ balance_of(account) \in Int
      /\ (issue[m].pc \in {"sign", "refund"} => account # NoAccount)
      /\ signed \in Int /\ lost \in Int /\ topped \in Int /\ onQuota \in Int
      /\ received \in [Machines -> Nat] /\ held_passes \in [Machines -> Nat]
  BY AccountFacts
<1>k. \A x \in Machines : received[x] = held_passes[x] + fetching[x].got
  BY AccountFacts
<1>n. n \in Nat /\ d \in Int
  BY <1>f DEF AnyIssue
<1>1. issue[m].pc = "refund" /\ Refuse(m) /\ UNCHANGED <<day, held_passes, signed, received, topped>>
  BY DEF IssueRefund
<1>2. charged(issue[m]) = n /\ account \in AnyAccount /\ account # NoAccount
  BY <1>1, <1>f DEF charged
<1>3. \/ /\ account' = refund(account, n, d)
         /\ lost' = IF prepaid(account) \/ same_day THEN lost ELSE lost + n
         /\ onQuota' = IF same_day THEN onQuota - n ELSE onQuota
      \/ lost' = lost + n /\ UNCHANGED <<account, onQuota>>
  BY DEF IssueRefund, NotSavedThen
<1>4. /\ issue' = [issue EXCEPT ![m] = NoIssue] /\ NoIssue \in AnyIssue /\ charged(NoIssue) = 0
      /\ fetching' \in [Machines -> AnyFetch] /\ \A x \in Machines : fetching'[x].got = fetching[x].got
  BY <1>1, <1>f, Refusing
<1>5. NoIssue.pc = "none"
  BY DEF NoIssue
<1> HIDE DEF NoIssue, n, d
<1>6. /\ account' \in AnyAccount /\ balance_of(account') \in Int /\ lost' \in Int /\ onQuota' \in Int
      /\ (balance_of(account') - balance_of(account)) - n + (lost' - lost) = onQuota' - onQuota
  <2>1. CASE /\ account' = refund(account, n, d)
             /\ lost' = IF prepaid(account) \/ same_day THEN lost ELSE lost + n
             /\ onQuota' = IF same_day THEN onQuota - n ELSE onQuota
    <3>1. refund(account, n, d) \in AnyAccount
      BY <1>2, <1>n, Refunded
    <3>2. balance_of(refund(account, n, d)) = IF prepaid(account) THEN balance_of(account) + n ELSE balance_of(account)
      BY <1>2, <1>n, Refunded
    <3>3. CASE prepaid(account)
      <4>1. balance_of(account') = balance_of(account) + n /\ lost' = lost /\ onQuota' = onQuota
        BY <2>1, <3>2, <3>3
      <4> QED BY <4>1, <3>1, <2>1, <1>n, <1>f
    <3>4. CASE same_day
      <4>1. balance_of(account') = balance_of(account) /\ lost' = lost /\ onQuota' = onQuota - n
        BY <2>1, <3>2, <3>4
      <4> QED BY <4>1, <3>1, <2>1, <1>n, <1>f
    <3>5. CASE ~prepaid(account) /\ ~same_day
      <4>1. balance_of(account') = balance_of(account) /\ lost' = lost + n /\ onQuota' = onQuota
        BY <2>1, <3>2, <3>5
      <4> QED BY <4>1, <3>1, <2>1, <1>n, <1>f
    <3> QED BY <3>3, <3>4, <3>5
  <2>2. CASE lost' = lost + n /\ UNCHANGED <<account, onQuota>>
    BY <2>2, <1>2, <1>n, <1>f
  <2> QED BY <1>3, <2>1, <2>2
<1>7. /\ signed' \in Int
      /\ (balance_of(account') - balance_of(account)) + (charged(NoIssue) - charged(issue[m])) + (signed' - signed)
           + (lost' - lost) = onQuota' - onQuota
  BY <1>1, <1>2, <1>4, <1>6, <1>n, <1>f
<1>8. account' # NoAccount
  BY <1>6, NotNoAccount
<1> QED BY <1>1, <1>4, <1>5, <1>6, <1>7, <1>8, <1>f, <1>k, RequestMoves

\* The invariant from its parts, for a step of a machine.
LEMMA FetchMoves ==
  ASSUME AccountInv, issue' \in [Machines -> AnyIssue], in_hand' = in_hand,
         \A x \in Machines : issue'[x].pc \in {"sign", "refund"} => issue[x].pc \in {"sign", "refund"},
         fetching' \in [Machines -> AnyFetch], held_passes' \in [Machines -> Nat],
         \A x \in Machines : received[x] = held_passes'[x] + fetching'[x].got,
         UNCHANGED <<account, day, signed, received, lost, topped, onQuota>>
  PROVE  AccountInv'
PROOF
<1>1. /\ in_hand \in Int /\ balance_of(account) \in Int /\ signed \in Int /\ lost \in Int /\ topped \in Int
      /\ onQuota \in Int /\ account \in AnyAccount \cup {NoAccount} /\ day \in Int /\ received \in [Machines -> Nat]
  BY AccountFacts
<1>2. BalanceExact'
  <2>1. balance_of(account) + in_hand + signed + lost = topped + onQuota
    BY Exact DEF AccountInv
  <2>2. balance_of(account') + in_hand' + signed' + lost' = topped' + onQuota'
    BY <2>1
  <2> QED BY <2>2 DEF BalanceExact, balance_of, in_hand, InHand
<1>3. AccountsTyped'
  BY <1>1 DEF AccountsTyped, AnyIssue, AnyFetch
<1>4. \A x \in Machines : issue'[x].pc \in {"sign", "refund"} => account' # NoAccount
  BY AccountFacts
<1>5. PaidPassesKept'
  BY DEF PaidPassesKept
<1> QED BY <1>2, <1>3, <1>4, <1>5 DEF AccountInv

LEMMA FetchKeeps ==
  ASSUME AccountInv, NEW m \in Machines, FetchStart(m) \/ FetchChunk(m) \/ FetchGivesUp(m) \/ FetchDone(m)
  PROVE  AccountInv'
PROOF
<1>f. /\ AccountsTyped /\ issue[m] \in AnyIssue /\ issue \in [Machines -> AnyIssue] /\ fetching[m] \in AnyFetch
      /\ fetching \in [Machines -> AnyFetch] /\ in_hand \in Int
      /\ received \in [Machines -> Nat] /\ held_passes \in [Machines -> Nat]
  BY AccountFacts
<1>k. \A x \in Machines : received[x] = held_passes[x] + fetching[x].got
  BY AccountFacts
<1>c. NodesWanted \in Int /\ MAX_PER_REQUEST \in Nat
  BY AccountConstants
<1>g. fetching[m].got \in Nat /\ fetching[m].left \in Int
  BY <1>f DEF AnyFetch
<1>h. ASSUME issue' = issue PROVE in_hand' = in_hand
  BY <1>h DEF in_hand, InHand
<1>s. ASSUME NEW g \in AnyFetch, fetching' = [fetching EXCEPT ![m] = g], g.got = fetching[m].got,
             UNCHANGED <<account, day, issue, held_passes, signed, received, lost, topped, onQuota>>
      PROVE  AccountInv'
  <2>1. fetching' \in [Machines -> AnyFetch] /\ \A x \in Machines : fetching'[x].got = fetching[x].got
    BY <1>s, <1>f
  <2> QED BY <2>1, <1>f, <1>h, <1>k, <1>s, FetchMoves
<1>1. ASSUME FetchStart(m) PROVE AccountInv'
  <2>1. UNCHANGED <<account, day, issue, held_passes, signed, received, lost, topped, onQuota>>
    BY <1>1 DEF FetchStart, history
  <2> DEFINE g == [fetching[m] EXCEPT !.pc = "chunk", !.left = NodesWanted]
  <2>2. g \in AnyFetch /\ g.got = fetching[m].got
    BY <1>f, <1>c DEF AnyFetch
  <2>3. fetching' = [fetching EXCEPT ![m] = g]
    BY <1>1, <1>f DEF FetchStart
  <2> HIDE DEF g
  <2> QED BY <2>1, <2>2, <2>3, <1>s
<1> DEFINE s == [fetching[m] EXCEPT !.pc = "stopped"]
<1>t. s \in AnyFetch /\ s.got = fetching[m].got
  BY <1>f DEF AnyFetch
<1>2. ASSUME FetchGivesUp(m) PROVE AccountInv'
  <2>1. UNCHANGED <<account, day, issue, held_passes, signed, received, lost, topped, onQuota>>
    BY <1>2 DEF FetchGivesUp, history
  <2>2. fetching' = [fetching EXCEPT ![m] = s]
    BY <1>2, <1>f DEF FetchGivesUp
  <2> HIDE DEF s
  <2> QED BY <2>1, <2>2, <1>t, <1>s
<1>3. ASSUME FetchChunk(m) PROVE AccountInv'
  <2> DEFINE n == Min({MAX_PER_REQUEST, fetching[m].left})
             a == [fetching[m] EXCEPT !.pc = "asking"]
             q == [pc |-> "asked", n |-> n, day |-> 0]
  <2>1. UNCHANGED <<account, day, held_passes, signed, received, lost, topped, onQuota>>
    BY <1>3 DEF FetchChunk, history
  <2>2. \/ /\ n > 0 /\ issue[m].pc = "none"
           /\ fetching' = [fetching EXCEPT ![m] = a] /\ issue' = [issue EXCEPT ![m] = q]
        \/ fetching' = [fetching EXCEPT ![m] = s] /\ issue' = issue
    BY <1>3, <1>f DEF FetchChunk
  <2>3. CASE fetching' = [fetching EXCEPT ![m] = s] /\ issue' = issue
    <3> HIDE DEF s
    <3> QED BY <2>1, <2>3, <1>t, <1>s
  <2>4. CASE /\ n > 0 /\ issue[m].pc = "none"
             /\ fetching' = [fetching EXCEPT ![m] = a] /\ issue' = [issue EXCEPT ![m] = q]
    <3>1. a \in AnyFetch /\ a.got = fetching[m].got
      BY <1>f DEF AnyFetch
    <3>2. n \in Nat
      <4>1. {MAX_PER_REQUEST, fetching[m].left} \subseteq Int
        BY <1>c, <1>g
      <4>2. \E z \in {MAX_PER_REQUEST, fetching[m].left} : \A y \in {MAX_PER_REQUEST, fetching[m].left} : z =< y
        BY <1>c, <1>g
      <4>3. n \in {MAX_PER_REQUEST, fetching[m].left}
        BY <4>2 DEF Min
      <4>4. n \in Int
        BY <4>1, <4>3
      <4> HIDE DEF n
      <4> QED BY <2>4, <4>4
    <3> HIDE DEF n
    <3>3. q \in AnyIssue /\ q.pc = "asked"
      BY <3>2 DEF AnyIssue
    <3> HIDE DEF a, q, s
    <3>4. charged(q) = 0 /\ charged(issue[m]) = 0
      BY <2>4, <3>3 DEF charged
    <3>5. in_hand' = in_hand
      <4>1. in_hand' = in_hand - charged(issue[m]) + charged(q)
        BY <2>4, <3>3, <1>f, HandMoves
      <4> QED BY <4>1, <3>4, <1>f
    <3>6. fetching' \in [Machines -> AnyFetch] /\ \A x \in Machines : fetching'[x].got = fetching[x].got
      BY <2>4, <3>1, <1>f
    <3>7. issue' \in [Machines -> AnyIssue]
          /\ \A x \in Machines : issue'[x].pc \in {"sign", "refund"} => issue[x].pc \in {"sign", "refund"}
      BY <2>4, <3>3, <1>f
    <3> QED BY <2>1, <3>5, <3>6, <3>7, <1>f, <1>k, FetchMoves
  <2> QED BY <2>2, <2>3, <2>4
<1>4. ASSUME FetchDone(m) PROVE AccountInv'
  <2>1. UNCHANGED <<account, day, issue, signed, received, lost, topped, onQuota>>
    BY <1>4 DEF FetchDone, history
  <2>2. Idle \in AnyFetch /\ Idle.got = 0
    BY DEF Idle, AnyFetch
  <2> DEFINE h == IF Fetched(fetching[m]) THEN held_passes[m] + fetching[m].got ELSE held_passes[m]
  <2>3. fetching' = [fetching EXCEPT ![m] = Idle] /\ held_passes' = [held_passes EXCEPT ![m] = h]
    BY <1>4, <1>f DEF FetchDone
  <2>4. h \in Nat /\ h = held_passes[m] + fetching[m].got
    BY <1>f, <1>g DEF Fetched
  <2> HIDE DEF h, Idle
  <2>5. fetching' \in [Machines -> AnyFetch] /\ held_passes' \in [Machines -> Nat]
    BY <2>2, <2>3, <2>4, <1>f
  <2>6. ASSUME NEW x \in Machines PROVE received[x] = held_passes'[x] + fetching'[x].got
    <3>1. CASE x = m
      BY <3>1, <2>2, <2>3, <2>4, <1>f, <1>k
    <3>2. CASE x # m
      BY <3>2, <2>3, <1>f, <1>k
    <3> QED BY <3>1, <3>2
  <2> QED BY <2>1, <2>5, <2>6, <1>f, <1>h, FetchMoves
<1> QED BY <1>1, <1>2, <1>3, <1>4

LEMMA AccountStep ==
  ASSUME AccountInv, AccountNext
  PROVE  AccountInv'
PROOF
<1>t. /\ AccountsTyped /\ issue \in [Machines -> AnyIssue] /\ fetching \in [Machines -> AnyFetch]
      /\ account \in AnyAccount \cup {NoAccount} /\ balance_of(account) \in Int /\ in_hand \in Int
      /\ signed \in Int /\ lost \in Int /\ topped \in Int /\ onQuota \in Int /\ day \in Int
      /\ received \in [Machines -> Nat] /\ held_passes \in [Machines -> Nat]
  BY AccountFacts
<1>k. \A m \in Machines : received[m] = held_passes[m] + fetching[m].got
  BY AccountFacts
<1>c. \A m \in Machines : issue[m].pc \in {"sign", "refund"} => account # NoAccount
  BY AccountFacts
<1>n. Pack \in Int
  BY AccountConstants
<1>0. \* The invariant from its parts.
  ASSUME account' \in AnyAccount \cup {NoAccount}, day' \in Int, issue' \in [Machines -> AnyIssue],
         fetching' \in [Machines -> AnyFetch], UNCHANGED <<held_passes, received, signed, onQuota>>,
         lost' \in Int, topped' \in Int, in_hand' \in Int, balance_of(account') \in Int,
         (balance_of(account') - balance_of(account)) + (in_hand' - in_hand) + (lost' - lost) = topped' - topped,
         \A m \in Machines : fetching'[m].got = fetching[m].got,
         \A m \in Machines : issue'[m].pc \in {"sign", "refund"} => account' # NoAccount
  PROVE  AccountInv'
  <2>1. AccountsTyped'
    BY <1>0, <1>t DEF AccountsTyped, AnyIssue, AnyFetch
  <2>2. PaidPassesKept'
    BY <1>0, <1>k DEF PaidPassesKept
  <2>3. signed' - signed = 0 /\ onQuota' - onQuota = 0 /\ signed' \in Int /\ onQuota' \in Int
    BY <1>0, <1>t
  <2>4. (balance_of(account') - balance_of(account)) + (in_hand' - in_hand) + (signed' - signed) + (lost' - lost)
           = (topped' - topped) + (onQuota' - onQuota)
    BY <1>0, <2>3, <1>t
  <2>5. BalanceExact'
    BY <1>0, <2>3, <2>4, ExactAfter
  <2> QED BY <1>0, <2>1, <2>2, <2>5 DEF AccountInv
<1>s. ASSUME issue' = issue PROVE in_hand' = in_hand
  BY <1>s DEF in_hand, InHand
<1>1. ASSUME TopUp PROVE AccountInv'
  <2>1. /\ account' = credit(account, Pack) /\ topped' = topped + Pack
        /\ UNCHANGED <<day, issue, fetching, held_passes, signed, received, lost, onQuota>>
    BY <1>1 DEF TopUp
  <2>2. account' \in AnyAccount /\ balance_of(account') = balance_of(account) + Pack
    BY <2>1, <1>t, <1>n, Credited
  <2>3. account' # NoAccount
    BY <2>2, NotNoAccount
  <2>4. in_hand' = in_hand
    BY <2>1, <1>s
  <2>5. /\ topped' \in Int /\ balance_of(account') \in Int /\ in_hand' \in Int /\ lost' \in Int
        /\ (balance_of(account') - balance_of(account)) + (in_hand' - in_hand) + (lost' - lost) = topped' - topped
    BY <2>1, <2>2, <2>4, <1>t, <1>n
  <2> QED BY <2>1, <2>2, <2>3, <2>5, <1>t, <1>0
<1>2. ASSUME DayEnds PROVE AccountInv'
  <2>1. day' \in Int /\ UNCHANGED <<account, issue, fetching, held_passes, signed, received, lost, topped, onQuota>>
    BY <1>2, <1>t DEF DayEnds, history
  <2>2. in_hand' = in_hand
    BY <2>1, <1>s
  <2>3. (balance_of(account') - balance_of(account)) + (in_hand' - in_hand) + (lost' - lost) = topped' - topped
    BY <2>1, <2>2, <1>t
  <2> QED BY <2>1, <2>2, <2>3, <1>t, <1>c, <1>0
<1>3. ASSUME NEW on \in BOOLEAN, set_enabled(on) PROVE AccountInv'
  <2>1. /\ account # NoAccount /\ account' = [account EXCEPT !.enabled = on]
        /\ UNCHANGED <<day, issue, fetching, held_passes, signed, received, lost, topped, onQuota>>
    BY <1>3 DEF set_enabled, history
  <2>2. account \in AnyAccount
    BY <2>1, <1>t
  <2>3. account' \in AnyAccount /\ account'.balance = account.balance
    BY <2>1, <2>2 DEF AnyAccount
  <2>4. account' # NoAccount
    BY <2>3, NotNoAccount
  <2>5. balance_of(account') = balance_of(account)
    BY <2>1, <2>3, <2>4 DEF balance_of, prepaid
  <2>6. in_hand' = in_hand
    BY <2>1, <1>s
  <2>7. (balance_of(account') - balance_of(account)) + (in_hand' - in_hand) + (lost' - lost) = topped' - topped
    BY <2>1, <2>5, <2>6, <1>t
  <2> QED BY <2>1, <2>3, <2>4, <2>5, <2>6, <2>7, <1>t, <1>0
<1>4. ASSUME IssuerStops PROVE AccountInv'
  <2>1. /\ lost' = lost + in_hand /\ issue' = [m \in Machines |-> NoIssue]
        /\ fetching' = [m \in Machines |-> IF waits(m) THEN [fetching[m] EXCEPT !.pc = "stopped"] ELSE fetching[m]]
        /\ UNCHANGED <<account, day, held_passes, signed, received, topped, onQuota>>
    BY <1>4 DEF IssuerStops
  <2>2. NoIssue \in AnyIssue /\ NoIssue.pc = "none"
    BY DEF NoIssue, AnyIssue
  <2>3. issue' \in [Machines -> AnyIssue] /\ \A m \in Machines : issue'[m].pc = "none"
    BY <2>1, <2>2
  <2>4. in_hand' = 0
    <3>1. InHand' = {}
      BY <2>3 DEF InHand
    <3>2. in_hand' = SumOf([m \in Machines |-> issue'[m].n], {})
      BY <3>1 DEF in_hand
    <3> QED BY <3>2, SumEmpty
  <2>5. ASSUME NEW m \in Machines PROVE fetching'[m] \in AnyFetch /\ fetching'[m].got = fetching[m].got
    <3>1. [fetching[m] EXCEPT !.pc = "stopped"] \in AnyFetch /\ [fetching[m] EXCEPT !.pc = "stopped"].got = fetching[m].got
      BY <1>t DEF AnyFetch
    <3> QED BY <2>1, <3>1, <1>t
  <2>6. fetching' \in [Machines -> AnyFetch]
    BY <2>1, <2>5
  <2>7. /\ lost' \in Int /\ in_hand' \in Int
        /\ (balance_of(account') - balance_of(account)) + (in_hand' - in_hand) + (lost' - lost) = topped' - topped
    BY <2>1, <2>4, <1>t
  <2> QED BY <2>1, <2>3, <2>5, <2>6, <2>7, <1>t, <1>0
<1>5. ASSUME NEW m \in Machines, IssueAsk(m) \/ IssueSign(m) \/ IssueAnswer(m) PROVE AccountInv'
  BY <1>5, IssueKeeps
<1>6. ASSUME NEW m \in Machines, IssueCharge(m) PROVE AccountInv'
  BY <1>6, ChargeKeeps
<1>7. ASSUME NEW m \in Machines, IssueRefund(m) PROVE AccountInv'
  BY <1>7, RefundKeeps
<1>8. ASSUME NEW m \in Machines, FetchStart(m) \/ FetchChunk(m) \/ FetchGivesUp(m) \/ FetchDone(m) PROVE AccountInv'
  BY <1>8, FetchKeeps
<1> QED BY <1>1, <1>2, <1>3, <1>4, <1>5, <1>6, <1>7, <1>8 DEF AccountNext

\* Of the issuer's accounts (charge, refund and credit of hidravpn-issuer's
\* accounts, and the request between them) and of the machines that fetch
\* with their token: what the account has left, what is being signed, what
\* was signed and what a stop or a failed write cost always add up to what
\* was bought and what was counted on the day's quota, for any number of
\* machines asking at once, purchases, days and failures; and every pass that
\* reached a machine is in its wallet once its fetch is over.
THEOREM AccountIsExact == AccountSpec => []AccountExact
PROOF
<1>1. AccountInit => AccountInv
  <2> SUFFICES ASSUME AccountInit PROVE AccountInv
    OBVIOUS
  <2>1. NoIssue \in AnyIssue /\ NoIssue.pc = "none" /\ Idle \in AnyFetch /\ Idle.got = 0
    BY DEF NoIssue, AnyIssue, Idle, AnyFetch
  <2>2. /\ issue = [m \in Machines |-> NoIssue] /\ fetching = [m \in Machines |-> Idle] /\ day = 1
        /\ held_passes = [m \in Machines |-> 0] /\ received = [m \in Machines |-> 0]
        /\ signed = 0 /\ lost = 0 /\ topped = 0 /\ onQuota = 0
    BY DEF AccountInit
  <2>3. account \in AnyAccount \cup {NoAccount} /\ balance_of(account) = 0
    <3> DEFINE a == [enabled |-> TRUE, day |-> 0, used |-> 0, balance |-> NoBalance]
               b == [enabled |-> TRUE, day |-> 0, used |-> 0, balance |-> 0]
    <3>1. a \in AnyAccount /\ b \in AnyAccount /\ balance_of(a) = 0 /\ balance_of(b) = 0
      BY DEF AnyAccount, balance_of, prepaid
    <3>2. account \in {NoAccount, a, b}
      BY DEF AccountInit
    <3>3. balance_of(NoAccount) = 0
      BY DEF balance_of
    <3> HIDE DEF a, b
    <3> QED BY <3>1, <3>2, <3>3
  <2>4. AccountsTyped
    BY <2>1, <2>2, <2>3 DEF AccountsTyped, AnyIssue, AnyFetch
  <2>5. in_hand = 0
    <3>1. InHand = {}
      BY <2>1, <2>2 DEF InHand
    <3>2. in_hand = SumOf([m \in Machines |-> issue[m].n], {})
      BY <3>1 DEF in_hand
    <3> QED BY <3>2, SumEmpty
  <2>6. balance_of(account) + in_hand + signed + lost = topped + onQuota
    BY <2>2, <2>3, <2>5
  <2>7. BalanceExact
    BY <2>6, Exact
  <2>8. PaidPassesKept
    BY <2>1, <2>2 DEF PaidPassesKept
  <2>9. \A m \in Machines : issue[m].pc \notin {"sign", "refund"}
    BY <2>1, <2>2
  <2> QED BY <2>4, <2>7, <2>8, <2>9 DEF AccountInv
<1>2. AccountInv /\ [AccountNext]_acctVars => AccountInv'
  <2> SUFFICES ASSUME AccountInv, [AccountNext]_acctVars PROVE AccountInv'
    OBVIOUS
  <2>1. CASE UNCHANGED acctVars
    <3>1. UNCHANGED <<account, day, issue, fetching, held_passes, signed, received, lost, topped, onQuota>>
      BY <2>1 DEF acctVars
    <3>2. AccountsTyped' /\ PaidPassesKept' /\ \A m \in Machines : issue'[m].pc \in {"sign", "refund"} => account' # NoAccount
      BY <3>1 DEF AccountInv, AccountsTyped, PaidPassesKept
    <3>3. in_hand' = in_hand
      BY <3>1 DEF in_hand, InHand
    <3>4. BalanceExact'
      BY <3>1, <3>3 DEF AccountInv, BalanceExact
    <3> QED BY <3>2, <3>4 DEF AccountInv
  <2> QED BY <2>1, AccountStep
<1>3. AccountInv => AccountExact
  BY DEF AccountInv, AccountExact
<1> QED BY <1>1, <1>2, <1>3, PTL DEF AccountSpec

-----------------------------------------------------------------------------
(* The session limiter of an open node.                                      *)

\* What is popped from the front of a window is older than the window.
LEMMA FrontIsOld ==
  ASSUME NEW q \in Seq(Nat), time \in Nat
  PROVE  /\ old_front(q) \in 0..Len(q)
         /\ \A i \in 1..old_front(q) : time - q[i] > Window
PROOF
<1> USE LimiterConstants
<1> DEFINE Stops == {n \in 0..Len(q) : n < Len(q) => time - q[n + 1] <= Window}
<1>1. Stops \subseteq Nat /\ Len(q) \in Stops
  OBVIOUS
<1>2. PICK n \in Stops : \A m \in Stops : n <= m
  BY <1>1, LeastNumber
<1>3. ASSUME NEW i \in 1..n PROVE time - q[i] > Window
  <2> DEFINE j == i - 1
  <2>0. n \in 0..Len(q) /\ Len(q) \in Nat
    OBVIOUS
  <2>3. j \in 0..Len(q) /\ j < Len(q) /\ j < n /\ j + 1 = i
    BY <2>0
  <2>1. j \in 0..Len(q) /\ j < Len(q) /\ j \notin Stops /\ j + 1 = i
    BY <1>2, <2>0, <2>3
  <2>4. i \in 1..Len(q)
    BY <2>0
  <2>2. q[i] \in Nat
    BY <2>4, ElementOfSeq
  <2>5. ~(time - q[j + 1] <= Window)
    BY <2>1
  <2>6. ~(time - q[i] <= Window)
    BY <2>1, <2>5
  <2> QED BY ONLY <2>2, <2>6, time \in Nat, LimiterConstants
<1> QED BY <1>2, <1>3 DEF old_front

LEMMA CountTo ==
  ASSUME NEW n \in Nat
  PROVE  IsFiniteSet(1..n) /\ Cardinality(1..n) = n
PROOF
<1>1. Cardinality(1..n) = IF 1 > n THEN 0 ELSE n - 1 + 1
  BY FS_Interval
<1>2. IsFiniteSet(1..n)
  BY FS_Interval
<1> QED BY <1>1, <1>2

\* What slides out of a window is none of what is counted since a time in it.
LEMMA SlidKeepsCounts ==
  ASSUME NEW q \in Seq(Nat), time \in Nat, NEW t \in Nat, t + Window >= time
  PROVE  /\ slid(q) \in Seq(Nat) /\ Len(slid(q)) <= Len(q)
         /\ Cardinality({i \in DOMAIN q : q[i] >= t}) <= Cardinality({i \in DOMAIN slid(q) : slid(q)[i] >= t})
         /\ Cardinality({i \in DOMAIN slid(q) : slid(q)[i] >= t}) <= Len(slid(q))
PROOF
<1> USE LimiterConstants
<1> DEFINE n == old_front(q)
           r == slid(q)
           Old == {i \in DOMAIN q : q[i] >= t}
           New == {i \in DOMAIN r : r[i] >= t}
           f == [i \in Old |-> i - n]
<1>1. n \in 0..Len(q) /\ \A i \in 1..n : time - q[i] > Window
  BY FrontIsOld
<1>2. \A i \in (n + 1)..Len(q) : q[i] \in Nat
  BY <1>1
<1> HIDE DEF n
<1>3. r = SubSeq(q, n + 1, Len(q))
  BY DEF slid, n
<1>4. r \in Seq(Nat) /\ Len(r) = Len(q) - n /\ \A i \in 1..Len(r) : r[i] = q[n + i]
  <2>1. n + 1 \in Int /\ Len(q) \in Int
    BY <1>1
  <2>3. /\ SubSeq(q, n + 1, Len(q)) \in Seq(Nat)
        /\ Len(SubSeq(q, n + 1, Len(q))) = IF n + 1 <= Len(q) THEN Len(q) - (n + 1) + 1 ELSE 0
        /\ \A i \in 1..(Len(q) - (n + 1) + 1) : SubSeq(q, n + 1, Len(q))[i] = q[(n + 1) + i - 1]
    BY ONLY <1>2, <2>1, SubSeqProperties
  <2>2. /\ r \in Seq(Nat) /\ Len(r) = IF n + 1 <= Len(q) THEN Len(q) - (n + 1) + 1 ELSE 0
        /\ \A i \in 1..(Len(q) - (n + 1) + 1) : r[i] = q[(n + 1) + i - 1]
    BY <1>3, <2>3, Zenon
  <2> QED BY <1>1, <2>2
<1> HIDE DEF r
<1>5. IsFiniteSet(New) /\ Cardinality(New) <= Len(r)
  <2>1. IsFiniteSet(1..Len(r)) /\ Cardinality(1..Len(r)) = Len(r)
    <3>1. Len(r) \in Nat
      BY <1>4
    <3> QED BY <3>1, CountTo
  <2>2. New \in SUBSET (1..Len(r))
    BY <1>4
  <2> QED BY <2>1, <2>2, FS_Subset
<1>6. ASSUME NEW i \in Old PROVE i - n \in New
  <2>1. i \in 1..Len(q) /\ q[i] \in Nat /\ q[i] >= t
    OBVIOUS
  <2>2. i > n
    BY <1>1, <2>1
  <2> DEFINE j == i - n
  <2>4. n \in Nat /\ i \in Nat /\ i <= Len(q) /\ Len(q) \in Nat
    BY <1>1, <2>1
  <2>5. j \in 1..Len(r) /\ n + j = i
    BY <1>4, <2>2, <2>4
  <2>3. r[j] = q[i]
    BY <1>4, <2>5
  <2> QED BY <1>4, <2>1, <2>3, <2>5
<1>7. f \in Injection(Old, New)
  <2>1. f \in [Old -> New]
    BY <1>6
  <2>2. ASSUME NEW a \in Old, NEW b \in Old, f[a] = f[b] PROVE a = b
    <3>1. a - n = b - n /\ a \in Int /\ b \in Int
      BY <2>2
    <3> QED BY <1>1, <3>1
  <2> QED BY <2>1, <2>2 DEF Injection, IsInjective
<1>8. Cardinality(Old) <= Cardinality(New)
  BY <1>5, <1>7, FS_Injection
<1> QED BY <1>1, <1>4, <1>5, <1>8 DEF r


LEMMA ConnMoves ==
  ASSUME ConnTyped, NEW c \in Conns, NEW q \in AnyConn, q.pc \notin {"new", "closed"} => q.ip \in Ips,
         conn' = [conn EXCEPT ![c] = q]
  PROVE  ConnTyped'
PROOF BY DEF ConnTyped

LEMMA ConnCloses ==
  ASSUME ConnTyped, NEW c \in Conns, Close(c)
  PROVE  ConnTyped'
PROOF
<1>1. Closed \in AnyConn /\ Closed.pc = "closed"
  BY DEF Closed, AnyConn, conn_pcs
<1> QED BY <1>1, ConnMoves DEF Close

LEMMA ConnGoesOn ==
  ASSUME ConnTyped, NEW c \in Conns, conn[c].ip \in Ips, NEW p \in conn_pcs, NEW r \in {"none", "new", "again"},
         \/ conn' = [conn EXCEPT ![c].pc = p]
         \/ conn' = [conn EXCEPT ![c].pc = p, ![c].recorded = r]
  PROVE  ConnTyped'
PROOF
<1> DEFINE q1 == [conn[c] EXCEPT !.pc = p]
           q2 == [conn[c] EXCEPT !.pc = p, !.recorded = r]
<1>0. conn[c] \in AnyConn
  BY DEF ConnTyped
<1>1. q1 \in AnyConn /\ q1.ip = conn[c].ip /\ q2 \in AnyConn /\ q2.ip = conn[c].ip
  BY <1>0 DEF AnyConn
<1>2. conn' = [conn EXCEPT ![c] = q1] \/ conn' = [conn EXCEPT ![c] = q2]
  BY DEF ConnTyped
<1> HIDE DEF q1, q2
<1> QED BY <1>1, <1>2, ConnMoves

LEMMA LimTypes ==
  ASSUME LimTyped, LimNext
  PROVE  LimTyped'
PROOF
<1> USE LimiterConstants DEF LimTyped, windows
<1>p. /\ \A c \in Conns : conn[c].pc \notin {"new", "closed"} => conn[c].ip \in Ips
      /\ \A c \in Conns : conn[c] \in AnyConn
  BY DEF ConnTyped
<1>s. \A ip \in Ips : slid(session_ip[ip]) \in Seq(Nat)
  <2> TAKE ip \in Ips
  <2>1. session_ip[ip] \in Seq(Nat) /\ time \in Nat /\ time + Window >= time
    OBVIOUS
  <2> QED BY <2>1, SlidKeepsCounts
<1>k. IsFiniteSet(session_keys)
  BY FS_Subset DEF session_keys
<1>f. \A keys : IsFiniteSet(DOMAIN sessions \ keys)
  BY FS_Subset
<1>1. ASSUME NEW c \in Conns, NEW ip \in Ips, AcceptConn(c, ip) PROVE LimTyped'
  <2>1. UNCHANGED <<time, sessions, session_ip, asked_q, granted>>
    BY <1>1 DEF AcceptConn
  <2>2. CASE conn' = [conn EXCEPT ![c].pc = "read", ![c].ip = ip]
    <3> DEFINE q == [conn[c] EXCEPT !.pc = "read", !.ip = ip]
    <3>1. q \in AnyConn /\ q.ip = ip
      BY <1>p DEF AnyConn, conn_pcs
    <3>2. conn' = [conn EXCEPT ![c] = q]
      BY <2>2 DEF ConnTyped
    <3> HIDE DEF q
    <3> QED BY <2>1, <3>1, <3>2, ConnMoves
  <2>3. CASE Close(c)
    BY <2>1, <2>3, ConnCloses
  <2> QED BY <1>1, <2>2, <2>3 DEF AcceptConn
<1>2. ASSUME NEW c \in Conns, NEW key \in Keys, NEW lasts \in BOOLEAN, ReadRequest(c, key, lasts) PROVE LimTyped'
  <2> DEFINE p == IF lasts THEN "room" ELSE "allow"
             q == [conn[c] EXCEPT !.pc = p, !.key = key, !.session = lasts]
  <2>1. UNCHANGED <<time, sessions, session_ip, asked_q, granted>> /\ conn[c].ip \in Ips
    BY <1>2, <1>p DEF ReadRequest
  <2>2. p \in conn_pcs
    BY DEF conn_pcs
  <2>3. conn' = [conn EXCEPT ![c] = q]
    BY <1>2 DEF ReadRequest, ConnTyped
  <2> HIDE DEF p
  <2>4. q \in AnyConn /\ q.ip = conn[c].ip
    BY <1>p, <2>2 DEF AnyConn
  <2> HIDE DEF q
  <2> QED BY <2>1, <2>3, <2>4, ConnMoves
<1>3. ASSUME NEW c \in Conns, NEW bits \in {0, 6}, CheckWork(c, bits) PROVE LimTyped'
  <2>1. /\ UNCHANGED <<time, session_ip, asked_q, granted>> /\ DOMAIN sessions' = session_keys /\ conn[c].ip \in Ips
        /\ Close(c) \/ conn' = [conn EXCEPT ![c].pc = "take"]
    BY <1>3, <1>p DEF CheckWork, slid_sessions
  <2>2. ConnTyped'
    BY <2>1, ConnCloses, ConnGoesOn DEF conn_pcs
  <2> QED BY <1>k, <2>1, <2>2
<1>4. ASSUME NEW c \in Conns, SessionRoom(c) PROVE LimTyped'
  <2>1. DOMAIN sessions' = session_keys /\ session_ip' \in [Ips -> Seq(Nat)]
    BY <1>4, <1>s DEF SessionRoom, Slide, slid_sessions
  <2>2. UNCHANGED <<time, asked_q, granted>> /\ conn[c].ip \in Ips /\ (Close(c) \/ conn' = [conn EXCEPT ![c].pc = "price"])
    BY <1>4, <1>p DEF SessionRoom
  <2>3. ConnTyped'
    BY <2>2, ConnCloses, ConnGoesOn DEF conn_pcs
  <2> QED BY <1>k, <2>1, <2>2, <2>3
<1>5. ASSUME NEW c \in Conns, AllowSession(c) PROVE LimTyped'
  <2> DEFINE key == conn[c].key
             ip == conn[c].ip
  <2>0. ip \in Ips /\ UNCHANGED <<time, asked_q>>
    BY <1>5, <1>p DEF AllowSession
  <2>1. CASE Close(c) /\ Slide(key, ip) /\ UNCHANGED granted
    <3>1. DOMAIN sessions' = session_keys /\ session_ip' \in [Ips -> Seq(Nat)]
      BY <2>1, <1>s DEF Slide, slid_sessions
    <3> QED BY <2>0, <2>1, <1>k, <3>1, ConnCloses
  <2>2. CASE /\ conn' = [conn EXCEPT ![c].pc = "send", ![c].recorded = "again"]
             /\ sessions' = slid_sessions /\ UNCHANGED <<session_ip, granted>>
    <3>1. ConnTyped'
      BY <2>0, <2>2, ConnGoesOn DEF conn_pcs
    <3>2. DOMAIN sessions' = session_keys
      BY <2>2 DEF slid_sessions
    <3> QED BY <2>0, <2>2, <1>k, <3>1, <3>2
  <2>3. CASE /\ conn' = [conn EXCEPT ![c].pc = "send", ![c].recorded = "new"]
             /\ sessions' = [k \in session_keys \cup {key} |-> IF k = key THEN time ELSE sessions[k]]
             /\ session_ip' = IF counted(ip) THEN [session_ip EXCEPT ![ip] = Append(slid(@), time)] ELSE session_ip
             /\ granted' = granted \cup {<<c, ip, time>>}
    <3>1. IsFiniteSet(DOMAIN sessions')
      <4>1. DOMAIN sessions' = session_keys \cup {key}
        BY <2>3
      <4>2. IsFiniteSet(session_keys \cup {key})
        BY <1>k, FS_AddElement
      <4> QED BY <4>1, <4>2
    <3>2. session_ip' \in [Ips -> Seq(Nat)]
      <4>1. Append(slid(session_ip[ip]), time) \in Seq(Nat)
        BY <1>s, <2>0
      <4> QED BY <4>1, <2>3
    <3>3. IsFiniteSet(granted') /\ granted' \subseteq Conns \X Ips \X (0..time')
      <4>1. IsFiniteSet(granted')
        BY <2>3, FS_AddElement
      <4>2. <<c, ip, time>> \in Conns \X Ips \X (0..time)
        BY <2>0
      <4> QED BY <4>1, <4>2, <2>0, <2>3
    <3>4. ConnTyped'
      BY <2>0, <2>3, ConnGoesOn DEF conn_pcs
    <3> QED BY <2>0, <3>1, <3>2, <3>3, <3>4
  <2> QED BY <1>5, <2>1, <2>2, <2>3 DEF AllowSession
<1>6. ASSUME NEW c \in Conns, AllowLasting(c) PROVE LimTyped'
  <2>1. /\ UNCHANGED <<time, sessions, session_ip, asked_q, granted>> /\ conn[c].ip \in Ips
        /\ Close(c) \/ conn' = [conn EXCEPT ![c].pc = "send"]
    BY <1>6, <1>p DEF AllowLasting
  <2>2. ConnTyped'
    BY <2>1, ConnCloses, ConnGoesOn DEF conn_pcs
  <2> QED BY <2>1, <2>2
<1>7. ASSUME NEW c \in Conns, SendAdmit(c) PROVE LimTyped'
  <2>1. /\ UNCHANGED <<time, sessions, session_ip, granted>> /\ conn[c].ip \in Ips
        /\ conn' = [conn EXCEPT ![c].pc = "wait"] /\ asked_q' = Append(asked_q, c)
    BY <1>7, <1>p DEF SendAdmit
  <2>3. asked_q' \in Seq(Conns)
    BY <2>1 DEF LimTyped
  <2>2. ConnTyped'
    BY <2>1, ConnGoesOn DEF conn_pcs
  <2> QED BY <2>1, <2>2, <2>3
<1>8. ASSUME NEW c \in Conns, NotAdmitted(c) PROVE LimTyped'
  <2>1. Close(c) /\ UNCHANGED <<time, session_ip, asked_q, granted>>
    BY <1>8 DEF NotAdmitted
  <2>2. IsFiniteSet(DOMAIN sessions')
    BY <1>8, <1>f DEF NotAdmitted, forget
  <2> QED BY <2>1, <2>2, ConnCloses
<1>9. ASSUME NEW c \in Conns, EndConn(c) PROVE LimTyped'
  BY <1>9, ConnCloses DEF EndConn
<1>10. ASSUME LoopAdmit PROVE LimTyped'
  <2> DEFINE c == Head(asked_q)
  <2>1. c \in Conns /\ Tail(asked_q) \in Seq(Conns)
    BY <1>10 DEF LoopAdmit
  <2>2. /\ asked_q' = Tail(asked_q) /\ UNCHANGED <<time, sessions, session_ip, granted>>
        /\ \/ conn' = conn
           \/ conn[c].pc = "wait" /\ conn' = [conn EXCEPT ![c].pc = "admitted"]
           \/ conn[c].pc = "wait" /\ conn' = [conn EXCEPT ![c].pc = "refused"]
    BY <1>10 DEF LoopAdmit
  <2> HIDE DEF c
  <2>3. ConnTyped'
    <3>1. CASE conn' = conn
      BY <3>1 DEF ConnTyped
    <3>2. CASE conn[c].pc = "wait" /\ \E p \in conn_pcs : conn' = [conn EXCEPT ![c].pc = p]
      BY <3>2, <2>1, <1>p, ConnGoesOn
    <3> QED BY <2>2, <3>1, <3>2 DEF conn_pcs
  <2> QED BY <2>1, <2>2, <2>3
<1>11. ASSUME NEW gone \in SUBSET clients, ReapClients(gone) PROVE LimTyped'
  <2>1. UNCHANGED <<time, session_ip, asked_q, granted, conn>>
    BY <1>11 DEF ReapClients
  <2>2. IsFiniteSet(DOMAIN sessions')
    BY <1>11, <1>f DEF ReapClients, forget
  <2> QED BY <2>1, <2>2 DEF ConnTyped
<1>12. ASSUME NEW l \in clients, Handshake(l) \/ OperatorRevokes(l) PROVE LimTyped'
  BY <1>12 DEF Handshake, OperatorRevokes, ConnTyped
<1>13. ASSUME TimePasses PROVE LimTyped'
  <2>1. time' \in 0..MaxTime /\ 0..time \subseteq 0..time'
    BY <1>13 DEF TimePasses
  <2> QED BY <1>13, <2>1 DEF TimePasses, ConnTyped
<1> QED BY <1>1, <1>2, <1>3, <1>4, <1>5, <1>6, <1>7, <1>8, <1>9, <1>10, <1>11, <1>12, <1>13 DEF LimNext

\* A step that allows no new place: windows may slide, places be given back.
LEMMA NothingAllowed ==
  ASSUME LimInv, LimTyped', UNCHANGED <<time, granted>>, DOMAIN sessions' \subseteq DOMAIN sessions,
         \/ UNCHANGED session_ip
         \/ \E ip \in Ips : session_ip' = [session_ip EXCEPT ![ip] = slid(@)]
  PROVE  LimInv'
PROOF
<1> USE LimiterConstants
<1>1. ShareKept'
  <2>1. Cardinality(DOMAIN sessions') <= SESSION_GLOBAL
    <3>1. IsFiniteSet(DOMAIN sessions) /\ Cardinality(DOMAIN sessions) <= SESSION_GLOBAL
      BY DEF LimInv, LimTyped, ShareKept
    <3>2. Cardinality(DOMAIN sessions') <= Cardinality(DOMAIN sessions) /\ IsFiniteSet(DOMAIN sessions')
      BY <3>1, FS_Subset
    <3>3. Cardinality(DOMAIN sessions') \in Nat /\ Cardinality(DOMAIN sessions) \in Nat
      BY <3>1, <3>2, FS_CardinalityType
    <3> QED BY <3>1, <3>2, <3>3
  <2> QED BY <2>1 DEF ShareKept, LimInv, granted_from
<1>2. ASSUME NEW ip \in Ips \ Relays, NEW t \in 0..MaxTime, t + Window >= time
      PROVE  Cardinality(granted_from(ip, t)) <= Cardinality(counts_from(ip, t)')
  <2>1. Cardinality(granted_from(ip, t)) <= Cardinality(counts_from(ip, t))
    BY <1>2 DEF LimInv, PlacesCounted
  <2>2. CASE session_ip'[ip] = session_ip[ip]
    BY <2>1, <2>2 DEF counts_from
  <2>3. CASE session_ip'[ip] = slid(session_ip[ip])
    <3> DEFINE q == session_ip[ip]
    <3>1. q \in Seq(Nat) /\ time \in Nat /\ t \in Nat
      BY DEF LimInv, LimTyped
    <3>2. Cardinality({i \in DOMAIN q : q[i] >= t}) <= Cardinality({i \in DOMAIN slid(q) : slid(q)[i] >= t})
      BY <1>2, <3>1, SlidKeepsCounts
    <3>3. Cardinality(counts_from(ip, t)) <= Cardinality(counts_from(ip, t)')
      BY <2>3, <3>2 DEF counts_from
    <3>4. IsFiniteSet(granted_from(ip, t)) /\ IsFiniteSet(counts_from(ip, t)) /\ IsFiniteSet(counts_from(ip, t)')
      <4>1. IsFiniteSet(granted_from(ip, t))
        BY FS_Subset DEF granted_from, LimInv, LimTyped
      <4>2. IsFiniteSet(DOMAIN session_ip[ip]) /\ IsFiniteSet(DOMAIN session_ip'[ip])
        <5>1. session_ip[ip] \in Seq(Nat) /\ session_ip'[ip] \in Seq(Nat)
          BY DEF LimInv, LimTyped
        <5>2. /\ Len(session_ip[ip]) \in Nat /\ DOMAIN session_ip[ip] = 1..Len(session_ip[ip])
              /\ Len(session_ip'[ip]) \in Nat /\ DOMAIN session_ip'[ip] = 1..Len(session_ip'[ip])
          BY <5>1
        <5> QED BY <5>2, CountTo
      <4> QED BY <4>1, <4>2, FS_Subset DEF counts_from
    <3> QED BY <2>1, <3>3, <3>4, FS_CardinalityType
  <2>4. session_ip'[ip] = session_ip[ip] \/ session_ip'[ip] = slid(session_ip[ip])
    BY DEF LimInv, LimTyped
  <2> QED BY <2>2, <2>3, <2>4
<1>3. PlacesCounted'
  <2>1. \A ip, t : granted_from(ip, t)' = granted_from(ip, t)
    BY DEF granted_from
  <2> QED BY <1>2, <2>1 DEF PlacesCounted
<1> QED BY <1>1, <1>3 DEF LimInv

\* A new place: the address has room in its window, so fewer were allowed to it
\* in any window that ends now or later.
LEMMA PlaceAllowed ==
  ASSUME LimInv, LimTyped', NEW c \in Conns, AllowSession(c),
         refusal_now(conn[c].key, conn[c].ip) = "no", conn[c].key \notin session_keys
  PROVE  LimInv'
PROOF
<1> USE LimiterConstants
<1>i. conn[c].ip \in Ips
  BY DEF AllowSession, LimInv, LimTyped, ConnTyped
<1>j. PICK ip \in Ips : ip = conn[c].ip
  BY <1>i
<1>h. PICK key : key = conn[c].key
  OBVIOUS
<1> DEFINE x == <<c, ip, time>>
           q == session_ip[ip]
           r == slid(q)
<1>1. /\ refusal_now(key, ip) = "no" /\ key \notin session_keys /\ time' = time /\ granted' = granted \cup {x}
      /\ sessions' = [k \in session_keys \cup {key} |-> IF k = key THEN time ELSE sessions[k]]
      /\ session_ip' = IF counted(ip) THEN [session_ip EXCEPT ![ip] = Append(slid(@), time)] ELSE session_ip
  BY <1>h, <1>j DEF AllowSession
<1>2. ip \in Ips /\ q \in Seq(Nat) /\ time \in Nat /\ IsFiniteSet(granted)
  BY DEF LimInv, LimTyped
<1>3. used_places < SESSION_GLOBAL /\ (ip \notin Relays => Len(r) < SESSION_PER_IP)
  <2>1. IsFiniteSet(session_keys) /\ r \in Seq(Nat)
    <3>1. time + Window >= time
      BY <1>2
    <3> QED BY <1>2, <3>1, FS_Subset, SlidKeepsCounts DEF session_keys, LimInv, LimTyped
  <2>2. used_places \in Nat /\ Len(r) \in Nat
    BY <2>1, FS_CardinalityType DEF used_places
  <2>3. ~(used_places >= SESSION_GLOBAL) /\ (ip \notin Relays => ~(Len(r) >= SESSION_PER_IP))
    BY <1>1 DEF refusal_now, session_refusal, counted
  <2> QED BY <2>2, <2>3
<1>4. Cardinality(DOMAIN sessions') <= SESSION_GLOBAL
  <2>1. DOMAIN sessions' = session_keys \cup {key} /\ IsFiniteSet(session_keys)
    BY <1>1, FS_Subset DEF session_keys, LimInv, LimTyped
  <2>2. Cardinality(DOMAIN sessions') = used_places + 1 /\ used_places \in Nat
    <3>1. used_places \in Nat
      BY <2>1, FS_CardinalityType DEF used_places
    <3>2. Cardinality(session_keys \cup {key}) = used_places + 1
      BY <1>1, <2>1, FS_AddElement DEF used_places
    <3> QED BY <2>1, <3>1, <3>2
  <2> QED BY <1>3, <2>2
<1> DEFINE Counts(t) == {i \in DOMAIN r : r[i] >= t}
<1>5. ASSUME NEW t \in 0..MaxTime, t + Window >= time, ip \notin Relays
      PROVE  /\ Cardinality(granted_from(ip, t)) <= Cardinality(Counts(t)) /\ Cardinality(Counts(t)) <= Len(r)
             /\ IsFiniteSet(Counts(t)) /\ IsFiniteSet(granted_from(ip, t)) /\ r \in Seq(Nat)
             /\ Cardinality(granted_from(ip, t)) \in Nat /\ Cardinality(Counts(t)) \in Nat
  <2>0. t \in Nat
    OBVIOUS
  <2>1. Cardinality(granted_from(ip, t)) <= Cardinality(counts_from(ip, t))
    BY <1>2, <1>5 DEF LimInv, PlacesCounted
  <2>2. r \in Seq(Nat) /\ Cardinality(counts_from(ip, t)) <= Cardinality(Counts(t)) /\ Cardinality(Counts(t)) <= Len(r)
    BY <1>2, <1>5, <2>0, SlidKeepsCounts DEF counts_from
  <2>3. IsFiniteSet(granted_from(ip, t)) /\ IsFiniteSet(counts_from(ip, t)) /\ IsFiniteSet(Counts(t))
    <3>1. IsFiniteSet(granted_from(ip, t))
      BY <1>2, FS_Subset DEF granted_from
    <3>2. Len(q) \in Nat /\ DOMAIN q = 1..Len(q) /\ Len(r) \in Nat /\ DOMAIN r = 1..Len(r)
      BY <1>2, <2>2
    <3>3. IsFiniteSet(DOMAIN q) /\ IsFiniteSet(DOMAIN r)
      BY <3>2, CountTo
    <3> QED BY <3>1, <3>3, FS_Subset DEF counts_from
  <2>4. /\ Cardinality(granted_from(ip, t)) \in Nat /\ Cardinality(counts_from(ip, t)) \in Nat
        /\ Cardinality(Counts(t)) \in Nat
    BY <2>3, FS_CardinalityType
  <2> HIDE DEF Counts
  <2> QED BY <2>1, <2>2, <2>3, <2>4
<1>6. ASSUME NEW j \in Ips \ Relays, NEW t \in 0..MaxTime, t + Window >= time
      PROVE  Cardinality(granted_from(j, t)') <= Cardinality(counts_from(j, t)')
  <2>1. CASE j # ip
    <3>1. granted_from(j, t)' = granted_from(j, t) /\ session_ip'[j] = session_ip[j]
      BY <1>1, <2>1 DEF granted_from, LimInv, LimTyped
    <3> QED BY <1>6, <3>1 DEF counts_from, LimInv, PlacesCounted
  <2>2. CASE j = ip /\ t > time
    <3>1. granted_from(j, t)' = granted_from(j, t)
      BY <1>1, <2>2 DEF granted_from, LimInv, LimTyped
    <3>2. granted_from(j, t) = {}
      BY <2>2, <1>2 DEF granted_from, LimInv, LimTyped
    <3>3. IsFiniteSet(counts_from(j, t)')
      <4>1. Len(session_ip'[j]) \in Nat /\ DOMAIN session_ip'[j] = 1..Len(session_ip'[j])
        BY DEF LimInv, LimTyped
      <4>2. IsFiniteSet(DOMAIN session_ip'[j])
        BY <4>1, CountTo
      <4> QED BY <4>2, FS_Subset DEF counts_from
    <3>4. Cardinality(counts_from(j, t)') \in Nat /\ Cardinality(granted_from(j, t)') = 0
      BY <3>1, <3>2, <3>3, FS_CardinalityType, FS_EmptySet
    <3> QED BY <3>4
  <2>3. CASE j = ip /\ ~(t > time)
    <3>1. r \in Seq(Nat) /\ Cardinality(granted_from(ip, t)) <= Cardinality(Counts(t)) /\ Cardinality(Counts(t)) \in Nat
      BY <1>5, <1>6, <2>3
    <3>2. session_ip'[ip] = Append(r, time)
      BY <1>1, <1>2, <2>3 DEF counted, LimInv, LimTyped
    <3>3. counts_from(ip, t)' = Counts(t) \cup {Len(r) + 1}
      <4>1. DOMAIN Append(r, time) = DOMAIN r \cup {Len(r) + 1}
        BY <1>2, <3>1
      <4>2. Append(r, time)[Len(r) + 1] = time /\ \A i \in DOMAIN r : Append(r, time)[i] = r[i]
        BY <1>2, <3>1
      <4>3. time >= t
        BY <1>2, <2>3
      <4>4. Len(r) + 1 \notin DOMAIN r
        BY <3>1
      <4>5. counts_from(ip, t)' = {i \in DOMAIN Append(r, time) : Append(r, time)[i] >= t}
        BY <3>2 DEF counts_from
      <4> HIDE DEF r
      <4> QED BY <4>1, <4>2, <4>3, <4>4, <4>5
    <3>4. Len(r) + 1 \notin Counts(t)
      BY <3>1
    <3>5. Cardinality(counts_from(ip, t)') = Cardinality(Counts(t)) + 1
      <4>1. IsFiniteSet(Counts(t))
        BY <1>5, <1>6, <2>3
      <4> HIDE DEF Counts
      <4> QED BY <3>3, <3>4, <4>1, FS_AddElement
    <3>6. Cardinality(granted_from(ip, t)') <= Cardinality(granted_from(ip, t)) + 1 /\ Cardinality(granted_from(ip, t)) \in Nat
      <4>1. granted_from(ip, t)' = granted_from(ip, t) \cup {x}
        <5>1. x[2] = ip /\ x[3] = time /\ time >= t
          BY <1>2, <2>3
        <5> HIDE DEF x
        <5> QED BY <1>1, <5>1 DEF granted_from
      <4>2. IsFiniteSet(granted_from(ip, t)) /\ Cardinality(granted_from(ip, t)) \in Nat
        BY <1>5, <1>6, <2>3
      <4>3. Cardinality(granted_from(ip, t) \cup {x}) =
              IF x \in granted_from(ip, t) THEN Cardinality(granted_from(ip, t)) ELSE Cardinality(granted_from(ip, t)) + 1
        BY <4>2, FS_AddElement
      <4> QED BY <4>1, <4>2, <4>3
    <3>7. Cardinality(granted_from(ip, t)') \in Nat
      <4>1. IsFiniteSet(granted_from(ip, t)')
        BY FS_Subset DEF granted_from, LimTyped
      <4> QED BY <4>1, FS_CardinalityType
    <3>8. Cardinality(granted_from(ip, t)') <= Cardinality(counts_from(ip, t)')
      <4> HIDE DEF Counts
      <4> QED BY <3>1, <3>5, <3>6, <3>7
    <3>9. counts_from(j, t)' = counts_from(ip, t)' /\ granted_from(j, t)' = granted_from(ip, t)'
      BY <2>3 DEF counts_from, granted_from
    <3> QED BY <3>8, <3>9
  <2> QED BY <2>1, <2>2, <2>3
<1>7. ASSUME NEW j \in Ips \ Relays, NEW t \in 0..MaxTime
      PROVE  Cardinality({g \in granted_from(j, t)' : g[3] <= t + Window}) <= SESSION_PER_IP
  <2> DEFINE Were == {g \in granted_from(j, t) : g[3] <= t + Window}
             Are == {g \in granted_from(j, t)' : g[3] <= t + Window}
  <2>1. Cardinality(Were) <= SESSION_PER_IP
    BY DEF LimInv, ShareKept
  <2>2. CASE j # ip \/ ~(t <= time /\ time <= t + Window)
    <3>1. Are = Were
      BY <1>1, <1>2, <2>2 DEF granted_from
    <3> QED BY <2>1, <3>1
  <2>3. CASE j = ip /\ t <= time /\ time <= t + Window
    <3>1. Are \subseteq granted_from(ip, t) \cup {x}
      BY <1>1, <2>3 DEF granted_from
    <3>2. /\ IsFiniteSet(granted_from(ip, t)) /\ Cardinality(granted_from(ip, t)) \in Nat
          /\ Cardinality(granted_from(ip, t)) <= Cardinality(Counts(t)) /\ Cardinality(Counts(t)) <= Len(r)
          /\ Cardinality(Counts(t)) \in Nat /\ Len(r) \in Nat
      <4>1. t + Window >= time /\ ip \notin Relays
        BY <1>2, <2>3
      <4> HIDE DEF Counts, r
      <4> QED BY <1>5, <4>1
    <3>3. Len(r) < SESSION_PER_IP
      BY <1>3, <2>3
    <3>4. Cardinality(granted_from(ip, t)) + 1 <= SESSION_PER_IP
      <4> HIDE DEF Counts, r
      <4> QED BY <3>2, <3>3
    <3>5. /\ IsFiniteSet(granted_from(ip, t) \cup {x})
          /\ Cardinality(granted_from(ip, t) \cup {x}) <= Cardinality(granted_from(ip, t)) + 1
      <4>1. /\ IsFiniteSet(granted_from(ip, t) \cup {x})
            /\ Cardinality(granted_from(ip, t) \cup {x}) =
                 IF x \in granted_from(ip, t) THEN Cardinality(granted_from(ip, t)) ELSE Cardinality(granted_from(ip, t)) + 1
        BY <3>2, FS_AddElement
      <4> HIDE DEF x, Counts
      <4> QED BY <3>2, <4>1
    <3>6. Cardinality(Are) <= Cardinality(granted_from(ip, t) \cup {x}) /\ IsFiniteSet(Are)
      BY <3>1, <3>5, FS_Subset
    <3>7. Cardinality(Are) \in Nat /\ Cardinality(granted_from(ip, t) \cup {x}) \in Nat
      BY <3>5, <3>6, FS_CardinalityType
    <3>8. Cardinality(Are) <= SESSION_PER_IP
      <4> HIDE DEF Are, Counts, x
      <4> QED BY <3>2, <3>4, <3>5, <3>6, <3>7
    <3> QED BY <3>8
  <2> QED BY <2>2, <2>3
<1>8. PlacesCounted'
  BY <1>1, <1>6 DEF PlacesCounted
<1>9. ShareKept'
  BY <1>4, <1>7 DEF ShareKept
<1> QED BY <1>8, <1>9 DEF LimInv

LEMMA LimStep ==
  ASSUME LimInv, [LimNext]_limVars
  PROVE  LimInv'
PROOF
<1> USE LimiterConstants
<1>0. CASE UNCHANGED limVars
  BY <1>0 DEF limVars, windows, LimInv, LimTyped, ConnTyped, PlacesCounted, ShareKept, granted_from, counts_from
<1>1. CASE LimNext
  <2>t. LimTyped'
    BY <1>1, LimTypes DEF LimInv
  <2>k. session_keys \subseteq DOMAIN sessions /\ DOMAIN slid_sessions = session_keys
        /\ \A keys : DOMAIN forget(keys) \subseteq DOMAIN sessions
    BY DEF session_keys, slid_sessions, forget
  <2>p. \A c \in Conns : conn[c].pc \notin {"new", "closed"} => conn[c].ip \in Ips
    BY DEF LimInv, LimTyped, ConnTyped
  <2>1. ASSUME NEW c \in Conns, SessionRoom(c) PROVE LimInv'
    <3>1. /\ UNCHANGED <<time, granted>> /\ DOMAIN sessions' \subseteq DOMAIN sessions
          /\ UNCHANGED session_ip \/ \E ip \in Ips : session_ip' = [session_ip EXCEPT ![ip] = slid(@)]
      BY <2>1, <2>k, <2>p DEF SessionRoom, Slide
    <3> QED BY <3>1, <2>t, NothingAllowed
  <2>2. ASSUME NEW c \in Conns, AllowSession(c) PROVE LimInv'
    <3>1. CASE refusal_now(conn[c].key, conn[c].ip) # "no" \/ conn[c].key \in session_keys
      <4>1. UNCHANGED <<time, granted>> /\ conn[c].ip \in Ips
        BY <2>2, <2>p, <3>1 DEF AllowSession
      <4>2. /\ DOMAIN sessions' \subseteq DOMAIN sessions
            /\ UNCHANGED session_ip \/ \E ip \in Ips : session_ip' = [session_ip EXCEPT ![ip] = slid(@)]
        BY <2>2, <3>1, <4>1, <2>k DEF AllowSession, Slide
      <4> QED BY <4>1, <4>2, <2>t, NothingAllowed
    <3>2. CASE ~(refusal_now(conn[c].key, conn[c].ip) # "no" \/ conn[c].key \in session_keys)
      BY <2>2, <2>t, <3>2, PlaceAllowed
    <3> QED BY <3>1, <3>2
  <2>3. ASSUME TimePasses PROVE LimInv'
    <3>1. /\ time' = time + 1 /\ time \in Nat
          /\ UNCHANGED <<sessions, session_ip, granted>>
      BY <2>3 DEF TimePasses, windows, LimInv, LimTyped
    <3>2. PlacesCounted'
      BY <3>1 DEF LimInv, PlacesCounted, granted_from, counts_from
    <3>3. ShareKept'
      BY <3>1 DEF LimInv, ShareKept, granted_from
    <3> QED BY <2>t, <3>2, <3>3 DEF LimInv
  <2>4. ASSUME UNCHANGED <<time, granted, session_ip>>, DOMAIN sessions' \subseteq DOMAIN sessions PROVE LimInv'
    BY <2>4, <2>t, NothingAllowed
  <2>5. ASSUME NEW c \in Conns, \/ \E ip \in Ips : AcceptConn(c, ip)
                                \/ \E key \in Keys, lasts \in BOOLEAN : ReadRequest(c, key, lasts)
                                \/ \E bits \in {0, 6} : CheckWork(c, bits)
                                \/ AllowLasting(c) \/ SendAdmit(c) \/ NotAdmitted(c) \/ EndConn(c)
        PROVE LimInv'
    <3>1. UNCHANGED <<time, granted, session_ip>> /\ DOMAIN sessions' \subseteq DOMAIN sessions
      BY <2>5, <2>k DEF AcceptConn, ReadRequest, CheckWork, AllowLasting, SendAdmit, NotAdmitted, EndConn, windows
    <3> QED BY <3>1, <2>4
  <2>6. ASSUME \/ LoopAdmit \/ \E gone \in SUBSET clients : ReapClients(gone)
               \/ \E l \in clients : Handshake(l) \/ OperatorRevokes(l)
        PROVE LimInv'
    <3>1. UNCHANGED <<time, granted, session_ip>> /\ DOMAIN sessions' \subseteq DOMAIN sessions
      BY <2>6, <2>k DEF LoopAdmit, ReapClients, Handshake, OperatorRevokes, windows
    <3> QED BY <3>1, <2>4
  <2> QED BY <1>1, <2>1, <2>2, <2>3, <2>5, <2>6 DEF LimNext
<1> QED BY <1>0, <1>1

\* The windows of RateLimiter hold: however handlers, the loop, the reaper and
\* the clock take turns, no address but a relay's is allowed more new session
\* keys in a window than its share, and the sessions never more than the node's.
THEOREM ShareIsKept == LimSpec => []ShareKept
PROOF
<1>1. LimInit => LimInv
  <2> SUFFICES ASSUME LimInit PROVE LimInv
    OBVIOUS
  <2> USE LimiterConstants DEF LimInit
  <2>1. LimTyped
    <3>1. ConnTyped
      <4>1. [Closed EXCEPT !.pc = "new"] \in AnyConn /\ [Closed EXCEPT !.pc = "new"].pc = "new"
        BY DEF Closed, AnyConn, conn_pcs
      <4> QED BY <4>1 DEF ConnTyped
    <3>2. DOMAIN sessions = {} /\ IsFiniteSet(DOMAIN sessions) /\ IsFiniteSet(granted)
      BY FS_EmptySet
    <3>3. time \in 0..MaxTime /\ asked_q \in Seq(Conns) /\ session_ip \in [Ips -> Seq(Nat)]
      OBVIOUS
    <3> QED BY <3>1, <3>2, <3>3 DEF LimTyped
  <2>2. Cardinality(DOMAIN sessions) = 0 /\ \A ip, t : granted_from(ip, t) = {}
    BY FS_EmptySet DEF granted_from
  <2>3. ShareKept
    <3>1. \A ip \in Ips \ Relays, t \in 0..MaxTime : {g \in granted_from(ip, t) : g[3] <= t + Window} = {}
      BY <2>2
    <3>2. Cardinality({}) <= SESSION_PER_IP /\ Cardinality(DOMAIN sessions) <= SESSION_GLOBAL
      BY <2>2, FS_EmptySet
    <3> QED BY <3>1, <3>2 DEF ShareKept
  <2>4. PlacesCounted
    <3>1. ASSUME NEW ip \in Ips, NEW t PROVE counts_from(ip, t) = {}
      BY DEF counts_from
    <3>2. Cardinality({}) <= Cardinality({})
      BY FS_EmptySet
    <3>3. \A ip \in Ips \ Relays, t \in 0..MaxTime : Cardinality(granted_from(ip, t)) <= Cardinality(counts_from(ip, t))
      BY <2>2, <3>1, <3>2
    <3> QED BY <3>3 DEF PlacesCounted
  <2> QED BY <2>1, <2>3, <2>4 DEF LimInv
<1>2. LimInv /\ [LimNext]_limVars => LimInv'
  BY LimStep
<1>3. LimInv => ShareKept
  BY DEF LimInv
<1> QED BY <1>1, <1>2, <1>3, PTL DEF LimSpec

-----------------------------------------------------------------------------
(* Putting the machine's network back.                                       *)

\* What comes first in two sequences one after the other, and what comes then.
LEMMA ConcatEnds ==
  ASSUME NEW R, NEW s \in Seq(R), NEW t \in Seq(R)
  PROVE  /\ s \o t \in Seq(R) /\ Len(s \o t) = Len(s) + Len(t)
         /\ \A i \in 1..Len(s) : (s \o t)[i] = s[i]
         /\ \A i \in 1..Len(t) : (s \o t)[i + Len(s)] = t[i]
OBVIOUS

\* The steps of apply: what it does first, where it copies and swaps
\* resolv.conf, and that it saves last.
LEMMA StepsOfApply ==
  /\ Len(applySteps) = IF swaps THEN 15 ELSE 11
  /\ applySteps[1] = "save"
  /\ \A i \in 1..Len(applySteps) :
       /\ applySteps[i] \in {"save", "node", "copy", "empty", "fill", "changed"} \cup TunnelRoutes
       /\ applySteps[i] = "copy" <=> swaps /\ i = 10
       /\ applySteps[i] = "empty" <=> swaps /\ i = 12
       /\ applySteps[i] = "fill" <=> swaps /\ i = 13
  /\ applySteps[Len(applySteps)] = "save"
<1> DEFINE T == {"save", "node", "copy", "empty", "fill", "changed"} \cup TunnelRoutes
           a == <<"save", "node", "save", "exit", "save", "halves", "save", "dns", "save">>
           b == IF swaps THEN <<"copy", "save", "empty", "fill">> ELSE << >>
           c == <<"changed", "save">>
           n == Len(b)
<1>0. {"save", "node", "copy", "empty", "fill", "changed", "exit", "halves", "dns"} \subseteq T
  BY DEF TunnelRoutes
<1> HIDE DEF T
<1>1. a \in Seq(T) /\ b \in Seq(T) /\ c \in Seq(T)
  <2>1. a \in Seq(T)
    BY <1>0
  <2>2. <<"copy", "save", "empty", "fill">> \in Seq(T) /\ << >> \in Seq(T)
    BY <1>0
  <2>3. c \in Seq(T)
    BY <1>0
  <2> QED BY <2>1, <2>2, <2>3
<1>2. Len(a) = 9 /\ (n = IF swaps THEN 4 ELSE 0) /\ Len(c) = 2
  OBVIOUS
<1>3. /\ \A i \in 1..9 : a[i] \in T /\ a[i] \notin {"copy", "empty", "fill"}
      /\ a[1] = "save"
  BY <1>0
<1>4. /\ \A i \in 1..n : b[i] \in T /\ swaps
      /\ \A i \in 1..n : /\ b[i] = "copy" <=> i = 1
                         /\ b[i] = "empty" <=> i = 3
                         /\ b[i] = "fill" <=> i = 4
  BY <1>0
<1>5. c[1] = "changed" /\ c[2] = "save"
  OBVIOUS
<1>6. applySteps = a \o b \o c
  BY DEF applySteps
<1> HIDE DEF a, b, c, n
<1>7. /\ a \o b \in Seq(T) /\ Len(a \o b) = 9 + n
      /\ \A i \in 1..9 : (a \o b)[i] = a[i]
      /\ \A i \in 1..n : (a \o b)[i + 9] = b[i]
  <2>1. /\ a \o b \in Seq(T) /\ Len(a \o b) = Len(a) + Len(b)
        /\ \A i \in 1..Len(a) : (a \o b)[i] = a[i]
        /\ \A i \in 1..Len(b) : (a \o b)[i + Len(a)] = b[i]
    BY <1>1, ConcatEnds
  <2> QED BY <1>2, <2>1 DEF n
<1>8. /\ Len(applySteps) = 11 + n
      /\ \A i \in 1..(9 + n) : applySteps[i] = (a \o b)[i]
      /\ \A i \in 1..2 : applySteps[i + (9 + n)] = c[i]
  <2>1. /\ Len(a \o b \o c) = Len(a \o b) + Len(c)
        /\ \A i \in 1..Len(a \o b) : (a \o b \o c)[i] = (a \o b)[i]
        /\ \A i \in 1..Len(c) : (a \o b \o c)[i + Len(a \o b)] = c[i]
    <3>1. ASSUME NEW d \in Seq(T)
          PROVE  /\ Len(d \o c) = Len(d) + Len(c)
                 /\ \A i \in 1..Len(d) : (d \o c)[i] = d[i]
                 /\ \A i \in 1..Len(c) : (d \o c)[i + Len(d)] = c[i]
      BY <1>1
    <3> QED BY <1>7, <3>1
  <2> QED BY <1>2, <1>6, <1>7, <2>1
<1>9. n \in Nat /\ applySteps[10 + n] = "changed" /\ applySteps[11 + n] = "save"
  <2>1. 1 + (9 + n) = 10 + n /\ 2 + (9 + n) = 11 + n
    BY <1>2
  <2> QED BY <1>2, <1>5, <1>8, <2>1
<1>10. \A i \in 1..9 : applySteps[i] = a[i]
  <2> SUFFICES ASSUME NEW i \in 1..9 PROVE applySteps[i] = a[i]
    OBVIOUS
  <2>1. i \in 1..(9 + n)
    BY <1>9
  <2>2. applySteps[i] = (a \o b)[i]
    BY <1>8, <2>1
  <2> QED BY <1>7, <2>2
<1>11. ASSUME NEW i \in 10..(9 + n) PROVE applySteps[i] = b[i - 9] /\ i - 9 \in 1..n
  <2>1. i - 9 \in 1..n /\ (i - 9) + 9 = i /\ i \in 1..(9 + n)
    BY <1>2
  <2> QED BY <1>7, <1>8, <2>1
<1>12. ASSUME NEW i \in 1..Len(applySteps)
       PROVE  /\ applySteps[i] \in T
              /\ applySteps[i] = "copy" <=> swaps /\ i = 10
              /\ applySteps[i] = "empty" <=> swaps /\ i = 12
              /\ applySteps[i] = "fill" <=> swaps /\ i = 13
  <2>1. CASE i \in 1..9
    <3>1. i # 10 /\ i # 12 /\ i # 13
      BY <2>1
    <3> QED BY <1>3, <1>10, <2>1, <3>1
  <2>2. CASE i \in 10..(9 + n)
    <3>1. /\ i - 9 = 1 <=> i = 10
          /\ i - 9 = 3 <=> i = 12
          /\ i - 9 = 4 <=> i = 13
      BY <2>2, <1>2
    <3> QED BY <1>4, <1>11, <2>2, <3>1
  <2>3. CASE i = 10 + n \/ i = 11 + n
    <3>1. (i # 10 \/ ~swaps) /\ (i # 12 \/ ~swaps) /\ (i # 13 \/ ~swaps)
      BY <2>3, <1>2
    <3>2. "changed" \in T /\ "save" \in T
      BY DEF T
    <3> QED BY <1>9, <2>3, <3>1, <3>2
  <2> QED BY <1>2, <1>8, <2>1, <2>2, <2>3
<1> QED BY <1>2, <1>3, <1>8, <1>9, <1>10, <1>12 DEF T

\* The state's shape.
NetShape ==
  /\ proc \in {"idle", "apply", "revert", "up"}
  /\ step \in Nat /\ (proc = "apply" => step \in 1..Len(applySteps))
  /\ proc = "revert" => step \in 1..6
  /\ mem \in NetPlans /\ plan \in NetPlans \cup {NoNetPlan}
  /\ problem \in BOOLEAN /\ cut \in BOOLEAN /\ torn \in BOOLEAN
  /\ target \in PlanNodes /\ routes \subseteq PlanNodes \cup TunnelRoutes
  /\ copy \in Contents \cup {NoCopy} /\ resolv \in Contents /\ machine \in Nat

\* The plan in memory is to put resolv.conf back.
Wrote == mem.dns_changed /\ mem.backup # NoCopy

\* While no write of resolv.conf was cut short: what it holds, that what plans
\* and the copy would put back is the machine's own, and where it may be empty.
DnsInv ==
  ~torn =>
    /\ resolv \in {machine, Ours, Emptied}
    /\ resolv = Ours => copy = machine
    /\ proc # "idle" => mem.backup \in {NoCopy, machine}
    /\ plan # NoNetPlan => plan.backup \in {NoCopy, machine}
    /\ proc = "apply" /\ swaps /\ step > 10 => copy = machine
    /\ resolv = Emptied => \/ proc = "apply" /\ swaps /\ step = 13
                           \/ proc = "revert" /\ step = 3 /\ Wrote
    /\ proc = "revert" /\ step > 3 /\ Wrote => resolv = machine

\* The plan that is on file: the one being undone or in force.
PlanInv ==
  /\ proc = "up" => plan = mem
  /\ proc = "revert" => plan = mem \/ (step = 6 /\ ~problem /\ plan = NoNetPlan)

\* A node's route is in the plan that will undo it, unless it was cut.
Planned == IF plan = NoNetPlan THEN {} ELSE plan.routes_added
NodeRoutes == routes \cap PlanNodes
RoutesInv ==
  /\ proc = "idle" \/ (proc = "apply" /\ step = 1) => routes \subseteq PlanNodes
  /\ ~cut =>
       /\ proc = "idle" \/ (proc = "apply" /\ step = 1) => NodeRoutes \subseteq Planned
       /\ proc = "apply" /\ step > 1 => plan # NoNetPlan /\ NodeRoutes \subseteq mem.routes_added
       /\ proc \in {"up", "revert"} => NodeRoutes \subseteq mem.routes_added
       /\ proc = "revert" /\ step > 1 /\ ~problem => NodeRoutes = {}

NetInv == NetShape /\ DnsInv /\ PlanInv /\ RoutesInv

LEMMA FreshPlan == Fresh \in NetPlans /\ Fresh.backup = NoCopy /\ Fresh.routes_added = {}
BY DEF Fresh, NetPlans

LEMMA NetInit1 == NetInit => NetInv
<1> SUFFICES ASSUME NetInit PROVE NetInv
  OBVIOUS
<1>1. NetShape
  BY FreshPlan DEF NetInit, NetShape, Contents
<1>2. DnsInv
  BY NetConstants DEF NetInit, DnsInv
<1>3. PlanInv /\ RoutesInv
  BY DEF NetInit, PlanInv, RoutesInv, NodeRoutes
<1> QED BY <1>1, <1>2, <1>3 DEF NetInv

\* recover_dns leaves the machine its own resolv.conf.
LEMMA Recovers ==
  ASSUME NetInv, recover_dns(plan), proc = "idle" \/ (proc = "revert" /\ step = 6)
  PROVE  /\ copy' \in Contents \cup {NoCopy} /\ resolv' \in Contents
         /\ ~torn => resolv' \in {machine, Ours} /\ (resolv' = Ours => copy' = machine)
<1>1. CASE plan # NoNetPlan \/ copy = NoCopy
  BY <1>1, NetConstants DEF recover_dns, NetInv, NetShape, DnsInv, Contents
<1>2. CASE ~(plan # NoNetPlan \/ copy = NoCopy)
  BY <1>2, NetConstants DEF recover_dns, NetInv, NetShape, DnsInv, Contents
<1> QED BY <1>1, <1>2

\* apply begins.
LEMMA ApplyBegins ==
  ASSUME NetInv, start_apply, recover_dns(plan), proc = "idle" \/ (proc = "revert" /\ step = 6),
         target' \in PlanNodes, routes' = routes \ TunnelRoutes,
         UNCHANGED <<platform, plan, machine, cut, torn>>
  PROVE  NetInv'
<1>1. /\ copy' \in Contents \cup {NoCopy} /\ resolv' \in Contents
      /\ ~torn => resolv' \in {machine, Ours} /\ (resolv' = Ours => copy' = machine)
  BY Recovers
<1>2. NetShape'
  <2>1. applySteps' = applySteps /\ 1 \in 1..Len(applySteps)
    BY StepsOfApply DEF applySteps, swaps
  <2> QED BY <1>1, <2>1, FreshPlan DEF start_apply, NetInv, NetShape
<1>3. DnsInv'
  BY <1>1, FreshPlan, NetConstants DEF start_apply, NetInv, NetShape, DnsInv, swaps
<1>4. PlanInv'
  BY DEF start_apply, PlanInv
<1>5. RoutesInv'
  <2>1. routes' \subseteq PlanNodes /\ NodeRoutes' = NodeRoutes
    BY NetConstants DEF NetInv, NetShape, NodeRoutes
  <2>2. Planned' = Planned
    BY DEF Planned
  <2>3. ~cut => NodeRoutes \subseteq Planned
    BY NetConstants DEF NetInv, NetShape, PlanInv, RoutesInv, Planned
  <2> QED BY <2>1, <2>2, <2>3 DEF start_apply, RoutesInv
<1> QED BY <1>2, <1>3, <1>4, <1>5 DEF NetInv

\* A revert of the plan on file begins.
LEMMA RevertBegins ==
  ASSUME NetInv, NEW then, start_revert(plan, then), plan # NoNetPlan, target' \in PlanNodes,
         UNCHANGED <<platform, plan, copy, routes, resolv, machine>>,
         cut' \in BOOLEAN, ~cut' => NodeRoutes \subseteq plan.routes_added,
         torn' \in BOOLEAN, ~torn' => ~torn /\ resolv # Emptied
  PROVE  NetInv'
<1>1. NetShape'
  <2>1. proc' = "revert" /\ step' = 1 /\ mem' \in NetPlans /\ problem' = FALSE
    BY DEF start_revert, NetInv, NetShape
  <2>2. /\ plan' \in NetPlans \cup {NoNetPlan} /\ routes' \subseteq PlanNodes \cup TunnelRoutes
        /\ copy' \in Contents \cup {NoCopy} /\ resolv' \in Contents /\ machine' \in Nat
    BY DEF NetInv, NetShape
  <2>3. step' \in Nat /\ step' \in 1..6
    BY <2>1
  <2>4. cut' \in BOOLEAN /\ torn' \in BOOLEAN /\ problem' \in BOOLEAN /\ target' \in PlanNodes
    BY <2>1
  <2> QED BY <2>1, <2>2, <2>3, <2>4 DEF NetShape
<1>2. DnsInv'
  BY DEF start_revert, NetInv, NetShape, DnsInv, swaps
<1>3. PlanInv'
  BY DEF start_revert, PlanInv
<1>4. RoutesInv'
  BY DEF start_revert, RoutesInv, NodeRoutes
<1> QED BY <1>1, <1>2, <1>3, <1>4 DEF NetInv

\* Nothing runs afterwards, and the tunnels' routes are gone.
LEMMA EndsIdle ==
  ASSUME NetInv, proc' = "idle", step' \in Nat, mem' \in NetPlans, problem' \in BOOLEAN,
         plan' \in {plan, NoNetPlan}, UNCHANGED <<platform, target, copy, resolv, machine>>,
         routes' \subseteq routes \ TunnelRoutes,
         cut' \in BOOLEAN, ~cut' => routes' \subseteq Planned',
         torn' \in BOOLEAN, ~torn' => ~torn /\ resolv # Emptied
  PROVE  NetInv'
<1>1. NetShape'
  BY DEF NetInv, NetShape
<1>2. DnsInv'
  BY DEF NetInv, NetShape, DnsInv, swaps
<1>3. PlanInv'
  BY DEF PlanInv
<1>4. RoutesInv'
  BY DEF NetInv, NetShape, RoutesInv, NodeRoutes
<1> QED BY <1>1, <1>2, <1>3, <1>4 DEF NetInv

LEMMA ConnectKeeps ==
  ASSUME NetInv, NEW n \in PlanNodes, Connect(n)
  PROVE  NetInv'
<1>1. CASE plan # NoNetPlan
  <2>1. ~cut => NodeRoutes \subseteq plan.routes_added
    BY <1>1 DEF Connect, NetInv, RoutesInv, Planned
  <2>2. ~torn => resolv # Emptied
    BY DEF Connect, NetInv, DnsInv
  <2> QED BY <1>1, <2>1, <2>2, RevertBegins DEF Connect, NetInv, NetShape
<1>2. CASE plan = NoNetPlan
  <2>1. routes \subseteq PlanNodes
    BY DEF Connect, NetInv, RoutesInv
  <2>2. routes' = routes \ TunnelRoutes
    BY <2>1, NetConstants DEF Connect
  <2> QED BY <1>2, <2>2, ApplyBegins DEF Connect
<1> QED BY <1>1, <1>2

LEMMA DownKeeps ==
  ASSUME NetInv, Down \/ DownNothing
  PROVE  NetInv'
<1>1. CASE Down
  <2>1. plan = mem /\ plan # NoNetPlan
    BY <1>1, NetConstants DEF Down, NetInv, NetShape, PlanInv
  <2>2. ~cut => NodeRoutes \subseteq plan.routes_added
    BY <1>1, <2>1 DEF Down, NetInv, RoutesInv
  <2>3. ~torn => resolv # Emptied
    BY <1>1 DEF Down, NetInv, DnsInv
  <2> QED BY <1>1, <2>1, <2>2, <2>3, RevertBegins DEF Down, NetInv, NetShape
<1>2. CASE DownNothing /\ plan # NoNetPlan
  <2>1. ~cut => NodeRoutes \subseteq plan.routes_added
    BY <1>2 DEF DownNothing, NetInv, RoutesInv, Planned
  <2>2. ~torn => resolv # Emptied
    BY <1>2 DEF DownNothing, NetInv, DnsInv
  <2> QED BY <1>2, <2>1, <2>2, RevertBegins DEF DownNothing, NetInv, NetShape
<1>3. CASE DownNothing /\ plan = NoNetPlan
  <2>1. /\ copy' \in Contents \cup {NoCopy} /\ resolv' \in Contents
        /\ ~torn => resolv' \in {machine, Ours} /\ (resolv' = Ours => copy' = machine)
    BY <1>3, Recovers DEF DownNothing
  <2>2. NetShape'
    BY <1>3, <2>1 DEF DownNothing, NetInv, NetShape, counters
  <2>3. DnsInv'
    BY <1>3, <2>1, NetConstants DEF DownNothing, NetInv, NetShape, DnsInv, swaps
  <2>4. PlanInv' /\ RoutesInv'
    BY <1>3 DEF DownNothing, NetInv, PlanInv, RoutesInv, NodeRoutes, Planned
  <2> QED BY <2>2, <2>3, <2>4 DEF NetInv
<1> QED BY <1>1, <1>2, <1>3

LEMMA StartsKeeps ==
  ASSUME NetInv, ServiceStarts
  PROVE  NetInv'
<1>1. /\ copy' \in Contents \cup {NoCopy} /\ resolv' \in Contents
      /\ ~torn => resolv' \in {machine, Ours} /\ (resolv' = Ours => copy' = machine)
  BY Recovers DEF ServiceStarts
<1>2. NetShape'
  BY <1>1 DEF ServiceStarts, NetInv, NetShape, counters
<1>3. DnsInv'
  BY <1>1, NetConstants DEF ServiceStarts, NetInv, NetShape, DnsInv, swaps
<1>4. PlanInv' /\ RoutesInv'
  BY DEF ServiceStarts, NetInv, PlanInv, RoutesInv, NodeRoutes, Planned
<1> QED BY <1>2, <1>3, <1>4 DEF NetInv

LEMMA EditedKeeps ==
  ASSUME NetInv, Edited
  PROVE  NetInv'
<1>1. NetShape'
  BY DEF Edited, NetInv, NetShape, Contents
<1>2. DnsInv'
  BY NetConstants DEF Edited, NetInv, NetShape, DnsInv, swaps
<1>3. PlanInv' /\ RoutesInv'
  BY DEF Edited, NetInv, PlanInv, RoutesInv, NodeRoutes, Planned
<1> QED BY <1>1, <1>2, <1>3 DEF NetInv

\* A step of apply: a route and its place in the plan, or the copy before the
\* file is emptied.
LEMMA ApplyKeeps ==
  ASSUME NetInv, ApplyStep
  PROVE  NetInv'
<1> DEFINE last == step = Len(applySteps)
<1>1. /\ proc = "apply" /\ step \in 1..Len(applySteps) /\ step \in Nat
      /\ UNCHANGED <<platform, problem, target, machine, torn>>
      /\ applySteps' = applySteps /\ (swaps' <=> swaps)
  BY DEF ApplyStep, NetInv, NetShape, applySteps, swaps
<1>2. /\ last => proc' = "up" /\ step' = 1
      /\ ~last => proc' = "apply" /\ step' = step + 1
  BY <1>1 DEF ApplyStep
<1>3. /\ what = "copy" <=> swaps /\ step = 10
      /\ what = "empty" <=> swaps /\ step = 12
      /\ what = "fill" <=> swaps /\ step = 13
      /\ last => what = "save"
      /\ step = 1 => what = "save"
      /\ last /\ swaps => step = 15
      /\ Len(applySteps) \in Nat
  BY <1>1, StepsOfApply DEF what
<1>4. proc' \in {"up", "apply"} /\ step' \in Nat /\ (proc' = "apply" => step' \in 1..Len(applySteps))
  BY <1>1, <1>2, <1>3
<1>5. proc' = "apply" => step' > 1 /\ step' = step + 1
  BY <1>1, <1>2
<1>6. step = 1 \/ step > 1
  BY <1>1
<1> HIDE DEF last
<1>7. CASE save_plan
  <2>1. NetShape'
    BY <1>1, <1>4, <1>7 DEF save_plan, NetInv, NetShape
  <2>2. DnsInv'
    <3>1. proc' = "apply" /\ swaps' /\ step' > 10 => step > 10 \/ step = 10
      BY <1>1, <1>2
    <3>2. what = "save" => ~(swaps /\ step = 10) /\ ~(swaps /\ step = 13)
      BY <1>3
    <3> QED BY <1>1, <1>2, <1>7, <3>1, <3>2 DEF save_plan, NetInv, NetShape, DnsInv
  <2>3. PlanInv'
    BY <1>2, <1>7 DEF save_plan, PlanInv
  <2>4. RoutesInv'
    <3>1. ~cut' => NodeRoutes \subseteq mem.routes_added
      <4>1. CASE step = 1
        <5>1. ~cut' => NodeRoutes = {}
          BY <1>1, <1>7, <4>1 DEF save_plan, NetInv, RoutesInv, Planned
        <5> QED BY <5>1
      <4>2. CASE step > 1
        BY <1>1, <1>7, <4>2 DEF save_plan, NetInv, NetShape, RoutesInv
      <4> QED BY <1>6, <4>1, <4>2
    <3>2. mem # NoNetPlan /\ NodeRoutes' = NodeRoutes /\ plan' = mem /\ mem' = mem
      BY <1>7, NetConstants DEF save_plan, NetInv, NetShape, NodeRoutes
    <3> QED BY <1>2, <1>4, <1>5, <3>1, <3>2 DEF RoutesInv
  <2> QED BY <2>1, <2>2, <2>3, <2>4 DEF NetInv
<1>8. CASE ~save_plan
  <2>1. what # "save" /\ step > 1 /\ ~last /\ proc' = "apply" /\ step' = step + 1
        /\ UNCHANGED <<plan, cut>>
    BY <1>2, <1>3, <1>6, <1>8 DEF ApplyStep, Route, write_saved, swap_resolv_conf, changed, TunnelRoutes
  <2>2. PlanInv'
    BY <2>1 DEF PlanInv
  <2>3. CASE Route
    <3> DEFINE r == IF what = "node" THEN target ELSE what
    <3>1. r \in PlanNodes \cup TunnelRoutes /\ (r \in PlanNodes => what = "node")
      BY <2>3, NetConstants DEF Route, NetInv, NetShape
    <3>2. /\ routes' = routes \cup {r} /\ UNCHANGED <<copy, resolv>>
          /\ mem' \in NetPlans /\ mem'.backup = mem.backup
          /\ mem'.routes_added = mem.routes_added \cup (IF what \in {"exit", "dns"} THEN {} ELSE {r})
      <4> HIDE DEF r
      <4>1. mem \in NetPlans /\ r \in PlanNodes \cup TunnelRoutes
        BY <3>1 DEF NetInv, NetShape
      <4>2. /\ routes' = routes \cup {r} /\ UNCHANGED <<copy, resolv>>
            /\ mem' = IF what \in {"exit", "dns"} THEN [mem EXCEPT !.via_routes = @ \cup {r}]
                                                   ELSE [mem EXCEPT !.routes_added = @ \cup {r}]
        BY <2>3 DEF Route, r
      <4>3. what \in {"exit", "dns"} => r \in TunnelRoutes
        BY DEF r, TunnelRoutes
      <4> QED BY <4>1, <4>2, <4>3 DEF NetPlans
    <3>3. ~(what \in {"exit", "dns"} /\ r \in PlanNodes)
      BY <3>1
    <3> HIDE DEF r
    <3>4. NetShape'
      BY <1>1, <1>4, <2>1, <3>1, <3>2 DEF NetInv, NetShape
    <3>5. DnsInv'
      <4>1. ~(swaps /\ step = 10) /\ ~(swaps /\ step = 13)
        BY <1>3, <2>3 DEF Route, TunnelRoutes
      <4>2. step' > 10 => step > 10 \/ step = 10
        BY <1>1, <2>1
      <4> QED BY <1>1, <2>1, <3>2, <4>1, <4>2 DEF NetInv, DnsInv
    <3>6. RoutesInv'
      <4>1. ~cut => NodeRoutes' \subseteq mem'.routes_added
        BY <1>1, <2>1, <3>2, <3>3 DEF NetInv, RoutesInv, NodeRoutes
      <4>2. ~cut => plan # NoNetPlan
        BY <1>1, <2>1 DEF NetInv, RoutesInv
      <4> QED BY <1>5, <2>1, <4>1, <4>2 DEF RoutesInv
    <3> QED BY <2>2, <3>4, <3>5, <3>6 DEF NetInv
  <2>4. CASE ~Route
    <3>1. /\ UNCHANGED routes
          /\ \/ write_saved \/ swap_resolv_conf \/ changed
      BY <1>8, <2>4 DEF ApplyStep, write_saved, swap_resolv_conf, changed
    <3>2. /\ mem' \in NetPlans /\ mem'.routes_added = mem.routes_added
          /\ copy' \in Contents \cup {NoCopy} /\ resolv' \in Contents
      BY <3>1 DEF write_saved, swap_resolv_conf, changed, original_resolv_conf, NetInv, NetShape,
                  NetPlans, Contents
    <3>3. NetShape'
      BY <1>1, <1>4, <2>1, <3>1, <3>2 DEF NetInv, NetShape
    <3>4. RoutesInv'
      BY <1>1, <1>5, <2>1, <3>1, <3>2 DEF NetInv, RoutesInv, NodeRoutes
    <3>5. CASE write_saved
      <4>1. ~torn => original_resolv_conf = machine
        <5>1. ~torn => resolv \in {machine, Ours} /\ (resolv = Ours => copy = machine)
          BY <1>1, <1>3, <3>5 DEF write_saved, NetInv, DnsInv
        <5> QED BY <5>1, NetConstants DEF original_resolv_conf, NetInv, NetShape
      <4>2. /\ copy' = original_resolv_conf /\ mem'.backup = original_resolv_conf /\ UNCHANGED resolv
        BY <3>5 DEF write_saved, NetInv, NetShape, NetPlans
      <4>3. ~torn => resolv # Emptied
        BY <1>1, <1>3, <3>5 DEF write_saved, NetInv, DnsInv
      <4>4. DnsInv'
        BY <1>1, <2>1, <4>1, <4>2, <4>3 DEF NetInv, DnsInv
      <4> QED BY <2>2, <3>3, <3>4, <4>4 DEF NetInv
    <3>6. CASE swap_resolv_conf
      <4>1. swaps /\ step \in {12, 13} /\ (what = "fill" <=> step = 13) /\ UNCHANGED <<mem, copy>>
        BY <1>3, <3>6 DEF swap_resolv_conf
      <4>2. ~torn => copy = machine
        BY <1>1, <4>1 DEF NetInv, DnsInv
      <4>3. /\ step = 13 => resolv' = Ours
            /\ step = 12 => resolv' \in {resolv, Emptied} /\ step' = 13
        BY <2>1, <3>6, <4>1 DEF swap_resolv_conf
      <4>4. ~torn /\ step = 12 => resolv # Emptied
        BY <1>1, <4>1 DEF NetInv, DnsInv
      <4>5. DnsInv'
        BY <1>1, <2>1, <4>1, <4>2, <4>3, <4>4, NetConstants DEF NetInv, DnsInv
      <4> QED BY <2>2, <3>3, <3>4, <4>5 DEF NetInv
    <3>7. CASE changed
      <4>1. /\ UNCHANGED <<copy, resolv>> /\ mem'.backup = mem.backup
            /\ ~(swaps /\ step = 10) /\ ~(swaps /\ step = 13)
        BY <1>3, <3>7 DEF changed, NetInv, NetShape, NetPlans
      <4>2. step' > 10 => step > 10 \/ step = 10
        BY <1>1, <2>1
      <4>3. DnsInv'
        BY <1>1, <2>1, <4>1, <4>2 DEF NetInv, DnsInv
      <4> QED BY <2>2, <3>3, <3>4, <4>3 DEF NetInv
    <3> QED BY <3>1, <3>5, <3>6, <3>7
  <2> QED BY <2>3, <2>4
<1> QED BY <1>7, <1>8

LEMMA ApplyFailsKeeps ==
  ASSUME NetInv, ApplyFails
  PROVE  NetInv'
<1>1. /\ cut' \in BOOLEAN /\ (~cut' => NodeRoutes \subseteq Planned)
      /\ torn' \in BOOLEAN /\ (~torn' => ~torn /\ resolv # Emptied)
  BY DEF ApplyFails, NetInv, NetShape, unplanned, NodeRoutes, Planned
<1>2. CASE plan = NoNetPlan
  <2>1. /\ proc' = "idle" /\ routes' = routes \ TunnelRoutes
        /\ UNCHANGED <<step, mem, problem, plan, platform, target, copy, resolv, machine>>
    BY <1>2 DEF ApplyFails
  <2>2. routes \ TunnelRoutes \subseteq NodeRoutes /\ Planned' = Planned
    BY <2>1 DEF NetInv, NetShape, NodeRoutes, Planned
  <2>3. step' \in Nat /\ mem' \in NetPlans /\ problem' \in BOOLEAN
    BY <2>1 DEF NetInv, NetShape
  <2> QED BY <1>1, <2>1, <2>2, <2>3, EndsIdle
<1>3. CASE plan # NoNetPlan
  <2>1. ~cut' => NodeRoutes \subseteq plan.routes_added
    BY <1>1, <1>3 DEF Planned
  <2> QED BY <1>1, <1>3, <2>1, RevertBegins DEF ApplyFails, NetInv, NetShape
<1> QED BY <1>2, <1>3

\* The process dies, or the machine loses power.
LEMMA StopsKeep ==
  ASSUME NetInv, Crash \/ Reboot
  PROVE  NetInv'
<1>1. /\ proc' = "idle" /\ step' \in Nat /\ mem' \in NetPlans /\ problem' \in BOOLEAN
      /\ UNCHANGED <<platform, target, copy, resolv, machine>>
      /\ torn' \in BOOLEAN /\ (~torn' => ~torn /\ resolv # Emptied)
      /\ plan' \in {plan, NoNetPlan} /\ cut' \in BOOLEAN
  <2>1. Stopped /\ UNCHANGED <<platform, target, copy, resolv, machine>>
        /\ plan' \in {plan, NoNetPlan} /\ cut' \in BOOLEAN
    BY DEF Crash, Reboot, NetInv, NetShape, unplanned
  <2>2. proc' = "idle" /\ step' = 1 /\ mem' = Fresh /\ problem' = FALSE
    BY <2>1 DEF Stopped
  <2>3. torn' \in BOOLEAN /\ (~torn' => ~torn /\ resolv # Emptied)
    BY <2>1 DEF Stopped, NetInv, NetShape
  <2>4. step' \in Nat /\ mem' \in NetPlans /\ problem' \in BOOLEAN
    BY <2>2, FreshPlan
  <2> QED BY <2>1, <2>2, <2>3, <2>4
<1>2. CASE Crash
  <2>1. ~cut' => NodeRoutes \subseteq Planned
    BY <1>2 DEF Crash, unplanned, NodeRoutes, Planned
  <2>2. routes' \subseteq NodeRoutes /\ Planned' = Planned /\ routes' \subseteq routes \ TunnelRoutes
    BY <1>2 DEF Crash, NetInv, NetShape, NodeRoutes, Planned
  <2> QED BY <1>1, <2>1, <2>2, EndsIdle
<1>3. CASE Reboot
  <2>1. routes' = {}
    BY <1>3 DEF Reboot
  <2> QED BY <1>1, <2>1, EndsIdle
<1> QED BY <1>2, <1>3

\* A step of the revert.
LEMMA RevertKeeps ==
  ASSUME NetInv, RevertStep
  PROVE  NetInv'
<1>1. /\ proc = "revert" /\ proc' = "revert" /\ step \in 1..5 /\ step' = step + 1
      /\ UNCHANGED <<platform, mem, target, machine, torn>> /\ plan = mem /\ mem \in NetPlans
      /\ UNCHANGED cut
  BY DEF RevertStep, NetInv, NetShape, PlanInv, revert_routes, put_back, clear_plan
<1>2. step' \in 2..6 /\ step' \in Nat /\ step' \in 1..6 /\ (step' > 3 <=> step \in 3..5)
  BY <1>1
<1>3. CASE revert_routes
  <2>1. /\ step = 1 /\ step' = 2 /\ UNCHANGED <<plan, copy, resolv>> /\ problem' \in BOOLEAN
        /\ routes' \subseteq routes
    <3>1. step = 1 /\ UNCHANGED <<plan, copy, resolv>> /\ routes' \subseteq routes
      BY <1>3 DEF revert_routes
    <3>2. problem' \in BOOLEAN
      BY <1>3 DEF revert_routes, NetInv, NetShape
    <3> QED BY <1>1, <3>1, <3>2
  <2>2. ~cut /\ ~problem' => NodeRoutes' = {}
    BY <1>1, <1>3 DEF revert_routes, NetInv, RoutesInv, NodeRoutes
  <2>3. NetShape'
    BY <1>1, <1>2, <2>1 DEF NetInv, NetShape
  <2>4. DnsInv'
    BY <1>1, <1>2, <2>1 DEF NetInv, DnsInv, Wrote
  <2>5. PlanInv'
    BY <1>1, <1>2, <2>1 DEF PlanInv
  <2>6. RoutesInv'
    BY <1>1, <1>2, <2>1, <2>2 DEF NetInv, RoutesInv, NodeRoutes
  <2> QED BY <2>3, <2>4, <2>5, <2>6 DEF NetInv
<1>4. ASSUME NEW n \in 2..4, put_back(n) PROVE NetInv'
  <2>1. /\ step = n /\ UNCHANGED <<plan, routes, problem>>
        /\ ~Wrote => UNCHANGED <<copy, resolv>>
        /\ n = 2 => resolv' \in {resolv, Emptied} /\ UNCHANGED copy
        /\ n = 3 => (Wrote => resolv' = mem.backup) /\ UNCHANGED copy
        /\ n = 4 => copy' \in {copy, NoCopy} /\ UNCHANGED resolv
    BY <1>4 DEF put_back, Wrote
  <2>2. mem.backup \in Contents \cup {NoCopy} /\ (Wrote => mem.backup \in Contents)
    BY <1>1 DEF NetPlans, Wrote
  <2>3. copy' \in Contents \cup {NoCopy} /\ resolv' \in Contents
    BY <2>1, <2>2 DEF NetInv, NetShape, Contents
  <2>4. NetShape'
    BY <1>1, <1>2, <2>1, <2>3 DEF NetInv, NetShape
  <2>5. DnsInv'
    <3>1. Wrote' = Wrote /\ (swaps' <=> swaps)
      BY <1>1 DEF Wrote, swaps
    <3>2. ~torn /\ Wrote => mem.backup = machine
      BY <1>1 DEF NetInv, DnsInv, Wrote
    <3>3. CASE n = 2
      BY <1>1, <1>2, <2>1, <3>1, <3>2, <3>3, NetConstants DEF NetInv, NetShape, DnsInv
    <3>4. CASE n = 3
      BY <1>1, <1>2, <2>1, <3>1, <3>2, <3>4, NetConstants DEF NetInv, NetShape, DnsInv
    <3>5. CASE n = 4
      BY <1>1, <1>2, <2>1, <3>1, <3>2, <3>5, NetConstants DEF NetInv, NetShape, DnsInv
    <3> QED BY <3>3, <3>4, <3>5
  <2>6. PlanInv'
    BY <1>1, <1>2, <2>1 DEF PlanInv
  <2>7. RoutesInv'
    <3>1. step > 1
      BY <2>1
    <3> QED BY <1>1, <1>2, <2>1, <3>1 DEF NetInv, RoutesInv, NodeRoutes
  <2> QED BY <2>4, <2>5, <2>6, <2>7 DEF NetInv
<1>5. CASE clear_plan
  <2>1. step = 5 /\ step' = 6 /\ UNCHANGED <<copy, resolv, routes, problem>>
        /\ plan' = IF problem THEN plan ELSE NoNetPlan
    BY <1>1, <1>5 DEF clear_plan
  <2>2. NetShape'
    BY <1>1, <1>2, <2>1 DEF NetInv, NetShape
  <2>3. DnsInv'
    BY <1>1, <1>2, <2>1 DEF NetInv, DnsInv, Wrote
  <2>4. PlanInv'
    BY <1>1, <2>1 DEF PlanInv
  <2>5. RoutesInv'
    BY <1>1, <1>2, <2>1 DEF NetInv, RoutesInv, NodeRoutes
  <2> QED BY <2>2, <2>3, <2>4, <2>5 DEF NetInv
<1> QED BY <1>3, <1>4, <1>5 DEF RevertStep

LEMMA RevertDoneKeeps ==
  ASSUME NetInv, RevertDone
  PROVE  NetInv'
<1>1. CASE after = "apply"
  BY <1>1, ApplyBegins DEF RevertDone, NetInv, NetShape
<1>2. CASE after # "apply"
  <2>1. /\ proc = "revert" /\ step = 6 /\ proc' = "idle" /\ step' = 1
        /\ UNCHANGED <<mem, problem, copy, resolv, platform, target, plan, machine, cut, torn>>
        /\ routes' = routes \ TunnelRoutes
    BY <1>2 DEF RevertDone
  <2>2. ~cut => NodeRoutes \subseteq Planned
    BY <2>1, NetConstants DEF NetInv, NetShape, PlanInv, RoutesInv, Planned
  <2>3. routes' \subseteq NodeRoutes /\ Planned' = Planned
    BY <2>1 DEF NetInv, NetShape, NodeRoutes, Planned
  <2>4. ~torn => resolv # Emptied
    BY <2>1 DEF NetInv, DnsInv
  <2>5. step' \in Nat /\ mem' \in NetPlans /\ problem' \in BOOLEAN /\ cut' \in BOOLEAN /\ torn' \in BOOLEAN
    BY <2>1 DEF NetInv, NetShape
  <2> QED BY <2>1, <2>2, <2>3, <2>4, <2>5, EndsIdle
<1> QED BY <1>1, <1>2

LEMMA NetStep ==
  ASSUME NetInv, [NetNext]_netVars
  PROVE  NetInv'
<1>1. CASE UNCHANGED netVars
  <2>1. applySteps' = applySteps
    BY <1>1 DEF netVars, applySteps, swaps
  <2> QED BY <1>1, <2>1 DEF netVars, NetInv, NetShape, DnsInv, PlanInv, RoutesInv, NodeRoutes, Planned,
                            Wrote, swaps
<1>2. CASE NetNext
  BY <1>2, ConnectKeeps, DownKeeps, ApplyKeeps, ApplyFailsKeeps, RevertKeeps, RevertDoneKeeps,
     StopsKeep, StartsKeeps, EditedKeeps DEF NetNext
<1> QED BY <1>1, <1>2

\* Wherever the client stops: while resolv.conf is ours its own is in the copy,
\* and an idle client with no plan has put back what it changed, but for a route
\* that no plan named and a resolv.conf cut while it was empty.
THEOREM PutBackHolds == NetSpec => []PutBack
<1>1. NetInv => PutBack
  BY NetConstants DEF NetInv, NetShape, DnsInv, PlanInv, RoutesInv, NodeRoutes, Planned, PutBack
<1> QED BY <1>1, NetInit1, NetStep, PTL DEF NetSpec

-----------------------------------------------------------------------------
(* Chains of rules: the first that matches decides.                          *)

IsChain(c) == \E R : c \in Seq(R)
Hit(c, p) == \E i \in DOMAIN c : Matches(p, c[i])

\* The first that matches accepts.
LEMMA FirstAccepts ==
  ASSUME NEW c, IsChain(c), NEW p
  PROVE  FirstMatch(c, p) <=>
           \E i \in DOMAIN c : /\ Matches(p, c[i]) /\ c[i].accept
                               /\ \A j \in DOMAIN c : j < i => ~Matches(p, c[j])
<1> DEFINE hits == {i \in DOMAIN c : Matches(p, c[i])}
<1>1. DOMAIN c \subseteq Nat
  BY DEF IsChain
<1>2. FirstMatch(c, p) <=> hits # {} /\ c[Min(hits)].accept
  BY DEF FirstMatch
<1>3. CASE hits = {}
  BY <1>2, <1>3
<1>4. CASE hits # {}
  <2>1. \E n \in hits : \A m \in hits : n <= m
    BY <1>1, <1>4, LeastNumber
  <2>2. Min(hits) \in hits /\ \A m \in hits : Min(hits) <= m
    BY <2>1 DEF Min
  <2> DEFINE k == Min(hits)
  <2>3. k \in hits /\ k \in DOMAIN c /\ k \in Nat /\ Matches(p, c[k]) /\ \A m \in hits : k <= m
    BY <1>1, <2>2
  <2>4. FirstMatch(c, p) <=> c[k].accept
    BY <1>2, <1>4
  <2> HIDE DEF k
  <2>5. \A j \in DOMAIN c : j < k => ~Matches(p, c[j])
    BY <1>1, <2>3
  <2>6. ASSUME NEW i \in DOMAIN c, Matches(p, c[i]), \A j \in DOMAIN c : j < i => ~Matches(p, c[j])
        PROVE  i = k
    BY <1>1, <2>3, <2>6
  <2> QED BY <2>3, <2>4, <2>5, <2>6
<1> QED BY <1>3, <1>4

LEMMA ChainNone ==
  ASSUME NEW p
  PROVE  IsChain(<< >>) /\ ~Hit(<< >>, p) /\ ~FirstMatch(<< >>, p)
<1>1. << >> \in Seq({}) /\ DOMAIN << >> = {}
  OBVIOUS
<1> QED BY <1>1 DEF IsChain, Hit, FirstMatch

LEMMA ChainOne ==
  ASSUME NEW p, NEW r
  PROVE  /\ IsChain(<<r>>)
         /\ Hit(<<r>>, p) <=> Matches(p, r)
         /\ FirstMatch(<<r>>, p) <=> Matches(p, r) /\ r.accept
<1>1. <<r>> \in Seq({r}) /\ DOMAIN <<r>> = {1} /\ <<r>>[1] = r
  OBVIOUS
<1>2. IsChain(<<r>>)
  BY <1>1 DEF IsChain
<1> QED BY <1>1, <1>2, FirstAccepts DEF Hit

\* One chain after another.
LEMMA ChainBoth ==
  ASSUME NEW p, NEW s, NEW t, IsChain(s), IsChain(t)
  PROVE  /\ IsChain(s \o t)
         /\ Hit(s \o t, p) <=> Hit(s, p) \/ Hit(t, p)
         /\ FirstMatch(s \o t, p) <=> FirstMatch(s, p) \/ (~Hit(s, p) /\ FirstMatch(t, p))
<1>1. PICK R : s \in Seq(R)
  BY DEF IsChain
<1>2. PICK S : t \in Seq(S)
  BY DEF IsChain
<1> DEFINE T == R \cup S
           c == s \o t
           m == Len(s)
           n == Len(t)
<1>3. s \in Seq(T) /\ t \in Seq(T)
  BY <1>1, <1>2
<1> HIDE DEF T
<1>4. /\ c \in Seq(T) /\ m \in Nat /\ n \in Nat
      /\ DOMAIN c = 1..(m + n) /\ DOMAIN s = 1..m /\ DOMAIN t = 1..n
      /\ \A i \in 1..m : c[i] = s[i]
      /\ \A i \in 1..n : c[i + m] = t[i]
  BY <1>3
<1>5. IsChain(c)
  BY <1>4 DEF IsChain
<1> HIDE DEF c, m, n
<1>6. ASSUME NEW i \in 1..(m + n) PROVE i \in 1..m \/ \E j \in 1..n : i = j + m
  <2>1. i \in 1..m \/ (i - m \in 1..n /\ i = (i - m) + m)
    BY <1>4
  <2> QED BY <2>1
<1>7. /\ \A i \in 1..m : i \in 1..(m + n)
      /\ \A i \in 1..n : i + m \in 1..(m + n)
  BY <1>4
<1>8. Hit(c, p) <=> Hit(s, p) \/ Hit(t, p)
  <2>1. ASSUME NEW i \in 1..(m + n), Matches(p, c[i])
        PROVE  (\E k \in 1..m : Matches(p, s[k])) \/ \E k \in 1..n : Matches(p, t[k])
    BY <1>4, <1>6, <2>1
  <2>2. ASSUME NEW i \in 1..m, Matches(p, s[i]) PROVE \E k \in 1..(m + n) : Matches(p, c[k])
    BY <1>4, <1>7, <2>2
  <2>3. ASSUME NEW i \in 1..n, Matches(p, t[i]) PROVE \E k \in 1..(m + n) : Matches(p, c[k])
    BY <1>4, <1>7, <2>3
  <2> QED BY <1>4, <2>1, <2>2, <2>3 DEF Hit
<1>9. ASSUME FirstMatch(c, p) PROVE FirstMatch(s, p) \/ (~Hit(s, p) /\ FirstMatch(t, p))
  <2>1. PICK i \in DOMAIN c : /\ Matches(p, c[i]) /\ c[i].accept
                              /\ \A j \in DOMAIN c : j < i => ~Matches(p, c[j])
    BY <1>5, <1>9, FirstAccepts
  <2>2. CASE i \in 1..m
    <3>1. \A j \in 1..m : j < i => ~Matches(p, s[j])
      BY <1>4, <1>7, <2>1
    <3>2. FirstMatch(s, p)
      BY <1>4, <2>1, <2>2, <3>1, FirstAccepts
    <3> QED BY <3>2
  <2>3. ASSUME NEW k \in 1..n, i = k + m PROVE ~Hit(s, p) /\ FirstMatch(t, p)
    <3>1. \A j \in 1..m : j < i
      BY <1>4, <2>3
    <3>2. ~Hit(s, p)
      BY <1>4, <1>7, <2>1, <3>1 DEF Hit
    <3>3. \A j \in 1..n : j < k => ~Matches(p, t[j])
      <4>1. \A j \in 1..n : j < k => j + m < i
        BY <1>4, <2>3
      <4> QED BY <1>4, <1>7, <2>1, <4>1
    <3>4. Matches(p, t[k]) /\ t[k].accept
      BY <1>4, <2>1, <2>3
    <3> QED BY <1>4, <3>2, <3>3, <3>4, FirstAccepts
  <2> QED BY <1>4, <1>6, <2>1, <2>2, <2>3
<1>10. ASSUME FirstMatch(s, p) PROVE FirstMatch(c, p)
  <2>1. PICK i \in 1..m : /\ Matches(p, s[i]) /\ s[i].accept
                          /\ \A j \in 1..m : j < i => ~Matches(p, s[j])
    BY <1>4, <1>10, FirstAccepts
  <2>2. ASSUME NEW j \in 1..(m + n), j < i PROVE ~Matches(p, c[j])
    <3>1. j \in 1..m
      BY <1>4, <2>2
    <3> QED BY <1>4, <2>1, <2>2, <3>1
  <2> QED BY <1>4, <1>5, <1>7, <2>1, <2>2, FirstAccepts
<1>11. ASSUME ~Hit(s, p), FirstMatch(t, p) PROVE FirstMatch(c, p)
  <2>1. PICK k \in 1..n : /\ Matches(p, t[k]) /\ t[k].accept
                          /\ \A j \in 1..n : j < k => ~Matches(p, t[j])
    BY <1>4, <1>11, FirstAccepts
  <2>2. ASSUME NEW j \in 1..(m + n), j < k + m PROVE ~Matches(p, c[j])
    <3>1. CASE j \in 1..m
      BY <1>4, <1>11, <3>1 DEF Hit
    <3>2. ASSUME NEW l \in 1..n, j = l + m PROVE ~Matches(p, c[j])
      <4>1. l < k
        BY <1>4, <2>2, <3>2
      <4> QED BY <1>4, <2>1, <3>2, <4>1
    <3> QED BY <1>6, <3>1, <3>2
  <2> QED BY <1>4, <1>5, <1>7, <2>1, <2>2, FirstAccepts
<1> QED BY <1>5, <1>8, <1>9, <1>10, <1>11 DEF c

\* A chain that a function gives, of rules that all accept.
LEMMA ChainOf ==
  ASSUME NEW p, NEW n \in Nat, NEW c, c = [i \in 1..n |-> c[i]], \A i \in 1..n : c[i].accept
  PROVE  IsChain(c) /\ (FirstMatch(c, p) <=> Hit(c, p))
<1> DEFINE R == {c[i] : i \in 1..n}
<1>1. DOMAIN c = 1..n /\ c \in [1..n -> R]
  OBVIOUS
<1> HIDE DEF R
<1>2. c \in Seq(R)
  BY <1>1
<1>3. IsChain(c)
  BY <1>2 DEF IsChain
<1> DEFINE hits == {i \in 1..n : Matches(p, c[i])}
<1>4. ASSUME Hit(c, p) PROVE FirstMatch(c, p)
  <2>1. hits \subseteq Nat /\ hits # {}
    BY <1>1, <1>4 DEF Hit
  <2>2. PICK k \in hits : \A m \in hits : k <= m
    BY <2>1, LeastNumber
  <2>3. \A j \in 1..n : j < k => ~Matches(p, c[j])
    BY <2>2
  <2> QED BY <1>1, <1>3, <2>2, <2>3, FirstAccepts
<1> QED BY <1>1, <1>3, <1>4, FirstAccepts DEF Hit

\* Three chains, and seven.
LEMMA ChainThree ==
  ASSUME NEW p, NEW s, NEW t, NEW u, IsChain(s), IsChain(t), IsChain(u)
  PROVE  /\ IsChain(s \o t \o u)
         /\ Hit(s \o t \o u, p) <=> Hit(s, p) \/ Hit(t, p) \/ Hit(u, p)
         /\ FirstMatch(s \o t \o u, p) <=>
              \/ FirstMatch(s, p)
              \/ ~Hit(s, p) /\ FirstMatch(t, p)
              \/ ~Hit(s, p) /\ ~Hit(t, p) /\ FirstMatch(u, p)
<1> DEFINE st == s \o t
<1>1. /\ IsChain(st)
      /\ Hit(st, p) <=> Hit(s, p) \/ Hit(t, p)
      /\ FirstMatch(st, p) <=> FirstMatch(s, p) \/ (~Hit(s, p) /\ FirstMatch(t, p))
  BY ChainBoth
<1> HIDE DEF st
<1>2. /\ IsChain(st \o u)
      /\ Hit(st \o u, p) <=> Hit(st, p) \/ Hit(u, p)
      /\ FirstMatch(st \o u, p) <=> FirstMatch(st, p) \/ (~Hit(st, p) /\ FirstMatch(u, p))
  BY <1>1, ChainBoth
<1>3. st \o u = s \o t \o u
  BY DEF st
<1> QED BY <1>1, <1>2, <1>3

LEMMA ChainSeven ==
  ASSUME NEW p, NEW a, NEW b, NEW c, NEW d, NEW e, NEW f, NEW g, IsChain(a), IsChain(b),
         IsChain(c), IsChain(d), IsChain(e), IsChain(f), IsChain(g)
  PROVE  LET all == a \o b \o c \o d \o e \o f \o g
         IN  /\ IsChain(all)
             /\ Hit(all, p) <=> \/ Hit(a, p) \/ Hit(b, p) \/ Hit(c, p) \/ Hit(d, p)
                                \/ Hit(e, p) \/ Hit(f, p) \/ Hit(g, p)
             /\ FirstMatch(all, p) <=>
                  \/ FirstMatch(a, p)
                  \/ /\ ~Hit(a, p)
                     /\ \/ FirstMatch(b, p)
                        \/ /\ ~Hit(b, p)
                           /\ \/ FirstMatch(c, p)
                              \/ /\ ~Hit(c, p)
                                 /\ \/ FirstMatch(d, p)
                                    \/ /\ ~Hit(d, p)
                                       /\ \/ FirstMatch(e, p)
                                          \/ /\ ~Hit(e, p)
                                             /\ \/ FirstMatch(f, p)
                                                \/ ~Hit(f, p) /\ FirstMatch(g, p)
<1> DEFINE x == a \o b \o c
           y == x \o d \o e
<1>1. /\ IsChain(x)
      /\ Hit(x, p) <=> Hit(a, p) \/ Hit(b, p) \/ Hit(c, p)
      /\ FirstMatch(x, p) <=>
           \/ FirstMatch(a, p)
           \/ ~Hit(a, p) /\ FirstMatch(b, p)
           \/ ~Hit(a, p) /\ ~Hit(b, p) /\ FirstMatch(c, p)
  BY ChainThree
<1> HIDE DEF x
<1>2. /\ IsChain(y)
      /\ Hit(y, p) <=> Hit(x, p) \/ Hit(d, p) \/ Hit(e, p)
      /\ FirstMatch(y, p) <=>
           \/ FirstMatch(x, p)
           \/ ~Hit(x, p) /\ FirstMatch(d, p)
           \/ ~Hit(x, p) /\ ~Hit(d, p) /\ FirstMatch(e, p)
  BY <1>1, ChainThree
<1> HIDE DEF y
<1>3. /\ IsChain(y \o f \o g)
      /\ Hit(y \o f \o g, p) <=> Hit(y, p) \/ Hit(f, p) \/ Hit(g, p)
      /\ FirstMatch(y \o f \o g, p) <=>
           \/ FirstMatch(y, p)
           \/ ~Hit(y, p) /\ FirstMatch(f, p)
           \/ ~Hit(y, p) /\ ~Hit(f, p) /\ FirstMatch(g, p)
  BY <1>2, ChainThree
<1>4. y \o f \o g = a \o b \o c \o d \o e \o f \o g
  BY DEF x, y
<1> QED BY <1>1, <1>2, <1>3, <1>4

-----------------------------------------------------------------------------
(* The pieces of the rule sets, for a packet.                                *)

\* Both piece and chain: what it hits, and what it accepts first.
Piece(c, p, hits, first) == IsChain(c) /\ (Hit(c, p) <=> hits) /\ (FirstMatch(c, p) <=> first)

LEMMA AcceptOne ==
  ASSUME NEW p, NEW when
  PROVE  Piece(<<Accepts(when)>>, p, Matches(p, Accepts(when)), Matches(p, Accepts(when)))
<1>1. Accepts(when).accept
  BY DEF Accepts
<1> QED BY <1>1, ChainOne DEF Piece

LEMMA DropOne ==
  ASSUME NEW p, NEW when
  PROVE  Piece(<<Drop(when)>>, p, Matches(p, Drop(when)), FALSE)
<1>1. ~Drop(when).accept
  BY DEF Drop
<1> QED BY <1>1, ChainOne DEF Piece

LEMMA ChainTwo ==
  ASSUME NEW p, NEW q, NEW r
  PROVE  /\ IsChain(<<q, r>>)
         /\ Hit(<<q, r>>, p) <=> Matches(p, q) \/ Matches(p, r)
         /\ FirstMatch(<<q, r>>, p) <=>
              \/ Matches(p, q) /\ q.accept
              \/ ~Matches(p, q) /\ Matches(p, r) /\ r.accept
<1> DEFINE c == <<q, r>>
<1>1. c \in Seq({q, r}) /\ DOMAIN c = {1, 2} /\ c[1] = q /\ c[2] = r
  OBVIOUS
<1>2. IsChain(c)
  BY <1>1 DEF IsChain
<1> HIDE DEF c
<1>3. Hit(c, p) <=> Matches(p, q) \/ Matches(p, r)
  BY <1>1 DEF Hit
<1>4. FirstMatch(c, p) <=>
        \/ Matches(p, q) /\ q.accept
        \/ ~Matches(p, q) /\ Matches(p, r) /\ r.accept
  BY <1>1, <1>2, FirstAccepts
<1> QED BY <1>2, <1>3, <1>4 DEF c

\* What goes to an endpoint, or comes from it.
LEMMA ToEndpoints ==
  ASSUME NEW p, NEW eps, NEW k \in Nat, DOMAIN eps = 1..k
  PROVE  LET udp == \E i \in DOMAIN eps : To(p, eps[i], "udp")
             tcp == \E i \in DOMAIN eps : To(p, eps[i], "tcp")
         IN  /\ Piece(node_out(eps), p, udp, udp)
             /\ Piece(direct_out(eps), p, tcp, tcp)
             /\ p.ct = "new" => /\ Piece(node_in(eps), p, FALSE, FALSE)
                                /\ Piece(direct_in(eps), p, FALSE, FALSE)
<1>1. \A w : Accepts(w).accept
  BY DEF Accepts
<1>2. ASSUME NEW e
      PROVE  /\ Matches(p, Accepts([remote |-> {e.addr}, fam |-> {e.fam}, proto |-> {"udp"}, rport |-> {e.port}]))
                  <=> To(p, e, "udp")
             /\ Matches(p, Accepts([remote |-> {e.addr}, fam |-> {e.fam}, proto |-> {"tcp"}, rport |-> {e.port}]))
                  <=> To(p, e, "tcp")
  BY DEF Matches, Accepts, To
<1>3. Piece(node_out(eps), p, \E i \in DOMAIN eps : To(p, eps[i], "udp"), \E i \in DOMAIN eps : To(p, eps[i], "udp"))
  <2> DEFINE c == node_out(eps)
  <2>1. /\ c = [i \in 1..k |-> c[i]] /\ DOMAIN c = 1..k
        /\ \A i \in 1..k : c[i] = Accepts([remote |-> {eps[i].addr}, fam |-> {eps[i].fam}, proto |-> {"udp"},
                                           rport |-> {eps[i].port}])
    BY DEF node_out
  <2> HIDE DEF c
  <2>2. \A i \in 1..k : c[i].accept
    BY <1>1, <2>1
  <2>3. IsChain(c) /\ (FirstMatch(c, p) <=> Hit(c, p))
    BY <2>1, <2>2, ChainOf
  <2>4. ASSUME NEW i \in 1..k PROVE Matches(p, c[i]) <=> To(p, eps[i], "udp")
    BY <1>2, <2>1
  <2>5. Hit(c, p) <=> \E i \in 1..k : To(p, eps[i], "udp")
    BY <2>1, <2>4 DEF Hit
  <2> QED BY <2>1, <2>3, <2>5 DEF Piece, c
<1>4. Piece(direct_out(eps), p, \E i \in DOMAIN eps : To(p, eps[i], "tcp"), \E i \in DOMAIN eps : To(p, eps[i], "tcp"))
  <2> DEFINE c == direct_out(eps)
  <2>1. /\ c = [i \in 1..k |-> c[i]] /\ DOMAIN c = 1..k
        /\ \A i \in 1..k : c[i] = Accepts([remote |-> {eps[i].addr}, fam |-> {eps[i].fam}, proto |-> {"tcp"},
                                           rport |-> {eps[i].port}])
    BY DEF direct_out
  <2> HIDE DEF c
  <2>2. \A i \in 1..k : c[i].accept
    BY <1>1, <2>1
  <2>3. IsChain(c) /\ (FirstMatch(c, p) <=> Hit(c, p))
    BY <2>1, <2>2, ChainOf
  <2>4. ASSUME NEW i \in 1..k PROVE Matches(p, c[i]) <=> To(p, eps[i], "tcp")
    BY <1>2, <2>1
  <2>5. Hit(c, p) <=> \E i \in 1..k : To(p, eps[i], "tcp")
    BY <2>1, <2>4 DEF Hit
  <2> QED BY <2>1, <2>3, <2>5 DEF Piece, c
<1>5. ASSUME p.ct = "new" PROVE Piece(node_in(eps), p, FALSE, FALSE)
  <2> DEFINE c == node_in(eps)
  <2>1. /\ c = [i \in 1..k |-> c[i]] /\ DOMAIN c = 1..k
        /\ \A i \in 1..k : c[i] = Accepts([remote |-> {eps[i].addr}, fam |-> {eps[i].fam}, proto |-> {"udp"},
                                           rport |-> {eps[i].port}, ct |-> {"established"}])
    BY DEF node_in
  <2> HIDE DEF c
  <2>2. \A i \in 1..k : c[i].accept
    BY <1>1, <2>1
  <2>3. IsChain(c) /\ (FirstMatch(c, p) <=> Hit(c, p))
    BY <2>1, <2>2, ChainOf
  <2>4. ASSUME NEW i \in 1..k PROVE ~Matches(p, c[i])
    <3>1. ASSUME NEW e
          PROVE  ~Matches(p, Accepts([remote |-> {e.addr}, fam |-> {e.fam}, proto |-> {"udp"},
                                      rport |-> {e.port}, ct |-> {"established"}]))
      BY <1>5 DEF Matches, Accepts
    <3>2. c[i] = Accepts([remote |-> {eps[i].addr}, fam |-> {eps[i].fam}, proto |-> {"udp"},
                          rport |-> {eps[i].port}, ct |-> {"established"}])
      BY <2>1
    <3> QED BY <3>1, <3>2
  <2>5. ~Hit(c, p)
    BY <2>1, <2>4 DEF Hit
  <2> QED BY <2>3, <2>5 DEF Piece, c
<1>6. ASSUME p.ct = "new" PROVE Piece(direct_in(eps), p, FALSE, FALSE)
  <2> DEFINE c == direct_in(eps)
  <2>1. /\ c = [i \in 1..k |-> c[i]] /\ DOMAIN c = 1..k
        /\ \A i \in 1..k : c[i] = Accepts([remote |-> {eps[i].addr}, fam |-> {eps[i].fam}, proto |-> {"tcp"},
                                           rport |-> {eps[i].port}, ct |-> {"established"}])
    BY DEF direct_in
  <2> HIDE DEF c
  <2>2. \A i \in 1..k : c[i].accept
    BY <1>1, <2>1
  <2>3. IsChain(c) /\ (FirstMatch(c, p) <=> Hit(c, p))
    BY <2>1, <2>2, ChainOf
  <2>4. ASSUME NEW i \in 1..k PROVE ~Matches(p, c[i])
    <3>1. ASSUME NEW e
          PROVE  ~Matches(p, Accepts([remote |-> {e.addr}, fam |-> {e.fam}, proto |-> {"tcp"},
                                      rport |-> {e.port}, ct |-> {"established"}]))
      BY <1>6 DEF Matches, Accepts
    <3>2. c[i] = Accepts([remote |-> {eps[i].addr}, fam |-> {eps[i].fam}, proto |-> {"tcp"},
                          rport |-> {eps[i].port}, ct |-> {"established"}])
      BY <2>1
    <3> QED BY <3>1, <3>2
  <2>5. ~Hit(c, p)
    BY <2>1, <2>4 DEF Hit
  <2> QED BY <2>3, <2>5 DEF Piece, c
<1> QED BY <1>3, <1>4, <1>5, <1>6

\* The other pieces of the rule sets out.
PiecesOut(p, t, cfg) ==
  LET wrong(from) == p.iface = t /\ p.fam = 4 /\ p.local \in {"phys4", "outer4", "inner4"} \ {from}
      names == p.iface = t /\ p.fam = 4 /\ p.remote = Dns /\ IsDns(p)
      own4 == p.iface = t /\ p.fam = 4 /\ p.local = own(t)
      own6(six) == six /\ p.iface = t /\ p.fam = 6 /\ p.local = "tunnel6"
      peer(protocol, e) == /\ p.iface = t /\ p.fam = 4 /\ p.local = own(t) /\ p.remote = e.addr
                           /\ p.proto = protocol /\ p.rport = e.port
      lan == /\ cfg.allow_lan /\ p.iface \in {"lo", "phys", "outer", "inner"} \ cfg.tunnels
             /\ p.fam = 4 /\ p.remote \in Private
  IN  /\ \A from : Piece(own_source_only(t, from), p, wrong(from), FALSE)
      /\ Piece(dns_rules(t), p, IsDns(p), names)
      /\ \A six \in BOOLEAN : Piece(carrying_out(t, six), p, own4 \/ own6(six), own4 \/ own6(six))
      /\ \A protocol, e : Piece(peer_out(t, protocol, e), p, peer(protocol, e), peer(protocol, e))
      /\ Piece(<<Drop([iface |-> {t}])>>, p, p.iface = t, FALSE)
      /\ Piece(lan_rules(cfg), p, lan, lan)

LEMMA OtherPiecesOut ==
  ASSUME NEW p, NEW t, NEW cfg
  PROVE  PiecesOut(p, t, cfg)
<1>1. ASSUME NEW from
      PROVE  Piece(own_source_only(t, from), p,
                   p.iface = t /\ p.fam = 4 /\ p.local \in {"phys4", "outer4", "inner4"} \ {from}, FALSE)
  <2>1. Matches(p, Drop([iface |-> {t}, fam |-> {4}, local |-> {"phys4", "outer4", "inner4"} \ {from}]))
          <=> p.iface = t /\ p.fam = 4 /\ p.local \in {"phys4", "outer4", "inner4"} \ {from}
    BY DEF Matches, Drop
  <2> QED BY <2>1, DropOne DEF own_source_only, Piece
<1>2. Piece(dns_rules(t), p, IsDns(p), p.iface = t /\ p.fam = 4 /\ p.remote = Dns /\ IsDns(p))
  <2> DEFINE q == Accepts([iface |-> {t}, fam |-> {4}, remote |-> {Dns}, proto |-> {"udp", "tcp"}, rport |-> {53}])
             r == Drop([proto |-> {"udp", "tcp"}, rport |-> {53}])
  <2>1. /\ Matches(p, q) <=> p.iface = t /\ p.fam = 4 /\ p.remote = Dns /\ IsDns(p)
        /\ Matches(p, r) <=> IsDns(p)
        /\ q.accept /\ ~r.accept
    BY DEF Matches, Accepts, Drop, IsDns
  <2>2. dns_rules(t) = <<q, r>>
    BY DEF dns_rules
  <2> HIDE DEF q, r
  <2> QED BY <2>1, <2>2, ChainTwo DEF Piece
<1>3. ASSUME NEW six \in BOOLEAN
      PROVE  LET m == \/ p.iface = t /\ p.fam = 4 /\ p.local = own(t)
                      \/ six /\ p.iface = t /\ p.fam = 6 /\ p.local = "tunnel6"
             IN  Piece(carrying_out(t, six), p, m, m)
  <2> DEFINE q == Accepts([iface |-> {t}, fam |-> {4}, local |-> {own(t)}])
             r == Accepts([iface |-> {t}, fam |-> {6}, local |-> {"tunnel6"}])
  <2>1. /\ Matches(p, q) <=> p.iface = t /\ p.fam = 4 /\ p.local = own(t)
        /\ Matches(p, r) <=> p.iface = t /\ p.fam = 6 /\ p.local = "tunnel6"
        /\ q.accept /\ r.accept
    BY DEF Matches, Accepts
  <2>2. carrying_out(t, six) = <<q>> \o (IF six THEN <<r>> ELSE << >>)
    BY DEF carrying_out
  <2> HIDE DEF q, r
  <2>3. Piece(<<q>>, p, Matches(p, q), Matches(p, q)) /\ Piece(<<r>>, p, Matches(p, r), Matches(p, r))
    BY <2>1, ChainOne DEF Piece
  <2>4. CASE six
    <3>1. carrying_out(t, six) = <<q>> \o <<r>>
      BY <2>2, <2>4
    <3>2. LET m == Matches(p, q) \/ Matches(p, r)
          IN  Piece(<<q>> \o <<r>>, p, m, m)
      <4>1. IsChain(<<q>>) /\ IsChain(<<r>>)
        BY <2>3 DEF Piece
      <4> QED BY <2>3, <4>1, ChainBoth DEF Piece
    <3> QED BY <2>1, <2>4, <3>1, <3>2 DEF Piece
  <2>5. CASE ~six
    BY <2>1, <2>2, <2>3, <2>5, ChainBoth, ChainNone DEF Piece
  <2> QED BY <2>4, <2>5
<1>4. ASSUME NEW protocol, NEW e
      PROVE  LET m == /\ p.iface = t /\ p.fam = 4 /\ p.local = own(t) /\ p.remote = e.addr
                      /\ p.proto = protocol /\ p.rport = e.port
             IN  Piece(peer_out(t, protocol, e), p, m, m)
  <2>1. Matches(p, Accepts([iface |-> {t}, fam |-> {4}, local |-> {own(t)}, remote |-> {e.addr},
                            proto |-> {protocol}, rport |-> {e.port}]))
          <=> /\ p.iface = t /\ p.fam = 4 /\ p.local = own(t) /\ p.remote = e.addr
              /\ p.proto = protocol /\ p.rport = e.port
    BY DEF Matches, Accepts
  <2> QED BY <2>1, AcceptOne DEF peer_out, Piece
<1>5. Piece(<<Drop([iface |-> {t}])>>, p, p.iface = t, FALSE)
  <2>1. Matches(p, Drop([iface |-> {t}])) <=> p.iface = t
    BY DEF Matches, Drop
  <2> QED BY <2>1, DropOne DEF Piece
<1>6. LET m == /\ cfg.allow_lan /\ p.iface \in {"lo", "phys", "outer", "inner"} \ cfg.tunnels
               /\ p.fam = 4 /\ p.remote \in Private
      IN  Piece(lan_rules(cfg), p, m, m)
  <2>1. Matches(p, Accepts([iface |-> {"lo", "phys", "outer", "inner"} \ cfg.tunnels, fam |-> {4}, remote |-> Private]))
          <=> p.iface \in {"lo", "phys", "outer", "inner"} \ cfg.tunnels /\ p.fam = 4 /\ p.remote \in Private
    BY DEF Matches, Accepts
  <2>2. CASE cfg.allow_lan
    BY <2>1, <2>2, AcceptOne DEF lan_rules, Piece
  <2>3. CASE ~cfg.allow_lan
    BY <2>3, ChainNone DEF lan_rules, Piece
  <2> QED BY <2>2, <2>3
<1> QED BY <1>1, <1>2, <1>3, <1>4, <1>5, <1>6 DEF PiecesOut

\* A table: the packets of an interface that is no loopback go through what is
\* between its ends.
LEMMA TableOf ==
  ASSUME NEW p, NEW o, NEW i, IsChain(o), IsChain(i), p.iface # "lo"
  PROVE  LET rest == Dhcp(p) \/ (p.proto = "icmp" /\ p.fam = 4 /\ p.ct = "related")
         IN  /\ FirstMatch(table(o, i).out, p) <=> FirstMatch(o, p) \/ (~Hit(o, p) /\ rest)
             /\ FirstMatch(table(o, i).in, p) <=> FirstMatch(i, p) \/ (~Hit(i, p) /\ rest)
<1> DEFINE lo == Accepts([iface |-> {"lo"}])
           dhcp == Accepts([proto |-> {"udp"}, lport |-> {68}, rport |-> {67}])
<1>1. /\ ~Matches(p, lo)
      /\ Matches(p, dhcp) <=> Dhcp(p)
      /\ Matches(p, related) <=> p.proto = "icmp" /\ p.fam = 4 /\ p.ct = "related"
      /\ dhcp.accept /\ related.accept
  BY DEF Matches, Accepts, Dhcp, related
<1>2. /\ table(o, i).out = <<lo>> \o o \o <<dhcp, related>>
      /\ table(o, i).in = <<lo>> \o i \o <<dhcp, related>>
  BY DEF table
<1> HIDE DEF lo, dhcp
<1>3. IsChain(<<lo>>) /\ ~Hit(<<lo>>, p) /\ ~FirstMatch(<<lo>>, p)
  BY <1>1, ChainOne
<1>4. /\ IsChain(<<dhcp, related>>)
      /\ FirstMatch(<<dhcp, related>>, p) <=>
           Dhcp(p) \/ (p.proto = "icmp" /\ p.fam = 4 /\ p.ct = "related")
  BY <1>1, ChainTwo
<1>5. ASSUME NEW c, IsChain(c)
      PROVE  FirstMatch(<<lo>> \o c \o <<dhcp, related>>, p) <=>
               \/ FirstMatch(c, p)
               \/ /\ ~Hit(c, p)
                  /\ Dhcp(p) \/ (p.proto = "icmp" /\ p.fam = 4 /\ p.ct = "related")
  BY <1>3, <1>4, <1>5, ChainThree
<1> QED BY <1>2, <1>5

\* The configurations that apply, hold and hold_admitting install.
IsConf(c) ==
  \/ /\ c.mode = "apply" /\ \E n \in Nodes : c.nodes = <<n>>
     /\ c.hops \in {1, 2} /\ c.allow_lan \in BOOLEAN /\ c.ipv6 \in BOOLEAN
     /\ c.direct = << >> /\ c.bridge = FALSE
     /\ c.tunnels = IF c.hops = 2 THEN {"outer", "inner"} ELSE {"outer"}
  \/ /\ c.mode = "hold" /\ \E n, m \in Nodes : c.nodes \in {<<n>>, <<n, m>>}
     /\ c.hops = 0 /\ c.allow_lan = FALSE /\ c.ipv6 = FALSE
     /\ c.direct = << >> /\ c.bridge = FALSE /\ c.tunnels = {}
  \/ /\ c.mode = "admitting" /\ \E n \in Nodes : c.nodes = <<n>>
     /\ c.hops = 0 /\ c.allow_lan = FALSE /\ c.ipv6 = FALSE
     /\ \E a \in Admissions : c.direct = <<a>>
     /\ c.bridge \in BOOLEAN /\ c.tunnels = IF c.bridge THEN {"outer"} ELSE {}

LEMMA ConfEndpoints ==
  ASSUME NEW c, IsConf(c)
  PROVE  /\ \E k \in Nat : DOMAIN c.nodes = 1..k
         /\ \E k \in Nat : DOMAIN c.direct = 1..k
<1>1. /\ DOMAIN << >> = 1..0
      /\ \A n : DOMAIN <<n>> = 1..1
      /\ \A n, m : DOMAIN <<n, m>> = 1..2
  OBVIOUS
<1> QED BY <1>1 DEF IsConf

\* A packet that the machine may try to send.
IsOut(p) ==
  /\ p.iface \in {"phys", "outer", "inner"} /\ p.fam \in {4, 6}
  /\ p.proto \in {"udp", "tcp"} /\ p.ct = "new"

\* nftables, a running circuit, packets out.
LEMMA ApplyOut ==
  ASSUME IsConf(conf), conf.mode = "apply", os = "linux", NEW p, IsOut(p),
         p.local \in Locals(p.iface, p.fam)
  PROVE  LET passes == FirstMatch(ruleset(conf).out, p)
         IN  (passes => MayLeave(p)) /\ (MustLeave(p) => passes)
<1> DEFINE two == conf.hops = 2
           t == IF two THEN "inner" ELSE "outer"
           a == own_source_only("outer", own("outer"))
           b == IF two THEN own_source_only("inner", own("inner")) ELSE << >>
           c == node_out(conf.nodes)
           d == dns_rules(t)
           e == IF two THEN peer_out("outer", "udp", Exit) \o <<Drop([iface |-> {"outer"}])>>
                       ELSE carrying_out("outer", conf.ipv6)
           f == IF two THEN carrying_out("inner", conf.ipv6) ELSE << >>
           g == lan_rules(conf)
           all == a \o b \o c \o d \o e \o f \o g
           wrong(i) == p.iface = i /\ p.fam = 4 /\ p.local # own(i)
           own4(i) == p.iface = i /\ p.fam = 4 /\ p.local = own(i)
           own6(i) == conf.ipv6 /\ p.iface = i /\ p.fam = 6 /\ p.local = "tunnel6"
           exit == /\ p.iface = "outer" /\ p.fam = 4 /\ p.local = own("outer") /\ p.remote = Exit.addr
                   /\ p.proto = "udp" /\ p.rport = Exit.port
           lan == /\ conf.allow_lan /\ p.iface \in {"lo", "phys", "outer", "inner"} \ conf.tunnels
                  /\ p.fam = 4 /\ p.remote \in Private
<1>0. /\ two \in BOOLEAN /\ conf.ipv6 \in BOOLEAN
      /\ conf.tunnels = IF two THEN {"outer", "inner"} ELSE {"outer"}
  BY DEF IsConf
<1>1. p.local \in {"phys4", "outer4", "inner4"} <=> p.fam = 4
  BY DEF Locals, IsOut
<1>2. PiecesOut(p, "outer", conf) /\ PiecesOut(p, "inner", conf) /\ (t = "inner" <=> two)
  BY OtherPiecesOut
<1>3. \A i \in {"outer", "inner"} : Piece(own_source_only(i, own(i)), p, wrong(i), FALSE)
  <2>1. ASSUME NEW i, PiecesOut(p, i, conf) PROVE Piece(own_source_only(i, own(i)), p, wrong(i), FALSE)
    <3>1. Piece(own_source_only(i, own(i)), p,
                p.iface = i /\ p.fam = 4 /\ p.local \in {"phys4", "outer4", "inner4"} \ {own(i)}, FALSE)
      BY <2>1 DEF PiecesOut
    <3> QED BY <1>1, <3>1 DEF Piece
  <2> QED BY <1>2, <2>1
<1>4. Piece(a, p, wrong("outer"), FALSE)
  BY <1>3
<1>5. Piece(b, p, two /\ wrong("inner"), FALSE)
  <2>1. CASE two
    BY <1>3, <2>1 DEF Piece
  <2>2. CASE ~two
    BY <2>2, ChainNone DEF Piece
  <2> QED BY <2>1, <2>2
<1>6. Piece(c, p, ToNode(p), ToNode(p))
  BY ConfEndpoints, ToEndpoints DEF ToNode
<1>7. Piece(d, p, IsDns(p), p.iface = t /\ p.fam = 4 /\ p.remote = Dns /\ IsDns(p))
  BY OtherPiecesOut DEF PiecesOut
<1>8. \A i \in {"outer", "inner"} : Piece(carrying_out(i, conf.ipv6), p, own4(i) \/ own6(i), own4(i) \/ own6(i))
  BY <1>0, <1>2 DEF PiecesOut
<1>9. /\ two => Piece(e, p, p.iface = "outer", exit)
      /\ ~two => Piece(e, p, own4("outer") \/ own6("outer"), own4("outer") \/ own6("outer"))
  <2>1. CASE two
    <3>1. /\ Piece(peer_out("outer", "udp", Exit), p, exit, exit)
          /\ Piece(<<Drop([iface |-> {"outer"}])>>, p, p.iface = "outer", FALSE)
      BY <1>2 DEF PiecesOut
    <3> QED BY <2>1, <3>1, ChainBoth DEF Piece
  <2>2. CASE ~two
    BY <1>8, <2>2
  <2> QED BY <2>1, <2>2
<1>10. Piece(f, p, two /\ (own4("inner") \/ own6("inner")), two /\ (own4("inner") \/ own6("inner")))
  <2>1. CASE two
    BY <1>8, <2>1 DEF Piece
  <2>2. CASE ~two
    BY <2>2, ChainNone DEF Piece
  <2> QED BY <2>1, <2>2
<1>11. Piece(g, p, lan, lan)
  BY <1>2 DEF PiecesOut
<1>12. ruleset(conf).out = table(all, ruleset(conf).in).out
  BY DEF ruleset, table
<1> HIDE DEF a, b, c, d, e, f, g
<1>13. /\ IsChain(a) /\ IsChain(b) /\ IsChain(c) /\ IsChain(d) /\ IsChain(e) /\ IsChain(f) /\ IsChain(g)
  <2>1. IsChain(e)
    BY <1>0, <1>9 DEF Piece
  <2> QED BY <1>4, <1>5, <1>6, <1>7, <1>10, <1>11, <2>1 DEF Piece
<1> DEFINE ha == wrong("outer")
           hb == two /\ wrong("inner")
           fd == p.iface = t /\ p.fam = 4 /\ p.remote = Dns /\ IsDns(p)
           he == IF two THEN p.iface = "outer" ELSE own4("outer") \/ own6("outer")
           fe == IF two THEN exit ELSE own4("outer") \/ own6("outer")
           hf == two /\ (own4("inner") \/ own6("inner"))
<1>14. /\ Hit(a, p) <=> ha
       /\ Hit(b, p) <=> hb
       /\ Hit(c, p) <=> ToNode(p)
       /\ Hit(d, p) <=> IsDns(p)
       /\ Hit(e, p) <=> he
       /\ Hit(f, p) <=> hf
       /\ Hit(g, p) <=> lan
       /\ ~FirstMatch(a, p) /\ ~FirstMatch(b, p)
       /\ FirstMatch(c, p) <=> ToNode(p)
       /\ FirstMatch(d, p) <=> fd
       /\ FirstMatch(e, p) <=> fe
       /\ FirstMatch(f, p) <=> hf
       /\ FirstMatch(g, p) <=> lan
  <2>1. /\ Hit(e, p) <=> he
        /\ FirstMatch(e, p) <=> fe
    BY <1>0, <1>9 DEF Piece
  <2> QED BY <1>4, <1>5, <1>6, <1>7, <1>10, <1>11, <2>1 DEF Piece
<1> HIDE DEF all
<1>15. /\ IsChain(all)
       /\ Hit(all, p) <=> ha \/ hb \/ ToNode(p) \/ IsDns(p) \/ he \/ hf \/ lan
       /\ FirstMatch(all, p) <=>
            /\ ~ha /\ ~hb
            /\ ToNode(p) \/ fd \/ (~IsDns(p) /\ (fe \/ (~he /\ (hf \/ lan))))
  <2>1. all = a \o b \o c \o d \o e \o f \o g
    BY DEF all
  <2>2. /\ IsChain(all)
        /\ Hit(all, p) <=> \/ Hit(a, p) \/ Hit(b, p) \/ Hit(c, p) \/ Hit(d, p)
                            \/ Hit(e, p) \/ Hit(f, p) \/ Hit(g, p)
        /\ FirstMatch(all, p) <=>
             \/ FirstMatch(a, p)
             \/ /\ ~Hit(a, p)
                /\ \/ FirstMatch(b, p)
                   \/ /\ ~Hit(b, p)
                      /\ \/ FirstMatch(c, p)
                         \/ /\ ~Hit(c, p)
                            /\ \/ FirstMatch(d, p)
                               \/ /\ ~Hit(d, p)
                                  /\ \/ FirstMatch(e, p)
                                     \/ /\ ~Hit(e, p)
                                        /\ \/ FirstMatch(f, p)
                                           \/ ~Hit(f, p) /\ FirstMatch(g, p)
    BY <1>13, <2>1, ChainSeven
  <2>3. fd => IsDns(p)
    OBVIOUS
  <2> HIDE DEF ha, hb, fd, he, fe, hf, lan
  <2> QED BY <1>14, <2>2, <2>3
<1>16. FirstMatch(ruleset(conf).out, p) <=>
         FirstMatch(all, p) \/ (~Hit(all, p) /\ (Dhcp(p) \/ (p.proto = "icmp" /\ p.fam = 4 /\ p.ct = "related")))
  <2>1. IsChain(<< >>) /\ table(all, << >>).out = ruleset(conf).out
    BY <1>12, ChainNone DEF table
  <2>2. p.iface # "lo"
    BY DEF IsOut
  <2> QED BY <1>15, <2>1, <2>2, TableOf
<1>17. p.proto # "icmp"
  BY DEF IsOut
<1>18. ~ha /\ ~hb <=> (p.iface \in conf.tunnels /\ p.fam = 4 => p.local = own(p.iface))
  <2>1. p.iface \in {"phys", "outer", "inner"}
    BY DEF IsOut
  <2>2. CASE two
    BY <1>0, <2>1, <2>2
  <2>3. CASE ~two
    BY <1>0, <2>1, <2>3
  <2> QED BY <1>0, <2>2, <2>3
<1>19. Carrying = t
  BY DEF Carrying
<1>20. FromTunnel(p) <=> IF p.fam = 4 THEN p.local = own(p.iface) ELSE conf.ipv6 /\ p.local = "tunnel6"
  BY DEF FromTunnel
<1>21. p.fam = 4 \/ p.fam = 6
  BY DEF IsOut
<1>22. conf.direct = << >> /\ ~conf.bridge
  BY DEF IsConf
<1>23. ASSUME FirstMatch(ruleset(conf).out, p) PROVE MayLeave(p)
  <2>1. \/ /\ ~ha /\ ~hb
           /\ ToNode(p) \/ fd \/ (~IsDns(p) /\ (fe \/ (~he /\ (hf \/ lan))))
        \/ ~ha /\ ~hb /\ Dhcp(p)
    BY <1>15, <1>16, <1>17, <1>23
  <2>2. ~ha /\ ~hb
    BY <2>1
  <2>3. p.iface \in conf.tunnels /\ p.fam = 4 => p.local = own(p.iface)
    BY <1>18, <2>2
  <2>4. fd => p.iface = Carrying /\ FromTunnel(p) /\ p.remote = Dns /\ p.fam = 4
    <3>1. t \in conf.tunnels
      BY <1>0
    <3> QED BY <1>19, <1>20, <2>3, <3>1
  <2>5. fe => \/ p.iface = Carrying /\ FromTunnel(p)
              \/ p.iface = "outer" /\ conf.mode = "apply" /\ conf.hops = 2 /\ To(p, Exit, "udp")
    <3>1. CASE ~two
      BY <1>0, <1>19, <1>20, <3>1
    <3>2. CASE two /\ fe
      <4>1. exit
        BY <3>2
      <4>2. To(p, Exit, "udp")
        BY <4>1, KsConstants DEF To
      <4> QED BY <3>2, <4>1, <4>2
    <3> QED BY <1>0, <3>1, <3>2
  <2>6. hf => p.iface = Carrying /\ FromTunnel(p)
    BY <1>19, <1>20
  <2>7. lan => conf.allow_lan /\ p.fam = 4 /\ p.remote \in Private /\ p.iface \notin conf.tunnels
    OBVIOUS
  <2> HIDE DEF ha, hb, fd, he, fe, hf, lan
  <2> QED BY <2>1, <2>3, <2>4, <2>5, <2>6, <2>7 DEF MayLeave
<1>24. ASSUME MustLeave(p) PROVE FirstMatch(ruleset(conf).out, p)
  <2>1. CASE p.iface = "phys" /\ ToNode(p)
    <3>1. ~ha /\ ~hb
      BY <2>1
    <3> QED BY <1>15, <1>16, <2>1, <3>1
  <2>2. CASE p.iface = t /\ FromTunnel(p) /\ (IsDns(p) => p.remote = Dns /\ p.fam = 4)
    <3>1. ~ha /\ ~hb
      BY <1>0, <1>20, <2>2
    <3>2. IsDns(p) => fd
      BY <2>2
    <3>3. two => ~he /\ hf
      BY <1>20, <1>21, <2>2
    <3>4. ~two => fe
      BY <1>20, <1>21, <2>2
    <3> HIDE DEF ha, hb, fd, he, fe, hf, lan
    <3> QED BY <1>0, <1>15, <1>16, <3>1, <3>2, <3>3, <3>4
  <2> QED BY <1>19, <1>24, <2>1, <2>2 DEF MustLeave
<1> QED BY <1>23, <1>24

\* nftables, the holds, packets out.
LEMMA HoldOut ==
  ASSUME IsConf(conf), conf.mode = "hold", os = "linux", NEW p, IsOut(p)
  PROVE  LET passes == FirstMatch(hold_ruleset(conf.nodes).out, p)
         IN  (passes => MayLeave(p)) /\ (MustLeave(p) => passes)
<1>1. Piece(node_out(conf.nodes), p, ToNode(p), ToNode(p))
  BY ConfEndpoints, ToEndpoints DEF ToNode
<1>2. p.iface # "lo" /\ p.proto # "icmp" /\ p.iface # "none"
  BY DEF IsOut
<1>3. hold_ruleset(conf.nodes).out = table(node_out(conf.nodes), << >>).out
  BY DEF hold_ruleset, table
<1>4. FirstMatch(hold_ruleset(conf.nodes).out, p) <=> ToNode(p) \/ Dhcp(p)
  <2>1. IsChain(node_out(conf.nodes)) /\ (Hit(node_out(conf.nodes), p) <=> ToNode(p))
        /\ (FirstMatch(node_out(conf.nodes), p) <=> ToNode(p))
    BY <1>1 DEF Piece
  <2> QED BY <1>2, <1>3, <2>1, ChainNone, TableOf
<1>5. conf.tunnels = {} /\ Carrying = "none"
  BY DEF IsConf, Carrying
<1>6. ToNode(p) \/ Dhcp(p) => MayLeave(p)
  BY <1>5 DEF MayLeave
<1>7. MustLeave(p) => ToNode(p)
  BY <1>2, <1>5 DEF MustLeave
<1> QED BY <1>4, <1>6, <1>7

LEMMA AdmittingOut ==
  ASSUME IsConf(conf), conf.mode = "admitting", os = "linux", NEW p, IsOut(p),
         p.local \in Locals(p.iface, p.fam)
  PROVE  LET passes == FirstMatch(admitting_ruleset(conf).out, p)
         IN  (passes => MayLeave(p)) /\ (MustLeave(p) => passes)
<1> DEFINE a == IF conf.bridge THEN own_source_only("outer", own("outer")) ELSE << >>
           b == node_out(conf.nodes)
           c == IF conf.bridge THEN peer_out("outer", "tcp", ExitAdmission) ELSE << >>
           d == direct_out(conf.direct)
           wrong == p.iface = "outer" /\ p.fam = 4 /\ p.local # own("outer")
           exit == /\ p.iface = "outer" /\ p.fam = 4 /\ p.local = own("outer") /\ p.remote = ExitAdmission.addr
                   /\ p.proto = "tcp" /\ p.rport = ExitAdmission.port
           asks == \E i \in DOMAIN conf.direct : To(p, conf.direct[i], "tcp")
<1>1. p.local \in {"phys4", "outer4", "inner4"} <=> p.fam = 4
  BY DEF Locals, IsOut
<1>2. PiecesOut(p, "outer", conf)
  BY OtherPiecesOut
<1>3. Piece(a, p, conf.bridge /\ wrong, FALSE)
  <2>1. Piece(own_source_only("outer", own("outer")), p, wrong, FALSE)
    <3>1. Piece(own_source_only("outer", own("outer")), p,
                p.iface = "outer" /\ p.fam = 4 /\ p.local \in {"phys4", "outer4", "inner4"} \ {own("outer")}, FALSE)
      BY <1>2 DEF PiecesOut
    <3> QED BY <1>1, <3>1 DEF Piece
  <2> QED BY <2>1, ChainNone DEF Piece
<1>4. Piece(b, p, ToNode(p), ToNode(p)) /\ Piece(d, p, asks, asks)
  BY ConfEndpoints, ToEndpoints DEF ToNode
<1>5. Piece(c, p, conf.bridge /\ exit, conf.bridge /\ exit)
  <2>1. Piece(peer_out("outer", "tcp", ExitAdmission), p, exit, exit)
    BY <1>2 DEF PiecesOut
  <2> QED BY <2>1, ChainNone DEF Piece
<1>6. admitting_ruleset(conf).out = table(a \o b \o c \o d, << >>).out
  BY DEF admitting_ruleset, table
<1> HIDE DEF a, b, c, d
<1> DEFINE all == a \o b \o c \o d
<1>7. /\ IsChain(all)
      /\ Hit(all, p) <=> (conf.bridge /\ wrong) \/ ToNode(p) \/ (conf.bridge /\ exit) \/ asks
      /\ FirstMatch(all, p) <=>
           ~(conf.bridge /\ wrong) /\ (ToNode(p) \/ (conf.bridge /\ exit) \/ asks)
  <2>1. /\ IsChain(a) /\ IsChain(b) /\ IsChain(c) /\ IsChain(d)
        /\ Hit(a, p) <=> conf.bridge /\ wrong
        /\ Hit(b, p) <=> ToNode(p)
        /\ Hit(c, p) <=> conf.bridge /\ exit
        /\ Hit(d, p) <=> asks
        /\ ~FirstMatch(a, p)
        /\ FirstMatch(b, p) <=> ToNode(p)
        /\ FirstMatch(c, p) <=> conf.bridge /\ exit
        /\ FirstMatch(d, p) <=> asks
    BY <1>3, <1>4, <1>5 DEF Piece
  <2> DEFINE abc == a \o b \o c
  <2>2. /\ IsChain(abc)
        /\ Hit(abc, p) <=> Hit(a, p) \/ Hit(b, p) \/ Hit(c, p)
        /\ FirstMatch(abc, p) <=>
             \/ FirstMatch(a, p)
             \/ ~Hit(a, p) /\ FirstMatch(b, p)
             \/ ~Hit(a, p) /\ ~Hit(b, p) /\ FirstMatch(c, p)
    BY <2>1, ChainThree
  <2> HIDE DEF abc
  <2>3. /\ IsChain(abc \o d)
        /\ Hit(abc \o d, p) <=> Hit(abc, p) \/ Hit(d, p)
        /\ FirstMatch(abc \o d, p) <=> FirstMatch(abc, p) \/ (~Hit(abc, p) /\ FirstMatch(d, p))
    BY <2>1, <2>2, ChainBoth
  <2>4. abc \o d = all
    BY DEF abc
  <2> HIDE DEF all, wrong, exit, asks
  <2> QED BY <2>1, <2>2, <2>3, <2>4
<1> HIDE DEF all
<1>8. FirstMatch(admitting_ruleset(conf).out, p) <=> FirstMatch(all, p) \/ (~Hit(all, p) /\ Dhcp(p))
  <2>1. p.iface # "lo" /\ p.proto # "icmp"
    BY DEF IsOut
  <2>2. admitting_ruleset(conf).out = table(all, << >>).out
    BY <1>6 DEF all
  <2> QED BY <1>7, <2>1, <2>2, ChainNone, TableOf
<1>9. /\ conf.bridge \in BOOLEAN /\ conf.tunnels = IF conf.bridge THEN {"outer"} ELSE {}
      /\ Carrying = "none" /\ p.iface # "none"
  BY DEF IsConf, Carrying, IsOut
<1>10. ASSUME FirstMatch(admitting_ruleset(conf).out, p) PROVE MayLeave(p)
  <2>1. ~(conf.bridge /\ wrong) /\ (ToNode(p) \/ (conf.bridge /\ exit) \/ asks \/ Dhcp(p))
    BY <1>7, <1>8, <1>10
  <2>2. p.iface \in conf.tunnels /\ p.fam = 4 => p.local = own(p.iface)
    BY <1>9, <2>1
  <2>3. exit => To(p, ExitAdmission, "tcp") /\ p.iface = "outer"
    BY KsConstants DEF To
  <2> HIDE DEF wrong, exit
  <2> QED BY <2>1, <2>2, <2>3 DEF MayLeave
<1>11. ASSUME MustLeave(p) PROVE FirstMatch(admitting_ruleset(conf).out, p)
  <2>1. p.iface = "phys" /\ ToNode(p)
    BY <1>9, <1>11 DEF MustLeave
  <2>2. ~wrong
    BY <2>1
  <2> QED BY <1>7, <1>8, <2>1, <2>2
<1> QED BY <1>10, <1>11

\* A packet that may arrive unasked.
IsIn(p) ==
  /\ p.iface \in {"phys", "outer", "inner"} /\ p.fam \in {4, 6} /\ p.ct = "new"
  /\ p.proto \in {"udp", "tcp"} \/ (p.proto = "icmp" /\ p.lport \in {3, 8})

\* nftables, packets in: nothing that is new through a tunnel.
LEMMA PiecesIn ==
  ASSUME NEW p, p.ct = "new", NEW t
  PROVE  /\ Piece(carrying_in(t), p, p.iface = t, FALSE)
         /\ \A protocol, e : Piece(peer_in(t, protocol, e), p, p.iface = t, FALSE)
<1> DEFINE end == Drop([iface |-> {t}])
           back == Accepts([iface |-> {t}, ct |-> {"established", "related"}])
           errors == Accepts([iface |-> {t}, proto |-> {"icmp"}, fam |-> {4}, ct |-> {"related"}])
<1>1. /\ Matches(p, end) <=> p.iface = t
      /\ ~end.accept /\ ~Matches(p, back) /\ ~Matches(p, errors)
  BY DEF Matches, Accepts, Drop
<1>2. Piece(carrying_in(t), p, p.iface = t, FALSE)
  <2>1. carrying_in(t) = <<back, end>>
    BY DEF carrying_in
  <2> HIDE DEF end, back, errors
  <2> QED BY <1>1, <2>1, ChainTwo DEF Piece
<1>3. ASSUME NEW protocol, NEW e
      PROVE  Piece(peer_in(t, protocol, e), p, p.iface = t, FALSE)
  <2> DEFINE answers == Accepts([iface |-> {t}, fam |-> {4}, remote |-> {e.addr}, proto |-> {protocol},
                                 rport |-> {e.port}, ct |-> {"established"}])
  <2>1. ~Matches(p, answers)
    BY DEF Matches, Accepts
  <2>2. peer_in(t, protocol, e) = <<answers>> \o <<errors, end>>
    BY DEF peer_in
  <2> HIDE DEF end, back, errors, answers
  <2>3. IsChain(<<answers>>) /\ ~Hit(<<answers>>, p) /\ ~FirstMatch(<<answers>>, p)
    BY <2>1, ChainOne
  <2>4. /\ IsChain(<<errors, end>>)
        /\ Hit(<<errors, end>>, p) <=> p.iface = t
        /\ ~FirstMatch(<<errors, end>>, p)
    BY <1>1, ChainTwo
  <2> QED BY <2>2, <2>3, <2>4, ChainBoth DEF Piece
<1> QED BY <1>2, <1>3

LEMMA ApplyIn ==
  ASSUME IsConf(conf), conf.mode = "apply", os = "linux", NEW p, IsIn(p), FirstMatch(ruleset(conf).in, p)
  PROVE  MayComeUnasked(p)
<1> DEFINE two == conf.hops = 2
           a == IF two THEN peer_in("outer", "udp", Exit) ELSE carrying_in("outer")
           b == IF two THEN carrying_in("inner") ELSE << >>
           c == node_in(conf.nodes)
           d == lan_rules(conf)
           lan == /\ conf.allow_lan /\ p.iface \in {"lo", "phys", "outer", "inner"} \ conf.tunnels
                  /\ p.fam = 4 /\ p.remote \in Private
<1>1. p.ct = "new" /\ p.iface # "lo"
  BY DEF IsIn
<1>2. Piece(a, p, p.iface = "outer", FALSE)
  BY <1>1, PiecesIn DEF Piece
<1>3. Piece(b, p, two /\ p.iface = "inner", FALSE)
  BY <1>1, PiecesIn, ChainNone DEF Piece
<1>4. Piece(c, p, FALSE, FALSE)
  BY <1>1, ConfEndpoints, ToEndpoints
<1>5. Piece(d, p, lan, lan)
  BY OtherPiecesOut DEF PiecesOut
<1>6. ruleset(conf).in = table(<< >>, a \o b \o c \o d).in
  BY DEF ruleset, table
<1> HIDE DEF a, b, c, d
<1> DEFINE abc == a \o b \o c
           all == abc \o d
<1>7. IsChain(abc) /\ ~FirstMatch(abc, p) /\ (Hit(abc, p) <=> p.iface = "outer" \/ (two /\ p.iface = "inner"))
  <2>1. IsChain(a) /\ IsChain(b) /\ IsChain(c)
    BY <1>2, <1>3, <1>4 DEF Piece
  <2> QED BY <1>2, <1>3, <1>4, <2>1, ChainThree DEF Piece
<1> HIDE DEF abc
<1>8. /\ IsChain(all) /\ (Hit(all, p) <=> Hit(abc, p) \/ lan) /\ (FirstMatch(all, p) <=> ~Hit(abc, p) /\ lan)
  <2>1. IsChain(d) /\ (Hit(d, p) <=> lan) /\ (FirstMatch(d, p) <=> lan)
    BY <1>5 DEF Piece
  <2> QED BY <1>7, <2>1, ChainBoth
<1>9. ruleset(conf).in = table(<< >>, all).in
  BY <1>6 DEF abc
<1> HIDE DEF all
<1>10. ~(p.iface = "outer" \/ (two /\ p.iface = "inner")) /\ (lan \/ Dhcp(p))
  <2>1. FirstMatch(all, p) \/ (~Hit(all, p) /\ (Dhcp(p) \/ (p.proto = "icmp" /\ p.fam = 4 /\ p.ct = "related")))
    BY <1>1, <1>8, <1>9, ChainNone, TableOf
  <2> QED BY <1>1, <1>7, <1>8, <2>1
<1>11. conf.tunnels = IF two THEN {"outer", "inner"} ELSE {"outer"}
  BY DEF IsConf
<1> QED BY <1>10, <1>11 DEF MayComeUnasked

LEMMA HoldsIn ==
  ASSUME IsConf(conf), os = "linux", NEW p, IsIn(p),
         \/ conf.mode = "hold" /\ FirstMatch(hold_ruleset(conf.nodes).in, p)
         \/ conf.mode = "admitting" /\ FirstMatch(admitting_ruleset(conf).in, p)
  PROVE  MayComeUnasked(p)
<1>1. p.ct = "new" /\ p.iface # "lo"
  BY DEF IsIn
<1>2. Piece(node_in(conf.nodes), p, FALSE, FALSE) /\ Piece(direct_in(conf.direct), p, FALSE, FALSE)
  BY <1>1, ConfEndpoints, ToEndpoints
<1>3. CASE conf.mode = "hold"
  <2>1. hold_ruleset(conf.nodes).in = table(<< >>, node_in(conf.nodes)).in
    BY DEF hold_ruleset, table
  <2>2. FirstMatch(hold_ruleset(conf.nodes).in, p)
    BY <1>3
  <2>3. Dhcp(p)
    <3>1. IsChain(node_in(conf.nodes)) /\ ~FirstMatch(node_in(conf.nodes), p)
      BY <1>2 DEF Piece
    <3> QED BY <1>1, <2>1, <2>2, <3>1, ChainNone, TableOf
  <2>4. conf.tunnels = {}
    BY <1>3 DEF IsConf
  <2> QED BY <2>3, <2>4 DEF MayComeUnasked
<1>4. CASE conf.mode = "admitting"
  <2> DEFINE a == IF conf.bridge THEN peer_in("outer", "tcp", ExitAdmission) ELSE << >>
             b == node_in(conf.nodes)
             c == direct_in(conf.direct)
             all == a \o b \o c
  <2>1. Piece(a, p, conf.bridge /\ p.iface = "outer", FALSE)
    BY <1>1, PiecesIn, ChainNone DEF Piece
  <2>2. admitting_ruleset(conf).in = table(<< >>, all).in
    BY DEF admitting_ruleset, table
  <2>3. FirstMatch(admitting_ruleset(conf).in, p)
    BY <1>4
  <2> HIDE DEF a, b, c
  <2>4. IsChain(all) /\ ~FirstMatch(all, p) /\ (Hit(all, p) <=> conf.bridge /\ p.iface = "outer")
    <3>1. IsChain(a) /\ IsChain(b) /\ IsChain(c) /\ ~Hit(b, p) /\ ~Hit(c, p) /\ ~FirstMatch(b, p) /\ ~FirstMatch(c, p)
      BY <1>2, <2>1 DEF Piece, b, c
    <3> QED BY <2>1, <3>1, ChainThree DEF Piece
  <2> HIDE DEF all
  <2>5. ~(conf.bridge /\ p.iface = "outer") /\ Dhcp(p)
    BY <1>1, <2>2, <2>3, <2>4, ChainNone, TableOf
  <2>6. conf.bridge \in BOOLEAN /\ conf.tunnels = IF conf.bridge THEN {"outer"} ELSE {}
    BY <1>4 DEF IsConf
  <2> QED BY <2>5, <2>6 DEF MayComeUnasked
<1> QED BY <1>3, <1>4

-----------------------------------------------------------------------------
(* The filters of Windows: the heaviest that matches decides.                *)

\* What install asks for with the tunnels that a configuration carries traffic in.
Filters(c) ==
  LET a == Allow(c)
  IN  [out |-> {Block(0, [dir |-> {"out"}]), Permit(12, [iface |-> {"lo"}])}
               \cup {Permit(10, [iface |-> {t}, fam |-> {4}]) : t \in a.tunnels}
               \cup {Permit(10, [iface |-> {t}, fam |-> {6}]) : t \in a.tunnel_v6}
               \cup {Permit(11, [fam |-> {4}, proto |-> {"udp"}, remote |-> {a.nodes[i].addr},
                                 rport |-> {a.nodes[i].port}]) : i \in DOMAIN a.nodes}
               \cup others_out(a),
       in |-> inbound(a.lan, a.tunnels \cup {x.iface : x \in a.peered})]

\* What install asks for when it does not fail: its tunnels are up.
LEMMA InstalledFilters ==
  ASSUME NEW c, Allow(c).tunnels \subseteq up
  PROVE  install(Allow(c)) = Filters(c)
<1> DEFINE a == Allow(c)
<1>1. a.tunnels \cap up = a.tunnels
  OBVIOUS
<1> HIDE DEF a
<1>2. install(a).out = tunnels_out(a) \cup others_out(a)
  BY DEF install
<1> QED BY <1>1 DEF install, tunnels_out, Filters, a

\* Where every filter of a weight and above permits, a hit of one decides.
LEMMA HeaviestPermits ==
  ASSUME NEW F, NEW p, NEW w \in Nat, \A f \in F : f.weight \in Nat,
         \A f \in F : f.weight >= w => f.accept,
         NEW g \in F, g.weight >= w, Matches(p, g)
  PROVE  Arbitrate(F, p)
<1>1. ASSUME NEW f \in F, Matches(p, f), \A h \in {x \in F : Matches(p, x)} : h.weight <= f.weight
      PROVE  f.accept
  <2>1. g.weight <= f.weight
    BY <1>1
  <2> QED BY <1>1, <2>1
<1> QED BY <1>1 DEF Arbitrate

\* A filter that blocks and is as heavy as any other that matches decides.
LEMMA HeaviestBlocks ==
  ASSUME NEW F, NEW p, NEW g \in F, Matches(p, g), ~g.accept,
         \A f \in F : Matches(p, f) => f.weight <= g.weight
  PROVE  ~Arbitrate(F, p)
<1>1. g \in {x \in F : Matches(p, x)} /\ \A h \in {x \in F : Matches(p, x)} : h.weight <= g.weight
  OBVIOUS
<1> QED BY <1>1 DEF Arbitrate

\* What a configuration asks install for.
LEMMA AskedOfInstall ==
  ASSUME NEW c, IsConf(c)
  PROVE  LET a == Allow(c)
         IN  /\ a.tunnels = IF c.mode # "apply" THEN {} ELSE IF c.hops = 2 THEN {"inner"} ELSE {"outer"}
             /\ a.nodes = c.nodes /\ a.direct_tcp = c.direct /\ a.lan = c.allow_lan
             /\ a.peered = IF c.mode = "apply" /\ c.hops = 2 THEN {[iface |-> "outer", proto |-> "udp", to |-> Exit]}
                           ELSE IF c.bridge THEN {[iface |-> "outer", proto |-> "tcp", to |-> ExitAdmission]}
                           ELSE {}
             /\ a.tunnel_v6 = IF c.ipv6 THEN {IF c.hops = 2 THEN "inner" ELSE "outer"} ELSE {}
             /\ a.tunnels \cup {x.iface : x \in a.peered} = c.tunnels
<1>1. /\ Allow(c).tunnels = IF c.mode # "apply" THEN {} ELSE IF c.hops = 2 THEN {"inner"} ELSE {"outer"}
      /\ Allow(c).nodes = c.nodes /\ Allow(c).direct_tcp = c.direct /\ Allow(c).lan = c.allow_lan
      /\ Allow(c).peered = IF c.mode = "apply" /\ c.hops = 2 THEN {[iface |-> "outer", proto |-> "udp", to |-> Exit]}
                           ELSE IF c.bridge THEN {[iface |-> "outer", proto |-> "tcp", to |-> ExitAdmission]}
                           ELSE {}
      /\ Allow(c).tunnel_v6 = IF c.ipv6 THEN {IF c.hops = 2 THEN "inner" ELSE "outer"} ELSE {}
  <2>1. ~(c.mode # "apply" /\ c.hops = 2) /\ ~((c.mode = "apply" /\ c.hops = 2) /\ c.bridge)
    BY DEF IsConf
  <2>2. Allow(c).tunnels = IF c.mode # "apply" THEN {} ELSE IF c.hops = 2 THEN {"inner"} ELSE {"outer"}
    BY <2>1 DEF Allow
  <2>3. Allow(c).peered = IF c.mode = "apply" /\ c.hops = 2 THEN {[iface |-> "outer", proto |-> "udp", to |-> Exit]}
                          ELSE IF c.bridge THEN {[iface |-> "outer", proto |-> "tcp", to |-> ExitAdmission]}
                          ELSE {}
    BY <2>1 DEF Allow
  <2> QED BY <2>2, <2>3 DEF Allow
<1>2. {x.iface : x \in Allow(c).peered} =
        IF (c.mode = "apply" /\ c.hops = 2) \/ c.bridge THEN {"outer"} ELSE {}
  <2>1. CASE c.mode = "apply" /\ c.hops = 2
    BY <1>1, <2>1
  <2>2. CASE ~(c.mode = "apply" /\ c.hops = 2) /\ c.bridge
    <3>1. Allow(c).peered = {[iface |-> "outer", proto |-> "tcp", to |-> ExitAdmission]}
      BY <1>1, <2>2
    <3>2. {x.iface : x \in Allow(c).peered} = {"outer"}
      BY <3>1
    <3> QED BY <2>2, <3>2
  <2>3. CASE ~(c.mode = "apply" /\ c.hops = 2) /\ ~c.bridge
    BY <1>1, <2>3
  <2> QED BY <2>1, <2>2, <2>3
<1>3. Allow(c).tunnels \cup {x.iface : x \in Allow(c).peered} = c.tunnels
  <2>1. CASE c.mode = "apply" /\ c.hops = 2
    BY <1>1, <1>2, <2>1 DEF IsConf
  <2>2. CASE c.mode = "apply" /\ c.hops # 2
    BY <1>1, <1>2, <2>2 DEF IsConf
  <2>3. CASE c.mode # "apply"
    BY <1>1, <1>2, <2>3 DEF IsConf
  <2> QED BY <2>1, <2>2, <2>3
<1> QED BY <1>1, <1>3

\* Windows, packets out.
LEMMA WindowsOut ==
  ASSUME IsConf(conf), os = "windows", NEW p, IsOut(p), p.dir = "out", p.local \in Locals(p.iface, p.fam),
         \A i \in DOMAIN conf.nodes : conf.nodes[i].fam = 4,
         \A i \in DOMAIN conf.direct : conf.direct[i].fam = 4
  PROVE  LET passes == Arbitrate(Filters(conf).out, p)
         IN  (passes => MayLeave(p)) /\ (MustLeave(p) => passes)
<1> DEFINE a == Allow(conf)
           F == Filters(conf).out
           all == Block(0, [dir |-> {"out"}])
           lo == Permit(12, [iface |-> {"lo"}])
           via(t) == Permit(10, [iface |-> {t}, fam |-> {4}])
           via6(t) == Permit(10, [iface |-> {t}, fam |-> {6}])
           node(i) == Permit(11, [fam |-> {4}, proto |-> {"udp"}, remote |-> {conf.nodes[i].addr},
                                  rport |-> {conf.nodes[i].port}])
           peer(x) == Permit(10, [iface |-> {x.iface}, fam |-> {4}, proto |-> {x.proto}, remote |-> {x.to.addr},
                                  rport |-> {x.to.port}])
           ask(i) == Permit(11, [fam |-> {4}, proto |-> {"tcp"}, remote |-> {conf.direct[i].addr},
                                 rport |-> {conf.direct[i].port}])
           names == Block(9, [fam |-> {4}, remote |-> Private, rport |-> {53}])
           lan == Permit(8, [fam |-> {4}, remote |-> Private])
           dhcp == Permit(10, [fam |-> {4}, proto |-> {"udp"}, lport |-> {68}, rport |-> {67}, remote |-> {"bcast"}])
<1>1. /\ a.tunnels = IF conf.mode # "apply" THEN {} ELSE IF conf.hops = 2 THEN {"inner"} ELSE {"outer"}
      /\ a.nodes = conf.nodes /\ a.direct_tcp = conf.direct /\ a.lan = conf.allow_lan
      /\ a.peered = IF conf.mode = "apply" /\ conf.hops = 2 THEN {[iface |-> "outer", proto |-> "udp", to |-> Exit]}
                    ELSE IF conf.bridge THEN {[iface |-> "outer", proto |-> "tcp", to |-> ExitAdmission]}
                    ELSE {}
      /\ a.tunnel_v6 = IF conf.ipv6 THEN {IF conf.hops = 2 THEN "inner" ELSE "outer"} ELSE {}
  BY AskedOfInstall
<1>2. F = {all, lo} \cup {via(t) : t \in a.tunnels} \cup {via6(t) : t \in a.tunnel_v6}
          \cup {node(i) : i \in DOMAIN conf.nodes}
          \cup ({peer(x) : x \in a.peered} \cup {ask(i) : i \in DOMAIN conf.direct}
                \cup (IF conf.allow_lan THEN {names, lan} ELSE {}) \cup {dhcp})
  BY <1>1 DEF Filters, others_out
<1>3. /\ all.weight = 0 /\ ~all.accept /\ names.weight = 9 /\ ~names.accept
      /\ lan.weight = 8 /\ lan.accept /\ lo.weight = 12 /\ lo.accept /\ dhcp.weight = 10 /\ dhcp.accept
      /\ \A t : via(t).weight = 10 /\ via(t).accept /\ via6(t).weight = 10 /\ via6(t).accept
      /\ \A i : node(i).weight = 11 /\ node(i).accept /\ ask(i).weight = 11 /\ ask(i).accept
      /\ \A x : peer(x).weight = 10 /\ peer(x).accept
  BY DEF Permit, Block
<1>4. /\ Matches(p, all) /\ ~Matches(p, lo)
      /\ Matches(p, names) <=> p.fam = 4 /\ p.remote \in Private /\ p.rport = 53
      /\ Matches(p, lan) <=> p.fam = 4 /\ p.remote \in Private
      /\ Matches(p, dhcp) => Dhcp(p)
  BY DEF Matches, Permit, Block, Dhcp, IsOut
<1>5. /\ \A t : Matches(p, via(t)) <=> p.iface = t /\ p.fam = 4
      /\ \A t : Matches(p, via6(t)) <=> p.iface = t /\ p.fam = 6
  BY DEF Matches, Permit
<1>6. /\ \A i \in DOMAIN conf.nodes : Matches(p, node(i)) <=> To(p, conf.nodes[i], "udp")
      /\ \A i \in DOMAIN conf.direct : Matches(p, ask(i)) <=> To(p, conf.direct[i], "tcp")
  BY DEF Matches, Permit, To
<1>7. \A x : Matches(p, peer(x)) <=> /\ p.iface = x.iface /\ p.fam = 4 /\ p.proto = x.proto
                                     /\ p.remote = x.to.addr /\ p.rport = x.to.port
  BY DEF Matches, Permit
<1> HIDE DEF a, F, all, lo, via, via6, node, peer, ask, names, lan, dhcp
<1>8. /\ p.fam = 4 => p.local = own(p.iface)
      /\ p.fam = 6 /\ p.iface # "phys" => p.local = "tunnel6"
  BY DEF Locals, IsOut
<1>9. p.iface \in conf.tunnels /\ p.fam = 4 => p.local = own(p.iface)
  BY <1>8
<1>10. /\ ToNode(p) => MayLeave(p)
       /\ Dhcp(p) => MayLeave(p)
       /\ (\E i \in DOMAIN conf.direct : To(p, conf.direct[i], "tcp")) => MayLeave(p)
       /\ conf.allow_lan /\ p.fam = 4 /\ p.remote \in Private /\ ~IsDns(p) => MayLeave(p)
       /\ p.iface = Carrying /\ FromTunnel(p) => MayLeave(p)
       /\ p.iface = "outer" /\ conf.mode = "apply" /\ conf.hops = 2 /\ To(p, Exit, "udp") => MayLeave(p)
       /\ p.iface = "outer" /\ conf.bridge /\ To(p, ExitAdmission, "tcp") => MayLeave(p)
  BY <1>9 DEF MayLeave
\* What a permit of the tunnels lets through is the tunnel's own.
<1>11. ASSUME NEW t \in a.tunnels, Matches(p, via(t)) PROVE MayLeave(p)
  <2>1. p.iface = t /\ p.fam = 4
    BY <1>5, <1>11
  <2>2. Carrying = t
    BY <1>1 DEF Carrying
  <2>3. FromTunnel(p)
    BY <1>8, <2>1 DEF FromTunnel
  <2> QED BY <1>10, <2>1, <2>2, <2>3
<1>12. ASSUME NEW t \in a.tunnel_v6, Matches(p, via6(t)) PROVE MayLeave(p)
  <2>1. p.iface = t /\ p.fam = 6
    BY <1>5, <1>12
  <2>2. conf.ipv6 /\ t = IF conf.hops = 2 THEN "inner" ELSE "outer"
    BY <1>1
  <2>3. conf.mode = "apply"
    BY <2>2 DEF IsConf
  <2>4. Carrying = t
    BY <2>2, <2>3 DEF Carrying
  <2>5. FromTunnel(p)
    BY <1>8, <2>1, <2>2 DEF FromTunnel
  <2> QED BY <1>10, <2>1, <2>4, <2>5
<1>13. ASSUME NEW x \in a.peered, Matches(p, peer(x)) PROVE MayLeave(p)
  <2>1. /\ p.iface = x.iface /\ p.fam = 4 /\ p.proto = x.proto
        /\ p.remote = x.to.addr /\ p.rport = x.to.port
    BY <1>7, <1>13
  <2>2. CASE conf.mode = "apply" /\ conf.hops = 2
    <3>1. x = [iface |-> "outer", proto |-> "udp", to |-> Exit]
      BY <1>1, <2>2
    <3>2. p.iface = "outer" /\ To(p, Exit, "udp")
      BY <2>1, <3>1, KsConstants DEF To
    <3> QED BY <1>10, <2>2, <3>2
  <2>3. CASE ~(conf.mode = "apply" /\ conf.hops = 2)
    <3>1. conf.bridge /\ x = [iface |-> "outer", proto |-> "tcp", to |-> ExitAdmission]
      BY <1>1, <2>3
    <3>2. p.iface = "outer" /\ To(p, ExitAdmission, "tcp")
      BY <2>1, <3>1, KsConstants DEF To
    <3> QED BY <1>10, <3>1, <3>2
  <2> QED BY <2>2, <2>3
<1>14. ASSUME NEW f \in F, Matches(p, f), ~MayLeave(p)
       PROVE  f = all \/ (conf.allow_lan /\ f \in {names, lan})
  <2>1. CASE f \in {node(i) : i \in DOMAIN conf.nodes}
    <3>1. ToNode(p)
      BY <1>6, <1>14, <2>1 DEF ToNode
    <3> QED BY <1>10, <1>14, <3>1
  <2>2. CASE f \in {ask(i) : i \in DOMAIN conf.direct}
    BY <1>6, <1>10, <1>14, <2>2
  <2>3. CASE f \in {via(t) : t \in a.tunnels} \cup {via6(t) : t \in a.tunnel_v6} \cup {peer(x) : x \in a.peered}
    BY <1>11, <1>12, <1>13, <1>14, <2>3
  <2>4. f # dhcp /\ f # lo
    BY <1>4, <1>10, <1>14
  <2> QED BY <1>2, <2>1, <2>2, <2>3, <2>4
<1>15. ASSUME ~MayLeave(p) PROVE ~Arbitrate(F, p)
  <2>1. CASE conf.allow_lan /\ Matches(p, names)
    <3>1. names \in F
      BY <1>2, <2>1
    <3>2. \A f \in F : Matches(p, f) => f.weight <= names.weight
      BY <1>3, <1>14, <1>15
    <3> QED BY <1>3, <2>1, <3>1, <3>2, HeaviestBlocks
  <2>2. CASE ~(conf.allow_lan /\ Matches(p, names))
    <3>1. ~(conf.allow_lan /\ Matches(p, lan))
      BY <1>4, <1>10, <1>15, <2>2 DEF IsDns
    <3>2. \A f \in F : Matches(p, f) => f = all
      BY <1>14, <1>15, <2>2, <3>1
    <3>3. all \in F
      BY <1>2
    <3>4. \A f \in F : Matches(p, f) => f.weight <= all.weight
      BY <1>3, <3>2
    <3> QED BY <1>3, <1>4, <3>3, <3>4, HeaviestBlocks
  <2> QED BY <2>1, <2>2
<1>16. ASSUME MustLeave(p) PROVE Arbitrate(F, p)
  <2>1. PICK i \in DOMAIN conf.nodes : To(p, conf.nodes[i], "udp")
    BY <1>16 DEF MustLeave, ToNode
  <2>2. node(i) \in F /\ Matches(p, node(i)) /\ node(i).weight = 11
    BY <1>2, <1>3, <1>6, <2>1
  <2>3. \A f \in F : f.weight \in Nat /\ (f.weight >= 10 => f.accept)
    <3>1. ASSUME NEW f \in F PROVE f.weight \in Nat /\ (f.weight >= 10 => f.accept)
      <4>1. \/ f \in {all, lo} \/ (\E t : f = via(t)) \/ (\E t : f = via6(t)) \/ (\E j : f = node(j))
            \/ (\E x : f = peer(x)) \/ (\E j : f = ask(j)) \/ f \in {names, lan} \/ f = dhcp
        BY <1>2
      <4> QED BY <1>3, <4>1
    <3> QED BY <3>1
  <2> QED BY <2>2, <2>3, HeaviestPermits
<1> QED BY <1>15, <1>16 DEF F

\* Windows, packets in.
LEMMA WindowsIn ==
  ASSUME IsConf(conf), os = "windows", NEW p, IsIn(p), p.dir = "in", Arbitrate(Filters(conf).in, p)
  PROVE  MayComeUnasked(p)
<1> DEFINE F == Filters(conf).in
           all == Block(0, [dir |-> {"in"}])
           lo == Permit(12, [iface |-> {"lo"}])
           dhcp == Permit(10, [fam |-> {4}, proto |-> {"udp"}, lport |-> {68}, rport |-> {67}])
           shut(t) == Block(11, [iface |-> {t}, fam |-> {4}])
           errors(t) == Permit(12, [iface |-> {t}, fam |-> {4}, proto |-> {"icmp"}, lport |-> {3}])
           errors6(t) == Permit(12, [iface |-> {t}, fam |-> {6}, proto |-> {"icmp"}, lport |-> {1, 2}])
           lan == Permit(8, [fam |-> {4}, remote |-> Private])
<1>1. F = {all, lo, dhcp} \cup (UNION {{shut(t), errors(t), errors6(t)} : t \in conf.tunnels})
          \cup (IF conf.allow_lan THEN {lan} ELSE {})
  <2>1. /\ Allow(conf).lan = conf.allow_lan
        /\ Allow(conf).tunnels \cup {x.iface : x \in Allow(conf).peered} = conf.tunnels
    BY AskedOfInstall
  <2>2. F = inbound(conf.allow_lan, conf.tunnels)
    BY <2>1 DEF Filters
  <2> QED BY <2>2 DEF inbound
<1>2. /\ all.weight = 0 /\ ~all.accept /\ lo.weight = 12 /\ dhcp.weight = 10 /\ lan.weight = 8
      /\ \A t : shut(t).weight = 11 /\ ~shut(t).accept /\ errors(t).weight = 12 /\ errors6(t).weight = 12
  BY DEF Permit, Block
<1>3. /\ Matches(p, all) /\ ~Matches(p, lo)
      /\ Matches(p, dhcp) => Dhcp(p) /\ p.fam = 4
      /\ Matches(p, lan) <=> p.fam = 4 /\ p.remote \in Private
  BY DEF Matches, Permit, Block, Dhcp, IsIn
<1>4. \A t : /\ Matches(p, shut(t)) <=> p.iface = t /\ p.fam = 4
             /\ Matches(p, errors(t)) => p.iface = t /\ p.fam = 4 /\ p.proto = "icmp" /\ p.lport = 3
  BY DEF Matches, Permit, Block
<1>5. \A t : ~Matches(p, errors6(t))
  <2>1. ASSUME NEW t, Matches(p, errors6(t)) PROVE p.proto = "icmp" /\ p.lport \in {1, 2}
    BY <2>1 DEF Matches, Permit
  <2> QED BY <2>1 DEF IsIn
<1>6. Arbitrate(F, p)
  OBVIOUS
<1> HIDE DEF F, all, lo, dhcp, shut, errors, errors6, lan
<1>7. SUFFICES ASSUME ~MayComeUnasked(p) PROVE FALSE
  OBVIOUS
<1>8. ASSUME NEW f \in F, Matches(p, f)
      PROVE  \/ f \in {all, dhcp} \/ (conf.allow_lan /\ f = lan)
             \/ \E t \in conf.tunnels : f = shut(t) \/ f = errors(t)
  <2>1. f # lo /\ \A t : f # errors6(t)
    BY <1>3, <1>5, <1>8
  <2>2. f \in UNION {{shut(t), errors(t), errors6(t)} : t \in conf.tunnels}
          => \E t \in conf.tunnels : f \in {shut(t), errors(t), errors6(t)}
    OBVIOUS
  <2> DEFINE tunnels == UNION {{shut(t), errors(t), errors6(t)} : t \in conf.tunnels}
  <2>3. f \in {all, lo, dhcp} \/ f \in tunnels \/ (conf.allow_lan /\ f = lan)
    <3>1. F = {all, lo, dhcp} \cup tunnels \cup (IF conf.allow_lan THEN {lan} ELSE {})
      BY <1>1
    <3> HIDE DEF tunnels
    <3> QED BY <1>8, <3>1
  <2>4. f \in tunnels => \E t \in conf.tunnels : f = shut(t) \/ f = errors(t)
    BY <2>1, <2>2
  <2> HIDE DEF tunnels
  <2> QED BY <2>1, <2>3, <2>4
\* A tunnel's: only its errors weigh more than the filter that shuts it.
<1>9. CASE p.iface \in conf.tunnels
  <2>1. ASSUME NEW t \in conf.tunnels, Matches(p, errors(t)) PROVE FALSE
    <3>1. p.proto = "icmp" /\ p.lport = 3
      BY <1>4, <2>1
    <3> QED BY <1>7, <1>9, <3>1 DEF MayComeUnasked
  <2>2. CASE p.fam = 4
    <3>1. shut(p.iface) \in F /\ Matches(p, shut(p.iface))
      <4>1. shut(p.iface) \in UNION {{shut(t), errors(t), errors6(t)} : t \in conf.tunnels}
        BY <1>9
      <4> QED BY <1>1, <1>4, <2>2, <4>1
    <3>2. \A f \in F : Matches(p, f) => f.weight <= shut(p.iface).weight
      BY <1>2, <1>8, <2>1
    <3> QED BY <1>2, <1>6, <3>1, <3>2, HeaviestBlocks
  <2>3. CASE p.fam # 4
    <3>1. \A f \in F : Matches(p, f) => f = all
      BY <1>3, <1>4, <1>8, <2>3
    <3>2. all \in F /\ \A f \in F : Matches(p, f) => f.weight <= all.weight
      BY <1>1, <1>2, <3>1
    <3> QED BY <1>2, <1>3, <1>6, <3>2, HeaviestBlocks
  <2> QED BY <2>2, <2>3
\* Another's: DHCP and the local network, if it is allowed.
<1>10. CASE p.iface \notin conf.tunnels
  <2>1. ~Matches(p, dhcp) /\ ~(conf.allow_lan /\ Matches(p, lan))
    BY <1>3, <1>7, <1>10 DEF MayComeUnasked
  <2>2. \A f \in F : Matches(p, f) => f = all
    BY <1>4, <1>8, <1>10, <2>1
  <2>3. all \in F /\ \A f \in F : Matches(p, f) => f.weight <= all.weight
    BY <1>1, <1>2, <2>2
  <2> QED BY <1>2, <1>3, <1>6, <2>3, HeaviestBlocks
<1> QED BY <1>9, <1>10

-----------------------------------------------------------------------------
(* The rules in force are those of the configuration they were made for.     *)
KsInv ==
  /\ os \in {"linux", "windows"} /\ up \subseteq {"outer", "inner"}
  /\ conf # NoConf =>
       /\ IsConf(conf)
       /\ os = "linux" => rules = nft_rules(conf)
       /\ os = "windows" => /\ rules = Filters(conf)
                            /\ \A i \in DOMAIN conf.nodes : conf.nodes[i].fam = 4
                            /\ \A i \in DOMAIN conf.direct : conf.direct[i].fam = 4

LEMMA KsInitInv == KsInit => KsInv
BY DEF KsInit, KsInv

\* A transaction of a configuration whose tunnels are up.
LEMMA InstallKeeps ==
  ASSUME KsInv, NEW c, IsConf(c), Allow(c).tunnels \subseteq up, Install(c)
  PROVE  KsInv'
<1>1. os' = os /\ up' = up
  BY DEF Install
<1>2. CASE os = "linux" /\ rules' = nft_rules(c) /\ conf' = c
  BY <1>1, <1>2 DEF KsInv
<1>3. CASE os = "windows" /\ ~install_fails(Allow(c)) /\ rules' = install(Allow(c)) /\ conf' = c
  <2>1. rules' = Filters(c)
    BY <1>3, InstalledFilters
  <2>2. Allow(c).nodes = c.nodes /\ Allow(c).direct_tcp = c.direct
    BY AskedOfInstall
  <2>3. /\ \A i \in DOMAIN c.nodes : c.nodes[i].fam = 4
        /\ \A i \in DOMAIN c.direct : c.direct[i].fam = 4
    BY <1>3, <2>2 DEF install_fails
  <2> QED BY <1>1, <1>3, <2>1, <2>3 DEF KsInv
<1>4. CASE UNCHANGED <<rules, conf>>
  BY <1>1, <1>4 DEF KsInv
<1> QED BY <1>2, <1>3, <1>4 DEF Install

LEMMA KsStep == KsInv /\ [KsNext]_ksVars => KsInv'
<1> SUFFICES ASSUME KsInv, [KsNext]_ksVars PROVE KsInv'
  OBVIOUS
<1>1. CASE apply
  <2>1. PICK n \in Nodes, h \in {1, 2}, lan \in BOOLEAN, six \in BOOLEAN :
          /\ (IF h = 2 THEN {"outer", "inner"} ELSE {"outer"}) \subseteq up
          /\ Install([Base EXCEPT !.mode = "apply", !.nodes = <<n>>, !.hops = h, !.allow_lan = lan, !.ipv6 = six,
                                  !.tunnels = IF h = 2 THEN {"outer", "inner"} ELSE {"outer"}])
    BY <1>1 DEF apply
  <2> DEFINE c == [Base EXCEPT !.mode = "apply", !.nodes = <<n>>, !.hops = h, !.allow_lan = lan, !.ipv6 = six,
                               !.tunnels = IF h = 2 THEN {"outer", "inner"} ELSE {"outer"}]
  <2>2. /\ c.mode = "apply" /\ c.nodes = <<n>> /\ c.hops = h /\ c.allow_lan = lan /\ c.ipv6 = six
        /\ c.direct = << >> /\ c.bridge = FALSE
        /\ c.tunnels = IF h = 2 THEN {"outer", "inner"} ELSE {"outer"}
    BY DEF Base
  <2> HIDE DEF c
  <2>3. IsConf(c)
    BY <2>2 DEF IsConf
  <2>4. Allow(c).tunnels \cup {x.iface : x \in Allow(c).peered} = c.tunnels
    BY <2>3, AskedOfInstall
  <2> QED BY <2>1, <2>2, <2>3, <2>4, InstallKeeps DEF c
<1>2. CASE hold
  <2>1. PICK n \in Nodes, m \in Nodes : Install([Base EXCEPT !.nodes = IF n = m THEN <<n>> ELSE <<n, m>>])
    BY <1>2 DEF hold
  <2> DEFINE c == [Base EXCEPT !.nodes = IF n = m THEN <<n>> ELSE <<n, m>>]
  <2>2. /\ c.mode = "hold" /\ c.nodes \in {<<n>>, <<n, m>>} /\ c.hops = 0 /\ c.allow_lan = FALSE
        /\ c.ipv6 = FALSE /\ c.direct = << >> /\ c.bridge = FALSE /\ c.tunnels = {}
    BY DEF Base
  <2> HIDE DEF c
  <2>3. IsConf(c)
    BY <2>2 DEF IsConf
  <2>4. Allow(c).tunnels \subseteq up
    BY <2>2, <2>3, AskedOfInstall
  <2> QED BY <2>1, <2>3, <2>4, InstallKeeps DEF c
<1>3. CASE hold_admitting
  <2>1. PICK n \in Nodes, a \in Admissions, b \in BOOLEAN :
          Install([Base EXCEPT !.mode = "admitting", !.nodes = <<n>>, !.direct = <<a>>, !.bridge = b,
                               !.tunnels = IF b THEN {"outer"} ELSE {}])
    BY <1>3 DEF hold_admitting
  <2> DEFINE c == [Base EXCEPT !.mode = "admitting", !.nodes = <<n>>, !.direct = <<a>>, !.bridge = b,
                               !.tunnels = IF b THEN {"outer"} ELSE {}]
  <2>2. /\ c.mode = "admitting" /\ c.nodes = <<n>> /\ c.hops = 0 /\ c.allow_lan = FALSE /\ c.ipv6 = FALSE
        /\ c.direct = <<a>> /\ c.bridge = b /\ c.tunnels = IF b THEN {"outer"} ELSE {}
    BY DEF Base
  <2> HIDE DEF c
  <2>3. IsConf(c)
    BY <2>2 DEF IsConf
  <2>4. Allow(c).tunnels \subseteq up
    BY <2>2, <2>3, AskedOfInstall
  <2> QED BY <2>1, <2>3, <2>4, InstallKeeps DEF c
<1>4. CASE remove
  BY <1>4 DEF remove, KsInv
<1>5. CASE TunnelComes
  BY <1>5 DEF TunnelComes, KsInv
<1>6. CASE TunnelGoes
  BY <1>6 DEF TunnelGoes, KsInv
<1>7. CASE UNCHANGED ksVars
  BY <1>7 DEF ksVars, KsInv
<1> QED BY <1>1, <1>2, <1>3, <1>4, <1>5, <1>6, <1>7 DEF KsNext

\* The rules of a configuration let through what they promise.
LEMMA RulesKeep == KsInv => KillSwitchKeeps
<1> SUFFICES ASSUME KsInv, conf # NoConf
             PROVE  /\ \A p \in Outgoing : p.local \in Locals(p.iface, p.fam) =>
                          (Passes(p) => MayLeave(p)) /\ (MustLeave(p) => Passes(p))
                    /\ \A p \in Incoming : p.ct = "new" /\ Passes(p) => MayComeUnasked(p)
                    /\ is_active
  BY DEF KillSwitchKeeps
<1>0. IsConf(conf) /\ os \in {"linux", "windows"} /\ conf.mode \in {"apply", "hold", "admitting"}
  BY DEF KsInv, IsConf
<1>1. Ifaces \subseteq {"phys", "outer", "inner"}
  BY DEF Ifaces, KsInv
<1>2. os = "linux" => rules = CASE conf.mode = "apply" -> ruleset(conf)
                                [] conf.mode = "hold" -> hold_ruleset(conf.nodes)
                                [] conf.mode = "admitting" -> admitting_ruleset(conf)
  BY DEF KsInv, nft_rules
<1>3. os = "windows" => /\ rules = Filters(conf)
                        /\ \A i \in DOMAIN conf.nodes : conf.nodes[i].fam = 4
                        /\ \A i \in DOMAIN conf.direct : conf.direct[i].fam = 4
  BY DEF KsInv
<1>4. ASSUME NEW p \in Outgoing, p.local \in Locals(p.iface, p.fam)
      PROVE  (Passes(p) => MayLeave(p)) /\ (MustLeave(p) => Passes(p))
  <2>1. IsOut(p) /\ p.dir = "out"
    BY <1>1 DEF Outgoing, Packet, IsOut
  <2>2. CASE os = "linux"
    <3>1. Passes(p) <=> FirstMatch(rules.out, p)
      BY <2>1, <2>2 DEF Passes
    <3>2. CASE conf.mode = "apply"
      <4>1. rules = ruleset(conf)
        BY <1>2, <2>2, <3>2
      <4> QED BY <1>0, <1>4, <2>1, <2>2, <3>1, <3>2, <4>1, ApplyOut
    <3>3. CASE conf.mode = "hold"
      <4>1. rules = hold_ruleset(conf.nodes)
        BY <1>2, <2>2, <3>3
      <4> QED BY <1>0, <2>1, <2>2, <3>1, <3>3, <4>1, HoldOut
    <3>4. CASE conf.mode = "admitting"
      <4>1. rules = admitting_ruleset(conf)
        BY <1>2, <2>2, <3>4
      <4> QED BY <1>0, <1>4, <2>1, <2>2, <3>1, <3>4, <4>1, AdmittingOut
    <3> QED BY <1>0, <3>2, <3>3, <3>4
  <2>3. CASE os = "windows"
    <3>1. Passes(p) <=> Arbitrate(Filters(conf).out, p)
      BY <1>3, <2>1, <2>3 DEF Passes
    <3> QED BY <1>0, <1>3, <1>4, <2>1, <2>3, <3>1, WindowsOut
  <2> QED BY <1>0, <2>2, <2>3
<1>5. ASSUME NEW p \in Incoming, p.ct = "new", Passes(p)
      PROVE  MayComeUnasked(p)
  <2>1. IsIn(p) /\ p.dir = "in"
    <3>1. CASE p \in {Packet("in", i, f, "phys4", r, pr, po, c) :
               i \in Ifaces, f \in {4, 6}, r \in Remotes, pr \in {"udp", "tcp"}, po \in Ports,
               c \in {"new", "established"}}
      BY <1>1, <1>5, <3>1 DEF Packet, IsIn
    <3>2. CASE p \in {Packet("in", i, f, "phys4", r, "icmp", po, c) :
               i \in Ifaces, f \in {4, 6}, r \in Remotes, po \in {<<3, 0>>, <<8, 0>>}, c \in {"new", "related"}}
      BY <1>1, <1>5, <3>2 DEF Packet, IsIn
    <3> QED BY <3>1, <3>2 DEF Incoming
  <2>2. CASE os = "linux"
    <3>1. FirstMatch(rules.in, p)
      BY <1>5, <2>1, <2>2 DEF Passes
    <3>2. CASE conf.mode = "apply"
      <4>1. rules = ruleset(conf)
        BY <1>2, <2>2, <3>2
      <4> QED BY <1>0, <2>1, <2>2, <3>1, <3>2, <4>1, ApplyIn
    <3>3. CASE conf.mode = "hold"
      <4>1. rules = hold_ruleset(conf.nodes)
        BY <1>2, <2>2, <3>3
      <4> QED BY <1>0, <2>1, <2>2, <3>1, <3>3, <4>1, HoldsIn
    <3>4. CASE conf.mode = "admitting"
      <4>1. rules = admitting_ruleset(conf)
        BY <1>2, <2>2, <3>4
      <4> QED BY <1>0, <2>1, <2>2, <3>1, <3>4, <4>1, HoldsIn
    <3> QED BY <1>0, <3>2, <3>3, <3>4
  <2>3. CASE os = "windows"
    <3>1. Arbitrate(Filters(conf).in, p)
      BY <1>3, <1>5, <2>1, <2>3 DEF Passes
    <3> QED BY <1>0, <2>1, <2>3, <3>1, WindowsIn
  <2> QED BY <1>0, <2>2, <2>3
<1> QED BY <1>4, <1>5 DEF is_active

\* Under any rules that the client has in force, on Linux and on Windows, only
\* what the mode names leaves, nothing enters a tunnel unasked, and the tunnel's
\* own packets pass.
THEOREM KillSwitchHolds == KsSpec => []KillSwitchKeeps
<1>1. KsSpec => []KsInv
  BY KsInitInv, KsStep, PTL DEF KsSpec
<1> QED BY <1>1, RulesKeep, PTL

\* Both promises of the client to its machine.
THEOREM HostIsSound == HostSpec => []HostSound
PROOF
<1>1. HostSpec => KsSpec /\ NetSpec
  BY DEF HostSpec
<1>2. HostSound <=> KillSwitchKeeps /\ PutBack
  BY DEF HostSound
<1> QED BY <1>1, <1>2, KillSwitchHolds, PutBackHolds, PTL
-----------------------------------------------------------------------------
(* The pocket.                                                               *)

SlotInvites == [NodeKeys -> Invites \cup {NoInvite}]
Pockets == [entry : SlotInvites, exit : SlotInvites, known : SlotInvites, sequence : Nat, issuer : Nat]

Apart(p) == known_keys(p) \cap admitted(p) = {}

LEMMA PocketKeys ==
  ASSUME NEW p
  PROVE  /\ \A k : k \in admitted(p) <=> (k \in NodeKeys /\ (p.entry[k] # NoInvite \/ p.exit[k] # NoInvite))
         /\ \A k : k \in known_keys(p) <=> (k \in NodeKeys /\ p.known[k] # NoInvite)
BY DEF admitted, known_keys, Slots

\* Pockets with the same slots admit the same nodes, with the same records know
\* the same.
LEMMA SameSlots ==
  ASSUME NEW p, NEW q
  PROVE  /\ q.entry = p.entry /\ q.exit = p.exit => admitted(q) = admitted(p)
         /\ q.known = p.known => known_keys(q) = known_keys(p)
<1>1. q.entry = p.entry /\ q.exit = p.exit => \A s \in Slots : q[s] = p[s]
  BY DEF Slots
<1> QED BY <1>1 DEF admitted, known_keys

LEMMA InvitesTyped ==
  /\ NoInvite \notin Invites
  /\ \A r \in ListRecord, b \in BOOLEAN : as_invite(r, b) \in Invites
  /\ \A r \in ListRecord : r.key \in NodeKeys
BY PocketConstants DEF Invites, ListRecord, as_invite

\* A record that is learnt is known, and nothing else changes.
LEMMA LearnKeeps ==
  ASSUME NEW p \in Pockets, Apart(p), NEW r \in ListRecord, can_learn(p, r)
  PROVE  learn(p, r) \in Pockets /\ Apart(learn(p, r)) /\ admitted(learn(p, r)) = admitted(p)
<1> DEFINE q == learn(p, r)
           k == r.key
           inv == as_invite(r, FALSE)
<1>1. inv \in Invites /\ inv # NoInvite /\ k \in NodeKeys
  BY InvitesTyped
<1> HIDE DEF k, inv
<1>2. q = [p EXCEPT !.known = [p.known EXCEPT ![k] = inv]]
  BY DEF learn, k, inv
<1>3. q \in Pockets /\ q.entry = p.entry /\ q.exit = p.exit /\ q.known = [p.known EXCEPT ![k] = inv] /\ p.known \in SlotInvites
  BY <1>1, <1>2 DEF Pockets, SlotInvites
<1> HIDE DEF q
<1>4. k \notin admitted(p)
  BY DEF can_learn, k
<1>5. admitted(q) = admitted(p)
  BY <1>3, SameSlots
<1>6. \A j \in known_keys(q) : j = k \/ j \in known_keys(p)
  BY <1>3, PocketKeys DEF SlotInvites
<1>7. Apart(q)
  BY <1>4, <1>5, <1>6 DEF Apart
<1> QED BY <1>3, <1>5, <1>7 DEF q

\* A record that is refreshed was known or is an invite, and stays what it was:
\* whatever the role becomes, some slot keeps the invite.
LEMMA RefreshKeeps ==
  ASSUME NEW p \in Pockets, Apart(p), NEW r \in ListRecord, ~can_learn(p, r)
  PROVE  refresh(p, r) \in Pockets /\ Apart(refresh(p, r)) /\ admitted(refresh(p, r)) = admitted(p)
<1> DEFINE q == refresh(p, r)
           k == r.key
           inv == as_invite(r, FALSE)
           name(i) == IF named(p, r.name) \subseteq {k} THEN r.name ELSE i.name
           newer(i) == [i EXCEPT !.facts = r.facts, !.role = r.role, !.admission = r.admission, !.name = name(i)]
           filled == newer(IF p.entry[k] # NoInvite THEN p.entry[k] ELSE p.exit[k])
           slot(s) == IF r.role = "none" THEN IF p[s][k] = NoInvite THEN NoInvite ELSE newer(p[s][k])
                      ELSE IF s \notin slots_for_role(r.role) THEN NoInvite
                      ELSE IF p[s][k] = NoInvite THEN filled ELSE newer(p[s][k])
<1>1. inv \in Invites /\ inv # NoInvite /\ k \in NodeKeys /\ NoInvite \notin Invites
  BY InvitesTyped
<1>2. p.known \in SlotInvites /\ p.entry \in SlotInvites /\ p.exit \in SlotInvites
  BY DEF Pockets
<1>3. k \in known_keys(p) \/ k \in admitted(p)
  BY DEF can_learn
<1>4. CASE p.known[k] # NoInvite
  <2>1. q = [p EXCEPT !.known = [p.known EXCEPT ![k] = inv]]
    BY <1>4 DEF refresh
  <2> HIDE DEF k, inv, q
  <2>2. q \in Pockets /\ q.entry = p.entry /\ q.exit = p.exit /\ q.known = [p.known EXCEPT ![k] = inv]
    BY <1>1, <2>1 DEF Pockets, SlotInvites
  <2>3. admitted(q) = admitted(p)
    BY <2>2, SameSlots
  <2>4. known_keys(q) = known_keys(p)
    <3>1. ASSUME NEW j \in NodeKeys PROVE j \in known_keys(q) <=> j \in known_keys(p)
      BY <1>1, <1>2, <1>4, <2>2, PocketKeys DEF SlotInvites, k
    <3> QED BY <3>1 DEF known_keys
  <2> QED BY <2>2, <2>3, <2>4 DEF Apart, q
<1>5. CASE p.known[k] = NoInvite
  <2>1. ASSUME NEW i \in Invites PROVE newer(i) \in Invites /\ newer(i) # NoInvite
    <3>1. name(i) \in NodeNames
      BY DEF Invites, ListRecord
    <3>2. newer(i) \in Invites
      BY <3>1 DEF Invites, ListRecord
    <3> QED BY <1>1, <3>2
  <2>2. k \in admitted(p) /\ (p.entry[k] # NoInvite \/ p.exit[k] # NoInvite)
    BY <1>3, <1>5, PocketKeys
  <2>3. p.entry[k] \in Invites \cup {NoInvite} /\ p.exit[k] \in Invites \cup {NoInvite}
    BY <1>1, <1>2 DEF SlotInvites
  <2>4. q = [p EXCEPT !.entry[k] = slot("entry"), !.exit[k] = slot("exit")]
    BY <1>5 DEF refresh
  <2> HIDE DEF newer, q, k
  <2>5. filled \in Invites /\ filled # NoInvite
    BY <2>1, <2>2, <2>3
  <2> HIDE DEF filled
  <2>6. slot("entry") \in Invites \cup {NoInvite} /\ slot("exit") \in Invites \cup {NoInvite}
    BY <2>1, <2>3, <2>5
  <2>7. slot("entry") # NoInvite \/ slot("exit") # NoInvite
    <3>1. CASE r.role = "none"
      BY <2>1, <2>2, <2>3, <3>1
    <3>2. CASE r.role # "none"
      <4>1. "entry" \in slots_for_role(r.role) \/ "exit" \in slots_for_role(r.role)
        BY DEF slots_for_role, Slots
      <4> QED BY <2>1, <2>3, <2>5, <3>2, <4>1
    <3> QED BY <3>1, <3>2
  <2> DEFINE e == slot("entry")
             x == slot("exit")
  <2>8. q = [p EXCEPT !.entry[k] = e, !.exit[k] = x]
    BY <2>4
  <2> HIDE DEF slot, e, x
  <2>9. e \in Invites \cup {NoInvite} /\ x \in Invites \cup {NoInvite} /\ (e # NoInvite \/ x # NoInvite)
    BY <2>6, <2>7 DEF e, x
  <2>10. /\ q \in Pockets /\ q.known = p.known /\ q.entry = [p.entry EXCEPT ![k] = e] /\ q.exit = [p.exit EXCEPT ![k] = x]
    BY <1>1, <2>8, <2>9 DEF Pockets, SlotInvites
  <2>11. admitted(q) = admitted(p)
    <3>1. ASSUME NEW j \in NodeKeys PROVE j \in admitted(q) <=> j \in admitted(p)
      <4>1. CASE j = k
        BY <1>1, <1>2, <2>2, <2>9, <2>10, <4>1, PocketKeys DEF SlotInvites
      <4>2. CASE j # k
        BY <1>2, <2>10, <4>2, PocketKeys DEF SlotInvites
      <4> QED BY <4>1, <4>2
    <3> QED BY <3>1 DEF admitted
  <2>12. known_keys(q) = known_keys(p)
    BY <2>10, SameSlots
  <2> QED BY <2>10, <2>11, <2>12 DEF Apart, q
<1> QED BY <1>4, <1>5

\* Nodes taken out are neither admitted nor known any more.
LEMMA RemoveKeeps ==
  ASSUME NEW p \in Pockets, NEW ks
  PROVE  LET q == remove_by_key(p, ks)
         IN  q \in Pockets /\ admitted(q) = admitted(p) \ ks /\ known_keys(q) = known_keys(p) \ ks
<1> DEFINE q == remove_by_key(p, ks)
           without(f) == [k \in NodeKeys |-> IF k \in ks THEN NoInvite ELSE f[k]]
<1>1. p.known \in SlotInvites /\ p.entry \in SlotInvites /\ p.exit \in SlotInvites
  BY DEF Pockets
<1>2. q = [p EXCEPT !.entry = without(p.entry), !.exit = without(p.exit), !.known = without(p.known)]
  BY DEF remove_by_key
<1>3. without(p.entry) \in SlotInvites /\ without(p.exit) \in SlotInvites /\ without(p.known) \in SlotInvites
  BY <1>1 DEF SlotInvites
<1> HIDE DEF q
<1>4. q \in Pockets /\ q.entry = without(p.entry) /\ q.exit = without(p.exit) /\ q.known = without(p.known)
  <2> HIDE DEF without
  <2> QED BY <1>2, <1>3 DEF Pockets
<1> QED BY <1>4, PocketKeys DEF q

\* Taking in one record keeps who is admitted.
LEMMA RecordKeeps ==
  ASSUME NEW l, NEW newer, NEW p \in Pockets, Apart(p), NEW r \in ListRecord
  PROVE  LET q == merge_record(l, newer, p, r) IN q \in Pockets /\ Apart(q) /\ admitted(q) = admitted(p)
BY LearnKeeps, RefreshKeeps DEF merge_record

\* The function by which the fold goes through the records of a list.
Merging(l, newer, base, it, s) ==
  IF s = {} THEN base ELSE merge_record(l, newer, it[s \ {Max(s)}], l.nodes[Max(s)])
Merges(l, newer, base, it) == it = [s \in SUBSET DOMAIN l.nodes |-> Merging(l, newer, base, it, s)]

LEMMA MergeIsFold ==
  ASSUME NEW l, NEW p
  PROVE  merge_into(l, p) =
           [(CHOOSE it : Merges(l, l.sequence > p.sequence, remove_by_key(p, l.removed), it))[DOMAIN l.nodes]
              EXCEPT !.sequence = l.sequence, !.issuer = l.sequence]
BY DEF merge_into, FoldLeft, MapThenFoldSet, Merges, Merging

\* There is such a function: up to each size, one that is right up to it.
LEMMA MergeExists ==
  ASSUME NEW l, l.nodes \in Seq(ListRecord), NEW newer, NEW base
  PROVE  \E it : Merges(l, newer, base, it)
<1> DEFINE S == DOMAIN l.nodes
           Without(s) == s \ {Max(s)}
           Filled(g, s) == Merging(l, newer, base, g, s)
           UpTo(n, g) == \A s \in SUBSET S : Cardinality(s) <= n => g[s] = Filled(g, s)
           Bad == {n \in Nat : ~(\E g : UpTo(n, g))}
<1>s. Len(l.nodes) \in Nat /\ S = 1..Len(l.nodes) /\ IsFiniteSet(S)
  <2>1. \A n \in Nat : IsFiniteSet(1..n)
    BY FS_Interval
  <2> QED BY <2>1, LenProperties
<1>f. \A s \in SUBSET S : IsFiniteSet(s) /\ Cardinality(s) \in Nat
  BY <1>s, FS_Subset, FS_CardinalityType
<1>r. ASSUME NEW s \in SUBSET S, s # {}
      PROVE  Without(s) \in SUBSET S /\ Cardinality(Without(s)) = Cardinality(s) - 1 /\ Cardinality(s) # 0
  <2>1. Max(s) \in s
    BY <1>s, <1>r, GreatestUpTo
  <2>2. Cardinality(Without(s)) = Cardinality(s) - 1
    BY <1>f, <2>1, FS_RemoveElement
  <2>3. Without(s) \in SUBSET S
    OBVIOUS
  <2>4. Cardinality(Without(s)) \in Nat /\ Cardinality(s) \in Nat
    BY <1>f, <2>3
  <2> QED BY <2>2, <2>3, <2>4
<1>e. \A g : Filled(g, {}) = base
  BY DEF Merging
<1>m. \A g, h : \A s : s # {} /\ g[Without(s)] = h[Without(s)] => Filled(g, s) = Filled(h, s)
  BY DEF Merging
<1> HIDE DEF S, Without, Filled
<1>1. Bad = {}
  <2> SUFFICES ASSUME Bad # {} PROVE FALSE
    OBVIOUS
  <2>1. PICK n \in Bad : \A m \in Bad : n <= m
    BY LeastNumber
  <2>2. n # 0
    <3> DEFINE z == [s \in SUBSET S |-> base]
    <3>1. ASSUME NEW s \in SUBSET S, Cardinality(s) <= 0 PROVE z[s] = Filled(z, s)
      <4>1. s = {}
        BY <3>1, <1>r, <1>f
      <4> QED BY <1>e, <4>1
    <3>2. UpTo(0, z)
      BY <3>1
    <3> QED BY <3>2
  <2>3. PICK g : UpTo(n - 1, g)
    BY <2>1, <2>2
  <2> DEFINE h == [s \in SUBSET S |-> IF Cardinality(s) <= n - 1 THEN g[s] ELSE Filled(g, s)]
  <2>4. ASSUME NEW s \in SUBSET S, Cardinality(s) <= n PROVE h[s] = Filled(h, s)
    <3>1. CASE s = {}
      <4>1. Cardinality(s) = 0 /\ n - 1 >= 0
        BY <3>1, <2>2, FS_EmptySet
      <4>2. h[s] = g[s] /\ g[s] = Filled(g, s)
        BY <4>1, <2>3
      <4> QED BY <4>2, <3>1, <1>e
    <3>2. CASE s # {}
      <4>1. Without(s) \in SUBSET S /\ Cardinality(Without(s)) = Cardinality(s) - 1 /\ Cardinality(s) \in Nat
        BY <3>2, <1>r, <1>f
      <4>2. Cardinality(Without(s)) <= n - 1
        BY <4>1, <2>4
      <4>3. h[Without(s)] = g[Without(s)]
        BY <4>1, <4>2
      <4>4. h[s] = Filled(g, s)
        <5>1. CASE Cardinality(s) <= n - 1
          BY <5>1, <2>3
        <5>2. CASE ~(Cardinality(s) <= n - 1)
          BY <5>2
        <5> QED BY <5>1, <5>2
      <4> HIDE DEF h
      <4> QED BY <4>3, <4>4, <3>2, <1>m
    <3> QED BY <3>1, <3>2
  <2> HIDE DEF h
  <2>5. UpTo(n, h)
    BY <2>4
  <2> QED BY <2>1, <2>5
<1>2. Cardinality(S) \in Nat
  BY <1>f
<1>3. PICK g : UpTo(Cardinality(S), g)
  BY <1>1, <1>2
<1> DEFINE it == [s \in SUBSET S |-> g[s]]
<1>4. ASSUME NEW s \in SUBSET S PROVE it[s] = Filled(it, s)
  <2>1. Cardinality(s) <= Cardinality(S)
    BY <1>s, FS_Subset
  <2>2. g[s] = Filled(g, s)
    BY <2>1, <1>3
  <2>3. CASE s = {}
    BY <2>2, <2>3, <1>e
  <2>4. CASE s # {}
    <3>1. it[Without(s)] = g[Without(s)]
      BY <2>4, <1>r
    <3>2. it[s] = g[s]
      OBVIOUS
    <3> HIDE DEF it
    <3> QED BY <2>2, <2>4, <3>1, <3>2, <1>m
  <2> QED BY <2>3, <2>4
<1>5. it = [s \in SUBSET S |-> Filled(it, s)]
  BY <1>4
<1> HIDE DEF it
<1> QED BY <1>5 DEF Merges, S, Filled

\* Taking in a list admits nobody, and takes away nobody it does not name as
\* removed: there is no smallest part of it after which this would fail.
LEMMA MergeKeeps ==
  ASSUME NEW l \in Lists, NEW p \in Pockets, Apart(p)
  PROVE  LET q == merge_into(l, p) IN q \in Pockets /\ Apart(q) /\ admitted(q) = admitted(p) \ l.removed
<1> DEFINE base == remove_by_key(p, l.removed)
           newer == l.sequence > p.sequence
           S == DOMAIN l.nodes
           Kept(q) == q \in Pockets /\ Apart(q) /\ admitted(q) = admitted(base)
<1>1. l.nodes \in Seq(ListRecord) /\ l.sequence \in Nat
  BY PocketConstants
<1>s. Len(l.nodes) \in Nat /\ S = 1..Len(l.nodes) /\ \A i \in S : l.nodes[i] \in ListRecord
  BY <1>1, LenProperties, ElementOfSeq
<1>2. /\ base \in Pockets /\ admitted(base) = admitted(p) \ l.removed
      /\ known_keys(base) = known_keys(p) \ l.removed
  BY RemoveKeeps
<1>3. Kept(base)
  BY <1>2 DEF Apart
<1> HIDE DEF base, newer
<1> DEFINE it == CHOOSE f : Merges(l, newer, base, f)
<1>4. Merges(l, newer, base, it)
  BY <1>1, MergeExists
<1>5. merge_into(l, p) = [it[S] EXCEPT !.sequence = l.sequence, !.issuer = l.sequence]
  BY MergeIsFold DEF base, newer
<1> HIDE DEF it
<1>6. \A s \in SUBSET S : it[s] = IF s = {} THEN base ELSE merge_record(l, newer, it[s \ {Max(s)}], l.nodes[Max(s)])
  BY <1>4 DEF Merges, Merging
<1> DEFINE Bad == {s \in SUBSET S : ~Kept(it[s])}
<1>7. Bad = {}
  <2> SUFFICES ASSUME Bad # {} PROVE FALSE
    OBVIOUS
  <2>1. IsFiniteSet(S)
    <3>1. \A n \in Nat : IsFiniteSet(1..n)
      BY FS_Interval
    <3> QED BY <1>s, <3>1
  <2>2. \A s \in SUBSET S : IsFiniteSet(s)
    BY <2>1, FS_Subset
  <2>3. PICK s \in Bad : \A u \in Bad : Cardinality(s) <= Cardinality(u)
    BY <2>2, SmallestSet
  <2>4. s \in SUBSET S /\ ~Kept(it[s])
    OBVIOUS
  <2>5. s # {}
    BY <1>3, <1>6, <2>4
  <2> DEFINE m == Max(s)
             u == s \ {m}
  <2>6. m \in s /\ m \in S
    BY <1>s, <2>4, <2>5, GreatestUpTo
  <2>7. u \in SUBSET S /\ Cardinality(u) = Cardinality(s) - 1 /\ Cardinality(s) \in Nat /\ Cardinality(u) \in Nat
    BY <2>2, <2>4, <2>6, FS_RemoveElement, FS_CardinalityType
  <2>8. it[s] = merge_record(l, newer, it[u], l.nodes[m])
    BY <1>6, <2>4, <2>5
  <2>9. l.nodes[m] \in ListRecord
    BY <1>s, <2>6
  <2> HIDE DEF m, u
  <2>10. Kept(it[u])
    <3>1. u \notin Bad
      BY <2>3, <2>7
    <3> QED BY <2>7, <3>1
  <2> DEFINE q == it[u]
             r == l.nodes[m]
  <2> HIDE DEF q, r
  <2>11. q \in Pockets /\ Apart(q) /\ admitted(q) = admitted(base) /\ r \in ListRecord
    BY <2>9, <2>10 DEF q, r
  <2>12. Kept(merge_record(l, newer, q, r))
    BY <2>11, RecordKeeps
  <2> QED BY <2>4, <2>8, <2>12 DEF q, r
<1>8. Kept(it[S])
  BY <1>7
<1> DEFINE q == it[S]
           d == merge_into(l, p)
<1>9. q \in Pockets /\ Apart(q) /\ admitted(q) = admitted(base) /\ d = [q EXCEPT !.sequence = l.sequence, !.issuer = l.sequence]
  BY <1>5, <1>8
<1> HIDE DEF q, d
<1>10. d \in Pockets /\ d.entry = q.entry /\ d.exit = q.exit /\ d.known = q.known
  BY <1>1, <1>9 DEF Pockets
<1>11. admitted(d) = admitted(q) /\ known_keys(d) = known_keys(q)
  BY <1>10, SameSlots
<1> QED BY <1>2, <1>9, <1>10, <1>11 DEF Apart, d
\* An invite that is added, or refused, leaves no node both admitted and known.
LEMMA AddKeeps ==
  ASSUME NEW p \in Pockets, Apart(p), NEW slot \in Slots, NEW k \in NodeKeys, NEW inv \in Invites
  PROVE  add(p, slot, k, inv) \in Pockets /\ Apart(add(p, slot, k, inv))
<1> DEFINE q == add(p, slot, k, inv)
<1>1. CASE ~can_add(p, slot, k, inv)
  BY <1>1 DEF add
<1>2. CASE can_add(p, slot, k, inv)
  <2>1. p.known \in SlotInvites /\ p.entry \in SlotInvites /\ p.exit \in SlotInvites
    BY DEF Pockets
  <2>2. q = [p EXCEPT ![slot][k] = inv, !.known[k] = NoInvite]
    BY <1>2 DEF add
  <2>3. slot \in {"entry", "exit"}
    BY DEF Slots
  <2> HIDE DEF q
  <2>4. /\ q \in Pockets /\ q.known = [p.known EXCEPT ![k] = NoInvite]
        /\ q.entry = IF slot = "entry" THEN [p.entry EXCEPT ![k] = inv] ELSE p.entry
        /\ q.exit = IF slot = "exit" THEN [p.exit EXCEPT ![k] = inv] ELSE p.exit
    <3>1. CASE slot = "entry"
      BY <2>2, <3>1 DEF Pockets, SlotInvites
    <3>2. CASE slot = "exit"
      BY <2>2, <3>2 DEF Pockets, SlotInvites
    <3> QED BY <2>3, <3>1, <3>2
  <2>5. ASSUME NEW j \in NodeKeys PROVE ~(j \in known_keys(q) /\ j \in admitted(q))
    <3>1. CASE j = k
      BY <2>1, <2>4, <3>1, PocketKeys DEF SlotInvites
    <3>2. CASE j # k
      <4>1. j \in known_keys(q) <=> j \in known_keys(p)
        BY <2>1, <2>4, <3>2, PocketKeys DEF SlotInvites
      <4>2. j \in admitted(q) <=> j \in admitted(p)
        BY <2>1, <2>4, <3>2, PocketKeys DEF SlotInvites
      <4> QED BY <4>1, <4>2 DEF Apart
    <3> QED BY <3>1, <3>2
  <2>6. Apart(q)
    BY <2>5, PocketKeys DEF Apart
  <2> QED BY <2>4, <2>6 DEF q
<1> QED BY <1>1, <1>2

LEMMA AddAllKeeps ==
  ASSUME NEW p \in Pockets, Apart(p), NEW k \in NodeKeys, NEW inv \in Invites
  PROVE  add_all(p, k, inv) \in Pockets /\ Apart(add_all(p, k, inv))
BY AddKeeps DEF add_all, Slots

\* A node that is no longer known is only, if anything, admitted.
LEMMA ForgetKeeps ==
  ASSUME NEW p \in Pockets, Apart(p), NEW k \in NodeKeys
  PROVE  LET q == [p EXCEPT !.known[k] = NoInvite] IN q \in Pockets /\ Apart(q)
<1> DEFINE q == [p EXCEPT !.known[k] = NoInvite]
<1>1. p.known \in SlotInvites
  BY DEF Pockets
<1>2. q \in Pockets /\ q.entry = p.entry /\ q.exit = p.exit /\ q.known = [p.known EXCEPT ![k] = NoInvite]
  BY <1>1 DEF Pockets, SlotInvites
<1> HIDE DEF q
<1>3. admitted(q) = admitted(p)
  BY <1>2, SameSlots
<1>4. \A j \in known_keys(q) : j \in known_keys(p)
  BY <1>1, <1>2, PocketKeys DEF SlotInvites
<1>5. Apart(q)
  BY <1>3, <1>4 DEF Apart
<1> QED BY <1>2, <1>5 DEF q

\* An invite a pass won takes old places or new ones, and the record goes.
LEMMA ReplaceKeeps ==
  ASSUME NEW p \in Pockets, Apart(p), NEW k \in NodeKeys, NEW inv \in Invites
  PROVE  replace_invite(p, k, inv) \in Pockets /\ Apart(replace_invite(p, k, inv))
<1> DEFINE over == [p EXCEPT !.entry[k] = IF @ = NoInvite THEN @ ELSE inv,
                             !.exit[k] = IF @ = NoInvite THEN @ ELSE inv]
           q == IF k \in admitted(p) THEN over ELSE add_all(p, k, inv)
<1>1. over \in Pockets /\ Apart(over)
  <2>1. p.known \in SlotInvites /\ p.entry \in SlotInvites /\ p.exit \in SlotInvites
    BY DEF Pockets
  <2> DEFINE e == IF p.entry[k] = NoInvite THEN p.entry[k] ELSE inv
             x == IF p.exit[k] = NoInvite THEN p.exit[k] ELSE inv
  <2>2. over = [p EXCEPT !.entry[k] = e, !.exit[k] = x]
    OBVIOUS
  <2>3. /\ e \in Invites \cup {NoInvite} /\ x \in Invites \cup {NoInvite}
        /\ (e # NoInvite <=> p.entry[k] # NoInvite) /\ (x # NoInvite <=> p.exit[k] # NoInvite)
    BY <2>1, InvitesTyped DEF SlotInvites
  <2> HIDE DEF over, e, x
  <2>4. over \in Pockets /\ over.known = p.known /\ over.entry = [p.entry EXCEPT ![k] = e] /\ over.exit = [p.exit EXCEPT ![k] = x]
    BY <2>2, <2>3 DEF Pockets, SlotInvites
  <2>5. ASSUME NEW j \in NodeKeys PROVE j \in admitted(over) <=> j \in admitted(p)
    <3>1. CASE j = k
      BY <2>1, <2>3, <2>4, <3>1, PocketKeys DEF SlotInvites
    <3>2. CASE j # k
      BY <2>1, <2>4, <3>2, PocketKeys DEF SlotInvites
    <3> QED BY <3>1, <3>2
  <2>6. admitted(over) = admitted(p)
    BY <2>5 DEF admitted
  <2>7. known_keys(over) = known_keys(p)
    BY <2>4, SameSlots
  <2> QED BY <2>4, <2>6, <2>7 DEF Apart
<1>2. replace_invite(p, k, inv) = IF k \in admitted(q) THEN [q EXCEPT !.known[k] = NoInvite] ELSE q
  BY DEF replace_invite
<1> HIDE DEF over
<1>3. q \in Pockets /\ Apart(q)
  BY <1>1, AddAllKeeps
<1> HIDE DEF q
<1> QED BY <1>2, <1>3, ForgetKeeps
-----------------------------------------------------------------------------
\* What the pocket's steps keep: records and invites of their shape, in the
\* pocket and with the circuit, and no node both admitted and known.
PocketInv == pocket \in Pockets /\ pool \in SlotInvites /\ Apart(pocket)

LEMMA AskedKeeps ==
  ASSUME pocket \in Pockets
  PROVE  \A slot \in Slots : candidates(pocket, slot) \in SlotInvites
BY DEF Pockets, SlotInvites, candidates, Slots

\* The invite a circuit goes back to: the one a pass won before, or its own.
LEMMA KeptIsInvite ==
  ASSUME NEW p \in Pockets, NEW k \in NodeKeys, NEW inv \in Invites
  PROVE  as_kept(p, k, inv) \in Invites
<1> DEFINE kept == {p[s][k] : s \in {t \in Slots : p[t][k] # NoInvite /\ p[t][k].pass}}
<1>1. p.entry[k] \in Invites \cup {NoInvite} /\ p.exit[k] \in Invites \cup {NoInvite}
  BY DEF Pockets, SlotInvites
<1>2. \A i \in kept : i # NoInvite /\ (i = p.entry[k] \/ i = p.exit[k])
  BY DEF Slots
<1>3. as_kept(p, k, inv) = IF inv.pass /\ kept # {} THEN (IF p.entry[k] \in kept THEN p.entry[k] ELSE p.exit[k]) ELSE inv
  BY DEF as_kept
<1> HIDE DEF kept
<1>4. CASE inv.pass /\ kept # {}
  <2>1. CASE p.entry[k] \in kept
    BY <1>1, <1>2, <1>3, <1>4, <2>1
  <2>2. CASE p.entry[k] \notin kept
    <3>1. PICK i \in kept : i # NoInvite /\ (i = p.entry[k] \/ i = p.exit[k])
      BY <1>2, <1>4
    <3>2. p.exit[k] \in Invites
      BY <1>1, <3>1, <2>2
    <3> QED BY <1>3, <1>4, <2>2, <3>2
  <2> QED BY <2>1, <2>2
<1>5. CASE ~(inv.pass /\ kept # {})
  BY <1>3, <1>5
<1> QED BY <1>4, <1>5

LEMMA PocketStep ==
  ASSUME PocketInv, [PocketNext]_pocketVars
  PROVE  PocketInv'
<1>0. /\ pocket \in Pockets /\ pool \in SlotInvites /\ Apart(pocket)
  BY DEF PocketInv
<1>k. HandInvites \subseteq ListRecord
  BY PocketConstants
<1> SUFFICES pocket' \in Pockets /\ pool' \in SlotInvites /\ Apart(pocket')
  BY DEF PocketInv, Apart, known_keys, admitted
<1>1. ASSUME NEW l \in Lists, ImportNodes(l) PROVE pocket' \in Pockets /\ pool' \in SlotInvites /\ Apart(pocket')
  BY <1>0, <1>1, MergeKeeps DEF ImportNodes
<1>2. ASSUME NEW s \in Slots, NEW h \in HandInvites, AddByHand(s, h)
      PROVE  pocket' \in Pockets /\ pool' \in SlotInvites /\ Apart(pocket')
  <2>1. as_invite(h, FALSE) \in Invites /\ h.key \in NodeKeys
    BY <1>k, InvitesTyped
  <2>2. pocket' = add(pocket, s, h.key, as_invite(h, FALSE)) /\ pool' = pool
    BY <1>2 DEF AddByHand
  <2> QED BY <1>0, <2>1, <2>2, AddKeeps
<1>3. ASSUME NEW n \in NodeNames, RemoveNamed(n) PROVE pocket' \in Pockets /\ pool' \in SlotInvites /\ Apart(pocket')
  <2>1. PICK gone : pocket' = remove_by_key(pocket, gone) /\ pool' = pool
    BY <1>3 DEF RemoveNamed
  <2>2. pocket' \in Pockets /\ admitted(pocket') = admitted(pocket) \ gone /\ known_keys(pocket') = known_keys(pocket) \ gone
    BY <1>0, <2>1, RemoveKeeps
  <2> QED BY <1>0, <2>1, <2>2 DEF Apart
<1>4. ASSUME NEW k \in NodeKeys, JoinNode(k) PROVE pocket' \in Pockets /\ pool' \in SlotInvites /\ Apart(pocket')
  <2> DEFINE inv == [pocket.known[k] EXCEPT !.pass = @ \/ pocket.known[k].admission = "pass"]
  <2>1. k \in known_keys(pocket)
    BY <1>4 DEF JoinNode, join_targets, joinable
  <2>2. pocket.known[k] \in Invites
    BY <1>0, <2>1, PocketKeys DEF Pockets, SlotInvites
  <2>3. inv \in Invites
    BY <2>2 DEF Invites
  <2>4. pocket' = (IF inv.pass THEN replace_invite(pocket, k, inv) ELSE add_all(pocket, k, inv)) /\ pool' = pool
    BY <1>4 DEF JoinNode
  <2> HIDE DEF inv
  <2> QED BY <1>0, <2>3, <2>4, ReplaceKeeps, AddAllKeeps
<1>5. ASSUME NEW k \in NodeKeys, WinInvite(k) PROVE pocket' \in Pockets /\ pool' \in SlotInvites /\ Apart(pocket')
  <2> DEFINE old == as_kept(pocket, k, pool[k])
             inv == [old EXCEPT !.pass = TRUE]
  <2>1. pool[k] \in Invites
    BY <1>0, <1>5 DEF WinInvite, SlotInvites
  <2>2. old \in Invites
    BY <1>0, <2>1, KeptIsInvite
  <2>3. pocket' = replace_invite(pocket, k, inv) /\ pool' = pool
    BY <1>5 DEF WinInvite
  <2> HIDE DEF old
  <2>4. inv \in Invites
    BY <2>2 DEF Invites
  <2> HIDE DEF inv
  <2> QED BY <1>0, <2>3, <2>4, ReplaceKeeps
<1>6. CASE PlanCircuit
  BY <1>0, <1>6, AskedKeeps DEF PlanCircuit, Slots
<1>7. CASE UNCHANGED pocketVars
  BY <1>0, <1>7 DEF pocketVars
<1> QED BY <1>1, <1>2, <1>3, <1>4, <1>5, <1>6, <1>7 DEF PocketNext

LEMMA PocketBegins == PocketInit => PocketInv
<1> SUFFICES ASSUME PocketInit PROVE PocketInv
  OBVIOUS
<1>1. pocket \in Pockets /\ pool \in SlotInvites
  BY DEF PocketInit, Pockets, SlotInvites
<1>2. known_keys(pocket) = {}
  BY PocketKeys DEF PocketInit
<1> QED BY <1>1, <1>2 DEF PocketInv, Apart

\* Whatever order lists, `nodes join`, `nodes add`, `nodes remove` and circuits
\* in flight come in, an import takes away only the nodes the list withdraws
\* (`Directory::merge_into`), and no node is both admitted and merely known.
THEOREM PocketIsSound == PocketSpec => PocketSound
<1>1. PocketInit => PocketInv
  BY PocketBegins
<1>2. PocketInv /\ [PocketNext]_pocketVars => PocketInv'
  BY PocketStep
<1>3. PocketInv => KnownOrAdmitted
  BY DEF PocketInv, Apart, KnownOrAdmitted
<1>4. PocketInv => (pocket' # pocket => \A l \in Lists : ImportNodes(l) => admitted(pocket) \ l.removed \subseteq admitted(pocket'))
  BY MergeKeeps DEF PocketInv, ImportNodes
<1>5. PocketInv => [pocket' # pocket => \A l \in Lists : ImportNodes(l) => admitted(pocket) \ l.removed \subseteq admitted(pocket')]_pocketVars
  BY <1>4
<1> QED BY <1>1, <1>2, <1>3, <1>5, PTL DEF PocketSpec, PocketSound, ImportKeepsTheRest
=============================================================================
