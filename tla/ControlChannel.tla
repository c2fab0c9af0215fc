--------------------------- MODULE ControlChannel ---------------------------
(* The control channel between a client (the command line, the browser) and  *)
(* the service: the token and the key the service writes at each start, the  *)
(* connections it serves, the requests sealed to its key.  On Windows the    *)
(* channel's name proves nothing: another program may hold it while the      *)
(* service is stopped, or listen beside it; what it is sent it may keep,     *)
(* pass on to the service, and answer with whatever it has.                  *)
EXTENDS Naturals, FiniteSets

CONSTANTS
  Callers,            \* clients, each with one request
  MAX_CONNECTIONS,
  MaxRuns,            \* starts of the service
  NoRun               \* a file that is not there

ASSUME ChannelConstants == "none" \notin Callers /\ MaxRuns \in Nat /\ NoRun \notin 1..MaxRuns

Runs == 1..MaxRuns

VARIABLES
  run, serving,       \* the service's run, and how far it is: see Serving
  token_file, key_file,  \* the run each was written by
  other,              \* another program holds the name, or listens beside
  call,               \* each client
  served,             \* clients being served, each in a slot
  heard,              \* what the other program was sent, or sent it by the service
  handled             \* history: <<client, run>> of the requests carried out

chanVars == <<run, serving, token_file, key_file, other, call, served, heard,
              handled>>

Serving == {"down", "bound", "keyless", "keyed", "tokenless", "up"}

\* A line on the channel: who asked, the token of which run, sealed to which
\* run's key (NoRun when in the clear); an answer is for a request, and sealed
\* with the same.
Line(c, token, key) == [from |-> c, token |-> token, key |-> key]
Answer(c, key) == [to |-> c, key |-> key]
NewCall == [pc |-> "start", token |-> NoRun, key |-> NoRun, peer |-> "none",
          answer |-> Answer("none", NoRun)]

ChanInit ==
  /\ run = 0 /\ serving = "down"
  /\ token_file = NoRun /\ key_file = NoRun
  /\ other = FALSE
  /\ call = [c \in Callers |-> NewCall]
  /\ served = {} /\ heard = {} /\ handled = {}
-----------------------------------------------------------------------------
(* The service.                                                              *)

\* The channel is made first; not while another program has the name.
Listen ==
  /\ serving = "down" /\ run < MaxRuns /\ ~other
  /\ run' = run + 1 /\ serving' = "bound"
  /\ UNCHANGED <<token_file, key_file, other, call, served, heard, handled>>

\* A file someone holds open cannot be moved over, on Windows: it is removed
\* first, and is missing for a moment.
WriteKey ==
  /\ \/ serving = "bound" /\ serving' = "keyless" /\ key_file' = NoRun
     \/ serving \in {"bound", "keyless"} /\ serving' = "keyed" /\ key_file' = run
  /\ UNCHANGED <<run, token_file, other, call, served, heard, handled>>

MutWriteToken ==
  /\ serving \in {"bound", "keyed"}
  /\ token_file' = run
  /\ serving' = IF serving = "keyed" THEN "up" ELSE "bound"
  /\ UNCHANGED <<run, key_file, other, call, served, heard, handled>>

\* The token after the key, so a client that finds the new token finds the
\* new key.
WriteToken ==
  /\ \/ serving = "keyed" /\ serving' = "tokenless" /\ token_file' = NoRun
     \/ serving \in {"keyed", "tokenless"} /\ serving' = "up" /\ token_file' = run
  /\ UNCHANGED <<run, key_file, other, call, served, heard, handled>>

\* It stops, or cannot write its files: the connections go, the files stay.
StopService ==
  /\ serving # "down" /\ serving' = "down" /\ served' = {}
  /\ call' = [c \in Callers |-> IF call[c].pc = "sent" /\ call[c].peer = "service"
                                THEN [call[c] EXCEPT !.pc = "failed"] ELSE call[c]]
  /\ UNCHANGED <<run, token_file, key_file, other, heard, handled>>

\* One slot each; a client that says nothing for five seconds is dropped.
Accept(c) ==
  /\ call[c].pc = "sent" /\ call[c].peer = "service" /\ serving = "up"
  /\ c \notin served /\ Cardinality(served) < MAX_CONNECTIONS
  /\ served' = served \cup {c}
  /\ UNCHANGED <<run, serving, token_file, key_file, other, call, heard, handled>>

\* The line is opened, and the token looked at before the command is.
opens(line) == line.key \in {NoRun, run}
token_ok(line) == line.token = run

\* What the service says to a line: sealed for the client that sealed it; in
\* the clear to one it cannot open, or that was in the clear.
answer_to(line) ==
  Answer(line.from, IF opens(line) THEN line.key ELSE NoRun)
carries_out(line) == opens(line) /\ token_ok(line)

HandleConn(c) ==
  LET line == Line(c, call[c].token, call[c].key) IN
  /\ c \in served /\ served' = served \ {c}
  /\ \/ /\ call' = [call EXCEPT ![c].pc = "answered", ![c].answer = answer_to(line)]
        /\ handled' = IF carries_out(line) THEN handled \cup {<<c, run>>} ELSE handled
     \/ /\ call' = [call EXCEPT ![c].pc = "failed"]
        /\ UNCHANGED handled
  /\ UNCHANGED <<run, serving, token_file, key_file, other, heard>>
-----------------------------------------------------------------------------
(* The client: the token, the key, the connection, one line each way.        *)

Step(c, pc) == call' = [call EXCEPT ![c].pc = pc]

\* No token: there is no service.
ReadToken(c) ==
  /\ call[c].pc = "start"
  /\ call' = [call EXCEPT ![c].token = token_file,
                          ![c].pc = IF token_file = NoRun THEN "not_running" ELSE "token"]
  /\ UNCHANGED <<run, serving, token_file, key_file, other, served, heard, handled>>

\* No key: a service from before sealed requests, asked in the clear.
ReadKey(c) ==
  /\ call[c].pc = "token"
  /\ call' = [call EXCEPT ![c].pc = "keyed", ![c].key = key_file]
  /\ UNCHANGED <<run, serving, token_file, key_file, other, served, heard, handled>>

\* Whoever listens is connected to; nobody, and there is no service.
Call(c) ==
  /\ call[c].pc = "keyed"
  /\ \/ /\ serving # "down"
        /\ call' = [call EXCEPT ![c].pc = "sent", ![c].peer = "service"]
        /\ UNCHANGED heard
     \/ /\ other
        /\ call' = [call EXCEPT ![c].pc = "sent", ![c].peer = "other"]
        /\ heard' = heard \cup {Line(c, call[c].token, call[c].key)}
     \/ /\ serving = "down" /\ ~other
        /\ Step(c, "not_running") /\ UNCHANGED heard
  /\ UNCHANGED <<run, serving, token_file, key_file, other, served, handled>>

MutAnswerOpens(c, a) == a.key = call[c].key

\* An answer opens for the client whose request it answers, sealed with the
\* key that request was sealed to.
answer_opens(c, a) == a.key = call[c].key /\ a.to = c

\* A client that sealed believes only an answer that opens.
Believe(c) ==
  /\ call[c].pc = "answered"
  /\ Step(c, IF call[c].key = NoRun \/ answer_opens(c, call[c].answer)
             THEN "believed" ELSE "impostor")
  /\ UNCHANGED <<run, serving, token_file, key_file, other, served, heard, handled>>
-----------------------------------------------------------------------------
(* The other program.                                                        *)

OtherComes == 
  /\ ~other /\ other' = TRUE
  /\ UNCHANGED <<run, serving, token_file, key_file, call, served, heard, handled>>
OtherGoes ==
  /\ other /\ other' = FALSE
  /\ UNCHANGED <<run, serving, token_file, key_file, call, served, heard, handled>>

Lines == {h \in heard : "from" \in DOMAIN h}
Answers == heard \ Lines

\* A line it has is passed on to the service, and the answer kept.
PassOn(h) ==
  /\ other /\ serving = "up" /\ Cardinality(served) < MAX_CONNECTIONS
  /\ heard' = heard \cup {answer_to(h)}
  /\ handled' = IF carries_out(h) THEN handled \cup {<<h.from, run>>} ELSE handled
  /\ UNCHANGED <<run, serving, token_file, key_file, other, call, served>>

\* A client is answered with something of its own, or something it has.
OtherAnswers(c) ==
  /\ call[c].pc = "sent" /\ call[c].peer = "other" /\ other
  /\ \E a \in Answers \cup {Answer("none", NoRun)} :
       call' = [call EXCEPT ![c].pc = "answered", ![c].answer = a]
  /\ UNCHANGED <<run, serving, token_file, key_file, other, served, heard, handled>>

ChanNext ==
  \/ Listen \/ WriteKey \/ WriteToken \/ StopService
  \/ OtherComes \/ OtherGoes \/ \E h \in Lines : PassOn(h)
  \/ \E c \in Callers : \/ ReadToken(c) \/ ReadKey(c) \/ Call(c) \/ Believe(c)
                        \/ Accept(c) \/ HandleConn(c) \/ OtherAnswers(c)

ChanSpec == ChanInit /\ [][ChanNext]_chanVars
-----------------------------------------------------------------------------
\* A client that sealed its request and believes an answer has the one of the
\* run whose key it sealed to, for that request, which was carried out if its
\* token was that run's: whatever restarted or was passed on in between.
BelievedIsTheService ==
  \A c \in Callers :
    /\ call[c].pc = "believed" /\ call[c].key # NoRun
    => \/ call[c].token # call[c].key
       \/ <<c, call[c].key>> \in handled

\* The token of the service that is up is never read by another program: a
\* client that finds it finds the key to seal it with.
TokenStaysHere ==
  \A h \in Lines : h.key = NoRun => ~(serving = "up" /\ h.token = run)

\* Both ends of the channel, with another program beside it and restarts.
ChannelTrusted == BelievedIsTheService /\ TokenStaysHere
-----------------------------------------------------------------------------
(* What it rests on.                                                         *)

Tokens == Runs \cup {NoRun}
CallPcs == {"start", "token", "keyed", "sent", "answered", "believed", "impostor",
            "failed", "not_running"}
Asked == {c \in Callers : call[c].pc \in {"sent", "answered", "believed", "impostor", "failed"}}
AnyLine == [from : Callers, token : Tokens, key : Tokens]
AnyAnswer == [to : Callers \cup {"none"}, key : Tokens]
ChanTyped ==
  /\ run \in Nat /\ serving \in Serving /\ token_file \in Tokens /\ key_file \in Tokens
  /\ serving # "down" => run \in Runs
  /\ call \in [Callers -> [pc : CallPcs, token : Tokens, key : Tokens,
                           peer : {"none", "service", "other"}, answer : AnyAnswer]]
  /\ heard \subseteq AnyLine \cup AnyAnswer
  /\ served \subseteq Asked

\* A run's token is in the file only once its key is: from then on, and until
\* the next run, whoever has the token finds the key.
KeyBeforeToken(t) ==
  t \in Runs => t <= run /\ (t = run => key_file = run /\ serving \in {"up", "down"})
TokenAfterKey ==
  /\ serving \in {"keyed", "tokenless", "up"} => key_file = run
  /\ KeyBeforeToken(token_file)
  /\ \A c \in Callers :
       /\ KeyBeforeToken(call[c].token)
       /\ call[c].pc \notin {"start", "not_running"} => call[c].token \in Runs
       /\ call[c].pc \notin {"start", "token", "not_running"} /\ call[c].token = run
          => call[c].key = run

\* What the other program has of a client is what that client asked.
LinesAsAsked ==
  \A h \in Lines : /\ h.from \in Asked
                   /\ h.token = call[h.from].token /\ h.key = call[h.from].key

\* A sealed answer says of its request that it was carried out, if it bore the
\* token of the run it was sealed to.
Truthful(a) ==
  a.key # NoRun =>
    /\ a.to \in Asked
    /\ a.key = call[a.to].key /\ a.key = call[a.to].token => <<a.to, a.key>> \in handled
AnswersTruthful ==
  /\ \A a \in Answers : Truthful(a)
  /\ \A c \in Callers : Truthful(call[c].answer)

ChannelInv ==
  ChanTyped /\ TokenAfterKey /\ LinesAsAsked /\ AnswersTruthful /\ BelievedIsTheService
=============================================================================
