------------------------------ MODULE SqlServer ------------------------------
(***************************************************************************)
(* The SQLite server of mt2 (Q2server.c), its interactive clients          *)
(* (Q2client.c) and the program that shuts it down (Q2service.c).  Answers *)
(* are counted in units of half of the buffer a client receives into.      *)
(***************************************************************************)
EXTENDS Integers, Sequences, SequencesExt

CONSTANTS
  Clients,
  Services,      \* runs of Q2service
  Sessions,      \* per client the lines of its standard input, and its kind: "file", "terminal" or "pipe"
  Main,          \* the server that was started
  Size,          \* line -> the units of its answer
  Quit,          \* the line .exit
  MaxFaults      \* bound on failing calls of fork and exec, and commands cut by recv

ASSUME SqlAssumption ==
  /\ Main \notin Clients /\ MaxFaults \in Nat
  /\ Quit \in DOMAIN Size /\ \A line \in DOMAIN Size : Size[line] \in Nat
  /\ \A s \in Sessions, c \in Clients :
       s[c].kind \in {"file", "terminal", "pipe"} /\ s[c].lines \in Seq(DOMAIN Size)

VARIABLES
  client,    \* per client: pc, its input and where it is, what poll saw, what is shown
  service,   \* per run of Q2service: where it is
  server,    \* Main, and every child whose exec failed
  child,     \* per connection the process forked for it, and its parent
  up, down,  \* the streams of the connections
  pending, calls,   \* the queues of ports 9000 and 9001
  faults

queues  == <<pending, calls>>
streams == <<up, down>>
vars    == <<client, service, server, child, streams, queues, faults>>

Servers == Clients \union {Main}
NotThere == [pc |-> "none", asked |-> FALSE, call |-> {}]

Init ==
  /\ client \in {[c \in Clients |-> [pc |-> "none", lines |-> s[c].lines, kind |-> s[c].kind,
                    at |-> 1, eof |-> FALSE, ready |-> FALSE, shown |-> <<>>]] : s \in Sessions}
  /\ service = [s \in Services |-> "none"]
  /\ server = [p \in Servers |-> IF p = Main THEN [NotThere EXCEPT !.pc = "reap"] ELSE NotThere]
  /\ child = [c \in Clients |-> [pc |-> "none", parent |-> Main]]
  /\ up = [c \in Clients |-> <<>>] /\ down = [c \in Clients |-> <<>>]
  /\ pending = <<>> /\ calls = <<>> /\ faults = 0

Over(c)    == client[c].pc = "over"
Running(p) == server[p].pc \notin {"none", "over"}
Ended(c)   == child[c].pc \in {"zombie", "gone", "refused"}

\* The listening sockets are closed with the last process that holds them:
\* sqlite3 inherits them.
Listening == (\E p \in Servers : Running(p)) \/ (\E c \in Clients : child[c].pc = "sqlite3")

-----------------------------------------------------------------------------
(* Q2client.                                                               *)

Connect(c) ==
  /\ client[c].pc = "none"
  /\ client' = [client EXCEPT ![c].pc = IF Listening THEN "poll" ELSE "over"]
  /\ pending' = IF Listening THEN Append(pending, c) ELSE pending
  /\ UNCHANGED <<service, server, child, streams, calls, faults>>

\* readString finds no further line.
InputOver(me) == me.at > Len(me.lines)

\* poll on the standard input sees what stdio has not read yet: a file is
\* always readable, a terminal has the next line or, from a user who did not
\* type .exit, the end; but the first read of a pipe takes all lines, and its
\* end is POLLHUP without POLLIN.
InputReady(c) ==
  /\ ~client[c].eof
  /\ client[c].kind = "pipe" => client[c].at = 1 /\ client[c].lines # <<>>
  /\ client[c].kind = "terminal" => ~InputOver(client[c]) \/ ~Contains(client[c].lines, Quit)

\* Mutant of SocketReady: the end of the stream is not noticed.
SocketReadyData(c) == down[c] # <<>>

\* The socket is readable, also at its end.
SocketReady(c) == down[c] # <<>> \/ Ended(c)

ClientPoll(c) ==
  /\ client[c].pc = "poll" /\ (InputReady(c) \/ SocketReady(c))
  /\ client' = [client EXCEPT ![c].pc = IF InputReady(c) THEN "line" ELSE "recv",
                              ![c].ready = SocketReady(c)]
  /\ UNCHANGED <<service, server, child, streams, queues, faults>>

Went(me) == [me EXCEPT !.pc = IF me.ready THEN "recv" ELSE "poll"]

\* Mutant of Sent: the line is read again.
SentAgain(me) == Went([me EXCEPT !.at = IF @ < Len(me.lines) THEN @ + 1 ELSE @])

\* A line was read and sent.
Sent(me) == Went([me EXCEPT !.at = @ + 1])

\* A line is read and sent; to a connection whose other end is closed in vain,
\* or with the signal SIGPIPE.
Line(c) ==
  LET me == client[c] IN
  /\ me.pc = "line" /\ ~InputOver(me)
  /\ up' = [up EXCEPT ![c] = Append(@, me.lines[me.at])]
  /\ \/ client' = [client EXCEPT ![c] = Sent(@)]
     \/ Ended(c) /\ client' = [client EXCEPT ![c].pc = "over"]
  /\ UNCHANGED <<service, server, child, down, queues, faults>>

\* At the end of the input .exit is sent.  Then a string literal is freed:
\* undefined, the C library ends the process when it notices.
EndOfInput(c) ==
  LET me == client[c] IN
  /\ me.pc = "line" /\ InputOver(me)
  /\ up' = [up EXCEPT ![c] = Append(@, Quit)]
  /\ client' \in {[client EXCEPT ![c] = [Went(@) EXCEPT !.eof = TRUE]],
                  [client EXCEPT ![c].pc = "over", ![c].eof = TRUE]}
  /\ UNCHANGED <<service, server, child, down, queues, faults>>

\* One recv of the inner loop, which goes on as long as the buffer was filled.
Recv(c) ==
  /\ client[c].pc = "recv"
  /\ \/ \E k \in {n \in 1 .. 2 : n <= Len(down[c])} :
          /\ client' = [client EXCEPT ![c].shown = @ \o SubSeq(down[c], 1, k),
                                      ![c].pc = IF k = 2 THEN "recv" ELSE "poll"]
          /\ down' = [down EXCEPT ![c] = SubSeq(@, k + 1, Len(@))]
     \/ /\ down[c] = <<>> /\ Ended(c)
        /\ client' = [client EXCEPT ![c].pc = "over"] /\ UNCHANGED down
  /\ UNCHANGED <<service, server, child, up, queues, faults>>

\* The connection is reset: nobody is left to accept it, or the other end was
\* closed with lines unread.
Reset(c) ==
  /\ client[c].pc \notin {"none", "over"}
  /\ \/ child[c].pc = "none" /\ ~Listening
     \/ Ended(c) /\ up[c] # <<>>
  /\ client' = [client EXCEPT ![c].pc = "over"]
  /\ UNCHANGED <<service, server, child, streams, queues, faults>>

ClientStep(c) == Connect(c) \/ ClientPoll(c) \/ Line(c) \/ EndOfInput(c) \/ Recv(c) \/ Reset(c)

\* Q2service: connect, then send and close.
ServiceConnect(s) ==
  /\ service[s] = "none" /\ Listening
  /\ service' = [service EXCEPT ![s] = "connected"]
  /\ calls' = Append(calls, s)
  /\ UNCHANGED <<client, server, child, streams, pending, faults>>

ServiceSend(s) ==
  /\ service[s] = "connected"
  /\ service' = [service EXCEPT ![s] = "sent"]
  /\ UNCHANGED <<client, server, child, streams, queues, faults>>

-----------------------------------------------------------------------------
(* sqlite3, and the server.                                                *)

Answer(line) == [k \in 1 .. Size[line] |-> line]

\* sqlite3 answers line by line until .exit or the end of its input; to a
\* client that has ended in vain or with the signal SIGPIPE.
Sqlite3(c) ==
  /\ child[c].pc = "sqlite3"
  /\ \/ /\ up[c] # <<>> /\ Head(up[c]) # Quit
        /\ up' = [up EXCEPT ![c] = Tail(@)]
        /\ \/ down' = (IF Over(c) THEN down ELSE [down EXCEPT ![c] = @ \o Answer(Head(up[c]))]) /\ UNCHANGED child
           \/ Over(c) /\ child' = [child EXCEPT ![c].pc = "zombie"] /\ UNCHANGED down
     \/ /\ IF up[c] = <<>> THEN Over(c) ELSE Head(up[c]) = Quit
        /\ child' = [child EXCEPT ![c].pc = "zombie"]
        /\ up' = [up EXCEPT ![c] = SubSeq(@, 2, Len(@))] /\ UNCHANGED down
  /\ UNCHANGED <<client, service, server, queues, faults>>

\* cleanupDeadChildren.
Reaped(p) == [c \in Clients |->
  IF child[c].pc = "zombie" /\ child[c].parent = p THEN [child[c] EXCEPT !.pc = "gone"] ELSE child[c]]

ReapChildren(p) ==
  /\ server[p].pc = "reap"
  /\ child' = Reaped(p)
  /\ server' = [server EXCEPT ![p].pc = "poll"]
  /\ UNCHANGED <<client, service, streams, queues, faults>>

\* Mutant of Wakes: poll has no timeout.
WakesReady == pending # <<>> \/ calls # <<>>

\* poll returns when a socket is readable, and after a second.
Wakes == TRUE

Poll(p) ==
  /\ server[p].pc = "poll" /\ Wakes
  /\ server' = [server EXCEPT ![p].asked = calls # <<>>,
       ![p].pc = IF pending # <<>> THEN "accept" ELSE IF calls # <<>> THEN "answer" ELSE "reap"]
  /\ UNCHANGED <<client, service, child, streams, queues, faults>>

\* What follows the if for port 9000.
Accepted(me) == [me EXCEPT !.pc = IF me.asked THEN "answer" ELSE "reap"]

\* A connection is accepted and handle_client forks: a child whose exec fails
\* goes on as a second server.
Accept(p) ==
  /\ server[p].pc = "accept" /\ pending # <<>>
  /\ pending' = Tail(pending)
  /\ LET c == Head(pending)
         forked(pc) == [child EXCEPT ![c] = [pc |-> pc, parent |-> p]]
         mine == [server EXCEPT ![p] = Accepted(@)] IN
     \/ child' = forked("sqlite3") /\ server' = mine /\ UNCHANGED faults
     \/ /\ faults < MaxFaults /\ faults' = faults + 1
        /\ \/ child' = forked("refused") /\ server' = mine
           \/ child' = forked("server") /\ server' = [mine EXCEPT ![c] = Accepted(server[p])]
  /\ UNCHANGED <<client, service, streams, calls>>

\* A connection to port 9001 is accepted; its recv waits for the command.
Call(p) ==
  /\ server[p].pc = "answer" /\ calls # <<>>
  /\ server' = [server EXCEPT ![p].pc = "hear", ![p].call = {Head(calls)}]
  /\ calls' = Tail(calls)
  /\ UNCHANGED <<client, service, child, streams, pending, faults>>

\* Mutant of Told: the loop is not left.
ToldOnly(me) == [me EXCEPT !.pc = "reap", !.call = {}]

\* The server was told to end.
Told(me) == [me EXCEPT !.pc = "over", !.call = {}]

\* A command that one recv returns whole ends the server, with its sockets and
\* its last reaping; another is a "bad command".
Hear(p) ==
  /\ server[p].pc = "hear" /\ \A s \in server[p].call : service[s] = "sent"
  /\ \/ /\ server' = [server EXCEPT ![p] = Told(@)]
        /\ child' = [c \in Clients |-> IF c = p THEN [child[c] EXCEPT !.pc = "zombie"] ELSE Reaped(p)[c]]
        /\ UNCHANGED faults
     \/ /\ faults < MaxFaults /\ faults' = faults + 1
        /\ server' = [server EXCEPT ![p].pc = "reap", ![p].call = {}]
        /\ UNCHANGED child
  /\ UNCHANGED <<client, service, streams, queues>>

ServerStep(p) == ReapChildren(p) \/ Poll(p) \/ Accept(p) \/ Call(p) \/ Hear(p)

Next ==
  \/ \E c \in Clients : ClientStep(c) \/ Sqlite3(c)
  \/ \E s \in Services : ServiceConnect(s) \/ ServiceSend(s)
  \/ \E p \in Servers : ServerStep(p)

\* Every process runs on while it can, and users type their lines; nobody need
\* run Q2service, and no call need fail.
Spec ==
  /\ Init /\ [][Next]_vars
  /\ \A c \in Clients : WF_vars(ClientStep(c)) /\ WF_vars(Sqlite3(c))
  /\ \A s \in Services : WF_vars(ServiceSend(s))
  /\ \A p \in Servers : WF_vars(ServerStep(p))

-----------------------------------------------------------------------------
(* Properties.                                                             *)

Lines == DOMAIN Size

\* What the variables may hold.
TypeOK ==
  /\ client \in [Clients ->
       [pc : {"none", "poll", "line", "recv", "over"}, lines : Seq(Lines), kind : {"file", "terminal", "pipe"},
        at : Nat \ {0}, eof : BOOLEAN, ready : BOOLEAN, shown : Seq(Lines)]]
  /\ service \in [Services -> {"none", "connected", "sent"}]
  /\ server \in [Servers ->
       [pc : {"none", "reap", "poll", "accept", "answer", "hear", "over"}, asked : BOOLEAN, call : SUBSET Services]]
  /\ child \in [Clients ->
       [pc : {"none", "sqlite3", "server", "refused", "zombie", "gone"}, parent : Servers]]
  /\ up \in [Clients -> Seq(Lines)] /\ down \in [Clients -> Seq(Lines)]
  /\ pending \in Seq(Clients) /\ calls \in Seq(Services) /\ faults \in 0 .. MaxFaults

Answers(lines) == FlattenSeq([k \in DOMAIN lines |-> Answer(lines[k])])

\* What sqlite3 answers of a sequence of lines: those before the first .exit.
UntilExit(lines) ==
  SubSeq(lines, 1, Min({k \in DOMAIN lines : lines[k] = Quit} \union {Len(lines) + 1}) - 1)

\* Lines on the way to sqlite3 while it runs, or before it does.
Unread(c) == IF Ended(c) THEN <<>> ELSE up[c]

\* Every line a client has read is with sqlite3 or answered, once and in
\* order: what is shown, what is on its way down, and the answers to what is on
\* its way up (Q2client.c:92-141; a fault or the end of the client excepted).
NothingLost ==
  \A c \in Clients :
    ~Over(c) /\ faults = 0 =>
      client[c].shown \o down[c] \o Answers(UntilExit(Unread(c)))
        = Answers(UntilExit(SubSeq(client[c].lines, 1, client[c].at - 1)))

\* "reaps dead children" (Q2server.c:39): a child that has died is reaped,
\* also when nobody connects any more, as long as its parent runs.  A second
\* server, which exec left behind, may hold its parent in accept or recv.
DeadAreReaped ==
  \A c \in Clients :
    child[c].pc = "zombie" ~> child[c].pc = "gone" \/ ~Running(child[c].parent) \/ faults > 0

\* "If it matches, terminate the server process" (Q2server.c:87-88): after a
\* run of Q2service no server is left, whatever the clients do; unless the
\* command was cut or a second server took it.
ShutdownEnds ==
  \A s \in Services :
    service[s] = "sent" ~> faults > 0 \/ \A p \in Servers : ~Running(p)

\* The client waits in its inner loop after an answer that filled its buffer.
WaitsForMore(c) == client[c].pc = "recv" /\ down[c] = <<>>

\* Somebody types on after .exit.
TypesOn(c) == Len(UntilExit(client[c].lines)) + 1 < Len(client[c].lines)

\* A session ends with all its answers shown, or the client waits for ever in
\* the inner loop (Q2client.c:126-141), its input is a pipe, it ended with its
\* input (line 119) or may have done so in sending a line after .exit, or it was
\* never accepted.
SessionsEnd ==
  \A c \in Clients :
    <>[](\/ Over(c) /\ client[c].shown = Answers(UntilExit(client[c].lines))
         \/ WaitsForMore(c) \/ client[c].kind = "pipe" \/ client[c].eof \/ TypesOn(c)
         \/ child[c].pc = "none" \/ faults > 0)

=============================================================================
