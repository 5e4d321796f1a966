---------------------------- MODULE FileTransfer ----------------------------
(***************************************************************************)
(* The file server of ps6 and its clients (server.c, client.c, command.c). *)
(* A connection is a stream of words in each direction: a Command is a     *)
(* code and a name, a Payload a code and a length, a file its words.  recv *)
(* returns what has arrived, up to what was asked for; send blocks until   *)
(* everything is sent.                                                     *)
(***************************************************************************)
EXTENDS Integers, Sequences, FiniteSets, FiniteSetsExt

CONSTANTS
  Clients,
  Sessions,         \* what users type: per client a sequence of [op, name] that ends with exit
  ServerFiles,      \* name -> words
  ClientFiles,
  Listing,          \* what makeFileList returns
  StackWords,       \* what an uninitialized word may hold
  MaxFaults         \* bound on short calls of recv, clients killed and forks that fail

CC_LS   == 0
CC_GET  == 1
CC_PUT  == 2
CC_EXIT == 3
PL_TXT  == 0
PL_FILE == 1

Commands == [op : {CC_LS, CC_GET, CC_PUT, CC_EXIT}, name : Int]

ASSUME TransferAssumption ==
  /\ \A s \in Sessions, c \in Clients :
       s[c] \in Seq(Commands) /\ s[c] # <<>> /\ s[c][Len(s[c])].op = CC_EXIT
  /\ \A name \in DOMAIN ServerFiles : ServerFiles[name] \in Seq(Int)
  /\ \A name \in DOMAIN ClientFiles : ClientFiles[name] \in Seq(Int)
  /\ Listing \in Seq(Int) /\ StackWords \subseteq Int
  /\ MaxFaults \in Nat

VARIABLES
  client,   \* per client its pc, its script and where it is, the code of the payload, its recv buffer
            \* and the words counted
  child,    \* per connection the process that serves it, with its Command
  up, down, \* the streams to the server and to the client
  pending,  \* the queue of the listening socket
  srv,      \* where the main loop of the server is
  short, kills, failures,   \* what has gone wrong
  saved     \* history: the files and lists received

streams == <<up, down>>
faults  == <<short, kills, failures>>
vars    == <<client, child, streams, pending, srv, faults, saved>>

\* A buffer of n words for a recv loop that has received nothing yet.
Fresh(ep, pc, n, word) == [ep EXCEPT !.pc = pc, !.buf = [k \in 1 .. n |-> word], !.nb = 0]

Client(script) == [pc |-> "none", script |-> script, at |-> 1, code |-> PL_TXT, buf |-> <<>>, nb |-> 0]
Child(pc, cmd) == [pc |-> pc, cmd |-> cmd, buf |-> <<>>, nb |-> 0]

Init ==
  /\ client \in {[c \in Clients |-> Client(s[c])] : s \in Sessions}
  /\ child = [c \in Clients |-> Child("none", <<0, 0>>)]
  /\ up = [c \in Clients |-> <<>>] /\ down = [c \in Clients |-> <<>>]
  /\ pending = <<>> /\ srv = "accept"
  /\ short = 0 /\ kills = 0 /\ failures = 0 /\ saved = {}

-----------------------------------------------------------------------------
(* The stream socket.                                                      *)

MayFail == short + kills + failures < MaxFaults

\* How many words recv may return of a stream when it is asked for n.
Receivable(s, n) ==
  {k \in 1 .. Min({n, Len(s)}) : k = Min({n, Len(s)}) \/ MayFail}

CountShort(k, n) == short' = IF k < n THEN 1 ELSE short

From(s, k) == SubSeq(s, k + 1, Len(s))

\* Every recv stores at the beginning of the buffer, whatever is there.
Put(buf, s, k) == SubSeq(s, 1, k) \o From(buf, k)

Received(ep, s, k) == [ep EXCEPT !.buf = Put(@, s, k), !.nb = @ + k]

Over(c)   == client[c].pc = "over"
Alive(c)  == child[c].pc \notin {"none", "zombie", "gone"}
Gone(c)   == child[c].pc \in {"zombie", "gone"}
Stop(ep)  == [ep EXCEPT !.pc = "over", !.buf = <<>>, !.nb = 0]

Record(c, op, name, data) == [session |-> c, op |-> op, name |-> name, data |-> data]

-----------------------------------------------------------------------------
(* The client.                                                             *)

\* connect, which fails once the server is gone.
Connect(c) ==
  /\ client[c].pc = "none"
  /\ client' = [client EXCEPT ![c].pc = IF srv = "dead" THEN "over" ELSE "ask"]
  /\ pending' = IF srv = "dead" THEN pending ELSE Append(pending, c)
  /\ UNCHANGED <<child, streams, srv, faults, saved>>

Request(c) == client[c].script[client[c].at]

\* A turn of main's loop: the command is sent, and the client goes on in one
\* of the given states.
Ask(c, op, next) ==
  /\ client[c].pc = "ask" /\ Request(c).op = op
  /\ up' = [up EXCEPT ![c] = @ \o <<op, Request(c).name>>]
  /\ \E me \in next : client' = [client EXCEPT ![c] = me]
  /\ UNCHANGED <<child, down, pending, srv, faults, saved>>

Await(c) == {Fresh(client[c], "payload", 2, w) : w \in StackWords}

DoLSCommand(c)   == Ask(c, CC_LS, Await(c))
DoGETCommand(c)  == Ask(c, CC_GET, Await(c))
DoPUTCommand(c)  == Ask(c, CC_PUT, {[client[c] EXCEPT !.pc = "put"]})
DoExitCommand(c) == Ask(c, CC_EXIT, {Stop([client[c] EXCEPT !.at = @ + 1])})

Again(ep) == [ep EXCEPT !.pc = "ask", !.at = @ + 1, !.buf = <<>>, !.nb = 0]

\* doPUTCommand: the payload, then sendFileOverSocket.  getFileSize of a
\* file that is not there ends the client.
SendPayload(c) ==
  LET name == Request(c).name IN
  /\ client[c].pc = "put"
  /\ IF name \in DOMAIN ClientFiles
     THEN /\ up' = [up EXCEPT ![c] = @ \o <<PL_FILE, Len(ClientFiles[name])>>]
          /\ client' = [client EXCEPT ![c].pc = "send"]
     ELSE client' = [client EXCEPT ![c] = Stop(@)] /\ UNCHANGED up
  /\ UNCHANGED <<child, down, pending, srv, faults, saved>>

SendFile(c) ==
  /\ client[c].pc = "send"
  /\ up' = [up EXCEPT ![c] = @ \o ClientFiles[Request(c).name]]
  /\ client' = [client EXCEPT ![c] = Again(@)]
  /\ UNCHANGED <<child, down, pending, srv, faults, saved>>

\* The code and the length have come: the buffer for the list or the file.
Announcement(ep) == Fresh([ep EXCEPT !.code = ep.buf[1]], "data", ep.buf[2], 0)

\* SLURP: sizeof(dst) - nb is unsigned, so that only the exact number of
\* words ends the loop.
RecvPayload(c) ==
  /\ client[c].pc = "payload"
  /\ \E k \in Receivable(down[c], 2) :
       LET ep == Received(client[c], down[c], k) IN
       /\ down' = [down EXCEPT ![c] = From(@, k)]
       /\ CountShort(k, 2)
       /\ client' = [client EXCEPT ![c] = IF ep.nb = 2 THEN Announcement(ep) ELSE ep]
  /\ UNCHANGED <<child, up, pending, srv, kills, failures, saved>>

\* The loop of get_payload, receiveFileOverSocket and the children: it ends
\* once enough words are counted.  A recv that asks for nothing sleeps like any
\* other until something is there or the other end is closed; it takes nothing.
Amounts(ep, s, closed) ==
  IF ep.buf = <<>> THEN {k \in {0} : s # <<>> \/ closed} ELSE Receivable(s, Len(ep.buf))

Enough(ep) == ep.nb >= Len(ep.buf)

\* ls prints a text, get stores whatever comes.
Expected(c) == Request(c).op = CC_LS => client[c].code = PL_TXT

\* The list is printed, or the file is stored.
RecvData(c) ==
  /\ client[c].pc = "data"
  /\ \E k \in Amounts(client[c], down[c], Gone(c)) :
       LET ep == Received(client[c], down[c], k) IN
       /\ down' = [down EXCEPT ![c] = From(@, k)]
       /\ CountShort(k, Len(ep.buf))
       /\ IF Enough(ep)
          THEN /\ client' = [client EXCEPT ![c] = Again(@)]
               /\ saved' = IF Expected(c) THEN saved \union {Record(c, Request(c).op, Request(c).name, ep.buf)}
                           ELSE saved
          ELSE client' = [client EXCEPT ![c] = ep] /\ UNCHANGED saved
  /\ UNCHANGED <<child, up, pending, srv, kills, failures>>

\* The user kills the client.
Kill(c) ==
  /\ client[c].pc \notin {"none", "over"} /\ MayFail
  /\ kills' = kills + 1
  /\ client' = [client EXCEPT ![c] = Stop(@)]
  /\ UNCHANGED <<child, streams, pending, srv, short, failures, saved>>

\* The connection is reset: nobody will accept it any more, or the child has
\* ended with words it did not read.
Reset(c) ==
  /\ client[c].pc \notin {"none", "over"}
  /\ \/ srv = "dead" /\ child[c].pc = "none"
     \/ Gone(c) /\ up[c] # <<>>
  /\ client' = [client EXCEPT ![c] = Stop(@)]
  /\ UNCHANGED <<child, streams, pending, srv, faults, saved>>

ClientStep(c) ==
  \/ Connect(c) \/ DoLSCommand(c) \/ DoGETCommand(c) \/ DoPUTCommand(c) \/ DoExitCommand(c)
  \/ SendPayload(c) \/ SendFile(c) \/ RecvPayload(c) \/ RecvData(c) \/ Reset(c)

-----------------------------------------------------------------------------
(* The child that handles a connection (handleNewConnection).              *)

\* ntohl of a word, and back.
Swap(w) == -w

\* Mutant of Case: done is never set.
CaseStays(code) == IF code \in {CC_LS, CC_GET} THEN "head" ELSE IF code = CC_PUT THEN "payload" ELSE "cmd"

\* Where the switch goes.
Case(code) ==
  CASE code \in {CC_LS, CC_GET} -> "head"
    [] code = CC_PUT  -> "payload"
    [] code = CC_EXIT -> "zombie"
    [] OTHER          -> "cmd"

\* One recv of a Command over the Command of the turn before, taken for a
\* whole one.  After the end of the stream the old code is swapped once more.
RecvCommand(c) ==
  LET old == child[c].cmd IN
  /\ child[c].pc = "cmd"
  /\ \/ \E k \in Receivable(up[c], 2) :
          LET cmd == Put(old, up[c], k) IN
          /\ up' = [up EXCEPT ![c] = From(@, k)]
          /\ CountShort(k, 2)
          /\ child' = [child EXCEPT ![c] = Child(Case(cmd[1]), cmd)]
     \/ /\ Over(c) /\ up[c] = <<>>
        /\ child' = [child EXCEPT ![c] = Child(Case(Swap(old[1])), <<Swap(old[1]), old[2]>>)]
        /\ UNCHANGED <<up, short>>
  /\ UNCHANGED <<client, down, pending, srv, kills, failures, saved>>

Offered(cmd) == IF cmd[1] = CC_LS THEN Listing ELSE ServerFiles[cmd[2]]

\* Mutant of Announced: the null byte at the end of the list is forgotten.
AnnouncedBare(cmd) == IF cmd[1] = CC_LS THEN <<PL_TXT, Len(Listing) - 1>> ELSE <<PL_FILE, Len(ServerFiles[cmd[2]])>>

\* The payload of the answer.
Announced(cmd) == <<IF cmd[1] = CC_LS THEN PL_TXT ELSE PL_FILE, Len(Offered(cmd))>>

\* send to a client: once the client has ended the words are lost, or the
\* signal SIGPIPE ends the child.
Reply(c, words, next) ==
  \/ /\ down' = IF Over(c) THEN down ELSE [down EXCEPT ![c] = @ \o words]
     /\ child' = [child EXCEPT ![c].pc = next]
  \/ Over(c) /\ child' = [child EXCEPT ![c].pc = "zombie"] /\ UNCHANGED down

\* The payload and what it announces; getFileSize of a file that is not there
\* ends the child.
SendHead(c) ==
  LET cmd == child[c].cmd IN
  /\ child[c].pc = "head"
  /\ IF cmd[1] = CC_LS \/ cmd[2] \in DOMAIN ServerFiles
     THEN Reply(c, Announced(cmd), "body")
     ELSE child' = [child EXCEPT ![c].pc = "zombie"] /\ UNCHANGED down
  /\ UNCHANGED <<client, up, pending, srv, faults, saved>>

SendBody(c) ==
  /\ child[c].pc = "body"
  /\ Reply(c, Offered(child[c].cmd), "cmd")
  /\ UNCHANGED <<client, up, pending, srv, faults, saved>>

\* One recv of the Payload, which is not initialized.
RecvSize(c) ==
  /\ child[c].pc = "payload"
  /\ \/ \E k \in Receivable(up[c], 2), w \in StackWords :
          /\ child' = [child EXCEPT ![c] = Fresh(@, "data", Put(<<w, w>>, up[c], k)[2], 0)]
          /\ up' = [up EXCEPT ![c] = From(@, k)]
          /\ CountShort(k, 2)
     \/ /\ Over(c) /\ up[c] = <<>> /\ UNCHANGED <<up, short>>
        /\ \E w \in StackWords : child' = [child EXCEPT ![c] = Fresh(@, "data", w, 0)]
  /\ UNCHANGED <<client, down, pending, srv, kills, failures, saved>>

\* receiveFileOverSocket in the child.
RecvUpload(c) ==
  LET cmd == child[c].cmd IN
  /\ child[c].pc = "data"
  /\ \E k \in Amounts(child[c], up[c], Over(c)) :
       LET ep == Received(child[c], up[c], k) IN
       /\ up' = [up EXCEPT ![c] = From(@, k)]
       /\ CountShort(k, Len(ep.buf))
       /\ IF Enough(ep)
          THEN /\ child' = [child EXCEPT ![c] = Child("cmd", cmd)]
               /\ saved' = saved \union {Record(c, CC_PUT, cmd[2], ep.buf)}
          ELSE child' = [child EXCEPT ![c] = ep] /\ UNCHANGED saved
  /\ UNCHANGED <<client, down, pending, srv, kills, failures>>

\* The client was killed with words it did not read: recv fails in the child.
ResetChild(c) ==
  /\ Over(c) /\ down[c] # <<>> /\ child[c].pc \in {"cmd", "payload", "data"}
  /\ child' = [child EXCEPT ![c].pc = "zombie"]
  /\ UNCHANGED <<client, streams, pending, srv, faults, saved>>

ChildStep(c) ==
  RecvCommand(c) \/ SendHead(c) \/ SendBody(c) \/ RecvSize(c) \/ RecvUpload(c) \/ ResetChild(c)

-----------------------------------------------------------------------------
(* main of the server.                                                     *)

\* A connection is accepted and a child forked, whose Command is not
\* initialized.
Accept ==
  /\ srv = "accept" /\ pending # <<>>
  /\ \E code, name \in StackWords : child' = [child EXCEPT ![Head(pending)] = Child("cmd", <<code, name>>)]
  /\ pending' = Tail(pending) /\ srv' = "reap"
  /\ UNCHANGED <<client, streams, faults, saved>>

\* fork fails: the connection stays open and unserved.
ForkFails ==
  /\ srv = "accept" /\ pending # <<>> /\ MayFail
  /\ pending' = Tail(pending) /\ failures' = failures + 1
  /\ UNCHANGED <<client, child, streams, srv, short, kills, saved>>

\* Mutant of AfterReap: waitpid's 0, no child has died, is taken for an error.
AfterReapHasty == "dead"

\* waitpid fails when there is no child at all, and checkError ends the server.
AfterReap == IF \E c \in Clients : Alive(c) THEN "accept" ELSE "dead"

\* A turn of the loop that reaps the dead children.
Reap ==
  /\ srv = "reap"
  /\ LET dead == {c \in Clients : child[c].pc = "zombie"} IN
     IF dead # {}
     THEN /\ \E c \in dead : child' = [child EXCEPT ![c].pc = "gone"]
          /\ UNCHANGED srv
     ELSE srv' = AfterReap /\ UNCHANGED child
  /\ UNCHANGED <<client, streams, pending, faults, saved>>

ServerStep == Accept \/ ForkFails \/ Reap

Next ==
  \/ ServerStep
  \/ \E c \in Clients : ClientStep(c) \/ ChildStep(c) \/ Kill(c)

\* Every process runs on while it can; users type on; nobody need kill a
\* client, no recv need be short and no fork need fail.
Spec ==
  /\ Init /\ [][Next]_vars
  /\ WF_vars(Accept \/ Reap)
  /\ \A c \in Clients : WF_vars(ClientStep(c)) /\ WF_vars(ChildStep(c))

-----------------------------------------------------------------------------
(* Properties.                                                             *)

\* What the variables may hold.
TypeOK ==
  /\ client \in [Clients ->
       [pc : {"none", "ask", "payload", "data", "put", "send", "over"}, script : Seq(Commands), at : Nat \ {0},
        code : Int, buf : Seq(Int), nb : Nat]]
  /\ child \in [Clients ->
       [pc : {"none", "cmd", "head", "body", "payload", "data", "zombie", "gone"}, cmd : [1 .. 2 -> Int],
        buf : Seq(Int), nb : Nat]]
  /\ up \in [Clients -> Seq(Int)] /\ down \in [Clients -> Seq(Int)]
  /\ pending \in Seq(Clients) /\ srv \in {"accept", "reap", "dead"}
  /\ short \in {0, 1} /\ kills \in 0 .. MaxFaults /\ failures \in 0 .. MaxFaults
  /\ saved \subseteq [session : Clients, op : {CC_LS, CC_GET, CC_PUT}, name : Int, data : Seq(Int)]

Aborted(c) == Over(c) /\ client[c].at <= Len(client[c].script)

\* What is received is the file, or the list, that was asked for.
Whole(r) ==
  CASE r.op = CC_LS  -> r.data = Listing
    [] r.op = CC_GET -> r.name \in DOMAIN ServerFiles /\ r.data = ServerFiles[r.name]
    [] r.op = CC_PUT -> r.name \in DOMAIN ClientFiles /\ r.data = ClientFiles[r.name]

\* Whatever is received, on either side, is the whole of what was asked for,
\* though the other side may still be sending it and other sessions are
\* killed (the recv loops of client.c:62-96 and command.c:83-87).  A short
\* recv is excepted: see ListReadWhole.
ReceivedWhole ==
  \A r \in saved : short = 0 /\ ~Aborted(r.session) => Whole(r)

\* "read a payload and message." (client.c:79), and the payload with "eat an entire
\* message on the socket." (client.c:61): what ls prints is the list the server
\* sent, however the calls of recv cut it.
ListReadWhole ==
  \A r \in saved : r.op = CC_LS => Whole(r)

\* The child ended otherwise than by exit: a file was not there.
Crashed(c) == Gone(c) /\ child[c].cmd[1] # CC_EXIT

\* The server may end, when waitpid fails (server.c:59-64), but no client it
\* has accepted is then in the middle of a session, unless the child crashed.
ServedToTheEnd ==
  srv = "dead" /\ short = 0 =>
    \A c \in Clients : Over(c) \/ child[c].pc = "none" \/ Crashed(c)

\* What the client has asked for before the command it is at.
Asked(c) == LET me == client[c] IN
  {<<me.script[k].op, me.script[k].name>> : k \in {j \in 1 .. me.at - 1 : me.script[j].op # CC_EXIT}}

Answered(c) == {<<r.op, r.name>> : r \in {x \in saved : x.session = c}}

Undisturbed ==
  /\ short + kills + failures = 0
  /\ \A c \in Clients : ~Crashed(c) /\ ~Aborted(c) /\ (srv = "dead" => child[c].pc # "none")

GetsNothing(cmd) == cmd.op = CC_GET /\ cmd.name \in DOMAIN ServerFiles /\ ServerFiles[cmd.name] = <<>>

\* The session asks for an empty file.
Hangs(c) == \E k \in 1 .. Len(client[c].script) : GetsNothing(client[c].script[k])

\* The client waits for the words of an empty file, its child for the next command.
Hung(c) ==
  /\ client[c].pc = "data" /\ GetsNothing(Request(c)) /\ down[c] = <<>>
  /\ child[c].pc = "cmd" /\ up[c] = <<>>

\* Unless something goes wrong, or the server dies before it accepts a client,
\* every session comes to its end and its child ends, except one that gets an
\* empty file: there client and child wait for each other for ever, since the
\* recv of nothing (command.c:86) sleeps until the child sends or ends, and the
\* child receives the next command (server.c:76).  Whatever was asked for up to
\* there was received, so no other recv waits for a send that never comes; a put
\* of an empty file in particular is stored once the next command arrives.
SessionsEnd ==
  <>[](Undisturbed => \A c \in Clients :
         /\ IF Hangs(c) THEN Hung(c) ELSE Over(c) /\ ~Alive(c)
         /\ Answered(c) = Asked(c))

=============================================================================
