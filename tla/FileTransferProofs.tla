------------------------- MODULE FileTransferProofs -------------------------
(***************************************************************************)
(* Proofs about FileTransfer, for any number of clients, any sessions and  *)
(* any files.                                                              *)
(***************************************************************************)
EXTENDS FileTransfer, SequenceTheorems, TLAPS

-----------------------------------------------------------------------------
(* What send and recv do to sequences.                                     *)

LEMMA FromIs ==
  ASSUME NEW s \in Seq(Int), NEW k \in 0 .. Len(s)
  PROVE  /\ From(s, k) \in Seq(Int) /\ Len(From(s, k)) = Len(s) - k
         /\ \A n \in 1 .. Len(s) - k : From(s, k)[n] = s[k + n]
<1>1. Len(s) \in Nat /\ k \in Nat /\ k <= Len(s) /\ \A n \in 1 .. Len(s) : s[n] \in Int
  OBVIOUS
<1>2. \A n \in k + 1 .. Len(s) : s[n] \in Int
  BY <1>1
<1>3. From(s, k) = SubSeq(s, k + 1, Len(s))
  BY DEF From
<1> QED BY <1>1, <1>2, <1>3, SubSeqProperties

LEMMA FirstIs ==
  ASSUME NEW s \in Seq(Int), NEW k \in 0 .. Len(s)
  PROVE  /\ SubSeq(s, 1, k) \in Seq(Int) /\ Len(SubSeq(s, 1, k)) = k
         /\ \A n \in 1 .. k : SubSeq(s, 1, k)[n] = s[n]
<1>1. Len(s) \in Nat /\ k \in Nat /\ k <= Len(s) /\ \A n \in 1 .. k : s[n] \in Int
  OBVIOUS
<1> QED BY <1>1, SubSeqProperties

LEMMA JoinIs ==
  ASSUME NEW s, NEW t, s \in Seq(Int) /\ t \in Seq(Int)
  PROVE  /\ s \o t \in Seq(Int) /\ Len(s \o t) = Len(s) + Len(t)
         /\ \A n \in 1 .. Len(s) + Len(t) : (s \o t)[n] = IF n <= Len(s) THEN s[n] ELSE t[n - Len(s)]
<1>1. PICK a \in Seq(Int), b \in Seq(Int) : a = s /\ b = t
  OBVIOUS
<1>2. /\ a \o b \in Seq(Int) /\ Len(a \o b) = Len(a) + Len(b)
      /\ \A n \in 1 .. Len(a) + Len(b) : (a \o b)[n] = IF n <= Len(a) THEN a[n] ELSE b[n - Len(a)]
  BY ConcatProperties
<1> QED BY <1>1, <1>2

LEMMA FromNothing ==
  ASSUME NEW s \in Seq(Int)
  PROVE  From(s, 0) = s /\ From(s, Len(s)) = <<>>
<1>1. Len(s) \in Nat /\ 0 \in 0 .. Len(s) /\ Len(s) \in 0 .. Len(s)
  OBVIOUS
<1>2. From(s, 0) = s
  <2>1. From(s, 0) \in Seq(Int) /\ Len(From(s, 0)) = Len(s) /\ \A n \in 1 .. Len(s) : From(s, 0)[n] = s[n]
    BY <1>1, FromIs
  <2> QED BY <2>1, SeqEqual
<1>3. From(s, Len(s)) = <<>>
  BY <1>1, SubSeqEmpty DEF From
<1> QED BY <1>2, <1>3

LEMMA FromJoined ==
  ASSUME NEW s \in Seq(Int), NEW t \in Seq(Int)
  PROVE  From(s \o t, Len(s)) = t
<1>1. /\ s \o t \in Seq(Int) /\ Len(s \o t) = Len(s) + Len(t)
      /\ \A n \in 1 .. Len(s) + Len(t) : (s \o t)[n] = IF n <= Len(s) THEN s[n] ELSE t[n - Len(s)]
  BY ConcatProperties
<1>2. Len(s) \in Nat /\ Len(t) \in Nat /\ Len(s) \in 0 .. Len(s \o t)
  BY <1>1
<1> DEFINE u == From(s \o t, Len(s))
<1>3. u \in Seq(Int) /\ Len(u) = Len(t) /\ \A n \in 1 .. Len(t) : u[n] = (s \o t)[Len(s) + n]
  <2>1. PICK x \in Seq(Int) : x = s \o t
    BY <1>1
  <2>2. Len(s) \in 0 .. Len(x) /\ Len(x) - Len(s) = Len(t)
    BY <1>1, <1>2, <2>1
  <2>3. /\ From(x, Len(s)) \in Seq(Int) /\ Len(From(x, Len(s))) = Len(x) - Len(s)
        /\ \A n \in 1 .. Len(x) - Len(s) : From(x, Len(s))[n] = x[Len(s) + n]
    BY <2>2, FromIs
  <2> QED BY <2>1, <2>2, <2>3
<1> HIDE DEF u
<1>4. \A n \in 1 .. Len(t) : u[n] = t[n]
  <2> TAKE n \in 1 .. Len(t)
  <2>1. Len(s) + n \in 1 .. Len(s) + Len(t) /\ ~ (Len(s) + n <= Len(s)) /\ (Len(s) + n) - Len(s) = n
    BY <1>2
  <2> QED BY <1>1, <1>3, <2>1
<1>5. u = t
  BY <1>3, <1>4, SeqEqual
<1> QED BY <1>5 DEF u

\* Something is sent behind what is still to be received.
LEMMA FromGrown ==
  ASSUME NEW s \in Seq(Int), NEW w \in Seq(Int), NEW k \in 0 .. Len(s)
  PROVE  From(s \o w, k) = From(s, k) \o w
<1>1. /\ s \o w \in Seq(Int) /\ Len(s \o w) = Len(s) + Len(w)
      /\ \A n \in 1 .. Len(s) + Len(w) : (s \o w)[n] = IF n <= Len(s) THEN s[n] ELSE w[n - Len(s)]
  BY ConcatProperties
<1>2. Len(s) \in Nat /\ Len(w) \in Nat /\ k \in Nat /\ k <= Len(s) /\ k \in 0 .. Len(s \o w)
  BY <1>1
<1> DEFINE a == From(s \o w, k)
           b == From(s, k)
<1>3. a \in Seq(Int) /\ Len(a) = Len(s) + Len(w) - k /\ \A n \in 1 .. Len(s) + Len(w) - k : a[n] = (s \o w)[k + n]
  <2>1. PICK x \in Seq(Int) : x = s \o w
    BY <1>1
  <2>2. k \in 0 .. Len(x) /\ Len(x) - k = Len(s) + Len(w) - k
    BY <1>1, <1>2, <2>1
  <2>3. /\ From(x, k) \in Seq(Int) /\ Len(From(x, k)) = Len(x) - k
        /\ \A n \in 1 .. Len(x) - k : From(x, k)[n] = x[k + n]
    BY <2>2, FromIs
  <2> QED BY <2>1, <2>2, <2>3
<1>4. b \in Seq(Int) /\ Len(b) = Len(s) - k /\ \A n \in 1 .. Len(s) - k : b[n] = s[k + n]
  BY FromIs
<1> HIDE DEF a, b
<1>5. /\ b \o w \in Seq(Int) /\ Len(b \o w) = Len(b) + Len(w)
      /\ \A n \in 1 .. Len(b) + Len(w) : (b \o w)[n] = IF n <= Len(b) THEN b[n] ELSE w[n - Len(b)]
  BY <1>4, JoinIs
<1>6. \A n \in 1 .. Len(s) + Len(w) - k : a[n] = (b \o w)[n]
  <2> TAKE n \in 1 .. Len(s) + Len(w) - k
  <2>0. k + n \in 1 .. Len(s) + Len(w) /\ n \in 1 .. Len(b) + Len(w) /\ n \in Nat
    BY <1>2, <1>4
  <2>1. CASE n <= Len(s) - k
    <3>1. n \in 1 .. Len(s) - k /\ k + n <= Len(s) /\ n <= Len(b)
      BY <1>2, <1>4, <2>1
    <3>2. a[n] = s[k + n]
      BY <1>1, <1>3, <2>0, <3>1
    <3> QED BY <1>4, <1>5, <2>0, <3>1, <3>2
  <2>2. CASE ~ (n <= Len(s) - k)
    <3>1. ~ (k + n <= Len(s)) /\ ~ (n <= Len(b)) /\ (k + n) - Len(s) = n - Len(b)
      BY <1>2, <1>4, <2>2
    <3>2. a[n] = w[(k + n) - Len(s)]
      BY <1>1, <1>3, <2>0, <3>1
    <3> QED BY <1>5, <2>0, <3>1, <3>2
  <2> QED BY <2>1, <2>2
<1>7. Len(b \o w) = Len(s) + Len(w) - k
  BY <1>2, <1>4, <1>5
<1>8. a = b \o w
  BY <1>3, <1>5, <1>6, <1>7, SeqEqual
<1> QED BY <1>8 DEF a, b

LEMMA FromTwice ==
  ASSUME NEW s \in Seq(Int), NEW k \in Nat, NEW l \in Nat, k + l <= Len(s)
  PROVE  From(From(s, k), l) = From(s, k + l)
<1>0. Len(s) \in Nat /\ k \in 0 .. Len(s) /\ k + l \in 0 .. Len(s)
  OBVIOUS
<1> DEFINE a == From(s, k)
           b == From(a, l)
           d == From(s, k + l)
<1>1. a \in Seq(Int) /\ Len(a) = Len(s) - k /\ \A n \in 1 .. Len(s) - k : a[n] = s[k + n]
  BY <1>0, FromIs
<1>2. d \in Seq(Int) /\ Len(d) = Len(s) - (k + l) /\ \A n \in 1 .. Len(s) - (k + l) : d[n] = s[(k + l) + n]
  BY <1>0, FromIs
<1>3. b \in Seq(Int) /\ Len(b) = Len(a) - l /\ \A n \in 1 .. Len(a) - l : b[n] = a[l + n]
  <2>1. l \in 0 .. Len(a)
    BY <1>0, <1>1
  <2> HIDE DEF a
  <2> QED BY <1>1, <2>1, FromIs
<1> HIDE DEF a, b, d
<1>4. \A n \in 1 .. Len(s) - (k + l) : b[n] = d[n]
  <2> TAKE n \in 1 .. Len(s) - (k + l)
  <2>1. n \in 1 .. Len(a) - l /\ l + n \in 1 .. Len(s) - k /\ k + (l + n) = (k + l) + n
    BY <1>0, <1>1
  <2> QED BY <1>1, <1>2, <1>3, <2>1
<1>5. Len(b) = Len(d)
  BY <1>0, <1>1, <1>2, <1>3
<1>6. b = d
  BY <1>2, <1>3, <1>4, <1>5, SeqEqual
<1> QED BY <1>6 DEF a, b, d

LEMMA PutIs ==
  ASSUME NEW buf \in Seq(Int), NEW s \in Seq(Int), NEW k \in Nat, k <= Len(buf), k <= Len(s)
  PROVE  /\ Put(buf, s, k) \in Seq(Int) /\ Len(Put(buf, s, k)) = Len(buf)
         /\ \A n \in 1 .. Len(buf) : Put(buf, s, k)[n] = IF n <= k THEN s[n] ELSE buf[n]
<1>0. Len(buf) \in Nat /\ Len(s) \in Nat /\ k \in 0 .. Len(buf) /\ k \in 0 .. Len(s)
  OBVIOUS
<1> DEFINE a == SubSeq(s, 1, k)
           b == From(buf, k)
<1>1. a \in Seq(Int) /\ Len(a) = k /\ \A n \in 1 .. k : a[n] = s[n]
  BY <1>0, FirstIs
<1>2. b \in Seq(Int) /\ Len(b) = Len(buf) - k /\ \A n \in 1 .. Len(buf) - k : b[n] = buf[k + n]
  BY <1>0, FromIs
<1>3. Put(buf, s, k) = a \o b
  BY DEF Put
<1> HIDE DEF a, b
<1>4. /\ a \o b \in Seq(Int) /\ Len(a \o b) = Len(buf)
      /\ \A n \in 1 .. Len(buf) : (a \o b)[n] = IF n <= k THEN a[n] ELSE b[n - k]
  <2>1. /\ a \o b \in Seq(Int) /\ Len(a \o b) = Len(a) + Len(b)
        /\ \A n \in 1 .. Len(a) + Len(b) : (a \o b)[n] = IF n <= Len(a) THEN a[n] ELSE b[n - Len(a)]
    BY <1>1, <1>2, JoinIs
  <2>2. Len(a) + Len(b) = Len(buf)
    BY <1>0, <1>1, <1>2
  <2> QED BY <1>1, <2>1, <2>2
<1>5. \A n \in 1 .. Len(buf) : (a \o b)[n] = IF n <= k THEN s[n] ELSE buf[n]
  <2> TAKE n \in 1 .. Len(buf)
  <2>1. CASE n <= k
    <3>1. n \in 1 .. k
      BY <1>0, <2>1
    <3> QED BY <1>1, <1>4, <2>1, <3>1
  <2>2. CASE ~ (n <= k)
    <3>1. n - k \in 1 .. Len(buf) - k /\ k + (n - k) = n
      BY <1>0, <2>2
    <3> QED BY <1>2, <1>4, <2>2, <3>1
  <2> QED BY <2>1, <2>2
<1> QED BY <1>3, <1>4, <1>5

\* A buffer that is received whole holds what was on the stream.
LEMMA PutWhole ==
  ASSUME NEW buf \in Seq(Int), NEW s \in Seq(Int), NEW t \in Seq(Int), Len(buf) = Len(s)
  PROVE  Put(buf, s \o t, Len(s)) = s
<1>1. /\ s \o t \in Seq(Int) /\ Len(s \o t) = Len(s) + Len(t)
      /\ \A n \in 1 .. Len(s) + Len(t) : (s \o t)[n] = IF n <= Len(s) THEN s[n] ELSE t[n - Len(s)]
  BY ConcatProperties
<1>2. Len(s) \in Nat /\ Len(t) \in Nat /\ Len(s) <= Len(s \o t)
  BY <1>1
<1> DEFINE p == Put(buf, s \o t, Len(s))
<1>3. p \in Seq(Int) /\ Len(p) = Len(s) /\ \A n \in 1 .. Len(s) : p[n] = (s \o t)[n]
  <2> DEFINE u == s \o t
  <2>1. u \in Seq(Int) /\ Len(s) <= Len(u)
    BY <1>1, <1>2
  <2> HIDE DEF u
  <2>2. /\ Put(buf, u, Len(s)) \in Seq(Int) /\ Len(Put(buf, u, Len(s))) = Len(buf)
        /\ \A n \in 1 .. Len(buf) : Put(buf, u, Len(s))[n] = IF n <= Len(s) THEN u[n] ELSE buf[n]
    BY <1>2, <2>1, PutIs
  <2> QED BY <1>2, <2>2 DEF u
<1> HIDE DEF p
<1>4. \A n \in 1 .. Len(s) : p[n] = s[n]
  BY <1>1, <1>2, <1>3
<1>5. p = s
  BY <1>3, <1>4, SeqEqual
<1> QED BY <1>5 DEF p

LEMMA ReceivableIs ==
  ASSUME NEW s \in Seq(Int), NEW n \in Nat, NEW k \in Receivable(s, n)
  PROVE  k \in Nat /\ k >= 1 /\ k <= n /\ k <= Len(s)
<1>1. Len(s) \in Nat
  OBVIOUS
<1>2. Min({n, Len(s)}) = IF n <= Len(s) THEN n ELSE Len(s)
  <2> DEFINE m == IF n <= Len(s) THEN n ELSE Len(s)
  <2>1. \A x \in {n, Len(s)} : (\A y \in {n, Len(s)} : x <= y) <=> x = m
    BY <1>1
  <2>2. m \in {n, Len(s)}
    OBVIOUS
  <2> HIDE DEF m
  <2>3. Min({n, Len(s)}) = m
    BY <2>1, <2>2 DEF Min
  <2> QED BY <2>3 DEF m
<1>3. k \in 1 .. Min({n, Len(s)})
  BY DEF Receivable
<1> QED BY <1>1, <1>2, <1>3

-----------------------------------------------------------------------------
(* The inductive invariant, in terms of one client me, the child kid that  *)
(* serves it, and the streams u and d between them.                        *)

Ended(kid)   == kid.pc \in {"zombie", "gone"}
Awaiting(me) == me.pc \in {"payload", "data"}

\* The command the client is at.
Now(me) == me.script[me.at]

\* Where the client is in its script.
Placed(me) ==
  /\ me.script # <<>> /\ me.script[Len(me.script)].op = CC_EXIT
  /\ me.at <= Len(me.script) + 1 /\ (me.pc # "over" => me.at <= Len(me.script))
  /\ me.pc = "none" => me.at = 1
  /\ Awaiting(me) => Now(me).op \in {CC_LS, CC_GET}
  /\ me.pc = "payload" => Len(me.buf) = 2
  /\ me.pc \in {"put", "send"} => Now(me).op = CC_PUT
  /\ me.pc = "send" => Now(me).name \in DOMAIN ClientFiles

\* What a child answers is there.
Offering(kid) ==
  /\ kid.pc = "head" => kid.cmd[1] \in {CC_LS, CC_GET}
  /\ kid.pc = "body" => kid.cmd[1] = CC_LS \/ kid.cmd[2] \in DOMAIN ServerFiles

\* What the client sends of a command.
HeadOf(r)  == <<r.op, r.name>>
FileOf(r)  == ClientFiles[r.name]
SizeOf(r)  == <<PL_FILE, Len(FileOf(r))>>
Message(r) == IF r.op = CC_PUT THEN (HeadOf(r) \o SizeOf(r)) \o FileOf(r) ELSE HeadOf(r)

\* How many commands it has sent whole, and what it has sent of the next one.
SentFile(me) == me.pc = "send" /\ FileOf(Now(me)) = <<>>
Full(me) == IF Awaiting(me) \/ SentFile(me) THEN me.at ELSE me.at - 1
Partial(me) ==
  IF me.pc = "put" THEN HeadOf(Now(me))
  ELSE IF me.pc = "send" /\ ~SentFile(me) THEN HeadOf(Now(me)) \o SizeOf(Now(me)) ELSE <<>>

\* rest[k] is all that was sent from command k on.
Stream(me, rest) ==
  /\ rest \in [1 .. Full(me) + 1 -> Seq(Int)]
  /\ rest[Full(me) + 1] = Partial(me)
  /\ \A k \in 1 .. Full(me) :
       /\ rest[k] = Message(me.script[k]) \o rest[k + 1]
       /\ me.script[k].op = CC_PUT => me.script[k].name \in DOMAIN ClientFiles

\* The words a child has read of the command it is at.
Skipped(kid) == IF kid.pc = "data" THEN 4 ELSE IF kid.pc \in {"head", "body", "payload"} THEN 2 ELSE 0

\* The child is at command j, and the rest of it is on its way up.
Upward(me, kid, u, j, rest) ==
  /\ Skipped(kid) <= Len(rest[j]) /\ u = From(rest[j], Skipped(kid))
  /\ Skipped(kid) # 0 => /\ j <= Len(me.script)
                         /\ kid.cmd[1] = me.script[j].op /\ kid.cmd[2] = me.script[j].name
  /\ kid.pc \in {"head", "body"} => j <= Full(me) /\ me.script[j].op \in {CC_LS, CC_GET}
  /\ kid.pc \in {"payload", "data"} => me.script[j].op = CC_PUT
  /\ kid.pc = "data" => /\ me.script[j].name \in DOMAIN ClientFiles
                        /\ Len(kid.buf) = Len(FileOf(me.script[j])) /\ kid.nb = 0
  /\ \A k \in 1 .. j - 1 : me.script[k].op # CC_EXIT

\* The answer to a command, and what announces it.
AnswerOf(r)   == IF r.op = CC_LS THEN Listing ELSE ServerFiles[r.name]
AnnounceOf(r) == <<IF r.op = CC_LS THEN PL_TXT ELSE PL_FILE, Len(AnswerOf(r))>>
Answerable(r) == r.op = CC_LS \/ r.name \in DOMAIN ServerFiles

\* What a child at command j has sent of the answer the client waits for.
Given(me, kid, j) ==
  IF j > me.at THEN AnnounceOf(Now(me)) \o AnswerOf(Now(me))
  ELSE IF j = me.at /\ kid.pc = "body" THEN AnnounceOf(Now(me)) ELSE <<>>

\* Commands are answered one by one, and what the client has not received of
\* the answer is on its way down.
Downward(me, kid, d, j) ==
  /\ \A k \in j .. Full(me) :
       (k = j => kid.pc \in {"none", "cmd", "head"}) /\ me.script[k].op \in {CC_LS, CC_GET} =>
         me.pc = "over" \/ (me.pc = "payload" /\ k = me.at)
  /\ kid.pc = "body" =>
       me.pc = "over" \/ (Awaiting(me) /\ j = me.at) \/ AnswerOf(me.script[j]) = <<>>
  /\ Awaiting(me) /\ (j > me.at \/ (j = me.at /\ kid.pc = "body")) => Answerable(Now(me))
  /\ Awaiting(me) => me.nb = 0
  /\ me.pc = "payload" => d = Given(me, kid, j)
  /\ me.pc = "data" => /\ Given(me, kid, j) # <<>> /\ d = From(Given(me, kid, j), 2)
                       /\ Len(me.buf) = Len(AnswerOf(Now(me)))
  /\ ~Awaiting(me) /\ me.pc # "over" => d = <<>>

Protocol(me, kid, u, d) ==
  \E rest : /\ Stream(me, rest)
            /\ \E j \in 1 .. Full(me) + 1 : Upward(me, kid, u, j, rest) /\ Downward(me, kid, d, j)

\* A child serves its client, or it has ended with it, or because a file was
\* not there.
Serves(me, kid, u, d) ==
  IF Ended(kid) THEN me.pc = "over" \/ (kid.cmd[1] # CC_EXIT /\ me.pc = "payload" /\ d = <<>>)
  ELSE /\ me.pc # "over" => \A k \in 1 .. Full(me) : me.script[k].op # CC_EXIT
       /\ Protocol(me, kid, u, d)

AllPlaced == \A c \in Clients : Placed(client[c]) /\ Offering(child[c])

\* Connections wait once, and before they are served.
Queued ==
  /\ \A j, k \in DOMAIN pending : pending[j] = pending[k] => j = k
  /\ \A k \in DOMAIN pending : client[pending[k]].pc # "none" /\ child[pending[k]].pc = "none"
  /\ \A c \in Clients : client[c].pc = "none" => child[c].pc = "none"

\* The server ends only without children.
DeadIsAlone == srv = "dead" => \A c \in Clients : ~Alive(c)

AllServed ==
  short = 0 => \A c \in Clients : Aborted(c) \/ Serves(client[c], child[c], up[c], down[c])

TransferInv == TypeOK /\ AllPlaced /\ Queued /\ DeadIsAlone /\ AllServed /\ ReceivedWhole

-----------------------------------------------------------------------------
(* What the variables hold.                                                *)

ClientStates ==
  [pc : {"none", "ask", "payload", "data", "put", "send", "over"}, script : Seq(Commands), at : Nat \ {0},
   code : Int, buf : Seq(Int), nb : Nat]

ChildStates ==
  [pc : {"none", "cmd", "head", "body", "payload", "data", "zombie", "gone"}, cmd : [1 .. 2 -> Int],
   buf : Seq(Int), nb : Nat]

LEMMA BufferIs ==
  ASSUME NEW n \in Int, NEW word \in Int
  PROVE  /\ [k \in 1 .. n |-> word] \in Seq(Int)
         /\ Len([k \in 1 .. n |-> word]) = IF n > 0 THEN n ELSE 0
<1> DEFINE m == IF n > 0 THEN n ELSE 0
           b == [k \in 1 .. m |-> word]
<1>1. m \in Nat /\ 1 .. n = 1 .. m
  OBVIOUS
<1>2. b \in [1 .. m -> Int] /\ DOMAIN b = 1 .. m
  OBVIOUS
<1>3. [k \in 1 .. n |-> word] = b
  BY <1>1
<1> HIDE DEF m
<1>4. b \in Seq(Int) /\ Len(b) = m
  <2> HIDE DEF b
  <2>1. b \in Seq(Int)
    BY <1>1, <1>2
  <2> QED BY <1>1, <1>2, <2>1
<1> QED BY <1>3, <1>4 DEF m

LEMMA FreshIs ==
  ASSUME NEW me \in ClientStates, NEW pc \in {"payload", "data"}, NEW n \in Int, NEW word \in Int,
         NEW ep, ep = Fresh(me, pc, n, word)
  PROVE  /\ ep \in ClientStates /\ ep.pc = pc /\ ep.script = me.script /\ ep.at = me.at /\ ep.nb = 0
         /\ Len(ep.buf) = IF n > 0 THEN n ELSE 0
<1> DEFINE b == [k \in 1 .. n |-> word]
<1>1. b \in Seq(Int) /\ Len(b) = IF n > 0 THEN n ELSE 0
  BY BufferIs
<1>2. ep = [me EXCEPT !.pc = pc, !.buf = b, !.nb = 0]
  BY DEF Fresh
<1> HIDE DEF b
<1>3. ep = [pc |-> pc, script |-> me.script, at |-> me.at, code |-> me.code, buf |-> b, nb |-> 0]
  BY <1>2 DEF ClientStates
<1>4. ep.pc = pc /\ ep.script = me.script /\ ep.at = me.at /\ ep.nb = 0 /\ ep.buf = b
  BY <1>3
<1>5. me.script \in Seq(Commands) /\ me.at \in Nat \ {0} /\ me.code \in Int
  BY DEF ClientStates
<1>6. ep \in ClientStates
  BY <1>1, <1>3, <1>5 DEF ClientStates
<1> QED BY <1>1, <1>4, <1>6

\* The buffer for what a payload announces.
LEMMA AnnouncementIs ==
  ASSUME NEW me \in ClientStates, Len(me.buf) = 2, NEW ep, ep = Announcement(me)
  PROVE  /\ ep \in ClientStates /\ ep.pc = "data" /\ ep.script = me.script /\ ep.at = me.at /\ ep.nb = 0
         /\ Len(ep.buf) = IF me.buf[2] > 0 THEN me.buf[2] ELSE 0
<1>1. me.buf \in Seq(Int) /\ me.buf[1] \in Int /\ me.buf[2] \in Int
  <2>1. me.buf \in Seq(Int)
    BY DEF ClientStates
  <2> QED BY <2>1
<1>2. PICK code \in Int, n \in Int, zero \in Int : code = me.buf[1] /\ n = me.buf[2] /\ zero = 0
  BY <1>1
<1>3. PICK coded : coded = [me EXCEPT !.code = code]
  OBVIOUS
<1>4. coded \in ClientStates /\ coded.script = me.script /\ coded.at = me.at
  BY <1>3 DEF ClientStates
<1>5. ep = Fresh(coded, "data", n, zero)
  BY <1>2, <1>3 DEF Announcement
<1> QED BY <1>2, <1>4, <1>5, FreshIs

LEMMA FreshChildIs ==
  ASSUME NEW kid \in ChildStates, NEW n \in Int, NEW word \in Int,
         NEW ep, ep = Fresh(kid, "data", n, word)
  PROVE  /\ ep \in ChildStates /\ ep.pc = "data" /\ ep.cmd = kid.cmd /\ ep.nb = 0
         /\ Len(ep.buf) = IF n > 0 THEN n ELSE 0
<1> DEFINE b == [k \in 1 .. n |-> word]
<1>1. b \in Seq(Int) /\ Len(b) = IF n > 0 THEN n ELSE 0
  BY BufferIs
<1>2. ep = [kid EXCEPT !.pc = "data", !.buf = b, !.nb = 0]
  BY DEF Fresh
<1> HIDE DEF b
<1>3. ep = [pc |-> "data", cmd |-> kid.cmd, buf |-> b, nb |-> 0]
  BY <1>2 DEF ChildStates
<1>4. ep.pc = "data" /\ ep.cmd = kid.cmd /\ ep.nb = 0 /\ ep.buf = b
  BY <1>3
<1>5. kid.cmd \in [1 .. 2 -> Int]
  BY DEF ChildStates
<1>6. ep \in ChildStates
  BY <1>1, <1>3, <1>5 DEF ChildStates
<1> QED BY <1>1, <1>4, <1>6

LEMMA AmountsIs ==
  ASSUME NEW ep, ep.buf \in Seq(Int), NEW s \in Seq(Int), NEW closed, NEW k \in Amounts(ep, s, closed)
  PROVE  k \in Nat /\ k <= Len(ep.buf) /\ k <= Len(s) /\ (ep.buf # <<>> => k >= 1)
<1> DEFINE b == ep.buf
<1>1. b \in Seq(Int) /\ Len(b) \in Nat /\ Len(s) \in Nat
  OBVIOUS
<1>2. IF b = <<>> THEN k = 0 ELSE k \in Receivable(s, Len(b))
  BY DEF Amounts
<1> HIDE DEF b
<1>3. k \in Nat /\ k <= Len(b) /\ k <= Len(s) /\ (b # <<>> => k >= 1)
  <2>1. CASE b = <<>>
    BY <1>1, <1>2, <2>1
  <2>2. CASE b # <<>>
    <3>1. k \in Receivable(s, Len(b))
      BY <1>2, <2>2
    <3> QED BY <1>1, <3>1, ReceivableIs
  <2> QED BY <2>1, <2>2
<1> QED BY <1>3 DEF b

LEMMA ReceivedIs ==
  ASSUME NEW me \in ClientStates, NEW s \in Seq(Int), NEW k \in Nat, k <= Len(me.buf), k <= Len(s),
         NEW ep, ep = Received(me, s, k)
  PROVE  /\ ep \in ClientStates /\ ep.pc = me.pc /\ ep.script = me.script /\ ep.at = me.at
         /\ ep.buf = Put(me.buf, s, k) /\ Len(ep.buf) = Len(me.buf) /\ ep.nb = me.nb + k
<1>1. PICK b \in Seq(Int) : b = me.buf
  BY DEF ClientStates
<1>2. Put(b, s, k) \in Seq(Int) /\ Len(Put(b, s, k)) = Len(b)
  BY <1>1, PutIs
<1>3. ep = [me EXCEPT !.buf = Put(b, s, k), !.nb = me.nb + k]
  BY <1>1 DEF Received, ClientStates
<1>4. ep = [pc |-> me.pc, script |-> me.script, at |-> me.at, code |-> me.code, buf |-> Put(b, s, k), nb |-> me.nb + k]
  BY <1>3 DEF ClientStates
<1>5. ep.pc = me.pc /\ ep.script = me.script /\ ep.at = me.at /\ ep.nb = me.nb + k /\ ep.buf = Put(b, s, k)
  BY <1>4
<1>6. /\ me.pc \in {"none", "ask", "payload", "data", "put", "send", "over"}
      /\ me.script \in Seq(Commands) /\ me.at \in Nat \ {0} /\ me.nb + k \in Nat /\ me.code \in Int
  BY DEF ClientStates
<1>7. ep \in ClientStates
  BY <1>2, <1>4, <1>6 DEF ClientStates
<1> QED BY <1>1, <1>2, <1>5, <1>7

LEMMA ReceivedChildIs ==
  ASSUME NEW kid \in ChildStates, NEW s \in Seq(Int), NEW k \in Nat, k <= Len(kid.buf), k <= Len(s),
         NEW ep, ep = Received(kid, s, k)
  PROVE  /\ ep \in ChildStates /\ ep.pc = kid.pc /\ ep.cmd = kid.cmd
         /\ ep.buf = Put(kid.buf, s, k) /\ Len(ep.buf) = Len(kid.buf) /\ ep.nb = kid.nb + k
<1>1. PICK b \in Seq(Int) : b = kid.buf
  BY DEF ChildStates
<1>2. Put(b, s, k) \in Seq(Int) /\ Len(Put(b, s, k)) = Len(b)
  BY <1>1, PutIs
<1>3. ep = [kid EXCEPT !.buf = Put(b, s, k), !.nb = kid.nb + k]
  BY <1>1 DEF Received, ChildStates
<1>4. ep = [pc |-> kid.pc, cmd |-> kid.cmd, buf |-> Put(b, s, k), nb |-> kid.nb + k]
  BY <1>3 DEF ChildStates
<1>5. ep.pc = kid.pc /\ ep.cmd = kid.cmd /\ ep.nb = kid.nb + k /\ ep.buf = Put(b, s, k)
  BY <1>4
<1>6. /\ kid.pc \in {"none", "cmd", "head", "body", "payload", "data", "zombie", "gone"}
      /\ kid.cmd \in [1 .. 2 -> Int] /\ kid.nb + k \in Nat
  BY DEF ChildStates
<1>7. ep \in ChildStates
  BY <1>2, <1>4, <1>6 DEF ChildStates
<1> QED BY <1>1, <1>2, <1>5, <1>7

\* Only process c of its kind has moved, and it does not start again.
ClientAt(c) == client'[c].pc # "none" /\ \A x \in Clients : x # c => client'[x] = client[x]
ChildAt(c)  == child'[c].pc # "none" /\ \A x \in Clients : x # c => child'[x] = child[x]

LEMMA ClientMoves ==
  ASSUME TypeOK, AllPlaced, NEW c \in Clients, NEW me \in ClientStates, Placed(me), me.pc # "none",
         client' = [client EXCEPT ![c] = me], child' = child
  PROVE  client' \in [Clients -> ClientStates] /\ child' \in [Clients -> ChildStates] /\ AllPlaced' /\ ClientAt(c)
<1>1. client \in [Clients -> ClientStates] /\ child' \in [Clients -> ChildStates]
  BY DEF TypeOK, ClientStates, ChildStates
<1>2. client' \in [Clients -> ClientStates] /\ \A x \in Clients : client'[x] = IF x = c THEN me ELSE client[x]
  BY <1>1
<1>3. \A x \in Clients : Placed(client'[x]) /\ Offering(child'[x])
  BY <1>2 DEF AllPlaced
<1> QED BY <1>1, <1>2, <1>3 DEF AllPlaced, ClientAt

LEMMA ChildMoves ==
  ASSUME TypeOK, AllPlaced, NEW c \in Clients, NEW kid \in ChildStates, Offering(kid),
         kid.pc # "none", child' = [child EXCEPT ![c] = kid], client' = client
  PROVE  client' \in [Clients -> ClientStates] /\ child' \in [Clients -> ChildStates] /\ AllPlaced' /\ ChildAt(c)
<1>1. client' \in [Clients -> ClientStates] /\ child \in [Clients -> ChildStates]
  BY DEF TypeOK, ClientStates, ChildStates
<1>2. child' \in [Clients -> ChildStates] /\ \A x \in Clients : child'[x] = IF x = c THEN kid ELSE child[x]
  BY <1>1
<1>3. \A x \in Clients : Placed(client'[x]) /\ Offering(child'[x])
  BY <1>2 DEF AllPlaced
<1> QED BY <1>1, <1>2, <1>3 DEF AllPlaced, ChildAt

\* The command a client is at.
LEMMA AtCommand ==
  ASSUME NEW me \in ClientStates, Placed(me), me.at <= Len(me.script)
  PROVE  Now(me) \in Commands /\ Now(me).op \in {CC_LS, CC_GET, CC_PUT, CC_EXIT} /\ Now(me).name \in Int
         /\ me.at \in 1 .. Len(me.script)
<1>1. me.script \in Seq(Commands) /\ me.at \in Nat \ {0}
  BY DEF ClientStates
<1>2. PICK s \in Seq(Commands), n \in Nat : s = me.script /\ n = me.at /\ n >= 1 /\ n <= Len(s)
  BY <1>1
<1>3. s[n] \in Commands
  BY <1>2
<1> QED BY <1>2, <1>3 DEF Now, Commands

LEMMA TypeInit ==
  Init => TypeOK /\ AllPlaced
<1> SUFFICES ASSUME Init
             PROVE  TypeOK /\ AllPlaced
  OBVIOUS
<1>1. PICK s \in Sessions : client = [c \in Clients |-> Client(s[c])]
  BY DEF Init
<1>2. \A c \in Clients : s[c] \in Seq(Commands) /\ s[c] # <<>> /\ s[c][Len(s[c])].op = CC_EXIT
  BY TransferAssumption
<1>3. \A c \in Clients : Client(s[c]) \in ClientStates /\ Client(s[c]).pc = "none" /\ Client(s[c]).at = 1
                         /\ Client(s[c]).script = s[c]
  BY <1>2 DEF Client, ClientStates, PL_TXT
<1>4. <<0, 0>> \in [1 .. 2 -> Int]
  OBVIOUS
<1>5. Child("none", <<0, 0>>) \in ChildStates /\ Child("none", <<0, 0>>).pc = "none"
  BY <1>4 DEF Child, ChildStates
<1>6. client \in [Clients -> ClientStates] /\ child \in [Clients -> ChildStates]
  BY <1>1, <1>3, <1>5 DEF Init
<1>7. MaxFaults \in Nat
  BY TransferAssumption
<1>8. TypeOK
  BY <1>6, <1>7 DEF Init, TypeOK, ClientStates, ChildStates
<1>9. \A c \in Clients : Placed(client[c]) /\ Offering(child[c])
  <2> TAKE c \in Clients
  <2>1. client[c] = Client(s[c]) /\ child[c] = Child("none", <<0, 0>>)
    BY <1>1 DEF Init
  <2>2. PICK me : me = client[c]
    OBVIOUS
  <2>3. me.pc = "none" /\ me.at = 1 /\ me.script = s[c] /\ Len(s[c]) \in Nat /\ Len(s[c]) # 0
    BY <1>2, <1>3, <2>1, <2>2, EmptySeq
  <2>4. Placed(me)
    BY <1>2, <2>3 DEF Placed, Awaiting
  <2> QED BY <1>5, <2>1, <2>2, <2>4 DEF Offering
<1> QED BY <1>8, <1>9 DEF AllPlaced

\* TypeOK without the two processes of a connection.
RestOK ==
  /\ up \in [Clients -> Seq(Int)] /\ down \in [Clients -> Seq(Int)]
  /\ pending \in Seq(Clients) /\ srv \in {"accept", "reap", "dead"}
  /\ short \in {0, 1} /\ kills \in 0 .. MaxFaults /\ failures \in 0 .. MaxFaults
  /\ saved \subseteq [session : Clients, op : {CC_LS, CC_GET, CC_PUT}, name : Int, data : Seq(Int)]

LEMMA TypeParts ==
  TypeOK <=> client \in [Clients -> ClientStates] /\ child \in [Clients -> ChildStates] /\ RestOK
BY DEF TypeOK, RestOK, ClientStates, ChildStates

\* Words are sent.
LEMMA SendTypes ==
  ASSUME NEW f \in [Clients -> Seq(Int)], NEW c \in Clients, NEW w \in Seq(Int), NEW g,
         g = [f EXCEPT ![c] = @ \o w]
  PROVE  /\ g \in [Clients -> Seq(Int)] /\ g[c] = f[c] \o w /\ \A x \in Clients : x # c => g[x] = f[x]
<1>1. PICK s \in Seq(Int) : s = f[c]
  OBVIOUS
<1>2. s \o w \in Seq(Int)
  BY JoinIs
<1> QED BY <1>1, <1>2

\* Words are received.
LEMMA RecvTypes ==
  ASSUME NEW f \in [Clients -> Seq(Int)], NEW c \in Clients, NEW k \in Nat, k <= Len(f[c]), NEW g,
         g = [f EXCEPT ![c] = From(@, k)]
  PROVE  /\ g \in [Clients -> Seq(Int)] /\ g[c] = From(f[c], k) /\ \A x \in Clients : x # c => g[x] = f[x]
<1>1. PICK s \in Seq(Int) : s = f[c]
  OBVIOUS
<1>2. From(s, k) \in Seq(Int)
  <2>1. k \in 0 .. Len(s)
    BY <1>1
  <2> QED BY <2>1, FromIs
<1> QED BY <1>1, <1>2

LEMMA ShortTypes ==
  ASSUME short \in {0, 1}, NEW k, NEW n, CountShort(k, n)
  PROVE  short' \in {0, 1}
BY DEF CountShort

LEMMA PairIs ==
  ASSUME NEW a \in Int, NEW b \in Int
  PROVE  <<a, b>> \in Seq(Int) /\ Len(<<a, b>>) = 2 /\ <<a, b>>[1] = a /\ <<a, b>>[2] = b
OBVIOUS

LEMMA StopIs ==
  ASSUME NEW me \in ClientStates, NEW ep, ep = Stop(me)
  PROVE  /\ ep \in ClientStates /\ ep.pc = "over" /\ ep.script = me.script /\ ep.at = me.at
<1>0. <<>> \in Seq(Int)
  BY EmptySeq
<1>1. PICK e \in Seq(Int) : e = <<>>
  BY <1>0
<1>2. ep = [me EXCEPT !.pc = "over", !.buf = e, !.nb = 0]
  BY <1>1 DEF Stop
<1>3. ep = [pc |-> "over", script |-> me.script, at |-> me.at, code |-> me.code, buf |-> e, nb |-> 0]
  BY <1>2 DEF ClientStates
<1>4. ep.pc = "over" /\ ep.script = me.script /\ ep.at = me.at
  BY <1>3
<1>5. me.script \in Seq(Commands) /\ me.at \in Nat \ {0} /\ me.code \in Int
  BY DEF ClientStates
<1>6. ep \in ClientStates
  BY <1>3, <1>5 DEF ClientStates
<1> QED BY <1>4, <1>6

LEMMA AgainIs ==
  ASSUME NEW me \in ClientStates, NEW ep, ep = Again(me)
  PROVE  /\ ep \in ClientStates /\ ep.pc = "ask" /\ ep.script = me.script /\ ep.at = me.at + 1
<1>0. <<>> \in Seq(Int)
  BY EmptySeq
<1>1. PICK e \in Seq(Int) : e = <<>>
  BY <1>0
<1>2. ep = [me EXCEPT !.pc = "ask", !.at = me.at + 1, !.buf = e, !.nb = 0]
  BY <1>1 DEF Again, ClientStates
<1>3. ep = [pc |-> "ask", script |-> me.script, at |-> me.at + 1, code |-> me.code, buf |-> e, nb |-> 0]
  BY <1>2 DEF ClientStates
<1>4. ep.pc = "ask" /\ ep.script = me.script /\ ep.at = me.at + 1
  BY <1>3
<1>5. me.script \in Seq(Commands) /\ me.at \in Nat \ {0} /\ me.code \in Int
  BY DEF ClientStates
<1>6. me.at + 1 \in Nat \ {0}
  BY <1>5
<1>7. ep \in ClientStates
  BY <1>3, <1>5, <1>6 DEF ClientStates
<1> QED BY <1>4, <1>7

\* A state in which only where it is has changed.
LEMMA GoIs ==
  ASSUME NEW me \in ClientStates, NEW pc \in {"ask", "put", "send", "over"}, NEW ep, ep = [me EXCEPT !.pc = pc]
  PROVE  /\ ep \in ClientStates /\ ep.pc = pc /\ ep.script = me.script /\ ep.at = me.at
<1>1. ep = [pc |-> pc, script |-> me.script, at |-> me.at, code |-> me.code, buf |-> me.buf, nb |-> me.nb]
  BY DEF ClientStates
<1>2. me.script \in Seq(Commands) /\ me.at \in Nat \ {0} /\ me.code \in Int /\ me.buf \in Seq(Int) /\ me.nb \in Nat
  BY DEF ClientStates
<1> QED BY <1>1, <1>2 DEF ClientStates

\* EXIT ends the client one command further.
LEMMA QuitIs ==
  ASSUME NEW me \in ClientStates, NEW ep, ep = Stop([me EXCEPT !.at = @ + 1])
  PROVE  /\ ep \in ClientStates /\ ep.pc = "over" /\ ep.script = me.script /\ ep.at = me.at + 1
<1>1. PICK me2 : me2 = [me EXCEPT !.at = @ + 1]
  OBVIOUS
<1>2. me2 = [pc |-> me.pc, script |-> me.script, at |-> me.at + 1, code |-> me.code, buf |-> me.buf, nb |-> me.nb]
  BY <1>1 DEF ClientStates
<1>3. /\ me.script \in Seq(Commands) /\ me.at + 1 \in Nat \ {0} /\ me.code \in Int /\ me.buf \in Seq(Int) /\ me.nb \in Nat
      /\ me.pc \in {"none", "ask", "payload", "data", "put", "send", "over"}
  BY DEF ClientStates
<1>4. me2 \in ClientStates /\ me2.script = me.script /\ me2.at = me.at + 1
  BY <1>2, <1>3 DEF ClientStates
<1>5. ep = Stop(me2)
  BY <1>1
<1> QED BY <1>4, <1>5, StopIs

LEMMA ClientTypes ==
  ASSUME TypeOK, AllPlaced, NEW c \in Clients, ClientStep(c) \/ Kill(c)
  PROVE  TypeOK' /\ AllPlaced' /\ ClientAt(c)
<1>1. client \in [Clients -> ClientStates] /\ child \in [Clients -> ChildStates] /\ RestOK
  BY TypeParts
<1>2. PICK me \in ClientStates : me = client[c]
  BY <1>1
<1>3. Placed(me)
  BY <1>2 DEF AllPlaced
<1>4. /\ me.script \in Seq(Commands) /\ me.at \in Nat \ {0} /\ me.buf \in Seq(Int) /\ me.nb \in Nat
      /\ Len(me.script) \in Nat
  BY DEF ClientStates
<1>5. SUFFICES client' \in [Clients -> ClientStates] /\ child' \in [Clients -> ChildStates] /\ AllPlaced' /\ ClientAt(c) /\ RestOK'
  <2>1. TypeOK' <=> client' \in [Clients -> ClientStates] /\ child' \in [Clients -> ChildStates] /\ RestOK'
    BY DEF TypeOK, RestOK, ClientStates, ChildStates
  <2> QED BY <2>1
<1>6. ASSUME NEW to \in ClientStates, Placed(to), to.pc # "none", client' = [client EXCEPT ![c] = to], child' = child
      PROVE  client' \in [Clients -> ClientStates] /\ child' \in [Clients -> ChildStates] /\ AllPlaced' /\ ClientAt(c)
  BY <1>6, ClientMoves
<1>7. me.pc # "over" => /\ Now(me) \in Commands /\ Now(me).op \in {CC_LS, CC_GET, CC_PUT, CC_EXIT}
                        /\ Now(me).name \in Int /\ me.at \in 1 .. Len(me.script)
  BY <1>3, AtCommand DEF Placed
<1>8. Request(c) = Now(me)
  BY <1>2 DEF Request, Now
<1>9. Stop(me) \in ClientStates /\ Placed(Stop(me)) /\ Stop(me).pc = "over"
  <2>1. PICK ep : ep = Stop(me)
    OBVIOUS
  <2>2. ep \in ClientStates /\ ep.pc = "over" /\ ep.script = me.script /\ ep.at = me.at
    BY <2>1, StopIs
  <2> QED BY <1>3, <2>1, <2>2 DEF Placed, Awaiting, Now
<1>10. me.pc # "over" /\ me.at < Len(me.script) => Again(me) \in ClientStates /\ Placed(Again(me)) /\ Again(me).pc = "ask"
  <2>1. PICK ep : ep = Again(me)
    OBVIOUS
  <2>2. ep \in ClientStates /\ ep.pc = "ask" /\ ep.script = me.script /\ ep.at = me.at + 1
    BY <2>1, AgainIs
  <2> QED BY <1>3, <1>4, <2>1, <2>2 DEF Placed, Awaiting, Now
<1>11. me.pc # "over" /\ Now(me).op # CC_EXIT => me.at < Len(me.script)
  BY <1>3, <1>4, <1>7 DEF Placed, Now
<1>12. ASSUME NEW s \in Seq(Int), up' = [up EXCEPT ![c] = @ \o s]
       PROVE  up' \in [Clients -> Seq(Int)]
  BY <1>1, <1>12, SendTypes DEF RestOK
<1>13. CASE Connect(c)
  <2>1. me.pc = "none"
    BY <1>13, <1>2 DEF Connect
  <2> DEFINE to == [me EXCEPT !.pc = IF srv = "dead" THEN "over" ELSE "ask"]
  <2>2. client' = [client EXCEPT ![c] = to] /\ child' = child
    BY <1>13, <1>2 DEF Connect
  <2>3. PICK pc \in {"ask", "over"} : to = [me EXCEPT !.pc = pc]
    OBVIOUS
  <2> HIDE DEF to
  <2>4. to \in ClientStates /\ Placed(to) /\ to.pc # "none"
    <3>1. to \in ClientStates /\ to.pc = pc /\ to.script = me.script /\ to.at = me.at
      BY <2>3, GoIs
    <3> QED BY <1>3, <2>1, <3>1 DEF Placed, Awaiting, Now
  <2>5. pending' \in Seq(Clients)
    BY <1>1, <1>13 DEF Connect, RestOK
  <2>6. RestOK'
    BY <1>1, <1>13, <2>5 DEF Connect, RestOK, streams, faults
  <2> QED BY <1>6, <2>2, <2>4, <2>6
<1>14. ASSUME NEW op \in {CC_LS, CC_GET}, Ask(c, op, Await(c))
       PROVE  client' \in [Clients -> ClientStates] /\ child' \in [Clients -> ChildStates] /\ AllPlaced' /\ ClientAt(c) /\ RestOK'
  <2>1. me.pc = "ask" /\ Now(me).op = op
    BY <1>14, <1>2, <1>8 DEF Ask
  <2>2. PICK w \in StackWords : client' = [client EXCEPT ![c] = Fresh(me, "payload", 2, w)]
    BY <1>14, <1>2 DEF Ask, Await
  <2>3. PICK to : to = Fresh(me, "payload", 2, w)
    OBVIOUS
  <2>4. w \in Int
    BY TransferAssumption
  <2>5. to \in ClientStates /\ to.pc = "payload" /\ to.script = me.script /\ to.at = me.at /\ Len(to.buf) = 2
    <3>1. PICK n \in Int : n = 2
      OBVIOUS
    <3>2. to = Fresh(me, "payload", n, w)
      BY <2>3, <3>1
    <3>3. /\ to \in ClientStates /\ to.pc = "payload" /\ to.script = me.script /\ to.at = me.at
          /\ Len(to.buf) = IF n > 0 THEN n ELSE 0
      BY <2>4, <3>2, FreshIs
    <3> QED BY <3>1, <3>3
  <2>6. Placed(to)
    BY <1>3, <2>1, <2>5 DEF Placed, Awaiting, Now
  <2>7. PICK s \in Seq(Int) : s = <<op, Now(me).name>>
    <3>1. PICK a \in Int, b \in Int : a = op /\ b = Now(me).name
      BY <1>7, <2>1 DEF CC_LS, CC_GET
    <3>2. <<a, b>> \in Seq(Int)
      BY PairIs
    <3> QED BY <3>1, <3>2
  <2>8. up' \in [Clients -> Seq(Int)]
    BY <1>12, <1>14, <1>8, <2>7 DEF Ask
  <2>9. RestOK'
    BY <1>1, <1>14, <2>8 DEF Ask, RestOK, faults
  <2>10. child' = child
    BY <1>14 DEF Ask
  <2> QED BY <1>6, <2>2, <2>3, <2>5, <2>6, <2>9, <2>10
<1>15. CASE DoPUTCommand(c)
  <2>1. me.pc = "ask" /\ Now(me).op = CC_PUT
    BY <1>15, <1>2, <1>8 DEF DoPUTCommand, Ask
  <2> DEFINE to == [me EXCEPT !.pc = "put"]
  <2>2. client' = [client EXCEPT ![c] = to] /\ child' = child
    BY <1>15, <1>2 DEF DoPUTCommand, Ask
  <2> HIDE DEF to
  <2>3. to \in ClientStates /\ to.pc = "put" /\ to.script = me.script /\ to.at = me.at
    <3>1. to = [me EXCEPT !.pc = "put"]
      BY DEF to
    <3> QED BY <3>1, GoIs
  <2>4. Placed(to)
    BY <1>3, <2>1, <2>3 DEF Placed, Awaiting, Now
  <2>5. PICK s \in Seq(Int) : s = <<CC_PUT, Now(me).name>>
    <3>1. PICK a \in Int, b \in Int : a = CC_PUT /\ b = Now(me).name
      BY <1>7, <2>1 DEF CC_PUT
    <3>2. <<a, b>> \in Seq(Int)
      BY PairIs
    <3> QED BY <3>1, <3>2
  <2>6. up' \in [Clients -> Seq(Int)]
    BY <1>12, <1>15, <1>8, <2>5 DEF DoPUTCommand, Ask
  <2>7. RestOK'
    BY <1>1, <1>15, <2>6 DEF DoPUTCommand, Ask, RestOK, faults
  <2> QED BY <1>6, <2>2, <2>3, <2>4, <2>7
<1>16. CASE DoExitCommand(c)
  <2>1. me.pc = "ask" /\ Now(me).op = CC_EXIT
    BY <1>16, <1>2, <1>8 DEF DoExitCommand, Ask
  <2> DEFINE to == Stop([me EXCEPT !.at = @ + 1])
  <2>2. client' = [client EXCEPT ![c] = to] /\ child' = child
    BY <1>16, <1>2 DEF DoExitCommand, Ask
  <2> HIDE DEF to
  <2>3. to \in ClientStates /\ to.pc = "over" /\ to.script = me.script /\ to.at = me.at + 1
    <3>1. to = Stop([me EXCEPT !.at = @ + 1])
      BY DEF to
    <3> QED BY <3>1, QuitIs
  <2>4. Placed(to)
    BY <1>3, <1>4, <1>7, <2>1, <2>3 DEF Placed, Awaiting, Now
  <2>5. PICK s \in Seq(Int) : s = <<CC_EXIT, Now(me).name>>
    <3>1. PICK a \in Int, b \in Int : a = CC_EXIT /\ b = Now(me).name
      BY <1>7, <2>1 DEF CC_EXIT
    <3>2. <<a, b>> \in Seq(Int)
      BY PairIs
    <3> QED BY <3>1, <3>2
  <2>6. up' \in [Clients -> Seq(Int)]
    BY <1>12, <1>16, <1>8, <2>5 DEF DoExitCommand, Ask
  <2>7. RestOK'
    BY <1>1, <1>16, <2>6 DEF DoExitCommand, Ask, RestOK, faults
  <2> QED BY <1>6, <2>2, <2>3, <2>4, <2>7
<1>17. CASE SendPayload(c)
  <2>1. me.pc = "put"
    BY <1>17, <1>2 DEF SendPayload
  <2>2. child' = child
    BY <1>17 DEF SendPayload
  <2>3. CASE Now(me).name \in DOMAIN ClientFiles
    <3> DEFINE to == [me EXCEPT !.pc = "send"]
    <3>1. client' = [client EXCEPT ![c] = to]
      BY <1>17, <1>2, <1>8, <2>3 DEF SendPayload
    <3> HIDE DEF to
    <3>2. to \in ClientStates /\ to.pc = "send" /\ to.script = me.script /\ to.at = me.at
      <4>1. to = [me EXCEPT !.pc = "send"]
        BY DEF to
      <4> QED BY <4>1, GoIs
    <3>3. Placed(to)
      BY <1>3, <2>1, <2>3, <3>2 DEF Placed, Awaiting, Now
    <3>4. PICK s \in Seq(Int) : s = <<PL_FILE, Len(ClientFiles[Now(me).name])>>
      <4>1. ClientFiles[Now(me).name] \in Seq(Int)
        BY <2>3, TransferAssumption
      <4>2. Len(ClientFiles[Now(me).name]) \in Int
        BY <4>1
      <4>3. PICK a \in Int, b \in Int : a = PL_FILE /\ b = Len(ClientFiles[Now(me).name])
        <5>1. PL_FILE \in Int
          BY DEF PL_FILE
        <5> HIDE DEF PL_FILE
        <5> QED BY <4>2, <5>1
      <4>4. <<a, b>> \in Seq(Int)
        BY PairIs
      <4> QED BY <4>3, <4>4
    <3>5. up' \in [Clients -> Seq(Int)]
      BY <1>12, <1>17, <1>8, <2>3, <3>4 DEF SendPayload
    <3>6. RestOK'
      BY <1>1, <1>17, <3>5 DEF SendPayload, RestOK, faults
    <3> QED BY <1>6, <2>2, <3>1, <3>2, <3>3, <3>6
  <2>4. CASE Now(me).name \notin DOMAIN ClientFiles
    <3>1. client' = [client EXCEPT ![c] = Stop(me)] /\ up' = up
      BY <1>17, <1>2, <1>8, <2>4 DEF SendPayload
    <3>2. RestOK'
      BY <1>1, <1>17, <3>1 DEF SendPayload, RestOK, faults
    <3> QED BY <1>6, <1>9, <2>2, <3>1, <3>2
  <2> QED BY <2>3, <2>4
<1>18. CASE SendFile(c)
  <2>1. me.pc = "send"
    BY <1>18, <1>2 DEF SendFile
  <2>2. Now(me).name \in DOMAIN ClientFiles /\ Now(me).op = CC_PUT
    BY <1>3, <2>1 DEF Placed
  <2>3. client' = [client EXCEPT ![c] = Again(me)] /\ child' = child
    BY <1>18, <1>2 DEF SendFile
  <2>4. PICK s \in Seq(Int) : s = ClientFiles[Now(me).name]
    BY <2>2, TransferAssumption
  <2>5. up' \in [Clients -> Seq(Int)]
    BY <1>12, <1>18, <1>8, <2>4 DEF SendFile
  <2>6. RestOK'
    BY <1>1, <1>18, <2>5 DEF SendFile, RestOK, faults
  <2>7. Again(me) \in ClientStates /\ Placed(Again(me)) /\ Again(me).pc = "ask"
    BY <1>10, <1>11, <2>1, <2>2 DEF CC_PUT, CC_EXIT
  <2> QED BY <1>6, <2>3, <2>6, <2>7
<1>19. CASE RecvPayload(c)
  <2>1. me.pc = "payload" /\ child' = child
    BY <1>19, <1>2 DEF RecvPayload
  <2>2. PICK k \in Receivable(down[c], 2) :
          LET ep == Received(client[c], down[c], k) IN
          /\ down' = [down EXCEPT ![c] = From(@, k)]
          /\ CountShort(k, 2)
          /\ client' = [client EXCEPT ![c] = IF ep.nb = 2 THEN Announcement(ep) ELSE ep]
    BY <1>19 DEF RecvPayload
  <2>3. PICK d \in Seq(Int) : d = down[c]
    BY <1>1 DEF RestOK
  <2>4. k \in Nat /\ k <= 2 /\ k <= Len(d)
    BY <2>3, ReceivableIs
  <2>5. Len(me.buf) = 2
    BY <1>3, <2>1 DEF Placed
  <2>6. PICK ep : ep = Received(me, d, k)
    OBVIOUS
  <2>7. /\ ep \in ClientStates /\ ep.pc = me.pc /\ ep.script = me.script /\ ep.at = me.at
        /\ Len(ep.buf) = 2
    <3>1. k <= Len(me.buf)
      BY <2>4, <2>5
    <3>2. /\ ep \in ClientStates /\ ep.pc = me.pc /\ ep.script = me.script /\ ep.at = me.at
          /\ Len(ep.buf) = Len(me.buf)
      BY <2>4, <2>6, <3>1, ReceivedIs
    <3> QED BY <2>5, <3>2
  <2>8. Placed(ep)
    BY <1>3, <2>5, <2>7 DEF Placed, Awaiting, Now
  <2>10. PICK full : full = Announcement(ep)
    OBVIOUS
  <2>11. full \in ClientStates /\ full.pc = "data" /\ full.script = ep.script /\ full.at = ep.at
    BY <2>7, <2>10, AnnouncementIs
  <2>12. Placed(full)
    BY <2>1, <2>7, <2>8, <2>11 DEF Placed, Awaiting, Now
  <2>13. down' \in [Clients -> Seq(Int)]
    BY <1>1, <2>2, <2>3, <2>4, RecvTypes DEF RestOK
  <2>14. short' \in {0, 1}
    BY <1>1, <2>2, ShortTypes DEF RestOK
  <2>15. RestOK'
    BY <1>1, <1>19, <2>13, <2>14 DEF RecvPayload, RestOK
  <2>16. client' = [client EXCEPT ![c] = IF ep.nb = 2 THEN full ELSE ep]
    BY <1>2, <2>2, <2>3, <2>6, <2>10
  <2>17. CASE ep.nb = 2
    <3>1. client' = [client EXCEPT ![c] = full]
      BY <2>16, <2>17
    <3> QED BY <1>6, <2>1, <2>11, <2>12, <2>15, <3>1
  <2>18. CASE ep.nb # 2
    <3>1. client' = [client EXCEPT ![c] = ep]
      BY <2>16, <2>18
    <3> QED BY <1>6, <2>1, <2>7, <2>8, <2>15, <3>1
  <2> QED BY <2>17, <2>18
<1>20. CASE RecvData(c)
  <2>1. me.pc = "data" /\ child' = child
    BY <1>20, <1>2 DEF RecvData
  <2>2. PICK k \in Amounts(client[c], down[c], Gone(c)) :
          LET ep == Received(client[c], down[c], k) IN
          /\ down' = [down EXCEPT ![c] = From(@, k)]
          /\ CountShort(k, Len(ep.buf))
          /\ IF Enough(ep)
             THEN /\ client' = [client EXCEPT ![c] = Again(@)]
                  /\ saved' = IF Expected(c) THEN saved \union {Record(c, Request(c).op, Request(c).name, ep.buf)}
                              ELSE saved
             ELSE client' = [client EXCEPT ![c] = ep] /\ UNCHANGED saved
    BY <1>20 DEF RecvData
  <2>3. PICK d \in Seq(Int) : d = down[c]
    BY <1>1 DEF RestOK
  <2>4. k \in Nat /\ k <= Len(me.buf) /\ k <= Len(d)
    <3>1. k \in Amounts(me, d, Gone(c))
      BY <1>2, <2>3
    <3> QED BY <1>4, <3>1, AmountsIs
  <2>5. PICK ep : ep = Received(me, d, k)
    OBVIOUS
  <2>6. /\ ep \in ClientStates /\ ep.pc = me.pc /\ ep.script = me.script /\ ep.at = me.at
    BY <2>4, <2>5, ReceivedIs
  <2>7. Placed(ep)
    BY <1>3, <2>1, <2>6 DEF Placed, Awaiting, Now
  <2>8. down' \in [Clients -> Seq(Int)]
    BY <1>1, <2>2, <2>3, <2>4, RecvTypes DEF RestOK
  <2>9. short' \in {0, 1}
    BY <1>1, <2>2, ShortTypes DEF RestOK
  <2>10. Now(me).op \in {CC_LS, CC_GET}
    BY <1>3, <2>1 DEF Placed, Awaiting
  <2>11. IF Enough(ep)
         THEN /\ client' = [client EXCEPT ![c] = Again(me)]
              /\ saved' = saved \/ saved' = saved \union {Record(c, Now(me).op, Now(me).name, ep.buf)}
         ELSE client' = [client EXCEPT ![c] = ep] /\ saved' = saved
    BY <1>2, <1>8, <2>2, <2>3, <2>5
  <2>12. ep.buf \in Seq(Int)
    BY <2>6 DEF ClientStates
  <2>13. Record(c, Now(me).op, Now(me).name, ep.buf)
           \in [session : Clients, op : {CC_LS, CC_GET, CC_PUT}, name : Int, data : Seq(Int)]
    BY <1>7, <2>1, <2>10, <2>12 DEF Record
  <2>14. RestOK'
    BY <1>1, <1>20, <2>8, <2>9, <2>11, <2>13 DEF RecvData, RestOK
  <2>15. CASE Enough(ep)
    <3>1. Again(me) \in ClientStates /\ Placed(Again(me)) /\ Again(me).pc = "ask"
      BY <1>10, <1>11, <2>1, <2>10 DEF CC_LS, CC_GET, CC_EXIT
    <3> QED BY <1>6, <2>1, <2>11, <2>14, <2>15, <3>1
  <2>16. CASE ~ Enough(ep)
    BY <1>6, <2>1, <2>6, <2>7, <2>11, <2>14, <2>16
  <2> QED BY <2>15, <2>16
<1>21. CASE Reset(c) \/ Kill(c)
  <2>1. client' = [client EXCEPT ![c] = Stop(me)] /\ child' = child
    BY <1>21, <1>2 DEF Reset, Gone, Kill
  <2>2. kills' \in 0 .. MaxFaults
    <3>1. MaxFaults \in Nat /\ short \in {0, 1} /\ kills \in 0 .. MaxFaults /\ failures \in 0 .. MaxFaults
      BY <1>1, TransferAssumption DEF RestOK
    <3> QED BY <1>21, <3>1 DEF Reset, Gone, Kill, MayFail, faults
  <2>3. RestOK'
    BY <1>1, <1>21, <2>2 DEF Reset, Gone, Kill, RestOK, faults, streams
  <2> QED BY <1>6, <1>9, <2>1, <2>3
<1> QED BY <1>13, <1>14, <1>15, <1>16, <1>17, <1>18, <1>19, <1>20, <1>21 DEF ClientStep, DoLSCommand, DoGETCommand

LEMMA PairOfInts ==
  ASSUME NEW s, s \in [1 .. 2 -> Int] \/ (s \in Seq(Int) /\ Len(s) = 2)
  PROVE  s \in [1 .. 2 -> Int] /\ s \in Seq(Int) /\ Len(s) = 2
<1>1. CASE s \in [1 .. 2 -> Int]
  <2>1. PICK n \in Nat : n = 2
    OBVIOUS
  <2>2. s \in [1 .. n -> Int] /\ DOMAIN s = 1 .. n
    BY <1>1, <2>1
  <2>3. s \in Seq(Int)
    BY <2>2
  <2>4. Len(s) = n
    BY <2>2, <2>3
  <2> QED BY <1>1, <2>1, <2>3, <2>4
<1>2. CASE s \in Seq(Int) /\ Len(s) = 2
  <2>1. s \in [1 .. Len(s) -> Int]
    BY <1>2, LenProperties
  <2> QED BY <1>2, <2>1
<1> QED BY <1>1, <1>2

LEMMA PutCommand ==
  ASSUME NEW old \in [1 .. 2 -> Int], NEW s \in Seq(Int), NEW k \in Receivable(s, 2), NEW cmd, cmd = Put(old, s, k)
  PROVE  /\ k \in Nat /\ k >= 1 /\ k <= 2 /\ k <= Len(s)
         /\ cmd \in [1 .. 2 -> Int] /\ cmd[1] = s[1] /\ (k = 2 => cmd[2] = s[2])
<1>1. PICK n \in Nat : n = 2
  OBVIOUS
<1>2. k \in Nat /\ k >= 1 /\ k <= 2 /\ k <= Len(s)
  BY <1>1, ReceivableIs
<1>3. PICK b \in Seq(Int) : b = old /\ Len(b) = 2
  BY PairOfInts
<1>4. /\ Put(b, s, k) \in Seq(Int) /\ Len(Put(b, s, k)) = Len(b)
      /\ \A m \in 1 .. Len(b) : Put(b, s, k)[m] = IF m <= k THEN s[m] ELSE b[m]
  <2>1. k <= Len(b) /\ k \in Nat /\ k <= Len(s)
    BY <1>2, <1>3
  <2> QED BY <2>1, PutIs
<1>5. cmd \in Seq(Int) /\ Len(cmd) = 2 /\ \A m \in 1 .. 2 : cmd[m] = IF m <= k THEN s[m] ELSE b[m]
  BY <1>3, <1>4
<1>6. cmd \in [1 .. 2 -> Int]
  BY <1>5, PairOfInts
<1> QED BY <1>2, <1>5, <1>6

LEMMA ChildIs ==
  ASSUME NEW pc \in {"none", "cmd", "head", "body", "payload", "data", "zombie", "gone"}, NEW cmd \in [1 .. 2 -> Int],
         NEW kid, kid = Child(pc, cmd)
  PROVE  kid \in ChildStates /\ kid.pc = pc /\ kid.cmd = cmd
<1>1. PICK e \in Seq(Int) : e = <<>>
  <2>1. <<>> \in Seq(Int)
    BY EmptySeq
  <2> QED BY <2>1
<1>2. kid = [pc |-> pc, cmd |-> cmd, buf |-> e, nb |-> 0]
  BY <1>1 DEF Child
<1> QED BY <1>2 DEF ChildStates

\* A state in which only where it is has changed.
LEMMA ChildGoIs ==
  ASSUME NEW kid \in ChildStates, NEW pc \in {"cmd", "body", "zombie", "gone"}, NEW ep, ep = [kid EXCEPT !.pc = pc]
  PROVE  /\ ep \in ChildStates /\ ep.pc = pc /\ ep.cmd = kid.cmd
<1>1. ep = [pc |-> pc, cmd |-> kid.cmd, buf |-> kid.buf, nb |-> kid.nb]
  BY DEF ChildStates
<1>2. kid.cmd \in [1 .. 2 -> Int] /\ kid.buf \in Seq(Int) /\ kid.nb \in Nat
  BY DEF ChildStates
<1> QED BY <1>1, <1>2 DEF ChildStates

LEMMA CaseIs ==
  ASSUME NEW code
  PROVE  /\ Case(code) \in {"head", "payload", "zombie", "cmd"}
         /\ Case(code) = "head" => code \in {CC_LS, CC_GET}
         /\ Case(code) = "payload" => code = CC_PUT
         /\ code \in {CC_LS, CC_GET} => Case(code) = "head"
         /\ code = CC_PUT => Case(code) = "payload"
         /\ code = CC_EXIT => Case(code) = "zombie"
<1>1. CASE code \in {CC_LS, CC_GET}
  BY <1>1 DEF Case, CC_LS, CC_GET, CC_PUT, CC_EXIT
<1>2. CASE code = CC_PUT
  BY <1>2 DEF Case, CC_LS, CC_GET, CC_PUT, CC_EXIT
<1>3. CASE code = CC_EXIT
  BY <1>3 DEF Case, CC_LS, CC_GET, CC_PUT, CC_EXIT
<1>4. CASE code \notin {CC_LS, CC_GET} /\ code # CC_PUT /\ code # CC_EXIT
  BY <1>4 DEF Case, CC_LS, CC_GET, CC_PUT, CC_EXIT
<1> QED BY <1>1, <1>2, <1>3, <1>4

\* The payload and what it announces are words.
LEMMA OfferedIs ==
  ASSUME NEW cmd \in [1 .. 2 -> Int], cmd[1] = CC_LS \/ cmd[2] \in DOMAIN ServerFiles
  PROVE  Announced(cmd) \in Seq(Int) /\ Offered(cmd) \in Seq(Int)
<1>1. Offered(cmd) \in Seq(Int)
  BY TransferAssumption DEF Offered
<1>2. PICK s \in Seq(Int) : s = Offered(cmd)
  BY <1>1
<1>3. PICK a \in Int, b \in Int : a = (IF cmd[1] = CC_LS THEN PL_TXT ELSE PL_FILE) /\ b = Len(s)
  BY DEF PL_TXT, PL_FILE
<1>4. <<a, b>> \in Seq(Int)
  BY PairIs
<1> QED BY <1>1, <1>2, <1>3, <1>4 DEF Announced

LEMMA ChildTypes ==
  ASSUME TypeOK, AllPlaced, NEW c \in Clients, ChildStep(c)
  PROVE  TypeOK' /\ AllPlaced' /\ ChildAt(c)
<1>1. client \in [Clients -> ClientStates] /\ child \in [Clients -> ChildStates] /\ RestOK
  BY TypeParts
<1>2. PICK kid \in ChildStates : kid = child[c]
  BY <1>1
<1>3. Offering(kid)
  BY <1>2 DEF AllPlaced
<1>4. kid.cmd \in [1 .. 2 -> Int] /\ kid.buf \in Seq(Int) /\ kid.nb \in Nat
  BY DEF ChildStates
<1>5. SUFFICES client' \in [Clients -> ClientStates] /\ child' \in [Clients -> ChildStates] /\ AllPlaced' /\ ChildAt(c) /\ RestOK'
  <2>1. TypeOK' <=> client' \in [Clients -> ClientStates] /\ child' \in [Clients -> ChildStates] /\ RestOK'
    BY DEF TypeOK, RestOK, ClientStates, ChildStates
  <2> QED BY <2>1
<1>6. ASSUME NEW to \in ChildStates, Offering(to), to.pc # "none", child' = [child EXCEPT ![c] = to], client' = client
      PROVE  client' \in [Clients -> ClientStates] /\ child' \in [Clients -> ChildStates] /\ AllPlaced' /\ ChildAt(c)
  BY <1>6, ChildMoves
<1>7. PICK u \in Seq(Int) : u = up[c]
  BY <1>1 DEF RestOK
<1>8. ASSUME NEW to, to = [kid EXCEPT !.pc = "zombie"]
      PROVE  to \in ChildStates /\ Offering(to) /\ to.pc # "none"
  BY <1>8, ChildGoIs DEF Offering
<1>9. client' = client
  BY DEF ChildStep, RecvCommand, SendHead, SendBody, RecvSize, RecvUpload, ResetChild
<1>10. ASSUME NEW k \in Nat, k <= Len(u), up' = [up EXCEPT ![c] = From(@, k)]
       PROVE  up' \in [Clients -> Seq(Int)]
  BY <1>1, <1>7, <1>10, RecvTypes DEF RestOK
<1>11. CASE RecvCommand(c)
  <2>1. ASSUME NEW k \in Receivable(up[c], 2), up' = [up EXCEPT ![c] = From(@, k)], CountShort(k, 2),
               child' = [child EXCEPT ![c] = Child(Case(Put(child[c].cmd, up[c], k)[1]), Put(child[c].cmd, up[c], k))]
        PROVE  client' \in [Clients -> ClientStates] /\ child' \in [Clients -> ChildStates] /\ AllPlaced' /\ ChildAt(c) /\ RestOK'
    <3>1. PICK cmd : cmd = Put(kid.cmd, u, k)
      OBVIOUS
    <3>2. PICK old \in [1 .. 2 -> Int] : old = kid.cmd
      BY <1>4
    <3>3. k \in Nat /\ k <= Len(u) /\ cmd \in [1 .. 2 -> Int]
      BY <1>7, <2>1, <3>1, <3>2, PutCommand
    <3>4. Case(cmd[1]) \in {"head", "payload", "zombie", "cmd"} /\ (Case(cmd[1]) = "head" => cmd[1] \in {CC_LS, CC_GET})
      BY CaseIs
    <3>5. PICK to : to = Child(Case(cmd[1]), cmd)
      OBVIOUS
    <3>6. to \in ChildStates /\ to.pc = Case(cmd[1]) /\ to.cmd = cmd
      BY <3>3, <3>4, <3>5, ChildIs
    <3>7. Offering(to)
      BY <3>4, <3>6 DEF Offering
    <3>8. child' = [child EXCEPT ![c] = to]
      BY <1>2, <1>7, <2>1, <3>1, <3>5
    <3>9. up' \in [Clients -> Seq(Int)]
      BY <1>10, <2>1, <3>3
    <3>10. short' \in {0, 1}
      BY <1>1, <2>1, ShortTypes DEF RestOK
    <3>11. RestOK'
      BY <1>1, <1>11, <3>9, <3>10 DEF RecvCommand, RestOK
    <3> QED BY <1>6, <1>9, <3>4, <3>6, <3>7, <3>8, <3>11
  <2>2. ASSUME child' = [child EXCEPT ![c] = Child(Case(Swap(child[c].cmd[1])), <<Swap(child[c].cmd[1]), child[c].cmd[2]>>)],
               up' = up /\ short' = short
        PROVE  client' \in [Clients -> ClientStates] /\ child' \in [Clients -> ChildStates] /\ AllPlaced' /\ ChildAt(c) /\ RestOK'
    <3>1. PICK a \in Int, b \in Int : a = Swap(kid.cmd[1]) /\ b = kid.cmd[2]
      <4>1. PICK v \in Int, b \in Int : v = kid.cmd[1] /\ b = kid.cmd[2]
        <5>1. PICK cmd \in [1 .. 2 -> Int] : cmd = kid.cmd
          BY <1>4
        <5>2. cmd[1] \in Int /\ cmd[2] \in Int
          OBVIOUS
        <5> QED BY <5>1, <5>2
      <4>2. PICK a \in Int : a = Swap(v)
        BY DEF Swap
      <4> QED BY <4>1, <4>2
    <3>2. PICK cmd : cmd = <<a, b>>
      OBVIOUS
    <3>3. cmd \in [1 .. 2 -> Int] /\ cmd[1] = a
      <4>1. cmd \in Seq(Int) /\ Len(cmd) = 2 /\ cmd[1] = a
        BY <3>2, PairIs
      <4> QED BY <4>1, PairOfInts
    <3>4. Case(a) \in {"head", "payload", "zombie", "cmd"} /\ (Case(a) = "head" => a \in {CC_LS, CC_GET})
      BY CaseIs
    <3>5. PICK to : to = Child(Case(a), cmd)
      OBVIOUS
    <3>6. to \in ChildStates /\ to.pc = Case(a) /\ to.cmd = cmd
      BY <3>3, <3>4, <3>5, ChildIs
    <3>7. Offering(to)
      BY <3>3, <3>4, <3>6 DEF Offering
    <3>8. child' = [child EXCEPT ![c] = to]
      BY <1>2, <2>2, <3>1, <3>2, <3>5
    <3>9. RestOK'
      BY <1>1, <1>11, <2>2 DEF RecvCommand, RestOK
    <3> QED BY <1>6, <1>9, <3>4, <3>6, <3>7, <3>8, <3>9
  <2> QED BY <1>11, <2>1, <2>2 DEF RecvCommand
<1>12. ASSUME NEW w \in Seq(Int), NEW next \in {"body", "cmd"}, Reply(c, w, next), up' = up,
              UNCHANGED <<client, up, pending, srv, faults, saved>>,
              next = "body" => kid.cmd[1] = CC_LS \/ kid.cmd[2] \in DOMAIN ServerFiles
       PROVE  child' \in [Clients -> ChildStates] /\ AllPlaced' /\ ChildAt(c) /\ RestOK'
  <2>1. down' \in [Clients -> Seq(Int)]
    <3>1. down' = down \/ down' = [down EXCEPT ![c] = @ \o w]
      BY <1>12 DEF Reply
    <3>2. PICK f, g : f \in [Clients -> Seq(Int)] /\ f = down /\ g = down'
      BY <1>1 DEF RestOK
    <3>3. CASE g = [f EXCEPT ![c] = @ \o w]
      BY <3>2, <3>3, SendTypes
    <3> QED BY <3>1, <3>2, <3>3
  <2>2. RestOK'
    BY <1>1, <1>12, <2>1 DEF RestOK, faults
  <2>3. PICK to : (to = [kid EXCEPT !.pc = next] \/ to = [kid EXCEPT !.pc = "zombie"]) /\ child' = [child EXCEPT ![c] = to]
    BY <1>2, <1>12 DEF Reply
  <2>4. to \in ChildStates /\ Offering(to) /\ to.pc # "none"
    <3>1. CASE to = [kid EXCEPT !.pc = next]
      <4>1. to \in ChildStates /\ to.pc = next /\ to.cmd = kid.cmd
        BY <3>1, ChildGoIs
      <4> QED BY <1>12, <4>1 DEF Offering
    <3>2. CASE to = [kid EXCEPT !.pc = "zombie"]
      BY <1>8, <3>2
    <3> QED BY <2>3, <3>1, <3>2
  <2> QED BY <1>6, <1>9, <2>2, <2>3, <2>4
<1>13. CASE SendHead(c)
  <2>1. CASE kid.cmd[1] = CC_LS \/ kid.cmd[2] \in DOMAIN ServerFiles
    <3>1. PICK w \in Seq(Int) : w = Announced(kid.cmd)
      BY <1>4, <2>1, OfferedIs
    <3>2. Reply(c, w, "body") /\ UNCHANGED <<client, up, pending, srv, faults, saved>>
      BY <1>2, <1>13, <2>1, <3>1 DEF SendHead
    <3> QED BY <1>9, <1>1, <1>12, <2>1, <3>2
  <2>2. CASE ~ (kid.cmd[1] = CC_LS \/ kid.cmd[2] \in DOMAIN ServerFiles)
    <3>1. PICK to : to = [kid EXCEPT !.pc = "zombie"]
      OBVIOUS
    <3>2. child' = [child EXCEPT ![c] = to] /\ down' = down
      BY <1>2, <1>13, <2>2, <3>1 DEF SendHead
    <3>3. RestOK'
      BY <1>1, <1>13, <3>2 DEF SendHead, RestOK, faults
    <3> QED BY <1>6, <1>8, <1>9, <3>1, <3>2, <3>3
  <2> QED BY <2>1, <2>2
<1>14. CASE SendBody(c)
  <2>1. kid.cmd[1] = CC_LS \/ kid.cmd[2] \in DOMAIN ServerFiles
    BY <1>2, <1>3, <1>14 DEF SendBody, Offering
  <2>2. PICK w \in Seq(Int) : w = Offered(kid.cmd)
    BY <1>4, <2>1, OfferedIs
  <2>3. Reply(c, w, "cmd") /\ UNCHANGED <<client, up, pending, srv, faults, saved>>
    BY <1>2, <1>14, <2>2 DEF SendBody
  <2> QED BY <1>9, <1>1, <1>12, <2>3
<1>15. ASSUME NEW n \in Int, NEW zero \in Int, NEW to, to = Fresh(kid, "data", n, zero)
       PROVE  to \in ChildStates /\ Offering(to) /\ to.pc # "none"
  BY <1>15, FreshChildIs DEF Offering
<1>16. CASE RecvSize(c)
  <2>1. ASSUME NEW k \in Receivable(up[c], 2), NEW w \in StackWords,
               child' = [child EXCEPT ![c] = Fresh(@, "data", Put(<<w, w>>, up[c], k)[2], 0)],
               up' = [up EXCEPT ![c] = From(@, k)], CountShort(k, 2)
        PROVE  client' \in [Clients -> ClientStates] /\ child' \in [Clients -> ChildStates] /\ AllPlaced' /\ ChildAt(c) /\ RestOK'
    <3>1. PICK cmd : cmd = Put(<<w, w>>, u, k)
      OBVIOUS
    <3>2. PICK old \in [1 .. 2 -> Int] : old = <<w, w>>
      <4>1. w \in Int
        BY TransferAssumption
      <4>2. <<w, w>> \in Seq(Int) /\ Len(<<w, w>>) = 2
        BY <4>1, PairIs
      <4>3. <<w, w>> \in [1 .. 2 -> Int]
        BY <4>2, PairOfInts
      <4> QED BY <4>3
    <3>3. k \in Nat /\ k <= Len(u) /\ cmd \in [1 .. 2 -> Int]
      BY <1>7, <2>1, <3>1, <3>2, PutCommand
    <3>4. PICK n \in Int, zero \in Int : n = cmd[2] /\ zero = 0
      BY <3>3
    <3>5. PICK to : to = Fresh(kid, "data", n, zero)
      OBVIOUS
    <3>6. child' = [child EXCEPT ![c] = to]
      BY <1>2, <1>7, <2>1, <3>1, <3>4, <3>5
    <3>7. up' \in [Clients -> Seq(Int)]
      BY <1>10, <2>1, <3>3
    <3>8. short' \in {0, 1}
      BY <1>1, <2>1, ShortTypes DEF RestOK
    <3>9. RestOK'
      BY <1>1, <1>16, <3>7, <3>8 DEF RecvSize, RestOK
    <3> QED BY <1>6, <1>9, <1>15, <3>5, <3>6, <3>9
  <2>2. ASSUME NEW w \in StackWords, child' = [child EXCEPT ![c] = Fresh(@, "data", w, 0)], up' = up /\ short' = short
        PROVE  client' \in [Clients -> ClientStates] /\ child' \in [Clients -> ChildStates] /\ AllPlaced' /\ ChildAt(c) /\ RestOK'
    <3>1. PICK n \in Int, zero \in Int : n = w /\ zero = 0
      BY TransferAssumption
    <3>2. PICK to : to = Fresh(kid, "data", n, zero)
      OBVIOUS
    <3>3. child' = [child EXCEPT ![c] = to]
      BY <1>2, <2>2, <3>1, <3>2
    <3>4. RestOK'
      BY <1>1, <1>16, <2>2 DEF RecvSize, RestOK
    <3> QED BY <1>6, <1>9, <1>15, <3>2, <3>3, <3>4
  <2> QED BY <1>16, <2>1, <2>2 DEF RecvSize
<1>17. CASE RecvUpload(c)
  <2>1. PICK k \in Amounts(child[c], up[c], Over(c)) :
          LET ep == Received(child[c], up[c], k) IN
          /\ up' = [up EXCEPT ![c] = From(@, k)]
          /\ CountShort(k, Len(ep.buf))
          /\ IF Enough(ep)
             THEN /\ child' = [child EXCEPT ![c] = Child("cmd", child[c].cmd)]
                  /\ saved' = saved \union {Record(c, CC_PUT, child[c].cmd[2], ep.buf)}
             ELSE child' = [child EXCEPT ![c] = ep] /\ UNCHANGED saved
    BY <1>17 DEF RecvUpload
  <2>2. k \in Nat /\ k <= Len(kid.buf) /\ k <= Len(u)
    <3>1. k \in Amounts(kid, u, Over(c))
      BY <1>2, <1>7
    <3> QED BY <1>4, <3>1, AmountsIs
  <2>3. PICK ep : ep = Received(kid, u, k)
    OBVIOUS
  <2>4. ep \in ChildStates /\ ep.pc = kid.pc
    BY <2>2, <2>3, ReceivedChildIs
  <2>5. kid.pc = "data"
    BY <1>2, <1>17 DEF RecvUpload
  <2>6. IF Enough(ep)
        THEN /\ child' = [child EXCEPT ![c] = Child("cmd", kid.cmd)]
             /\ saved' = saved \union {Record(c, CC_PUT, kid.cmd[2], ep.buf)}
        ELSE child' = [child EXCEPT ![c] = ep] /\ saved' = saved
    BY <1>2, <1>7, <2>1, <2>3
  <2>7. Record(c, CC_PUT, kid.cmd[2], ep.buf)
           \in [session : Clients, op : {CC_LS, CC_GET, CC_PUT}, name : Int, data : Seq(Int)]
    <3>1. ep.buf \in Seq(Int) /\ kid.cmd[2] \in Int
      BY <1>4, <2>4 DEF ChildStates
    <3> QED BY <3>1 DEF Record
  <2>8. up' \in [Clients -> Seq(Int)]
    BY <1>10, <2>1, <2>2
  <2>9. short' \in {0, 1}
    BY <1>1, <2>1, ShortTypes DEF RestOK
  <2>10. RestOK'
    BY <1>1, <1>17, <2>6, <2>7, <2>8, <2>9 DEF RecvUpload, RestOK
  <2>11. PICK to : to = Child("cmd", kid.cmd)
    OBVIOUS
  <2>12. to \in ChildStates /\ to.pc = "cmd"
    BY <1>4, <2>11, ChildIs
  <2>13. CASE Enough(ep)
    BY <1>6, <1>9, <2>6, <2>10, <2>11, <2>12, <2>13 DEF Offering
  <2>14. CASE ~ Enough(ep)
    BY <1>6, <1>9, <2>4, <2>5, <2>6, <2>10, <2>14 DEF Offering
  <2> QED BY <2>13, <2>14
<1>18. CASE ResetChild(c)
  <2>1. PICK to : to = [kid EXCEPT !.pc = "zombie"]
    OBVIOUS
  <2>2. child' = [child EXCEPT ![c] = to]
    BY <1>2, <1>18, <2>1 DEF ResetChild
  <2>3. RestOK'
    BY <1>1, <1>18 DEF ResetChild, RestOK, streams, faults
  <2> QED BY <1>6, <1>8, <1>9, <2>1, <2>2, <2>3
<1> QED BY <1>9, <1>1, <1>11, <1>13, <1>14, <1>16, <1>17, <1>18 DEF ChildStep

LEMMA ServerTypes ==
  ASSUME TypeOK, AllPlaced, ServerStep
  PROVE  TypeOK' /\ AllPlaced'
<1>1. client \in [Clients -> ClientStates] /\ child \in [Clients -> ChildStates] /\ RestOK
  BY TypeParts
<1>2. SUFFICES client' \in [Clients -> ClientStates] /\ child' \in [Clients -> ChildStates] /\ AllPlaced' /\ RestOK'
  <2>1. TypeOK' <=> client' \in [Clients -> ClientStates] /\ child' \in [Clients -> ChildStates] /\ RestOK'
    BY DEF TypeOK, RestOK, ClientStates, ChildStates
  <2> QED BY <2>1
<1>3. client' = client
  BY DEF ServerStep, Accept, ForkFails, Reap
<1>4. ASSUME pending # <<>>
      PROVE  Head(pending) \in Clients /\ Tail(pending) \in Seq(Clients)
  BY <1>1, <1>4, HeadTailProperties DEF RestOK
<1>5. ASSUME child' = child
      PROVE  client' \in [Clients -> ClientStates] /\ child' \in [Clients -> ChildStates] /\ AllPlaced'
  BY <1>1, <1>3, <1>5 DEF AllPlaced
<1>6. CASE Accept
  <2>1. PICK code \in StackWords, name \in StackWords :
          child' = [child EXCEPT ![Head(pending)] = Child("cmd", <<code, name>>)]
    BY <1>6 DEF Accept
  <2>2. PICK c \in Clients : c = Head(pending)
    BY <1>4, <1>6 DEF Accept
  <2>3. code \in Int /\ name \in Int
    BY TransferAssumption
  <2>4. PICK cmd \in [1 .. 2 -> Int] : cmd = <<code, name>>
    <3>1. <<code, name>> \in Seq(Int) /\ Len(<<code, name>>) = 2
      BY <2>3, PairIs
    <3>2. <<code, name>> \in [1 .. 2 -> Int]
      BY <3>1, PairOfInts
    <3> QED BY <3>2
  <2>5. PICK to : to = Child("cmd", cmd)
    OBVIOUS
  <2>6. to \in ChildStates /\ to.pc = "cmd"
    BY <2>5, ChildIs
  <2>7. child' = [child EXCEPT ![c] = to]
    BY <2>1, <2>2, <2>4, <2>5
  <2>8. RestOK'
    BY <1>1, <1>4, <1>6 DEF Accept, RestOK, streams, faults
  <2>9. Offering(to)
    BY <2>6 DEF Offering
  <2> QED BY <1>3, <2>6, <2>7, <2>8, <2>9, ChildMoves
<1>7. CASE ForkFails
  <2>1. failures' \in 0 .. MaxFaults
    <3>1. MaxFaults \in Nat /\ short \in {0, 1} /\ kills \in 0 .. MaxFaults /\ failures \in 0 .. MaxFaults
      BY <1>1, TransferAssumption DEF RestOK
    <3> QED BY <1>7, <3>1 DEF ForkFails, MayFail
  <2>2. RestOK'
    BY <1>1, <1>4, <1>7, <2>1 DEF ForkFails, RestOK, streams
  <2>3. child' = child
    BY <1>7 DEF ForkFails
  <2> QED BY <1>5, <2>2, <2>3
<1>8. CASE Reap
  <2>1. RestOK'
    BY <1>1, <1>8 DEF Reap, AfterReap, RestOK, streams, faults
  <2>2. CASE child' = child
    BY <1>5, <2>1, <2>2
  <2>3. ASSUME NEW c \in Clients, child' = [child EXCEPT ![c].pc = "gone"]
        PROVE  client' \in [Clients -> ClientStates] /\ child' \in [Clients -> ChildStates] /\ AllPlaced' /\ RestOK'
    <3>1. PICK kid \in ChildStates : kid = child[c]
      BY <1>1
    <3>2. PICK to : to = [kid EXCEPT !.pc = "gone"]
      OBVIOUS
    <3>3. to \in ChildStates /\ to.pc = "gone"
      BY <3>2, ChildGoIs
    <3>4. child' = [child EXCEPT ![c] = to]
      BY <2>3, <3>1, <3>2
    <3>5. Offering(to)
      BY <3>3 DEF Offering
    <3> QED BY <1>3, <2>1, <3>3, <3>4, <3>5, ChildMoves
  <2> QED BY <1>8, <2>2, <2>3 DEF Reap
<1> QED BY <1>6, <1>7, <1>8 DEF ServerStep

LEMMA TypeStep ==
  ASSUME TypeOK, AllPlaced, [Next]_vars
  PROVE  TypeOK' /\ AllPlaced'
<1>1. CASE UNCHANGED vars
  BY <1>1 DEF TypeOK, AllPlaced, vars, streams, faults
<1>2. CASE Next
  BY <1>2, ClientTypes, ChildTypes, ServerTypes DEF Next
<1> QED BY <1>1, <1>2

-----------------------------------------------------------------------------
(* What a step leaves alone, the queue of connections, and when the server *)
(* ends.                                                                   *)

\* Only connection c has changed.
OnlyAt(c) ==
  \A x \in Clients : x # c =>
    client'[x] = client[x] /\ child'[x] = child[x] /\ up'[x] = up[x] /\ down'[x] = down[x]

LEMMA CountedShort ==
  ASSUME NEW k, NEW n, CountShort(k, n), short' = 0
  PROVE  short = 0 /\ ~ (k < n)
BY DEF CountShort

LEMMA ClientFrame ==
  ASSUME TypeOK, AllPlaced, NEW c \in Clients, ClientStep(c) \/ Kill(c)
  PROVE  /\ child' = child /\ srv' = srv /\ OnlyAt(c) /\ client[c].pc # "over" /\ client'[c].pc # "none"
         /\ pending' = pending \/ (pending' = Append(pending, c) /\ client[c].pc = "none")
         /\ short' = 0 => short = 0
<1>1. child' = child /\ srv' = srv /\ client[c].pc # "over"
  BY DEF ClientStep, Connect, DoLSCommand, DoGETCommand, DoPUTCommand, DoExitCommand, Ask, SendPayload, SendFile,
         RecvPayload, RecvData, Reset, Kill, streams
<1>2. pending' = pending \/ (pending' = Append(pending, c) /\ client[c].pc = "none")
  BY DEF ClientStep, Connect, DoLSCommand, DoGETCommand, DoPUTCommand, DoExitCommand, Ask, SendPayload, SendFile,
         RecvPayload, RecvData, Reset, Kill, streams
<1>3. short' = 0 => short = 0
  <2>1. short' = short \/ \E k, n : CountShort(k, n)
    <3>1. CASE RecvPayload(c)
      BY <3>1 DEF RecvPayload
    <3>2. CASE RecvData(c)
      BY <3>2 DEF RecvData
    <3>3. CASE ~ RecvPayload(c) /\ ~ RecvData(c)
      BY <3>3 DEF ClientStep, Connect, DoLSCommand, DoGETCommand, DoPUTCommand, DoExitCommand, Ask, SendPayload, SendFile,
                  Reset, Kill, faults
    <3> QED BY <3>1, <3>2, <3>3
  <2> QED BY <2>1, CountedShort
<1>4. (\E s : up' = [up EXCEPT ![c] = s]) \/ up' = up
  BY DEF ClientStep, Connect, DoLSCommand, DoGETCommand, DoPUTCommand, DoExitCommand, Ask, SendPayload, SendFile,
         RecvPayload, RecvData, Reset, Kill, streams
<1>5. (\E s : down' = [down EXCEPT ![c] = s]) \/ down' = down
  BY DEF ClientStep, Connect, DoLSCommand, DoGETCommand, DoPUTCommand, DoExitCommand, Ask, SendPayload, SendFile,
         RecvPayload, RecvData, Reset, Kill, streams
<1>6. ClientAt(c)
  BY ClientTypes
<1>7. \A x \in Clients : x # c => up'[x] = up[x] /\ down'[x] = down[x]
  BY <1>4, <1>5 DEF TypeOK
<1> QED BY <1>1, <1>2, <1>3, <1>6, <1>7 DEF OnlyAt, ClientAt

LEMMA ChildFrame ==
  ASSUME TypeOK, AllPlaced, NEW c \in Clients, ChildStep(c)
  PROVE  /\ client' = client /\ srv' = srv /\ pending' = pending /\ OnlyAt(c) /\ Alive(c) /\ child'[c].pc # "none"
         /\ short' = 0 => short = 0
<1>1. client' = client /\ srv' = srv /\ pending' = pending /\ Alive(c)
  BY DEF ChildStep, RecvCommand, SendHead, SendBody, RecvSize, RecvUpload, ResetChild, streams, Alive
<1>2. short' = 0 => short = 0
  <2>1. short' = short \/ \E k, n : CountShort(k, n)
    <3>1. CASE RecvCommand(c)
      BY <3>1 DEF RecvCommand
    <3>2. CASE RecvSize(c)
      BY <3>2 DEF RecvSize
    <3>3. CASE RecvUpload(c)
      BY <3>3 DEF RecvUpload
    <3>4. CASE ~ RecvCommand(c) /\ ~ RecvSize(c) /\ ~ RecvUpload(c)
      BY <3>4 DEF ChildStep, SendHead, SendBody, ResetChild, faults
    <3> QED BY <3>1, <3>2, <3>3, <3>4
  <2> QED BY <2>1, CountedShort
<1>3. (\E s : up' = [up EXCEPT ![c] = s]) \/ up' = up
  BY DEF ChildStep, RecvCommand, SendHead, SendBody, RecvSize, RecvUpload, ResetChild, streams
<1>4. (\E s : down' = [down EXCEPT ![c] = s]) \/ down' = down
  BY DEF ChildStep, RecvCommand, SendHead, SendBody, RecvSize, RecvUpload, ResetChild, Reply, streams
<1>5. ChildAt(c)
  BY ChildTypes
<1>6. \A x \in Clients : x # c => up'[x] = up[x] /\ down'[x] = down[x]
  BY <1>3, <1>4 DEF TypeOK
<1> QED BY <1>1, <1>2, <1>5, <1>6 DEF OnlyAt, ChildAt

\* The first connection leaves the queue.
LEMMA QueueTail ==
  ASSUME TypeOK, Queued, pending # <<>>
  PROVE  /\ Head(pending) \in Clients /\ Tail(pending) \in Seq(Clients) /\ Head(pending) = pending[1]
         /\ 1 \in DOMAIN pending
         /\ \A j, k \in DOMAIN Tail(pending) : Tail(pending)[j] = Tail(pending)[k] => j = k
         /\ \A k \in DOMAIN Tail(pending) : /\ k + 1 \in DOMAIN pending /\ Tail(pending)[k] = pending[k + 1]
                                            /\ Tail(pending)[k] # Head(pending)
<1>1. PICK q \in Seq(Clients) : q = pending
  BY DEF TypeOK
<1>2. /\ Head(q) \in Clients /\ Tail(q) \in Seq(Clients) /\ Len(Tail(q)) = Len(q) - 1
      /\ \A k \in 1 .. Len(Tail(q)) : Tail(q)[k] = q[k + 1]
  BY <1>1, HeadTailProperties
<1>3. Head(q) = q[1] /\ Len(q) \in Nat /\ Len(q) # 0 /\ DOMAIN q = 1 .. Len(q)
  BY <1>1, EmptySeq
<1>4. PICK t \in Seq(Clients) : t = Tail(q)
  BY <1>2
<1>5. DOMAIN t = 1 .. Len(q) - 1
  BY <1>2, <1>4
<1>6. \A k \in DOMAIN t : k + 1 \in DOMAIN q /\ t[k] = q[k + 1] /\ k + 1 # 1
  BY <1>2, <1>3, <1>4, <1>5
<1>7. \A j, k \in DOMAIN q : q[j] = q[k] => j = k
  BY <1>1 DEF Queued
<1>8. \A j, k \in DOMAIN t : t[j] = t[k] => j = k
  BY <1>5, <1>6, <1>7
<1>9. 1 \in DOMAIN q
  BY <1>3
<1>10. \A k \in DOMAIN t : t[k] # q[1]
  BY <1>6, <1>7, <1>9
<1> QED BY <1>1, <1>2, <1>3, <1>4, <1>6, <1>8, <1>9, <1>10

LEMMA QueuedInit ==
  Init => Queued /\ DeadIsAlone
BY DEF Init, Queued, DeadIsAlone, Child

LEMMA QueuedStep ==
  ASSUME TypeOK, AllPlaced, Queued, [Next]_vars
  PROVE  Queued'
<1>1. CASE UNCHANGED vars
  BY <1>1 DEF Queued, vars
<1>2. ASSUME NEW c \in Clients, ClientStep(c) \/ Kill(c)
      PROVE  Queued'
  <2>1. /\ child' = child /\ OnlyAt(c) /\ client[c].pc # "over" /\ client'[c].pc # "none"
        /\ pending' = pending \/ (pending' = Append(pending, c) /\ client[c].pc = "none")
    BY <1>2, ClientFrame
  <2>2. \A x \in Clients : client[x].pc # "none" => client'[x].pc # "none"
    BY <2>1 DEF OnlyAt
  <2>3. \A x \in Clients : client'[x].pc = "none" => client[x].pc = "none"
    BY <2>1 DEF OnlyAt
  <2>4. pending \in Seq(Clients)
    BY DEF TypeOK
  <2>5. CASE pending' = pending
    BY <2>1, <2>2, <2>3, <2>4, <2>5 DEF Queued
  <2>6. CASE pending' = Append(pending, c) /\ client[c].pc = "none"
    <3>1. PICK q \in Seq(Clients) : q = pending
      BY <2>4
    <3>2. PICK r \in Seq(Clients) : r = Append(q, c)
      <4>1. Append(q, c) \in Seq(Clients)
        BY AppendProperties
      <4> QED BY <4>1
    <3>3. /\ DOMAIN q = 1 .. Len(q) /\ Len(q) \in Nat /\ DOMAIN r = 1 .. Len(q) + 1 /\ r[Len(q) + 1] = c
          /\ \A k \in 1 .. Len(q) : r[k] = q[k]
      BY <3>2, AppendProperties
    <3>4. \A k \in 1 .. Len(q) : q[k] # c /\ client[q[k]].pc # "none" /\ child[q[k]].pc = "none"
      BY <2>6, <3>1, <3>3 DEF Queued
    <3>5. \A k \in 1 .. Len(q) + 1 : k \in 1 .. Len(q) \/ k = Len(q) + 1
      BY <3>3
    <3>6. \A j, k \in DOMAIN r : r[j] = r[k] => j = k
      <4>1. \A j, k \in 1 .. Len(q) : q[j] = q[k] => j = k
        BY <3>1, <3>3 DEF Queued
      <4> QED BY <3>3, <3>4, <3>5, <4>1
    <3>7. child[c].pc = "none"
      BY <2>6 DEF Queued
    <3>8. \A k \in DOMAIN r : client'[r[k]].pc # "none" /\ child'[r[k]].pc = "none"
      <4>1. \A k \in 1 .. Len(q) : q[k] \in Clients
        BY <3>1
      <4> QED BY <2>1, <2>2, <3>3, <3>4, <3>5, <3>7, <4>1
    <3>9. pending' = r
      BY <2>6, <3>1, <3>2
    <3>10. \A x \in Clients : client'[x].pc = "none" => child'[x].pc = "none"
      BY <2>1, <2>3 DEF Queued
    <3> QED BY <3>6, <3>8, <3>9, <3>10 DEF Queued
  <2> QED BY <2>1, <2>5, <2>6
<1>3. ASSUME NEW c \in Clients, ChildStep(c)
      PROVE  Queued'
  <2>1. client' = client /\ pending' = pending /\ OnlyAt(c) /\ Alive(c)
    BY <1>3, ChildFrame
  <2>2. \A x \in Clients : child[x].pc = "none" => child'[x].pc = "none"
    BY <2>1 DEF OnlyAt, Alive
  <2>3. \A k \in DOMAIN pending : pending[k] \in Clients
    BY DEF TypeOK
  <2> QED BY <2>1, <2>2, <2>3 DEF Queued
<1>4. CASE Accept \/ ForkFails
  <2>1. client' = client /\ pending # <<>> /\ pending' = Tail(pending)
    BY <1>4 DEF Accept, ForkFails
  <2>2. /\ Head(pending) \in Clients /\ Head(pending) = pending[1] /\ 1 \in DOMAIN pending
        /\ \A j, k \in DOMAIN Tail(pending) : Tail(pending)[j] = Tail(pending)[k] => j = k
        /\ \A k \in DOMAIN Tail(pending) : /\ k + 1 \in DOMAIN pending /\ Tail(pending)[k] = pending[k + 1]
                                           /\ Tail(pending)[k] # Head(pending)
    BY <2>1, QueueTail
  <2>3. \A x \in Clients : x # Head(pending) => child'[x] = child[x]
    BY <1>4 DEF Accept, ForkFails, TypeOK
  <2>4. client[Head(pending)].pc # "none"
    BY <2>2 DEF Queued
  <2>5. \A k \in DOMAIN pending : pending[k] \in Clients /\ client[pending[k]].pc # "none" /\ child[pending[k]].pc = "none"
    BY DEF TypeOK, Queued
  <2>6. \A k \in DOMAIN Tail(pending) : client'[Tail(pending)[k]].pc # "none" /\ child'[Tail(pending)[k]].pc = "none"
    <3> TAKE k \in DOMAIN Tail(pending)
    <3>1. PICK x \in Clients : x = Tail(pending)[k] /\ x = pending[k + 1] /\ x # Head(pending) /\ k + 1 \in DOMAIN pending
      BY <2>2, <2>5
    <3> QED BY <2>1, <2>3, <2>5, <3>1
  <2>7. \A x \in Clients : client'[x].pc = "none" => child'[x].pc = "none"
    BY <2>1, <2>3, <2>4 DEF Queued
  <2> QED BY <2>1, <2>2, <2>6, <2>7 DEF Queued
<1>5. CASE Reap
  <2>1. client' = client /\ pending' = pending
    BY <1>5 DEF Reap
  <2>2. \A x \in Clients : child[x].pc = "none" => child'[x].pc = "none"
    BY <1>5 DEF Reap, TypeOK
  <2>3. \A k \in DOMAIN pending : pending[k] \in Clients
    BY DEF TypeOK
  <2> QED BY <2>1, <2>2, <2>3 DEF Queued
<1> QED BY <1>1, <1>2, <1>3, <1>4, <1>5 DEF Next, ServerStep

LEMMA DeadStep ==
  ASSUME TypeOK, AllPlaced, DeadIsAlone, [Next]_vars
  PROVE  DeadIsAlone'
<1>1. CASE UNCHANGED vars
  BY <1>1 DEF DeadIsAlone, Alive, vars
<1>2. ASSUME NEW c \in Clients, ClientStep(c) \/ Kill(c)
      PROVE  DeadIsAlone'
  <2>1. child' = child /\ srv' = srv
    BY <1>2, ClientFrame
  <2> QED BY <2>1 DEF DeadIsAlone, Alive
<1>3. ASSUME NEW c \in Clients, ChildStep(c)
      PROVE  DeadIsAlone'
  <2>1. srv' = srv /\ Alive(c)
    BY <1>3, ChildFrame
  <2> QED BY <2>1 DEF DeadIsAlone
<1>4. CASE Accept \/ ForkFails
  <2>1. srv' # "dead"
    BY <1>4 DEF Accept, ForkFails
  <2> QED BY <2>1 DEF DeadIsAlone
<1>5. CASE Reap
  <2>1. ASSUME srv' = "dead"
        PROVE  child' = child /\ \A c \in Clients : ~ Alive(c)
    BY <1>5, <2>1 DEF Reap, AfterReap
  <2> QED BY <2>1 DEF DeadIsAlone, Alive
<1> QED BY <1>1, <1>2, <1>3, <1>4, <1>5 DEF Next, ServerStep

-----------------------------------------------------------------------------
(* What a client sends and what it is answered.                            *)

\* What a command needs to be sent.
Sendable(r) == r \in Commands /\ (r.op = CC_PUT => r.name \in DOMAIN ClientFiles)

LEMMA JoinNothing ==
  ASSUME NEW s \in Seq(Int)
  PROVE  s \o <<>> = s /\ <<>> \o s = s
<1>1. PICK e \in Seq(Int) : e = <<>> /\ Len(e) = 0
  BY EmptySeq
<1>2. s \o e \in Seq(Int) /\ Len(s \o e) = Len(s) /\ \A n \in 1 .. Len(s) : (s \o e)[n] = s[n]
  BY <1>1, JoinIs
<1>3. s \o e = s
  BY <1>2, SeqEqual
<1>4. e \o s \in Seq(Int) /\ Len(e \o s) = Len(s) /\ \A n \in 1 .. Len(s) : (e \o s)[n] = s[n]
  BY <1>1, JoinIs
<1>5. e \o s = s
  BY <1>4, SeqEqual
<1> QED BY <1>1, <1>3, <1>5

LEMMA HeadIs ==
  ASSUME NEW r \in Commands
  PROVE  /\ HeadOf(r) \in Seq(Int) /\ Len(HeadOf(r)) = 2 /\ HeadOf(r)[1] = r.op /\ HeadOf(r)[2] = r.name
         /\ r.op \in {CC_LS, CC_GET, CC_PUT, CC_EXIT}
<1>1. r.op \in {CC_LS, CC_GET, CC_PUT, CC_EXIT} /\ r.name \in Int
  BY DEF Commands
<1>2. PICK a \in Int, b \in Int : a = r.op /\ b = r.name
  BY <1>1 DEF CC_LS, CC_GET, CC_PUT, CC_EXIT
<1>3. <<a, b>> \in Seq(Int) /\ Len(<<a, b>>) = 2 /\ <<a, b>>[1] = a /\ <<a, b>>[2] = b
  BY PairIs
<1> QED BY <1>1, <1>2, <1>3 DEF HeadOf

LEMMA PutHeadIs ==
  ASSUME NEW r \in Commands, r.name \in DOMAIN ClientFiles
  PROVE  /\ FileOf(r) \in Seq(Int) /\ Len(FileOf(r)) \in Nat /\ SizeOf(r) \in Seq(Int)
         /\ HeadOf(r) \o SizeOf(r) \in Seq(Int) /\ Len(HeadOf(r) \o SizeOf(r)) = 4
         /\ (HeadOf(r) \o SizeOf(r))[1] = r.op /\ (HeadOf(r) \o SizeOf(r))[2] = r.name
         /\ (HeadOf(r) \o SizeOf(r))[4] = Len(FileOf(r))
<1>1. PICK f \in Seq(Int) : f = FileOf(r)
  BY TransferAssumption DEF FileOf
<1>2. PICK a \in Int, b \in Int : a = PL_FILE /\ b = Len(f)
  BY DEF PL_FILE
<1>3. PICK z \in Seq(Int) : z = SizeOf(r) /\ Len(z) = 2 /\ z[2] = Len(f)
  <2>1. <<a, b>> \in Seq(Int) /\ Len(<<a, b>>) = 2 /\ <<a, b>>[2] = b
    BY PairIs
  <2> QED BY <1>1, <1>2, <2>1 DEF SizeOf
<1>4. PICK h \in Seq(Int) : h = HeadOf(r) /\ Len(h) = 2 /\ h[1] = r.op /\ h[2] = r.name
  BY HeadIs
<1>5. /\ h \o z \in Seq(Int) /\ Len(h \o z) = Len(h) + Len(z)
      /\ \A n \in 1 .. Len(h) + Len(z) : (h \o z)[n] = IF n <= Len(h) THEN h[n] ELSE z[n - Len(h)]
  BY JoinIs
<1>6. Len(h \o z) = 4 /\ (h \o z)[1] = h[1] /\ (h \o z)[2] = h[2] /\ (h \o z)[4] = z[2]
  BY <1>3, <1>4, <1>5
<1> QED BY <1>1, <1>3, <1>4, <1>5, <1>6

LEMMA MessageIs ==
  ASSUME NEW r, Sendable(r)
  PROVE  /\ Message(r) \in Seq(Int) /\ Len(Message(r)) \in Nat /\ Len(Message(r)) >= 2
         /\ Message(r)[1] = r.op /\ Message(r)[2] = r.name
         /\ r.op # CC_PUT => Len(Message(r)) = 2
         /\ r.op = CC_PUT => Len(Message(r)) = 4 + Len(FileOf(r)) /\ Message(r)[4] = Len(FileOf(r))
<1>1. PICK x \in Commands : x = r
  BY DEF Sendable
<1>2. CASE r.op # CC_PUT
  BY <1>1, <1>2, HeadIs DEF Message
<1>3. CASE r.op = CC_PUT
  <2>1. x.name \in DOMAIN ClientFiles
    BY <1>1, <1>3 DEF Sendable
  <2>2. PICK f \in Seq(Int), h \in Seq(Int) :
          /\ f = FileOf(x) /\ Len(f) \in Nat /\ h = HeadOf(x) \o SizeOf(x) /\ Len(h) = 4
          /\ h[1] = x.op /\ h[2] = x.name /\ h[4] = Len(f)
    BY <2>1, PutHeadIs
  <2>3. /\ h \o f \in Seq(Int) /\ Len(h \o f) = Len(h) + Len(f)
        /\ \A n \in 1 .. Len(h) + Len(f) : (h \o f)[n] = IF n <= Len(h) THEN h[n] ELSE f[n - Len(h)]
    BY JoinIs
  <2>4. 1 \in 1 .. Len(h) + Len(f) /\ 2 \in 1 .. Len(h) + Len(f) /\ 4 \in 1 .. Len(h) + Len(f) /\ Len(h) = 4
    <3>1. Len(h) = 4 /\ Len(f) \in Nat
      BY <2>2
    <3> QED BY <3>1
  <2>5. (h \o f)[1] = h[1] /\ (h \o f)[2] = h[2] /\ (h \o f)[4] = h[4]
    BY <2>3, <2>4
  <2>6. Message(r) = h \o f
    BY <1>1, <1>3, <2>2 DEF Message
  <2>7. Len(h \o f) = 4 + Len(f)
    BY <2>2, <2>3
  <2>8. PICK m \in Seq(Int) : m = h \o f
    BY <2>3
  <2>9. m = Message(r) /\ Len(m) = 4 + Len(f)
    BY <2>6, <2>7, <2>8
  <2>10. m[1] = x.op /\ m[2] = x.name /\ m[4] = Len(f)
    BY <2>2, <2>5, <2>8
  <2>11. f = FileOf(r) /\ Len(f) \in Nat
    BY <1>1, <2>2
  <2>12. Len(m) \in Nat /\ Len(m) >= 2
    BY <2>9, <2>11
  <2> QED BY <1>1, <1>3, <2>9, <2>10, <2>11, <2>12
<1> QED BY <1>2, <1>3

LEMMA AnswerIs ==
  ASSUME NEW r \in Commands, Answerable(r)
  PROVE  /\ AnswerOf(r) \in Seq(Int) /\ AnnounceOf(r) \in Seq(Int) /\ Len(AnnounceOf(r)) = 2
         /\ Len(AnswerOf(r)) \in Nat /\ AnnounceOf(r)[2] = Len(AnswerOf(r))
<1>1. AnswerOf(r) \in Seq(Int)
  BY TransferAssumption DEF AnswerOf, Answerable
<1>2. PICK s \in Seq(Int) : s = AnswerOf(r)
  BY <1>1
<1>3. PICK a \in Int, b \in Int : a = (IF r.op = CC_LS THEN PL_TXT ELSE PL_FILE) /\ b = Len(s)
  BY DEF PL_TXT, PL_FILE
<1>4. <<a, b>> \in Seq(Int) /\ Len(<<a, b>>) = 2 /\ <<a, b>>[2] = b
  BY PairIs
<1> QED BY <1>2, <1>3, <1>4 DEF AnnounceOf

\* How far a client is.
LEMMA FullIs ==
  ASSUME NEW me \in ClientStates, Placed(me)
  PROVE  /\ Full(me) \in Nat /\ Full(me) <= Len(me.script) /\ Full(me) \in {me.at, me.at - 1}
         /\ Awaiting(me) => Full(me) = me.at
         /\ me.pc \in {"none", "ask", "put", "over"} => Full(me) = me.at - 1
         /\ me.script \in Seq(Commands) /\ Len(me.script) \in Nat /\ me.at \in Nat
         /\ \A k \in 1 .. Full(me) : me.script[k] \in Commands
<1>1. me.script \in Seq(Commands) /\ me.at \in Nat \ {0}
  BY DEF ClientStates
<1>2. PICK s \in Seq(Commands), a \in Nat : s = me.script /\ a = me.at /\ a >= 1 /\ Len(s) \in Nat
  BY <1>1
<1>3. a <= Len(s) + 1 /\ (me.pc # "over" => a <= Len(s))
  BY <1>2 DEF Placed
<1>4. /\ Full(me) \in {a, a - 1} /\ (Awaiting(me) => Full(me) = a) /\ (me.pc = "over" => Full(me) = a - 1)
      /\ me.pc \in {"none", "ask", "put", "over"} => Full(me) = a - 1
  BY <1>2 DEF Full, Awaiting, SentFile
<1>5. Full(me) \in Nat /\ Full(me) <= Len(s)
  BY <1>2, <1>3, <1>4
<1>6. \A k \in 1 .. Full(me) : s[k] \in Commands
  BY <1>2, <1>5
<1> QED BY <1>2, <1>4, <1>5, <1>6

\* What a client has sent of a command it has not sent whole.
LEMMA PartialIs ==
  ASSUME NEW me \in ClientStates, Placed(me)
  PROVE  /\ Partial(me) \in Seq(Int) /\ Len(Partial(me)) \in Nat
         /\ Partial(me) # <<>> => /\ me.at = Full(me) + 1 /\ me.at <= Len(me.script) /\ me.pc \in {"put", "send"}
                                  /\ Now(me).op = CC_PUT
                                  /\ Len(Partial(me)) >= 2 /\ Partial(me)[1] = Now(me).op /\ Partial(me)[2] = Now(me).name
         /\ Len(Partial(me)) > 2 => /\ Now(me).name \in DOMAIN ClientFiles /\ FileOf(Now(me)) # <<>>
                                    /\ Len(Partial(me)) = 4 /\ Partial(me)[4] = Len(FileOf(Now(me)))
<1>1. CASE me.pc = "put"
  <2>1. me.at <= Len(me.script) /\ Now(me).op = CC_PUT
    BY <1>1 DEF Placed
  <2>2. Now(me) \in Commands
    BY <2>1, AtCommand
  <2>3. Partial(me) = HeadOf(Now(me)) /\ Full(me) = me.at - 1 /\ me.at \in Nat
    BY <1>1, FullIs DEF Partial
  <2>4. PICK r \in Commands : r = Now(me)
    BY <2>2
  <2>5. PICK h \in Seq(Int) : h = HeadOf(r) /\ Len(h) = 2 /\ h[1] = r.op /\ h[2] = r.name
    BY HeadIs
  <2> QED BY <1>1, <2>1, <2>3, <2>4, <2>5
<1>2. CASE me.pc = "send" /\ ~ SentFile(me)
  <2>1. me.at <= Len(me.script) /\ Now(me).op = CC_PUT /\ Now(me).name \in DOMAIN ClientFiles
    BY <1>2 DEF Placed
  <2>2. PICK r \in Commands : r = Now(me)
    BY <2>1, AtCommand
  <2>3. Partial(me) = HeadOf(r) \o SizeOf(r) /\ FileOf(r) # <<>>
    BY <1>2, <2>2 DEF Partial, SentFile
  <2>4. Full(me) = me.at - 1 /\ me.at \in Nat
    <3>1. me.at \in Nat
      BY FullIs
    <3> QED BY <1>2, <3>1 DEF Full, Awaiting
  <2>5. /\ HeadOf(r) \o SizeOf(r) \in Seq(Int) /\ Len(HeadOf(r) \o SizeOf(r)) = 4
        /\ (HeadOf(r) \o SizeOf(r))[1] = r.op /\ (HeadOf(r) \o SizeOf(r))[2] = r.name
        /\ (HeadOf(r) \o SizeOf(r))[4] = Len(FileOf(r))
    BY <2>1, <2>2, PutHeadIs
  <2> QED BY <1>2, <2>1, <2>2, <2>3, <2>4, <2>5
<1>3. CASE me.pc # "put" /\ ~ (me.pc = "send" /\ ~ SentFile(me))
  <2>1. Partial(me) = <<>>
    BY <1>3 DEF Partial
  <2>2. <<>> \in Seq(Int) /\ Len(<<>>) = 0
    BY EmptySeq
  <2> QED BY <2>1, <2>2
<1> QED BY <1>1, <1>2, <1>3

LEMMA StreamIs ==
  ASSUME NEW me \in ClientStates, Placed(me), NEW rest, Stream(me, rest)
  PROVE  /\ \A k \in 1 .. Full(me) + 1 : rest[k] \in Seq(Int)
         /\ rest[Full(me) + 1] = Partial(me)
         /\ \A k \in 1 .. Full(me) : /\ Sendable(me.script[k]) /\ rest[k] = Message(me.script[k]) \o rest[k + 1]
                                     /\ rest[k + 1] \in Seq(Int)
<1>1. Full(me) \in Nat /\ \A k \in 1 .. Full(me) : me.script[k] \in Commands
  BY FullIs
<1>2. /\ rest \in [1 .. Full(me) + 1 -> Seq(Int)] /\ rest[Full(me) + 1] = Partial(me)
      /\ \A k \in 1 .. Full(me) : /\ rest[k] = Message(me.script[k]) \o rest[k + 1]
                                  /\ me.script[k].op = CC_PUT => me.script[k].name \in DOMAIN ClientFiles
  BY DEF Stream
<1>3. \A k \in 1 .. Full(me) : k + 1 \in 1 .. Full(me) + 1
  BY <1>1
<1> QED BY <1>1, <1>2, <1>3 DEF Sendable

LEMMA Regroup ==
  ASSUME NEW s \in Seq(Int), NEW t \in Seq(Int), NEW u \in Seq(Int)
  PROVE  (s \o t) \o u = s \o (t \o u)
BY SMTT(40)

\* The client sends w, which may complete a command.
Sends(me, to, w) ==
  /\ to.script = me.script
  /\ \/ Full(to) = Full(me) /\ Partial(to) = Partial(me) \o w
     \/ /\ Full(to) = Full(me) + 1 /\ Partial(to) = <<>> /\ Sendable(me.script[Full(to)])
        /\ Partial(me) \o w = Message(me.script[Full(to)])

LEMMA UpGrows ==
  ASSUME NEW me \in ClientStates, Placed(me), NEW to \in ClientStates, Placed(to), NEW w \in Seq(Int), Sends(me, to, w),
         NEW kid, NEW u \in Seq(Int), NEW rest, Stream(me, rest), NEW j \in 1 .. Full(me) + 1,
         Upward(me, kid, u, j, rest)
  PROVE  \E more : Stream(to, more) /\ Upward(to, kid, u \o w, j, more)
<1> DEFINE n == Full(me)
           m == Full(to)
           more == [k \in 1 .. m + 1 |-> IF k <= n + 1 THEN rest[k] \o w ELSE <<>>]
<1>1. n \in Nat /\ m \in Nat /\ (m = n \/ m = n + 1) /\ to.script = me.script
  BY FullIs DEF Sends
<1>2. /\ \A k \in 1 .. n + 1 : rest[k] \in Seq(Int)
      /\ rest[n + 1] = Partial(me)
      /\ \A k \in 1 .. n : /\ Sendable(me.script[k]) /\ rest[k] = Message(me.script[k]) \o rest[k + 1]
                           /\ rest[k + 1] \in Seq(Int)
  BY StreamIs
<1>3. (m = n /\ Partial(to) = Partial(me) \o w)
      \/ (/\ m = n + 1 /\ Partial(to) = <<>> /\ Sendable(me.script[m])
          /\ Partial(me) \o w = Message(me.script[m]))
  BY DEF Sends
<1>4. \A k \in 1 .. n + 1 : rest[k] \o w \in Seq(Int)
  BY <1>2, JoinIs
<1>5. <<>> \in Seq(Int)
  BY EmptySeq
<1> HIDE DEF n, m
<1>6. more \in [1 .. m + 1 -> Seq(Int)] /\ \A k \in 1 .. n + 1 : more[k] = rest[k] \o w
  <2>1. \A k \in 1 .. m + 1 : (IF k <= n + 1 THEN rest[k] \o w ELSE <<>>) \in Seq(Int)
    BY <1>1, <1>4, <1>5
  <2>2. more \in [1 .. m + 1 -> Seq(Int)]
    BY <2>1
  <2>3. \A k \in 1 .. n + 1 : k \in 1 .. m + 1 /\ k <= n + 1
    BY <1>1
  <2> QED BY <2>2, <2>3
<1>7. m = n + 1 => more[m + 1] = <<>>
  BY <1>1
<1> HIDE DEF more
<1>8. more[m + 1] = Partial(to)
  <2>1. n + 1 \in 1 .. n + 1
    BY <1>1
  <2>2. more[n + 1] = Partial(me) \o w
    BY <1>2, <1>6, <2>1
  <2> QED BY <1>3, <1>7, <2>2
<1>9. \A k \in 1 .. m : /\ more[k] = Message(to.script[k]) \o more[k + 1]
                        /\ to.script[k].op = CC_PUT => to.script[k].name \in DOMAIN ClientFiles
  <2> TAKE k \in 1 .. m
  <2>1. CASE k \in 1 .. n
    <3>1. Message(me.script[k]) \in Seq(Int) /\ rest[k + 1] \in Seq(Int) /\ rest[k] = Message(me.script[k]) \o rest[k + 1]
      BY <1>2, <2>1, MessageIs
    <3>2. more[k] = rest[k] \o w /\ more[k + 1] = rest[k + 1] \o w
      <4>1. k \in 1 .. n + 1 /\ k + 1 \in 1 .. n + 1
        BY <1>1, <2>1
      <4> QED BY <1>6, <4>1
    <3>3. (Message(me.script[k]) \o rest[k + 1]) \o w = Message(me.script[k]) \o (rest[k + 1] \o w)
      <4>1. PICK a \in Seq(Int), b \in Seq(Int) : a = Message(me.script[k]) /\ b = rest[k + 1]
        BY <3>1
      <4>2. (a \o b) \o w = a \o (b \o w)
        BY Regroup
      <4> QED BY <4>1, <4>2
    <3> QED BY <1>1, <1>2, <2>1, <3>1, <3>2, <3>3 DEF Sendable
  <2>2. CASE k \notin 1 .. n
    <3>1. k = m /\ m = n + 1 /\ Sendable(me.script[k]) /\ Partial(me) \o w = Message(me.script[k])
      <4>1. k = m /\ m = n + 1
        BY <1>1, <2>2
      <4>2. m # n
        BY <1>1, <4>1
      <4> QED BY <1>3, <4>1, <4>2
    <3>2. more[k] = Message(me.script[k])
      BY <1>1, <1>2, <1>6, <3>1
    <3>3. more[k + 1] = <<>>
      BY <1>7, <3>1
    <3>4. Message(me.script[k]) \o <<>> = Message(me.script[k])
      BY <3>1, MessageIs, JoinNothing
    <3> QED BY <1>1, <3>1, <3>2, <3>3, <3>4 DEF Sendable
  <2> QED BY <2>1, <2>2
<1>10. Stream(to, more)
  BY <1>6, <1>8, <1>9 DEF Stream, m
<1>11. PICK s \in Seq(Int) : s = rest[j]
  BY <1>2 DEF n
<1>12. more[j] = s \o w
  BY <1>6, <1>11 DEF n
<1>13. Skipped(kid) \in Nat
  BY DEF Skipped
<1>14. Skipped(kid) <= Len(s) /\ u = From(s, Skipped(kid))
  BY <1>11 DEF Upward
<1>15. Skipped(kid) <= Len(s \o w) /\ u \o w = From(s \o w, Skipped(kid))
  <2>1. Len(s \o w) = Len(s) + Len(w) /\ Len(s) \in Nat /\ Len(w) \in Nat
    BY JoinIs
  <2>2. PICK k \in 0 .. Len(s) : k = Skipped(kid)
    BY <1>13, <1>14, <2>1
  <2>3. From(s \o w, k) = From(s, k) \o w
    BY FromGrown
  <2> QED BY <1>14, <2>1, <2>2, <2>3
<1>16. Upward(to, kid, u \o w, j, more)
  <2>1. kid.pc \in {"head", "body"} => j <= m
    BY <1>1 DEF Upward, n
  <2> QED BY <1>1, <1>12, <1>15, <2>1 DEF Upward, m
<1> QED BY <1>10, <1>16

LEMMA UpSame ==
  ASSUME NEW me, NEW to, to.script = me.script, Full(to) = Full(me), Partial(to) = Partial(me),
         NEW kid, NEW u, NEW rest, Stream(me, rest), NEW j, Upward(me, kid, u, j, rest)
  PROVE  Stream(to, rest) /\ Upward(to, kid, u, j, rest)
BY DEF Stream, Upward

\* A client that awaits nothing, before and after.
LEMMA DownStays ==
  ASSUME NEW me \in ClientStates, Placed(me), NEW to \in ClientStates, Placed(to), to.script = me.script,
         Full(to) = Full(me) \/ Full(to) = Full(me) + 1,
         Full(to) = Full(me) + 1 => to.pc = "over" \/ me.script[Full(to)].op \notin {CC_LS, CC_GET},
         ~ Awaiting(me), me.pc # "over", ~ Awaiting(to),
         NEW kid, NEW d, NEW j \in 1 .. Full(me) + 1, Downward(me, kid, d, j)
  PROVE  Downward(to, kid, d, j)
<1>1. Full(me) \in Nat
  BY FullIs
<1>2. \A k \in j .. Full(me) :
        (k = j => kid.pc \in {"none", "cmd", "head"}) => me.script[k].op \notin {CC_LS, CC_GET}
  BY DEF Downward, Awaiting
<1>3. \A k \in j .. Full(to) :
        (k = j => kid.pc \in {"none", "cmd", "head"}) /\ to.script[k].op \in {CC_LS, CC_GET} => to.pc = "over"
  <2> SUFFICES ASSUME NEW k \in j .. Full(to), k = j => kid.pc \in {"none", "cmd", "head"}, to.pc # "over"
               PROVE  me.script[k].op \notin {CC_LS, CC_GET}
    OBVIOUS
  <2>1. CASE k <= Full(me)
    BY <1>1, <1>2, <2>1
  <2>2. CASE ~ (k <= Full(me))
    <3>1. k = Full(me) + 1 /\ Full(to) = Full(me) + 1
      BY <1>1, <2>2
    <3> QED BY <3>1
  <2> QED BY <2>1, <2>2
<1>4. kid.pc = "body" => AnswerOf(me.script[j]) = <<>>
  BY DEF Downward
<1>5. d = <<>>
  BY DEF Downward
<1>6. to.pc # "payload" /\ to.pc # "data"
  BY DEF Awaiting
<1> QED BY <1>3, <1>4, <1>5, <1>6 DEF Downward

\* A child that goes on without an answer.
LEMMA DownSame ==
  ASSUME NEW me, NEW kid, NEW kid2, kid2.pc \in {"none", "cmd", "head"} => kid.pc \in {"none", "cmd", "head"},
         kid.pc # "body", kid2.pc # "body", NEW d, NEW j, Downward(me, kid, d, j)
  PROVE  Downward(me, kid2, d, j)
<1>1. Given(me, kid2, j) = Given(me, kid, j)
  BY DEF Given
<1> QED BY <1>1 DEF Downward

\* No command was sent after EXIT.
LEMMA NoExitStays ==
  ASSUME NEW me \in ClientStates, Placed(me), NEW to, to.script = me.script,
         Full(to) = Full(me) \/ Full(to) = Full(me) + 1,
         Full(to) = Full(me) + 1 => me.script[Full(to)].op # CC_EXIT,
         \A k \in 1 .. Full(me) : me.script[k].op # CC_EXIT
  PROVE  \A k \in 1 .. Full(to) : to.script[k].op # CC_EXIT
<1>1. Full(me) \in Nat
  BY FullIs
<1>2. \A k \in 1 .. Full(to) : k \in 1 .. Full(me) \/ (k = Full(to) /\ Full(to) = Full(me) + 1)
  BY <1>1
<1> QED BY <1>2

\* The client sends, and goes on or comes to its end.
LEMMA SendServed ==
  ASSUME NEW me \in ClientStates, Placed(me), NEW to \in ClientStates, Placed(to), NEW w \in Seq(Int), Sends(me, to, w),
         Full(to) = Full(me) + 1 => to.pc = "over" \/ me.script[Full(to)].op = CC_PUT,
         ~ Awaiting(me), me.pc # "over", ~ Awaiting(to),
         NEW kid, NEW u \in Seq(Int), NEW d, Serves(me, kid, u, d)
  PROVE  Serves(to, kid, u \o w, d)
<1>1. ~ Ended(kid)
  BY DEF Serves, Awaiting
<1>2. Protocol(me, kid, u, d) /\ \A k \in 1 .. Full(me) : me.script[k].op # CC_EXIT
  BY <1>1 DEF Serves
<1>3. to.script = me.script /\ (Full(to) = Full(me) \/ Full(to) = Full(me) + 1)
  BY DEF Sends
<1>4. CC_PUT \notin {CC_LS, CC_GET} /\ CC_PUT # CC_EXIT
  BY DEF CC_LS, CC_GET, CC_PUT, CC_EXIT
<1>5. to.pc # "over" => \A k \in 1 .. Full(to) : to.script[k].op # CC_EXIT
  BY <1>2, <1>3, <1>4, NoExitStays
<1>6. PICK rest : /\ Stream(me, rest)
                  /\ \E j \in 1 .. Full(me) + 1 : Upward(me, kid, u, j, rest) /\ Downward(me, kid, d, j)
  BY <1>2 DEF Protocol
<1>7. PICK j \in 1 .. Full(me) + 1 : Upward(me, kid, u, j, rest) /\ Downward(me, kid, d, j)
  BY <1>6
<1>8. PICK more : Stream(to, more) /\ Upward(to, kid, u \o w, j, more)
  BY <1>6, <1>7, UpGrows
<1>9. Downward(to, kid, d, j)
  BY <1>3, <1>4, <1>7, DownStays
<1>10. j \in 1 .. Full(to) + 1
  BY <1>3, FullIs
<1>11. Protocol(to, kid, u \o w, d)
  BY <1>8, <1>9, <1>10 DEF Protocol
<1> QED BY <1>1, <1>5, <1>11 DEF Serves

\* The client asks for a list or a file.
LEMMA AskServed ==
  ASSUME NEW me \in ClientStates, Placed(me), NEW to \in ClientStates, Placed(to),
         me.pc = "ask", Now(me).op \in {CC_LS, CC_GET},
         to.pc = "payload", to.script = me.script, to.at = me.at, to.nb = 0,
         NEW kid, NEW u \in Seq(Int), NEW d, Serves(me, kid, u, d)
  PROVE  Serves(to, kid, u \o HeadOf(Now(me)), d)
<1>1. ~ Ended(kid) /\ ~ Awaiting(me)
  BY DEF Serves, Awaiting
<1>2. Protocol(me, kid, u, d) /\ \A k \in 1 .. Full(me) : me.script[k].op # CC_EXIT
  BY <1>1 DEF Serves
<1>3. PICK a \in Nat : a = me.at /\ Full(me) = a - 1 /\ Full(to) = a /\ Full(me) \in Nat
  BY FullIs DEF Awaiting
<1>4. Now(me) \in Commands
  BY AtCommand DEF Placed
<1>5. PICK w \in Seq(Int) : w = HeadOf(Now(me))
  BY <1>4, HeadIs
<1>6. CC_PUT \notin {CC_LS, CC_GET} /\ CC_EXIT \notin {CC_LS, CC_GET}
  BY DEF CC_LS, CC_GET, CC_PUT, CC_EXIT
<1>7. Partial(me) = <<>> /\ Partial(to) = <<>>
  BY DEF Partial, SentFile
<1>8. Sends(me, to, w)
  <2>1. me.script[Full(to)] = Now(me)
    BY <1>3 DEF Now
  <2>2. Sendable(Now(me)) /\ Message(Now(me)) = w
    BY <1>4, <1>5, <1>6 DEF Sendable, Message
  <2>3. Partial(me) \o w = w
    BY <1>7, JoinNothing
  <2> QED BY <1>3, <1>7, <2>1, <2>2, <2>3 DEF Sends
<1>9. \A k \in 1 .. Full(to) : to.script[k].op # CC_EXIT
  <2>1. Full(to) = Full(me) + 1 /\ me.script[Full(to)] = Now(me)
    BY <1>3 DEF Now
  <2> QED BY <1>2, <1>6, <2>1, NoExitStays
<1>10. PICK rest : /\ Stream(me, rest)
                   /\ \E j \in 1 .. Full(me) + 1 : Upward(me, kid, u, j, rest) /\ Downward(me, kid, d, j)
  BY <1>2 DEF Protocol
<1>11. PICK j \in 1 .. Full(me) + 1 : Upward(me, kid, u, j, rest) /\ Downward(me, kid, d, j)
  BY <1>10
<1>12. PICK more : Stream(to, more) /\ Upward(to, kid, u \o w, j, more)
  BY <1>8, <1>10, <1>11, UpGrows
<1>13. kid.pc = "body" => j < a
  BY <1>3, <1>11 DEF Upward
<1>14. d = <<>>
  BY <1>1, <1>11 DEF Downward
<1>15. Given(to, kid, j) = <<>>
  BY <1>3, <1>13 DEF Given
<1>16. \A k \in j .. Full(to) :
         (k = j => kid.pc \in {"none", "cmd", "head"}) /\ to.script[k].op \in {CC_LS, CC_GET} => k = to.at
  <2> SUFFICES ASSUME NEW k \in j .. Full(to), k = j => kid.pc \in {"none", "cmd", "head"}, k # to.at
               PROVE  me.script[k].op \notin {CC_LS, CC_GET}
    OBVIOUS
  <2>1. k \in j .. Full(me)
    BY <1>3
  <2> QED BY <1>11, <2>1 DEF Downward
<1>17. kid.pc = "body" => AnswerOf(to.script[j]) = <<>>
  BY <1>1, <1>11 DEF Downward
<1>18. Downward(to, kid, d, j)
  <2>1. ~ (j > to.at \/ (j = to.at /\ kid.pc = "body"))
    BY <1>3, <1>13
  <2> QED BY <1>14, <1>15, <1>16, <1>17, <2>1 DEF Downward, Awaiting
<1>19. j \in 1 .. Full(to) + 1
  BY <1>3
<1>20. Protocol(to, kid, u \o w, d)
  BY <1>12, <1>18, <1>19 DEF Protocol
<1> QED BY <1>1, <1>5, <1>9, <1>20 DEF Serves

\* What the client waits for, once something of it was sent.
LEMMA GivenIs ==
  ASSUME NEW me \in ClientStates, Placed(me), Awaiting(me), NEW kid, NEW j \in Nat, Given(me, kid, j) # <<>>,
         (j > me.at \/ (j = me.at /\ kid.pc = "body")) => Answerable(Now(me))
  PROVE  /\ Now(me) \in Commands /\ Answerable(Now(me))
         /\ AnswerOf(Now(me)) \in Seq(Int) /\ AnnounceOf(Now(me)) \in Seq(Int) /\ Len(AnswerOf(Now(me))) \in Nat
         /\ \/ j > me.at /\ Given(me, kid, j) = AnnounceOf(Now(me)) \o AnswerOf(Now(me))
            \/ j = me.at /\ kid.pc = "body" /\ Given(me, kid, j) = AnnounceOf(Now(me))
         /\ Given(me, kid, j) \in Seq(Int) /\ Len(Given(me, kid, j)) >= 2
         /\ Given(me, kid, j)[2] = Len(AnswerOf(Now(me)))
         /\ j > me.at => From(Given(me, kid, j), 2) = AnswerOf(Now(me))
         /\ ~ (j > me.at) => From(Given(me, kid, j), 2) = <<>>
<1>1. Now(me) \in Commands
  BY AtCommand DEF Awaiting, Placed
<1>2. j > me.at \/ (j = me.at /\ kid.pc = "body")
  BY DEF Given
<1>3. PICK r \in Commands : r = Now(me) /\ Answerable(r)
  BY <1>1, <1>2
<1>4. PICK s \in Seq(Int), t \in Seq(Int) :
        s = AnnounceOf(r) /\ t = AnswerOf(r) /\ Len(s) = 2 /\ Len(t) \in Nat /\ s[2] = Len(t)
  BY <1>3, AnswerIs
<1>5. CASE j > me.at
  <2>1. Given(me, kid, j) = s \o t
    BY <1>3, <1>4, <1>5 DEF Given
  <2>2. /\ s \o t \in Seq(Int) /\ Len(s \o t) = Len(s) + Len(t)
        /\ \A n \in 1 .. Len(s) + Len(t) : (s \o t)[n] = IF n <= Len(s) THEN s[n] ELSE t[n - Len(s)]
    BY JoinIs
  <2>3. Len(s \o t) >= 2 /\ (s \o t)[2] = s[2]
    <3>1. 2 \in 1 .. Len(s) + Len(t) /\ 2 <= Len(s) /\ Len(s) + Len(t) >= 2
      BY <1>4
    <3> QED BY <2>2, <3>1
  <2>4. From(s \o t, Len(s)) = t
    BY FromJoined
  <2> QED BY <1>1, <1>3, <1>4, <1>5, <2>1, <2>2, <2>3, <2>4
<1>6. CASE ~ (j > me.at)
  <2>1. j = me.at /\ kid.pc = "body" /\ Given(me, kid, j) = s
    BY <1>2, <1>3, <1>4, <1>6 DEF Given
  <2>2. From(s, 2) = <<>>
    BY <1>4, FromNothing
  <2>3. /\ Given(me, kid, j) \in Seq(Int) /\ Len(Given(me, kid, j)) >= 2
        /\ Given(me, kid, j)[2] = Len(AnswerOf(Now(me)))
    <3>1. PICK g \in Seq(Int) : g = s
      OBVIOUS
    <3>2. Len(g) >= 2 /\ g[2] = Len(t)
      <4>1. Len(g) = 2
        BY <1>4, <3>1
      <4>2. g[2] = Len(t)
        BY <1>4, <3>1
      <4> QED BY <4>1, <4>2
    <3>3. g = Given(me, kid, j) /\ t = AnswerOf(Now(me))
      BY <1>3, <1>4, <2>1, <3>1
    <3> QED BY <3>2, <3>3
  <2>4. From(Given(me, kid, j), 2) = <<>>
    BY <2>1, <2>2
  <2>5. /\ Answerable(Now(me)) /\ AnswerOf(Now(me)) \in Seq(Int) /\ AnnounceOf(Now(me)) \in Seq(Int)
        /\ Len(AnswerOf(Now(me))) \in Nat /\ Given(me, kid, j) = AnnounceOf(Now(me))
    BY <1>3, <1>4, <2>1
  <2> QED BY <1>1, <1>6, <2>1, <2>3, <2>4, <2>5
<1> QED BY <1>5, <1>6

\* The client has received what announces the answer.
LEMMA PayloadServed ==
  ASSUME NEW me \in ClientStates, Placed(me), NEW to \in ClientStates, me.pc = "payload",
         NEW kid, NEW u, NEW d \in Seq(Int), Len(d) >= 2, Serves(me, kid, u, d),
         to.pc = "data", to.script = me.script, to.at = me.at, to.nb = 0,
         Len(to.buf) = IF d[2] > 0 THEN d[2] ELSE 0
  PROVE  Serves(to, kid, u, From(d, 2))
<1>0. d # <<>>
  BY EmptySeq
<1>1. ~ Ended(kid)
  BY <1>0 DEF Serves
<1>2. Protocol(me, kid, u, d) /\ \A k \in 1 .. Full(me) : me.script[k].op # CC_EXIT
  BY <1>1 DEF Serves
<1>3. PICK rest : /\ Stream(me, rest)
                  /\ \E j \in 1 .. Full(me) + 1 : Upward(me, kid, u, j, rest) /\ Downward(me, kid, d, j)
  BY <1>2 DEF Protocol
<1>4. PICK j \in 1 .. Full(me) + 1 : Upward(me, kid, u, j, rest) /\ Downward(me, kid, d, j)
  BY <1>3
<1>5. Full(to) = Full(me) /\ Partial(to) = Partial(me) /\ Full(me) = me.at /\ Awaiting(me) /\ Awaiting(to)
  BY DEF Full, Partial, Awaiting
<1>6. Stream(to, rest) /\ Upward(to, kid, u, j, rest)
  BY <1>3, <1>4, <1>5, UpSame
<1>7. PICK a \in Nat : a = me.at
  BY FullIs
<1>8. d = Given(me, kid, j) /\ j \in Nat
  BY <1>4, <1>5, <1>7 DEF Downward
<1>9. (j > me.at \/ (j = me.at /\ kid.pc = "body")) => Answerable(Now(me))
  BY <1>4, <1>5 DEF Downward
<1>10. /\ j > me.at \/ (j = me.at /\ kid.pc = "body")
       /\ d[2] = Len(AnswerOf(Now(me))) /\ Len(AnswerOf(Now(me))) \in Nat
  BY <1>0, <1>5, <1>8, <1>9, GivenIs
<1>11. Now(to) = Now(me) /\ Given(to, kid, j) = Given(me, kid, j)
  BY DEF Now, Given
<1>12. Len(to.buf) = Len(AnswerOf(Now(to)))
  BY <1>10, <1>11
<1>13. \A k \in j .. Full(to) :
         ~ ((k = j => kid.pc \in {"none", "cmd", "head"}) /\ to.script[k].op \in {CC_LS, CC_GET})
  <2> SUFFICES ASSUME NEW k \in j .. Full(me), k = j => kid.pc \in {"none", "cmd", "head"}, me.script[k].op \in {CC_LS, CC_GET}
               PROVE  FALSE
    BY <1>5
  <2>1. k = me.at
    BY <1>4 DEF Downward
  <2> QED BY <1>7, <1>10, <2>1
<1>14. Downward(to, kid, From(d, 2), j)
  <2>1. kid.pc = "body" => (Awaiting(to) /\ j = to.at) \/ AnswerOf(to.script[j]) = <<>>
    BY <1>4, <1>5 DEF Downward
  <2>2. j > to.at \/ (j = to.at /\ kid.pc = "body") => Answerable(Now(to))
    BY <1>9, <1>11
  <2> QED BY <1>0, <1>5, <1>8, <1>11, <1>12, <1>13, <2>1, <2>2 DEF Downward
<1>15. Protocol(to, kid, u, From(d, 2))
  BY <1>4, <1>5, <1>6, <1>14 DEF Protocol
<1> QED BY <1>1, <1>2, <1>5, <1>15 DEF Serves

\* The client has received the answer.
LEMMA DataServed ==
  ASSUME NEW me \in ClientStates, Placed(me), NEW to \in ClientStates, me.pc = "data",
         NEW kid, NEW u, NEW d \in Seq(Int), Len(me.buf) <= Len(d), Serves(me, kid, u, d),
         to.pc = "ask", to.script = me.script, to.at = me.at + 1
  PROVE  /\ Serves(to, kid, u, From(d, Len(me.buf))) /\ me.nb = 0
         /\ Answerable(Now(me)) /\ Put(me.buf, d, Len(me.buf)) = AnswerOf(Now(me))
<1>1. ~ Ended(kid)
  BY DEF Serves
<1>2. Protocol(me, kid, u, d) /\ \A k \in 1 .. Full(me) : me.script[k].op # CC_EXIT
  BY <1>1 DEF Serves
<1>3. PICK rest : /\ Stream(me, rest)
                  /\ \E j \in 1 .. Full(me) + 1 : Upward(me, kid, u, j, rest) /\ Downward(me, kid, d, j)
  BY <1>2 DEF Protocol
<1>4. PICK j \in 1 .. Full(me) + 1 : Upward(me, kid, u, j, rest) /\ Downward(me, kid, d, j)
  BY <1>3
<1>5. PICK a \in Nat : a = me.at /\ Full(me) = a
  BY FullIs DEF Awaiting
<1>6. Full(to) = Full(me) /\ Partial(to) = Partial(me) /\ Awaiting(me) /\ ~ Awaiting(to)
  BY <1>5 DEF Full, Partial, Awaiting, SentFile
<1>7. Stream(to, rest) /\ Upward(to, kid, u, j, rest)
  BY <1>3, <1>4, <1>6, UpSame
<1>8. /\ Given(me, kid, j) # <<>> /\ d = From(Given(me, kid, j), 2) /\ Len(me.buf) = Len(AnswerOf(Now(me)))
      /\ me.nb = 0 /\ j \in Nat
  BY <1>4, <1>5, <1>6 DEF Downward
<1>9. (j > me.at \/ (j = me.at /\ kid.pc = "body")) => Answerable(Now(me))
  BY <1>4, <1>6 DEF Downward
<1>10. /\ Answerable(Now(me)) /\ AnswerOf(Now(me)) \in Seq(Int)
       /\ j > me.at \/ (j = me.at /\ kid.pc = "body")
       /\ j > me.at => d = AnswerOf(Now(me))
       /\ ~ (j > me.at) => d = <<>>
  BY <1>6, <1>8, <1>9, GivenIs
<1>11. PICK b \in Seq(Int) : b = me.buf
  BY DEF ClientStates
<1>12. PICK s \in Seq(Int) : s = AnswerOf(Now(me)) /\ Len(b) = Len(s)
  BY <1>8, <1>10, <1>11
<1>13. d = s /\ (~ (j > me.at) => s = <<>>)
  <2>1. CASE j > me.at
    BY <1>10, <1>12, <2>1
  <2>2. CASE ~ (j > me.at)
    <3>1. d = <<>> /\ Len(d) = 0
      BY <1>10, <2>2, EmptySeq
    <3>2. Len(s) = 0
      BY <1>11, <1>12, <3>1
    <3>3. s = <<>>
      BY <3>2, EmptySeq
    <3> QED BY <3>1, <3>3
  <2> QED BY <2>1, <2>2
<1>14. Put(b, d, Len(b)) = s
  <2>1. PICK e \in Seq(Int) : e = <<>>
    <3>1. <<>> \in Seq(Int)
      BY EmptySeq
    <3> QED BY <3>1
  <2>2. Put(b, s \o e, Len(s)) = s
    BY <1>12, PutWhole
  <2>3. s \o e = s
    BY <2>1, JoinNothing
  <2> QED BY <1>12, <1>13, <2>2, <2>3
<1>15. From(d, Len(b)) = <<>>
  BY <1>12, <1>13, FromNothing
<1>16. \A k \in j .. Full(to) :
         ~ ((k = j => kid.pc \in {"none", "cmd", "head"}) /\ to.script[k].op \in {CC_LS, CC_GET})
  <2> SUFFICES ASSUME NEW k \in j .. Full(me), k = j => kid.pc \in {"none", "cmd", "head"}, me.script[k].op \in {CC_LS, CC_GET}
               PROVE  FALSE
    BY <1>6
  <2> QED BY <1>4 DEF Downward
<1>17. kid.pc = "body" => AnswerOf(to.script[j]) = <<>>
  <2> SUFFICES ASSUME kid.pc = "body"
               PROVE  AnswerOf(me.script[j]) = <<>>
    OBVIOUS
  <2>1. j = me.at \/ AnswerOf(me.script[j]) = <<>>
    BY <1>4 DEF Downward
  <2>2. j = me.at => AnswerOf(me.script[j]) = <<>>
    BY <1>5, <1>12, <1>13 DEF Now
  <2> QED BY <2>1, <2>2
<1>18. Downward(to, kid, From(d, Len(b)), j)
  BY <1>6, <1>15, <1>16, <1>17 DEF Downward, Awaiting
<1>19. Protocol(to, kid, u, From(d, Len(b)))
  BY <1>4, <1>6, <1>7, <1>18 DEF Protocol
<1>20. Serves(to, kid, u, From(d, Len(b)))
  BY <1>1, <1>2, <1>6, <1>19 DEF Serves
<1> QED BY <1>8, <1>10, <1>11, <1>12, <1>14, <1>20

-----------------------------------------------------------------------------
(* The steps of a child.                                                   *)

\* The next words on the stream are the command the child is at.
LEMMA NextCommand ==
  ASSUME NEW me \in ClientStates, Placed(me), NEW rest, Stream(me, rest), NEW j \in 1 .. Full(me) + 1, rest[j] # <<>>
  PROVE  /\ j <= Len(me.script) /\ me.script[j] \in Commands
         /\ rest[j] \in Seq(Int) /\ rest[j][1] = me.script[j].op /\ rest[j][2] = me.script[j].name
         /\ me.script[j].op # CC_PUT => j <= Full(me)
         /\ Len(rest[j]) >= 2
         /\ me.script[j].op = CC_PUT /\ Len(rest[j]) > 2 =>
              me.script[j].name \in DOMAIN ClientFiles /\ rest[j][4] = Len(FileOf(me.script[j])) /\ Len(rest[j]) >= 4
<1>1. /\ Full(me) \in Nat /\ Full(me) <= Len(me.script) /\ Len(me.script) \in Nat /\ me.at \in Nat
      /\ \A k \in 1 .. Full(me) : me.script[k] \in Commands
  BY FullIs
<1>2. CASE j <= Full(me)
  <2>1. j \in 1 .. Full(me)
    BY <1>1, <1>2
  <2>2. PICK r : r = me.script[j] /\ r \in Commands /\ Sendable(r)
    BY <1>1, <2>1, StreamIs
  <2>3. PICK m \in Seq(Int), t \in Seq(Int) : m = Message(r) /\ t = rest[j + 1] /\ rest[j] = m \o t
    <3>1. rest[j] = Message(r) \o rest[j + 1] /\ rest[j + 1] \in Seq(Int)
      BY <2>1, <2>2, StreamIs
    <3>2. Message(r) \in Seq(Int)
      BY <2>2, MessageIs
    <3> QED BY <3>1, <3>2
  <2>4. /\ Len(m) \in Nat /\ Len(m) >= 2 /\ m[1] = r.op /\ m[2] = r.name
        /\ r.op = CC_PUT => Len(m) = 4 + Len(FileOf(r)) /\ m[4] = Len(FileOf(r)) /\ r.name \in DOMAIN ClientFiles
    BY <2>2, <2>3, MessageIs DEF Sendable
  <2>5. /\ m \o t \in Seq(Int) /\ Len(m \o t) = Len(m) + Len(t) /\ Len(t) \in Nat
        /\ \A n \in 1 .. Len(m) + Len(t) : (m \o t)[n] = IF n <= Len(m) THEN m[n] ELSE t[n - Len(m)]
    BY JoinIs
  <2>6. (m \o t)[1] = m[1] /\ (m \o t)[2] = m[2] /\ Len(m \o t) >= 2
    <3>1. 1 \in 1 .. Len(m) + Len(t) /\ 2 \in 1 .. Len(m) + Len(t) /\ 1 <= Len(m) /\ 2 <= Len(m)
      BY <2>4, <2>5
    <3> QED BY <2>5, <3>1
  <2>7. r.op = CC_PUT => (m \o t)[4] = m[4] /\ Len(m \o t) >= 4
    <3> SUFFICES ASSUME r.op = CC_PUT
                 PROVE  (m \o t)[4] = m[4] /\ Len(m \o t) >= 4
      OBVIOUS
    <3>1. PICK f \in Seq(Int) : f = FileOf(r) /\ Len(f) \in Nat
      BY <2>2, <2>4, PutHeadIs
    <3>2. Len(m) >= 4
      BY <2>4, <3>1
    <3>3. 4 \in 1 .. Len(m) + Len(t) /\ 4 <= Len(m)
      BY <2>4, <2>5, <3>2
    <3> QED BY <2>4, <2>5, <3>2, <3>3
  <2>8. PICK q \in Seq(Int) : q = rest[j] /\ q = m \o t
    BY <2>3, <2>5
  <2>9. q[1] = r.op /\ q[2] = r.name /\ Len(q) >= 2
    BY <2>4, <2>6, <2>8
  <2>10. r.op = CC_PUT => r.name \in DOMAIN ClientFiles /\ q[4] = Len(FileOf(r)) /\ Len(q) >= 4
    BY <2>4, <2>7, <2>8
  <2>11. j <= Len(me.script)
    BY <1>1, <1>2
  <2> QED BY <1>2, <2>2, <2>8, <2>9, <2>10, <2>11
<1>3. CASE ~ (j <= Full(me))
  <2>1. j = Full(me) + 1 /\ rest[j] = Partial(me)
    <3>1. j = Full(me) + 1
      BY <1>1, <1>3
    <3>2. rest[Full(me) + 1] = Partial(me)
      BY StreamIs
    <3> QED BY <3>1, <3>2
  <2>2. PICK p \in Seq(Int) : p = Partial(me) /\ p # <<>>
    BY <2>1, PartialIs
  <2>3. /\ j = me.at /\ j <= Len(me.script) /\ Now(me).op = CC_PUT
        /\ Len(p) >= 2 /\ p[1] = Now(me).op /\ p[2] = Now(me).name
        /\ Len(p) > 2 => Now(me).name \in DOMAIN ClientFiles /\ Len(p) = 4 /\ p[4] = Len(FileOf(Now(me)))
    BY <2>1, <2>2, PartialIs
  <2>4. Now(me) \in Commands /\ Now(me) = me.script[j]
    BY <2>3, AtCommand DEF Now
  <2>5. Len(p) > 2 => Len(p) >= 4
    <3> SUFFICES ASSUME Len(p) > 2
                 PROVE  Len(p) >= 4
      OBVIOUS
    <3>1. Len(p) = 4
      BY <2>3
    <3> QED BY <3>1
  <2> QED BY <2>1, <2>2, <2>3, <2>4, <2>5
<1> QED BY <1>2, <1>3

\* A client that has sent EXIT has sent everything.
LEMMA OverIs ==
  ASSUME NEW me \in ClientStates, Placed(me), me.pc = "over", ~ (me.at <= Len(me.script)),
         NEW rest, Stream(me, rest), NEW j \in 1 .. Full(me) + 1,
         \A k \in 1 .. j - 1 : me.script[k].op # CC_EXIT
  PROVE  j \in 1 .. Full(me) /\ rest[j] # <<>>
<1>1. PICK n \in Nat, s \in Seq(Commands) : s = me.script /\ n = Len(s) /\ Full(me) = n /\ me.at = n + 1
  <2>1. me.script \in Seq(Commands) /\ Len(me.script) \in Nat /\ Full(me) = me.at - 1 /\ me.at \in Nat
    BY FullIs
  <2>2. me.at <= Len(me.script) + 1
    BY DEF Placed
  <2>3. me.at = Len(me.script) + 1 /\ Full(me) = Len(me.script)
    BY <2>1, <2>2
  <2> QED BY <2>1, <2>3
<1>2. s[n].op = CC_EXIT /\ s # <<>>
  BY <1>1 DEF Placed
<1>3. n >= 1
  BY <1>1, <1>2, EmptySeq
<1>4. j \in 1 .. n
  <2>1. CASE j = n + 1
    BY <1>1, <1>2, <1>3, <2>1
  <2> QED BY <1>1, <2>1
<1>5. PICK m \in Seq(Int), t \in Seq(Int) : rest[j] = m \o t /\ Len(m) >= 2
  <2>1. j \in 1 .. Full(me)
    BY <1>1, <1>4
  <2>2. /\ Sendable(me.script[j]) /\ rest[j] = Message(me.script[j]) \o rest[j + 1] /\ rest[j + 1] \in Seq(Int)
    BY <2>1, StreamIs
  <2>3. Message(me.script[j]) \in Seq(Int) /\ Len(Message(me.script[j])) >= 2
    BY <2>2, MessageIs
  <2> QED BY <2>2, <2>3
<1>6. Len(m \o t) = Len(m) + Len(t) /\ Len(m) \in Nat /\ Len(t) \in Nat
  BY JoinIs
<1>7. rest[j] # <<>>
  BY <1>5, <1>6, EmptySeq
<1> QED BY <1>1, <1>4, <1>7

\* The child receives a command.
LEMMA CommandServed ==
  ASSUME NEW me \in ClientStates, Placed(me), NEW kid \in ChildStates, kid.pc = "cmd", NEW kid2 \in ChildStates,
         NEW u \in Seq(Int), Len(u) >= 2, NEW d, Serves(me, kid, u, d),
         kid2.cmd[1] = u[1], kid2.cmd[2] = u[2], kid2.pc = Case(u[1])
  PROVE  Serves(me, kid2, From(u, 2), d)
<1>1. ~ Ended(kid)
  BY DEF Ended
<1>2. Protocol(me, kid, u, d) /\ (me.pc # "over" => \A k \in 1 .. Full(me) : me.script[k].op # CC_EXIT)
  BY <1>1 DEF Serves
<1>3. PICK rest : /\ Stream(me, rest)
                  /\ \E j \in 1 .. Full(me) + 1 : Upward(me, kid, u, j, rest) /\ Downward(me, kid, d, j)
  BY <1>2 DEF Protocol
<1>4. PICK j \in 1 .. Full(me) + 1 : Upward(me, kid, u, j, rest) /\ Downward(me, kid, d, j)
  BY <1>3
<1>5. u = rest[j]
  <2>1. rest[j] \in Seq(Int)
    BY <1>3, StreamIs
  <2>2. u = From(rest[j], 0)
    BY <1>4 DEF Upward, Skipped
  <2> QED BY <2>1, <2>2, FromNothing
<1>6. PICK r \in Commands : /\ r = me.script[j] /\ j <= Len(me.script) /\ u[1] = r.op /\ u[2] = r.name
                            /\ r.op # CC_PUT => j <= Full(me)
  <2>1. u # <<>>
    BY EmptySeq
  <2> QED BY <1>3, <1>5, <2>1, NextCommand
<1>7. r.op \in {CC_LS, CC_GET, CC_PUT, CC_EXIT}
  BY HeadIs
<1>8. \A k \in 1 .. j - 1 : me.script[k].op # CC_EXIT
  BY <1>4 DEF Upward
<1>9. CASE r.op = CC_EXIT
  <2>1. kid2.pc = "zombie"
    BY <1>6, <1>9, CaseIs
  <2>2. j \in 1 .. Full(me)
    <3>1. CC_EXIT # CC_PUT /\ Full(me) \in Nat
      BY FullIs DEF CC_PUT, CC_EXIT
    <3> QED BY <1>6, <1>9, <3>1
  <2>3. me.pc = "over"
    BY <1>2, <1>6, <1>9, <2>2
  <2> QED BY <2>1, <2>3 DEF Serves, Ended
<1>10. CASE r.op # CC_EXIT
  <2>1. \/ r.op \in {CC_LS, CC_GET} /\ kid2.pc = "head"
        \/ r.op = CC_PUT /\ kid2.pc = "payload"
    BY <1>6, <1>7, <1>10, CaseIs
  <2>2. Skipped(kid2) = 2 /\ ~ Ended(kid2)
    BY <2>1 DEF Skipped, Ended
  <2>3. kid2.pc = "head" => j <= Full(me) /\ r.op \in {CC_LS, CC_GET}
    BY <1>6, <2>1 DEF CC_LS, CC_GET, CC_PUT
  <2>4. kid2.pc = "payload" => r.op = CC_PUT
    BY <2>1
  <2>5. kid2.pc \notin {"body", "data"}
    BY <2>1
  <2>6. Upward(me, kid2, From(u, 2), j, rest)
    BY <1>5, <1>6, <1>8, <2>2, <2>3, <2>4, <2>5 DEF Upward
  <2>7. Downward(me, kid2, d, j)
    BY <1>4, <2>5, DownSame
  <2>8. Protocol(me, kid2, From(u, 2), d)
    BY <1>3, <2>6, <2>7 DEF Protocol
  <2> QED BY <1>2, <2>2, <2>8 DEF Serves
<1> QED BY <1>9, <1>10

\* There is always a command before the end of the stream: the child never
\* takes the old one for it.
LEMMA NoCommandLacks ==
  ASSUME NEW me \in ClientStates, Placed(me), me.pc = "over", ~ (me.at <= Len(me.script)),
         NEW kid, kid.pc \in {"cmd", "payload"}, NEW d, NEW u, u = <<>>
  PROVE  ~ Serves(me, kid, u, d)
<1> SUFFICES ASSUME Serves(me, kid, u, d)
             PROVE  FALSE
  OBVIOUS
<1>1. PICK rest : /\ Stream(me, rest)
                  /\ \E j \in 1 .. Full(me) + 1 : Upward(me, kid, u, j, rest) /\ Downward(me, kid, d, j)
  BY DEF Serves, Ended, Protocol
<1>2. PICK j \in 1 .. Full(me) + 1 : Upward(me, kid, u, j, rest)
  BY <1>1
<1>3. j \in 1 .. Full(me) /\ rest[j] # <<>>
  <2>1. \A k \in 1 .. j - 1 : me.script[k].op # CC_EXIT
    BY <1>2 DEF Upward
  <2> QED BY <1>1, <2>1, OverIs
<1>4. PICK s \in Seq(Int) : s = rest[j]
  BY <1>1, StreamIs
<1>5. CASE kid.pc = "cmd"
  <2>1. u = From(s, 0)
    BY <1>2, <1>4, <1>5 DEF Upward, Skipped
  <2> QED BY <1>3, <1>4, <2>1, FromNothing
<1>6. CASE kid.pc = "payload"
  <2>1. u = From(s, 2) /\ me.script[j].op = CC_PUT /\ 2 <= Len(s)
    BY <1>2, <1>4, <1>6 DEF Upward, Skipped
  <2>2. Sendable(me.script[j]) /\ rest[j] = Message(me.script[j]) \o rest[j + 1] /\ rest[j + 1] \in Seq(Int)
    BY <1>1, <1>3, StreamIs
  <2>3. PICK m \in Seq(Int), t \in Seq(Int) : m = Message(me.script[j]) /\ t = rest[j + 1]
    BY <2>2, MessageIs
  <2>4. Len(m) >= 4
    <3>1. me.script[j] \in Commands /\ me.script[j].name \in DOMAIN ClientFiles
      BY <2>1, <2>2 DEF Sendable
    <3>2. Len(FileOf(me.script[j])) \in Nat
      BY <3>1, PutHeadIs
    <3>3. Len(m) = 4 + Len(FileOf(me.script[j]))
      BY <2>1, <2>2, <2>3, MessageIs
    <3> QED BY <3>2, <3>3
  <2>5. Len(s) = Len(m) + Len(t) /\ Len(t) \in Nat
    BY <1>4, <2>2, <2>3, JoinIs
  <2>6. Len(From(s, 2)) = Len(s) - 2
    <3>1. 2 \in 0 .. Len(s)
      BY <2>1
    <3> QED BY <3>1, FromIs
  <2>7. Len(u) = 0
    BY EmptySeq
  <2> QED BY <2>1, <2>4, <2>5, <2>6, <2>7
<1> QED BY <1>5, <1>6

\* The child is where its command is, and so is what it answers.
LEMMA AnsweredBy ==
  ASSUME NEW cmd, NEW r, cmd[1] = r.op, cmd[2] = r.name
  PROVE  Offered(cmd) = AnswerOf(r) /\ Announced(cmd) = AnnounceOf(r)
BY DEF Offered, Announced, AnswerOf, AnnounceOf

\* The child announces its answer, or ends because the file is not there.
LEMMA HeadServed ==
  ASSUME NEW me \in ClientStates, Placed(me), NEW kid \in ChildStates, kid.pc = "head", NEW kid2 \in ChildStates,
         kid2.cmd = kid.cmd, NEW u, NEW d, Serves(me, kid, u, d)
  PROVE  /\ kid2.pc = "body" /\ (kid.cmd[1] = CC_LS \/ kid.cmd[2] \in DOMAIN ServerFiles) =>
              Serves(me, kid2, u, IF me.pc = "over" THEN d ELSE d \o Announced(kid.cmd))
         /\ kid2.pc = "zombie" /\ ~ (kid.cmd[1] = CC_LS \/ kid.cmd[2] \in DOMAIN ServerFiles) => Serves(me, kid2, u, d)
<1>1. ~ Ended(kid)
  BY DEF Ended
<1>2. Protocol(me, kid, u, d) /\ (me.pc # "over" => \A k \in 1 .. Full(me) : me.script[k].op # CC_EXIT)
  BY <1>1 DEF Serves
<1>3. PICK rest : /\ Stream(me, rest)
                  /\ \E j \in 1 .. Full(me) + 1 : Upward(me, kid, u, j, rest) /\ Downward(me, kid, d, j)
  BY <1>2 DEF Protocol
<1>4. PICK j \in 1 .. Full(me) + 1 : Upward(me, kid, u, j, rest) /\ Downward(me, kid, d, j)
  BY <1>3
<1>5. PICK r : /\ r = me.script[j] /\ j <= Full(me) /\ r.op \in {CC_LS, CC_GET}
               /\ kid.cmd[1] = r.op /\ kid.cmd[2] = r.name
  BY <1>4 DEF Upward, Skipped
<1>6. Full(me) \in Nat /\ me.at \in Nat /\ r \in Commands /\ (Awaiting(me) => Full(me) = me.at)
  BY <1>5, FullIs
<1>7. me.pc = "over" \/ (me.pc = "payload" /\ j = me.at)
  <2>1. j \in j .. Full(me)
    BY <1>5, <1>6
  <2>2. kid.pc \in {"none", "cmd", "head"}
    OBVIOUS
  <2> QED BY <1>4, <1>5, <2>1, <2>2 DEF Downward
<1>8. Offered(kid.cmd) = AnswerOf(r) /\ Announced(kid.cmd) = AnnounceOf(r)
  BY <1>5, AnsweredBy
<1>9. me.pc = "payload" => d = <<>> /\ Now(me) = r /\ Full(me) = j
  <2> SUFFICES ASSUME me.pc = "payload"
               PROVE  d = <<>> /\ Now(me) = r /\ Full(me) = j
    OBVIOUS
  <2>1. d = Given(me, kid, j) /\ j = me.at
    BY <1>4, <1>7 DEF Downward
  <2>2. Given(me, kid, j) = <<>>
    BY <1>6, <2>1 DEF Given
  <2>3. Full(me) = me.at
    BY <1>6 DEF Awaiting
  <2> QED BY <1>5, <2>1, <2>2, <2>3 DEF Now
<1>10. ASSUME kid2.pc = "body", kid.cmd[1] = CC_LS \/ kid.cmd[2] \in DOMAIN ServerFiles
       PROVE  Serves(me, kid2, u, IF me.pc = "over" THEN d ELSE d \o Announced(kid.cmd))
  <2> DEFINE d2 == IF me.pc = "over" THEN d ELSE d \o Announced(kid.cmd)
  <2>1. Upward(me, kid2, u, j, rest)
    BY <1>4, <1>5, <1>10 DEF Upward, Skipped
  <2>2. Answerable(r)
    BY <1>5, <1>10 DEF Answerable
  <2>3. Downward(me, kid2, d2, j)
    <3>1. CASE me.pc = "over"
      BY <3>1, <1>4 DEF Downward, Awaiting
    <3>2. CASE me.pc = "payload"
      <4>1. d2 = AnnounceOf(r)
        <5>1. PICK a \in Seq(Int) : a = AnnounceOf(r)
          BY <1>6, <2>2, AnswerIs
        <5>2. <<>> \o a = a
          BY JoinNothing
        <5> QED BY <1>8, <1>9, <3>2, <5>1, <5>2
      <4> HIDE DEF d2
      <4>2. d2 = Given(me, kid2, j)
        BY <1>6, <1>7, <1>9, <1>10, <3>2, <4>1 DEF Given
      <4>3. \A k \in j .. Full(me) : ~ (k = j => kid2.pc \in {"none", "cmd", "head"})
        BY <1>6, <1>9, <1>10, <3>2
      <4>4. Awaiting(me) /\ j = me.at /\ Answerable(Now(me))
        BY <1>7, <1>9, <2>2, <3>2 DEF Awaiting
      <4>5. me.nb = 0
        BY <1>4, <4>4 DEF Downward
      <4> QED BY <3>2, <4>2, <4>3, <4>4, <4>5 DEF Downward
    <3> QED BY <1>7, <3>1, <3>2
  <2> HIDE DEF d2
  <2>4. Protocol(me, kid2, u, d2)
    BY <1>3, <2>1, <2>3 DEF Protocol
  <2>5. Serves(me, kid2, u, d2)
    BY <1>2, <1>10, <2>4 DEF Serves, Ended
  <2> QED BY <2>5 DEF d2
<1>11. ASSUME kid2.pc = "zombie", ~ (kid.cmd[1] = CC_LS \/ kid.cmd[2] \in DOMAIN ServerFiles)
       PROVE  Serves(me, kid2, u, d)
  <2>1. kid2.cmd[1] # CC_EXIT
    BY <1>5 DEF CC_LS, CC_GET, CC_EXIT
  <2> QED BY <1>7, <1>9, <1>11, <2>1 DEF Serves, Ended
<1> QED BY <1>10, <1>11

\* The child sends its answer.
LEMMA BodyServed ==
  ASSUME NEW me \in ClientStates, Placed(me), NEW kid \in ChildStates, kid.pc = "body", NEW kid2 \in ChildStates,
         kid2.pc = "cmd", NEW u, NEW d, Offering(kid), Serves(me, kid, u, d)
  PROVE  Serves(me, kid2, u, IF me.pc = "over" THEN d ELSE d \o Offered(kid.cmd))
<1>1. ~ Ended(kid)
  BY DEF Ended
<1>2. Protocol(me, kid, u, d) /\ (me.pc # "over" => \A k \in 1 .. Full(me) : me.script[k].op # CC_EXIT)
  BY <1>1 DEF Serves
<1>3. PICK rest : /\ Stream(me, rest)
                  /\ \E j \in 1 .. Full(me) + 1 : Upward(me, kid, u, j, rest) /\ Downward(me, kid, d, j)
  BY <1>2 DEF Protocol
<1>4. PICK j \in 1 .. Full(me) + 1 : Upward(me, kid, u, j, rest) /\ Downward(me, kid, d, j)
  BY <1>3
<1>5. PICK r : /\ r = me.script[j] /\ j <= Full(me) /\ r.op \in {CC_LS, CC_GET}
               /\ kid.cmd[1] = r.op /\ kid.cmd[2] = r.name
  BY <1>4 DEF Upward, Skipped
<1>6. Full(me) \in Nat /\ me.at \in Nat /\ r \in Commands /\ (Awaiting(me) => Full(me) = me.at)
  BY <1>5, FullIs
<1>7. Answerable(r)
  BY <1>5 DEF Offering, Answerable
<1>8. PICK s \in Seq(Int) : s = AnswerOf(r) /\ Offered(kid.cmd) = s
  BY <1>5, <1>6, <1>7, AnswerIs, AnsweredBy
<1>9. PICK a \in Seq(Int) : a = AnnounceOf(r) /\ Len(a) = 2
  BY <1>6, <1>7, AnswerIs
<1>10. Upward(me, kid2, u, j + 1, rest) /\ j + 1 \in 1 .. Full(me) + 1
  <2>1. j \in 1 .. Full(me)
    BY <1>5, <1>6
  <2>2. /\ Sendable(r) /\ rest[j] = Message(r) \o rest[j + 1] /\ rest[j + 1] \in Seq(Int)
    BY <1>3, <1>5, <2>1, StreamIs
  <2>3. r.op # CC_PUT /\ r.op # CC_EXIT
    BY <1>5 DEF CC_LS, CC_GET, CC_PUT, CC_EXIT
  <2>4. PICK m \in Seq(Int), t \in Seq(Int) : m = Message(r) /\ t = rest[j + 1] /\ Len(m) = 2
    BY <2>2, <2>3, MessageIs
  <2>5. u = From(m \o t, 2)
    BY <1>4, <2>2, <2>4 DEF Upward, Skipped
  <2>6. From(m \o t, Len(m)) = t
    BY FromJoined
  <2>7. u = t
    BY <2>4, <2>5, <2>6
  <2>8. From(t, 0) = t /\ Len(t) >= 0
    BY FromNothing
  <2>9. \A k \in 1 .. (j + 1) - 1 : me.script[k].op # CC_EXIT
    <3>1. \A k \in 1 .. j - 1 : me.script[k].op # CC_EXIT
      BY <1>4 DEF Upward
    <3>2. \A k \in 1 .. (j + 1) - 1 : k \in 1 .. j - 1 \/ k = j
      BY <2>1
    <3> QED BY <1>5, <2>3, <3>1, <3>2
  <2>10. j + 1 \in 1 .. Full(me) + 1
    BY <1>6, <2>1
  <2> QED BY <2>4, <2>7, <2>8, <2>9, <2>10 DEF Upward, Skipped
<1> DEFINE d2 == IF me.pc = "over" THEN d ELSE d \o Offered(kid.cmd)
<1>11. Downward(me, kid2, d2, j + 1)
  <2>1. \A k \in j + 1 .. Full(me) :
          me.script[k].op \in {CC_LS, CC_GET} => me.pc = "over" \/ (me.pc = "payload" /\ k = me.at)
    <3> TAKE k \in j + 1 .. Full(me)
    <3>1. k \in j .. Full(me) /\ k # j
      BY <1>6
    <3> QED BY <1>4, <3>1 DEF Downward
  <2>2. CASE me.pc = "over"
    BY <2>1, <2>2 DEF Downward, Awaiting
  <2>3. CASE Awaiting(me)
    <3>1. j <= me.at /\ j \in Nat
      BY <1>5, <1>6, <2>3
    <3>2. d2 = d \o s
      BY <1>8, <2>3 DEF Awaiting
    <3>3. me.nb = 0
      BY <1>4, <2>3 DEF Downward
    <3> HIDE DEF d2
    <3>4. CASE j = me.at
      <4>1. Now(me) = r
        BY <1>5, <3>4 DEF Now
      <4>2. Given(me, kid, j) = a /\ Given(me, kid2, j + 1) = a \o s
        <5>1. ~ (j > me.at) /\ j + 1 > me.at
          BY <1>6, <3>4
        <5> QED BY <1>8, <1>9, <3>4, <4>1, <5>1 DEF Given
      <4>3. me.pc = "payload" => d2 = a \o s
        BY <1>4, <3>2, <4>2 DEF Downward
      <4>4. me.pc = "data" => d2 = From(a \o s, 2) /\ Len(me.buf) = Len(s) /\ a \o s # <<>>
        <5> SUFFICES ASSUME me.pc = "data"
                     PROVE  d2 = From(a \o s, 2) /\ Len(me.buf) = Len(s) /\ a \o s # <<>>
          OBVIOUS
        <5>1. d = From(a, 2) /\ Len(me.buf) = Len(s)
          BY <1>4, <1>8, <4>1, <4>2 DEF Downward
        <5>2. d = <<>>
          BY <1>9, <5>1, FromNothing
        <5>3. d2 = s
          BY <3>2, <5>2, JoinNothing
        <5>4. From(a \o s, Len(a)) = s
          BY FromJoined
        <5>5. Len(a \o s) = Len(a) + Len(s) /\ Len(s) \in Nat
          BY JoinIs
        <5>6. a \o s # <<>>
          BY <1>9, <5>5, EmptySeq
        <5> QED BY <1>9, <5>1, <5>3, <5>4, <5>6
      <4> QED BY <1>7, <1>8, <2>1, <2>3, <3>3, <4>1, <4>2, <4>3, <4>4 DEF Downward
    <3>5. CASE j # me.at
      <4>1. ~ (j > me.at) /\ ~ (j + 1 > me.at) /\ j < me.at
        BY <1>6, <3>1, <3>5
      <4>2. Given(me, kid, j) = <<>> /\ Given(me, kid2, j + 1) = <<>>
        BY <3>5, <4>1 DEF Given
      <4>3. me.pc = "payload"
        BY <1>4, <2>3, <4>2 DEF Downward, Awaiting
      <4>4. d = <<>> /\ s = <<>>
        BY <1>4, <1>5, <1>8, <3>5, <4>2, <4>3 DEF Downward
      <4>5. d2 = <<>>
        BY <3>2, <4>4, JoinNothing
      <4> QED BY <2>1, <3>3, <4>1, <4>2, <4>3, <4>5 DEF Downward
    <3> QED BY <3>4, <3>5
  <2>4. CASE me.pc # "over" /\ ~ Awaiting(me)
    <3>1. d = <<>> /\ s = <<>>
      BY <1>4, <1>5, <1>8, <2>4 DEF Downward
    <3>2. d2 = <<>>
      <4>1. d2 = d \o s
        BY <1>8, <2>4
      <4> HIDE DEF d2
      <4> QED BY <3>1, <4>1, JoinNothing
    <3> HIDE DEF d2
    <3> QED BY <2>1, <2>4, <3>2 DEF Downward, Awaiting
  <2> QED BY <2>2, <2>3, <2>4
<1> HIDE DEF d2
<1>12. Protocol(me, kid2, u, d2)
  BY <1>3, <1>10, <1>11 DEF Protocol
<1>13. Serves(me, kid2, u, d2)
  BY <1>2, <1>12 DEF Serves, Ended
<1> QED BY <1>13 DEF d2

\* The child receives the size of the file.
LEMMA SizeServed ==
  ASSUME NEW me \in ClientStates, Placed(me), NEW kid \in ChildStates, kid.pc = "payload", NEW kid2 \in ChildStates,
         NEW u \in Seq(Int), Len(u) >= 2, NEW d, Serves(me, kid, u, d),
         kid2.pc = "data", kid2.cmd = kid.cmd, kid2.nb = 0, Len(kid2.buf) = IF u[2] > 0 THEN u[2] ELSE 0
  PROVE  Serves(me, kid2, From(u, 2), d)
<1>1. ~ Ended(kid)
  BY DEF Ended
<1>2. Protocol(me, kid, u, d) /\ (me.pc # "over" => \A k \in 1 .. Full(me) : me.script[k].op # CC_EXIT)
  BY <1>1 DEF Serves
<1>3. PICK rest : /\ Stream(me, rest)
                  /\ \E j \in 1 .. Full(me) + 1 : Upward(me, kid, u, j, rest) /\ Downward(me, kid, d, j)
  BY <1>2 DEF Protocol
<1>4. PICK j \in 1 .. Full(me) + 1 : Upward(me, kid, u, j, rest) /\ Downward(me, kid, d, j)
  BY <1>3
<1>5. PICK s \in Seq(Int) : s = rest[j] /\ Len(s) \in Nat
  <2>1. rest[j] \in Seq(Int)
    BY <1>3, StreamIs
  <2> QED BY <2>1
<1>6. u = From(s, 2) /\ 2 <= Len(s) /\ me.script[j].op = CC_PUT
  BY <1>4, <1>5 DEF Upward, Skipped
<1>7. Len(u) = Len(s) - 2 /\ u[2] = s[4]
  <2>1. 2 \in 0 .. Len(s)
    BY <1>5, <1>6
  <2>2. Len(From(s, 2)) = Len(s) - 2 /\ \A n \in 1 .. Len(s) - 2 : From(s, 2)[n] = s[2 + n]
    BY <2>1, FromIs
  <2>3. 2 \in 1 .. Len(s) - 2
    BY <1>5, <1>6, <2>2
  <2> QED BY <1>6, <2>2, <2>3
<1>8. Len(s) >= 4
  BY <1>5, <1>7
<1>9. PICK r : r = me.script[j] /\ r \in Commands /\ r.name \in DOMAIN ClientFiles /\ s[4] = Len(FileOf(r))
  <2>1. s # <<>> /\ Len(s) > 2
    BY <1>5, <1>8, EmptySeq
  <2>2. rest[j] # <<>> /\ Len(rest[j]) > 2
    BY <1>5, <2>1
  <2>3. me.script[j] \in Commands
    BY <1>3, <2>2, NextCommand
  <2>4. me.script[j].op = CC_PUT => me.script[j].name \in DOMAIN ClientFiles /\ rest[j][4] = Len(FileOf(me.script[j]))
    BY <1>3, <2>2, NextCommand
  <2> QED BY <1>5, <1>6, <2>3, <2>4
<1>10. Len(FileOf(r)) \in Nat
  BY <1>9, PutHeadIs
<1>11. Len(kid2.buf) = Len(FileOf(r))
  <2>1. u[2] = Len(FileOf(r))
    BY <1>7, <1>9
  <2> QED BY <1>10, <2>1
<1>12. From(u, 2) = From(s, 4)
  <2>1. PICK k \in Nat, l \in Nat : k = 2 /\ l = 2 /\ k + l = 4 /\ k + l <= Len(s)
    BY <1>8
  <2>2. From(From(s, k), l) = From(s, k + l)
    BY <2>1, FromTwice
  <2> QED BY <1>6, <2>1, <2>2
<1>13. Upward(me, kid2, From(u, 2), j, rest)
  <2>1. j <= Len(me.script) /\ kid.cmd[1] = me.script[j].op /\ kid.cmd[2] = me.script[j].name
    BY <1>4 DEF Upward, Skipped
  <2>2. \A k \in 1 .. j - 1 : me.script[k].op # CC_EXIT
    BY <1>4 DEF Upward
  <2> QED BY <1>5, <1>6, <1>8, <1>9, <1>11, <1>12, <2>1, <2>2 DEF Upward, Skipped
<1>14. Downward(me, kid2, d, j)
  BY <1>4, DownSame
<1>15. Protocol(me, kid2, From(u, 2), d)
  BY <1>3, <1>13, <1>14 DEF Protocol
<1> QED BY <1>2, <1>15 DEF Serves, Ended

\* The child receives the file.
LEMMA UploadServed ==
  ASSUME NEW me \in ClientStates, Placed(me), NEW kid \in ChildStates, kid.pc = "data", NEW kid2 \in ChildStates,
         NEW u \in Seq(Int), Len(kid.buf) <= Len(u), NEW d, Serves(me, kid, u, d), kid2.pc = "cmd"
  PROVE  /\ Serves(me, kid2, From(u, Len(kid.buf)), d) /\ kid.nb = 0
         /\ kid.cmd[2] \in DOMAIN ClientFiles /\ Put(kid.buf, u, Len(kid.buf)) = ClientFiles[kid.cmd[2]]
<1>1. ~ Ended(kid)
  BY DEF Ended
<1>2. Protocol(me, kid, u, d) /\ (me.pc # "over" => \A k \in 1 .. Full(me) : me.script[k].op # CC_EXIT)
  BY <1>1 DEF Serves
<1>3. PICK rest : /\ Stream(me, rest)
                  /\ \E j \in 1 .. Full(me) + 1 : Upward(me, kid, u, j, rest) /\ Downward(me, kid, d, j)
  BY <1>2 DEF Protocol
<1>4. PICK j \in 1 .. Full(me) + 1 : Upward(me, kid, u, j, rest) /\ Downward(me, kid, d, j)
  BY <1>3
<1>5. PICK s \in Seq(Int) : s = rest[j] /\ Len(s) \in Nat
  <2>1. rest[j] \in Seq(Int)
    BY <1>3, StreamIs
  <2> QED BY <2>1
<1>6. PICK r : /\ r = me.script[j] /\ r.op = CC_PUT /\ r.name \in DOMAIN ClientFiles /\ j <= Len(me.script)
               /\ kid.cmd[2] = r.name /\ Len(kid.buf) = Len(FileOf(r)) /\ kid.nb = 0
               /\ u = From(s, 4) /\ 4 <= Len(s)
  BY <1>4, <1>5 DEF Upward, Skipped
<1>7. r \in Commands
  BY <1>3, <1>5, <1>6, NextCommand, EmptySeq
<1>8. PICK f \in Seq(Int), h \in Seq(Int) :
        f = FileOf(r) /\ Len(f) \in Nat /\ h = HeadOf(r) \o SizeOf(r) /\ Len(h) = 4
  BY <1>6, <1>7, PutHeadIs
<1>9. j \in 1 .. Full(me)
  <2> SUFFICES ASSUME j \notin 1 .. Full(me)
               PROVE  FALSE
    OBVIOUS
  <2>1. j = Full(me) + 1
    BY FullIs
  <2>2. s = Partial(me)
    BY <1>3, <1>5, <2>1, StreamIs
  <2>3. s # <<>> /\ Len(s) > 2
    BY <1>5, <1>6, EmptySeq
  <2>4. me.at = Full(me) + 1 /\ FileOf(Now(me)) # <<>> /\ Len(s) = 4
    BY <2>2, <2>3, PartialIs
  <2>5. FileOf(Now(me)) = f
    BY <1>6, <1>8, <2>1, <2>4 DEF Now
  <2>6. u = <<>> /\ Len(u) = 0
    BY <1>6, <2>4, FromNothing, EmptySeq
  <2>7. Len(f) = 0
    BY <1>6, <1>8, <2>6
  <2>8. f = <<>>
    BY <2>7, EmptySeq
  <2> QED BY <2>4, <2>5, <2>8
<1>10. PICK t \in Seq(Int) : t = rest[j + 1] /\ s = (h \o f) \o t
  <2>1. rest[j] = Message(r) \o rest[j + 1] /\ rest[j + 1] \in Seq(Int)
    BY <1>3, <1>6, <1>9, StreamIs
  <2>2. Message(r) = h \o f
    BY <1>6, <1>8 DEF Message
  <2> QED BY <1>5, <2>1, <2>2
<1>11. f \o t \in Seq(Int) /\ u = f \o t
  <2>1. s = h \o (f \o t)
    <3>1. (h \o f) \o t = h \o (f \o t)
      BY Regroup
    <3> QED BY <1>10, <3>1
  <2>2. PICK v \in Seq(Int) : v = f \o t
    BY JoinIs
  <2>3. From(h \o v, Len(h)) = v
    BY FromJoined
  <2> QED BY <1>6, <1>8, <2>1, <2>2, <2>3
<1>12. PICK b \in Seq(Int) : b = kid.buf /\ Len(b) = Len(f)
  BY <1>6, <1>8 DEF ChildStates
<1>13. Put(b, u, Len(b)) = f
  <2>1. Put(b, f \o t, Len(f)) = f
    BY <1>12, PutWhole
  <2> QED BY <1>11, <1>12, <2>1
<1>14. From(u, Len(b)) = t
  <2>1. From(f \o t, Len(f)) = t
    BY FromJoined
  <2> QED BY <1>11, <1>12, <2>1
<1>15. Full(me) \in Nat /\ me.at \in Nat /\ (Awaiting(me) => Full(me) = me.at)
  BY FullIs
<1>16. j + 1 \in 1 .. Full(me) + 1
  BY <1>9, <1>15
<1>17. Upward(me, kid2, t, j + 1, rest)
  <2>1. \A k \in 1 .. (j + 1) - 1 : me.script[k].op # CC_EXIT
    <3>1. \A k \in 1 .. j - 1 : me.script[k].op # CC_EXIT
      BY <1>4 DEF Upward
    <3>2. \A k \in 1 .. (j + 1) - 1 : k \in 1 .. j - 1 \/ k = j
      BY <1>9
    <3>3. r.op # CC_EXIT
      BY <1>6 DEF CC_PUT, CC_EXIT
    <3> QED BY <1>6, <3>1, <3>2, <3>3
  <2>2. From(t, 0) = t /\ Len(t) >= 0
    BY FromNothing
  <2> QED BY <1>10, <2>1, <2>2 DEF Upward, Skipped
<1>18. Downward(me, kid2, d, j + 1)
  <2>1. \A k \in j + 1 .. Full(me) :
          me.script[k].op \in {CC_LS, CC_GET} => me.pc = "over" \/ (me.pc = "payload" /\ k = me.at)
    <3> TAKE k \in j + 1 .. Full(me)
    <3>1. k \in j .. Full(me) /\ k # j
      BY <1>9, <1>15
    <3> QED BY <1>4, <3>1 DEF Downward
  <2>2. CASE Awaiting(me)
    <3>1. j # me.at
      <4>1. Now(me).op \in {CC_LS, CC_GET}
        BY <2>2 DEF Placed
      <4>2. Now(me).op # CC_PUT
        BY <4>1 DEF CC_LS, CC_GET, CC_PUT
      <4> QED BY <1>6, <4>2 DEF Now
    <3>2. ~ (j > me.at) /\ ~ (j + 1 > me.at)
      BY <1>9, <1>15, <2>2, <3>1
    <3>3. Given(me, kid, j) = <<>> /\ Given(me, kid2, j + 1) = <<>>
      BY <3>1, <3>2 DEF Given
    <3>4. me.pc = "payload" /\ d = <<>> /\ me.nb = 0
      BY <1>4, <2>2, <3>3 DEF Downward, Awaiting
    <3> QED BY <2>1, <3>2, <3>3, <3>4 DEF Downward
  <2>3. CASE ~ Awaiting(me)
    <3>1. me.pc # "over" => d = <<>>
      BY <1>4, <2>3 DEF Downward
    <3> QED BY <2>1, <2>3, <3>1 DEF Downward, Awaiting
  <2> QED BY <2>2, <2>3
<1>19. Protocol(me, kid2, t, d)
  BY <1>3, <1>16, <1>17, <1>18 DEF Protocol
<1>20. Serves(me, kid2, t, d)
  BY <1>2, <1>19 DEF Serves, Ended
<1> QED BY <1>6, <1>8, <1>12, <1>13, <1>14, <1>20 DEF FileOf

-----------------------------------------------------------------------------
(* Every step keeps what a child serves.                                   *)

\* The session was ended from outside, or a child serves it.
Good(c) == Aborted(c) \/ Serves(client[c], child[c], up[c], down[c])

\* What connection c has saved is whole, unless its session was ended.
SavedWhole(c) == \A r \in saved' : r \in saved \/ (r.session = c /\ (Aborted(c)' \/ Whole(r)))

\* The client goes on with a command.
LEMMA PutAsked ==
  ASSUME NEW me \in ClientStates, Placed(me), NEW to \in ClientStates, me.pc = "ask", Now(me).op = CC_PUT,
         to.pc = "put", to.script = me.script, to.at = me.at
  PROVE  Sends(me, to, HeadOf(Now(me))) /\ HeadOf(Now(me)) \in Seq(Int) /\ Full(to) = Full(me)
<1>1. Full(me) = me.at - 1 /\ Full(to) = me.at - 1
  BY DEF Full, Awaiting, SentFile
<1>2. Partial(me) = <<>> /\ Partial(to) = HeadOf(Now(me))
  BY DEF Partial, SentFile, Now
<1>3. Now(me) \in Commands
  BY AtCommand DEF Placed
<1>4. PICK w \in Seq(Int) : w = HeadOf(Now(me))
  BY <1>3, HeadIs
<1>5. <<>> \o w = w
  BY JoinNothing
<1> QED BY <1>1, <1>2, <1>4, <1>5 DEF Sends

LEMMA ExitSent ==
  ASSUME NEW me \in ClientStates, Placed(me), NEW to \in ClientStates, me.pc = "ask", Now(me).op = CC_EXIT,
         to.pc = "over", to.script = me.script, to.at = me.at + 1
  PROVE  Sends(me, to, HeadOf(Now(me))) /\ HeadOf(Now(me)) \in Seq(Int)
<1>1. me.at \in Nat /\ Full(me) = me.at - 1 /\ Full(to) = (me.at + 1) - 1
  BY FullIs DEF Full, Awaiting, SentFile
<1>2. Full(to) = me.at /\ Full(to) = Full(me) + 1
  BY <1>1
<1>3. Partial(me) = <<>> /\ Partial(to) = <<>>
  BY DEF Partial, SentFile
<1>4. PICK r \in Commands : r = Now(me) /\ r = me.script[Full(to)]
  BY <1>2, AtCommand DEF Placed, Now
<1>5. PICK w \in Seq(Int) : w = HeadOf(r)
  BY HeadIs
<1>6. <<>> \o w = w
  BY JoinNothing
<1>7. Sendable(r) /\ Message(r) = w
  BY <1>4, <1>5 DEF Sendable, Message, CC_PUT, CC_EXIT
<1> QED BY <1>2, <1>3, <1>4, <1>5, <1>6, <1>7 DEF Sends

LEMMA SizeSent ==
  ASSUME NEW me \in ClientStates, Placed(me), NEW to \in ClientStates, me.pc = "put",
         Now(me).name \in DOMAIN ClientFiles, to.pc = "send", to.script = me.script, to.at = me.at
  PROVE  /\ Sends(me, to, SizeOf(Now(me))) /\ SizeOf(Now(me)) \in Seq(Int)
         /\ Full(to) = Full(me) + 1 => me.script[Full(to)].op = CC_PUT
<1>1. me.at \in Nat /\ Full(me) = me.at - 1
  BY FullIs
<1>2. PICK r \in Commands : r = Now(me) /\ r = Now(to) /\ r = me.script[me.at] /\ r.op = CC_PUT
  BY AtCommand DEF Placed, Now
<1>3. PICK w \in Seq(Int), f \in Seq(Int), h \in Seq(Int) : w = SizeOf(r) /\ f = FileOf(r) /\ h = HeadOf(r)
  BY <1>2, PutHeadIs, HeadIs
<1>4. Partial(me) = h
  BY <1>2, <1>3 DEF Partial
<1>5. CASE f = <<>>
  <2>1. Full(to) = me.at /\ Partial(to) = <<>>
    BY <1>2, <1>3, <1>5 DEF Full, Partial, SentFile
  <2>2. Message(r) = (h \o w) \o f
    BY <1>2, <1>3 DEF Message
  <2>3. (h \o w) \o f = h \o w
    <3>1. PICK v \in Seq(Int) : v = h \o w
      BY JoinIs
    <3> QED BY <1>5, <3>1, JoinNothing
  <2>4. Sendable(r)
    BY <1>2 DEF Sendable
  <2>5. Full(to) = Full(me) + 1
    BY <1>1, <2>1
  <2> QED BY <1>2, <1>3, <1>4, <2>1, <2>2, <2>3, <2>4, <2>5 DEF Sends
<1>6. CASE f # <<>>
  <2>1. Full(to) = me.at - 1 /\ Partial(to) = h \o w
    BY <1>2, <1>3, <1>6 DEF Full, Partial, SentFile, Awaiting
  <2>2. Full(to) = Full(me) /\ Full(to) # Full(me) + 1
    BY <1>1, <2>1
  <2> QED BY <1>2, <1>3, <1>4, <2>1, <2>2 DEF Sends
<1> QED BY <1>5, <1>6

LEMMA FileSent ==
  ASSUME NEW me \in ClientStates, Placed(me), NEW to \in ClientStates, me.pc = "send",
         to.pc = "ask", to.script = me.script, to.at = me.at + 1
  PROVE  /\ Sends(me, to, FileOf(Now(me))) /\ FileOf(Now(me)) \in Seq(Int)
         /\ Full(to) = Full(me) + 1 => me.script[Full(to)].op = CC_PUT
<1>1. me.at \in Nat /\ Full(to) = me.at
  <2>1. me.at \in Nat /\ Full(to) = (me.at + 1) - 1
    BY FullIs DEF Full, Awaiting, SentFile
  <2> QED BY <2>1
<1>2. PICK r \in Commands : r = Now(me) /\ r = me.script[me.at] /\ r.op = CC_PUT /\ r.name \in DOMAIN ClientFiles
  BY AtCommand DEF Placed, Now
<1>3. PICK w \in Seq(Int), f \in Seq(Int), h \in Seq(Int) : w = SizeOf(r) /\ f = FileOf(r) /\ h = HeadOf(r)
  BY <1>2, PutHeadIs, HeadIs
<1>4. Partial(to) = <<>>
  BY DEF Partial
<1>5. CASE f = <<>>
  <2>1. Full(me) = me.at /\ Partial(me) = <<>>
    BY <1>2, <1>3, <1>5 DEF Full, Partial, SentFile
  <2>2. Partial(me) \o f = <<>>
    BY <1>5, <2>1, JoinNothing
  <2> QED BY <1>1, <1>2, <1>3, <1>4, <2>1, <2>2 DEF Sends
<1>6. CASE f # <<>>
  <2>1. Full(me) = me.at - 1 /\ Partial(me) = h \o w
    BY <1>2, <1>3, <1>6 DEF Full, Partial, SentFile, Awaiting
  <2>2. Message(r) = (h \o w) \o f
    BY <1>2, <1>3 DEF Message
  <2>3. Sendable(r)
    BY <1>2 DEF Sendable
  <2>4. Full(to) = Full(me) + 1
    BY <1>1, <2>1
  <2> QED BY <1>1, <1>2, <1>3, <1>4, <2>1, <2>2, <2>3, <2>4 DEF Sends
<1> QED BY <1>5, <1>6

LEMMA ClientServed ==
  ASSUME TypeOK, AllPlaced, Queued, AllServed, NEW c \in Clients, ClientStep(c) \/ Kill(c), short' = 0
  PROVE  Good(c)' /\ SavedWhole(c)
<1>1. TypeOK' /\ AllPlaced' /\ short = 0 /\ child' = child /\ client[c].pc # "over"
  BY ClientTypes, ClientFrame
<1>2. PICK me \in ClientStates, kid \in ChildStates, u \in Seq(Int), d \in Seq(Int) :
        me = client[c] /\ kid = child[c] /\ u = up[c] /\ d = down[c]
  BY DEF TypeOK, ClientStates, ChildStates
<1>3. PICK to \in ClientStates : to = client'[c]
  BY <1>1 DEF TypeOK, ClientStates
<1>4. Placed(me) /\ Placed(to) /\ child'[c] = kid
  BY <1>1, <1>2, <1>3 DEF AllPlaced
<1>5. Serves(me, kid, u, d)
  BY <1>1, <1>2 DEF AllServed, Aborted, Over
<1>6. me.pc # "over" /\ me.at <= Len(me.script) /\ Request(c) = Now(me)
  BY <1>1, <1>2, <1>4 DEF Placed, Request, Now
<1>7. client \in [Clients -> ClientStates] /\ child \in [Clients -> ChildStates] /\ RestOK
  BY TypeParts
<1>8. ASSUME to.pc = "over", to.script = me.script, to.at = me.at
      PROVE  Good(c)'
  <2>1. Aborted(c)'
    BY <1>3, <1>6, <1>8 DEF Aborted, Over
  <2> QED BY <2>1 DEF Good
<1>9. ASSUME client' = [client EXCEPT ![c] = Stop(client[c])]
      PROVE  Good(c)'
  <2>1. to = Stop(me)
    BY <1>2, <1>3, <1>7, <1>9
  <2> QED BY <1>8, <2>1, StopIs
<1>10. ASSUME Serves(to, kid, up'[c], down'[c])
       PROVE  Good(c)'
  BY <1>3, <1>4, <1>10 DEF Good
<1>11. ASSUME saved' = saved
       PROVE  SavedWhole(c)
  BY <1>11 DEF SavedWhole
<1>12. ASSUME NEW w \in Seq(Int), up' = [up EXCEPT ![c] = @ \o w]
       PROVE  up'[c] = u \o w
  BY <1>2, <1>7, <1>12 DEF RestOK
<1>13. ASSUME NEW k \in Nat, k <= Len(d), down' = [down EXCEPT ![c] = From(@, k)]
       PROVE  down'[c] = From(d, k)
  BY <1>2, <1>7, <1>13 DEF RestOK
<1>14. CASE Connect(c)
  <2>1. me.pc = "none" /\ up' = up /\ down' = down /\ saved' = saved
    BY <1>2, <1>14 DEF Connect, streams
  <2>2. PICK pc \in {"ask", "over"} : to = [me EXCEPT !.pc = pc]
    BY <1>2, <1>3, <1>7, <1>14 DEF Connect
  <2>3. to.pc = pc /\ to.script = me.script /\ to.at = me.at
    BY <2>2, GoIs
  <2>4. CASE pc = "over"
    BY <1>8, <1>11, <2>1, <2>3, <2>4
  <2>5. CASE pc = "ask"
    <3>1. PICK w \in Seq(Int) : w = <<>>
      <4>1. <<>> \in Seq(Int)
        BY EmptySeq
      <4> QED BY <4>1
    <3>2. Sends(me, to, w)
      <4>1. Full(me) = me.at - 1 /\ Full(to) = me.at - 1
        BY <2>1, <2>3, <2>5 DEF Full, Awaiting, SentFile
      <4>2. Partial(me) = w /\ Partial(to) = w
        BY <2>1, <2>3, <2>5, <3>1 DEF Partial
      <4>3. w \o w = w
        BY <3>1, JoinNothing
      <4> QED BY <2>3, <4>1, <4>2, <4>3 DEF Sends
    <3>3. Full(to) # Full(me) + 1
      <4>1. Full(me) = me.at - 1 /\ Full(to) = me.at - 1 /\ me.at \in Nat
        BY <1>4, <2>1, <2>3, <2>5, FullIs DEF Full, Awaiting, SentFile
      <4> QED BY <4>1
    <3>4. Serves(to, kid, u \o w, d)
      BY <1>4, <1>5, <1>6, <2>1, <2>3, <2>5, <3>2, <3>3, SendServed DEF Awaiting
    <3>5. u \o w = u
      BY <3>1, JoinNothing
    <3>6. Serves(to, kid, up'[c], down'[c])
      BY <1>2, <2>1, <3>4, <3>5
    <3> QED BY <1>10, <1>11, <2>1, <3>6
  <2> QED BY <2>4, <2>5
<1>15. ASSUME NEW op \in {CC_LS, CC_GET}, Ask(c, op, Await(c))
       PROVE  Good(c)' /\ SavedWhole(c)
  <2>1. me.pc = "ask" /\ Now(me).op = op /\ down' = down /\ saved' = saved
    BY <1>2, <1>6, <1>15 DEF Ask
  <2>2. PICK w \in StackWords : client' = [client EXCEPT ![c] = Fresh(me, "payload", 2, w)]
    BY <1>2, <1>15 DEF Ask, Await
  <2>3. PICK n \in Int, x \in Int : n = 2 /\ x = w
    BY TransferAssumption
  <2>4. to = Fresh(me, "payload", n, x)
    BY <1>3, <1>7, <2>2, <2>3
  <2>5. to.pc = "payload" /\ to.script = me.script /\ to.at = me.at /\ to.nb = 0
    BY <2>4, FreshIs
  <2>6. PICK h \in Seq(Int) : h = HeadOf(Now(me))
    BY <1>4, <1>6, AtCommand, HeadIs
  <2>7. up'[c] = u \o h
    <3>1. up' = [up EXCEPT ![c] = @ \o h]
      BY <1>6, <1>15, <2>1, <2>6 DEF Ask, HeadOf
    <3> QED BY <1>12, <3>1
  <2>8. Serves(to, kid, u \o HeadOf(Now(me)), d)
    BY <1>4, <1>5, <2>1, <2>5, AskServed
  <2>9. Serves(to, kid, up'[c], down'[c])
    BY <1>2, <2>1, <2>6, <2>7, <2>8
  <2> QED BY <1>10, <1>11, <2>1, <2>9
<1>16. CASE DoPUTCommand(c)
  <2>1. me.pc = "ask" /\ Now(me).op = CC_PUT /\ down' = down /\ saved' = saved
    BY <1>2, <1>6, <1>16 DEF DoPUTCommand, Ask
  <2>2. to = [me EXCEPT !.pc = "put"]
    BY <1>2, <1>3, <1>7, <1>16 DEF DoPUTCommand, Ask
  <2>3. to.pc = "put" /\ to.script = me.script /\ to.at = me.at
    BY <2>2, GoIs
  <2>4. PICK h \in Seq(Int) : h = HeadOf(Now(me)) /\ Sends(me, to, h) /\ Full(to) = Full(me)
    BY <1>4, <2>1, <2>3, PutAsked
  <2>5. up'[c] = u \o h
    <3>1. up' = [up EXCEPT ![c] = @ \o h]
      BY <1>6, <1>16, <2>1, <2>4 DEF DoPUTCommand, Ask, HeadOf
    <3> QED BY <1>12, <3>1
  <2>6. Full(to) # Full(me) + 1
    BY <1>4, <2>4, FullIs
  <2>7. Serves(to, kid, u \o h, d)
    BY <1>4, <1>5, <1>6, <2>1, <2>3, <2>4, <2>6, SendServed DEF Awaiting
  <2>8. Serves(to, kid, up'[c], down'[c])
    BY <1>2, <2>1, <2>5, <2>7
  <2> QED BY <1>10, <1>11, <2>1, <2>8
<1>17. CASE DoExitCommand(c)
  <2>1. me.pc = "ask" /\ Now(me).op = CC_EXIT /\ down' = down /\ saved' = saved
    BY <1>2, <1>6, <1>17 DEF DoExitCommand, Ask
  <2>2. to = Stop([me EXCEPT !.at = @ + 1])
    BY <1>2, <1>3, <1>7, <1>17 DEF DoExitCommand, Ask
  <2>3. to.pc = "over" /\ to.script = me.script /\ to.at = me.at + 1
    BY <2>2, QuitIs
  <2>4. PICK h \in Seq(Int) : h = HeadOf(Now(me)) /\ Sends(me, to, h)
    BY <1>4, <2>1, <2>3, ExitSent
  <2>5. up'[c] = u \o h
    <3>1. up' = [up EXCEPT ![c] = @ \o h]
      BY <1>6, <1>17, <2>1, <2>4 DEF DoExitCommand, Ask, HeadOf
    <3> QED BY <1>12, <3>1
  <2>6. Serves(to, kid, u \o h, d)
    BY <1>4, <1>5, <1>6, <2>1, <2>3, <2>4, SendServed DEF Awaiting
  <2>7. Serves(to, kid, up'[c], down'[c])
    BY <1>2, <2>1, <2>5, <2>6
  <2> QED BY <1>10, <1>11, <2>1, <2>7
<1>18. CASE SendPayload(c)
  <2>1. me.pc = "put" /\ down' = down /\ saved' = saved
    BY <1>2, <1>18 DEF SendPayload
  <2>2. CASE Now(me).name \in DOMAIN ClientFiles
    <3>1. to = [me EXCEPT !.pc = "send"]
      BY <1>2, <1>3, <1>6, <1>7, <1>18, <2>2 DEF SendPayload
    <3>2. to.pc = "send" /\ to.script = me.script /\ to.at = me.at
      BY <3>1, GoIs
    <3>3. PICK w \in Seq(Int) : /\ w = SizeOf(Now(me)) /\ Sends(me, to, w)
                                /\ Full(to) = Full(me) + 1 => me.script[Full(to)].op = CC_PUT
      BY <1>4, <2>1, <2>2, <3>2, SizeSent
    <3>4. up'[c] = u \o w
      <4>1. up' = [up EXCEPT ![c] = @ \o w]
        BY <1>6, <1>18, <2>2, <3>3 DEF SendPayload, SizeOf, FileOf
      <4> QED BY <1>12, <4>1
    <3>5. Serves(to, kid, u \o w, d)
      BY <1>4, <1>5, <1>6, <2>1, <3>2, <3>3, SendServed DEF Awaiting
    <3>6. Serves(to, kid, up'[c], down'[c])
      BY <1>2, <2>1, <3>4, <3>5
    <3> QED BY <1>10, <1>11, <2>1, <3>6
  <2>3. CASE Now(me).name \notin DOMAIN ClientFiles
    <3>1. client' = [client EXCEPT ![c] = Stop(client[c])]
      BY <1>6, <1>18, <2>3 DEF SendPayload
    <3> QED BY <1>9, <1>11, <2>1, <3>1
  <2> QED BY <2>2, <2>3
<1>19. CASE SendFile(c)
  <2>1. me.pc = "send" /\ down' = down /\ saved' = saved
    BY <1>2, <1>19 DEF SendFile
  <2>2. to = Again(me)
    BY <1>2, <1>3, <1>7, <1>19 DEF SendFile
  <2>3. to.pc = "ask" /\ to.script = me.script /\ to.at = me.at + 1
    BY <2>2, AgainIs
  <2>4. PICK w \in Seq(Int) : /\ w = FileOf(Now(me)) /\ Sends(me, to, w)
                              /\ Full(to) = Full(me) + 1 => me.script[Full(to)].op = CC_PUT
    BY <1>4, <2>1, <2>3, FileSent
  <2>5. up'[c] = u \o w
    <3>1. up' = [up EXCEPT ![c] = @ \o w]
      BY <1>6, <1>19, <2>4 DEF SendFile, FileOf
    <3> QED BY <1>12, <3>1
  <2>6. Serves(to, kid, u \o w, d)
    BY <1>4, <1>5, <1>6, <2>1, <2>3, <2>4, SendServed DEF Awaiting
  <2>7. Serves(to, kid, up'[c], down'[c])
    BY <1>2, <2>1, <2>5, <2>6
  <2> QED BY <1>10, <1>11, <2>1, <2>7
<1>20. CASE RecvPayload(c)
  <2>1. me.pc = "payload" /\ up' = up /\ saved' = saved
    BY <1>2, <1>20 DEF RecvPayload
  <2>2. PICK k \in Receivable(d, 2) :
          /\ down' = [down EXCEPT ![c] = From(@, k)]
          /\ CountShort(k, 2)
          /\ client' = [client EXCEPT ![c] = IF Received(me, d, k).nb = 2
                                             THEN Announcement(Received(me, d, k))
                                             ELSE Received(me, d, k)]
    BY <1>2, <1>20 DEF RecvPayload
  <2>3. k \in Nat /\ k = 2 /\ k <= Len(d)
    <3>1. PICK n \in Nat : n = 2
      OBVIOUS
    <3>2. k \in Nat /\ k <= n /\ k <= Len(d)
      BY <3>1, ReceivableIs
    <3>3. ~ (k < 2)
      BY <2>2, CountedShort
    <3> QED BY <3>1, <3>2, <3>3
  <2>4. Len(me.buf) = 2 /\ Awaiting(me)
    BY <1>4, <2>1 DEF Placed, Awaiting
  <2>5. PICK ep : ep = Received(me, d, k)
    OBVIOUS
  <2>6. /\ ep \in ClientStates /\ ep.script = me.script /\ ep.at = me.at
        /\ ep.buf = Put(me.buf, d, k) /\ Len(ep.buf) = Len(me.buf) /\ ep.nb = me.nb + k
    <3>1. k <= Len(me.buf)
      BY <2>3, <2>4
    <3> QED BY <2>3, <2>5, <3>1, ReceivedIs
  <2>7. ~ Ended(kid) /\ me.nb = 0
    <3>1. d # <<>>
      BY <2>3, EmptySeq
    <3>2. ~ Ended(kid)
      BY <1>5, <1>6, <3>1 DEF Serves
    <3>3. PICK j, rest : Upward(me, kid, u, j, rest) /\ Downward(me, kid, d, j)
      BY <1>5, <3>2 DEF Serves, Protocol
    <3> QED BY <2>4, <3>2, <3>3 DEF Downward
  <2>8. ep.nb = 2
    BY <2>3, <2>6, <2>7
  <2>9. ep.buf[2] = d[2] /\ d[2] \in Int
    <3>1. PICK old \in [1 .. 2 -> Int] : old = me.buf
      <4>1. me.buf \in Seq(Int)
        BY DEF ClientStates
      <4>2. me.buf \in [1 .. 2 -> Int]
        BY <2>4, <4>1, PairOfInts
      <4> QED BY <4>2
    <3>2. PICK cmd : cmd = Put(old, d, k)
      OBVIOUS
    <3>3. k \in Receivable(d, 2)
      OBVIOUS
    <3>4. cmd \in [1 .. 2 -> Int] /\ cmd[2] = d[2]
      BY <2>3, <3>2, <3>3, PutCommand
    <3>5. cmd[2] \in Int
      BY <3>4
    <3> QED BY <2>6, <3>1, <3>2, <3>4, <3>5
  <2>11. to = Announcement(ep)
    BY <1>3, <1>7, <2>2, <2>5, <2>8
  <2>12. /\ to.pc = "data" /\ to.script = me.script /\ to.at = me.at /\ to.nb = 0
         /\ Len(to.buf) = IF d[2] > 0 THEN d[2] ELSE 0
    BY <2>4, <2>6, <2>9, <2>11, AnnouncementIs
  <2>13. Serves(to, kid, u, From(d, 2))
    BY <1>4, <1>5, <2>1, <2>3, <2>12, PayloadServed
  <2>14. down'[c] = From(d, 2)
    BY <1>13, <2>2, <2>3
  <2>15. Serves(to, kid, up'[c], down'[c])
    BY <1>2, <2>1, <2>13, <2>14
  <2> QED BY <1>10, <1>11, <2>1, <2>15
<1>21. CASE RecvData(c)
  <2>1. me.pc = "data" /\ up' = up
    BY <1>2, <1>21 DEF RecvData
  <2>2. PICK k \in Amounts(me, d, Gone(c)) :
          /\ down' = [down EXCEPT ![c] = From(@, k)]
          /\ CountShort(k, Len(Received(me, d, k).buf))
          /\ IF Enough(Received(me, d, k))
             THEN /\ client' = [client EXCEPT ![c] = Again(me)]
                  /\ \/ saved' = saved
                     \/ saved' = saved \union {Record(c, Now(me).op, Now(me).name, Received(me, d, k).buf)}
             ELSE client' = [client EXCEPT ![c] = Received(me, d, k)] /\ UNCHANGED saved
    BY <1>2, <1>6, <1>21 DEF RecvData
  <2>3. k \in Nat /\ k <= Len(me.buf) /\ k <= Len(d) /\ Len(me.buf) \in Nat
    <3>1. me.buf \in Seq(Int)
      BY DEF ClientStates
    <3> QED BY <3>1, AmountsIs
  <2>4. PICK ep : ep = Received(me, d, k)
    OBVIOUS
  <2>5. ep.buf = Put(me.buf, d, k) /\ Len(ep.buf) = Len(me.buf) /\ ep.nb = me.nb + k
    BY <2>3, <2>4, ReceivedIs
  <2>6. k = Len(me.buf)
    <3>1. ~ (k < Len(me.buf))
      BY <2>2, <2>4, <2>5, CountedShort
    <3> QED BY <2>3, <3>1
  <2>7. PICK go : go = Again(me)
    OBVIOUS
  <2>8. go \in ClientStates /\ go.pc = "ask" /\ go.script = me.script /\ go.at = me.at + 1
    BY <2>7, AgainIs
  <2>9. /\ Serves(go, kid, u, From(d, Len(me.buf))) /\ me.nb = 0
        /\ Answerable(Now(me)) /\ Put(me.buf, d, Len(me.buf)) = AnswerOf(Now(me))
    <3>1. Len(me.buf) <= Len(d)
      BY <2>3, <2>6
    <3> QED BY <1>4, <1>5, <2>1, <2>8, <3>1, DataServed
  <2>10. Enough(ep)
    BY <2>3, <2>5, <2>6, <2>9 DEF Enough
  <2>11. to = go /\ (saved' = saved \/ saved' = saved \union {Record(c, Now(me).op, Now(me).name, ep.buf)})
    BY <1>3, <1>7, <2>2, <2>4, <2>7, <2>10
  <2>12. Serves(to, kid, up'[c], down'[c])
    BY <1>2, <1>13, <2>1, <2>2, <2>3, <2>6, <2>9, <2>11
  <2>13. Whole(Record(c, Now(me).op, Now(me).name, ep.buf))
    <3>1. Now(me).op \in {CC_LS, CC_GET}
      BY <1>4, <2>1 DEF Placed, Awaiting
    <3>2. ep.buf = AnswerOf(Now(me))
      BY <2>5, <2>6, <2>9
    <3>3. CASE Now(me).op = CC_LS
      BY <3>2, <3>3 DEF Whole, Record, AnswerOf, CC_LS, CC_GET, CC_PUT
    <3>4. CASE Now(me).op = CC_GET
      <4>1. Now(me).name \in DOMAIN ServerFiles /\ ep.buf = ServerFiles[Now(me).name]
        BY <2>9, <3>2, <3>4 DEF Answerable, AnswerOf, CC_LS, CC_GET
      <4> QED BY <3>4, <4>1 DEF Whole, Record, CC_LS, CC_GET, CC_PUT
    <3> QED BY <3>1, <3>3, <3>4
  <2>14. Record(c, Now(me).op, Now(me).name, ep.buf).session = c
    BY DEF Record
  <2> QED BY <1>10, <2>11, <2>12, <2>13, <2>14 DEF SavedWhole
<1>22. CASE Reset(c) \/ Kill(c)
  <2>1. client' = [client EXCEPT ![c] = Stop(client[c])] /\ saved' = saved
    BY <1>22 DEF Reset, Gone, Kill
  <2> QED BY <1>9, <1>11, <2>1
<1> QED BY <1>14, <1>15, <1>16, <1>17, <1>18, <1>19, <1>20, <1>21, <1>22 DEF ClientStep, DoLSCommand, DoGETCommand

\* The child goes on with a command.
LEMMA ChildServed ==
  ASSUME TypeOK, AllPlaced, AllServed, NEW c \in Clients, ChildStep(c), short' = 0
  PROVE  Good(c)' /\ SavedWhole(c)
<1>1. TypeOK' /\ AllPlaced' /\ short = 0 /\ client' = client
  BY ChildTypes, ChildFrame
<1>2. PICK me \in ClientStates, kid \in ChildStates, u \in Seq(Int), d \in Seq(Int) :
        me = client[c] /\ kid = child[c] /\ u = up[c] /\ d = down[c]
  BY DEF TypeOK, ClientStates, ChildStates
<1>3. PICK to \in ChildStates : to = child'[c]
  BY <1>1 DEF TypeOK, ChildStates
<1>4. Placed(me) /\ Offering(kid)
  BY <1>2 DEF AllPlaced
<1>5. client \in [Clients -> ClientStates] /\ child \in [Clients -> ChildStates] /\ RestOK
  BY TypeParts
<1>6. \A w : child' = [child EXCEPT ![c] = w] => to = w
  BY <1>3, <1>5
<1>7. Aborted(c) => Aborted(c)'
  BY <1>1 DEF Aborted, Over
<1>8. ASSUME ~ Aborted(c)
      PROVE  Serves(me, kid, u, d) /\ (me.pc = "over" => ~ (me.at <= Len(me.script)))
  BY <1>1, <1>2, <1>8 DEF AllServed, Aborted, Over
<1>9. ASSUME Serves(me, to, up'[c], down'[c])
      PROVE  Good(c)'
  BY <1>1, <1>2, <1>3, <1>9 DEF Good
<1>10. ASSUME Aborted(c)
       PROVE  Good(c)'
  BY <1>7, <1>10 DEF Good
<1>11. ASSUME saved' = saved
       PROVE  SavedWhole(c)
  BY <1>11 DEF SavedWhole
<1>12. ASSUME NEW k \in Nat, k <= Len(u), up' = [up EXCEPT ![c] = From(@, k)]
       PROVE  up'[c] = From(u, k)
  BY <1>2, <1>5, <1>12 DEF RestOK
<1>13. ASSUME NEW w \in Seq(Int), down' = IF Over(c) THEN down ELSE [down EXCEPT ![c] = @ \o w]
       PROVE  down'[c] = IF me.pc = "over" THEN d ELSE d \o w
  BY <1>2, <1>5, <1>13 DEF RestOK, Over
<1>14. ASSUME me.pc = "over", to.pc = "zombie"
       PROVE  Good(c)'
  <2>1. Serves(me, to, up'[c], down'[c])
    BY <1>14 DEF Serves, Ended
  <2> QED BY <1>9, <2>1
<1>15. CASE RecvCommand(c)
  <2>1. kid.pc = "cmd" /\ down' = down /\ saved' = saved
    BY <1>2, <1>15 DEF RecvCommand
  <2>2. CASE Aborted(c)
    BY <1>10, <1>11, <2>1, <2>2
  <2>3. CASE ~ Aborted(c)
    <3>1. ~ (Over(c) /\ up[c] = <<>>)
      BY <1>2, <1>4, <1>8, <2>1, <2>3, NoCommandLacks DEF Over
    <3>2. PICK k, cmd :
            /\ k \in Receivable(u, 2) /\ cmd = Put(kid.cmd, u, k)
            /\ up' = [up EXCEPT ![c] = From(@, k)]
            /\ CountShort(k, 2)
            /\ child' = [child EXCEPT ![c] = Child(Case(cmd[1]), cmd)]
      BY <1>2, <1>15, <3>1 DEF RecvCommand
    <3>3. kid.cmd \in [1 .. 2 -> Int]
      BY DEF ChildStates
    <3>4. /\ k \in Nat /\ k <= 2 /\ k <= Len(u)
          /\ cmd \in [1 .. 2 -> Int] /\ cmd[1] = u[1] /\ (k = 2 => cmd[2] = u[2])
      BY <3>2, <3>3, PutCommand
    <3>5. k = 2
      <4>1. ~ (k < 2)
        BY <3>2, CountedShort
      <4> QED BY <3>4, <4>1
    <3>6. to = Child(Case(cmd[1]), cmd)
      BY <1>6, <3>2
    <3>7. to.pc = Case(u[1]) /\ to.cmd = cmd
      <4>1. Case(cmd[1]) \in {"none", "cmd", "head", "body", "payload", "data", "zombie", "gone"}
        BY CaseIs
      <4>2. to.pc = Case(cmd[1]) /\ to.cmd = cmd
        BY <3>4, <3>6, <4>1, ChildIs
      <4> QED BY <3>4, <4>2
    <3>8. Len(u) >= 2 /\ to.cmd[1] = u[1] /\ to.cmd[2] = u[2]
      BY <3>4, <3>5, <3>7
    <3>9. Serves(me, to, From(u, 2), d)
      BY <1>4, <1>8, <2>1, <2>3, <3>7, <3>8, CommandServed
    <3>10. up'[c] = From(u, 2)
      BY <1>12, <3>2, <3>4, <3>5
    <3>11. Serves(me, to, up'[c], down'[c])
      BY <1>2, <2>1, <3>9, <3>10
    <3> QED BY <1>9, <1>11, <2>1, <3>11
  <2> QED BY <2>2, <2>3
<1>16. CASE SendHead(c)
  <2>1. kid.pc = "head" /\ up' = up /\ saved' = saved
    BY <1>2, <1>16 DEF SendHead
  <2>2. CASE Aborted(c)
    BY <1>10, <1>11, <2>1, <2>2
  <2>3. CASE ~ Aborted(c) /\ (kid.cmd[1] = CC_LS \/ kid.cmd[2] \in DOMAIN ServerFiles)
    <3>1. Reply(c, Announced(kid.cmd), "body")
      BY <1>2, <1>16, <2>3 DEF SendHead
    <3>2. PICK w \in Seq(Int) : w = Announced(kid.cmd)
      <4>1. kid.cmd \in [1 .. 2 -> Int]
        BY DEF ChildStates
      <4>2. Announced(kid.cmd) \in Seq(Int)
        BY <2>3, <4>1, OfferedIs
      <4> QED BY <4>2
    <3>3. CASE me.pc = "over" /\ child' = [child EXCEPT ![c].pc = "zombie"]
      <4>1. to = [kid EXCEPT !.pc = "zombie"]
        BY <1>2, <1>3, <1>5, <3>3
      <4>2. to.pc = "zombie"
        BY <4>1, ChildGoIs
      <4> QED BY <1>11, <1>14, <2>1, <3>3, <4>2
    <3>4. CASE /\ down' = IF Over(c) THEN down ELSE [down EXCEPT ![c] = @ \o w]
               /\ child' = [child EXCEPT ![c].pc = "body"]
      <4>1. to = [kid EXCEPT !.pc = "body"]
        BY <1>2, <1>3, <1>5, <3>4
      <4>2. to.pc = "body" /\ to.cmd = kid.cmd
        BY <4>1, ChildGoIs
      <4>3. Serves(me, to, u, IF me.pc = "over" THEN d ELSE d \o Announced(kid.cmd))
        BY <1>4, <1>8, <2>1, <2>3, <4>2, HeadServed
      <4>4. down'[c] = IF me.pc = "over" THEN d ELSE d \o Announced(kid.cmd)
        BY <1>13, <3>2, <3>4
      <4>5. Serves(me, to, up'[c], down'[c])
        BY <1>2, <2>1, <4>3, <4>4
      <4> QED BY <1>9, <1>11, <2>1, <4>5
    <3> QED BY <1>2, <3>1, <3>2, <3>3, <3>4 DEF Reply, Over
  <2>4. CASE ~ Aborted(c) /\ ~ (kid.cmd[1] = CC_LS \/ kid.cmd[2] \in DOMAIN ServerFiles)
    <3>1. child' = [child EXCEPT ![c].pc = "zombie"] /\ down' = down
      BY <1>2, <1>16, <2>4 DEF SendHead
    <3>2. to = [kid EXCEPT !.pc = "zombie"]
      BY <1>2, <1>3, <1>5, <3>1
    <3>3. to.pc = "zombie" /\ to.cmd = kid.cmd
      BY <3>2, ChildGoIs
    <3>4. Serves(me, to, u, d)
      BY <1>4, <1>8, <2>1, <2>4, <3>3, HeadServed
    <3>5. Serves(me, to, up'[c], down'[c])
      BY <1>2, <2>1, <3>1, <3>4
    <3> QED BY <1>9, <1>11, <2>1, <3>5
  <2> QED BY <2>2, <2>3, <2>4
<1>17. CASE SendBody(c)
  <2>1. kid.pc = "body" /\ up' = up /\ saved' = saved /\ Reply(c, Offered(kid.cmd), "cmd")
    BY <1>2, <1>17 DEF SendBody
  <2>2. CASE Aborted(c)
    BY <1>10, <1>11, <2>1, <2>2
  <2>3. CASE ~ Aborted(c)
    <3>1. PICK w \in Seq(Int) : w = Offered(kid.cmd)
      <4>1. kid.cmd \in [1 .. 2 -> Int]
        BY DEF ChildStates
      <4>2. Offered(kid.cmd) \in Seq(Int)
        BY <1>4, <2>1, <4>1, OfferedIs DEF Offering
      <4> QED BY <4>2
    <3>2. CASE me.pc = "over" /\ child' = [child EXCEPT ![c].pc = "zombie"]
      <4>1. to = [kid EXCEPT !.pc = "zombie"]
        BY <1>2, <1>3, <1>5, <3>2
      <4>2. to.pc = "zombie"
        BY <4>1, ChildGoIs
      <4> QED BY <1>11, <1>14, <2>1, <3>2, <4>2
    <3>3. CASE /\ down' = IF Over(c) THEN down ELSE [down EXCEPT ![c] = @ \o w]
               /\ child' = [child EXCEPT ![c].pc = "cmd"]
      <4>1. to = [kid EXCEPT !.pc = "cmd"]
        BY <1>2, <1>3, <1>5, <3>3
      <4>2. to.pc = "cmd"
        BY <4>1, ChildGoIs
      <4>3. Serves(me, to, u, IF me.pc = "over" THEN d ELSE d \o Offered(kid.cmd))
        BY <1>4, <1>8, <2>1, <2>3, <4>2, BodyServed
      <4>4. down'[c] = IF me.pc = "over" THEN d ELSE d \o Offered(kid.cmd)
        BY <1>13, <3>1, <3>3
      <4>5. Serves(me, to, up'[c], down'[c])
        BY <1>2, <2>1, <4>3, <4>4
      <4> QED BY <1>9, <1>11, <2>1, <4>5
    <3> QED BY <1>2, <2>1, <3>1, <3>2, <3>3 DEF Reply, Over
  <2> QED BY <2>2, <2>3
<1>18. CASE RecvSize(c)
  <2>1. kid.pc = "payload" /\ down' = down /\ saved' = saved
    BY <1>2, <1>18 DEF RecvSize
  <2>2. CASE Aborted(c)
    BY <1>10, <1>11, <2>1, <2>2
  <2>3. CASE ~ Aborted(c)
    <3>1. ~ (Over(c) /\ up[c] = <<>>)
      BY <1>2, <1>4, <1>8, <2>1, <2>3, NoCommandLacks DEF Over
    <3>2. PICK k \in Receivable(u, 2), w \in StackWords :
            /\ child' = [child EXCEPT ![c] = Fresh(kid, "data", Put(<<w, w>>, u, k)[2], 0)]
            /\ up' = [up EXCEPT ![c] = From(@, k)]
            /\ CountShort(k, 2)
      BY <1>2, <1>18, <3>1 DEF RecvSize
    <3>3. PICK old \in [1 .. 2 -> Int] : old = <<w, w>>
      <4>1. w \in Int
        BY TransferAssumption
      <4>2. <<w, w>> \in Seq(Int) /\ Len(<<w, w>>) = 2
        BY <4>1, PairIs
      <4>3. <<w, w>> \in [1 .. 2 -> Int]
        BY <4>2, PairOfInts
      <4> QED BY <4>3
    <3>4. PICK cmd : cmd = Put(old, u, k)
      OBVIOUS
    <3>5. k \in Nat /\ k <= 2 /\ k <= Len(u) /\ cmd \in [1 .. 2 -> Int] /\ (k = 2 => cmd[2] = u[2])
      BY <3>4, PutCommand
    <3>6. k = 2
      <4>1. ~ (k < 2)
        BY <3>2, CountedShort
      <4> QED BY <3>5, <4>1
    <3>7. PICK n \in Int, zero \in Int : n = u[2] /\ zero = 0 /\ n = cmd[2]
      <4>1. cmd[2] \in Int
        BY <3>5
      <4> QED BY <3>5, <3>6, <4>1
    <3>8. to = Fresh(kid, "data", n, zero)
      BY <1>6, <3>2, <3>3, <3>4, <3>7
    <3>9. /\ to.pc = "data" /\ to.cmd = kid.cmd /\ to.nb = 0
          /\ Len(to.buf) = IF u[2] > 0 THEN u[2] ELSE 0
      <4>1. /\ to.pc = "data" /\ to.cmd = kid.cmd /\ to.nb = 0
            /\ Len(to.buf) = IF n > 0 THEN n ELSE 0
        BY <3>8, FreshChildIs
      <4> QED BY <3>7, <4>1
    <3>10. Len(u) >= 2
      BY <3>5, <3>6
    <3>11. Serves(me, to, From(u, 2), d)
      BY <1>4, <1>8, <2>1, <2>3, <3>9, <3>10, SizeServed
    <3>12. up'[c] = From(u, 2)
      BY <1>12, <3>2, <3>5, <3>6
    <3>13. Serves(me, to, up'[c], down'[c])
      BY <1>2, <2>1, <3>11, <3>12
    <3> QED BY <1>9, <1>11, <2>1, <3>13
  <2> QED BY <2>2, <2>3
<1>19. CASE RecvUpload(c)
  <2>1. kid.pc = "data" /\ down' = down
    BY <1>2, <1>19 DEF RecvUpload
  <2>2. PICK k, ep :
          /\ k \in Amounts(kid, u, Over(c)) /\ ep = Received(kid, u, k)
          /\ up' = [up EXCEPT ![c] = From(@, k)]
          /\ CountShort(k, Len(ep.buf))
          /\ IF Enough(ep)
             THEN /\ child' = [child EXCEPT ![c] = Child("cmd", kid.cmd)]
                  /\ saved' = saved \union {Record(c, CC_PUT, kid.cmd[2], ep.buf)}
             ELSE child' = [child EXCEPT ![c] = ep] /\ UNCHANGED saved
    BY <1>2, <1>19 DEF RecvUpload
  <2>3. k \in Nat /\ k <= Len(kid.buf) /\ k <= Len(u) /\ Len(kid.buf) \in Nat
    <3>1. kid.buf \in Seq(Int)
      BY DEF ChildStates
    <3> QED BY <2>2, <3>1, AmountsIs
  <2>4. ep.buf = Put(kid.buf, u, k) /\ Len(ep.buf) = Len(kid.buf) /\ ep.nb = kid.nb + k
    BY <2>2, <2>3, ReceivedChildIs
  <2>5. k = Len(kid.buf)
    <3>1. ~ (k < Len(kid.buf))
      BY <2>2, <2>4, CountedShort
    <3> QED BY <2>3, <3>1
  <2>6. Record(c, CC_PUT, kid.cmd[2], ep.buf).session = c
    BY DEF Record
  <2>7. CASE Aborted(c)
    BY <1>7, <1>10, <2>2, <2>6, <2>7 DEF SavedWhole
  <2>8. CASE ~ Aborted(c)
    <3>1. PICK go : go = Child("cmd", kid.cmd)
      OBVIOUS
    <3>2. go \in ChildStates /\ go.pc = "cmd"
      <4>1. kid.cmd \in [1 .. 2 -> Int]
        BY DEF ChildStates
      <4> QED BY <3>1, <4>1, ChildIs
    <3>3. /\ Serves(me, go, From(u, Len(kid.buf)), d) /\ kid.nb = 0
          /\ kid.cmd[2] \in DOMAIN ClientFiles /\ Put(kid.buf, u, Len(kid.buf)) = ClientFiles[kid.cmd[2]]
      <4>1. Len(kid.buf) <= Len(u)
        BY <2>3, <2>5
      <4> QED BY <1>4, <1>8, <2>1, <2>8, <3>2, <4>1, UploadServed
    <3>4. Enough(ep)
      BY <2>3, <2>4, <2>5, <3>3 DEF Enough
    <3>5. to = go /\ saved' = saved \union {Record(c, CC_PUT, kid.cmd[2], ep.buf)}
      BY <1>6, <2>2, <3>1, <3>4
    <3>6. Serves(me, to, up'[c], down'[c])
      BY <1>2, <1>12, <2>1, <2>2, <2>3, <2>5, <3>3, <3>5
    <3>7. Whole(Record(c, CC_PUT, kid.cmd[2], ep.buf))
      BY <2>4, <2>5, <3>3 DEF Whole, Record, CC_LS, CC_GET, CC_PUT
    <3> QED BY <1>9, <2>6, <3>5, <3>6, <3>7 DEF SavedWhole
  <2> QED BY <2>7, <2>8
<1>20. CASE ResetChild(c)
  <2>1. me.pc = "over" /\ saved' = saved /\ child' = [child EXCEPT ![c].pc = "zombie"]
    BY <1>2, <1>20 DEF ResetChild, Over
  <2>2. to = [kid EXCEPT !.pc = "zombie"]
    BY <1>2, <1>3, <1>5, <2>1
  <2>3. to.pc = "zombie"
    BY <2>2, ChildGoIs
  <2> QED BY <1>11, <1>14, <2>1, <2>3
<1> QED BY <1>15, <1>16, <1>17, <1>18, <1>19, <1>20 DEF ChildStep

\* The server accepts a connection, or reaps a child.
LEMMA ServerServed ==
  ASSUME TypeOK, AllPlaced, Queued, AllServed, ServerStep, NEW c \in Clients, short' = 0
  PROVE  Good(c)' /\ saved' = saved /\ short = 0
<1>1. client' = client /\ up' = up /\ down' = down /\ saved' = saved /\ short = 0
  BY DEF ServerStep, Accept, ForkFails, Reap, streams, faults
<1>2. PICK me \in ClientStates, kid \in ChildStates, u \in Seq(Int), d \in Seq(Int) :
        me = client[c] /\ kid = child[c] /\ u = up[c] /\ d = down[c]
  BY DEF TypeOK, ClientStates, ChildStates
<1>3. PICK to : to = child'[c]
  OBVIOUS
<1>4. CASE Aborted(c)
  <2>1. Aborted(c)'
    BY <1>1, <1>4 DEF Aborted, Over
  <2> QED BY <1>1, <2>1 DEF Good
<1>5. CASE ~ Aborted(c)
  <2>1. Serves(me, kid, u, d)
    BY <1>1, <1>2, <1>5 DEF AllServed
  <2>2. ASSUME Serves(me, to, u, d)
        PROVE  Good(c)'
    BY <1>1, <1>2, <1>3, <2>2 DEF Good
  <2>3. ASSUME to = kid
        PROVE  Good(c)'
    BY <2>1, <2>2, <2>3
  <2>4. child \in [Clients -> ChildStates]
    BY TypeParts
  <2>5. CASE Accept
    <3>1. Head(pending) = pending[1] /\ 1 \in DOMAIN pending
      BY <2>5, QueueTail DEF Accept
    <3>2. child[Head(pending)].pc = "none"
      BY <3>1 DEF Queued
    <3>3. PICK code, name : child' = [child EXCEPT ![Head(pending)] = Child("cmd", <<code, name>>)]
      BY <2>5 DEF Accept
    <3>4. CASE c # Head(pending)
      <4>1. to = kid
        BY <1>2, <1>3, <2>4, <3>3, <3>4
      <4> QED BY <1>1, <2>3, <4>1
    <3>5. CASE c = Head(pending)
      <4>1. kid.pc = "none"
        BY <1>2, <3>2, <3>5
      <4>2. to.pc = "cmd"
        BY <1>3, <2>4, <3>3, <3>5 DEF Child
      <4>3. me.pc # "over" => \A k \in 1 .. Full(me) : me.script[k].op # CC_EXIT
        BY <2>1, <4>1 DEF Serves, Ended
      <4>4. PICK rest : /\ Stream(me, rest)
                        /\ \E j \in 1 .. Full(me) + 1 : Upward(me, kid, u, j, rest) /\ Downward(me, kid, d, j)
        BY <2>1, <4>1 DEF Serves, Ended, Protocol
      <4>5. PICK j \in 1 .. Full(me) + 1 : Upward(me, kid, u, j, rest) /\ Downward(me, kid, d, j)
        BY <4>4
      <4>6. Upward(me, to, u, j, rest)
        <5>1. Skipped(kid) = 0 /\ Skipped(to) = 0
          BY <4>1, <4>2 DEF Skipped
        <5> QED BY <4>2, <4>5, <5>1 DEF Upward
      <4>7. Downward(me, to, d, j)
        BY <4>1, <4>2, <4>5, DownSame
      <4>8. Serves(me, to, u, d)
        BY <4>2, <4>3, <4>4, <4>6, <4>7 DEF Serves, Ended, Protocol
      <4> QED BY <1>1, <2>2, <4>8
    <3> QED BY <3>4, <3>5
  <2>6. CASE ForkFails
    <3>1. to = kid
      BY <1>2, <1>3, <2>6 DEF ForkFails
    <3> QED BY <1>1, <2>3, <3>1
  <2>7. CASE Reap
    <3>1. to = kid \/ (kid.pc = "zombie" /\ to = [kid EXCEPT !.pc = "gone"])
      BY <1>2, <1>3, <2>4, <2>7 DEF Reap
    <3>2. CASE to = kid
      BY <1>1, <2>3, <3>2
    <3>3. CASE kid.pc = "zombie" /\ to = [kid EXCEPT !.pc = "gone"]
      <4>1. to.pc = "gone" /\ to.cmd = kid.cmd
        BY <3>3, ChildGoIs
      <4>2. Serves(me, to, u, d)
        BY <2>1, <3>3, <4>1 DEF Serves, Ended
      <4> QED BY <1>1, <2>2, <4>2
    <3> QED BY <3>1, <3>2, <3>3
  <2> QED BY <2>5, <2>6, <2>7 DEF ServerStep
<1> QED BY <1>4, <1>5

LEMMA ServedInit ==
  Init => AllServed /\ ReceivedWhole
<1> SUFFICES ASSUME Init
             PROVE  AllServed
  BY DEF Init, ReceivedWhole
<1>1. ASSUME NEW c \in Clients
      PROVE  Serves(client[c], child[c], up[c], down[c])
  <2>1. PICK e \in Seq(Int) : e = <<>> /\ Len(e) = 0
    BY EmptySeq
  <2>2. PICK me, kid, rest : me = client[c] /\ kid = child[c] /\ rest = [k \in 1 .. 1 |-> e]
    OBVIOUS
  <2>3. me.pc = "none" /\ me.at = 1 /\ kid.pc = "none" /\ up[c] = e /\ down[c] = e
    BY <2>1, <2>2 DEF Init, Client, Child
  <2>4. Full(me) = 0 /\ Partial(me) = e
    BY <2>1, <2>3 DEF Full, Partial, Awaiting, SentFile
  <2>5. Stream(me, rest)
    BY <2>1, <2>2, <2>4 DEF Stream
  <2>6. Skipped(kid) = 0 /\ rest[1] = e
    BY <2>2, <2>3 DEF Skipped
  <2>7. From(e, 0) = e
    BY <2>1, FromNothing
  <2>8. Upward(me, kid, e, 1, rest)
    BY <2>1, <2>3, <2>6, <2>7 DEF Upward
  <2>9. Downward(me, kid, e, 1)
    BY <2>1, <2>3, <2>4 DEF Downward, Awaiting
  <2>10. Protocol(me, kid, e, e)
    BY <2>4, <2>5, <2>8, <2>9 DEF Protocol
  <2> QED BY <2>2, <2>3, <2>4, <2>10 DEF Serves, Ended
<1> QED BY <1>1 DEF AllServed

LEMMA ServedStep ==
  ASSUME TypeOK, AllPlaced, Queued, AllServed, ReceivedWhole, [Next]_vars
  PROVE  AllServed' /\ ReceivedWhole'
<1> SUFFICES ASSUME short' = 0
             PROVE  /\ \A c \in Clients : Good(c)'
                    /\ \A r \in saved' : ~ Aborted(r.session)' => Whole(r)
  BY DEF AllServed, ReceivedWhole, Good
<1>1. ASSUME short = 0
      PROVE  /\ \A c \in Clients : Good(c)
             /\ \A r \in saved : r.session \in Clients /\ (~ Aborted(r.session) => Whole(r))
  BY <1>1 DEF TypeOK, AllServed, ReceivedWhole, Good
<1>2. CASE UNCHANGED vars
  BY <1>1, <1>2 DEF vars, streams, faults, Good, Aborted, Over
<1>3. CASE ServerStep
  <2>1. \A c \in Clients : Good(c)' /\ saved' = saved /\ short = 0
    BY <1>3, ServerServed
  <2>2. client' = client
    BY <1>3 DEF ServerStep, Accept, ForkFails, Reap
  <2>3. \A r \in saved' : ~ Aborted(r.session)' => Whole(r)
    <3> TAKE r \in saved'
    <3>1. CASE r \in saved
      <4>1. short = 0
        BY <1>1, <1>3 DEF ServerStep, Accept, ForkFails, Reap, faults
      <4> QED BY <1>1, <2>2, <3>1, <4>1 DEF Aborted, Over
    <3>2. CASE r \notin saved
      BY <1>3, <3>2 DEF ServerStep, Accept, ForkFails, Reap
    <3> QED BY <3>1, <3>2
  <2> QED BY <2>1, <2>3
<1>4. ASSUME NEW c \in Clients, OnlyAt(c), short = 0, Good(c)', SavedWhole(c), Aborted(c) => Aborted(c)'
      PROVE  /\ \A x \in Clients : Good(x)'
             /\ \A r \in saved' : ~ Aborted(r.session)' => Whole(r)
  <2>1. \A x \in Clients : x # c => Good(x)' /\ (Aborted(x) => Aborted(x)')
    BY <1>1, <1>4 DEF OnlyAt, Good, Aborted, Over
  <2>2. \A r \in saved : ~ Aborted(r.session)' => Whole(r)
    BY <1>1, <1>4, <2>1
  <2> QED BY <1>4, <2>1, <2>2 DEF SavedWhole
<1>5. ASSUME NEW c \in Clients, ClientStep(c) \/ Kill(c)
      PROVE  /\ \A x \in Clients : Good(x)'
             /\ \A r \in saved' : ~ Aborted(r.session)' => Whole(r)
  <2>1. OnlyAt(c) /\ short = 0 /\ ~ Aborted(c)
    BY <1>5, ClientFrame DEF Aborted, Over
  <2>2. Good(c)' /\ SavedWhole(c)
    BY <1>5, ClientServed
  <2> QED BY <1>4, <2>1, <2>2
<1>6. ASSUME NEW c \in Clients, ChildStep(c)
      PROVE  /\ \A x \in Clients : Good(x)'
             /\ \A r \in saved' : ~ Aborted(r.session)' => Whole(r)
  <2>1. OnlyAt(c) /\ short = 0 /\ client' = client
    BY <1>6, ChildFrame
  <2>2. Good(c)' /\ SavedWhole(c)
    BY <1>6, ChildServed
  <2>3. Aborted(c) => Aborted(c)'
    BY <2>1 DEF Aborted, Over
  <2> QED BY <1>4, <2>1, <2>2, <2>3
<1> QED BY <1>2, <1>3, <1>5, <1>6 DEF Next

-----------------------------------------------------------------------------
(* The theorems.                                                           *)

\* What the variables hold, and for every connection: as long as no recv was
\* short, what is on its way to the server is the rest of what the client has
\* sent, from the command its child is at, and what is on its way to the
\* client is what the child has sent of the answer that is awaited (the loops
\* of client.c:62-96 and command.c:40-107).
THEOREM Invariance == Spec => []TransferInv
<1>1. Init => TransferInv
  BY TypeInit, QueuedInit, ServedInit DEF TransferInv
<1>2. TransferInv /\ [Next]_vars => TransferInv'
  <2> SUFFICES ASSUME TransferInv, [Next]_vars
               PROVE  TransferInv'
    OBVIOUS
  <2>1. TypeOK /\ AllPlaced /\ Queued /\ DeadIsAlone /\ AllServed /\ ReceivedWhole
    BY DEF TransferInv
  <2>2. TypeOK' /\ AllPlaced'
    BY <2>1, TypeStep
  <2>3. Queued' /\ DeadIsAlone'
    BY <2>1, QueuedStep, DeadStep
  <2>4. AllServed' /\ ReceivedWhole'
    BY <2>1, ServedStep
  <2> QED BY <2>2, <2>3, <2>4 DEF TransferInv
<1> QED BY <1>1, <1>2, PTL DEF Spec

\* Every process is at one of its steps, with a buffer of words and a count;
\* the streams hold words, and no connection waits that nobody asked for.
THEOREM TypeCorrect == Spec => []TypeOK
<1>1. TransferInv => TypeOK
  BY DEF TransferInv
<1> QED BY <1>1, Invariance, PTL

\* Whatever is received, on either side, is the whole of what was asked for,
\* unless a recv was short or the session was ended from outside (the recv
\* loops of client.c:62-96 and command.c:83-87).
THEOREM ReceivedIsWhole == Spec => []ReceivedWhole
<1>1. TransferInv => ReceivedWhole
  BY DEF TransferInv
<1> QED BY <1>1, Invariance, PTL

\* When the server ends (server.c:59-64) no client it has accepted is in the
\* middle of a session, unless its child ended because a file was not there.
THEOREM NobodyLeftBehind == Spec => []ServedToTheEnd
<1>1. TransferInv => ServedToTheEnd
  <2> SUFFICES ASSUME TransferInv, srv = "dead", short = 0, NEW c \in Clients, child[c].pc # "none"
               PROVE  Over(c) \/ Crashed(c)
    BY DEF ServedToTheEnd
  <2>1. Ended(child[c])
    BY DEF TransferInv, DeadIsAlone, Alive, Ended
  <2>2. Aborted(c) \/ Serves(client[c], child[c], up[c], down[c])
    BY DEF TransferInv, AllServed
  <2> QED BY <2>1, <2>2 DEF Aborted, Serves, Ended, Over, Crashed, Gone
<1> QED BY <1>1, Invariance, PTL

=============================================================================
