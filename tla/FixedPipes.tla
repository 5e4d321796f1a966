----------------------------- MODULE FixedPipes -----------------------------
(***************************************************************************)
(* The two programs with a fixed arrangement of pipes: lab6 (pipes.c), in  *)
(* which a message goes from the parent through two children and back, the *)
(* first child encrypting it; and mt2 Q1, which runs ls | xargs | cut.     *)
(*                                                                         *)
(* In lab6 the fields in and out of a process are the two ends it reads    *)
(* and writes explicitly.                                                  *)
(***************************************************************************)
EXTENDS Pipes

CONSTANTS
  Message,     \* the characters of msg
  Newline,
  BufferSize   \* BUFFER_SIZE

ASSUME FixedAssumption ==
  /\ BufferSize \in Nat /\ BufferSize >= 2
  /\ Newline \in Int
  /\ Message \in Seq(Int)
  /\ \A k \in DOMAIN Message : Message[k] = Newline <=> k = Len(Message)
  /\ \A k \in DOMAIN Message : Message[k] + 1 # Newline

P_TO_C1  == 2
C1_TO_C2 == 3
C2_TO_P  == 4

-----------------------------------------------------------------------------
(* lab6.                                                                   *)

\* What read_message has read with the size of its buffer, and what
\* write_message has left to write.
Letter(buf, bcap, todo) == [buf |-> buf, bcap |-> bcap, todo |-> todo]
Empty == Letter(<<>>, BufferSize, <<>>)

CaesarInit == Start("caesar", Empty, <<>>)

\* The first two pipes and the first fork.
ForkChild1(p) ==
  LET r == [proc[p] EXCEPT !.more = {R(P_TO_C1), W(P_TO_C1), R(C1_TO_C2), W(C1_TO_C2)}]
      parent == [r EXCEPT !.pc = "fork2"] IN
  /\ proc[p].pc = "caesar"
  /\ obj' = obj \o <<Pipe, Pipe>>
  /\ Forked(p, parent, [r EXCEPT !.pc = "child1", !.parent = p]) \/ ForkFailed(p, parent)
  /\ UNCHANGED files

\* The third pipe and the second fork.
ForkChild2(p) ==
  LET r == [proc[p] EXCEPT !.more = @ \union {R(C2_TO_P), W(C2_TO_P)}]
      parent == [r EXCEPT !.pc = "parent"] IN
  /\ proc[p].pc = "fork2"
  /\ obj' = obj \o <<Pipe>>
  /\ Forked(p, parent, [r EXCEPT !.pc = "child2", !.parent = p]) \/ ForkFailed(p, parent)
  /\ UNCHANGED files

\* The calls of close before the work: the ends a process keeps.
CloseUnneeded(p) ==
  LET r == proc[p] IN
  /\ r.pc \in {"child1", "child2", "parent"}
  /\ proc' = [proc EXCEPT ![p] =
       CASE r.pc = "child1" -> [r EXCEPT !.pc = "read1", !.in = R(P_TO_C1), !.out = W(C1_TO_C2), !.more = {}]
         [] r.pc = "child2" -> [r EXCEPT !.pc = "read2", !.in = R(C1_TO_C2), !.out = W(C2_TO_P), !.more = {}]
         [] r.pc = "parent" -> [r EXCEPT !.pc = "send", !.in = R(C2_TO_P), !.out = W(P_TO_C1),
                                         !.more = {R(C1_TO_C2), W(C1_TO_C2)}, !.mem.todo = Message]]
  /\ UNCHANGED <<obj, files, failures>>

\* Mutant of Shift: the newline is shifted like the other characters.
ShiftAll(msg, by) == [k \in DOMAIN msg |-> msg[k] + by]

\* cs_encrypt and cs_decrypt: up to the newline.
Shift(msg, by) ==
  LET end == SelectInSeq(msg, LAMBDA c : c = Newline) IN
  [k \in DOMAIN msg |-> IF end = 0 \/ k < end THEN msg[k] + by ELSE msg[k]]

\* Mutant of Grown: the buffer grows when it is full.
GrownFull(bcap, n) == IF n - 1 = bcap THEN bcap * 2 ELSE bcap

\* The size of the buffer after the n-th character was put into it.
Grown(bcap, n) == IF n - 1 = bcap - 2 THEN bcap * 2 ELSE bcap

\* read_message: a character at a time up to the newline; then what the
\* process does with the message.  The end of the input ends the process.
ReadMessage(p) ==
  LET r == proc[p]
      k == r.in[1]
      buf == Append(r.mem.buf, Head(Available(k)))
      got == [r EXCEPT !.mem.buf = buf, !.mem.bcap = Grown(@, Len(buf))] IN
  /\ r.pc \in {"read1", "read2", "receive"}
  /\ \/ /\ AtEnd(k)
        /\ proc' = [proc EXCEPT ![p] = Ended(r)]
        /\ UNCHANGED obj
     \/ /\ Available(k) # <<>>
        /\ obj' = Taken(k, 1)
        /\ proc' = [proc EXCEPT ![p] =
             IF Last(buf) # Newline THEN got
             ELSE IF r.pc = "receive" THEN [got EXCEPT !.pc = "printed", !.mem.buf = Shift(buf, -1)]
             ELSE [got EXCEPT !.pc = "pass", !.mem.todo = IF r.pc = "read1" THEN Shift(buf, 1) ELSE buf]]
  /\ UNCHANGED <<files, failures>>

\* write_message: a character at a time.
WriteMessage(p) ==
  /\ proc[p].pc \in {"pass", "send"} /\ proc[p].mem.todo # <<>>
  /\ IF Broken(proc[p].out[1]) THEN proc' = [proc EXCEPT ![p] = Ended(@)] /\ UNCHANGED <<obj, files>>
     ELSE WriteTo(proc[p].out[1], Head(proc[p].mem.todo)) /\ proc' = [proc EXCEPT ![p].mem.todo = Tail(@)]
  /\ UNCHANGED failures

\* The message is written: a child exits, the parent waits for the answer,
\* and exits when it has printed it.
Written(p) ==
  /\ proc[p].pc \in {"pass", "send", "printed"} /\ proc[p].mem.todo = <<>>
  /\ proc' = [proc EXCEPT ![p] =
       IF proc[p].pc = "send" THEN [proc[p] EXCEPT !.pc = "receive", !.out = None] ELSE Ended(proc[p])]
  /\ UNCHANGED <<obj, files, failures>>

CaesarStep(p) ==
  ForkChild1(p) \/ ForkChild2(p) \/ CloseUnneeded(p) \/ ReadMessage(p) \/ WriteMessage(p) \/ Written(p)

-----------------------------------------------------------------------------
(* mt2 Q1.                                                                 *)

LS_TO_XARGS  == 2
XARGS_TO_CUT == 3

CutInit == Start("cut1", Empty, <<>>)

\* A pipe, and the fork of a child that is to execute a program.
ForkBefore(p, from, to, program) ==
  LET k == Len(obj) + 1
      r == [proc[p] EXCEPT !.more = @ \union {R(k), W(k)}] IN
  /\ proc[p].pc = from
  /\ obj' = Append(obj, Pipe)
  /\ Forked(p, [r EXCEPT !.pc = to], [r EXCEPT !.pc = program, !.parent = p])
       \/ ForkFailed(p, [r EXCEPT !.pc = to])
  /\ UNCHANGED files

\* exec; when it fails the process ends, by assert(0) or by returning.
Become(r, name) == IF name \in DOMAIN Programs THEN Exec(r, name) ELSE Ended(r)

\* Mutant of ExecCut: cut still holds the writing end of the pipe it reads.
ExecCutKeeping(p) ==
  /\ proc[p].pc = "cut"
  /\ proc' = [proc EXCEPT ![p] = Become([proc[p] EXCEPT !.in = R(XARGS_TO_CUT), !.more = {W(XARGS_TO_CUT)}], "cut")]
  /\ UNCHANGED <<obj, files, failures>>

\* The parent becomes cut.
ExecCut(p) ==
  /\ proc[p].pc = "cut"
  /\ proc' = [proc EXCEPT ![p] = Become([proc[p] EXCEPT !.in = R(XARGS_TO_CUT), !.more = {}], "cut")]
  /\ UNCHANGED <<obj, files, failures>>

\* A child: its ends become descriptors 0 and 1, the others are closed.
ExecChild(p) ==
  /\ proc[p].pc \in {"ls", "xargs"}
  /\ proc' = [proc EXCEPT ![p] =
       IF proc[p].pc = "ls" THEN Become([proc[p] EXCEPT !.out = W(LS_TO_XARGS), !.more = {}], "ls")
       ELSE Become([proc[p] EXCEPT !.in = R(LS_TO_XARGS), !.out = W(XARGS_TO_CUT), !.more = {}], "xargs")]
  /\ UNCHANGED <<obj, files, failures>>

CutStep(p) == ForkBefore(p, "cut1", "cut2", "ls") \/ ForkBefore(p, "cut2", "cut", "xargs") \/ ExecCut(p) \/ ExecChild(p)

FixedInit == CaesarInit \/ CutInit
FixedStep(p) == CaesarStep(p) \/ CutStep(p) \/ Run(p)
FixedNext == \E p \in DOMAIN proc : FixedStep(p)
FixedSpec == FixedInit /\ [][FixedNext]_os

-----------------------------------------------------------------------------
(* Properties.                                                             *)

\* read_message never writes behind its buffer, its final null included.
InBuffer(r) == r.pc \in {"read1", "read2", "receive", "pass", "printed"} => Len(r.mem.buf) < r.mem.bcap

\* What the parent of lab6 prints is the message it sent, decrypted; and mt2
\* Q1 prints what its three programs compute from each other, whatever the
\* order of the processes.  No buffer is overrun on the way.
FixedCorrect ==
  /\ [](/\ \A p \in DOMAIN proc : InBuffer(proc[p])
        /\ proc[1].pc = "printed" => proc[1].mem.buf = Message)
  /\ proc[1].pc = "cut1" => [](failures = 0 /\ proc[1].pc = "zombie" =>
                                 file[Screen] = Flow(<<"ls", "xargs", "cut">>, <<>>))

\* Neither program waits for ever: all processes end, in lab6 after the
\* message came back.
FixedEnds ==
  /\ proc[1].pc = "caesar" /\ [](failures = 0) => <>(proc[1].pc = "printed")
  /\ proc[1].pc \in {"caesar", "cut1"} => <>(\A p \in DOMAIN proc : proc[p].pc = "zombie")

=============================================================================
