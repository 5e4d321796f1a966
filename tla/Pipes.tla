------------------------------- MODULE Pipes --------------------------------
(***************************************************************************)
(* What the programs of ps5, lab6 and mt2 Q1 use of the operating system:  *)
(* processes with descriptors, pipes, open files, fork, exec and waitpid,  *)
(* and the programs they execute.  Nothing here is code of the repository. *)
(*                                                                         *)
(* An end is a pair of an open object and "r" or "w".  A process holds     *)
(* descriptor 0 in the field in, 1 in the field out and the others in      *)
(* more, and has a working directory; mem is its own memory, copied by     *)
(* fork.  A file is a number; a path is a pair of a directory and a name.  *)
(***************************************************************************)
EXTENDS Integers, Sequences, FiniteSets, SequencesExt

CONSTANTS
  PipeCapacity,  \* items a pipe can hold
  Programs,      \* what execvp finds: name -> [gives, reads]
  InitialFiles,  \* path -> items
  Directories, Home,  \* the directories, and the first working directory
  MaxForkFailures  \* bound on the calls of fork that fail

ASSUME PipesAssumption ==
  /\ PipeCapacity \in Nat \ {0}
  /\ \A n \in DOMAIN Programs : Programs[n].reads \in Nat /\ Programs[n].gives \in Seq(Range(Programs[n].gives))
  /\ MaxForkFailures \in Nat
  /\ Home \in Directories /\ "" \notin Directories
  /\ IsFiniteSet(DOMAIN InitialFiles)
  /\ \A path \in DOMAIN InitialFiles : path[1] \in Directories /\ path[2] # ""

VARIABLES
  proc,  \* the processes, by pid
  obj,   \* the open objects: terminal, pipes, files with an offset
  file,  \* the contents of the files; the first is what the terminal shows
  dir,   \* path -> file
  failures  \* calls of fork that failed

files == <<file, dir>>
os    == <<proc, obj, files, failures>>

None == <<0, "none">>
R(k) == <<k, "r">>
W(k) == <<k, "w">>

Screen == 1

Object(kind, n, data) == [kind |-> kind, file |-> n, data |-> data, at |-> 0]
Pipe     == Object("pipe", 0, <<>>)
Terminal(typed) == Object("tty", Screen, typed)

Process(pc, parent, mem) ==
  [pc |-> pc, in |-> R(1), out |-> W(1), more |-> {}, cwd |-> Home, parent |-> parent, mem |-> mem]

\* One process with the code of a program, at a terminal.
Start(pc, mem, typed) ==
  /\ proc = <<Process(pc, 0, mem)>> /\ obj = <<Terminal(typed)>>
  /\ LET paths == SetToSeq(DOMAIN InitialFiles) IN
     /\ file = << <<>> >> \o [k \in DOMAIN paths |-> InitialFiles[paths[k]]]
     /\ dir = [path \in DOMAIN InitialFiles |-> 1 + SelectInSeq(paths, LAMBDA x : x = path)]
  /\ failures = 0

Held(p) == {proc[p].in, proc[p].out} \union proc[p].more
IsHeld(e) == \E p \in DOMAIN proc : e \in Held(p)

\* What a read of an object can return now.
Available(k) ==
  IF k = 0 THEN <<>>
  ELSE IF obj[k].kind = "file" THEN SubSeq(file[obj[k].file], obj[k].at + 1, Len(file[obj[k].file]))
  ELSE obj[k].data

\* A read returns 0: a pipe ends only when nobody holds its writing end.
AtEnd(k) == Available(k) = <<>> /\ (k # 0 /\ obj[k].kind = "pipe" => ~IsHeld(W(k)))

\* The objects after n items were read.
Taken(k, n) ==
  IF obj[k].kind = "file" THEN [obj EXCEPT ![k].at = @ + n]
  ELSE [obj EXCEPT ![k].data = SubSeq(@, n + 1, Len(@))]

Overwrite(s, at, x) == SubSeq(s, 1, at) \o <<x>> \o SubSeq(s, at + 2, Len(s))

WriteTo(k, x) ==
  /\ \/ /\ obj[k].kind = "pipe" /\ Len(obj[k].data) < PipeCapacity
        /\ obj' = [obj EXCEPT ![k].data = Append(@, x)]
        /\ UNCHANGED file
     \/ /\ obj[k].kind = "file"
        /\ obj' = [obj EXCEPT ![k].at = @ + 1]
        /\ file' = [file EXCEPT ![obj[k].file] = Overwrite(@, obj[k].at, x)]
     \/ /\ obj[k].kind \in {"append", "tty"}
        /\ file' = [file EXCEPT ![obj[k].file] = Append(@, x)]
        /\ UNCHANGED obj
  /\ UNCHANGED dir

Broken(k) == obj[k].kind = "pipe" /\ ~IsHeld(R(k))

\* A process after exit: all its descriptors are closed.
Ended(r) == [r EXCEPT !.pc = "zombie", !.in = None, !.out = None, !.more = {}, !.mem = <<>>]

\* A process after a successful exec: it keeps its descriptors.
Exec(r, name) ==
  [r EXCEPT !.pc = "run", !.mem = [todo |-> Programs[name].gives, reads |-> Programs[name].reads]]

\* fork, after which process p is the record parent; a failed call returns -1.
Forked(p, parent, child) ==
  proc' = Append([proc EXCEPT ![p] = parent], child) /\ UNCHANGED failures
ForkFailed(p, parent) ==
  /\ failures < MaxForkFailures /\ failures' = failures + 1
  /\ proc' = [proc EXCEPT ![p] = parent]

\* waitpid: for the child c, or for any child if c is not positive.
WaitPid(p, c, to) ==
  LET mine == {q \in DOMAIN proc : /\ proc[q].parent = p /\ proc[q].pc # "gone"
                                   /\ c > 0 => q = c} IN
  \/ /\ mine = {}
     /\ proc' = [proc EXCEPT ![p].pc = to]
  \/ \E q \in mine :
       /\ proc[q].pc = "zombie"
       /\ proc' = [proc EXCEPT ![q].pc = "gone", ![p].pc = to]

-----------------------------------------------------------------------------
(* An executed program writes what it gives, then copies what it reads.    *)

RunRead(p) ==
  LET k == proc[p].in[1] IN
  /\ proc[p].pc = "run" /\ proc[p].mem.todo = <<>> /\ proc[p].mem.reads > 0
  /\ Available(k) # <<>>
  /\ obj' = Taken(k, 1)
  /\ proc' = [proc EXCEPT ![p].mem = [todo |-> <<Head(Available(k))>>, reads |-> @.reads - 1]]
  /\ UNCHANGED files

RunWrite(p) ==
  /\ proc[p].pc = "run" /\ proc[p].mem.todo # <<>>
  /\ ~Broken(proc[p].out[1])
  /\ WriteTo(proc[p].out[1], Head(proc[p].mem.todo))
  /\ proc' = [proc EXCEPT ![p].mem.todo = Tail(@)]

\* The end: nothing left to do, end of the input, or SIGPIPE.
RunEnd(p) ==
  /\ proc[p].pc = "run"
  /\ IF proc[p].mem.todo = <<>> THEN proc[p].mem.reads = 0 \/ AtEnd(proc[p].in[1])
     ELSE Broken(proc[p].out[1])
  /\ proc' = [proc EXCEPT ![p] = Ended(@)]
  /\ UNCHANGED <<obj, files>>

Run(p) == (RunRead(p) \/ RunWrite(p) \/ RunEnd(p)) /\ UNCHANGED failures

\* What the programs named in a sequence deliver to each other, the first of
\* them reading input: the meaning of a pipeline.
Flow(names, input) ==
  LET f[j \in 0 .. Len(names)] ==
        IF j = 0 THEN input
        ELSE Programs[names[j]].gives
               \o SubSeq(f[j - 1], 1, Min({Len(f[j - 1]), Programs[names[j]].reads}))
  IN f[Len(names)]

=============================================================================
