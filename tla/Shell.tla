------------------------------- MODULE Shell --------------------------------
(***************************************************************************)
(* The shell of ps5 (shellp.c): it reads lines, parses them and runs basic *)
(* commands and pipelines with redirections by fork and exec.              *)
(*                                                                         *)
(* A line is a sequence of tokens, of which quotes are no part: skipWS and *)
(* cutWord drop them from the ends of a word, which ends at a blank all    *)
(* the same.  A child whose exec fails returns into the code of the shell  *)
(* and goes on there: it is one more process of this module.               *)
(***************************************************************************)
EXTENDS Pipes

CONSTANTS
  Typed  \* the sessions: sequences of lines typed at the terminal

ASSUME ShellAssumption ==
  /\ Typed \subseteq Seq(Seq(STRING))
  /\ \A n \in DOMAIN Programs : Programs[n].gives \in Seq(Seq(STRING))
  /\ \A path \in DOMAIN InitialFiles : InitialFiles[path] \in Seq(Seq(STRING))

-----------------------------------------------------------------------------
(* The parser.                                                             *)

Builtins == {"cd", "pwd", "ln", "rm", "exit"}
Blank    == " "

\* One token of extractRedirect: a redirection is replaced by blanks.
Redirect(r, t) ==
  IF ~r.ok THEN r
  ELSE IF r.want = "in" THEN [r EXCEPT !.in = <<t>>, !.want = ""]
  ELSE IF r.want = "out" THEN [r EXCEPT !.out = <<t>>, !.want = ""]
  ELSE IF t = "<" THEN [r EXCEPT !.ok = r.in = <<>>, !.in = <<"">>, !.want = "in", !.left = Append(@, Blank)]
  ELSE IF t \in {">", ">>"}
  THEN [r EXCEPT !.ok = r.out = <<>>, !.out = <<"">>, !.want = "out", !.mode = t, !.left = Append(@, Blank)]
  ELSE [r EXCEPT !.left = Append(@, t)]

ExtractRedirect(line) ==
  FoldLeft(Redirect, [ok |-> TRUE, in |-> <<>>, out |-> <<>>, mode |-> "", want |-> "", left |-> <<>>], line)

ToLast(stages, t) == [stages EXCEPT ![Len(stages)] = Append(@, t)]

Word(a, t, next) == [stages |-> ToLast(a.stages, t), next |-> next]

\* Mutant of SplitToken: a bar right behind a name is taken for a word.
SplitTokenGreedy(a, t) ==
  IF a.next = "name" THEN IF t = Blank THEN a ELSE Word(a, t, "first")
  ELSE IF a.next = "first" THEN Word(a, t, "rest")
  ELSE IF t = "|" THEN [stages |-> Append(a.stages, <<>>), next |-> "name"]
  ELSE IF t = Blank THEN a ELSE Word(a, t, "rest")

\* One token of the loops over the words.  The word behind a bar is a name
\* whatever it is; blanks right behind a name become an empty argument.
SplitToken(a, t) ==
  IF a.next = "name" THEN IF t = Blank THEN a ELSE Word(a, t, "first")
  ELSE IF t = "|" THEN [stages |-> Append(a.stages, <<>>), next |-> "name"]
  ELSE IF t = Blank THEN IF a.next = "first" THEN Word(a, "", "rest") ELSE a
  ELSE Word(a, t, "rest")

NoCommand == [kind |-> "none", in |-> <<>>, out |-> <<>>, mode |-> "", stages |-> <<>>]

\* The command of a line; a stage is its sequence of arguments, and what is
\* built in has one.
MakeCommand(line) ==
  LET r == ExtractRedirect(line)
      NotBlank(t) == t # Blank
      words == SelectSeq(r.left, NotBlank)
      rest  == SubSeq(r.left, SelectInSeq(r.left, NotBlank) + 1, SelectLastInSeq(r.left, NotBlank))
      kind  == IF ~r.ok \/ words = <<>> THEN "none"
               ELSE IF words[1] \in Builtins THEN words[1]
               ELSE IF Contains(Tail(words), "|") THEN "pipeline" ELSE "basic"
      start == [stages |-> << <<words[1]>> >>, next |-> IF kind = "basic" THEN "first" ELSE "rest"]
  IN [kind |-> kind, in |-> r.in, out |-> r.out, mode |-> r.mode,
      stages |-> IF kind \in {"basic", "pipeline"} THEN FoldLeft(SplitToken, start, rest).stages
                 ELSE <<words>>]

\* An argument of a built-in command: the empty string if there is none.
Arg(c, k) == IF k < Len(c.stages[1]) THEN c.stages[1][k + 1] ELSE ""

\* The commands of all lines that somebody types or writes.
Commands ==
  [line \in (UNION {Range(t) : t \in Typed}) \union (UNION {Range(Programs[n].gives) : n \in DOMAIN Programs})
              \union (UNION {Range(InitialFiles[n]) : n \in DOMAIN InitialFiles}) |-> MakeCommand(line)]

\* What execvp is asked for.
Name(stage) == IF stage = <<>> THEN "" ELSE stage[1]

-----------------------------------------------------------------------------
(* The processes that run the code of the shell.                           *)

\* Its memory: the command, the ends of the stages, the loop variable, the
\* last pid returned by fork, and what stdio has read ahead.  line and before,
\* the files as they were when it was read, are history.
Memory(ahead) ==
  [com |-> NoCommand, fd |-> <<>>, i |-> 1, child |-> 0, ahead |-> ahead,
   line |-> <<>>, before |-> [file |-> <<>>, dir |-> <<>>]]

ShellInit == \E typed \in Typed : Start("prompt", Memory(<<>>), typed)

\* What stdio reads at once: a line of a terminal, all there is of a pipe.
Chunk(k) ==
  IF Available(k) # <<>> /\ obj[k].kind = "tty" THEN <<Head(Available(k))>> ELSE Available(k)

\* makeCommand and the dispatch of executeCommand; at the end of the input
\* the command is exit.
ReadLine(p) ==
  LET r == proc[p]
      k == r.in[1]
      lines == IF r.mem.ahead # <<>> THEN r.mem.ahead ELSE Chunk(k)
      com == Commands[Head(lines)] IN
  /\ r.pc = "prompt"
  /\ lines # <<>> \/ AtEnd(k)
  /\ obj' = IF r.mem.ahead # <<>> \/ lines = <<>> THEN obj ELSE Taken(k, Len(lines))
  /\ proc' = [proc EXCEPT ![p] =
       IF lines = <<>> \/ com.kind = "exit" THEN Ended(r)
       ELSE [r EXCEPT !.pc = IF com.kind \in {"none", "pwd"} THEN "prompt" ELSE com.kind,
                      !.mem = [Memory(Tail(lines)) EXCEPT !.com = com, !.line = Head(lines), 
                                                          !.before = [file |-> file, dir |-> dir]]]]
  /\ UNCHANGED <<files, failures>>

Path(r, name) == <<r.cwd, name>>

\* cd, ln and rm, which change nothing when the system call fails.
ChangeDirectory(p) ==
  LET to == Arg(proc[p].mem.com, 1) IN
  /\ proc[p].pc = "cd"
  /\ proc' = [proc EXCEPT ![p].pc = "prompt", ![p].cwd = IF to \in Directories THEN to ELSE @]
  /\ UNCHANGED <<obj, files, failures>>

Link(p) ==
  LET c == proc[p].mem.com
      from == Path(proc[p], Arg(c, 1))
      to == Path(proc[p], Arg(c, 2)) IN
  /\ proc[p].pc = "ln"
  /\ proc' = [proc EXCEPT ![p].pc = "prompt"]
  /\ dir' = IF from \in DOMAIN dir /\ to \notin DOMAIN dir /\ Arg(c, 2) # ""
            THEN [path \in DOMAIN dir \union {to} |-> dir[IF path = to THEN from ELSE path]] ELSE dir
  /\ UNCHANGED <<obj, file, failures>>

Unlink(p) ==
  /\ proc[p].pc = "rm"
  /\ proc' = [proc EXCEPT ![p].pc = "prompt"]
  /\ dir' = Restrict(dir, DOMAIN dir \ {Path(proc[p], Arg(proc[p].mem.com, 1))})
  /\ UNCHANGED <<obj, file, failures>>

Waiting(r, child) == [r EXCEPT !.pc = "wait", !.mem.child = child]

\* basicExecute: the parent waits for the child.
BasicFork(p) ==
  /\ proc[p].pc = "basic"
  /\ Forked(p, Waiting(proc[p], Len(proc) + 1), [proc[p] EXCEPT !.pc = "child", !.parent = p])
  /\ UNCHANGED <<obj, files>>

\* open for a redirection by the process r: no object stands for -1.  Output
\* files are created, never truncated.
OpenedIn(r) ==
  IF r.mem.com.in # <<>> /\ Path(r, r.mem.com.in[1]) \in DOMAIN dir
  THEN <<Object("file", dir[Path(r, r.mem.com.in[1])], <<>>)>> ELSE <<>>

\* The path of the output, if there is one.
OutPath(r) == {Path(r, n) : n \in Range(r.mem.com.out) \ {""}}

\* The directory with the output file in it.
Created(r) == [path \in DOMAIN dir \union OutPath(r) |-> IF path \in DOMAIN dir THEN dir[path] ELSE Len(file) + 1]

OpenedOut(r) ==
  IF OutPath(r) = {} THEN <<>>
  ELSE <<Object(IF r.mem.com.mode = ">>" THEN "append" ELSE "file", Created(r)[CHOOSE path \in OutPath(r) : TRUE], <<>>)>>

CreateOutput(r) ==
  /\ dir' = Created(r)
  /\ file' = IF OutPath(r) \subseteq DOMAIN dir THEN file ELSE Append(file, <<>>)

\* The child of basicExecute: a redirection that fails ends it by assert, an
\* exec that fails makes it return to the loop of main.
BasicChild(p) ==
  LET c == proc[p].mem.com
      ins == OpenedIn(proc[p])
      outs == IF Len(ins) = Len(c.in) THEN OpenedOut(proc[p]) ELSE <<>>
      r == [proc[p] EXCEPT !.in = IF ins = <<>> THEN @ ELSE R(Len(obj) + 1),
                           !.out = IF outs = <<>> THEN @ ELSE W(Len(obj \o ins) + 1)]
      name == Name(c.stages[1]) IN
  /\ proc[p].pc = "child"
  /\ obj' = obj \o ins \o outs
  /\ IF Len(ins) = Len(c.in) THEN CreateOutput(proc[p]) ELSE UNCHANGED files
  /\ proc' = [proc EXCEPT ![p] =
       IF Len(ins) < Len(c.in) \/ Len(outs) < Len(c.out) THEN Ended(r)
       ELSE IF name \in DOMAIN Programs THEN Exec(r, name) ELSE [r EXCEPT !.pc = "prompt"]]
  /\ UNCHANGED failures

\* Mutant of StageEnds: the outputs of the stages are numbered backwards.
StageEndsShifted(c, n, k, in, out) ==
  [j \in 1 .. n |-> [in |-> IF j = 1 THEN in ELSE R(k + j - 1), out |-> IF j = n THEN out ELSE W(k + n - j)]]

\* _fdin and _fdout of the n stages, the pipes being the objects from k + 1.
StageEnds(c, n, k, in, out) ==
  [j \in 1 .. n |-> [in |-> IF j = 1 THEN in ELSE R(k + j - 1), out |-> IF j = n THEN out ELSE W(k + j)]]

\* setupCommandPipeline opens all pipes, then the redirections.
Setup(p) ==
  LET c == proc[p].mem.com
      n == Len(c.stages)
      k == Len(obj)
      ins == OpenedIn(proc[p])
      outs == OpenedOut(proc[p])
      fd == StageEnds(c, n, k, IF ins = <<>> THEN None ELSE R(k + n),
                               IF outs = <<>> THEN None ELSE W(k + n + Len(ins))) IN
  /\ proc[p].pc = "pipeline"
  /\ obj' = obj \o [j \in 1 .. n - 1 |-> Pipe] \o ins \o outs
  /\ CreateOutput(proc[p])
  /\ proc' = [proc EXCEPT ![p] = [proc[p] EXCEPT !.pc = "spawn", !.mem.fd = fd,
       !.more = @ \union ((UNION {{fd[j].in, fd[j].out} : j \in 1 .. n}) \ {None})]]
  /\ UNCHANGED failures

\* The next iteration of the loop that spawns the stages.
NextStage(r, child) ==
  [r EXCEPT !.pc = IF r.mem.i = Len(r.mem.com.stages) THEN "wait" ELSE "spawn",
            !.mem.i = @ + 1, !.mem.child = child]

\* Mutants of Ends: only one of the two is closed.
EndsInput(r)  == {r.mem.fd[r.mem.i].in}
EndsOutput(r) == {r.mem.fd[r.mem.i].out}

\* The ends of a stage: the parent closes them, the child moves them.
Ends(r) == {r.mem.fd[r.mem.i].in, r.mem.fd[r.mem.i].out}

\* spawnStage in the parent, which closes the ends of the stage.
SpawnStage(p) ==
  /\ proc[p].pc = "spawn"
  /\ Forked(p, [NextStage(proc[p], Len(proc) + 1) EXCEPT !.more = @ \ Ends(proc[p])],
            [proc[p] EXCEPT !.pc = "stage", !.parent = p])
  /\ UNCHANGED <<obj, files>>

\* fork returns -1: the ends stay open, and waitpid gets -1.
ForkFails(p) ==
  /\ \/ proc[p].pc = "basic" /\ ForkFailed(p, Waiting(proc[p], -1))
     \/ proc[p].pc = "spawn" /\ ForkFailed(p, NextStage(proc[p], -1))
  /\ UNCHANGED <<obj, files>>

\* spawnStage in the child: its two ends become descriptors 0 and 1.  If the
\* exec fails the child stays in the loop, and spawns the stages that follow.
StageChild(p) ==
  LET s == proc[p].mem.fd[proc[p].mem.i]
      r == [proc[p] EXCEPT !.in = IF s.in = None THEN @ ELSE s.in,
                           !.out = IF s.out = None THEN @ ELSE s.out,
                           !.more = @ \ Ends(proc[p])]
      name == Name(r.mem.com.stages[r.mem.i]) IN
  /\ proc[p].pc = "stage"
  /\ proc' = [proc EXCEPT ![p] = IF name \in DOMAIN Programs THEN Exec(r, name) ELSE NextStage(r, 0)]
  /\ UNCHANGED <<obj, files, failures>>

\* waitStage of the last stage, or the waitpid of basicExecute.
Wait(p) ==
  /\ proc[p].pc = "wait"
  /\ WaitPid(p, proc[p].mem.child, "prompt")
  /\ UNCHANGED <<obj, files, failures>>

ShellStep(p) ==
  \/ ReadLine(p) \/ ChangeDirectory(p) \/ Link(p) \/ Unlink(p) \/ BasicFork(p) \/ BasicChild(p)
  \/ Setup(p) \/ SpawnStage(p) \/ StageChild(p) \/ Wait(p) \/ Run(p)

ShellNext == \E p \in DOMAIN proc : ShellStep(p) \/ ForkFails(p)

ShellSpec == ShellInit /\ [][ShellNext]_os


-----------------------------------------------------------------------------
(* Properties.                                                             *)

\* The shell the user started, at its prompt, has none of the ends of its
\* pipelines left, so it neither runs out of descriptors nor keeps a reader
\* waiting; only a fork that fails leaves ends behind.
PromptHoldsNothing ==
  proc[1].pc = "prompt" /\ failures = 0 => Held(1) = {R(1), W(1)}

AllFound(c) == c.kind \in {"basic", "pipeline"} => \A j \in DOMAIN c.stages : Name(c.stages[j]) \in DOMAIN Programs

\* What the shell's command leaves in the file or terminal it writes to.
Result(c, before) ==
  LET path(n) == Path(proc[1], n)
      out == Flow([j \in DOMAIN c.stages |-> Name(c.stages[j])],
                  IF c.in = <<>> THEN <<>> ELSE before.file[before.dir[path(c.in[1])]])
      to == IF c.out = <<>> THEN Screen ELSE dir[path(c.out[1])]
      old == IF to \in DOMAIN before.file THEN before.file[to] ELSE <<>> IN
  IF c.mode = ">" THEN file[to] = out \o SubSeq(old, Len(out) + 1, Len(old))
  ELSE file[to] = old \o out

\* When the last stage has ended, the output of a command is what its stages
\* compute one from the other: pipes connect neighbours, nobody takes
\* anything from a pipe that is not his, nothing is cut off.
OutputComposed ==
  LET r == proc[1] IN
  /\ r.pc = "wait" /\ failures = 0 /\ AllFound(r.mem.com)
  /\ r.mem.child > 0 /\ proc[r.mem.child].pc = "zombie"
  /\ r.mem.com.in # <<>> => Path(r, r.mem.com.in[1]) \in DOMAIN r.mem.before.dir
  /\ r.mem.com.in = <<>> => Programs[Name(r.mem.com.stages[1])].reads = 0
  => Result(r.mem.com, r.mem.before)

\* The sessions in which every program is found, and every stage that has a
\* stage before it reads to the end of its input.
Patient(typed) ==
  \A l \in DOMAIN typed :
    LET c == Commands[typed[l]] IN
    /\ AllFound(c)
    /\ \A j \in 2 .. Len(c.stages) :
         Programs[Name(c.stages[j])].reads >= Len(Flow([i \in 1 .. j - 1 |-> Name(c.stages[i])], <<>>))

\* Such a session ends: every pipeline completes although each of its stages
\* inherits ends of other pipes, and the shell reads up to the end.
PatientSessionEnds ==
  Patient(obj[1].data) /\ [](failures = 0) => <>(proc[1].pc = "zombie")

\* The places of a sequence, in order, where a condition holds.
Places(s, Is(_)) == SelectSeq([k \in DOMAIN s |-> k], Is)

\* The words of a line, its redirections left out.
Plain(line) ==
  LET kept == Places(line, LAMBDA k : \A j \in {k - 1, k} \ {0} : line[j] \notin {"<", ">", ">>"})
  IN [j \in DOMAIN kept |-> line[kept[j]]]

\* The segments of a sequence of words between its bars.
Segments(words) ==
  LET bars == <<0>> \o Places(words, LAMBDA k : words[k] = "|") \o <<Len(words) + 1>>
  IN [j \in 1 .. Len(bars) - 1 |-> SubSeq(words, bars[j] + 1, bars[j + 1] - 1)]

NotEmpty(word) == word # ""

\* A line that has no empty segment becomes the command whose stages are its
\* segments, but for empty arguments, and whose redirections are those of the
\* line, wherever they stand in it.
ParsedAsWritten ==
  \A p \in DOMAIN proc : proc[p].pc \in {"basic", "pipeline"} =>
    LET line == proc[p].mem.line
        c == proc[p].mem.com
        names(t) == {line[k + 1] : k \in {j \in 1 .. Len(line) - 1 : line[j] = t}} IN
    (\A j \in DOMAIN Segments(Plain(line)) : Segments(Plain(line))[j] # <<>>) =>
      /\ [j \in DOMAIN c.stages |-> SelectSeq(c.stages[j], NotEmpty)] = Segments(Plain(line))
      /\ Range(c.in) = names("<")
      /\ Range(c.out) = names(">") \union names(">>")
      /\ c.kind = IF Len(Segments(Plain(line))) > 1 THEN "pipeline" ELSE "basic"

=============================================================================
