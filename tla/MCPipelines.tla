---------------------------- MODULE MCPipelines -----------------------------
(* Instance of Shell and FixedPipes: the operating system runs one of the  *)
(* three programs.  Sessions of the shell are a few of one to seven lines, *)
(* among them misspelt commands and a stage that stops reading, and every  *)
(* short line without empty stages, with redirections put anywhere.        *)
EXTENDS Shell, FixedPipes

a == <<"a">>
b == <<"b">>
x == <<"x">>

MCPrograms ==
  [ls    |-> [gives |-> <<a, b, x>>, reads |-> 0],
   cat   |-> [gives |-> <<>>, reads |-> 9],
   xargs |-> [gives |-> <<>>, reads |-> 9],
   cut   |-> [gives |-> <<>>, reads |-> 9],
   head  |-> [gives |-> <<>>, reads |-> 1],
   yes   |-> [gives |-> <<a, a, a, a, a, a, a>>, reads |-> 0]]

MCFiles ==
  <<"/home", "e">> :> <<>> @@ <<"/home", "f">> :> <<b, a>> @@ <<"/home", "g">> :> <<x, x, x, x>>

MCMessage == <<5, 7, 6, 10>>

Sessions ==
  { <<  <<"ls", "|", "cat", "|", "cat">>, <<"cat", "<", "f">>  >>,
    <<  <<"cat", "<", "f", "|", "cat", ">", "g">>, <<"ls", "|", "head">>  >>,
    <<  <<"yes", "|", "head", "|", "cat">>  >>,
    <<  <<"ls", "|", "head", "|", "cat">>  >>,
    <<  <<"ls", "|", "sl">>  >>,
    <<  <<"ls", "|", "sl", "|", "cat">>  >>,
    <<  <<"sl", "|", "cat">>  >>,
    <<  <<"ls", ">>", "g">>, <<"cd", "f">>, <<"pwd">>, <<"cat", "<", "h">>, <<"cat", "<", "f", "<", "f">>, <<"exit">>  >>,
    <<  <<"ls", ">", "g">>, <<"cd", "/tmp">>, <<"ls", ">", "g">>, <<"cat", "<", "g">>, <<"cat", "<", "f">>  >>,
    <<  <<"ln", "g", "k">>, <<"cat", "<", "f", "|", "cat", ">>", "g">>, <<"rm", "g">>, <<"ls", ">", "g">>,
        <<"ln", "f", "g">>, <<"cat", "<", "k">>, <<"rm">>  >> }

Redirected(line, n) == SubSeq(line, 1, n) \o <<"<", "e", ">>", "g">> \o SubSeq(line, n + 1, Len(line))
ShortLines ==
  UNION {{l \in [1 .. n -> {"cat", "|"}] : \A k \in 1 .. n : l[k] = "|" => k \notin {1, n} /\ l[k - 1] # "|"} : n \in 1 .. 5}

MCTyped == Sessions \union UNION {{<<Redirected(l, n)>> : n \in 0 .. Len(l)} : l \in ShortLines}

MaxProcs == 8

Init == ShellInit \/ FixedInit

Step(p) == p \in DOMAIN proc /\ (ShellStep(p) \/ FixedStep(p))

Next == \E p \in DOMAIN proc : Step(p) \/ ForkFails(p)

\* Every process that can run eventually runs.
FairSpec == Init /\ [][Next]_os /\ \A p \in 1 .. MaxProcs : WF_os(Step(p))

=============================================================================
