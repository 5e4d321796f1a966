---------------------------- MODULE MCSqlServer ----------------------------
EXTENDS SqlServer, TLC

CONSTANTS a, b, insert, select, quit

\* The answer of select fills the buffer of the client, that of insert does not.
MCSize == insert :> 1 @@ select :> 2 @@ quit :> 0

Typed(kind, lines) == [kind |-> kind, lines |-> lines]

MCSessions ==
  { a :> Typed("file", <<insert, select, quit>>) @@ b :> Typed("terminal", <<>>),
    a :> Typed("terminal", <<select, quit>>) @@ b :> Typed("pipe", <<insert>>),
    a :> Typed("file", <<quit, insert>>) @@ b :> Typed("terminal", <<>>) }
=============================================================================
