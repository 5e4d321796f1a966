---------------------------- MODULE MCFileTransfer ----------------------------
EXTENDS FileTransfer, TLC

CONSTANTS a, b

\* Codes are 0 to 3; names and the words of files are different from them.
Name == [long |-> 11, empty |-> 12, missing |-> 13, local |-> 14, blank |-> 15]

MCServerFiles == Name.long :> <<5, 6>> @@ Name.empty :> <<>>
MCClientFiles == Name.local :> <<7, 4>> @@ Name.blank :> <<>>
MCListing     == <<8, 10>>

Typed(op, name) == [op |-> op, name |-> name]
Exit == Typed(CC_EXIT, 0)

Loads    == <<Typed(CC_GET, Name.long), Typed(CC_PUT, Name.local), Exit>>
Lists    == <<Typed(CC_LS, 0), Typed(CC_PUT, Name.blank), Exit>>
Waits    == <<Typed(CC_PUT, Name.blank), Typed(CC_GET, Name.empty), Typed(CC_LS, 0), Exit>>
NotHere  == <<Typed(CC_PUT, Name.missing), Exit>>
NotThere == <<Typed(CC_GET, Name.missing), Exit>>

MCSessions == {a :> Loads @@ b :> s : s \in {Lists, Waits, NotThere, NotHere}}
===============================================================================
