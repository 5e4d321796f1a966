SPECIFICATION FairSpec
CONSTANTS
  PipeCapacity = 2
  Programs <- MCPrograms
  InitialFiles <- MCFiles
  Directories = {"/home", "/tmp"}
  Home = "/home"
  MaxForkFailures = 1
  Typed <- MCTyped
  Message <- MCMessage
  Newline = 10
  BufferSize = 3
INVARIANTS
  PromptHoldsNothing
  OutputComposed
  ParsedAsWritten
PROPERTIES
  PatientSessionEnds
  FixedCorrect
  FixedEnds
CHECK_DEADLOCK FALSE
