------------------------------ MODULE SortFile ------------------------------
(***************************************************************************)
(* Quciksort/sort.c: read the lines of a file, sort them as strings, ints  *)
(* or doubles, print them.  fgets cuts a line of more than MAX_STRLEN      *)
(* characters into pieces, which are elements of their own.                *)
(***************************************************************************)
EXTENDS Quicksort

LOCAL INSTANCE SequencesExt

CONSTANTS
    SortCommands,       \* the command lines: [argc, opts, lines]
    Pieces,             \* what a call of fgets returns
    Value,              \* type -> piece -> its place in the order of that type
    MAX_ELEMENTS        \* 1024: more elements are stored past the array

Types == {"STRING", "INT", "DOUBLE"}

ASSUME SortFileAssumption ==
    /\ Value \in [Types -> [Pieces -> Int]]
    /\ \A c \in SortCommands : c.opened =>
           FlattenSeq(c.lines) \in Seq(Pieces) /\ Len(FlattenSeq(c.lines)) <= MAX_ELEMENTS

VARIABLES
    command,            \* the command line, with the file's lines as pieces
    spc,                \* options, read, sort, print, returned, crashed or failed
    sprinted            \* what was printed

sortVars == <<quickVars, command, spc, sprinted>>

SortInit(c, pc) ==
    /\ QuickInit(<<>>)
    /\ command = c
    /\ spc = pc
    /\ sprinted = <<>>

\* The option that counts is the last of -i and -d; -f and what getopt cannot
\* place are skipped.
TypeOfOptions(opts) ==
    LET typed == SelectSeq(opts, LAMBDA o : o \in {"i", "d"})
    IN  IF typed # <<>> /\ Last(typed) = "i" THEN "INT" ELSE "DOUBLE"

ElementType(c) == IF c.argc = 2 THEN "STRING" ELSE TypeOfOptions(c.opts)

ReadArguments ==
    /\ spc = "options"
    /\ spc' = IF command.argc \notin {2, 3} \/ "?" \in Range(command.opts) \/ ~ command.opened
              THEN "failed" ELSE "read"
    /\ UNCHANGED <<quickVars, command, sprinted>>

Elements(c) ==
    LET pieces == FlattenSeq(c.lines)
    IN  [k \in 0 .. Len(pieces) - 1 |-> Value[ElementType(c)][pieces[k + 1]]]

ReadFile ==
    /\ spc = "read"
    /\ spc' = "sort"
    /\ quicksort(Elements(command), Len(FlattenSeq(command.lines)))
    /\ UNCHANGED <<command, sprinted>>

SortElements ==
    /\ spc = "sort"
    /\ \/ SortStep /\ UNCHANGED spc
       \/ Sorted /\ spc' = "print" /\ UNCHANGED quickVars
    /\ UNCHANGED <<command, sprinted>>

\* For strings, the loop that frees them goes one past the last: what it frees
\* there was never written.
AfterPrint(type) == IF type = "STRING" THEN {"returned", "crashed"} ELSE {"returned"}

PrintElements ==
    /\ spc = "print"
    /\ spc' \in AfterPrint(ElementType(command))
    /\ sprinted' = [k \in 1 .. Len(FlattenSeq(command.lines)) |-> array[k - 1]]
    /\ UNCHANGED <<quickVars, command>>

SortFileStep == ReadArguments \/ ReadFile \/ SortElements \/ PrintElements
=============================================================================
