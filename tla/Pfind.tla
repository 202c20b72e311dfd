------------------------------- MODULE Pfind -------------------------------
(***************************************************************************)
(* PermissionFinder/pfind.c: the files below a directory whose permissions *)
(* are those asked for.  A command line is what getopt will return: pairs  *)
(* of an option and its value.                                             *)
(***************************************************************************)
EXTENDS Unix

LOCAL INSTANCE FiniteSetsExt

CONSTANTS
    Files,              \* 1 .. n, numbered as sort orders their paths
    Tree                \* file -> [in, mode, type, opens, stats]

ASSUME PfindAssumption ==
    \A f \in Files : Tree[f].in \in {0} \cup (Files \cap 0 .. f - 1)

Message == 0            \* a line that is not a path
NoDir  == -1            \* -d was not given
NoPerm == <<>>

PfindMem(line) ==
    [opts |-> line, dir |-> NoDir, permissions |-> NoPerm, permint |-> 0,
     stack |-> <<>>,            \* the calls of findpaths: [dir, left]
     out |-> <<>>]              \* printed, not flushed

Letters == <<"r", "w", "x", "r", "w", "x", "r", "w", "x">>

ValidPerm(s) == Len(s) = 9 /\ \A i \in 1 .. 9 : s[i] \in {Letters[i], "-"}

PermInt(s) == SumSet({2 ^ (9 - i) : i \in {j \in 1 .. 9 : s[j] # "-"}})

\* Messages for stderr are left out; the others take the place of the paths.
Finish(p, out) == Step(p, "flush", [procs[p].mem EXCEPT !.out = out])

ReadOption(p) ==
    /\ At(p, "pfind", "options")
    /\ LET mem == procs[p].mem
           opt == Head(mem.opts)
           rest == [mem EXCEPT !.opts = Tail(@)]
       IN
       IF mem.opts = <<>> THEN Goto(p, "checks")
       ELSE CASE opt[1] = "d" -> Step(p, "options", [rest EXCEPT !.dir = opt[2]])
              [] opt[1] = "p" -> Step(p, "options", [rest EXCEPT !.permissions = opt[2]])
              [] opt[1] = ":" -> Step(p, "options", rest)
              [] opt[1] = "h" -> Finish(p, <<Message>>)
              [] OTHER -> Finish(p, <<>>)      \* "?"
    /\ UNCHANGED <<pipes, screen, fails, signals>>

Entries(dir) == {f \in Files : Tree[f].in = dir}

\* The call of findpaths for dir, which returns at once if dir does not open.
Calls(stack, dir) ==
    IF Tree[dir].opens THEN <<[dir |-> dir, left |-> Entries(dir)]>> \o stack ELSE stack

CheckArguments(p) ==
    /\ At(p, "pfind", "checks")
    /\ LET mem == procs[p].mem
       IN CASE mem.dir = NoDir \/ mem.permissions = NoPerm -> Finish(p, <<Message>>)
            [] mem.dir # NoDir /\ mem.permissions # NoPerm ->
                 IF mem.dir \notin Files \/ ~ ValidPerm(mem.permissions)
                 THEN Finish(p, <<>>)
                 ELSE Step(p, "findpaths", [mem EXCEPT !.permint = PermInt(mem.permissions),
                                                       !.stack = Calls(<<>>, mem.dir)])
    /\ UNCHANGED <<pipes, screen, fails, signals>>

Matches(f, permint) == Tree[f].mode = permint

\* One turn of the loop over readdir, in any order.
ReadEntry(p) ==
    /\ At(p, "pfind", "findpaths")
    /\ LET mem == procs[p].mem
           call == Head(mem.stack)
           Rest(left) == <<[call EXCEPT !.left = left]>> \o Tail(mem.stack)
       IN
       IF mem.stack = <<>> THEN Goto(p, "flush")
       ELSE IF call.left = {} THEN Step(p, "findpaths", [mem EXCEPT !.stack = Tail(@)])
       ELSE \E f \in call.left :
              IF ~ Tree[f].stats
              THEN Step(p, "findpaths", [mem EXCEPT !.stack = Rest(call.left \ {f})])
              ELSE Step(p, "findpaths",
                     [mem EXCEPT
                        !.out = IF Matches(f, mem.permint) THEN Append(@, f) ELSE @,
                        !.stack = IF Tree[f].type = "dir"
                                  THEN Calls(Rest(call.left \ {f}), f)
                                  ELSE Rest(call.left \ {f})])
    /\ UNCHANGED <<pipes, screen, fails, signals>>

PfindStep(p) == ReadOption(p) \/ CheckArguments(p) \/ ReadEntry(p)

(***************************************************************************)
(* What pfind should find: every file below the directory, at any depth,   *)
(* that is reached through directories that open.                          *)
(***************************************************************************)
Found(dir, permissions) ==
    LET Below[f \in Files] ==
            /\ Tree[f].stats
            /\ \/ Tree[f].in = dir /\ Tree[dir].opens
               \/ /\ Tree[f].in \in Files
                  /\ Tree[Tree[f].in].type = "dir" /\ Tree[Tree[f].in].opens
                  /\ Below[Tree[f].in]
    IN  {f \in Files : Below[f] /\ Tree[f].mode = PermInt(permissions)}
=============================================================================
