-------------------------------- MODULE Labs --------------------------------
(***************************************************************************)
(* A run of one of the lab programs.                                       *)
(***************************************************************************)
EXTENDS Pipelines, Minishell, Forks, Naps, Lists, SortFile, GetString, Echo, FindServer

LOCAL INSTANCE SequencesExt

CONSTANT FindCommands   \* the command lines of pfind and spfind

VARIABLE program

otherVars == <<listVars, sortVars, getVars, echoVars, findVars>>
vars == <<unixVars, table, ttyVars, otherVars, program>>

Pipelined ==
    {Started("pfind", "options", PfindMem(line)) : line \in FindCommands}
      \cup {Started("spfind", "main", SpfindMem(line)) : line \in FindCommands \cup {<<>>}}
      \cup {Started("countprocess", "main", CountMem(argc)) : argc \in 1 .. 2}
      \cup {Started("pipes", "main", PipesMem(argc)) : argc \in 1 .. 2}
Alone ==
    {Started("nforks", "main", NforksMem(argv)) : argv \in Arguments}
      \cup {Started("primestest", "main", PrimesMem(argv)) : argv \in Arguments}
      \cup {Started(prog, "main", WaiterMem) : prog \in Waiters}
      \cup {Started(prog, "main", NapMem(argv)) : prog \in Nappers, argv \in NapArguments}
      \cup {Started("worker", "loop", WorkerMem)}
Interactive == {Started(prog, "read", ShellMem) : prog \in Shells}

NoCommand == [argc |-> 2, opts |-> <<>>, opened |-> FALSE, lines |-> <<>>]

\* The variables of what is not run have some value.
NoProcesses == UnixInit(NoProcess) /\ table = <<>> /\ TtyInit(<<>>)
NoList == ListInit("none")
NoSort == SortInit(NoCommand, "none")
NoLines == GetInit(<<>>)
NoEcho == EchoInit([c \in EchoClients |-> <<>>], "none")
NoFind == FindInit([p \in 1 .. LastPort |-> "nothing"], "none")

Init ==
    \/ /\ \/ \E root \in Pipelined :
               /\ UnixInit(root)
               /\ table \in IF root.prog \in {"countprocess", "pipes"} THEN PsLines ELSE {<<>>}
               /\ TtyInit(<<>>)
          \/ \E root \in Alone : UnixInit(root) /\ table = <<>> /\ TtyInit(<<>>)
          \/ \E root \in Interactive, s \in Scripts :
               UnixInit(root) /\ table = <<>> /\ TtyInit(s)
       /\ program = procs[Root].prog
       /\ NoList /\ NoSort /\ NoLines /\ NoEcho /\ NoFind
    \/ /\ program = "list" /\ \E k \in {"lab3", "LinkedList"} : ListInit(k)
       /\ NoProcesses /\ NoSort /\ NoLines /\ NoEcho /\ NoFind
    \/ /\ program = "sort" /\ \E c \in SortCommands : SortInit(c, "options")
       /\ NoProcesses /\ NoList /\ NoLines /\ NoEcho /\ NoFind
    \/ /\ program = "get_string" /\ \E t \in Typing : GetInit(t)
       /\ NoProcesses /\ NoList /\ NoSort /\ NoEcho /\ NoFind
    \/ /\ program = "echo" /\ \E argvs \in [EchoClients -> EchoArguments] : EchoInit(argvs, "start")
       /\ NoProcesses /\ NoList /\ NoSort /\ NoLines /\ NoFind
    \/ /\ program = "findserver"
       /\ \E services \in [1 .. LastPort -> Services] : FindInit(services, "socket")
       /\ NoProcesses /\ NoList /\ NoSort /\ NoLines /\ NoEcho

ProcessSteps(p) ==
    /\ Running(p)
    /\ \/ /\ CommandStep(p) \/ SpfindStep(p) \/ CountStep(p) \/ PipesStep(p)
             \/ NforksStep(p) \/ WaiterStep(p) \/ PrimesStep(p) \/ NapStep(p)
          /\ UNCHANGED ttyVars
       \/ MinishellStep(p)
    /\ UNCHANGED <<table, otherVars, program>>

OtherSteps ==
    /\ program \in {"list", "sort", "get_string", "echo", "findserver"}
    /\ \/ ListStep /\ UNCHANGED <<sortVars, getVars, echoVars, findVars>>
       \/ SortFileStep /\ UNCHANGED <<listVars, getVars, echoVars, findVars>>
       \/ GetStep /\ UNCHANGED <<listVars, sortVars, echoVars, findVars>>
       \/ EchoStep /\ UNCHANGED <<listVars, sortVars, getVars, findVars>>
       \/ FindStep /\ UNCHANGED <<listVars, sortVars, getVars, echoVars>>
    /\ UNCHANGED <<unixVars, table, ttyVars, program>>

User ==
    /\ \/ TypeLine \/ PressInterrupt
       \/ (WakeUp \/ DisturbWorker \/ \E c \in Pids : Disturb(c)) /\ UNCHANGED ttyVars
    /\ UNCHANGED <<table, otherVars, program>>

Kills ==
    /\ KillOne
    /\ UNCHANGED <<unixVars, table, ttyVars, listVars, sortVars, getVars, findVars, program>>

Rings == Alarm /\ UNCHANGED <<table, ttyVars, otherVars, program>>

Next == OtherSteps \/ User \/ Kills \/ Rings \/ \E p \in Pids : ProcessSteps(p)

Spec == Init /\ [][Next]_vars

\* Every process that can run is scheduled and the alarm that was set rings; the
\* user need do nothing.  The steps of the other programs cannot repeat for ever:
\* some of those that can be taken are taken until none is left.
FairSpec ==
    /\ Spec
    /\ \A p \in Pids : WF_vars(ProcessSteps(p))
    /\ WF_vars(OtherSteps) /\ WF_vars(Rings)

(***************************************************************************)
(* Properties.                                                             *)
(***************************************************************************)

\* Types.
TypeOK ==
    /\ UnixTypeOK
    /\ table \in PsLines \cup {<<>>}
    /\ keys \in Seq(1 .. pressed) /\ ran \in Seq(1 .. pressed)
    /\ head \in {NULL} \cup Nodes /\ tail \in {NULL} \cup Nodes
    /\ num_nodes \in 0 .. MaxNodes /\ created \in 0 .. MaxNodes /\ freed \subseteq 1 .. created
    /\ spc \in {"none", "options", "read", "sort", "print", "returned", "crashed", "failed"}
    /\ ToSet(server.buf) \subseteq Nat /\ Len(server.buf) = BUFLEN
    /\ gpc \in {"read", "drain"}
    /\ strings \in Seq([result : {"OK", "NO_INPUT", "TOO_LONG"},
                        id : DOMAIN typing, len : 0 .. sz - 1])

Done ==
    /\ \A p \in Pids : ~ Running(p)
    /\ program = "sort" => spc \in {"returned", "crashed", "failed"}
    /\ program = "echo" =>
          \A c \in EchoClients : client[c].pc \in {"exited", "failed", "killed"}
    /\ program = "findserver" => fpc \in {"found", "not found", "failed"}

\* The lines shown so far, and the rest of what was.
Shown(tag) == LET of == SelectSeq(screen, LAMBDA e : e[1] = tag)
              IN  [i \in DOMAIN of |-> of[i][2]]

ArgumentsOf(line) ==    \* -d and -p as the last of each says
    LET Of(o, none) == LET given == SelectSeq(line, LAMBDA e : e[1] = o)
                       IN  IF given = <<>> THEN none ELSE Last(given)[2]
    IN  [dir |-> Of("d", NoDir), permissions |-> Of("p", NoPerm)]
GoodLine(line) ==
    /\ \A i \in DOMAIN line : line[i][1] \in {"d", "p", ":"}
    /\ ArgumentsOf(line).dir \in Files /\ ValidPerm(ArgumentsOf(line).permissions)

\* What a pipeline shows is what its commands make of each other's output, in
\* whatever order the processes run and however the reads cut it.  spfind
\* (72-97) shows the files pfind should find, sorted, and each total is the
\* number of those before it, so the last is the total; countprocess (80) shows
\* how many lines of ps match, once; pipes (49) shows what grep says.
PipelineShows ==
    LET lines == Shown("line")
        end == fails = 0 /\ Done /\ procs[Root].how = "exited"
        wanted == SelectSeq(table, LAMBDA line : line \in Wanted)
    IN
    /\ program = "spfind" /\ fails = 0 =>
          LET line == procs[Root].mem.argv
              found == SortSeq(SetToSeq(Found(ArgumentsOf(line).dir,
                                              ArgumentsOf(line).permissions)), <)
          IN  GoodLine(line) =>
                /\ IsPrefix(lines, found)
                /\ end => lines = found
                /\ \A i \in DOMAIN screen : screen[i][1] = "total" =>
                      screen[i][2] = Cardinality({j \in 1 .. i : screen[j][1] = "line"})
                /\ end /\ found # <<>> => Last(screen)[1] = "total"
    /\ program = "countprocess" /\ end => screen = <<<<"count", Len(wanted)>>>>
    /\ program = "pipes" /\ end => screen = IF wanted = <<>> THEN <<>> ELSE <<<<"line", Message>>>>

\* An echo client prints the beginning of what it sent, never what is behind it
\* in the server's buffer and never another's, and some of it unless the server
\* was stopped; and no client can stop the server, however it ends (server.c
\* 65-98).  findserver passes over no server that says something in time, prints
\* none that says nothing but one that hangs up, which it should not (see
\* FoundIfReceived), and leaves no socket open but one that it could not set up
\* (findserver.c 80-103).
NetworkShows ==
    /\ program = "echo" =>
          /\ \A c \in EchoClients :
                /\ IsPrefix(client[c].said, Sent(c))
                /\ client[c].pc = "exited" /\ client[c].said = <<>> =>
                      server.pc = "stopped" \/ Sent(c) = <<>>
          /\ server.pc \notin {"failed", "killed"}
    /\ program = "findserver" =>
          /\ \A p \in 1 .. LastPort :
                ports[p] = "greets" /\ (p < port \/ fpc = "not found") => p \in late
          /\ fpc = "found" /\ ports[answer] # "hangs up" => ports[answer] = "greets"
          /\ open \subseteq IF fpc \in {"found", "not found"} THEN {} ELSE {port}

\* What programs show that hear of each other only through pipes or sockets.
OutputRight == PipelineShows /\ NetworkShows

\* When the shell asks for the next line and no CTRL+C came since it forked, the
\* command of the last one has ended and was reaped (104-107); and as long as
\* there is no CTRL+C at all, only one process reads lines, whatever fails.
ForegroundDone ==
    program = "minishell" =>
        /\ \A p \in Pids :
              At(p, "minishell", "read") /\ ~ procs[p].mem.jumped =>
                  ~ \E c \in Pids : /\ c = procs[p].mem.p /\ procs[c].parent = p
                                    /\ procs[c].state \in {"running", "zombie"}
        /\ signals = 0 => ~ \E p \in Pids \ {Root} : At(p, "minishell", "read")

\* Until CTRL+D, no line is executed twice, whatever CTRL+C interrupts and
\* however many shells it leaves.  Without CTRL+C none is left out either: the
\* commands that were forked are those of the lines read, in their order.
CommandsOnce ==
    program = "minishell" /\ ~ EndTyped =>
        /\ \A i, j \in DOMAIN ran : i # j => ran[i] # ran[j]
        /\ signals = 0 /\ At(Root, "minishell", "read") =>
              /\ \A i, j \in DOMAIN ran : i < j => ran[i] < ran[j]
              /\ {ran[i] : i \in DOMAIN ran} =
                     {n \in 1 .. pressed - Len(keys) : script[n] \in Commands}

\* A parent that returns success has waited for each of its children, and said
\* of each once that it ended and how; what it says before of a child that is
\* stopped or continued was so, in this order (nforks 124-133, forkexec 21-42,
\* forkwithfile 41-59).  At any time nforks has told of the children that it
\* waited for, each once, and of no other; when a fork fails (98-104) it tells of
\* none, also of those that have ended or end behind it.
ChildrenReported ==
    /\ program = "nforks" =>
          /\ procs[Root].how = "exited" => \A c \in Pids : procs[c].state \in {"none", "gone"}
          /\ \A c \in Pids \ {Root} :
                Cardinality({i \in DOMAIN screen : screen[i] = <<"terminated", c>>}) =
                    IF procs[c].state = "gone" /\ procs[Root].how # "failed" THEN 1 ELSE 0
    /\ program \in Waiters =>
          /\ procs[Root].how = "exited" =>
                LET c == procs[Root].mem.pid
                IN  /\ procs[c].state = "gone"
                    /\ screen # <<>> /\ screen[Len(screen)] = <<procs[c].how, c>>
          /\ \A i \in DOMAIN screen : i < Len(screen) => screen[i][1] \in {"stopped", "continued"}

\* What snooze says is at most two seconds off what it slept (it should not be off
\* at all: see SnoozeSaysHowLong), never more than allowed, and all that is allowed
\* when nothing woke it; signals says at most one more or less;
\* the last of the primes that alarms counted is the one with that number; worker
\* answers no signal twice (snooze 61-72, signals 48-66, alarms 47-60, worker
\* 29-41).
NapsReported ==
    LET mem == procs[Root].mem
        said == screen[1][2]
    IN
    /\ procs[Root].how = "exited" =>
          /\ program = "snooze" =>
                /\ said \in mem.slept .. mem.slept + 2 /\ said <= mem.sleep_secs
                /\ signals = 0 => said = mem.sleep_secs
          /\ program = "signals" =>
                /\ said \in mem.slept - 1 .. mem.slept + 1 /\ signals > 0
                /\ (\E i \in DOMAIN screen : screen[i][1] = "overslept") <=> said > mem.sleep_secs
          /\ program = "alarms" =>
                said = IF mem.num = 2 THEN 0
                       ELSE Cardinality({n \in 2 .. screen[2][2] : is_prime(n)})
    /\ program = "worker" =>
          /\ Len(screen) <= signals
          /\ mem.signal_val # "" /\ procs[Root].pc # "reset" => Len(screen) < signals

\* The order of both readings of a list is one and the same, and num_nodes is
\* its length; what free_list has freed, going back from the tail, are the nodes
\* it has passed, each once, and in the end all.
ListsLinked ==
    /\ lpc = "idle" => Backward = Reverse(Forward) /\ num_nodes = Len(Forward)
    /\ lpc \in {"free", "done"} =>
          /\ Reverse(Backward) = SubSeq(Forward, 1, Len(Backward))
          /\ freed = {Forward[i] : i \in Len(Backward) + 1 .. Len(Forward)}
    /\ lpc = "done" => freed = 1 .. created
    /\ kind = "LinkedList" =>
          ToSet(Forward) = (1 .. created) \ freed

\* lab 3: "non-decreasing order", and "AFTER the node(s) already in the list"
\* (27-29).
Abstract == INSTANCE AbstractList WITH
    ordered <- (kind = "lab3"),
    items <- LET nodes == IF lpc \in {"free", "done"} THEN Reverse(Backward) ELSE Forward
             IN  [i \in DOMAIN nodes |-> <<nodes[i], data[nodes[i]]>>]

\* Read along next, each list is at every step the sequence that the operations
\* should make of it; read along prev while it is freed.
ImplementsList == Abstract!Spec

\* "Each time the function runs, the pivot is placed into the correct index of
\* the array in sorted order" (quicksort.c 93-94): what is in none of the ranges
\* still to be sorted has a place of its rank, none of the elements is lost, and
\* what is printed is all of them in order.
PivotsInPlace ==
    program = "sort" /\ spc \in {"sort", "print", "returned", "crashed"} =>
        LET elements == Elements(command)
            places == DOMAIN elements
            Ranks(v) == Cardinality({k \in places : elements[k] < v})
                            .. Cardinality({k \in places : elements[k] <= v}) - 1
            Pending(k) == \/ k \in part.left .. part.right
                          \/ \E i \in DOMAIN calls : k \in calls[i][1] .. calls[i][2]
        IN
        /\ \A k \in places : ~ Pending(k) => k \in Ranks(array[k])
        /\ \A k \in places :
              Cardinality({j \in places : array[j] = elements[k]}) =
              Cardinality({j \in places : elements[j] = elements[k]})
        /\ spc \in {"returned", "crashed"} =>
              /\ Len(sprinted) = Cardinality(places)
              /\ \A k \in places : k \in Ranks(sprinted[k + 1])

\* What get_string returns as OK is a whole line of 1 .. sz - 1 characters as it
\* was typed, in order and once, and every such line is returned: what is drained
\* of a longer one, or of one that was cut by CTRL+D, is the rest of that one and
\* nothing else (util.h 92-103).
LinesIntact ==
    LET Begins(i) == i = 1 \/ typing[i - 1].enter \/ typing[i - 1].len = 0
        Whole(i) == Begins(i) /\ typing[i].enter /\ typing[i].len \in 1 .. sz - 1
    IN
    /\ \A k \in DOMAIN strings : strings[k].result = "OK" =>
          Whole(strings[k].id) /\ strings[k].len = typing[strings[k].id].len
    /\ \A j, k \in DOMAIN strings : j < k => strings[j].id < strings[k].id
    /\ input = <<>> /\ gpc = "read" =>
          \A i \in DOMAIN typing : Whole(i) =>
              \E k \in DOMAIN strings : strings[k].id = i /\ strings[k].result = "OK"

\* What nothing in the program can help: countprocess and pipes after a call
\* that failed; pipes when the output of ps, for which its reader waits before
\* it reads, does not fit into the pipe; a client whose message is empty, who
\* waits for the server that waits for it and serves nobody else.
Excused ==
    \/ program \in {"countprocess", "pipes"} /\ fails > 0
    \/ program = "pipes" /\ Len(table) > PipeCap
    \/ program = "echo" /\ \E c \in EchoClients : client[c].pc = "recv" /\ Sent(c) = <<>>

Endless ==
    \/ program \in Shells \cup {"worker", "list", "get_string"}
    \/ program = "signals" /\ signals = 0
Stopped == \E c \in Pids : procs[c].stopped

\* Every process of every program that should end does, so nobody waits for
\* the end of a file that somebody keeps open (spfind 64-68, countprocess 64-70)
\* or for a child that was reaped; so do the programs that report on a child that
\* is stopped (forkexec 42), unless it stays so; and minishell ends when "exit"
\* was typed, unless CTRL+C comes before it reads it.
Ends ==
    /\ (program \notin Waiters /\ ~ Endless) ~> (Done \/ Excused)
    /\ ([]<> ~ Stopped) => (program \in Waiters ~> Done)
    /\ (program \in Shells /\ \E i \in DOMAIN keys : script[keys[i]] = "exit")
           ~> (~ Running(Root) \/ signals > 0)

(***************************************************************************)
(* What comments and messages of three programs say of them, and they do   *)
(* not do.                                                                 *)
(***************************************************************************)

\* "it should stop sleeping and print how long it actually slept", also for all
\* of the time allowed (snooze.c 22-31); a second that CTRL+C cut short may count.
SnoozeSaysHowLong ==
    procs[Root].prog = "snooze" /\ procs[Root].how = "exited" =>
        LET slept == procs[Root].mem.slept
        IN  screen[1][2] \in slept .. IF signals = 0 THEN slept ELSE slept + 1

\* "If data is received ... Found server on port" (findserver.c 74-76).
FoundIfReceived == fpc = "found" => ports[answer] = "greets"

\* "At most BUFLEN characters can be sent, including '\\0'!" (client.c 34): what is
\* not refused for its length is sent, all of it.
AcceptedIsSent ==
    \A c \in EchoClients : client[c].pc = "recv" =>
        Len(Sent(c)) = Total(client[c].argv) + Len(client[c].argv) - 1

\* At least one of the three is as described.  A state without it, of all three
\* side by side, is one that none of the descriptions fits.
SomeAsDescribed == SnoozeSaysHowLong \/ FoundIfReceived \/ AcceptedIsSent
=============================================================================
