------------------------------- MODULE MCLabs -------------------------------
(***************************************************************************)
(* Small inputs of the lab programs for TLC.                               *)
(***************************************************************************)
EXTENDS Labs

rw_r__r__ == <<"r", "w", "-", "r", "-", "-", "r", "-", "-">>
rwxr_x___ == <<"r", "w", "x", "r", "-", "x", "-", "-", "-">>

File(in, mode, type, opens, stats) ==
    [in |-> in, mode |-> mode, type |-> type, opens |-> opens, stats |-> stats]

\* 4 has the set-user-ID bit, 5 cannot be opened, 7 cannot be examined.
EightFiles == 1 .. 8
SmallTree == <<
    File(0, 493, "dir", TRUE, TRUE), File(1, 420, "file", FALSE, TRUE),
    File(1, 488, "dir", TRUE, TRUE), File(1, 2468, "file", FALSE, TRUE),
    File(1, 420, "dir", FALSE, TRUE), File(3, 420, "file", FALSE, TRUE),
    File(3, 420, "file", FALSE, FALSE), File(5, 420, "file", FALSE, TRUE)>>

D(dir) == <<"d", dir>>
P(permissions) == <<"p", permissions>>
Searches == {
    <<D(1), P(rw_r__r__)>>, <<P(rw_r__r__), D(3)>>, <<D(3), D(1), <<":", 0>>, P(rwxr_x___)>>,
    <<D(2), P(rw_r__r__)>>, <<D(1)>>, <<P(rw_r__r__)>>, <<D(1), <<"h", 0>>>>, <<<<"?", 0>>>>,
    <<D(9), P(rw_r__r__)>>, <<D(1), P(<<"r", "w">>)>>, <<D(1), P([rw_r__r__ EXCEPT ![2] = "x"])>>}

SomePsLines == {<<>>, <<2>>, <<1, 2>>, <<3, 2, 1>>}
OneAndThree == {1, 3}

SomeScripts == {
    <<"cmd", "nohup", "exit">>, <<"nohup", "cmd", "exit">>, <<"bad", "", "cmd">>,
    <<"cd dir", "cmd", "cd">>, <<"cd bad", "cd a b", "exit">>, <<"cmd", "^D">>, <<"^D", "exit">>,
    <<"", "^D">>}

Digits(n) == Numeral("digits", n)
SomeArguments == {
    <<>>, <<Digits(1)>>, <<Digits(3)>>, <<Digits(0)>>, <<Digits(-1)>>, <<Digits(4)>>,
    <<Numeral("junk", 2)>>, <<Numeral("empty", 0)>>, <<Digits(1), Digits(1)>>}
SomeNaps == {<<>>, <<Digits(3)>>, <<Numeral("junk", 1)>>, <<Digits(-1)>>}

TwoWords == {1, 2}

SomePieces == {"10", "9", "-1.5", "x"}
Orders == [
    STRING |-> [p \in SomePieces |-> CASE p = "-1.5" -> 1 [] p = "10" -> 2 [] p = "9" -> 3 [] p = "x" -> 4],
    INT    |-> [p \in SomePieces |-> CASE p = "-1.5" -> -1 [] p = "10" -> 10 [] p = "9" -> 9 [] p = "x" -> 0],
    DOUBLE |-> [p \in SomePieces |-> CASE p = "-1.5" -> -15 [] p = "10" -> 100 [] p = "9" -> 90 [] p = "x" -> 0]]
FileOf(n) == [1 .. n -> {<<p>> : p \in SomePieces}]
Sort(argc, opts, lines) == [argc |-> argc, opts |-> opts, opened |-> TRUE, lines |-> lines]
SomeSorts ==
    {Sort(c[1], c[2], lines) : c \in {<<2, <<>>>>, <<3, <<"d", "i">>>>, <<3, <<"f">>>>},
                               lines \in UNION {FileOf(n) : n \in 0 .. 4}}
      \cup {Sort(2, <<>>, <<<<"x", "9">>, <<"10">>>>), Sort(2, <<"?">>, <<>>), Sort(1, <<>>, <<>>),
            [Sort(2, <<>>, <<>>) EXCEPT !.opened = FALSE]}

SomeLengths == {<<>>, <<0>>, <<1>>, <<2>>, <<3>>, <<4>>, <<1, 1>>, <<1, 0>>}

Chunk(len, enter) == [len |-> len, enter |-> enter]
SomeTyping == [1 .. 3 -> {Chunk(n, e) : n \in 0 .. 5, e \in BOOLEAN}]

(***************************************************************************)
(* snooze, an echo client with its server, and findserver, each started in *)
(* a terminal of its own: they share nothing.                              *)
(***************************************************************************)
OneNap == {<<Digits(3)>>}
OneLength == {<<3>>}            \* BUFLEN - 1

SideBySideInit ==
    /\ \E argv \in NapArguments : UnixInit(Started("snooze", "main", NapMem(argv)))
    /\ \E argvs \in [EchoClients -> EchoArguments] : EchoInit(argvs, "start")
    /\ \E services \in [1 .. LastPort -> Services] : FindInit(services, "socket")
    /\ program = "snooze" /\ table = <<>> /\ TtyInit(<<>>)
    /\ NoList /\ NoSort /\ NoLines

SideBySideNext ==
    /\ \/ /\ (WakeUp \/ \E p \in Pids : Running(p) /\ NapStep(p))
          /\ UNCHANGED <<echoVars, findVars>>
       \/ EchoStep /\ UNCHANGED <<unixVars, findVars>>
       \/ FindStep /\ UNCHANGED <<unixVars, echoVars>>
    /\ UNCHANGED <<table, ttyVars, listVars, sortVars, getVars, program>>

SideBySide == SideBySideInit /\ [][SideBySideNext]_vars
=============================================================================
