--------------------------- MODULE LabTypesProofs ---------------------------
(***************************************************************************)
(* The types of all that the lab programs keep: what the invariants of     *)
(* LabsProofs and ProcessProofs say of them together.                      *)
(***************************************************************************)
EXTENDS LabsProofs, ProcessProofs

LOCAL INSTANCE SequencesExt

\* What get_string returns besides a line has no length.
NoLineLeft ==
    \A k \in DOMAIN strings : strings[k].result # "OK" => strings[k].len = 0

LEMMA NoLineKeeps ==
    ASSUME GetInv, NoLineLeft, [GetStep]_getVars PROVE NoLineLeft'
<1>1. strings \in Seq(Result) BY DEF GetInv, GetTypes
<1>2. ASSUME NEW r, NEW i, NEW len, Returned(r, i, len), r # "OK" => len = 0
      PROVE  NoLineLeft'
    <2>1. PICK e : e = [result |-> r, id |-> i, len |-> len] OBVIOUS
    <2>2. e.result = r /\ e.len = len BY <2>1
    <2>3. strings' = Append(strings, e) BY <1>2, <2>1 DEF Returned
    <2>4. /\ Len(strings) \in Nat /\ DOMAIN strings = 1 .. Len(strings)
          /\ DOMAIN strings' = 1 .. Len(strings) + 1 /\ strings'[Len(strings) + 1] = e
          /\ \A k \in 1 .. Len(strings) : strings'[k] = strings[k]
        BY ONLY <1>1, <2>3
    <2>5. ASSUME NEW k \in DOMAIN strings', strings'[k].result # "OK" PROVE strings'[k].len = 0
        <3>1. CASE k = Len(strings) + 1 BY <1>2, <2>2, <2>4, <2>5, <3>1
        <3>2. CASE k # Len(strings) + 1
            <4>1. k \in 1 .. Len(strings) BY <2>4, <3>2
            <4> QED BY <2>4, <2>5, <4>1 DEF NoLineLeft
        <3> QED BY <3>1, <3>2
    <2> QED BY <2>5 DEF NoLineLeft
<1>3. CASE UNCHANGED strings BY <1>3 DEF NoLineLeft
<1>4. CASE ReadString BY <1>2, <1>3, <1>4 DEF ReadString
<1>5. CASE Drain BY <1>2, <1>3, <1>5 DEF Drain
<1>6. CASE UNCHANGED getVars BY <1>3, <1>6 DEF getVars
<1> QED BY <1>4, <1>5, <1>6 DEF GetStep

\* Only minishell executes lines that were typed.
RanOfNone == program # "minishell" => ran = <<>>

LEMMA RanOfNoneKeeps ==
    ASSUME ProcInv, RanOfNone, [Next]_vars PROVE RanOfNone'
<1> SUFFICES ASSUME program # "minishell" PROVE ran' = ran BY ProgramStays DEF RanOfNone
<1>1. \A p \in Pids : procs[p].prog # "minishell" BY KinIs DEF ProcInv, KinOK
<1>2. \A p \in Pids : ~ ForkCommand(p) BY <1>1 DEF ForkCommand, At
<1>3. CASE OtherSteps BY <1>3 DEF OtherSteps, ttyVars
<1>4. CASE User BY <1>4 DEF User, TypeLine, PressInterrupt, ttyVars
<1>5. CASE Kills BY <1>5 DEF Kills, ttyVars
<1>6. CASE Rings BY <1>6 DEF Rings, ttyVars
<1>7. ASSUME NEW p \in Pids, ProcessSteps(p) PROVE ran' = ran
    <2>1. CASE UNCHANGED ttyVars BY <2>1 DEF ttyVars
    <2>2. CASE MinishellStep(p)
        BY <1>2, <2>2 DEF MinishellStep, ReadLine, Dispatch, ExecCommand, AssignP, WaitCommand,
                          Handler, CommandEnds, Greet, ttyVars
    <2> QED BY <1>7, <2>1, <2>2 DEF ProcessSteps
<1>8. CASE UNCHANGED vars BY <1>8 DEF vars, ttyVars
<1> QED BY <1>3, <1>4, <1>5, <1>6, <1>7, <1>8 DEF Next

TableOK == table \in PsLines \cup {<<>>}

LEMMA TableKeeps == ASSUME TableOK, [Next]_vars PROVE TableOK'
BY DEF TableOK, Next, OtherSteps, User, Kills, Rings, ProcessSteps, vars

LEMMA TypesInitially == Init => NoLineLeft /\ RanOfNone /\ TableOK
<1> SUFFICES ASSUME Init PROVE NoLineLeft /\ RanOfNone /\ TableOK OBVIOUS
<1>1. TableOK BY DEF Init, TableOK, NoProcesses
<1>2. RanOfNone
    <2>1. ran = <<>> BY DEF Init, NoProcesses, TtyInit
    <2> QED BY <2>1 DEF RanOfNone
<1>3. NoLineLeft
    <2>1. strings = <<>> BY DEF Init, NoLines, GetInit
    <2>2. \A k \in DOMAIN <<>> : FALSE OBVIOUS
    <2> QED BY <2>1, <2>2 DEF NoLineLeft
<1> QED BY <1>1, <1>2, <1>3

LEMMA ListFits ==
    ASSUME ListInv
    PROVE  /\ head \in {NULL} \cup Nodes /\ tail \in {NULL} \cup Nodes
           /\ num_nodes \in 0 .. MaxNodes
           /\ created \in 0 .. MaxNodes /\ freed \subseteq 1 .. created
<1>1. PICK s, k : ListIs(s, k) BY DEF ListInv
<1>2. ListTypes /\ MaxNodes \in Nat /\ created \in Nat BY ListsAssumption DEF ListInv, ListTypes
<1>3. Distinct(s) /\ Len(s) \in Nat /\ Len(s) <= MaxNodes BY <1>1, DistinctLen DEF ListIs
<1>4. \A i \in 1 .. Len(s) : s[i] \in Nodes BY <1>3 DEF Distinct
<1>5. head \in {NULL} \cup Nodes
    <2>1. head = NodeAfter(s, 0) BY <1>1 DEF ListIs
    <2> QED BY <1>3, <1>4, <2>1 DEF NodeAfter
<1>6. tail \in {NULL} \cup Nodes
    <2>1. PICK e \in 0 .. Len(s) : e = ListEnd(s, k) BY <1>1, <1>3 DEF ListIs, ListEnd
    <2>2. tail = NodeBefore(s, e + 1) BY <1>1, <2>1 DEF ListIs
    <2>3. e + 1 > 1 => (e + 1) - 1 \in 1 .. Len(s) BY <1>3, <2>1
    <2> QED BY <1>4, <2>1, <2>2, <2>3 DEF NodeBefore
<1>7. num_nodes \in 0 .. MaxNodes
    <2>1. CASE lpc # "walk" BY <1>1, <1>2, <1>3, <2>1 DEF ListIs
    <2>2. CASE lpc = "walk"
        <3>1. kind = "lab3" /\ created > 0 /\ created <= MaxNodes BY <1>1, <1>2, <2>2 DEF ListIs, ListTypes
        <3>2. {s[i] : i \in 1 .. Len(s)} = 1 .. created - 1 BY <1>1, <2>2, <3>1 DEF ListIs, Members
        <3>3. ASSUME NEW i \in 1 .. Len(s) PROVE s[i] # created
            <4>1. s[i] \in {s[m] : m \in 1 .. Len(s)} OBVIOUS
            <4>2. s[i] \in 1 .. created - 1 BY <3>2, <4>1
            <4> QED BY <1>2, <4>2
        <3>4. created \in Nodes BY <1>2, <3>1 DEF Nodes
        <3>5. PICK t : t = Append(s, created) OBVIOUS
        <3>6. /\ t \in Seq(Nodes) /\ Len(t) = Len(s) + 1 /\ t[Len(s) + 1] = created
              /\ \A i \in 1 .. Len(s) : t[i] = s[i]
            <4>1. s \in Seq(Nodes) BY <1>3 DEF Distinct
            <4> QED BY ONLY <3>4, <3>5, <4>1
        <3>7. ASSUME NEW i \in 1 .. Len(t), NEW j \in 1 .. Len(t), t[i] = t[j] PROVE i = j
            <4>1. \A m \in 1 .. Len(t) : m = Len(s) + 1 \/ m \in 1 .. Len(s) BY <1>3, <3>6
            <4>2. CASE i \in 1 .. Len(s) /\ j \in 1 .. Len(s) BY <1>3, <3>6, <3>7, <4>2 DEF Distinct
            <4>3. CASE i = Len(s) + 1 /\ j \in 1 .. Len(s) BY <3>3, <3>6, <3>7, <4>3
            <4>4. CASE i \in 1 .. Len(s) /\ j = Len(s) + 1 BY <3>3, <3>6, <3>7, <4>4
            <4> QED BY <4>1, <4>2, <4>3, <4>4
        <3>8. Distinct(t) BY <3>6, <3>7 DEF Distinct
        <3>9. Len(t) <= MaxNodes BY <3>8, DistinctLen
        <3> QED BY <1>1, <1>2, <1>3, <2>2, <3>6, <3>9 DEF ListIs
    <2> QED BY <2>1, <2>2
<1> QED BY <1>2, <1>5, <1>6, <1>7 DEF ListTypes

LEMMA StringsFit ==
    ASSUME GetInv, NoLineLeft
    PROVE  /\ gpc \in {"read", "drain"}
           /\ strings \in Seq([result : {"OK", "NO_INPUT", "TOO_LONG"},
                               id : DOMAIN typing, len : 0 .. sz - 1])
<1>1. /\ strings \in Seq(Result) /\ typing \in Seq(Chunk) /\ Len(typing) \in Nat
      /\ ReadUp \in Nat /\ ReadUp <= Len(typing)
    BY DEF GetInv, GetTypes, ReadUp
<1>2. sz \in Nat \ {0} BY GetStringAssumption
<1>3. PICK R : R = [result : {"OK", "NO_INPUT", "TOO_LONG"}, id : DOMAIN typing, len : 0 .. sz - 1]
    OBVIOUS
<1>4. ASSUME NEW k \in 1 .. Len(strings) PROVE strings[k] \in R
    <2>1. PICK r : r = strings[k] OBVIOUS
    <2>2. r \in Result BY <1>1, <2>1
    <2>3. r.id \in 1 .. ReadUp /\ (r.result = "OK" => WholeLine(r.id) /\ r.len = typing[r.id].len)
        BY <2>1 DEF GetInv, StringsRight
    <2>4. r.id \in DOMAIN typing BY <1>1, <2>3
    <2>5. r.result # "OK" => r.len = 0
        <3>1. k \in DOMAIN strings BY <1>1
        <3> QED BY <2>1, <3>1 DEF NoLineLeft
    <2>6. r.len \in 0 .. sz - 1
        <3>1. CASE r.result = "OK"
            <4>1. r.len \in 1 .. sz - 1 BY <2>3, <3>1 DEF WholeLine
            <4> QED BY <1>2, <4>1
        <3>2. CASE r.result # "OK" BY <1>2, <2>5, <3>2
        <3> QED BY <3>1, <3>2
    <2> QED BY ONLY <1>3, <2>1, <2>2, <2>4, <2>6 DEF Result
<1>5. strings \in Seq(R)
    <2>1. Len(strings) \in Nat BY <1>1
    <2>2. strings = [k \in 1 .. Len(strings) |-> strings[k]] BY <1>1, SeqIs
    <2> QED BY ONLY <1>4, <2>1, <2>2
<1> QED BY <1>3, <1>5 DEF GetInv, GetTypes

\* Whatever is run, every process of the table, every line that was typed, and all
\* that the programs with data of their own keep, stay within their types.
THEOREM LabTypes == Spec => []TypeOK
<1>1. ProcInv /\ OnceInv /\ RanOfNone /\ TableOK /\ ListInv /\ SortInv /\ EchoInv
        /\ GetInv /\ NoLineLeft => TypeOK
    <2> SUFFICES ASSUME ProcInv, OnceInv, RanOfNone, TableOK, ListInv, SortInv, EchoInv, GetInv,
                        NoLineLeft
                 PROVE  TypeOK
        OBVIOUS
    <2>1. UnixTypeOK
        BY DEF ProcInv, UnixOK, ProcsOK, ProcOK, PipesOK, CountsOK, UnixTypeOK, States, News, Hows, Fds
    <2>2. keys \in Seq(1 .. pressed) BY DEF ProcInv, TtyOK
    <2>3. ran \in Seq(1 .. pressed)
        <3>1. CASE program = "minishell" BY <3>1 DEF OnceInv
        <3>2. CASE program # "minishell"
            <4>1. ran = <<>> BY <3>2 DEF RanOfNone
            <4> QED BY <4>1
        <3> QED BY <3>1, <3>2
    <2>4. ToSet(server.buf) \subseteq Nat /\ Len(server.buf) = BUFLEN
        <3>1. server.buf \in Seq(Nat) /\ Len(server.buf) = BUFLEN BY DEF EchoInv, EchoTypes, Bytes
        <3>2. \A i \in DOMAIN server.buf : server.buf[i] \in Nat BY <3>1
        <3> QED BY <3>1, <3>2 DEF ToSet
    <2>5. spc \in {"none", "options", "read", "sort", "print", "returned", "crashed", "failed"}
        BY DEF SortInv
    <2> QED BY <2>1, <2>2, <2>3, <2>4, <2>5, ListFits, StringsFit DEF TypeOK, TableOK
<1>2. Init => ListInv BY ListFirst, ListInitially
<1>3. Init => SortInv BY SortInitially DEF Init, NoSort
<1>4. Init => GetInv
    <2>1. \A t : GetInit(t) /\ t \in Typing \cup {<<>>} => GetInv
        <3>1. <<>> \in Seq(Chunk) OBVIOUS
        <3>2. Typing \subseteq Seq(Chunk) BY GetStringAssumption DEF Chunk
        <3> QED BY <3>1, <3>2, GetInitially
    <2> QED BY <2>1 DEF Init, NoLines
<1>5. ListInv /\ [Next]_vars => ListInv' BY OneSteps, ListStepKeeps
<1>6. SortInv /\ [Next]_vars => SortInv' BY OneSteps, SortStepKeeps
<1>7. GetInv /\ [Next]_vars => GetInv' BY OneSteps, GetStepKeeps
<1>8. GetInv /\ NoLineLeft /\ [Next]_vars => NoLineLeft' BY OneSteps, NoLineKeeps
<1>9. EchoInv /\ [Next]_vars => EchoInv' BY NetworkSteps, EchoStepOk, EchoStays
<1>10. Init => EchoInv BY NetworkInitially
<1>11. ProcInv /\ FgInv /\ [Next]_vars => FgInv' BY FgNext
<1>12. ProcInv /\ FgInv /\ OnceInv /\ [Next]_vars => OnceInv' BY OnceNext
<1>13. ProcInv /\ RanOfNone /\ [Next]_vars => RanOfNone' BY RanOfNoneKeeps
<1>14. TableOK /\ [Next]_vars => TableOK' BY TableKeeps
<1> QED
    BY <1>1, <1>2, <1>3, <1>4, <1>5, <1>6, <1>7, <1>8, <1>9, <1>10, <1>11, <1>12, <1>13, <1>14,
       TypesInitially, FgStart, OnceStart, ProcInvariant, PTL DEF Spec
=============================================================================
