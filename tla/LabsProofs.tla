----------------------------- MODULE LabsProofs -----------------------------
(***************************************************************************)
(* The lab programs that are one process with data of its own (the lists,  *)
(* quicksort and get_string), and those that meet in the network (the echo *)
(* pair, and findserver).                                                  *)
(***************************************************************************)
EXTENDS Labs, TLAPS, SumsProofs, FiniteSetTheorems

LOCAL INSTANCE SequencesExt

(***************************************************************************)
(* Sequences.                                                              *)
(***************************************************************************)
LEMMA ItemType ==
    ASSUME NEW S, NEW s \in Seq(S)
    PROVE  Len(s) \in Nat /\ DOMAIN s = 1 .. Len(s) /\ \A i \in 1 .. Len(s) : s[i] \in S
OBVIOUS

LEMMA SeqIs == ASSUME NEW S, NEW s \in Seq(S) PROVE s = [i \in 1 .. Len(s) |-> s[i]]
OBVIOUS

LEMMA TailIs ==
    ASSUME NEW S, NEW s \in Seq(S), s # <<>>
    PROVE  /\ Tail(s) \in Seq(S) /\ Len(Tail(s)) = Len(s) - 1 /\ Head(s) = s[1] /\ s[1] \in S
           /\ Len(s) \in Nat \ {0}
           /\ \A j \in 1 .. Len(s) - 1 : Tail(s)[j] = s[j + 1]
OBVIOUS

LEMMA AppendIs ==
    ASSUME NEW S, NEW s \in Seq(S), NEW e \in S
    PROVE  /\ Append(s, e) \in Seq(S) /\ Len(Append(s, e)) = Len(s) + 1
           /\ \A j \in 1 .. Len(s) : Append(s, e)[j] = s[j]
           /\ Append(s, e)[Len(s) + 1] = e
OBVIOUS

LEMMA ConsIs ==
    ASSUME NEW S, NEW s \in Seq(S), NEW e \in S
    PROVE  /\ <<e>> \o s \in Seq(S) /\ Len(<<e>> \o s) = Len(s) + 1
           /\ (<<e>> \o s)[1] = e
           /\ \A j \in 2 .. Len(s) + 1 : (<<e>> \o s)[j] = s[j - 1]
OBVIOUS

LEMMA ConcatIs ==
    ASSUME NEW S, NEW s \in Seq(S), NEW t \in Seq(S)
    PROVE  /\ s \o t \in Seq(S) /\ Len(s \o t) = Len(s) + Len(t)
           /\ \A i \in 1 .. Len(s) : (s \o t)[i] = s[i]
           /\ \A i \in Len(s) + 1 .. Len(s) + Len(t) : (s \o t)[i] = t[i - Len(s)]
OBVIOUS

\* Two windows put before the others.
LEMMA TwoMore ==
    ASSUME NEW V, NEW cs \in Seq(V), NEW v \in V, NEW w \in V
    PROVE  /\ <<v, w>> \o cs \in Seq(V) /\ Len(<<v, w>> \o cs) = Len(cs) + 2
           /\ (<<v, w>> \o cs)[1] = v /\ (<<v, w>> \o cs)[2] = w
           /\ \A i \in 3 .. Len(cs) + 2 : (<<v, w>> \o cs)[i] = cs[i - 2]
OBVIOUS

\* Each of the programs has variables of its own.
LEMMA OneSteps ==
    ASSUME [Next]_vars
    PROVE  [ListStep]_listVars /\ [SortFileStep]_sortVars /\ [GetStep]_getVars
<1>1. CASE OtherSteps
    BY <1>1 DEF OtherSteps
<1>2. CASE User BY <1>2 DEF User, otherVars
<1>3. CASE Kills BY <1>3 DEF Kills
<1>4. CASE Rings BY <1>4 DEF Rings, otherVars
<1>5. CASE \E p \in Pids : ProcessSteps(p) BY <1>5 DEF ProcessSteps, otherVars
<1>6. CASE UNCHANGED vars BY <1>6 DEF vars, otherVars
<1> QED BY <1>1, <1>2, <1>3, <1>4, <1>5, <1>6 DEF Next

(***************************************************************************)
(* get_string.                                                             *)
(***************************************************************************)
Chunk == [len : Nat, enter : BOOLEAN]
Unread == [id : Nat, len : Nat, enter : BOOLEAN]
Result == [result : {"OK", "NO_INPUT", "TOO_LONG"}, id : Nat, len : Nat]

\* How many of the chunks have been read to their end.
ReadUp == Len(typing) - Len(input)

BeginsLine(i) == i = 1 \/ typing[i - 1].enter \/ typing[i - 1].len = 0
WholeLine(i) == BeginsLine(i) /\ typing[i].enter /\ typing[i].len \in 1 .. sz - 1

GetTypes ==
    /\ typing \in Seq(Chunk)
    /\ input \in Seq(Unread)
    /\ Len(input) <= Len(typing)
    /\ gpc \in {"read", "drain"}
    /\ strings \in Seq(Result)

\* What is left to read are the last chunks; only the first of them may have
\* been read in part, and then the rest of it is to be drained.
InputLeft ==
    \A j \in 1 .. Len(input) :
        /\ input[j].id = ReadUp + j
        /\ input[j].enter = typing[ReadUp + j].enter
        /\ input[j].len <= typing[ReadUp + j].len
        /\ j > 1 \/ gpc = "read" => input[j].len = typing[ReadUp + j].len
        /\ input[j].len = 0 => typing[ReadUp + j].enter \/ typing[ReadUp + j].len = 0

\* Between two calls a line begins; while one is drained, what comes next is no
\* whole line of its own.
NextLine ==
    input # <<>> => IF gpc = "read" THEN BeginsLine(ReadUp + 1) ELSE ~ WholeLine(ReadUp + 1)

StringsRight ==
    /\ \A k \in 1 .. Len(strings) :
          /\ strings[k].id \in 1 .. ReadUp
          /\ strings[k].result = "OK" =>
                WholeLine(strings[k].id) /\ strings[k].len = typing[strings[k].id].len
    /\ \A j, k \in 1 .. Len(strings) : j < k => strings[j].id < strings[k].id
    /\ \A i \in 1 .. ReadUp : WholeLine(i) =>
          \E k \in 1 .. Len(strings) : strings[k].id = i /\ strings[k].result = "OK"

GetInv == GetTypes /\ InputLeft /\ NextLine /\ StringsRight

LEMMA GetInitially == ASSUME NEW t \in Seq(Chunk), GetInit(t) PROVE GetInv
<1>1. Len(t) \in Nat /\ DOMAIN t = 1 .. Len(t) /\ \A i \in 1 .. Len(t) : t[i] \in Chunk
    BY ItemType
<1> DEFINE unread(i) == [id |-> i, len |-> t[i].len, enter |-> t[i].enter]
<1>2. /\ typing = t /\ gpc = "read" /\ strings = <<>> /\ Len(strings) = 0
      /\ input = [i \in 1 .. Len(t) |-> unread(i)]
    BY <1>1 DEF GetInit
<1>3. \A i \in 1 .. Len(t) : unread(i) \in Unread BY <1>1 DEF Chunk, Unread
<1>4. input \in Seq(Unread) /\ Len(input) = Len(t)
    <2> HIDE DEF unread
    <2> QED BY <1>1, <1>2, <1>3
<1>5. ReadUp = 0 BY <1>1, <1>2, <1>4 DEF ReadUp
<1>6. GetTypes BY <1>1, <1>2, <1>4 DEF GetTypes
<1>7. InputLeft
    <2> SUFFICES ASSUME NEW j \in 1 .. Len(input)
                 PROVE  /\ input[j].id = j
                        /\ input[j].enter = typing[j].enter
                        /\ input[j].len = typing[j].len
                        /\ input[j].len \in Nat
        BY <1>5 DEF InputLeft
    <2>1. input[j] = unread(j) /\ t[j] \in Chunk BY <1>1, <1>2, <1>4
    <2> QED BY <1>2, <2>1 DEF Chunk
<1>8. NextLine BY <1>2, <1>5 DEF NextLine, BeginsLine
<1>9. StringsRight BY <1>1, <1>2, <1>5 DEF StringsRight
<1> QED BY <1>6, <1>7, <1>8, <1>9 DEF GetInv

\* What is left once n characters were read of the first chunk.
LEMMA RestIs ==
    ASSUME GetInv, input # <<>>, NEW n \in Nat, n <= Size(Head(input)),
           n < Size(Head(input)) => n <= Head(input).len
    PROVE  /\ Rest(n) \in Seq(Unread)
           /\ n = Size(Head(input)) =>
                 /\ Len(Rest(n)) = Len(input) - 1
                 /\ \A j \in 1 .. Len(Rest(n)) : Rest(n)[j] = input[j + 1]
           /\ n # Size(Head(input)) =>
                 /\ Len(Rest(n)) = Len(input)
                 /\ Rest(n)[1] = [input[1] EXCEPT !.len = @ - n]
                 /\ \A j \in 2 .. Len(Rest(n)) : Rest(n)[j] = input[j]
<1>1. input \in Seq(Unread) /\ Len(input) \in Nat /\ Head(input) = input[1] /\ input[1] \in Unread
    BY DEF GetInv, GetTypes
<1>2. \A j \in 1 .. Len(input) : input[j] \in Unread BY <1>1
<1>3. CASE n = Size(Head(input))
    <2>1. Rest(n) = Tail(input) BY <1>3 DEF Rest
    <2>2. Tail(input) \in Seq(Unread) /\ Len(Tail(input)) = Len(input) - 1
          /\ \A j \in 1 .. Len(input) - 1 : Tail(input)[j] = input[j + 1]
        BY <1>1, TailIs
    <2> QED BY <1>3, <2>1, <2>2
<1>4. CASE n # Size(Head(input))
    <2> DEFINE cut == [input[1] EXCEPT !.len = @ - n]
    <2>1. Rest(n) = <<cut>> \o Tail(input) BY <1>1, <1>4 DEF Rest
    <2>2. Size(Head(input)) \in Nat /\ n <= input[1].len BY <1>1, <1>4 DEF Size, Unread
    <2>3. cut \in Unread
        <3>1. PICK old : old = input[1] OBVIOUS
        <3>2. old \in Unread /\ n <= old.len BY <1>1, <2>2, <3>1
        <3>3. old.len - n \in Nat
            <4>1. old.len \in Nat BY <3>2 DEF Unread
            <4> QED BY <3>2, <4>1
        <3>4. cut = [old EXCEPT !.len = old.len - n] BY <3>1
        <3> QED BY ONLY <3>2, <3>3, <3>4 DEF Unread
    <2> HIDE DEF cut
    <2>4. Tail(input) \in Seq(Unread) /\ Len(Tail(input)) = Len(input) - 1
          /\ \A j \in 1 .. Len(input) - 1 : Tail(input)[j] = input[j + 1]
        BY <1>1, TailIs
    <2>5. /\ Rest(n) \in Seq(Unread) /\ Len(Rest(n)) = Len(Tail(input)) + 1
          /\ Rest(n)[1] = cut
          /\ \A j \in 2 .. Len(Tail(input)) + 1 : Rest(n)[j] = Tail(input)[j - 1]
        BY <2>1, <2>3, <2>4, ConsIs
    <2>6. ASSUME NEW j \in 2 .. Len(Rest(n)) PROVE Rest(n)[j] = input[j]
        <3>1. j - 1 \in 1 .. Len(input) - 1 /\ (j - 1) + 1 = j BY <1>1, <2>4, <2>5
        <3>2. Rest(n)[j] = Tail(input)[j - 1] BY <2>5
        <3>3. Tail(input)[j - 1] = input[(j - 1) + 1] BY <2>4, <3>1
        <3> QED BY <3>1, <3>2, <3>3
    <2>7. Len(Rest(n)) = Len(input) BY <1>1, <2>4, <2>5
    <2> QED BY <1>4, <2>5, <2>6, <2>7 DEF cut
<1> QED BY <1>3, <1>4

\* One more result of the call that has ended.
LEMMA ReturnedIs ==
    ASSUME GetInv, NEW result \in {"OK", "NO_INPUT", "TOO_LONG"}, NEW id \in Nat, NEW len \in Nat,
           Returned(result, id, len)
    PROVE  /\ strings' \in Seq(Result)
           /\ Len(strings') = Len(strings) + 1
           /\ \A k \in 1 .. Len(strings) : strings'[k] = strings[k]
           /\ strings'[Len(strings) + 1] = [result |-> result, id |-> id, len |-> len]
<1>1. strings \in Seq(Result) BY DEF GetInv, GetTypes
<1>2. [result |-> result, id |-> id, len |-> len] \in Result BY DEF Result
<1> DEFINE r == [result |-> result, id |-> id, len |-> len]
<1>3. strings' = Append(strings, r) BY DEF Returned
<1> HIDE DEF r
<1> QED BY <1>1, <1>2, <1>3, AppendIs DEF r

\* When the first chunk was read to its end.
LEMMA ReadPast ==
    ASSUME GetInv, input # <<>>, UNCHANGED typing, input' \in Seq(Unread),
           Len(input') = Len(input) - 1,
           \A j \in 1 .. Len(input') : input'[j] = input[j + 1],
           gpc' \in {"read", "drain"}
    PROVE  ReadUp' = ReadUp + 1 /\ InputLeft'
<1>1. Len(input) \in Nat /\ Len(typing) \in Nat /\ Len(input') \in Nat BY DEF GetInv, GetTypes
<1>2. ReadUp' = ReadUp + 1 BY <1>1 DEF ReadUp
<1>3. ASSUME NEW j \in 1 .. Len(input')
      PROVE  /\ input'[j].id = ReadUp' + j
             /\ input'[j].enter = typing'[ReadUp' + j].enter
             /\ input'[j].len = typing'[ReadUp' + j].len
    <2>1. j + 1 \in 1 .. Len(input) /\ input'[j] = input[j + 1] /\ j + 1 > 1 BY <1>1
    <2>2. ReadUp \in Int /\ ReadUp' + j = ReadUp + (j + 1) BY <1>1, <1>2 DEF ReadUp
    <2> QED BY <2>1, <2>2 DEF GetInv, InputLeft
<1>4. ASSUME NEW j \in 1 .. Len(input') PROVE input'[j].len \in Nat
    <2>1. input'[j] \in Unread BY ItemType
    <2> QED BY <2>1 DEF Unread
<1> QED BY <1>2, <1>3, <1>4 DEF InputLeft

\* One more chunk was read to its end, and the call it ended returned so.
LEMMA StringsMore ==
    ASSUME GetInv, UNCHANGED typing, ReadUp' = ReadUp + 1,
           NEW result \in {"OK", "NO_INPUT", "TOO_LONG"}, NEW len \in Nat,
           Returned(result, ReadUp + 1, len),
           result = "OK" <=> WholeLine(ReadUp + 1),
           result = "OK" => len = typing[ReadUp + 1].len
    PROVE  strings' \in Seq(Result) /\ StringsRight'
<1> DEFINE i == ReadUp + 1
           r == [result |-> result, id |-> i, len |-> len]
           N == Len(strings)
<1>1. ReadUp \in Nat /\ i \in Nat /\ N \in Nat BY DEF GetInv, GetTypes, ReadUp
<1>2. /\ strings' \in Seq(Result) /\ Len(strings') = N + 1
      /\ \A k \in 1 .. N : strings'[k] = strings[k]
      /\ strings'[N + 1] = r
    <2>1. i \in Nat /\ Returned(result, i, len) BY <1>1
    <2> HIDE DEF i
    <2> QED BY <2>1, ReturnedIs
<1>3. \A j : WholeLine(j)' <=> WholeLine(j) BY DEF WholeLine, BeginsLine
<1>4. r.id = i /\ r.result = result /\ r.len = len OBVIOUS
<1>5. StringsRight BY DEF GetInv
<1>6. WholeLine(i) <=> result = "OK" OBVIOUS
<1>7. result = "OK" => len = typing[i].len OBVIOUS
<1> HIDE DEF r, N
<1>8. ASSUME NEW k \in 1 .. N + 1
      PROVE  /\ strings'[k].id \in 1 .. i
             /\ strings'[k].result = "OK" =>
                   WholeLine(strings'[k].id) /\ strings'[k].len = typing[strings'[k].id].len
    <2>1. CASE k = N + 1 BY <1>1, <1>2, <1>4, <1>6, <1>7, <2>1
    <2>2. CASE k # N + 1
        <3>1. k \in 1 .. N /\ strings'[k] = strings[k] BY <1>1, <1>2, <2>2
        <3> QED BY <1>1, <1>5, <3>1 DEF StringsRight, N
    <2> QED BY <2>1, <2>2
<1>9. ASSUME NEW j \in 1 .. N + 1, NEW k \in 1 .. N + 1, j < k
      PROVE  strings'[j].id < strings'[k].id
    <2>1. j \in 1 .. N /\ strings'[j] = strings[j] BY <1>1, <1>2, <1>9
    <2>2. CASE k = N + 1
        <3>1. strings[j].id \in 1 .. ReadUp BY <1>5, <2>1 DEF StringsRight, N
        <3> QED BY <1>1, <1>2, <1>4, <2>1, <2>2, <3>1
    <2>3. CASE k # N + 1
        <3>1. k \in 1 .. N /\ strings'[k] = strings[k] BY <1>1, <1>2, <2>3
        <3> QED BY <1>5, <1>9, <2>1, <3>1 DEF StringsRight, N
    <2> QED BY <2>2, <2>3
<1>10. ASSUME NEW m \in 1 .. i, WholeLine(m)
       PROVE  \E k \in 1 .. N + 1 : strings'[k].id = m /\ strings'[k].result = "OK"
    <2>1. CASE m = i BY <1>1, <1>2, <1>4, <1>6, <1>10, <2>1
    <2>2. CASE m # i
        <3>1. m \in 1 .. ReadUp BY <1>1, <2>2
        <3>2. PICK k \in 1 .. N : strings[k].id = m /\ strings[k].result = "OK"
            BY <1>5, <1>10, <3>1 DEF StringsRight, N
        <3>3. k \in 1 .. N + 1 /\ strings'[k] = strings[k] BY <1>1, <1>2
        <3> QED BY <3>2, <3>3
    <2> QED BY <2>1, <2>2
<1> HIDE DEF i
<1>11. ReadUp' = i BY DEF i
<1> QED BY <1>2, <1>3, <1>8, <1>9, <1>10, <1>11 DEF StringsRight

\* One more chunk was read to its end, which is no whole line.
LEMMA StringsAsTheyWere ==
    ASSUME GetInv, UNCHANGED <<typing, strings>>,
           ReadUp' = ReadUp \/ (ReadUp' = ReadUp + 1 /\ ~ WholeLine(ReadUp + 1))
    PROVE  StringsRight'
<1>1. \A j : WholeLine(j)' <=> WholeLine(j) BY DEF WholeLine, BeginsLine
<1>2. ReadUp \in Nat BY DEF GetInv, GetTypes, ReadUp
<1>3. StringsRight BY DEF GetInv
<1>4. ASSUME NEW m \in 1 .. ReadUp', WholeLine(m) PROVE m \in 1 .. ReadUp
    BY <1>2, <1>4
<1>5. \A m \in 1 .. ReadUp : m \in 1 .. ReadUp' BY <1>2
<1> QED BY <1>1, <1>3, <1>4, <1>5 DEF StringsRight

LEMMA GetStepKeeps == ASSUME GetInv, [GetStep]_getVars PROVE GetInv'
<1> USE GetStringAssumption
<1>1. CASE UNCHANGED getVars
    BY <1>1 DEF getVars, GetInv, GetTypes, InputLeft, NextLine, StringsRight, ReadUp, WholeLine,
                BeginsLine
<1> DEFINE i == ReadUp + 1
           chunk == Head(input)
<1>2. ASSUME input # <<>>, UNCHANGED typing
      PROVE  /\ i \in 1 .. Len(typing) /\ ReadUp \in Nat
             /\ chunk = input[1] /\ chunk.id = i /\ chunk.len \in Nat /\ chunk.enter \in BOOLEAN
             /\ chunk.enter = typing[i].enter
             /\ typing[i].len \in Nat /\ chunk.len <= typing[i].len
             /\ gpc = "read" => chunk.len = typing[i].len
             /\ chunk.len = 0 => typing[i].enter \/ typing[i].len = 0
             /\ Size(chunk) \in Nat /\ Size(chunk) = chunk.len + IF chunk.enter THEN 1 ELSE 0
             /\ Len(input) \in Nat \ {0}
             /\ \A j : WholeLine(j)' <=> WholeLine(j)
             /\ \A j : BeginsLine(j)' <=> BeginsLine(j)
    <2>1. typing \in Seq(Chunk) /\ input \in Seq(Unread) /\ Len(input) <= Len(typing)
        BY DEF GetInv, GetTypes
    <2>2. chunk = input[1] /\ Len(input) \in Nat \ {0} /\ chunk \in Unread BY <1>2, <2>1, TailIs
    <2>3. 1 \in 1 .. Len(input) BY <2>2
    <2>4. Len(typing) \in Nat /\ \A m \in 1 .. Len(typing) : typing[m] \in Chunk BY <2>1, ItemType
    <2>5. i \in 1 .. Len(typing) /\ ReadUp \in Nat BY <2>1, <2>2, <2>4 DEF ReadUp
    <2>6. typing[i] \in Chunk BY <2>4, <2>5
    <2>7. chunk.id = i /\ chunk.enter = typing[i].enter /\ chunk.len <= typing[i].len
          /\ (gpc = "read" => chunk.len = typing[i].len)
          /\ (chunk.len = 0 => typing[i].enter \/ typing[i].len = 0)
        BY <2>2, <2>3 DEF GetInv, InputLeft
    <2> QED BY <1>2, <2>2, <2>5, <2>6, <2>7 DEF Chunk, Unread, Size, WholeLine, BeginsLine
<1>3. CASE ReadString
    <2> DEFINE n == ReadSize(Size(chunk))
    <2>1. /\ gpc = "read" /\ input # <<>> /\ UNCHANGED typing
          /\ input' = Rest(n)
          /\ IF n = 0 \/ (n = 1 /\ chunk.len = 0)
             THEN Returned("NO_INPUT", chunk.id, 0) /\ UNCHANGED gpc
             ELSE IF n = Size(chunk) /\ chunk.enter
             THEN Returned("OK", chunk.id, n - 1) /\ UNCHANGED gpc
             ELSE gpc' = "drain" /\ UNCHANGED strings
        BY <1>3 DEF ReadString
    <2>2. BeginsLine(i) BY <2>1 DEF GetInv, NextLine
    <2>3. /\ n \in Nat /\ n <= Size(chunk)
          /\ n = (IF Size(chunk) <= sz THEN Size(chunk) ELSE sz)
          /\ n < Size(chunk) => n <= chunk.len
        BY <1>2, <2>1 DEF ReadSize
    <2>4. gpc' \in {"read", "drain"} /\ (gpc' # "drain" => gpc' = "read") BY <2>1
    <2> HIDE DEF n, i, chunk
    <2>5. CASE n = Size(chunk)
        <3>1. /\ input' \in Seq(Unread) /\ Len(input') = Len(input) - 1
              /\ \A j \in 1 .. Len(input') : input'[j] = input[j + 1]
            BY <2>1, <2>3, <2>5, RestIs DEF chunk
        <3>2. ReadUp' = ReadUp + 1 /\ InputLeft' BY <2>1, <2>4, <3>1, ReadPast
        <3>3. CASE n = 0 \/ (n = 1 /\ chunk.len = 0)
            <4>1. Returned("NO_INPUT", i, 0) /\ gpc' = "read" BY <1>2, <2>1, <3>3
            <4>2. typing[i].len = 0 BY <1>2, <2>1, <2>5, <3>3
            <4>3. ~ WholeLine(i) BY <4>2 DEF WholeLine
            <4>4. strings' \in Seq(Result) /\ StringsRight'
                BY <2>1, <3>2, <4>1, <4>3, StringsMore DEF i
            <4>5. BeginsLine(i + 1) BY <1>2, <2>1, <4>2 DEF BeginsLine
            <4>6. NextLine' BY <1>2, <2>1, <3>2, <4>1, <4>5 DEF NextLine, i
            <4> QED BY <1>2, <2>1, <2>4, <3>1, <3>2, <4>4, <4>6 DEF GetInv, GetTypes
        <3>4. CASE ~ (n = 0 \/ (n = 1 /\ chunk.len = 0)) /\ chunk.enter
            <4>1. Returned("OK", i, n - 1) /\ gpc' = "read" BY <1>2, <2>1, <2>5, <3>4
            <4>2. n - 1 = typing[i].len /\ n - 1 \in 1 .. sz - 1 /\ typing[i].enter
                <5>1. sz \in Nat \ {0} OBVIOUS
                <5>2. Size(chunk) = chunk.len + 1 /\ chunk.len \in Nat /\ chunk.len = typing[i].len
                      /\ typing[i].enter
                    BY <1>2, <2>1, <3>4
                <5>3. n <= sz BY <1>2, <2>1, <2>3, <2>5
                <5> QED BY <2>5, <3>4, <5>1, <5>2, <5>3
            <4>3. WholeLine(i) BY <2>2, <4>2 DEF WholeLine
            <4>4. n - 1 \in Nat BY <4>2
            <4>5. strings' \in Seq(Result) /\ StringsRight'
                <5> DEFINE len == n - 1
                <5>1. len \in Nat /\ len = typing[i].len /\ Returned("OK", i, len) BY <4>1, <4>2, <4>4
                <5> HIDE DEF len
                <5> QED BY <2>1, <3>2, <4>3, <5>1, StringsMore DEF i
            <4>6. BeginsLine(i + 1) BY <1>2, <2>1, <4>2 DEF BeginsLine
            <4>7. NextLine' BY <1>2, <2>1, <3>2, <4>1, <4>6 DEF NextLine, i
            <4> QED BY <1>2, <2>1, <2>4, <3>1, <3>2, <4>5, <4>7 DEF GetInv, GetTypes
        <3>5. CASE ~ (n = 0 \/ (n = 1 /\ chunk.len = 0)) /\ ~ chunk.enter
            <4>1. gpc' = "drain" /\ UNCHANGED strings BY <2>1, <3>5
            <4>2. ~ typing[i].enter /\ typing[i].len # 0 BY <1>2, <2>1, <2>5, <3>5
            <4>3. ~ WholeLine(i) BY <4>2 DEF WholeLine
            <4>4. StringsRight' BY <2>1, <3>2, <4>1, <4>3, StringsAsTheyWere DEF i
            <4>5. ~ WholeLine(i + 1) BY <1>2, <2>1, <4>2 DEF WholeLine, BeginsLine
            <4>6. NextLine' BY <1>2, <2>1, <3>2, <4>1, <4>5 DEF NextLine, i
            <4> QED BY <1>2, <2>1, <2>4, <3>1, <3>2, <4>1, <4>4, <4>6 DEF GetInv, GetTypes
        <3> QED BY <3>3, <3>4, <3>5
    <2>6. CASE n # Size(chunk)
        <3>1. /\ input' \in Seq(Unread) /\ Len(input') = Len(input)
              /\ input'[1] = [input[1] EXCEPT !.len = @ - n]
              /\ \A j \in 2 .. Len(input') : input'[j] = input[j]
            BY <2>1, <2>3, <2>6, RestIs DEF chunk
        <3>2. ReadUp' = ReadUp BY <2>1, <3>1 DEF ReadUp
        <3>3. n = sz /\ n < Size(chunk) /\ chunk.len >= 1 /\ n >= 1 /\ n <= chunk.len
            BY <1>2, <2>1, <2>3, <2>6
        <3>4. gpc' = "drain" /\ UNCHANGED strings BY <2>1, <2>6, <3>3
        <3>5. ~ WholeLine(i) BY <1>2, <2>1, <3>3 DEF WholeLine
        <3>6. StringsRight' BY <2>1, <3>2, <3>4, StringsAsTheyWere
        <3>7. NextLine' BY <1>2, <2>1, <3>2, <3>4, <3>5 DEF NextLine, i
        <3>8. InputLeft'
            <4> SUFFICES ASSUME NEW j \in 1 .. Len(input')
                         PROVE  /\ input'[j].id = ReadUp + j
                                /\ input'[j].enter = typing[ReadUp + j].enter
                                /\ input'[j].len <= typing[ReadUp + j].len
                                /\ j > 1 => input'[j].len = typing[ReadUp + j].len
                                /\ input'[j].len = 0 =>
                                      typing[ReadUp + j].enter \/ typing[ReadUp + j].len = 0
                BY <2>1, <3>2, <3>4 DEF InputLeft
            <4>1. CASE j > 1
                <5>1. j \in 1 .. Len(input) /\ input'[j] = input[j] BY <3>1, <4>1
                <5> QED BY <4>1, <5>1 DEF GetInv, InputLeft
            <4>2. CASE ~ (j > 1)
                <5>1. j = 1 /\ input'[1] = [input[1] EXCEPT !.len = @ - n] BY <3>1, <4>2
                <5>2. input[1] \in Unread /\ chunk = input[1]
                    BY <1>2, <2>1, ItemType DEF GetInv, GetTypes
                <5>3. /\ input'[1].id = chunk.id /\ input'[1].enter = chunk.enter
                      /\ input'[1].len = chunk.len - n
                    BY <5>1, <5>2 DEF Unread
                <5>4. chunk.enter \/ Size(chunk) = chunk.len BY <1>2, <2>1
                <5> QED BY <1>2, <2>1, <3>3, <5>1, <5>3, <5>4 DEF i
            <4> QED BY <4>1, <4>2
        <3> QED BY <1>2, <2>1, <2>4, <3>1, <3>4, <3>6, <3>7, <3>8 DEF GetInv, GetTypes
    <2> QED BY <2>5, <2>6
<1>4. CASE Drain
    <2>1. /\ gpc = "drain" /\ input # <<>> /\ UNCHANGED typing
          /\ input' = Tail(input)
          /\ gpc' = (IF chunk.enter \/ chunk.len = 0 THEN "read" ELSE "drain")
          /\ IF gpc' = "read" THEN Returned("TOO_LONG", chunk.id, 0) ELSE UNCHANGED strings
        BY <1>4 DEF Drain, AfterDrain
    <2>2. ~ WholeLine(i) BY <2>1 DEF GetInv, NextLine
    <2>3. /\ input' \in Seq(Unread) /\ Len(input') = Len(input) - 1
          /\ \A j \in 1 .. Len(input') : input'[j] = input[j + 1]
        BY <2>1, TailIs DEF GetInv, GetTypes
    <2>4. gpc' \in {"read", "drain"} BY <2>1
    <2>5. ReadUp' = ReadUp + 1 /\ InputLeft' BY <2>1, <2>3, <2>4, ReadPast
    <2> HIDE DEF i, chunk
    <2>6. CASE chunk.enter \/ chunk.len = 0
        <3>1. Returned("TOO_LONG", i, 0) /\ gpc' = "read" BY <1>2, <2>1, <2>6
        <3>2. strings' \in Seq(Result) /\ StringsRight'
            BY <2>1, <2>2, <2>5, <3>1, StringsMore DEF i
        <3>3. BeginsLine(i + 1) BY <1>2, <2>1, <2>6 DEF BeginsLine
        <3>4. NextLine' BY <1>2, <2>1, <2>5, <3>1, <3>3 DEF NextLine, i
        <3> QED BY <1>2, <2>1, <2>3, <2>4, <2>5, <3>2, <3>4 DEF GetInv, GetTypes
    <2>7. CASE ~ (chunk.enter \/ chunk.len = 0)
        <3>1. gpc' = "drain" /\ UNCHANGED strings BY <2>1, <2>7
        <3>2. StringsRight' BY <2>1, <2>2, <2>5, <3>1, StringsAsTheyWere DEF i
        <3>3. ~ WholeLine(i + 1)
            <4>1. i + 1 # 1 /\ (i + 1) - 1 = i BY <1>2, <2>1
            <4>2. ~ BeginsLine(i + 1) BY <1>2, <2>1, <2>7, <4>1 DEF BeginsLine
            <4> QED BY ONLY <4>2 DEF WholeLine
        <3>4. NextLine' BY <1>2, <2>1, <2>5, <3>1, <3>3 DEF NextLine, i
        <3> QED BY <1>2, <2>1, <2>3, <2>4, <2>5, <3>1, <3>2, <3>4 DEF GetInv, GetTypes
    <2> QED BY <2>6, <2>7
<1> QED BY <1>1, <1>3, <1>4 DEF GetStep

\* However the user's lines are cut by the terminal, CTRL+D and the size of the
\* buffer, get_string returns as OK every whole line that fits, once, in order and
\* unchanged, and nothing else (util.h 81-112).
THEOREM LinesReturned == Spec => []LinesIntact
<1>1. Init => GetInv
    <2>1. \A t : GetInit(t) /\ t \in Typing \cup {<<>>} => GetInv
        <3>1. <<>> \in Seq(Chunk) OBVIOUS
        <3>2. Typing \subseteq Seq(Chunk) BY GetStringAssumption DEF Chunk
        <3> QED BY <3>1, <3>2, GetInitially
    <2> QED BY <2>1 DEF Init, NoLines
<1>2. GetInv /\ [Next]_vars => GetInv' BY OneSteps, GetStepKeeps
<1>3. GetInv => LinesIntact
    <2> SUFFICES ASSUME GetInv PROVE LinesIntact OBVIOUS
    <2>1. typing \in Seq(Chunk) /\ strings \in Seq(Result) /\ StringsRight
        BY DEF GetInv, GetTypes
    <2>2. DOMAIN typing = 1 .. Len(typing) /\ DOMAIN strings = 1 .. Len(strings)
          /\ Len(typing) \in Nat
        BY <2>1, ItemType
    <2>3. input = <<>> => ReadUp = Len(typing) BY <2>2 DEF ReadUp
    <2> QED BY <2>1, <2>2, <2>3 DEF LinesIntact, StringsRight, WholeLine, BeginsLine
<1> QED BY <1>1, <1>2, <1>3, PTL DEF Spec

(***************************************************************************)
(* The linked lists.                                                       *)
(***************************************************************************)

\* The nodes that are reached from first are those of s.
Follows(s, first, link) ==
    /\ s \in Seq(Nodes) /\ Len(s) <= MaxNodes
    /\ first = IF s = <<>> THEN NULL ELSE s[1]
    /\ \A i \in 1 .. Len(s) : link[s[i]] = IF i = Len(s) THEN NULL ELSE s[i + 1]

\* Whatever follows the pointers reads just these nodes.
LEMMA ChainIs ==
    ASSUME NEW s, NEW first, NEW link, Follows(s, first, link)
    PROVE  Chain(first, link) = s
<1> DEFINE step(f, i) == IF i = 0 THEN first
                         ELSE IF f[i - 1] = NULL THEN NULL ELSE link[f[i - 1]]
           f0 == [i \in 0 .. MaxNodes |-> IF i < Len(s) THEN s[i + 1] ELSE NULL]
<1>1. /\ MaxNodes \in Nat /\ Len(s) \in Nat /\ Len(s) <= MaxNodes
      /\ \A i \in 1 .. Len(s) : s[i] # NULL
      /\ s = <<>> <=> Len(s) = 0
      /\ s = [i \in 1 .. Len(s) |-> s[i]]
    BY ListsAssumption DEF Follows, Nodes, NULL
<1>2. ASSUME NEW i \in 0 .. MaxNodes PROVE f0[i] = step(f0, i)
    <2>1. CASE i = 0 BY <1>1, <2>1 DEF Follows
    <2>2. CASE i # 0
        <3>1. i - 1 \in 0 .. MaxNodes /\ (i - 1) + 1 = i BY <1>1, <2>2
        <3>2. f0[i - 1] = IF i - 1 < Len(s) THEN s[i] ELSE NULL BY <3>1
        <3>3. f0[i] = IF i < Len(s) THEN s[i + 1] ELSE NULL OBVIOUS
        <3>4. CASE i - 1 < Len(s)
            <4>1. i \in 1 .. Len(s) /\ s[i] # NULL BY <1>1, <2>2, <3>4
            <4>2. link[s[i]] = IF i = Len(s) THEN NULL ELSE s[i + 1] BY <4>1 DEF Follows
            <4> HIDE DEF f0
            <4> QED BY <1>1, <2>2, <3>2, <3>3, <3>4, <4>1, <4>2
        <3>5. CASE ~ (i - 1 < Len(s))
            <4>1. ~ (i < Len(s)) BY <1>1, <3>5
            <4> HIDE DEF f0
            <4> QED BY <2>2, <3>2, <3>3, <3>5, <4>1
        <3> QED BY <3>4, <3>5
    <2> QED BY <2>1, <2>2
<1>3. f0 = [i \in 0 .. MaxNodes |-> step(f0, i)]
    <2> HIDE DEF step
    <2> QED BY <1>2
<1> DEFINE reads == CHOOSE f : f = [i \in 0 .. MaxNodes |-> step(f, i)]
<1>4. reads = [i \in 0 .. MaxNodes |-> step(reads, i)]
    <2> HIDE DEF f0, step
    <2> QED BY <1>3
<1> HIDE DEF reads, f0
<1>5. \A i \in 0 .. MaxNodes : reads[i] = f0[i]
    <2> DEFINE T == {i \in Nat : i <= MaxNodes => reads[i] = f0[i]}
    <2>1. 0 \in T BY <1>1, <1>2, <1>4
    <2>2. ASSUME NEW i \in T PROVE i + 1 \in T
        <3> SUFFICES ASSUME i + 1 <= MaxNodes PROVE reads[i + 1] = f0[i + 1] OBVIOUS
        <3>1. i + 1 \in 0 .. MaxNodes /\ i + 1 # 0 /\ (i + 1) - 1 = i /\ reads[i] = f0[i] BY <1>1
        <3>2. reads[i + 1] = step(reads, i + 1) /\ f0[i + 1] = step(f0, i + 1) BY <1>2, <1>4, <3>1
        <3> QED BY <3>1, <3>2
    <2> HIDE DEF T
    <2>3. T = Nat BY <2>1, <2>2, Induction DEF T
    <2> QED BY <1>1, <2>3 DEF T
<1>6. \A i \in 0 .. MaxNodes : reads[i] = IF i < Len(s) THEN s[i + 1] ELSE NULL BY <1>5 DEF f0
<1> DEFINE Stops(i) == /\ \A j \in 0 .. i - 1 : reads[j] # NULL
                       /\ i = MaxNodes + 1 \/ reads[i] = NULL
           size == CHOOSE i \in 0 .. MaxNodes + 1 : Stops(i)
<1>7. Chain(first, link) = [i \in 1 .. size |-> reads[i - 1]] BY DEF Chain, reads
<1>8. Stops(Len(s))
    <2>1. \A j \in 0 .. Len(s) - 1 : reads[j] = s[j + 1] /\ j + 1 \in 1 .. Len(s) BY <1>1, <1>6
    <2>2. reads[Len(s)] = NULL BY <1>1, <1>6
    <2> QED BY <1>1, <2>1, <2>2
<1>9. ASSUME NEW i \in 0 .. MaxNodes + 1, Stops(i) PROVE i = Len(s)
    <2>1. ~ (i < Len(s))
        <3> SUFFICES ASSUME i < Len(s) PROVE FALSE OBVIOUS
        <3>1. reads[i] = s[i + 1] /\ i + 1 \in 1 .. Len(s) BY <1>1, <1>6
        <3> QED BY <1>1, <1>9, <3>1
    <2>2. ~ (i > Len(s))
        <3> SUFFICES ASSUME i > Len(s) PROVE FALSE OBVIOUS
        <3>1. Len(s) \in 0 .. i - 1 /\ Len(s) \in 0 .. MaxNodes BY <1>1
        <3>2. reads[Len(s)] = NULL BY <1>6, <3>1
        <3> QED BY <1>9, <3>1, <3>2
    <2> QED BY <1>1, <2>1, <2>2
<1>10. size = Len(s)
    <2>1. Len(s) \in 0 .. MaxNodes + 1 BY <1>1
    <2> HIDE DEF Stops
    <2> QED BY <1>8, <1>9, <2>1
<1> HIDE DEF size
<1>11. \A i \in 1 .. Len(s) : reads[i - 1] = s[i]
    <2> SUFFICES ASSUME NEW i \in 1 .. Len(s) PROVE reads[i - 1] = s[i] OBVIOUS
    <2>1. i - 1 \in 0 .. MaxNodes /\ i - 1 < Len(s) /\ (i - 1) + 1 = i BY <1>1
    <2> QED BY <1>6, <2>1
<1> QED BY <1>1, <1>7, <1>10, <1>11

\* Distinct nodes, and how they are linked: those next to the i-th.
Distinct(s) == s \in Seq(Nodes) /\ \A i, j \in 1 .. Len(s) : s[i] = s[j] => i = j
NodeBefore(s, i) == IF i <= 1 THEN NULL ELSE s[i - 1]
NodeAfter(s, i) == IF i >= Len(s) THEN NULL ELSE s[i + 1]
Linked(s, nx, pv) ==
    \A i \in 1 .. Len(s) : nx[s[i]] = NodeAfter(s, i) /\ pv[s[i]] = NodeBefore(s, i)

LEMMA DistinctLen == ASSUME NEW s, Distinct(s) PROVE Len(s) \in Nat /\ Len(s) <= MaxNodes
<1>1. Len(s) \in Nat /\ MaxNodes \in Nat BY ListsAssumption DEF Distinct
<1>2. s \in [1 .. Len(s) -> Nodes] BY ItemType DEF Distinct
<1>3. IsFiniteSet(Nodes) /\ Cardinality(Nodes) = MaxNodes
    BY <1>1, FS_Interval DEF Nodes
<1>4. IsFiniteSet(1 .. Len(s)) /\ Cardinality(1 .. Len(s)) = Len(s)
    <2>1. PICK n \in Nat : n = Len(s) BY <1>1
    <2>2. IsFiniteSet(1 .. n) /\ Cardinality(1 .. n) = n BY ONLY FS_Interval, n \in Nat
    <2> QED BY ONLY <2>1, <2>2
<1>5. ~ (Cardinality(Nodes) < Cardinality(1 .. Len(s)))
    <2>1. \A x, y \in 1 .. Len(s) : s[x] = s[y] => x = y BY DEF Distinct
    <2> QED BY <1>2, <1>3, <1>4, <2>1, FS_PigeonHole
<1> QED BY <1>1, <1>3, <1>4, <1>5

\* The first e nodes of s, read backwards.
LEMMA ReverseIs ==
    ASSUME NEW s \in Seq(Nodes), NEW e \in 0 .. Len(s)
    PROVE  LET r == Reverse(SubSeq(s, 1, e))
           IN  /\ r \in Seq(Nodes) /\ Len(r) = e
               /\ \A i \in 1 .. e : r[i] = s[e - i + 1]
               /\ Reverse(r) = SubSeq(s, 1, e)
<1> DEFINE u == SubSeq(s, 1, e)
           r == Reverse(u)
<1>1. Len(s) \in Nat /\ e \in Nat OBVIOUS
<1>2. /\ u \in Seq(Nodes) /\ Len(u) = e /\ u = [i \in 1 .. e |-> u[i]]
      /\ \A i \in 1 .. e : u[i] = s[i] /\ u[i] \in Nodes
    <2>1. /\ u \in Seq(Nodes) /\ Len(u) = e /\ u = [i \in 1 .. e |-> u[i]]
          /\ \A i \in 1 .. e : u[i] = s[i]
        BY <1>1
    <2> QED BY <2>1, ItemType
<1> HIDE DEF u
<1>3. r = [i \in 1 .. e |-> u[e - i + 1]] BY <1>2 DEF Reverse
<1>4. ASSUME NEW i \in 1 .. e
      PROVE  /\ e - i + 1 \in 1 .. e
             /\ u[e - i + 1] \in Nodes /\ u[e - i + 1] = s[e - i + 1]
    <2>1. e - i + 1 \in 1 .. e BY <1>1
    <2> QED BY <1>2, <2>1
<1>5. r \in Seq(Nodes) /\ Len(r) = e /\ \A i \in 1 .. e : r[i] = s[e - i + 1]
    <2>1. r \in [1 .. e -> Nodes] BY <1>3, <1>4
    <2>2. \A i \in 1 .. e : r[i] = u[e - i + 1] BY <1>3
    <2>3. \A i \in 1 .. e : r[i] = s[e - i + 1] BY <1>4, <2>2
    <2> HIDE DEF r
    <2>4. r \in Seq(Nodes) /\ Len(r) = e BY <1>1, <2>1
    <2> QED BY <2>3, <2>4
<1> HIDE DEF r
<1>6. Reverse(r) = [i \in 1 .. e |-> r[e - i + 1]] BY <1>5 DEF Reverse
<1>7. ASSUME NEW i \in 1 .. e PROVE r[e - i + 1] = u[i]
    <2>1. e - i + 1 \in 1 .. e /\ e - (e - i + 1) + 1 = i BY <1>1
    <2>2. r[e - i + 1] = u[e - (e - i + 1) + 1] BY <1>3, <2>1
    <2> QED BY <2>1, <2>2
<1>8. Reverse(r) = [i \in 1 .. e |-> u[i]] BY <1>6, <1>7
<1>9. Reverse(r) = u BY <1>2, <1>8
<1> QED BY <1>5, <1>9 DEF r, u

\* Both readings of linked nodes, when tail is the e-th of them.
LEMMA ReadingsAre ==
    ASSUME NEW s, NEW nx, NEW pv, NEW e \in 0 .. Len(s), Distinct(s), Linked(s, nx, pv)
    PROVE  /\ Chain(NodeAfter(s, 0), nx) = s
           /\ Chain(NodeBefore(s, e + 1), pv) = Reverse(SubSeq(s, 1, e))
<1>1. Len(s) \in Nat /\ Len(s) <= MaxNodes /\ MaxNodes \in Nat /\ s \in Seq(Nodes)
    BY DistinctLen, ListsAssumption DEF Distinct
<1>2. Follows(s, NodeAfter(s, 0), nx) BY <1>1 DEF Follows, Linked, NodeAfter
<1> DEFINE r == Reverse(SubSeq(s, 1, e))
<1>3. r \in Seq(Nodes) /\ Len(r) = e /\ \A i \in 1 .. e : r[i] = s[e - i + 1]
    BY <1>1, ReverseIs
<1> HIDE DEF r
<1>4. e \in Nat /\ e <= MaxNodes /\ (r = <<>> <=> e = 0) BY <1>1, <1>3
<1>5. NodeBefore(s, e + 1) = IF r = <<>> THEN NULL ELSE r[1]
    <2>1. CASE e = 0 BY <1>4, <2>1 DEF NodeBefore
    <2>2. CASE e # 0
        <3>1. r[1] = s[e] /\ (e + 1) - 1 = e /\ ~ (e + 1 <= 1) BY <1>3, <1>4, <2>2
        <3> QED BY <1>4, <2>2, <3>1 DEF NodeBefore
    <2> QED BY <2>1, <2>2
<1>6. ASSUME NEW i \in 1 .. e PROVE pv[r[i]] = IF i = Len(r) THEN NULL ELSE r[i + 1]
    <2>1. e - i + 1 \in 1 .. Len(s) /\ r[i] = s[e - i + 1] BY <1>1, <1>3, <1>4
    <2>2. pv[r[i]] = NodeBefore(s, e - i + 1) BY <2>1 DEF Linked
    <2>3. CASE i = e BY <1>3, <2>2, <2>3 DEF NodeBefore
    <2>4. CASE i # e
        <3>1. i + 1 \in 1 .. e /\ e - (i + 1) + 1 = (e - i + 1) - 1 /\ ~ (e - i + 1 <= 1)
            BY <1>4, <2>4
        <3>2. r[i + 1] = s[(e - i + 1) - 1] BY <1>3, <3>1
        <3> QED BY <1>3, <2>2, <2>4, <3>1, <3>2 DEF NodeBefore
    <2> QED BY <2>3, <2>4
<1>7. Follows(r, NodeBefore(s, e + 1), pv) BY <1>3, <1>4, <1>5, <1>6 DEF Follows
<1> QED BY <1>2, <1>7, ChainIs DEF r

PutBehind(s, k, n) ==
    [i \in 1 .. Len(s) + 1 |-> IF i <= k THEN s[i] ELSE IF i = k + 1 THEN n ELSE s[i - 1]]

\* t is s with a new node linked in behind the first k.
PutIn(s, k, n, t) ==
    /\ Distinct(s) /\ k \in 0 .. Len(s)
    /\ n \in Nodes /\ \A i \in 1 .. Len(s) : s[i] # n
    /\ t = PutBehind(s, k, n)
Relinked(s, k, n, nx, pv, nx2, pv2) ==
    \A m \in Nodes : /\ nx2[m] = IF m = n THEN NodeAfter(s, k)
                                  ELSE IF m = NodeBefore(s, k + 1) THEN n ELSE nx[m]
                     /\ pv2[m] = IF m = n THEN NodeBefore(s, k + 1)
                                  ELSE IF m = NodeAfter(s, k) THEN n ELSE pv[m]

\* One node more, and all of them distinct.
InsertedOk(s, n, t) ==
    /\ Distinct(t) /\ Len(t) = Len(s) + 1
    /\ {t[i] : i \in 1 .. Len(t)} = {s[i] : i \in 1 .. Len(s)} \cup {n}

LEMMA InsertedIs ==
    ASSUME NEW s, NEW k, NEW n, NEW t, PutIn(s, k, n, t)
    PROVE  InsertedOk(s, n, t)
<1> DEFINE L == Len(s)
<1>0. /\ Distinct(s) /\ k \in 0 .. L /\ n \in Nodes /\ \A i \in 1 .. L : s[i] # n
      /\ t = PutBehind(s, k, n)
    BY DEF PutIn
<1>1. L \in Nat /\ k \in Nat /\ k <= L /\ \A i \in 1 .. L : s[i] \in Nodes BY <1>0 DEF Distinct
<1>2. t = [i \in 1 .. L + 1 |-> IF i <= k THEN s[i] ELSE IF i = k + 1 THEN n ELSE s[i - 1]]
    BY <1>0 DEF PutBehind
<1>3. \A i \in 1 .. L + 1 : /\ i <= k => i \in 1 .. L
                            /\ ~ (i <= k) /\ i # k + 1 => i - 1 \in 1 .. L
    BY <1>1
<1>4. t \in Seq(Nodes) /\ Len(t) = L + 1 BY <1>0, <1>1, <1>2, <1>3
<1>5. ASSUME NEW i \in 1 .. L + 1, NEW j \in 1 .. L + 1, t[i] = t[j] PROVE i = j
    <2> DEFINE at(m) == IF m <= k THEN m ELSE m - 1
    <2>1. \A m \in 1 .. L + 1 : IF m = k + 1 THEN t[m] = n ELSE t[m] = s[at(m)] /\ at(m) \in 1 .. L
        BY <1>1, <1>2, <1>3
    <2>2. \A a, b \in 1 .. L : s[a] = s[b] => a = b BY <1>0 DEF Distinct
    <2>3. at(i) = at(j) => i = j \/ i = k + 1 \/ j = k + 1 BY <1>1
    <2>4. \A a \in 1 .. L : s[a] # n BY <1>0
    <2> HIDE DEF at
    <2> QED BY <1>5, <2>1, <2>2, <2>3, <2>4
<1>6. \A i \in 1 .. L + 1 : t[i] \in {s[j] : j \in 1 .. L} \cup {n} BY <1>2, <1>3
<1>7. ASSUME NEW j \in 1 .. L PROVE \E i \in 1 .. L + 1 : t[i] = s[j]
    <2>1. CASE j <= k BY <1>1, <1>2, <2>1
    <2>2. CASE ~ (j <= k)
        <3>1. j + 1 \in 1 .. L + 1 /\ ~ (j + 1 <= k) /\ j + 1 # k + 1 /\ (j + 1) - 1 = j BY <1>1, <2>2
        <3>2. t[j + 1] = s[j] BY <1>2, <3>1
        <3> QED BY <3>1, <3>2
    <2> QED BY <2>1, <2>2
<1>8. k + 1 \in 1 .. L + 1 /\ t[k + 1] = n BY <1>1, <1>2
<1>9. {t[i] : i \in 1 .. L + 1} = {s[i] : i \in 1 .. L} \cup {n}
    <2>1. ASSUME NEW e, e \in {t[i] : i \in 1 .. L + 1} PROVE e \in {s[i] : i \in 1 .. L} \cup {n}
        BY ONLY <1>6, <2>1
    <2>2. ASSUME NEW e, e \in {s[i] : i \in 1 .. L} \cup {n} PROVE e \in {t[i] : i \in 1 .. L + 1}
        <3>1. CASE e = n BY ONLY <1>8, <3>1
        <3>2. CASE e # n
            <4>1. PICK j \in 1 .. L : e = s[j] BY ONLY <2>2, <3>2
            <4> QED BY ONLY <1>7, <4>1
        <3> QED BY <3>1, <3>2
    <2> QED BY ONLY <2>1, <2>2
<1> QED BY <1>4, <1>5, <1>9 DEF InsertedOk, Distinct

LEMMA InsertLinked ==
    ASSUME NEW s, NEW k, NEW n, NEW t, PutIn(s, k, n, t),
           NEW nx, NEW pv, Linked(s, nx, pv), NEW nx2, NEW pv2,
           Relinked(s, k, n, nx, pv, nx2, pv2)
    PROVE  /\ Linked(t, nx2, pv2)
           /\ NodeAfter(t, 0) = IF NodeBefore(s, k + 1) = NULL THEN n ELSE NodeAfter(s, 0)
           /\ NodeBefore(t, Len(t) + 1) =
                  IF NodeAfter(s, k) = NULL THEN n ELSE NodeBefore(s, Len(s) + 1)
<1> DEFINE L == Len(s)
           p == NodeAfter(s, k)
           q == NodeBefore(s, k + 1)
<1>0. /\ Distinct(s) /\ k \in 0 .. L /\ n \in Nodes /\ \A i \in 1 .. L : s[i] # n
      /\ t = PutBehind(s, k, n)
    BY DEF PutIn
<1>1. L \in Nat /\ k \in Nat /\ k <= L /\ \A i \in 1 .. L : s[i] \in Nodes /\ s[i] # NULL /\ s[i] # n
    BY <1>0, ListsAssumption DEF Distinct, Nodes, NULL
<1>2. /\ Len(t) = L + 1
      /\ \A i \in 1 .. L + 1 : t[i] = IF i <= k THEN s[i] ELSE IF i = k + 1 THEN n ELSE s[i - 1]
    BY <1>0, InsertedIs DEF PutBehind
<1>3. /\ p = IF k >= L THEN NULL ELSE s[k + 1]
      /\ q = IF k <= 0 THEN NULL ELSE s[k]
    BY <1>1 DEF NodeAfter, NodeBefore
<1>4. n # NULL BY <1>0, ListsAssumption DEF Nodes, NULL
<1>5. \A m \in Nodes : /\ nx2[m] = IF m = n THEN p ELSE IF m = q THEN n ELSE nx[m]
                       /\ pv2[m] = IF m = n THEN q ELSE IF m = p THEN n ELSE pv[m]
    BY DEF Relinked
<1>6. \A i \in 1 .. L : /\ nx[s[i]] = IF i >= L THEN NULL ELSE s[i + 1]
                        /\ pv[s[i]] = IF i <= 1 THEN NULL ELSE s[i - 1]
    BY DEF Linked, NodeAfter, NodeBefore
<1> HIDE DEF p, q, L
<1>7. ASSUME NEW i \in 1 .. L + 1
      PROVE  /\ nx2[t[i]] = IF i >= L + 1 THEN NULL ELSE t[i + 1]
             /\ pv2[t[i]] = IF i <= 1 THEN NULL ELSE t[i - 1]
    <2>1. CASE i < k
        <3>1. i \in 1 .. L /\ i + 1 \in 1 .. L /\ i + 1 \in 1 .. L + 1 /\ i + 1 <= k /\ i <= k
            BY <1>1, <2>1
        <3>2. t[i] = s[i] /\ t[i + 1] = s[i + 1] BY <1>2, <3>1
        <3>3. s[i] # n /\ s[i] # q /\ s[i] # p
            <4>1. k \in 1 .. L /\ (k < L => k + 1 \in 1 .. L) BY <1>1, <2>1
            <4>2. ~ (i >= k) /\ i # k /\ i # k + 1 BY <1>1, <2>1
            <4> QED BY <1>0, <1>1, <1>3, <3>1, <4>1, <4>2 DEF Distinct, L
        <3>4. nx2[t[i]] = s[i + 1] BY <1>1, <1>5, <1>6, <2>1, <3>1, <3>2, <3>3
        <3>5. pv2[t[i]] = IF i <= 1 THEN NULL ELSE s[i - 1] BY <1>1, <1>5, <1>6, <3>1, <3>2, <3>3
        <3>6. i > 1 => t[i - 1] = s[i - 1]
            <4>1. i > 1 => i - 1 \in 1 .. L + 1 /\ i - 1 <= k BY <1>1, <2>1
            <4> QED BY <1>2, <4>1
        <3> QED BY <1>1, <2>1, <3>2, <3>4, <3>5, <3>6
    <2>2. CASE i = k
        <3>1. i \in 1 .. L /\ i + 1 \in 1 .. L + 1 /\ ~ (i + 1 <= k) /\ i + 1 = k + 1 BY <1>1, <2>2
        <3>2. t[i] = s[i] /\ t[i + 1] = n BY <1>1, <1>2, <2>2, <3>1
        <3>3. s[i] # n /\ s[i] = q /\ s[i] # p
            <4>1. k < L => k + 1 \in 1 .. L /\ k + 1 # i BY <1>1, <2>2
            <4> QED BY <1>0, <1>1, <1>3, <2>2, <3>1, <4>1 DEF Distinct, L
        <3>4. nx2[t[i]] = n BY <1>1, <1>5, <3>1, <3>2, <3>3
        <3>5. pv2[t[i]] = IF i <= 1 THEN NULL ELSE s[i - 1] BY <1>1, <1>5, <1>6, <3>1, <3>2, <3>3
        <3>6. i > 1 => t[i - 1] = s[i - 1]
            <4>1. i > 1 => i - 1 \in 1 .. L + 1 /\ i - 1 <= k BY <1>1, <2>2
            <4> QED BY <1>2, <4>1
        <3> QED BY <1>1, <2>2, <3>2, <3>4, <3>5, <3>6
    <2>3. CASE i = k + 1
        <3>1. t[i] = n BY <1>1, <1>2, <2>3
        <3>2. nx2[n] = p /\ pv2[n] = q BY <1>0, <1>5
        <3>3. k < L => t[i + 1] = s[k + 1]
            <4>1. k < L => /\ i + 1 \in 1 .. L + 1 /\ ~ (i + 1 <= k) /\ i + 1 # k + 1
                           /\ (i + 1) - 1 = k + 1
                BY <1>1, <2>3
            <4> QED BY <1>2, <4>1
        <3>4. k > 0 => t[i - 1] = s[k]
            <4>1. k > 0 => i - 1 \in 1 .. L + 1 /\ i - 1 <= k /\ i - 1 = k BY <1>1, <2>3
            <4> QED BY <1>2, <4>1
        <3> QED BY <1>1, <1>3, <2>3, <3>1, <3>2, <3>3, <3>4
    <2>4. CASE i = k + 2
        <3>1. i - 1 \in 1 .. L /\ ~ (i <= k) /\ i # k + 1 /\ i - 1 = k + 1 BY <1>1, <2>4
        <3>2. t[i] = s[k + 1] BY <1>2, <3>1
        <3>3. t[i - 1] = n
            <4>1. i - 1 \in 1 .. L + 1 /\ ~ (i - 1 <= k) BY <1>1, <3>1
            <4> QED BY <1>2, <3>1, <4>1
        <3>4. s[k + 1] # n /\ s[k + 1] = p /\ s[k + 1] # q
            <4>1. k + 1 \in 1 .. L /\ ~ (k >= L) /\ (k > 0 => k \in 1 .. L) /\ k + 1 # k BY <1>1, <3>1
            <4> QED BY <1>0, <1>1, <1>3, <4>1 DEF Distinct, L
        <3>5. nx2[t[i]] = nx[s[k + 1]] /\ pv2[t[i]] = n BY <1>1, <1>5, <3>1, <3>2, <3>4
        <3>6. nx[s[k + 1]] = IF k + 1 >= L THEN NULL ELSE s[(k + 1) + 1] BY <1>6, <3>1
        <3>7. ~ (k + 1 >= L) => t[i + 1] = s[(k + 1) + 1]
            <4>1. ~ (k + 1 >= L) => /\ i + 1 \in 1 .. L + 1 /\ ~ (i + 1 <= k) /\ i + 1 # k + 1
                                    /\ (i + 1) - 1 = (k + 1) + 1
                BY <1>1, <2>4
            <4> QED BY <1>2, <4>1
        <3> QED BY <1>1, <2>4, <3>3, <3>5, <3>6, <3>7
    <2>5. CASE i > k + 2
        <3>1. /\ i - 1 \in 1 .. L /\ ~ (i <= k) /\ i # k + 1 /\ i - 1 # k + 1 /\ i - 1 # k
              /\ ~ (i <= 1) /\ ~ (i - 1 <= 1)
            BY <1>1, <2>5
        <3>2. t[i] = s[i - 1] BY <1>2, <3>1
        <3>3. t[i - 1] = s[(i - 1) - 1]
            <4>1. i - 1 \in 1 .. L + 1 /\ ~ (i - 1 <= k) BY <1>1, <2>5
            <4> QED BY <1>2, <3>1, <4>1
        <3>4. s[i - 1] # n /\ s[i - 1] # p /\ s[i - 1] # q
            <4>1. (k < L => k + 1 \in 1 .. L) /\ (k > 0 => k \in 1 .. L) BY <1>1
            <4> QED BY <1>0, <1>1, <1>3, <3>1, <4>1 DEF Distinct, L
        <3>5. nx2[t[i]] = nx[s[i - 1]] /\ pv2[t[i]] = pv[s[i - 1]] BY <1>1, <1>5, <3>1, <3>2, <3>4
        <3>6. /\ nx[s[i - 1]] = IF i - 1 >= L THEN NULL ELSE s[(i - 1) + 1]
              /\ pv[s[i - 1]] = IF i - 1 <= 1 THEN NULL ELSE s[(i - 1) - 1]
            BY <1>6, <3>1
        <3>7. ~ (i - 1 >= L) => t[i + 1] = s[(i - 1) + 1]
            <4>1. ~ (i - 1 >= L) => /\ i + 1 \in 1 .. L + 1 /\ ~ (i + 1 <= k) /\ i + 1 # k + 1
                                    /\ (i + 1) - 1 = (i - 1) + 1
                BY <1>1, <2>5
            <4> QED BY <1>2, <4>1
        <3> QED BY <1>1, <2>5, <3>1, <3>3, <3>5, <3>6, <3>7
    <2> QED BY <1>1, <2>1, <2>2, <2>3, <2>4, <2>5
<1>8. Linked(t, nx2, pv2) BY <1>2, <1>7 DEF Linked, NodeAfter, NodeBefore
<1>9. NodeAfter(t, 0) = IF q = NULL THEN n ELSE NodeAfter(s, 0)
    <2>1. NodeAfter(t, 0) = t[1] /\ 0 + 1 = 1 BY <1>1, <1>2 DEF NodeAfter
    <2>2. CASE k = 0
        <3>1. q = NULL BY <1>3, <2>2
        <3>2. 1 \in 1 .. L + 1 /\ ~ (1 <= k) /\ 1 = k + 1 BY <1>1, <2>2
        <3>3. t[1] = n BY <1>2, <3>2
        <3> QED BY <2>1, <3>1, <3>3
    <2>3. CASE k # 0
        <3>1. ~ (k <= 0) /\ k \in 1 .. L /\ 1 \in 1 .. L + 1 /\ 1 <= k /\ ~ (0 >= L) BY <1>1, <2>3
        <3>2. q # NULL /\ t[1] = s[1] BY <1>1, <1>2, <1>3, <3>1
        <3> QED BY <2>1, <3>1, <3>2 DEF NodeAfter, L
    <2> QED BY <2>2, <2>3
<1>10. NodeBefore(t, Len(t) + 1) = IF p = NULL THEN n ELSE NodeBefore(s, L + 1)
    <2>1. NodeBefore(t, Len(t) + 1) = t[L + 1] BY <1>1, <1>2 DEF NodeBefore
    <2>2. CASE k = L
        <3>1. p = NULL BY <1>1, <1>3, <2>2
        <3>2. L + 1 \in 1 .. L + 1 /\ ~ (L + 1 <= k) /\ L + 1 = k + 1 BY <1>1, <2>2
        <3>3. t[L + 1] = n BY <1>2, <3>2
        <3> QED BY <2>1, <3>1, <3>3
    <2>3. CASE k # L
        <3>1. /\ ~ (k >= L) /\ k + 1 \in 1 .. L /\ L + 1 \in 1 .. L + 1
              /\ ~ (L + 1 <= k) /\ L + 1 # k + 1 /\ (L + 1) - 1 = L /\ ~ (L + 1 <= 1)
            BY <1>1, <2>3
        <3>2. p # NULL /\ t[L + 1] = s[L] BY <1>1, <1>2, <1>3, <3>1
        <3> QED BY <2>1, <3>1, <3>2 DEF NodeBefore
    <2> QED BY <2>2, <2>3
<1> QED BY <1>8, <1>9, <1>10 DEF p, q, L

\* The first of several nodes unlinked, and the last of one.
Popped(s, nx, pv, nx2, pv2) ==
    /\ nx \in [Nodes -> Nodes \cup {NULL}] /\ pv \in [Nodes -> Nodes \cup {NULL}]
    /\ nx2 = IF Len(s) = 1 THEN nx ELSE [nx EXCEPT ![s[1]] = NULL]
    /\ pv2 = IF Len(s) = 1 THEN pv ELSE [pv EXCEPT ![nx[s[1]]] = NULL]

LEMMA PoppedIs ==
    ASSUME NEW s, Distinct(s), s # <<>>, NEW nx, NEW pv, Linked(s, nx, pv), NEW nx2, NEW pv2,
           Popped(s, nx, pv, nx2, pv2)
    PROVE  /\ Distinct(Tail(s)) /\ Linked(Tail(s), nx2, pv2)
           /\ Len(Tail(s)) = Len(s) - 1
           /\ {Tail(s)[i] : i \in 1 .. Len(Tail(s))} = {s[i] : i \in 1 .. Len(s)} \ {s[1]}
<1> DEFINE t == Tail(s)
           L == Len(s)
<1>0. /\ nx \in [Nodes -> Nodes \cup {NULL}] /\ pv \in [Nodes -> Nodes \cup {NULL}]
      /\ nx2 = IF L = 1 THEN nx ELSE [nx EXCEPT ![s[1]] = NULL]
      /\ pv2 = IF L = 1 THEN pv ELSE [pv EXCEPT ![nx[s[1]]] = NULL]
    BY DEF Popped
<1>1. /\ t \in Seq(Nodes) /\ Len(t) = L - 1 /\ L \in Nat \ {0}
      /\ \A i \in 1 .. L - 1 : t[i] = s[i + 1]
      /\ \A i \in 1 .. L : s[i] \in Nodes
    BY TailIs, ItemType DEF Distinct
<1> HIDE DEF t, L
<1>2. \A i \in 1 .. L - 1 : i + 1 \in 1 .. L /\ i + 1 # 1 BY <1>1
<1>3. 1 \in 1 .. L BY <1>1
<1>4. Distinct(t)
    <2> SUFFICES ASSUME NEW i \in 1 .. L - 1, NEW j \in 1 .. L - 1, t[i] = t[j] PROVE i = j
        BY <1>1 DEF Distinct
    <2>1. s[i + 1] = s[j + 1] BY <1>1
    <2>2. i + 1 = j + 1 BY <1>2, <2>1 DEF Distinct, L
    <2> QED BY <1>1, <2>2
<1>5. \A i \in 1 .. L : /\ nx[s[i]] = IF i >= L THEN NULL ELSE s[i + 1]
                        /\ pv[s[i]] = IF i <= 1 THEN NULL ELSE s[i - 1]
    BY DEF Linked, NodeAfter, NodeBefore, L
<1>6. Linked(t, nx2, pv2)
    <2> SUFFICES ASSUME NEW i \in 1 .. L - 1
                 PROVE  /\ nx2[t[i]] = IF i >= L - 1 THEN NULL ELSE t[i + 1]
                        /\ pv2[t[i]] = IF i <= 1 THEN NULL ELSE t[i - 1]
        BY <1>1 DEF Linked, NodeAfter, NodeBefore
    <2>1. L # 1 /\ ~ (1 >= L) /\ 2 \in 1 .. L BY <1>1
    <2>2. nx[s[1]] = s[2] /\ s[2] \in Nodes /\ s[1] \in Nodes BY <1>1, <1>3, <1>5, <2>1
    <2>3. nx2 = [nx EXCEPT ![s[1]] = NULL] /\ pv2 = [pv EXCEPT ![s[2]] = NULL] BY <1>0, <2>1, <2>2
    <2>4. t[i] = s[i + 1] /\ i + 1 \in 1 .. L /\ s[i + 1] # s[1] /\ s[i + 1] \in Nodes
        BY <1>1, <1>2, <1>3 DEF Distinct, L
    <2>5. nx2[t[i]] = IF i + 1 >= L THEN NULL ELSE s[(i + 1) + 1] BY <1>0, <1>5, <2>2, <2>3, <2>4
    <2>6. ~ (i >= L - 1) => i + 1 \in 1 .. L - 1 /\ t[i + 1] = s[(i + 1) + 1] BY <1>1
    <2>7. CASE i = 1
        <3>1. t[i] = s[2] BY <2>4, <2>7
        <3> QED BY <1>0, <1>1, <2>2, <2>3, <2>5, <2>6, <2>7, <3>1
    <2>8. CASE i # 1
        <3>1. s[i + 1] # s[2] BY <1>1, <2>1, <2>4, <2>8 DEF Distinct, L
        <3>2. pv2[t[i]] = pv[s[i + 1]] BY <1>0, <2>2, <2>3, <2>4, <3>1
        <3>3. pv[s[i + 1]] = s[(i + 1) - 1] BY <1>1, <1>5, <2>4, <2>8
        <3>4. i - 1 \in 1 .. L - 1 /\ (i - 1) + 1 = (i + 1) - 1 BY <1>1, <2>8
        <3>5. t[i - 1] = s[(i + 1) - 1] BY <1>1, <3>4
        <3> QED BY <1>1, <2>5, <2>6, <2>8, <3>2, <3>3, <3>5
    <2> QED BY <2>7, <2>8
<1>7. {t[i] : i \in 1 .. L - 1} = {s[i] : i \in 1 .. L} \ {s[1]}
    <2>1. ASSUME NEW i \in 1 .. L - 1 PROVE t[i] \in {s[j] : j \in 1 .. L} \ {s[1]}
        BY <1>1, <1>2, <1>3 DEF Distinct, L
    <2>2. ASSUME NEW j \in 1 .. L, s[j] # s[1] PROVE \E i \in 1 .. L - 1 : t[i] = s[j]
        <3>1. j - 1 \in 1 .. L - 1 /\ (j - 1) + 1 = j BY <1>1, <2>2
        <3>2. t[j - 1] = s[j] BY <1>1, <3>1
        <3> QED BY <3>1, <3>2
    <2> QED BY <2>1, <2>2
<1> QED BY <1>1, <1>4, <1>6, <1>7 DEF t, L

Members == IF kind = "lab3" THEN 1 .. (IF lpc = "walk" THEN created - 1 ELSE created)
                            ELSE (1 .. created) \ freed

ListTypes ==
    /\ kind \in {"lab3", "LinkedList", "none"} /\ lpc \in {"idle", "walk", "free", "done"}
    /\ kind # "lab3" => lpc = "idle"
    /\ created \in 0 .. MaxNodes /\ freed \subseteq 1 .. created
    /\ data \in [Nodes -> Nat] /\ \A n \in 1 .. created : data[n] \in Words
    /\ walk \in [n : {NULL} \cup Nodes, p : {NULL} \cup Nodes, q : {NULL} \cup Nodes]
    /\ next \in [Nodes -> Nodes \cup {NULL}] /\ prev \in [Nodes -> Nodes \cup {NULL}]
    /\ \A n \in Nodes : n > created => next[n] = NULL /\ prev[n] = NULL

\* How far the list goes: free_list has come back from its end.
ListEnd(s, k) == IF lpc \in {"free", "done"} THEN k ELSE Len(s)

\* s is the list as it was last put in order, and k is how far insert_in_order
\* has come, or how much free_list has left.
ListIs(s, k) ==
    /\ Distinct(s) /\ k \in 0 .. Len(s)
    /\ Linked(s, next, prev)
    /\ {s[i] : i \in 1 .. Len(s)} = Members
    /\ head = NodeAfter(s, 0) /\ tail = NodeBefore(s, ListEnd(s, k) + 1)
    /\ num_nodes = Len(s) + IF lpc = "walk" THEN 1 ELSE 0
    /\ kind = "lab3" => \A i, j \in 1 .. Len(s) : i < j => data[s[i]] <= data[s[j]]
    /\ kind = "lab3" /\ lpc \in {"idle", "walk"} => freed = {}
    /\ lpc = "walk" =>
          /\ created > 0 /\ walk.n = created
          /\ walk.p = NodeAfter(s, k) /\ walk.q = NodeBefore(s, k + 1)
          /\ \A i \in 1 .. k : data[s[i]] <= data[created]
    /\ lpc \in {"free", "done"} => freed = {s[i] : i \in k + 1 .. Len(s)}
    /\ lpc = "done" => k = 0

ListInv == ListTypes /\ \E s, k : ListIs(s, k)

LEMMA ListInitially ==
    ASSUME NEW K \in {"lab3", "LinkedList", "none"}, ListInit(K) PROVE ListInv
<1>1. ListTypes BY ListsAssumption DEF ListInit, ListTypes, Nodes, NULL, NoWalk
<1>2. Len(<<>>) = 0 /\ <<>> \in Seq(Nodes) OBVIOUS
<1>3. Distinct(<<>>) BY <1>2 DEF Distinct
<1>4. ListIs(<<>>, 0)
    BY <1>2, <1>3 DEF ListInit, ListIs, Linked, Members, NodeAfter, NodeBefore, ListEnd
<1> QED BY <1>1, <1>4 DEF ListInv

ListItems ==
    LET nodes == IF lpc \in {"free", "done"} THEN Reverse(Backward) ELSE Forward
    IN  [i \in DOMAIN nodes |-> <<nodes[i], data[nodes[i]]>>]

ItemsOf(s, e) == [i \in 1 .. e |-> <<s[i], data[s[i]]>>]

\* What is read of the list.
LEMMA ListReads ==
    ASSUME NEW s, NEW k, ListIs(s, k)
    PROVE  /\ Len(s) \in Nat /\ k \in Nat /\ ListEnd(s, k) \in 0 .. Len(s) /\ s \in Seq(Nodes)
           /\ Forward = s /\ Backward = Reverse(SubSeq(s, 1, ListEnd(s, k)))
           /\ Reverse(Backward) = SubSeq(s, 1, ListEnd(s, k))
           /\ Len(Backward) = ListEnd(s, k)
           /\ ListItems = ItemsOf(s, ListEnd(s, k))
<1> DEFINE e == ListEnd(s, k)
<1>1. Len(s) \in Nat /\ s \in Seq(Nodes) /\ k \in 0 .. Len(s) /\ DOMAIN s = 1 .. Len(s)
    BY DEF ListIs, Distinct
<1>2. e \in 0 .. Len(s) BY <1>1 DEF ListEnd
<1> HIDE DEF e
<1>3. Distinct(s) /\ Linked(s, next, prev) /\ head = NodeAfter(s, 0) /\ tail = NodeBefore(s, e + 1)
    BY DEF ListIs, e
<1>4. Forward = s /\ Backward = Reverse(SubSeq(s, 1, e))
    BY <1>2, <1>3, ReadingsAre DEF Forward, Backward
<1>5. Reverse(Backward) = SubSeq(s, 1, e) /\ Len(Backward) = e BY <1>1, <1>2, <1>4, ReverseIs
<1>6. ListItems = ItemsOf(s, e)
    <2>1. CASE lpc \in {"free", "done"}
        <3>1. /\ DOMAIN SubSeq(s, 1, e) = 1 .. e
              /\ \A i \in 1 .. e : SubSeq(s, 1, e)[i] = s[i]
            BY <1>1, <1>2
        <3> QED BY <1>5, <2>1, <3>1 DEF ListItems, ItemsOf
    <2>2. CASE lpc \notin {"free", "done"} BY <1>1, <1>4, <2>2 DEF ListItems, ItemsOf, e, ListEnd
    <2> QED BY <2>1, <2>2
<1> QED BY <1>1, <1>2, <1>4, <1>5, <1>6 DEF e

ItemsRead == \A s, k : ListIs(s, k) => ListItems = ItemsOf(s, ListEnd(s, k))

LEMMA ItemsReadNow == ItemsRead BY ListReads DEF ItemsRead
LEMMA ItemsReadNext == ItemsRead' BY ItemsReadNow, PTL

LEMMA ListsRead == ListInv => ListsLinked
<1> SUFFICES ASSUME ListInv PROVE ListsLinked OBVIOUS
<1>1. PICK s, k : ListIs(s, k) BY DEF ListInv
<1> DEFINE e == ListEnd(s, k)
<1>2. /\ Len(s) \in Nat /\ k \in Nat /\ e \in 0 .. Len(s) /\ s \in Seq(Nodes)
      /\ Forward = s /\ Backward = Reverse(SubSeq(s, 1, e))
      /\ Reverse(Backward) = SubSeq(s, 1, e) /\ Len(Backward) = e
    BY <1>1, ListReads
<1>3. lpc = "idle" => Backward = Reverse(Forward) /\ num_nodes = Len(Forward)
    <2> SUFFICES ASSUME lpc = "idle"
                 PROVE  Backward = Reverse(Forward) /\ num_nodes = Len(Forward)
        OBVIOUS
    <2>1. e = Len(s) BY DEF ListEnd
    <2> HIDE DEF e
    <2>2. SubSeq(s, 1, e) = s BY <1>2, <2>1
    <2>3. num_nodes = Len(s) BY <1>1, <1>2 DEF ListIs
    <2> QED BY <1>2, <2>2, <2>3
<1>4. lpc \in {"free", "done"} => /\ Reverse(Backward) = SubSeq(Forward, 1, Len(Backward))
                                 /\ freed = {Forward[i] : i \in Len(Backward) + 1 .. Len(Forward)}
    BY <1>1, <1>2 DEF ListIs, ListEnd
<1>5. lpc = "done" => freed = 1 .. created
    <2> SUFFICES ASSUME lpc = "done" PROVE freed = 1 .. created OBVIOUS
    <2>1. kind = "lab3" BY DEF ListInv, ListTypes
    <2>2. freed = {s[i] : i \in 0 + 1 .. Len(s)} BY <1>1 DEF ListIs
    <2>3. {s[i] : i \in 1 .. Len(s)} = 1 .. created BY <1>1, <2>1 DEF ListIs, Members
    <2> QED BY <2>2, <2>3
<1>6. kind = "LinkedList" => ToSet(Forward) = (1 .. created) \ freed
    <2>1. ToSet(s) = {s[i] : i \in 1 .. Len(s)} BY <1>2, ItemType DEF ToSet
    <2> QED BY <1>1, <1>2, <2>1 DEF ListIs, Members
<1> QED BY <1>3, <1>4, <1>5, <1>6 DEF ListsLinked

\* Whatever a node that is not in the list holds, the list shows the same.
LEMMA ItemsSame ==
    ASSUME NEW s \in Seq(Nodes), NEW e \in 0 .. Len(s),
           \A i \in 1 .. Len(s) : data'[s[i]] = data[s[i]]
    PROVE  ItemsOf(s, e)' = ItemsOf(s, e)
BY DEF ItemsOf

LEMMA ItemsAre ==
    ASSUME NEW s \in Seq(Nodes), NEW e \in 0 .. Len(s)
    PROVE  /\ ItemsOf(s, e) = [i \in 1 .. e |-> <<s[i], data[s[i]]>>]
           /\ Len(ItemsOf(s, e)) = e /\ DOMAIN ItemsOf(s, e) = 1 .. e
           /\ ItemsOf(s, e) \in Seq(Nodes \X {data[n] : n \in Nodes})
<1>1. \A i \in 1 .. e : s[i] \in Nodes BY ItemType
<1>2. e \in Nat OBVIOUS
<1>3. \A i \in 1 .. e : <<s[i], data[s[i]]>> \in Nodes \X {data[n] : n \in Nodes} BY <1>1
<1> QED BY <1>2, <1>3 DEF ItemsOf

\* The node that create_node makes is none of the list.
LEMMA NewNode ==
    ASSUME ListTypes, NEW word \in Words, create_node(word), lpc = "idle",
           NEW s, NEW k, ListIs(s, k)
    PROVE  /\ created + 1 \in Nodes /\ created' = created + 1 /\ created' \in 0 .. MaxNodes
           /\ \A i \in 1 .. Len(s) : s[i] # created + 1 /\ s[i] \in Nodes
           /\ data' \in [Nodes -> Nat] /\ data'[created + 1] = word
           /\ \A m \in Nodes : m # created + 1 => data'[m] = data[m]
           /\ \A i \in 1 .. Len(s) : data'[s[i]] = data[s[i]]
<1> USE ListsAssumption DEF ListTypes
<1>1. /\ created + 1 \in Nodes /\ created' = created + 1 /\ created' \in 0 .. MaxNodes
      /\ data' = [data EXCEPT ![created + 1] = word] /\ word \in Nat
    BY DEF create_node, Nodes
<1>2. \A i \in 1 .. Len(s) : s[i] \in Members /\ s[i] \in Nodes BY DEF ListIs, Distinct
<1>3. \A m \in Members : m # created + 1 BY DEF Members
<1> QED BY <1>1, <1>2, <1>3

\* What one of the operations does to the list as it is read.
Inserts(items, new, item) ==
    \E k \in 0 .. Len(items) :
        /\ \A i \in 1 .. k : items[i][2] <= item[2]
        /\ \A i \in k + 1 .. Len(items) : item[2] < items[i][2]
        /\ new = SubSeq(items, 1, k) \o <<item>> \o SubSeq(items, k + 1, Len(items))
IsNewIn(items, n) == \A i \in DOMAIN items : items[i][1] # n
ItemsStep(items, new) ==
    \/ new = items
    \/ \E n \in Nodes, w \in Words :
          /\ IsNewIn(items, n)
          /\ IF kind = "lab3" THEN Inserts(items, new, <<n, w>>)
             ELSE new = Append(items, <<n, w>>) \/ new = <<<<n, w>>>> \o items
    \/ kind = "lab3" /\ items # <<>> /\ new = SubSeq(items, 1, Len(items) - 1)
    \/ kind # "lab3" /\ items # <<>> /\ new = Tail(items)

\* head and tail are NULL or nodes, head NULL only in the empty list.
LEMMA HeadIs ==
    ASSUME NEW s, NEW k, ListIs(s, k)
    PROVE  /\ head \in {NULL} \cup Nodes /\ tail \in {NULL} \cup Nodes
           /\ head = NULL <=> Len(s) = 0
           /\ Len(s) # 0 => head = s[1] /\ s[1] \in Members
           /\ ListEnd(s, k) = 0 => tail = NULL
           /\ ListEnd(s, k) # 0 => tail = s[ListEnd(s, k)] /\ tail \in Members /\ tail # NULL
<1> DEFINE e == ListEnd(s, k)
<1>1. Len(s) \in Nat /\ e \in 0 .. Len(s) /\ Distinct(s) BY ListReads DEF ListIs
<1>2. head = NodeAfter(s, 0) /\ tail = NodeBefore(s, e + 1)
      /\ \A i \in 1 .. Len(s) : s[i] \in Members
    BY DEF ListIs
<1> HIDE DEF e
<1>3. \A i \in 1 .. Len(s) : s[i] \in Nodes /\ s[i] # NULL
    BY <1>1, ListsAssumption DEF Distinct, Nodes, NULL
<1>4. /\ Len(s) # 0 => 1 \in 1 .. Len(s)
      /\ e # 0 => e \in 1 .. Len(s) /\ ~ (e + 1 <= 1) /\ (e + 1) - 1 = e
    BY <1>1
<1>5. NodeAfter(s, 0) = IF Len(s) = 0 THEN NULL ELSE s[1] BY <1>1 DEF NodeAfter
<1>6. NodeBefore(s, e + 1) = IF e = 0 THEN NULL ELSE s[e] BY <1>1, <1>4 DEF NodeBefore
<1> QED BY <1>2, <1>3, <1>4, <1>5, <1>6 DEF e

LEMMA StartInsertKeeps ==
    ASSUME ListTypes, NEW s, NEW k, ListIs(s, k), NEW word \in Words, StartInsert(word)
    PROVE  ListTypes' /\ ListIs(s, 0)' /\ ListItems' = ListItems
<1> USE DEF StartInsert
<1>1. /\ created + 1 \in Nodes /\ created' = created + 1 /\ created' \in 0 .. MaxNodes
      /\ \A i \in 1 .. Len(s) : s[i] # created + 1 /\ s[i] \in Nodes
      /\ data' \in [Nodes -> Nat] /\ data'[created + 1] = word
      /\ \A m \in Nodes : m # created + 1 => data'[m] = data[m]
      /\ \A i \in 1 .. Len(s) : data'[s[i]] = data[s[i]]
    BY NewNode
<1>2. ListTypes'
    <2>1. head \in {NULL} \cup Nodes BY HeadIs
    <2>2. walk' \in [n : {NULL} \cup Nodes, p : {NULL} \cup Nodes, q : {NULL} \cup Nodes]
        BY <1>1, <2>1
    <2>3. \A m \in 1 .. created' : data'[m] \in Words
        <3>1. \A m \in 1 .. created' : m = created + 1 \/ (m \in 1 .. created /\ m \in Nodes)
            BY <1>1, ListsAssumption DEF ListTypes, Nodes
        <3>2. \A m \in 1 .. created : m # created + 1 BY DEF ListTypes
        <3> QED BY <1>1, <3>1, <3>2 DEF ListTypes
    <2>4. /\ freed' \subseteq 1 .. created'
          /\ \A m \in Nodes : m > created' => next'[m] = NULL /\ prev'[m] = NULL
        BY <1>1 DEF ListTypes, Nodes
    <2> QED BY <1>1, <2>2, <2>3, <2>4 DEF ListTypes
<1>3. Len(s) \in Nat /\ s \in Seq(Nodes) /\ ListEnd(s, k) = Len(s) /\ ListEnd(s, 0)' = Len(s)
    BY ListReads DEF ListEnd
<1>4. 0 \in 0 .. Len(s) BY <1>3
<1>5. Members' = Members BY <1>1 DEF Members, ListTypes
<1>6. ListIs(s, 0)'
    <2>1. walk' = [n |-> created', p |-> NodeAfter(s, 0), q |-> NodeBefore(s, 0 + 1)]
        BY <1>1 DEF ListIs, NodeBefore
    <2>2. \A i, j \in 1 .. Len(s) : i < j => data'[s[i]] <= data'[s[j]] BY <1>1 DEF ListIs
    <2>3. \A i \in 1 .. 0 : data'[s[i]] <= data'[created'] OBVIOUS
    <2>4. created' > 0 BY <1>1 DEF ListTypes
    <2>5. num_nodes' = Len(s) + 1 BY <1>3 DEF ListIs
    <2>6. freed' = {} BY DEF ListIs
    <2>7. Distinct(s) /\ Linked(s, next', prev') /\ {s[i] : i \in 1 .. Len(s)} = Members'
          /\ head' = NodeAfter(s, 0) /\ tail' = NodeBefore(s, ListEnd(s, 0)' + 1)
        BY <1>3, <1>5 DEF ListIs
    <2>8. kind' = "lab3" /\ lpc' = "walk" OBVIOUS
    <2> QED BY <1>4, <2>1, <2>2, <2>3, <2>4, <2>5, <2>6, <2>7, <2>8 DEF ListIs
<1>7. ListItems = ItemsOf(s, Len(s)) BY <1>3, ListReads
<1>8. ListItems' = ItemsOf(s, Len(s))'
    BY <1>3, <1>6, ItemsReadNext DEF ItemsRead
<1>9. ItemsOf(s, Len(s))' = ItemsOf(s, Len(s))
    <2>1. Len(s) \in 0 .. Len(s) BY <1>3
    <2> QED BY <1>1, <1>3, <2>1, ItemsSame
<1> QED BY <1>2, <1>6, <1>7, <1>8, <1>9

\* PutBehind in the terms of the abstract list.
LEMMA PutBehindIs ==
    ASSUME NEW V, NEW I \in Seq(V), NEW x \in V, NEW k \in 0 .. Len(I)
    PROVE  /\ PutBehind(I, k, x) = SubSeq(I, 1, k) \o <<x>> \o SubSeq(I, k + 1, Len(I))
           /\ k = Len(I) => PutBehind(I, k, x) = Append(I, x)
           /\ k = 0 => PutBehind(I, k, x) = <<x>> \o I
<1> DEFINE L == Len(I)
           t == PutBehind(I, k, x)
           A == SubSeq(I, 1, k)
           B == SubSeq(I, k + 1, L)
<1>1. L \in Nat /\ k \in Nat /\ k <= L /\ \A i \in 1 .. L : I[i] \in V OBVIOUS
<1>2. t = [i \in 1 .. L + 1 |-> IF i <= k THEN I[i] ELSE IF i = k + 1 THEN x ELSE I[i - 1]]
    BY Zenon DEF PutBehind
<1>3. A \in Seq(V) /\ Len(A) = k /\ \A i \in 1 .. k : A[i] = I[i] BY <1>1
<1>4. B \in Seq(V) /\ Len(B) = L - k /\ \A i \in 1 .. L - k : B[i] = I[k + i]
    BY <1>1
<1>5. <<x>> \in Seq(V) /\ Len(<<x>>) = 1 /\ <<x>>[1] = x OBVIOUS
<1> HIDE DEF t, A, B, L
<1>6. t = A \o <<x>> \o B
    <2> DEFINE X == <<x>>
               Z == A \o X
               W == Z \o B
    <2>0. X \in Seq(V) /\ Len(X) = 1 /\ X[1] = x BY <1>5
    <2> HIDE DEF X
    <2>1. /\ Z \in Seq(V) /\ Len(Z) = k + 1
          /\ \A i \in 1 .. k : Z[i] = A[i]
          /\ Z[k + 1] = x
        <3>1. /\ Z \in Seq(V) /\ Len(Z) = Len(A) + Len(X)
              /\ \A i \in 1 .. Len(A) : Z[i] = A[i]
              /\ \A i \in Len(A) + 1 .. Len(A) + Len(X) : Z[i] = X[i - Len(A)]
            BY <1>3, <2>0, ConcatIs
        <3>2. k + 1 \in Len(A) + 1 .. Len(A) + Len(X) /\ (k + 1) - Len(A) = 1 BY <1>1, <1>3, <2>0
        <3> HIDE DEF Z
        <3>3. Z[k + 1] = X[(k + 1) - Len(A)] BY <3>1, <3>2
        <3> QED BY <1>3, <2>0, <3>1, <3>2, <3>3
    <2> HIDE DEF Z
    <2>2. /\ W \in Seq(V) /\ Len(W) = L + 1
          /\ \A i \in 1 .. k + 1 : W[i] = Z[i]
          /\ \A i \in k + 2 .. L + 1 : W[i] = B[i - (k + 1)]
        <3>1. /\ W \in Seq(V) /\ Len(W) = Len(Z) + Len(B)
              /\ \A i \in 1 .. Len(Z) : W[i] = Z[i]
              /\ \A i \in Len(Z) + 1 .. Len(Z) + Len(B) : W[i] = B[i - Len(Z)]
            BY <1>4, <2>1, ConcatIs
        <3>2. Len(Z) = k + 1 /\ Len(Z) + 1 = k + 2 /\ Len(Z) + Len(B) = L + 1 BY <1>1, <1>4, <2>1
        <3> HIDE DEF W
        <3> QED BY <3>1, <3>2
    <2>3. W = [i \in 1 .. L + 1 |-> W[i]] BY <2>2, SeqIs
    <2> HIDE DEF W
    <2>4. ASSUME NEW i \in 1 .. L + 1
          PROVE  W[i] = IF i <= k THEN I[i] ELSE IF i = k + 1 THEN x ELSE I[i - 1]
        <3>1. CASE i <= k
            <4>1. i \in 1 .. k /\ i \in 1 .. k + 1 BY <1>1, <3>1
            <4> QED BY <1>3, <2>1, <2>2, <3>1, <4>1
        <3>2. CASE i = k + 1
            <4>1. i \in 1 .. k + 1 /\ ~ (i <= k) BY <1>1, <3>2
            <4> QED BY <2>1, <2>2, <3>2, <4>1
        <3>3. CASE ~ (i <= k) /\ i # k + 1
            <4>1. i \in k + 2 .. L + 1 /\ i - (k + 1) \in 1 .. L - k /\ k + (i - (k + 1)) = i - 1
                BY <1>1, <3>3
            <4>2. W[i] = B[i - (k + 1)] BY <2>2, <4>1
            <4>3. B[i - (k + 1)] = I[k + (i - (k + 1))] BY <1>4, <4>1
            <4> QED BY <3>3, <4>1, <4>2, <4>3
        <3> QED BY <3>1, <3>2, <3>3
    <2>5. t = W BY <1>2, <2>3, <2>4
    <2> QED BY <2>5 DEF W, Z, X
<1>7. k = L => t = Append(I, x)
    <2> SUFFICES ASSUME k = L PROVE t = Append(I, x) OBVIOUS
    <2> DEFINE W == Append(I, x)
    <2>1. W \in Seq(V) /\ Len(W) = L + 1 /\ (\A i \in 1 .. L : W[i] = I[i]) /\ W[L + 1] = x
        BY AppendIs DEF L
    <2>2. W = [i \in 1 .. L + 1 |-> W[i]] BY <2>1, SeqIs
    <2> HIDE DEF W
    <2>3. \A i \in 1 .. L + 1 : t[i] = W[i] BY <1>1, <1>2, <2>1
    <2>4. t = W BY <1>2, <2>2, <2>3
    <2> QED BY <2>4 DEF W
<1>8. k = 0 => t = <<x>> \o I
    <2> SUFFICES ASSUME k = 0 PROVE t = <<x>> \o I OBVIOUS
    <2> DEFINE W == <<x>> \o I
    <2>1. /\ W \in Seq(V) /\ Len(W) = L + 1 /\ W[1] = x
          /\ \A i \in 2 .. L + 1 : W[i] = I[i - 1]
        BY ConsIs DEF L
    <2>2. W = [i \in 1 .. L + 1 |-> W[i]] BY <2>1, SeqIs
    <2> HIDE DEF W
    <2>3. \A i \in 1 .. L + 1 : t[i] = W[i] BY <1>1, <1>2, <2>1
    <2>4. t = W BY <1>2, <2>2, <2>3
    <2> QED BY <2>4 DEF W
<1> QED BY <1>6, <1>7, <1>8 DEF t, A, B, L

LEMMA InsertItems ==
    ASSUME NEW s \in Seq(Nodes), NEW k \in 0 .. Len(s), NEW n \in Nodes,
           \A i \in 1 .. Len(s) : data'[s[i]] = data[s[i]],
           NEW t, t = PutBehind(s, k, n)
    PROVE  ItemsOf(t, Len(s) + 1)' = PutBehind(ItemsOf(s, Len(s)), k, <<n, data'[n]>>)
<1> DEFINE L == Len(s)
           I == ItemsOf(s, Len(s))
           x == <<n, data'[n]>>
<1>1. L \in Nat /\ k \in Nat /\ k <= L OBVIOUS
<1>2. I = [i \in 1 .. L |-> <<s[i], data[s[i]]>>] /\ Len(I) = L
    <2>1. Len(s) \in 0 .. Len(s) BY <1>1
    <2> QED BY <2>1, ItemsAre
<1>3. t = [i \in 1 .. L + 1 |-> IF i <= k THEN s[i] ELSE IF i = k + 1 THEN n ELSE s[i - 1]]
    BY Zenon DEF PutBehind
<1>4. ItemsOf(t, L + 1)' = [i \in 1 .. L + 1 |-> <<t[i], data'[t[i]]>>] BY Zenon DEF ItemsOf
<1>5. PutBehind(I, k, x) =
        [i \in 1 .. L + 1 |-> IF i <= k THEN I[i] ELSE IF i = k + 1 THEN x ELSE I[i - 1]]
    BY <1>2 DEF PutBehind
<1>6. \A i \in 1 .. L : data'[s[i]] = data[s[i]] OBVIOUS
<1>10. x = <<n, data'[n]>> OBVIOUS
<1> HIDE DEF L, I, x
<1>7. ASSUME NEW i \in 1 .. L + 1
      PROVE  <<t[i], data'[t[i]]>> = IF i <= k THEN I[i] ELSE IF i = k + 1 THEN x ELSE I[i - 1]
    <2>1. CASE i <= k
        <3>1. i \in 1 .. L /\ t[i] = s[i] BY <1>1, <1>3, <2>1
        <3> QED BY <1>2, <1>6, <2>1, <3>1
    <2>2. CASE i = k + 1
        <3>1. ~ (i <= k) /\ t[i] = n BY <1>1, <1>3, <2>2
        <3> QED BY <1>10, <2>2, <3>1
    <2>3. CASE ~ (i <= k) /\ i # k + 1
        <3>1. i - 1 \in 1 .. L /\ t[i] = s[i - 1] BY <1>1, <1>3, <2>3
        <3>2. I[i - 1] = <<s[i - 1], data[s[i - 1]]>> BY <1>2, <3>1
        <3> QED BY <1>6, <2>3, <3>1, <3>2
    <2> QED BY <2>1, <2>2, <2>3
<1>8. ItemsOf(t, L + 1)' = PutBehind(I, k, x) BY <1>4, <1>5, <1>7
<1> QED BY <1>8 DEF L, I, x

\* A node linked in behind the first k, whichever operation does it.
Puts(s, k, n) ==
    /\ \A i \in 1 .. Len(s) : data'[s[i]] = data[s[i]]
    /\ Relinked(s, k, n, next, prev, next', prev')
    /\ head' = IF NodeBefore(s, k + 1) = NULL THEN n ELSE head
    /\ tail' = IF NodeAfter(s, k) = NULL THEN n ELSE tail
    /\ num_nodes' = Len(s) + 1 /\ lpc' = "idle" /\ kind' = kind
    /\ Members' = Members \cup {n}
    /\ kind = "lab3" => /\ \A i \in 1 .. k : data'[s[i]] <= data'[n]
                        /\ \A i \in k + 1 .. Len(s) : data'[n] <= data'[s[i]]
                        /\ freed' = {}

LEMMA PutKeeps ==
    ASSUME ListTypes, NEW s, NEW k0, ListIs(s, k0), lpc \in {"idle", "walk"},
           NEW k, NEW n, PutIn(s, k, n, PutBehind(s, k, n)), Puts(s, k, n)
    PROVE  /\ \E t, j : ListIs(t, j)'
           /\ ListItems' = PutBehind(ListItems, k, <<n, data'[n]>>)
<1>0. PICK t : t = PutBehind(s, k, n) OBVIOUS
<1>1. /\ Len(s) \in Nat /\ s \in Seq(Nodes) /\ ListEnd(s, k0) = Len(s)
      /\ Distinct(s) /\ Linked(s, next, prev) /\ {s[i] : i \in 1 .. Len(s)} = Members
      /\ head = NodeAfter(s, 0) /\ tail = NodeBefore(s, Len(s) + 1)
      /\ k \in 0 .. Len(s) /\ n \in Nodes
    BY ListReads DEF ListIs, ListEnd, PutIn
<1>a. PutIn(s, k, n, t) BY <1>0
<1>2. /\ Distinct(t) /\ Len(t) = Len(s) + 1
      /\ {t[i] : i \in 1 .. Len(t)} = {s[i] : i \in 1 .. Len(s)} \cup {n}
    <2>1. InsertedOk(s, n, t) BY ONLY <1>a, InsertedIs
    <2> QED BY ONLY <2>1 DEF InsertedOk
<1>b. Relinked(s, k, n, next, prev, next', prev') BY DEF Puts
<1>3. /\ Linked(t, next', prev')
      /\ NodeAfter(t, 0) = IF NodeBefore(s, k + 1) = NULL THEN n ELSE NodeAfter(s, 0)
      /\ NodeBefore(t, Len(t) + 1) =
             IF NodeAfter(s, k) = NULL THEN n ELSE NodeBefore(s, Len(s) + 1)
    <2>1. Linked(s, next, prev) BY <1>1
    <2> QED BY ONLY <1>a, <1>b, <2>1, InsertLinked
<1>4. head' = NodeAfter(t, 0) /\ tail' = NodeBefore(t, Len(t) + 1) BY <1>1, <1>3 DEF Puts
<1>5. ListEnd(t, Len(t))' = Len(t) BY DEF ListEnd, Puts
<1>6. Len(t) \in 0 .. Len(t) BY <1>1, <1>2
<1>7. kind' = "lab3" => \A i, j \in 1 .. Len(t) : i < j => data'[t[i]] <= data'[t[j]]
    <2> SUFFICES ASSUME kind = "lab3", NEW i \in 1 .. Len(t), NEW j \in 1 .. Len(t), i < j
                 PROVE  data'[t[i]] <= data'[t[j]]
        BY DEF Puts
    <2>1. /\ \A a, b \in 1 .. Len(s) : a < b => data'[s[a]] <= data'[s[b]]
          /\ \A a \in 1 .. k : data'[s[a]] <= data'[n]
          /\ \A a \in k + 1 .. Len(s) : data'[n] <= data'[s[a]]
        BY DEF ListIs, Puts
    <2>2. \A a \in 1 .. Len(s) + 1 :
              t[a] = IF a <= k THEN s[a] ELSE IF a = k + 1 THEN n ELSE s[a - 1]
        BY <1>0 DEF PutBehind
    <2>3. CASE i <= k
        <3>1. i \in 1 .. Len(s) /\ i \in 1 .. k /\ t[i] = s[i] BY <1>1, <1>2, <2>2, <2>3
        <3>2. CASE j <= k
            <4>1. j \in 1 .. Len(s) /\ t[j] = s[j] BY <1>1, <1>2, <2>2, <3>2
            <4> QED BY <2>1, <3>1, <4>1
        <3>3. CASE j = k + 1
            <4>1. ~ (j <= k) /\ t[j] = n BY <1>1, <1>2, <2>2, <3>3
            <4> QED BY <2>1, <3>1, <4>1
        <3>4. CASE ~ (j <= k) /\ j # k + 1
            <4>1. j \in 1 .. Len(s) + 1 /\ j - 1 \in 1 .. Len(s) /\ i < j - 1 BY <1>1, <1>2, <2>3, <3>4
            <4>2. t[j] = s[j - 1] BY <2>2, <3>4, <4>1
            <4> QED BY <2>1, <3>1, <4>1, <4>2
        <3> QED BY <3>2, <3>3, <3>4
    <2>4. CASE i = k + 1
        <3>1. t[i] = n BY <1>1, <1>2, <2>2, <2>4
        <3>2. /\ j - 1 \in k + 1 .. Len(s) /\ ~ (j <= k) /\ j # k + 1 /\ j \in 1 .. Len(s) + 1
            BY <1>1, <1>2, <2>4
        <3>3. t[j] = s[j - 1] BY <2>2, <3>2
        <3> QED BY <2>1, <3>1, <3>2, <3>3
    <2>5. CASE ~ (i <= k) /\ i # k + 1
        <3>1. i - 1 \in 1 .. Len(s) /\ t[i] = s[i - 1] BY <1>1, <1>2, <2>2, <2>5
        <3>2. /\ j - 1 \in 1 .. Len(s) /\ i - 1 < j - 1
              /\ ~ (j <= k) /\ j # k + 1 /\ j \in 1 .. Len(s) + 1
            BY <1>1, <1>2, <2>5
        <3>3. t[j] = s[j - 1] BY <2>2, <3>2
        <3> QED BY <2>1, <3>1, <3>2, <3>3
    <2> QED BY <2>3, <2>4, <2>5
<1>8. ListIs(t, Len(t))'
    <2>1. {t[i] : i \in 1 .. Len(t)} = Members' BY <1>1, <1>2 DEF Puts
    <2>2. num_nodes' = Len(t) + 0 /\ lpc' = "idle" /\ (kind' = "lab3" => freed' = {})
        BY <1>1, <1>2 DEF Puts
    <2>3. head' = NodeAfter(t, 0) /\ tail' = NodeBefore(t, ListEnd(t, Len(t))' + 1) BY <1>4, <1>5
    <2>4. num_nodes' = Len(t) + IF lpc' = "walk" THEN 1 ELSE 0 BY <2>2
    <2>5. Distinct(t) /\ Linked(t, next', prev') BY <1>2, <1>3
    <2> QED BY ONLY <1>6, <1>7, <2>1, <2>2, <2>3, <2>4, <2>5 DEF ListIs
<1>9. ListItems = ItemsOf(s, Len(s)) BY <1>1, ListReads
<1>10. ListItems' = ItemsOf(t, Len(s) + 1)'
    <2>1. ListItems' = ItemsOf(t, ListEnd(t, Len(t)))' BY <1>8, ItemsReadNext DEF ItemsRead
    <2> QED BY <1>2, <1>5, <2>1
<1>11. ItemsOf(t, Len(s) + 1)' = PutBehind(ItemsOf(s, Len(s)), k, <<n, data'[n]>>)
    BY <1>0, <1>1, InsertItems DEF Puts, PutIn
<1> QED BY <1>8, <1>9, <1>10, <1>11

\* A new node is none of those that are read.
LEMMA NewInItems ==
    ASSUME NEW s, NEW k, ListIs(s, k), NEW n, \A i \in 1 .. Len(s) : s[i] # n
    PROVE  IsNewIn(ListItems, n)
<1>1. /\ Len(s) \in Nat /\ ListEnd(s, k) \in 0 .. Len(s) /\ s \in Seq(Nodes)
      /\ ListItems = ItemsOf(s, ListEnd(s, k))
    BY ListReads
<1> DEFINE e == ListEnd(s, k)
<1>2. /\ ItemsOf(s, e) = [i \in 1 .. e |-> <<s[i], data[s[i]]>>]
      /\ DOMAIN ItemsOf(s, e) = 1 .. e
    BY <1>1, ItemsAre
<1> HIDE DEF e
<1>3. \A i \in 1 .. e : i \in 1 .. Len(s) BY <1>1 DEF e
<1>4. \A i \in 1 .. e : ItemsOf(s, e)[i][1] = s[i] BY <1>2
<1> QED BY <1>1, <1>2, <1>3, <1>4 DEF IsNewIn, e

LEMMA WalkKeeps ==
    ASSUME ListTypes, NEW s, NEW k, ListIs(s, k), WalkOn
    PROVE  ListTypes' /\ ListIs(s, k + 1)' /\ ListItems' = ListItems
<1>1. /\ Len(s) \in Nat /\ k \in 0 .. Len(s) /\ k \in Nat /\ s \in Seq(Nodes) /\ Distinct(s)
      /\ Linked(s, next, prev) /\ lpc = "walk" /\ lpc' = "walk"
      /\ walk.p = NodeAfter(s, k) /\ walk.n = created /\ walk.p # NULL
    BY ListReads DEF ListIs, WalkOn
<1>2. k + 1 \in 1 .. Len(s) /\ walk.p = s[k + 1] /\ s[k + 1] \in Nodes
    <2>1. ~ (k >= Len(s)) /\ walk.p = s[k + 1] BY <1>1 DEF NodeAfter
    <2>2. k + 1 \in 1 .. Len(s) BY <1>1, <2>1
    <2> QED BY <1>1, <2>1, <2>2 DEF Distinct
<1>3. /\ next[walk.p] = NodeAfter(s, k + 1) /\ next[walk.p] \in {NULL} \cup Nodes
    BY <1>1, <1>2 DEF Linked, ListTypes
<1>4. /\ walk' \in [n : {NULL} \cup Nodes, p : {NULL} \cup Nodes, q : {NULL} \cup Nodes]
      /\ walk'.n = created /\ walk'.p = NodeAfter(s, k + 1) /\ walk'.q = s[k + 1]
    BY <1>1, <1>2, <1>3 DEF ListTypes, WalkOn
<1>5. NodeBefore(s, (k + 1) + 1) = s[k + 1]
    <2>1. ~ ((k + 1) + 1 <= 1) /\ ((k + 1) + 1) - 1 = k + 1 BY <1>1
    <2> QED BY <2>1 DEF NodeBefore
<1>6. \A i \in 1 .. k + 1 : data[s[i]] <= data[created]
    <2>1. data[s[k + 1]] <= data[created] BY <1>1, <1>2 DEF WalkOn, Passes
    <2>2. \A i \in 1 .. k : data[s[i]] <= data[created] BY <1>1 DEF ListIs
    <2>3. \A i \in 1 .. k + 1 : i \in 1 .. k \/ i = k + 1 BY <1>1
    <2> QED BY <2>1, <2>2, <2>3
<1>7. /\ UNCHANGED <<kind, lpc, head, tail, num_nodes, data, next, prev, created, freed>>
      /\ Members' = Members
      /\ ListEnd(s, k) = Len(s) /\ ListEnd(s, k + 1)' = Len(s) /\ k + 1 \in 0 .. Len(s)
    BY <1>1, <1>2 DEF WalkOn, Members, ListEnd
<1>8. ListTypes' BY <1>4, <1>7 DEF ListTypes
<1>9. ListIs(s, k + 1)'
    <2>1. \A i \in 1 .. k + 1 : data'[s[i]] <= data'[created'] BY <1>6, <1>7
    <2> QED BY <1>1, <1>4, <1>5, <1>7, <2>1 DEF ListIs
<1>10. ListItems = ItemsOf(s, Len(s)) BY <1>7, ListReads
<1>11. ListItems' = ItemsOf(s, Len(s))' BY <1>7, <1>9, ItemsReadNext DEF ItemsRead
<1>12. ItemsOf(s, Len(s))' = ItemsOf(s, Len(s)) BY <1>7 DEF ItemsOf
<1> QED BY <1>8, <1>9, <1>10, <1>11, <1>12

\* A node that comes behind the k that are no greater is inserted as the list promises.
LEMMA PutInOrder ==
    ASSUME NEW V, NEW I \in Seq(V), NEW x \in V, NEW k \in 0 .. Len(I),
           \A i \in 1 .. k : I[i][2] <= x[2],
           \A i \in k + 1 .. Len(I) : x[2] < I[i][2]
    PROVE  Inserts(I, PutBehind(I, k, x), x)
BY PutBehindIs DEF Inserts

LEMMA LinkKeeps ==
    ASSUME ListTypes, NEW s, NEW k, ListIs(s, k), Link
    PROVE  ListTypes' /\ (\E t, j : ListIs(t, j)') /\ ItemsStep(ListItems, ListItems')
<1> DEFINE n == created
<1>1. /\ Len(s) \in Nat /\ k \in 0 .. Len(s) /\ k \in Nat /\ s \in Seq(Nodes) /\ Distinct(s)
      /\ lpc = "walk" /\ kind = "lab3"
      /\ walk.p = NodeAfter(s, k) /\ walk.q = NodeBefore(s, k + 1) /\ walk.n = created
      /\ created > 0 /\ num_nodes = Len(s) + 1 /\ freed = {}
      /\ \A i \in 1 .. k : data[s[i]] <= data[n]
      /\ \A i, j \in 1 .. Len(s) : i < j => data[s[i]] <= data[s[j]]
    BY ListReads DEF ListIs, Link, ListTypes
<1>2. n \in Nodes /\ data[n] \in Words /\ data[n] \in Nat
    BY <1>1, ListsAssumption DEF ListTypes, Nodes
<1>3. \A i \in 1 .. Len(s) : s[i] \in Members /\ s[i] \in Nodes /\ s[i] # n /\ data[s[i]] \in Nat
    <2>1. \A i \in 1 .. Len(s) : s[i] \in Members /\ s[i] \in Nodes BY DEF ListIs, Distinct
    <2>2. \A m \in Members : m # n BY <1>1 DEF Members, ListTypes
    <2> QED BY <2>1, <2>2 DEF ListTypes
<1>4. PutIn(s, k, n, PutBehind(s, k, n)) BY <1>1, <1>2, <1>3 DEF PutIn
<1>5. \A i \in k + 1 .. Len(s) : data[n] < data[s[i]]
    <2> SUFFICES ASSUME NEW i \in k + 1 .. Len(s) PROVE data[n] < data[s[i]] OBVIOUS
    <2>1. k + 1 \in 1 .. Len(s) /\ i \in 1 .. Len(s) /\ (i = k + 1 \/ k + 1 < i) /\ ~ (k >= Len(s)) BY <1>1
    <2>2. walk.p = s[k + 1] BY <1>1, <2>1 DEF NodeAfter
    <2>3. s[k + 1] # NULL BY <1>3, <2>1, ListsAssumption DEF Nodes, NULL
    <2>4. ~ (data[s[k + 1]] <= data[n]) BY <1>1, <2>2, <2>3 DEF Link, Passes
    <2>5. data[s[k + 1]] \in Nat /\ data[s[i]] \in Nat BY <1>3, <2>1
    <2>6. data[s[k + 1]] <= data[s[i]] BY <1>1, <2>1, <2>5
    <2> QED BY <1>2, <2>4, <2>5, <2>6
<1>6. /\ next' = [m \in Nodes |-> IF m = n THEN NodeAfter(s, k)
                                  ELSE IF m = NodeBefore(s, k + 1) THEN n ELSE next[m]]
      /\ prev' = [m \in Nodes |-> IF m = n THEN NodeBefore(s, k + 1)
                                  ELSE IF m = NodeAfter(s, k) THEN n ELSE prev[m]]
      /\ tail' = IF NodeAfter(s, k) = NULL THEN n ELSE tail
      /\ head' = IF NodeBefore(s, k + 1) = NULL THEN n ELSE head
      /\ walk' = NoWalk /\ lpc' = "idle"
      /\ UNCHANGED <<kind, num_nodes, data, created, freed>>
    BY <1>1 DEF Link
<1>7. Members' = Members \cup {n}
    <2>1. Members = 1 .. n - 1 /\ Members' = 1 .. n BY <1>1, <1>6 DEF Members
    <2>2. 1 .. n = (1 .. n - 1) \cup {n} BY <1>1 DEF ListTypes
    <2> QED BY <2>1, <2>2
<1>8. Puts(s, k, n)
    <2>1. Relinked(s, k, n, next, prev, next', prev') BY <1>6 DEF Relinked
    <2>2. \A i \in k + 1 .. Len(s) : data'[n] <= data'[s[i]]
        <3> SUFFICES ASSUME NEW i \in k + 1 .. Len(s) PROVE data[n] <= data[s[i]] BY <1>6
        <3>1. i \in 1 .. Len(s) BY <1>1
        <3> QED BY <1>2, <1>3, <1>5, <3>1
    <2> QED BY <1>1, <1>6, <1>7, <2>1, <2>2 DEF Puts
<1>9. /\ \E t, j : ListIs(t, j)'
      /\ ListItems' = PutBehind(ListItems, k, <<n, data'[n]>>)
    BY <1>1, <1>4, <1>8, PutKeeps
<1>10. /\ NodeAfter(s, k) \in {NULL} \cup Nodes /\ NodeBefore(s, k + 1) \in {NULL} \cup Nodes
    BY <1>1 DEF ListTypes
<1>11. ListTypes'
    <2>1. \A m \in Nodes : m > created => /\ next[m] = NULL /\ prev[m] = NULL
                                          /\ m # n /\ m # NodeAfter(s, k) /\ m # NodeBefore(s, k + 1)
        <3> SUFFICES ASSUME NEW m \in Nodes, m > created
                     PROVE  m # n /\ m # NodeAfter(s, k) /\ m # NodeBefore(s, k + 1)
            BY DEF ListTypes
        <3>1. m \notin Members /\ m # n /\ m # NULL
            BY <1>1, ListsAssumption DEF Members, ListTypes, Nodes, NULL
        <3>2. NodeAfter(s, k) = NULL \/ NodeAfter(s, k) \in Members
            <4>1. ~ (k >= Len(s)) => k + 1 \in 1 .. Len(s) BY <1>1
            <4> QED BY <1>3, <4>1 DEF NodeAfter
        <3>3. NodeBefore(s, k + 1) = NULL \/ NodeBefore(s, k + 1) \in Members
            <4>1. ~ (k + 1 <= 1) => (k + 1) - 1 \in 1 .. Len(s) BY <1>1
            <4> QED BY <1>3, <4>1 DEF NodeBefore
        <3> QED BY <3>1, <3>2, <3>3
    <2>2. \A m \in Nodes : m > created' => next'[m] = NULL /\ prev'[m] = NULL BY <1>6, <2>1
    <2>3. /\ next' \in [Nodes -> Nodes \cup {NULL}] /\ prev' \in [Nodes -> Nodes \cup {NULL}]
        BY <1>2, <1>6, <1>10 DEF ListTypes
    <2>4. walk' \in [n : {NULL} \cup Nodes, p : {NULL} \cup Nodes, q : {NULL} \cup Nodes]
        BY <1>6 DEF NoWalk
    <2> QED BY <1>1, <1>6, <2>2, <2>3, <2>4 DEF ListTypes
<1>12. ItemsStep(ListItems, ListItems')
    <2> DEFINE I == ItemsOf(s, Len(s))
               V == Nodes \X {data[m] : m \in Nodes}
               x == <<n, data[n]>>
    <2>1. ListItems = I BY <1>1, ListReads DEF ListEnd
    <2>2. Len(s) \in 0 .. Len(s) BY <1>1
    <2>3. I = [i \in 1 .. Len(s) |-> <<s[i], data[s[i]]>>] /\ Len(I) = Len(s) /\ I \in Seq(V)
        BY <1>1, <2>2, ItemsAre
    <2>4. x \in V /\ x[2] = data[n] BY <1>2
    <2>5. /\ \A i \in 1 .. k : I[i][2] <= x[2]
          /\ \A i \in k + 1 .. Len(I) : x[2] < I[i][2]
        <3>1. \A i \in 1 .. Len(s) : I[i][2] = data[s[i]] BY <2>3
        <3>2. /\ \A i \in 1 .. k : i \in 1 .. Len(s)
              /\ \A i \in k + 1 .. Len(s) : i \in 1 .. Len(s)
            BY <1>1
        <3> HIDE DEF I, x
        <3> QED BY <1>1, <1>5, <2>3, <2>4, <3>1, <3>2
    <2>6. k \in 0 .. Len(I) BY <1>1, <2>3
    <2> HIDE DEF I, V
    <2>7. Inserts(I, PutBehind(I, k, x), x) BY <2>3, <2>4, <2>5, <2>6, PutInOrder
    <2>8. ListItems' = PutBehind(I, k, x) BY <1>6, <1>9, <2>1
    <2>9. IsNewIn(I, n) BY <1>3, <2>1, NewInItems
    <2> QED BY <1>1, <1>2, <2>1, <2>7, <2>8, <2>9 DEF ItemsStep
<1> QED BY <1>9, <1>11, <1>12

LEMMA StartFreeKeeps ==
    ASSUME ListTypes, NEW s, NEW k, ListIs(s, k), StartFree
    PROVE  ListTypes' /\ ListIs(s, Len(s))' /\ ListItems' = ListItems
<1>1. /\ Len(s) \in Nat /\ s \in Seq(Nodes) /\ ListEnd(s, k) = Len(s)
      /\ ListEnd(s, Len(s))' = Len(s)
      /\ kind = "lab3" /\ lpc = "idle" /\ lpc' = "free"
      /\ UNCHANGED <<kind, head, tail, num_nodes, data, next, prev, created, freed, walk>>
    BY ListReads DEF StartFree, ListEnd
<1>2. ListTypes' BY <1>1 DEF ListTypes
<1>3. ListIs(s, Len(s))'
    <2>1. Members' = Members /\ Len(s) \in 0 .. Len(s) BY <1>1 DEF Members
    <2>2. {s[i] : i \in Len(s) + 1 .. Len(s)} = {} BY <1>1
    <2>3. freed' = {s[i] : i \in Len(s) + 1 .. Len(s)} BY <1>1, <2>2 DEF ListIs
    <2> QED BY <1>1, <2>1, <2>3 DEF ListIs
<1>4. ListItems = ItemsOf(s, Len(s)) BY <1>1, ListReads
<1>5. ListItems' = ItemsOf(s, Len(s))' BY <1>1, <1>3, ItemsReadNext DEF ItemsRead
<1>6. ItemsOf(s, Len(s))' = ItemsOf(s, Len(s)) BY <1>1 DEF ItemsOf
<1> QED BY <1>2, <1>3, <1>4, <1>5, <1>6

\* The list as it is read, without the last.
LEMMA ItemsCut ==
    ASSUME NEW s \in Seq(Nodes), NEW e \in 1 .. Len(s)
    PROVE  /\ ItemsOf(s, e) # <<>>
           /\ ItemsOf(s, e - 1) = SubSeq(ItemsOf(s, e), 1, Len(ItemsOf(s, e)) - 1)
<1>1. /\ e \in 0 .. Len(s) /\ e - 1 \in 0 .. Len(s) /\ e \in Nat /\ e - 1 \in Nat OBVIOUS
<1> DEFINE V == Nodes \X {data[n] : n \in Nodes}
           I == ItemsOf(s, e)
           J == ItemsOf(s, e - 1)
<1>2. I \in Seq(V) /\ Len(I) = e /\ \A i \in 1 .. e : I[i] = <<s[i], data[s[i]]>>
    BY <1>1, ItemsAre
<1>3. J \in Seq(V) /\ Len(J) = e - 1 /\ \A i \in 1 .. e - 1 : J[i] = <<s[i], data[s[i]]>>
    BY <1>1, ItemsAre
<1> HIDE DEF I, J, V
<1> DEFINE W == SubSeq(I, 1, e - 1)
<1>4. W \in Seq(V) /\ Len(W) = e - 1 /\ \A i \in 1 .. e - 1 : W[i] = I[i] BY <1>1, <1>2
<1> HIDE DEF W
<1>5. \A i \in 1 .. e - 1 : i \in 1 .. e BY <1>1
<1>6. \A i \in 1 .. e - 1 : W[i] = J[i] BY <1>2, <1>3, <1>4, <1>5
<1>7. W = [i \in 1 .. e - 1 |-> W[i]] /\ J = [i \in 1 .. e - 1 |-> J[i]] BY <1>3, <1>4, SeqIs
<1>8. W = J BY <1>6, <1>7
<1>9. I # <<>> BY <1>1, <1>2
<1> QED BY <1>2, <1>8, <1>9 DEF W, I, J

LEMMA FreeKeeps ==
    ASSUME ListTypes, NEW s, NEW k, ListIs(s, k), FreeTail
    PROVE  ListTypes' /\ (\E t, j : ListIs(t, j)') /\ ItemsStep(ListItems, ListItems')
<1>1. /\ Len(s) \in Nat /\ k \in Nat /\ k \in 0 .. Len(s) /\ s \in Seq(Nodes)
      /\ ListEnd(s, k) = k /\ lpc = "free" /\ kind = "lab3"
      /\ tail = NodeBefore(s, k + 1) /\ freed = {s[i] : i \in k + 1 .. Len(s)}
      /\ Distinct(s) /\ Linked(s, next, prev) /\ {s[i] : i \in 1 .. Len(s)} = Members
      /\ head = NodeAfter(s, 0) /\ num_nodes = Len(s)
      /\ \A i, j \in 1 .. Len(s) : i < j => data[s[i]] <= data[s[j]]
    <2>1. lpc = "free" /\ kind = "lab3" BY DEF FreeTail, ListTypes
    <2>2. Len(s) \in Nat /\ k \in Nat /\ s \in Seq(Nodes) /\ ListEnd(s, k) = k
        BY <2>1, ListReads DEF ListEnd
    <2>3. num_nodes = Len(s) BY <2>1, <2>2 DEF ListIs
    <2> QED BY <2>1, <2>2, <2>3 DEF ListIs
<1>2. /\ UNCHANGED <<kind, head, num_nodes, data, next, prev, created, walk>>
      /\ lpc' \in {"free", "done"}
    BY <1>1 DEF FreeTail
<1>3. Members' = Members BY <1>1, <1>2 DEF Members
<1>4. ListItems = ItemsOf(s, k) BY <1>1, ListReads
<1>5. CASE tail = NULL
    <2>1. lpc' = "done" /\ tail' = tail /\ freed' = freed BY <1>5 DEF FreeTail
    <2>2. k = 0 BY <1>1, <1>5, HeadIs
    <2>3. ListTypes' BY <1>2, <2>1, <1>1 DEF ListTypes
    <2>4. ListEnd(s, 0)' = 0 BY <2>1 DEF ListEnd
    <2>5. ListIs(s, 0)' BY <1>1, <1>2, <1>3, <2>1, <2>2, <2>4 DEF ListIs
    <2>6. ListItems' = ItemsOf(s, 0)' BY <2>4, <2>5, ItemsReadNext DEF ItemsRead
    <2>7. ItemsOf(s, 0)' = ItemsOf(s, 0) BY <1>2 DEF ItemsOf
    <2> QED BY <1>4, <2>2, <2>3, <2>5, <2>6, <2>7 DEF ItemsStep
<1>6. CASE tail # NULL
    <2>1. k # 0
        <3> SUFFICES ASSUME k = 0 PROVE FALSE OBVIOUS
        <3>1. k + 1 <= 1 BY <1>1
        <3> QED BY <1>1, <1>6, <3>1 DEF NodeBefore
    <2>2. k \in 1 .. Len(s) /\ k - 1 \in 0 .. Len(s) /\ (k - 1) + 1 = k BY <1>1, <2>1
    <2>3. tail = s[k] /\ tail \in Members /\ tail \in Nodes BY <1>1, <2>1, <2>2, HeadIs DEF Distinct
    <2>4. lpc' = "free" /\ tail' = prev[tail] /\ freed' = freed \cup {tail} BY <1>6, <1>1 DEF FreeTail
    <2>5. tail' = NodeBefore(s, (k - 1) + 1) BY <1>1, <2>2, <2>3, <2>4 DEF Linked
    <2>6. freed' = {s[i] : i \in (k - 1) + 1 .. Len(s)}
        <3>1. \A i \in k .. Len(s) : i = k \/ i \in k + 1 .. Len(s) BY <1>1
        <3>2. k \in k .. Len(s) /\ \A i \in k + 1 .. Len(s) : i \in k .. Len(s) BY <1>1
        <3>3. {s[i] : i \in k .. Len(s)} = {s[i] : i \in k + 1 .. Len(s)} \cup {s[k]}
            BY ONLY <3>1, <3>2
        <3> QED BY <1>1, <2>2, <2>3, <2>4, <3>3
    <2>7. ListTypes'
        <3>1. tail \in 1 .. created BY <1>1, <2>3 DEF Members
        <3> QED BY <1>1, <1>2, <2>4, <3>1 DEF ListTypes
    <2>8. ListEnd(s, k - 1)' = k - 1 BY <2>4 DEF ListEnd
    <2>9. ListIs(s, k - 1)'
        <3>1. tail' = NodeBefore(s, ListEnd(s, k - 1)' + 1) BY <2>5, <2>8
        <3>2. num_nodes' = Len(s) + 0 BY <1>1, <1>2
        <3> QED BY <1>1, <1>2, <1>3, <2>2, <2>4, <2>6, <3>1, <3>2 DEF ListIs
    <2>10. ListItems' = ItemsOf(s, k - 1)' BY <2>8, <2>9, ItemsReadNext DEF ItemsRead
    <2>11. ItemsOf(s, k - 1)' = ItemsOf(s, k - 1) BY <1>2 DEF ItemsOf
    <2>12. /\ ItemsOf(s, k) # <<>>
           /\ ItemsOf(s, k - 1) = SubSeq(ItemsOf(s, k), 1, Len(ItemsOf(s, k)) - 1)
        BY <1>1, <2>2, ItemsCut
    <2> QED BY <1>1, <1>4, <2>7, <2>9, <2>10, <2>11, <2>12 DEF ItemsStep
<1> QED BY <1>5, <1>6

\* push_back and push_front put their node behind all of the list, and before it.
LEMMA PushKeeps ==
    ASSUME ListTypes, NEW s, NEW k0, ListIs(s, k0), NEW word \in Words,
           push_back(word) \/ push_front(word)
    PROVE  ListTypes' /\ (\E t, j : ListIs(t, j)') /\ ItemsStep(ListItems, ListItems')
<1> DEFINE n == created + 1
           L == Len(s)
<1>0. kind = "LinkedList" /\ lpc = "idle" /\ create_node(word) BY DEF push_back, push_front
<1>1. /\ n \in Nodes /\ created' = n /\ created' \in 0 .. MaxNodes
      /\ \A i \in 1 .. L : s[i] # n /\ s[i] \in Nodes
      /\ data' \in [Nodes -> Nat] /\ data'[n] = word
      /\ \A m \in Nodes : m # n => data'[m] = data[m]
      /\ \A i \in 1 .. L : data'[s[i]] = data[s[i]]
    BY <1>0, NewNode
<1>2. /\ L \in Nat /\ s \in Seq(Nodes) /\ Distinct(s) /\ ListEnd(s, k0) = L
      /\ Linked(s, next, prev) /\ num_nodes = L
      /\ head = NodeAfter(s, 0) /\ tail = NodeBefore(s, L + 1)
    BY <1>0, ListReads DEF ListIs, ListEnd
<1>3. /\ head \in {NULL} \cup Nodes /\ tail \in {NULL} \cup Nodes
      /\ head = NULL <=> L = 0
      /\ L # 0 => head \in Members /\ tail \in Members /\ tail # NULL
      /\ L = 0 => tail = NULL
    BY <1>2, HeadIs
<1>4. /\ num_nodes' = L + 1 /\ lpc' = "idle" /\ kind' = kind /\ freed' = freed /\ walk' = walk
    BY <1>0, <1>2 DEF push_back, push_front
<1>5. /\ n \notin Members /\ n # NULL /\ n \notin freed /\ next[n] = NULL /\ prev[n] = NULL
      /\ Members \subseteq 1 .. created /\ created \in Nat
    BY <1>0, <1>1, ListsAssumption DEF Members, ListTypes, Nodes, NULL
<1>6. Members' = Members \cup {n}
    <2>1. Members = (1 .. created) \ freed /\ Members' = (1 .. n) \ freed BY <1>0, <1>1, <1>4 DEF Members
    <2>2. 1 .. n = (1 .. created) \cup {n} BY <1>5
    <2> QED BY <1>5, <2>1, <2>2
<1>7. NodeBefore(s, 0 + 1) = NULL /\ NodeAfter(s, L) = NULL BY <1>2 DEF NodeBefore, NodeAfter
<1>8. /\ next' \in [Nodes -> Nodes \cup {NULL}] /\ prev' \in [Nodes -> Nodes \cup {NULL}]
      /\ \A m \in Nodes : m > created' => next'[m] = NULL /\ prev'[m] = NULL
    <2>1. \A m \in Nodes : m > n => m > created /\ m # n /\ m \notin Members /\ m # NULL
        BY <1>5, ListsAssumption DEF Nodes, NULL
    <2>2. \A m \in Nodes : m > created => next[m] = NULL /\ prev[m] = NULL BY DEF ListTypes
    <2>3. next \in [Nodes -> Nodes \cup {NULL}] /\ prev \in [Nodes -> Nodes \cup {NULL}] BY DEF ListTypes
    <2>4. /\ \/ next' = next
             \/ L # 0 /\ next' = [next EXCEPT ![tail] = n]
             \/ L # 0 /\ next' = [next EXCEPT ![n] = head]
          /\ \/ prev' = prev
             \/ L # 0 /\ prev' = [prev EXCEPT ![head] = n]
             \/ L # 0 /\ prev' = [prev EXCEPT ![n] = tail]
        BY <1>3 DEF push_back, push_front
    <2> HIDE DEF n, L
    <2>5. /\ next' \in [Nodes -> Nodes \cup {NULL}] /\ prev' \in [Nodes -> Nodes \cup {NULL}]
        BY <1>1, <1>3, <2>3, <2>4
    <2>6. \A m \in Nodes : m > n => next'[m] = NULL /\ prev'[m] = NULL
        <3> SUFFICES ASSUME NEW m \in Nodes, m > n PROVE next'[m] = NULL /\ prev'[m] = NULL OBVIOUS
        <3>1. next[m] = NULL /\ prev[m] = NULL /\ m # n /\ m \notin Members BY <2>1, <2>2
        <3>2. L # 0 => m # head /\ m # tail BY <1>3, <3>1
        <3> QED BY <2>3, <2>4, <3>1, <3>2
    <2> QED BY <1>1, <2>5, <2>6
<1>9. ListTypes'
    <2>1. \A m \in 1 .. created' : data'[m] \in Words
        <3>1. \A m \in 1 .. created' : m = n \/ (m \in 1 .. created /\ m \in Nodes /\ m # n)
            BY <1>1, <1>5, ListsAssumption DEF ListTypes, Nodes
        <3>2. \A m \in 1 .. created : data[m] \in Words BY DEF ListTypes
        <3> QED BY <1>1, <3>1, <3>2
    <2>2. freed' \subseteq 1 .. created' /\ walk' = walk /\ kind' = kind /\ lpc' = "idle"
        BY <1>1, <1>4, <1>5 DEF ListTypes
    <2>3. /\ kind' \in {"lab3", "LinkedList", "none"}
          /\ walk' \in [n : {NULL} \cup Nodes, p : {NULL} \cup Nodes, q : {NULL} \cup Nodes]
        BY <2>2 DEF ListTypes
    <2> QED BY <1>1, <1>8, <2>1, <2>2, <2>3 DEF ListTypes
<1> HIDE DEF n
<1>10. \A k \in 0 .. L : PutIn(s, k, n, PutBehind(s, k, n)) BY <1>1, <1>2 DEF PutIn
<1>11. ASSUME NEW k \in 0 .. L, Relinked(s, k, n, next, prev, next', prev'),
              head' = IF NodeBefore(s, k + 1) = NULL THEN n ELSE head,
              tail' = IF NodeAfter(s, k) = NULL THEN n ELSE tail
       PROVE  /\ \E t, j : ListIs(t, j)'
              /\ ListItems' = PutBehind(ListItems, k, <<n, word>>)
    <2>1. Puts(s, k, n) BY <1>0, <1>1, <1>4, <1>6, <1>11 DEF Puts
    <2>2. PutIn(s, k, n, PutBehind(s, k, n)) BY <1>10
    <2>3. lpc \in {"idle", "walk"} BY <1>0
    <2>4. /\ \E t, j : ListIs(t, j)'
          /\ ListItems' = PutBehind(ListItems, k, <<n, data'[n]>>)
        BY <2>1, <2>2, <2>3, PutKeeps
    <2> QED BY <1>1, <2>4
<1> DEFINE I == ItemsOf(s, L)
           V == Nodes \X ({data[m] : m \in Nodes} \cup Words)
<1>12. ListItems = I /\ I \in Seq(V) /\ Len(I) = L /\ <<n, word>> \in V
    <2>1. ListItems = I BY <1>2, ListReads
    <2>2. L \in 0 .. Len(s) BY <1>2
    <2>3. I \in Seq(Nodes \X {data[m] : m \in Nodes}) /\ Len(I) = L BY <1>2, <2>2, ItemsAre
    <2> HIDE DEF I
    <2>4. \A S, T : S \subseteq T => Seq(S) \subseteq Seq(T) OBVIOUS
    <2>5. Nodes \X {data[m] : m \in Nodes} \subseteq V OBVIOUS
    <2>6. I \in Seq(V) BY <2>3, <2>4, <2>5
    <2> QED BY <1>1, <2>1, <2>3, <2>6
<1> HIDE DEF I, V
<1>13. IsNewIn(ListItems, n) BY <1>1, NewInItems
<1>14. CASE push_back(word)
    <2>1. Relinked(s, L, n, next, prev, next', prev')
        <3> SUFFICES ASSUME NEW m \in Nodes
                     PROVE  /\ next'[m] = IF m = n THEN NULL ELSE IF m = tail THEN n ELSE next[m]
                            /\ prev'[m] = IF m = n THEN tail ELSE IF m = NULL THEN n ELSE prev[m]
            BY <1>2, <1>7 DEF Relinked
        <3>1. m # NULL BY ListsAssumption DEF Nodes, NULL
        <3>2. CASE head = NULL
            <4>1. next' = next /\ prev' = prev /\ tail = NULL BY <1>3, <1>14, <3>2 DEF push_back
            <4> QED BY <1>5, <3>1, <4>1
        <3>3. CASE head # NULL
            <4>1. next' = [next EXCEPT ![tail] = n] /\ prev' = [prev EXCEPT ![n] = tail]
                BY <1>14, <3>3 DEF push_back, n
            <4>2. tail \in Members /\ tail # n BY <1>3, <1>5, <3>3
            <4>3. next \in [Nodes -> Nodes \cup {NULL}] /\ prev \in [Nodes -> Nodes \cup {NULL}]
                BY DEF ListTypes
            <4> QED BY ONLY <1>1, <1>5, <3>1, <4>1, <4>2, <4>3
        <3> QED BY <3>2, <3>3
    <2>2. /\ head' = IF NodeBefore(s, L + 1) = NULL THEN n ELSE head
          /\ tail' = IF NodeAfter(s, L) = NULL THEN n ELSE tail
        <3>1. head = NULL <=> tail = NULL BY <1>3
        <3> QED BY <1>2, <1>7, <1>14, <3>1 DEF push_back, n
    <2>3. L \in 0 .. L BY <1>2
    <2>4. /\ \E t, j : ListIs(t, j)'
          /\ ListItems' = PutBehind(I, L, <<n, word>>)
        BY <1>11, <1>12, <2>1, <2>2, <2>3
    <2>5. PutBehind(I, L, <<n, word>>) = Append(I, <<n, word>>)
        <3>1. L \in 0 .. Len(I) BY <1>12, <2>3
        <3> HIDE DEF L
        <3> QED BY <1>12, <3>1, PutBehindIs
    <2> QED BY <1>0, <1>1, <1>9, <1>12, <1>13, <2>4, <2>5 DEF ItemsStep
<1>15. CASE push_front(word)
    <2>1. Relinked(s, 0, n, next, prev, next', prev')
        <3> SUFFICES ASSUME NEW m \in Nodes
                     PROVE  /\ next'[m] = IF m = n THEN head ELSE IF m = NULL THEN n ELSE next[m]
                            /\ prev'[m] = IF m = n THEN NULL ELSE IF m = head THEN n ELSE prev[m]
            BY <1>2, <1>7 DEF Relinked
        <3>1. m # NULL BY ListsAssumption DEF Nodes, NULL
        <3>2. CASE head = NULL
            <4>1. next' = next /\ prev' = prev BY <1>15, <3>2 DEF push_front
            <4> QED BY <1>5, <3>1, <3>2, <4>1
        <3>3. CASE head # NULL
            <4>1. next' = [next EXCEPT ![n] = head] /\ prev' = [prev EXCEPT ![head] = n]
                BY <1>15, <3>3 DEF push_front, n
            <4>2. head \in Members /\ head # n BY <1>3, <1>5, <3>3
            <4>3. next \in [Nodes -> Nodes \cup {NULL}] /\ prev \in [Nodes -> Nodes \cup {NULL}]
                BY DEF ListTypes
            <4> QED BY ONLY <1>1, <1>5, <3>1, <4>1, <4>2, <4>3
        <3> QED BY <3>2, <3>3
    <2>2. /\ head' = IF NodeBefore(s, 0 + 1) = NULL THEN n ELSE head
          /\ tail' = IF NodeAfter(s, 0) = NULL THEN n ELSE tail
        BY <1>2, <1>7, <1>15 DEF push_front, n
    <2>3. 0 \in 0 .. L BY <1>2
    <2>4. /\ \E t, j : ListIs(t, j)'
          /\ ListItems' = PutBehind(I, 0, <<n, word>>)
        BY <1>11, <1>12, <2>1, <2>2, <2>3
    <2>5. PutBehind(I, 0, <<n, word>>) = <<<<n, word>>>> \o I
        <3>1. 0 \in 0 .. Len(I) BY <1>12, <2>3
        <3> HIDE DEF L
        <3> QED BY <1>12, <3>1, PutBehindIs
    <2> QED BY <1>0, <1>1, <1>9, <1>12, <1>13, <2>4, <2>5 DEF ItemsStep
<1> QED BY <1>14, <1>15

LEMMA PopKeeps ==
    ASSUME ListTypes, NEW s, NEW k, ListIs(s, k), pop_front
    PROVE  ListTypes' /\ (\E t, j : ListIs(t, j)') /\ ItemsStep(ListItems, ListItems')
<1> DEFINE L == Len(s)
           t == Tail(s)
<1>1. /\ kind = "LinkedList" /\ lpc = "idle" /\ head # NULL /\ num_nodes' = num_nodes - 1
      /\ freed' = freed \cup {head}
      /\ UNCHANGED <<kind, lpc, data, created, walk>>
    BY DEF pop_front
<1>2. /\ L \in Nat /\ s \in Seq(Nodes) /\ Distinct(s) /\ ListEnd(s, k) = L
      /\ Linked(s, next, prev) /\ num_nodes = L /\ {s[i] : i \in 1 .. L} = Members
      /\ head = NodeAfter(s, 0) /\ tail = NodeBefore(s, L + 1)
      /\ L # 0 /\ head = s[1] /\ head \in Members /\ tail = s[L] /\ tail \in Members
    <2>1. /\ L \in Nat /\ s \in Seq(Nodes) /\ Distinct(s) /\ ListEnd(s, k) = L
          /\ Linked(s, next, prev) /\ num_nodes = L /\ {s[i] : i \in 1 .. L} = Members
          /\ head = NodeAfter(s, 0) /\ tail = NodeBefore(s, L + 1)
        BY <1>1, ListReads DEF ListIs, ListEnd
    <2>2. L # 0 BY <1>1, HeadIs
    <2>3. head = s[1] /\ head \in Members /\ tail = s[L] /\ tail \in Members BY <2>1, <2>2, HeadIs
    <2> QED BY <2>1, <2>2, <2>3
<1>3. 1 \in 1 .. L /\ s # <<>> BY <1>2
<1>4. next[head] = IF L = 1 THEN NULL ELSE s[2]
    <2>1. L = 1 <=> 1 >= L BY <1>2
    <2> QED BY <1>2, <1>3, <2>1 DEF Linked, NodeAfter
<1>5. L # 1 => next[head] # NULL
    <2>1. L # 1 => 2 \in 1 .. L BY <1>2
    <2> QED BY <1>2, <1>4, <2>1, ListsAssumption DEF Distinct, Nodes, NULL
<1>6. /\ next' = IF L = 1 THEN next ELSE [next EXCEPT ![s[1]] = NULL]
      /\ prev' = IF L = 1 THEN prev ELSE [prev EXCEPT ![next[s[1]]] = NULL]
      /\ head' = IF L = 1 THEN NULL ELSE s[2]
      /\ tail' = IF L = 1 THEN NULL ELSE tail
    BY <1>2, <1>4, <1>5 DEF pop_front, PrevAfterPop
<1>7. Popped(s, next, prev, next', prev') BY <1>6 DEF Popped, ListTypes
<1>8. /\ Distinct(t) /\ Linked(t, next', prev') /\ Len(t) = L - 1
      /\ {t[i] : i \in 1 .. Len(t)} = {s[i] : i \in 1 .. L} \ {s[1]}
    BY <1>2, <1>3, <1>7, PoppedIs
<1>9. Members' = Members \ {head}
    BY <1>1 DEF Members
<1>10. ListTypes'
    <2>1. /\ next' \in [Nodes -> Nodes \cup {NULL}] /\ prev' \in [Nodes -> Nodes \cup {NULL}]
          /\ \A m \in Nodes : m > created => next'[m] = NULL /\ prev'[m] = NULL
        <3>1. /\ next \in [Nodes -> Nodes \cup {NULL}] /\ prev \in [Nodes -> Nodes \cup {NULL}]
              /\ \A m \in Nodes : m > created => next[m] = NULL /\ prev[m] = NULL
            BY DEF ListTypes
        <3> QED BY <1>6, <3>1
    <2>2. freed' \subseteq 1 .. created
        BY <1>1, <1>2 DEF Members, ListTypes
    <2> QED BY <1>1, <2>1, <2>2 DEF ListTypes
<1>11. /\ t \in Seq(Nodes) /\ \A i \in 1 .. L - 1 : t[i] = s[i + 1]
    BY <1>2, <1>3, TailIs
<1> HIDE DEF t, L
<1>12. head' = NodeAfter(t, 0) /\ tail' = NodeBefore(t, (L - 1) + 1)
    <2>1. CASE L = 1
        <3>1. 0 >= L - 1 /\ (L - 1) + 1 <= 1 BY <2>1
        <3> QED BY <1>6, <1>8, <2>1, <3>1 DEF NodeAfter, NodeBefore
    <2>2. CASE L # 1
        <3>1. /\ ~ (0 >= L - 1) /\ ~ ((L - 1) + 1 <= 1) /\ ((L - 1) + 1) - 1 = L - 1
              /\ 1 \in 1 .. L - 1 /\ L - 1 \in 1 .. L - 1 /\ (L - 1) + 1 = L /\ 1 + 1 = 2 /\ 0 + 1 = 1
            BY <1>2, <2>2
        <3>2. t[1] = s[2] /\ t[L - 1] = s[L] BY <1>11, <3>1
        <3> QED BY <1>2, <1>6, <1>8, <2>2, <3>1, <3>2 DEF NodeAfter, NodeBefore
    <2> QED BY <2>1, <2>2
<1>13. ListEnd(t, L - 1)' = L - 1 /\ L - 1 \in 0 .. Len(t)
    BY <1>1, <1>2, <1>8 DEF ListEnd
<1>14. ListIs(t, L - 1)'
    <2>1. num_nodes' = (L - 1) + IF lpc' = "walk" THEN 1 ELSE 0 BY <1>1, <1>2
    <2>2. kind' # "lab3" /\ lpc' = "idle" BY <1>1
    <2>3. {t[i] : i \in 1 .. Len(t)} = Members' BY <1>2, <1>8, <1>9
    <2> QED BY ONLY <1>8, <1>12, <1>13, <2>1, <2>2, <2>3 DEF ListIs
<1>15. ListItems' = ItemsOf(t, L - 1)' BY <1>13, <1>14, ItemsReadNext DEF ItemsRead
<1> DEFINE I == ItemsOf(s, L)
           J == ItemsOf(t, L - 1)
           V == Nodes \X {data[n] : n \in Nodes}
<1>16. ItemsOf(t, L - 1)' = J BY <1>1 DEF ItemsOf
<1>17. ListItems = I BY <1>2, ListReads
<1>18. I \in Seq(V) /\ Len(I) = L /\ \A i \in 1 .. L : I[i] = <<s[i], data[s[i]]>>
    <2>1. L \in 0 .. Len(s) BY <1>2 DEF L
    <2> QED BY <1>2, <2>1, ItemsAre
<1>19. J \in Seq(V) /\ Len(J) = L - 1 /\ \A i \in 1 .. L - 1 : J[i] = <<t[i], data[t[i]]>>
    BY <1>11, <1>13, ItemsAre
<1> HIDE DEF I, J, V
<1>20. I # <<>> /\ J = Tail(I)
    <2>1. I # <<>> BY <1>2, <1>18
    <2> DEFINE W == Tail(I)
    <2>2. W \in Seq(V) /\ Len(W) = L - 1 /\ \A i \in 1 .. L - 1 : W[i] = I[i + 1]
        BY <1>18, <2>1, TailIs
    <2> HIDE DEF W
    <2>3. \A i \in 1 .. L - 1 : i + 1 \in 1 .. L BY <1>2
    <2>4. \A i \in 1 .. L - 1 : W[i] = J[i] BY <1>11, <1>18, <1>19, <2>2, <2>3
    <2>5. W = [i \in 1 .. L - 1 |-> W[i]] /\ J = [i \in 1 .. L - 1 |-> J[i]] BY <1>19, <2>2, SeqIs
    <2>6. W = J BY <2>4, <2>5
    <2> QED BY <2>1, <2>6 DEF W
<1>21. ItemsStep(ListItems, ListItems') BY <1>1, <1>15, <1>16, <1>17, <1>20 DEF ItemsStep
<1> QED BY <1>10, <1>14, <1>21

\* A step that leaves the list alone.
LEMMA ListStutters ==
    ASSUME ListTypes, NEW s, NEW k, ListIs(s, k), UNCHANGED listVars
    PROVE  ListTypes' /\ ListIs(s, k)' /\ ListItems' = ListItems
<1>1. /\ UNCHANGED <<kind, lpc, head, tail, num_nodes, data, next, prev, created, freed, walk>>
      /\ Members' = Members /\ ListEnd(s, k)' = ListEnd(s, k)
    BY DEF listVars, Members, ListEnd
<1>2. ListTypes' BY <1>1 DEF ListTypes
<1>3. ListIs(s, k)' BY <1>1 DEF ListIs
<1>4. ListItems = ItemsOf(s, ListEnd(s, k)) BY ListReads
<1>5. ListItems' = ItemsOf(s, ListEnd(s, k))' BY <1>3, ItemsReadNext DEF ItemsRead
<1>6. ItemsOf(s, ListEnd(s, k))' = ItemsOf(s, ListEnd(s, k)) BY <1>1 DEF ItemsOf
<1> QED BY <1>2, <1>3, <1>4, <1>5, <1>6

LEMMA ListStepKeeps ==
    ASSUME ListInv, [ListStep]_listVars
    PROVE  ListInv' /\ ItemsStep(ListItems, ListItems') /\ kind' = kind
<1>1. ListTypes BY DEF ListInv
<1>2. PICK s, k : ListIs(s, k) BY DEF ListInv
<1>3. ASSUME NEW word \in Words, StartInsert(word)
      PROVE  ListInv' /\ ItemsStep(ListItems, ListItems') /\ kind' = kind
    <2>1. ListTypes' /\ ListIs(s, 0)' /\ ListItems' = ListItems BY <1>1, <1>2, <1>3, StartInsertKeeps
    <2> QED BY <1>3, <2>1 DEF ListInv, ItemsStep, StartInsert
<1>4. ASSUME NEW word \in Words, push_back(word) \/ push_front(word)
      PROVE  ListInv' /\ ItemsStep(ListItems, ListItems') /\ kind' = kind
    BY <1>1, <1>2, <1>4, PushKeeps DEF ListInv, push_back, push_front
<1>5. CASE WalkOn
    <2>1. ListTypes' /\ ListIs(s, k + 1)' /\ ListItems' = ListItems BY <1>1, <1>2, <1>5, WalkKeeps
    <2> QED BY <1>5, <2>1 DEF ListInv, ItemsStep, WalkOn
<1>6. CASE Link BY <1>1, <1>2, <1>6, LinkKeeps DEF ListInv, Link
<1>7. CASE StartFree
    <2>1. ListTypes' /\ ListIs(s, Len(s))' /\ ListItems' = ListItems BY <1>1, <1>2, <1>7, StartFreeKeeps
    <2> QED BY <1>7, <2>1 DEF ListInv, ItemsStep, StartFree
<1>8. CASE FreeTail BY <1>1, <1>2, <1>8, FreeKeeps DEF ListInv, FreeTail
<1>9. CASE pop_front BY <1>1, <1>2, <1>9, PopKeeps DEF ListInv, pop_front
<1>10. CASE UNCHANGED listVars
    <2>1. ListTypes' /\ ListIs(s, k)' /\ ListItems' = ListItems BY <1>1, <1>2, <1>10, ListStutters
    <2> QED BY <1>10, <2>1 DEF ListInv, ItemsStep, listVars
<1> QED BY <1>3, <1>4, <1>5, <1>6, <1>7, <1>8, <1>9, <1>10 DEF ListStep

LEMMA ListFirst == Init => \E K \in {"lab3", "LinkedList", "none"} : ListInit(K)
BY DEF Init, NoList

\* After any sequence of insertions and removals both readings of a list are one
\* and the same, num_nodes is its length, and free_list frees every node once
\* (linked_list.h of lab 3 and of LinkedList).
THEOREM ListsInOrder == Spec => []ListsLinked
<1>1. Init => ListInv BY ListFirst, ListInitially
<1>2. ListInv /\ [Next]_vars => ListInv'
    BY OneSteps, ListStepKeeps
<1>3. ListInv => ListsLinked BY ListsRead
<1> QED BY <1>1, <1>2, <1>3, PTL DEF Spec

\* The abstract list: each step of the program is one of its steps or none.
LEMMA AbstractFirst ==
    ASSUME NEW K \in {"lab3", "LinkedList", "none"}, ListInit(K) PROVE Abstract!Init
<1>1. Len(<<>>) = 0 /\ <<>> \in Seq(Nodes) OBVIOUS
<1>2. ListTypes /\ ListIs(<<>>, 0)
    <2>1. ListTypes BY ListsAssumption DEF ListInit, ListTypes, Nodes, NULL, NoWalk
    <2>2. Distinct(<<>>) BY <1>1 DEF Distinct
    <2> QED
        BY <1>1, <2>1, <2>2
        DEF ListInit, ListIs, Linked, Members, NodeAfter, NodeBefore, ListEnd
<1>3. ListEnd(<<>>, 0) = 0 BY <1>1 DEF ListEnd, ListInit
<1>4. ListItems = ItemsOf(<<>>, 0) BY <1>2, <1>3, ListReads
<1>5. ItemsOf(<<>>, 0) = <<>> BY DEF ItemsOf
<1>6. ListItems = <<>> BY <1>4, <1>5
<1> QED BY <1>6 DEF Abstract!Init, ListItems

LEMMA AbstractSteps ==
    ASSUME ItemsStep(ListItems, ListItems'), kind' = kind
    PROVE  [Abstract!Next]_<<kind = "lab3", ListItems>>
<1>1. CASE ListItems' = ListItems BY <1>1
<1>2. CASE \E n \in Nodes, w \in Words :
          /\ IsNewIn(ListItems, n)
          /\ IF kind = "lab3" THEN Inserts(ListItems, ListItems', <<n, w>>)
             ELSE ListItems' = Append(ListItems, <<n, w>>) \/ ListItems' = <<<<n, w>>>> \o ListItems
    <2> Abstract!Next
        BY <1>2 DEF Inserts, IsNewIn, ListItems, Abstract!Next, Abstract!IsNew,
           Abstract!InsertInOrder, Abstract!PushBack, Abstract!PushFront
    <2> QED OBVIOUS
<1>3. CASE kind = "lab3" /\ ListItems # <<>> /\ ListItems' = SubSeq(ListItems, 1, Len(ListItems) - 1)
    <2> Abstract!Next
        BY <1>3 DEF ListItems, Abstract!Next, Abstract!FreeLast
    <2> QED OBVIOUS
<1>4. CASE kind # "lab3" /\ ListItems # <<>> /\ ListItems' = Tail(ListItems)
    <2> Abstract!Next
        BY <1>4 DEF ListItems, Abstract!Next, Abstract!PopFront
    <2> QED OBVIOUS
<1> QED BY <1>1, <1>2, <1>3, <1>4 DEF ItemsStep

\* Each step of either program on its pointers is one step of the abstract list, or
\* none: words of lab 3 stay in order, an equal one goes behind those before it, and
\* LinkedList grows and shrinks at the right ends.
THEOREM ListsRefine == Spec => ImplementsList
<1>1. Init => ListInv /\ Abstract!Init BY ListFirst, ListInitially, AbstractFirst
<1>2. ListInv /\ [Next]_vars => ListInv' /\ [Abstract!Next]_<<kind = "lab3", ListItems>>
    BY OneSteps, ListStepKeeps, AbstractSteps
<1> QED BY <1>1, <1>2, PTL DEF Spec, ImplementsList, Abstract!Spec, ListItems

(***************************************************************************)
(* Quicksort: the places of an array of len elements, and the windows that *)
(* are still to be sorted: the calls to come, and lomuto's left and right. *)
(***************************************************************************)
Places(len) == 0 .. len - 1
Having(a, len, T) == {j \in Places(len) : a[j] \in T}

\* a and b hold the same elements, each as often.
SameCounts(a, b, len) ==
    \A T \in SUBSET Int : Cardinality(Having(a, len, T)) = Cardinality(Having(b, len, T))

Holds(w, k) == w[1] <= k /\ k <= w[2]
Apart(v, w) == \A k \in Int : ~ (Holds(v, k) /\ Holds(w, k))
Window(p) == <<p.left, p.right>>

\* The windows still to be sorted lie inside of the array and do not overlap.
WindowsIn(cs, w, len) ==
    /\ cs \in Seq(Int \X Int) /\ \A i \in 1 .. Len(cs) : 0 <= cs[i][1] /\ cs[i][2] <= len - 1
    /\ \A i \in 1 .. Len(cs) : Apart(w, cs[i])
    /\ \A i, j \in 1 .. Len(cs) : i # j => Apart(cs[i], cs[j])

OneWindow(cs, w, j, k) == \/ Holds(w, j) /\ Holds(w, k)
                          \/ \E i \in 1 .. Len(cs) : Holds(cs[i], j) /\ Holds(cs[i], k)

\* What is not in one of them is in order.
InOrder(a, cs, w, len) ==
    \A j, k \in Places(len) : j < k => a[j] <= a[k] \/ OneWindow(cs, w, j, k)

\* How far lomuto's loop has come: less than the pivot up to s, not less up to i.
PartIs(p, a, len) ==
    \/ p = NoPart
    \/ /\ p \in [left : Int, right : Int, s : Int, i : Int]
       /\ 0 <= p.left /\ p.left < p.right /\ p.right <= len - 1
       /\ p.left <= p.s /\ p.s < p.i /\ p.i <= p.right + 1
       /\ \A k \in p.left + 1 .. p.s : a[k] < a[p.left]
       /\ \A k \in p.s + 1 .. p.i - 1 : a[p.left] <= a[k]

QuickIs(elements, len, a, cs, p) ==
    /\ a \in [Places(len) -> Int]
    /\ SameCounts(a, elements, len)
    /\ PartIs(p, a, len)
    /\ WindowsIn(cs, Window(p), len)
    /\ InOrder(a, cs, Window(p), len)

\* Counting.
LEMMA FewerOrAsMany ==
    ASSUME NEW S, NEW T, IsFiniteSet(S), IsFiniteSet(T), NEW f \in [S -> T],
           \A x, y \in S : f[x] = f[y] => x = y
    PROVE  Cardinality(S) <= Cardinality(T)
<1>1. Cardinality(S) \in Nat /\ Cardinality(T) \in Nat BY FS_CardinalityType
<1>2. ~ (Cardinality(T) < Cardinality(S)) BY FS_PigeonHole
<1> QED BY <1>1, <1>2

LEMMA HavingFinite ==
    ASSUME NEW a, NEW len \in Nat, NEW T
    PROVE  IsFiniteSet(Having(a, len, T)) /\ Cardinality(Having(a, len, T)) \in Nat
<1>1. IsFiniteSet(Places(len)) BY FS_Interval DEF Places
<1>2. Having(a, len, T) \in SUBSET Places(len) BY DEF Having
<1> QED BY <1>1, <1>2, FS_Subset, FS_CardinalityType

Swapped(a, i, j) == [a EXCEPT ![i] = a[j], ![j] = a[i]]

LEMMA SwapIs ==
    ASSUME NEW len \in Nat, NEW a \in [Places(len) -> Int], NEW i \in Places(len), NEW j \in Places(len)
    PROVE  /\ Swapped(a, i, j) \in [Places(len) -> Int]
           /\ Swapped(a, i, j)[i] = a[j] /\ Swapped(a, i, j)[j] = a[i]
           /\ \A k \in Places(len) : k # i /\ k # j => Swapped(a, i, j)[k] = a[k]
BY DEF Swapped

LEMMA SwapCounts ==
    ASSUME NEW len \in Nat, NEW a \in [Places(len) -> Int], NEW i \in Places(len), NEW j \in Places(len),
           NEW elements, SameCounts(a, elements, len)
    PROVE  SameCounts(Swapped(a, i, j), elements, len)
<1> DEFINE b == Swapped(a, i, j)
<1>1. /\ b \in [Places(len) -> Int] /\ b[i] = a[j] /\ b[j] = a[i]
      /\ \A k \in Places(len) : k # i /\ k # j => b[k] = a[k]
    BY SwapIs
<1> HIDE DEF b
<1> DEFINE to(k) == IF k = i THEN j ELSE IF k = j THEN i ELSE k
<1>2. \A k \in Places(len) : /\ to(k) \in Places(len) /\ b[to(k)] = a[k] /\ a[to(k)] = b[k]
    BY <1>1
<1>3. \A x, y \in Places(len) : to(x) = to(y) => x = y OBVIOUS
<1> HIDE DEF to
<1>4. ASSUME NEW T \in SUBSET Int
      PROVE  Cardinality(Having(b, len, T)) = Cardinality(Having(a, len, T))
    <2> DEFINE A == Having(a, len, T)
               B == Having(b, len, T)
    <2>1. /\ IsFiniteSet(A) /\ IsFiniteSet(B)
          /\ Cardinality(A) \in Nat /\ Cardinality(B) \in Nat
        BY HavingFinite
    <2>2. /\ [k \in A |-> to(k)] \in [A -> B]
          /\ [k \in B |-> to(k)] \in [B -> A]
        BY <1>2 DEF Having
    <2>3. A \subseteq Places(len) /\ B \subseteq Places(len) BY DEF Having
    <2> HIDE DEF A, B
    <2>4. /\ \A x, y \in A : [k \in A |-> to(k)][x] = [k \in A |-> to(k)][y] => x = y
          /\ \A x, y \in B : [k \in B |-> to(k)][x] = [k \in B |-> to(k)][y] => x = y
        BY <1>3, <2>3
    <2>5. Cardinality(A) <= Cardinality(B) BY <2>1, <2>2, <2>4, FewerOrAsMany
    <2>6. Cardinality(B) <= Cardinality(A) BY <2>1, <2>2, <2>4, FewerOrAsMany
    <2>7. Cardinality(A) = Cardinality(B) BY <2>1, <2>5, <2>6
    <2> QED BY <2>7 DEF A, B
<1> QED BY <1>4 DEF SameCounts, b

\* An element that is in order with all others has a place of its rank.
LEMMA RankIs ==
    ASSUME NEW len \in Nat, NEW a \in [Places(len) -> Int], NEW elements, SameCounts(a, elements, len),
           elements \in [Places(len) -> Int],
           NEW k \in Places(len), \A j \in Places(len) : j < k => a[j] <= a[k],
           \A j \in Places(len) : k < j => a[k] <= a[j]
    PROVE  k \in Cardinality({j \in Places(len) : elements[j] < a[k]})
                     .. Cardinality({j \in Places(len) : elements[j] <= a[k]}) - 1
<1> DEFINE v == a[k]
           L == {x \in Int : x < v}
           M == {x \in Int : x <= v}
<1>1. L \in SUBSET Int /\ M \in SUBSET Int /\ v \in Int /\ k \in Nat BY DEF Places
<1>2. /\ {j \in Places(len) : elements[j] < v} = Having(elements, len, L)
      /\ {j \in Places(len) : elements[j] <= v} = Having(elements, len, M)
    BY DEF Having
<1>3. /\ Cardinality(Having(elements, len, L)) = Cardinality(Having(a, len, L))
      /\ Cardinality(Having(elements, len, M)) = Cardinality(Having(a, len, M))
    BY <1>1 DEF SameCounts
<1>4. Having(a, len, L) \subseteq 0 .. k - 1
    <2> SUFFICES ASSUME NEW j \in Places(len), a[j] < v PROVE j < k BY DEF Having, Places
    <2>1. a[j] \in Int /\ ~ (v <= a[j]) BY <1>1
    <2>2. ~ (k < j) /\ j # k BY <2>1
    <2> QED BY <2>2 DEF Places
<1>5. 0 .. k \subseteq Having(a, len, M)
    <2> SUFFICES ASSUME NEW j \in 0 .. k PROVE j \in Places(len) /\ a[j] \in Int /\ a[j] <= v BY DEF Having
    <2>1. j \in Places(len) /\ a[j] \in Int /\ (j < k \/ j = k) BY DEF Places
    <2> QED BY <1>1, <2>1
<1> HIDE DEF v, L, M
<1>6. /\ IsFiniteSet(Having(a, len, L)) /\ IsFiniteSet(Having(a, len, M))
      /\ Cardinality(Having(a, len, L)) \in Nat /\ Cardinality(Having(a, len, M)) \in Nat
    BY HavingFinite
<1>7. /\ IsFiniteSet(0 .. k - 1) /\ Cardinality(0 .. k - 1) = k
      /\ IsFiniteSet(0 .. k) /\ Cardinality(0 .. k) = k + 1
    <2>1. k \in Int /\ k - 1 \in Int /\ 0 \in Int BY <1>1
    <2>2. /\ IsFiniteSet(0 .. k - 1)
          /\ Cardinality(0 .. k - 1) = IF 0 > k - 1 THEN 0 ELSE (k - 1) - 0 + 1
        BY ONLY <2>1, FS_Interval
    <2>3. IsFiniteSet(0 .. k) /\ Cardinality(0 .. k) = IF 0 > k THEN 0 ELSE k - 0 + 1
        BY ONLY <2>1, FS_Interval
    <2> QED BY ONLY <1>1, <2>2, <2>3
<1> DEFINE below == Cardinality(Having(a, len, L))
           upTo == Cardinality(Having(a, len, M))
<1>8. below <= k
    <2>1. Having(a, len, L) \in SUBSET (0 .. k - 1) BY <1>4
    <2>2. Cardinality(Having(a, len, L)) <= Cardinality(0 .. k - 1) BY ONLY <1>7, <2>1, FS_Subset
    <2> QED BY <1>7, <2>2
<1>9. k + 1 <= upTo
    <2>1. 0 .. k \in SUBSET Having(a, len, M) BY <1>5
    <2>2. Cardinality(0 .. k) <= Cardinality(Having(a, len, M)) BY ONLY <1>6, <2>1, FS_Subset
    <2> QED BY <1>7, <2>2
<1>10. below \in Nat /\ upTo \in Nat BY <1>6
<1>11. /\ Cardinality({j \in Places(len) : elements[j] < v}) = below
       /\ Cardinality({j \in Places(len) : elements[j] <= v}) = upTo
    BY <1>2, <1>3
<1> HIDE DEF below, upTo
<1>12. k \in below .. upTo - 1 BY ONLY <1>1, <1>8, <1>9, <1>10
<1> QED BY <1>11, <1>12 DEF v

NoWindow == <<0, -1>>

LEMMA NoWindowHolds == /\ Window(NoPart) = NoWindow
                       /\ \A k \in Int : ~ Holds(NoWindow, k)
                       /\ \A w : Apart(NoWindow, w)
<1>1. Window(NoPart) = NoWindow BY DEF Window, NoPart, NoWindow
<1>2. \A k \in Int : ~ Holds(NoWindow, k) BY DEF NoWindow, Holds
<1> QED BY <1>1, <1>2 DEF Apart

\* Two elements of one window may be swapped.
LEMMA SwapInWindow ==
    ASSUME NEW len \in Nat, NEW a \in [Places(len) -> Int], NEW cs, NEW w \in Int \X Int,
           WindowsIn(cs, w, len), InOrder(a, cs, w, len),
           NEW i \in Places(len), NEW j \in Places(len), Holds(w, i), Holds(w, j)
    PROVE  InOrder(Swapped(a, i, j), cs, w, len)
<1> DEFINE b == Swapped(a, i, j)
           to(k) == IF k = i THEN j ELSE IF k = j THEN i ELSE k
<1>1. /\ b[i] = a[j] /\ b[j] = a[i]
      /\ \A k \in Places(len) : k # i /\ k # j => b[k] = a[k]
    BY SwapIs
<1> HIDE DEF b
<1>2. \A k \in Places(len) : /\ to(k) \in Places(len) /\ b[k] = a[to(k)]
                             /\ Holds(w, to(k)) <=> Holds(w, k)
                             /\ ~ Holds(w, k) => to(k) = k
    BY <1>1
<1> HIDE DEF to
<1>3. Places(len) \subseteq Int BY DEF Places
<1>4. \A k, c \in Places(len) : Holds(w, k) /\ ~ Holds(w, c) =>
          ~ \E m \in 1 .. Len(cs) : Holds(cs[m], k) /\ Holds(cs[m], c)
    BY <1>3 DEF WindowsIn, Apart
<1> SUFFICES ASSUME NEW x \in Places(len), NEW y \in Places(len), x < y
             PROVE  b[x] <= b[y] \/ OneWindow(cs, w, x, y)
    BY DEF InOrder, b
<1>5. CASE Holds(w, x) /\ Holds(w, y) BY <1>5 DEF OneWindow
<1>6. CASE ~ Holds(w, x) /\ ~ Holds(w, y) BY <1>2, <1>6 DEF InOrder
<1>7. CASE ~ Holds(w, x) /\ Holds(w, y)
    <2>1. x < to(y) /\ to(y) \in Places(len) /\ Holds(w, to(y))
        <3>1. Holds(w, to(y)) /\ to(y) \in Places(len) BY <1>2, <1>7
        <3>2. x < w[1] /\ w[1] <= to(y) /\ x \in Int /\ to(y) \in Int /\ w[1] \in Int
            BY <1>3, <1>7, <3>1 DEF Holds
        <3> QED BY <3>1, <3>2
    <2>2. a[x] <= a[to(y)] \/ OneWindow(cs, w, x, to(y)) BY <2>1 DEF InOrder
    <2>3. ~ OneWindow(cs, w, x, to(y)) BY <1>4, <1>7, <2>1 DEF OneWindow
    <2> QED BY <1>2, <1>7, <2>2, <2>3
<1>8. CASE Holds(w, x) /\ ~ Holds(w, y)
    <2>1. to(x) < y /\ to(x) \in Places(len) /\ Holds(w, to(x))
        <3>1. Holds(w, to(x)) /\ to(x) \in Places(len) BY <1>2, <1>8
        <3>2. w[2] < y /\ to(x) <= w[2] /\ y \in Int /\ to(x) \in Int /\ w[2] \in Int
            BY <1>3, <1>8, <3>1 DEF Holds
        <3> QED BY <3>1, <3>2
    <2>2. a[to(x)] <= a[y] \/ OneWindow(cs, w, to(x), y) BY <2>1 DEF InOrder
    <2>3. ~ OneWindow(cs, w, to(x), y) BY <1>4, <1>8, <2>1 DEF OneWindow
    <2> QED BY <1>2, <1>8, <2>2, <2>3
<1> QED BY <1>5, <1>6, <1>7, <1>8

LEMMA HelperKeeps ==
    ASSUME NEW elements, NEW len \in Nat, QuickIs(elements, len, array, calls, part), quicksort_helper
    PROVE  QuickIs(elements, len, array', calls', part')
<1> DEFINE w == calls[1]
           cs == Tail(calls)
<1>1. /\ part = NoPart /\ calls # <<>> /\ array' = array /\ calls' = cs
      /\ part' = IF w[1] < w[2] THEN [left |-> w[1], right |-> w[2], s |-> w[1], i |-> w[1] + 1]
                 ELSE NoPart
    BY DEF quicksort_helper
<1>2. /\ calls \in Seq(Int \X Int) /\ WindowsIn(calls, NoWindow, len)
      /\ InOrder(array, calls, NoWindow, len)
    BY <1>1, NoWindowHolds DEF QuickIs, WindowsIn
<1>3. /\ cs \in Seq(Int \X Int) /\ Len(calls) \in Nat /\ 1 \in 1 .. Len(calls)
      /\ Len(cs) = Len(calls) - 1
      /\ \A i \in 1 .. Len(calls) - 1 : cs[i] = calls[i + 1]
    BY <1>1, <1>2, TailIs
<1>4. w \in Int \X Int /\ 0 <= w[1] /\ w[2] <= len - 1
    BY <1>2, <1>3, ItemType DEF WindowsIn
<1> HIDE DEF w, cs
<1>5. \A i \in 1 .. Len(calls) - 1 : i + 1 \in 1 .. Len(calls) /\ i + 1 # 1 BY <1>3
<1>6. \A i, j \in 1 .. Len(calls) - 1 : i # j => i + 1 # j + 1 BY <1>3
<1>7. WindowsIn(cs, w, len) /\ WindowsIn(cs, NoWindow, len)
    <2>1. \A i \in 1 .. Len(cs) : 0 <= cs[i][1] /\ cs[i][2] <= len - 1 BY <1>2, <1>3, <1>5 DEF WindowsIn
    <2>2. \A i \in 1 .. Len(cs) : Apart(w, cs[i])
        BY <1>2, <1>3, <1>5 DEF WindowsIn, w
    <2>3. \A i, j \in 1 .. Len(cs) : i # j => Apart(cs[i], cs[j])
        BY <1>2, <1>3, <1>5, <1>6 DEF WindowsIn
    <2> QED BY <1>3, <2>1, <2>2, <2>3, NoWindowHolds DEF WindowsIn
<1>8. \A j, k \in Int : OneWindow(calls, NoWindow, j, k) =>
          (Holds(w, j) /\ Holds(w, k)) \/ \E i \in 1 .. Len(cs) : Holds(cs[i], j) /\ Holds(cs[i], k)
    <2> SUFFICES ASSUME NEW j \in Int, NEW k \in Int, NEW m \in 1 .. Len(calls),
                        Holds(calls[m], j), Holds(calls[m], k), m # 1
                 PROVE  \E i \in 1 .. Len(cs) : Holds(cs[i], j) /\ Holds(cs[i], k)
        BY NoWindowHolds DEF OneWindow, w
    <2>1. m - 1 \in 1 .. Len(calls) - 1 /\ (m - 1) + 1 = m BY <1>3
    <2>2. m - 1 \in 1 .. Len(cs) /\ cs[m - 1] = calls[m] BY <1>3, <2>1
    <2> QED BY <2>2
<1>9. Places(len) \subseteq Int BY DEF Places
<1>10. CASE w[1] < w[2]
    <2>1. part' = [left |-> w[1], right |-> w[2], s |-> w[1], i |-> w[1] + 1] BY <1>1, <1>10
    <2>2. Window(part') = w BY <1>4, <2>1 DEF Window
    <2>3. PartIs(part', array, len)
        <3>1. part' \in [left : Int, right : Int, s : Int, i : Int] BY <1>4, <2>1
        <3>2. /\ 0 <= part'.left /\ part'.left < part'.right /\ part'.right <= len - 1
              /\ part'.left <= part'.s /\ part'.s < part'.i /\ part'.i <= part'.right + 1
              /\ part'.left + 1 .. part'.s = {} /\ part'.s + 1 .. part'.i - 1 = {}
            BY <1>4, <1>10, <2>1
        <3> QED BY <3>1, <3>2 DEF PartIs
    <2>4. InOrder(array, cs, w, len) BY <1>2, <1>8, <1>9 DEF InOrder, OneWindow
    <2> QED BY <1>1, <1>7, <2>2, <2>3, <2>4 DEF QuickIs
<1>11. CASE ~ (w[1] < w[2])
    <2>1. part' = NoPart BY <1>1, <1>11
    <2>2. \A j, k \in Places(len) : j < k => ~ (Holds(w, j) /\ Holds(w, k))
        BY <1>4, <1>9, <1>11 DEF Holds
    <2>3. InOrder(array, cs, NoWindow, len) BY <1>2, <1>8, <1>9, <2>2 DEF InOrder, OneWindow
    <2> QED BY <1>1, <1>7, <2>1, <2>3, NoWindowHolds DEF QuickIs, PartIs
<1> QED BY <1>10, <1>11

LEMMA CompareKeeps ==
    ASSUME NEW elements, NEW len \in Nat, QuickIs(elements, len, array, calls, part), Compare
    PROVE  QuickIs(elements, len, array', calls', part')
<1> DEFINE l == part.left
           r == part.right
           s == part.s
           i == part.i
           a == array
<1>1. /\ part # NoPart /\ i <= r /\ calls' = calls
      /\ a \in [Places(len) -> Int] /\ SameCounts(a, elements, len)
      /\ part \in [left : Int, right : Int, s : Int, i : Int]
      /\ l \in Int /\ r \in Int /\ s \in Int /\ i \in Int
      /\ 0 <= l /\ l < r /\ r <= len - 1 /\ l <= s /\ s < i
      /\ \A k \in l + 1 .. s : a[k] < a[l]
      /\ \A k \in s + 1 .. i - 1 : a[l] <= a[k]
      /\ WindowsIn(calls, Window(part), len) /\ InOrder(a, calls, Window(part), len)
    BY DEF Compare, QuickIs, PartIs
<1>2. /\ l \in Places(len) /\ s + 1 \in Places(len) /\ i \in Places(len)
      /\ \A k \in l .. r : k \in Places(len)
    <2>1. PICK x \in Int : x = l BY <1>1
    <2>2. PICK y \in Int : y = r BY <1>1
    <2>3. PICK z \in Int : z = s BY <1>1
    <2>4. PICK w \in Int : w = i BY <1>1
    <2>5. 0 <= x /\ x < y /\ y <= len - 1 /\ x <= z /\ z < w /\ w <= y
        BY <1>1, <2>1, <2>2, <2>3, <2>4
    <2>6. /\ x \in Places(len) /\ z + 1 \in Places(len) /\ w \in Places(len)
          /\ \A k \in x .. y : k \in Places(len)
        BY ONLY <2>5, len \in Nat, x \in Int, y \in Int, z \in Int, w \in Int DEF Places
    <2> HIDE DEF l, r, s, i
    <2> QED BY ONLY <2>1, <2>2, <2>3, <2>4, <2>6
<1>3. CASE a[i] < a[l]
    <2>1. /\ array' = Swapped(a, s + 1, i) /\ part' = [part EXCEPT !.s = s + 1, !.i = i + 1]
        BY <1>1, <1>3 DEF Compare, Less, swap, Swapped
    <2>2. /\ part' \in [left : Int, right : Int, s : Int, i : Int] /\ Window(part') = Window(part)
          /\ part'.left = l /\ part'.right = r /\ part'.s = s + 1 /\ part'.i = i + 1
        <3>1. s + 1 \in Int /\ i + 1 \in Int BY <1>1
        <3>2. /\ part'.left = l /\ part'.right = r /\ part'.s = s + 1 /\ part'.i = i + 1
            BY <1>1, <2>1
        <3>3. part' \in [left : Int, right : Int, s : Int, i : Int] BY <1>1, <2>1, <3>1
        <3> QED BY <3>2, <3>3 DEF Window
    <2> DEFINE b == Swapped(a, s + 1, i)
    <2>3. /\ b \in [Places(len) -> Int] /\ b[s + 1] = a[i] /\ b[i] = a[s + 1]
          /\ \A k \in Places(len) : k # s + 1 /\ k # i => b[k] = a[k]
        BY <1>1, <1>2, SwapIs
    <2>4. SameCounts(b, elements, len) BY <1>1, <1>2, SwapCounts
    <2>5. InOrder(b, calls, Window(part), len)
        <3>1. Holds(Window(part), s + 1) /\ Holds(Window(part), i) /\ Window(part) \in Int \X Int
            BY <1>1 DEF Holds, Window
        <3> QED BY <1>1, <1>2, <3>1, SwapInWindow
    <2> HIDE DEF b
    <2>6. b[l] = a[l] BY <1>1, <1>2, <2>3
    <2>7. \A k \in l + 1 .. s + 1 : b[k] < b[l]
        <3> SUFFICES ASSUME NEW k \in l + 1 .. s + 1 PROVE b[k] < b[l] OBVIOUS
        <3>1. CASE k = s + 1 BY <1>3, <2>3, <2>6, <3>1
        <3>2. CASE k # s + 1
            <4>1. k \in l + 1 .. s /\ k \in l .. r /\ k # i BY <1>1, <3>2
            <4> QED BY <1>1, <1>2, <2>3, <2>6, <3>2, <4>1
        <3> QED BY <3>1, <3>2
    <2>8. \A k \in s + 2 .. i : b[l] <= b[k]
        <3> SUFFICES ASSUME NEW k \in s + 2 .. i PROVE b[l] <= b[k] OBVIOUS
        <3>1. CASE k = i
            <4>1. s + 1 \in s + 1 .. i - 1 BY <1>1, <3>1
            <4> QED BY <1>1, <2>3, <2>6, <3>1, <4>1
        <3>2. CASE k # i
            <4>1. k \in s + 1 .. i - 1 /\ k \in l .. r /\ k # s + 1 BY <1>1, <3>2
            <4> QED BY <1>1, <1>2, <2>3, <2>6, <3>2, <4>1
        <3> QED BY <3>1, <3>2
    <2>9. PartIs(part', b, len)
        <3>1. /\ (s + 1) + 1 = s + 2 /\ (i + 1) - 1 = i
              /\ l <= s + 1 /\ s + 1 < i + 1 /\ i + 1 <= r + 1
            BY <1>1
        <3> QED BY <1>1, <2>2, <2>7, <2>8, <3>1 DEF PartIs
    <2>10. array' = b BY <2>1 DEF b
    <2> QED BY <1>1, <2>2, <2>3, <2>4, <2>5, <2>9, <2>10 DEF QuickIs
<1>4. CASE ~ (a[i] < a[l])
    <2>1. array' = a /\ part' = [part EXCEPT !.i = i + 1] BY <1>1, <1>4 DEF Compare, Less
    <2>2. /\ part' \in [left : Int, right : Int, s : Int, i : Int] /\ Window(part') = Window(part)
          /\ part'.left = l /\ part'.right = r /\ part'.s = s /\ part'.i = i + 1
        BY <1>1, <2>1 DEF Window
    <2>3. \A k \in s + 1 .. i : a[l] <= a[k]
        <3> SUFFICES ASSUME NEW k \in s + 1 .. i PROVE a[l] <= a[k] OBVIOUS
        <3>1. CASE k = i
            <4>1. a[i] \in Int /\ a[l] \in Int BY <1>1, <1>2
            <4> QED BY <1>4, <3>1, <4>1
        <3>2. CASE k # i
            <4>1. k \in s + 1 .. i - 1 BY <1>1, <3>2
            <4> QED BY <1>1, <4>1
        <3> QED BY <3>1, <3>2
    <2>4. PartIs(part', a, len)
        <3>1. (i + 1) - 1 = i /\ s < i + 1 /\ i + 1 <= r + 1 BY <1>1
        <3> QED BY <1>1, <2>2, <2>3, <3>1 DEF PartIs
    <2> QED BY <1>1, <2>1, <2>2, <2>4 DEF QuickIs
<1> QED BY <1>3, <1>4

LEMMA PlaceKeeps ==
    ASSUME NEW elements, NEW len \in Nat, QuickIs(elements, len, array, calls, part), PlacePivot
    PROVE  QuickIs(elements, len, array', calls', part')
<1> DEFINE l == part.left
           r == part.right
           s == part.s
           a == array
           w == Window(part)
           v1 == <<l, s - 1>>
           v2 == <<s + 1, r>>
           cs == <<v1, v2>> \o calls
           b == Swapped(a, l, s)
           n == Len(calls)
<1>1. /\ part # NoPart /\ a \in [Places(len) -> Int] /\ SameCounts(a, elements, len)
      /\ l \in Int /\ r \in Int /\ s \in Int
      /\ 0 <= l /\ l < r /\ r <= len - 1 /\ l <= s /\ s <= r
      /\ \A k \in l + 1 .. s : a[k] < a[l]
      /\ \A k \in s + 1 .. r : a[l] <= a[k]
      /\ WindowsIn(calls, w, len) /\ InOrder(a, calls, w, len)
    <2>1. /\ part # NoPart /\ a \in [Places(len) -> Int] /\ SameCounts(a, elements, len)
          /\ part \in [left : Int, right : Int, s : Int, i : Int]
          /\ 0 <= l /\ l < r /\ r <= len - 1 /\ l <= s /\ s < part.i /\ part.i <= r + 1
          /\ \A k \in l + 1 .. s : a[k] < a[l]
          /\ \A k \in s + 1 .. part.i - 1 : a[l] <= a[k]
          /\ WindowsIn(calls, w, len) /\ InOrder(a, calls, w, len)
          /\ part.i > r
        BY DEF PlacePivot, QuickIs, PartIs
    <2>2. part.i = r + 1 /\ part.i - 1 = r /\ s <= r BY <2>1
    <2>3. \A k \in s + 1 .. r : a[l] <= a[k] BY <2>1, <2>2
    <2> QED BY <2>1, <2>2, <2>3
<1>2. /\ l \in Places(len) /\ s \in Places(len) /\ Places(len) \subseteq Int
      /\ \A k \in l .. r : k \in Places(len)
    BY <1>1 DEF Places
<1>3. array' = b /\ calls' = cs /\ part' = NoPart BY DEF PlacePivot, swap, Swapped
<1>4. /\ b \in [Places(len) -> Int] /\ b[l] = a[s] /\ b[s] = a[l]
      /\ \A k \in Places(len) : k # l /\ k # s => b[k] = a[k]
    BY <1>1, <1>2, SwapIs
<1>5. SameCounts(b, elements, len) BY <1>1, <1>2, SwapCounts
<1>6. w \in Int \X Int /\ w[1] = l /\ w[2] = r BY <1>1 DEF Window
<1>7. InOrder(b, calls, w, len)
    <2>1. Holds(w, l) /\ Holds(w, s) BY <1>1, <1>6 DEF Holds
    <2> QED BY <1>1, <1>2, <1>6, <2>1, SwapInWindow
<1> HIDE DEF b, w
<1>8. \A k \in l .. s - 1 : b[k] <= b[s]
    <2> SUFFICES ASSUME NEW k \in l .. s - 1 PROVE b[k] <= b[s] OBVIOUS
    <2>1. k \in l .. r /\ k # s /\ k \in Places(len) BY <1>1, <1>2
    <2>2. a[l] \in Int /\ a[s] \in Int /\ a[k] \in Int BY <1>1, <1>2, <2>1
    <2>3. CASE k = l
        <3>1. s \in l + 1 .. s BY <1>1, <2>3
        <3>2. a[s] < a[l] BY <1>1, <3>1
        <3> QED BY <1>4, <2>2, <2>3, <3>2
    <2>4. CASE k # l
        <3>1. k \in l + 1 .. s BY <1>1, <2>4
        <3>2. a[k] < a[l] BY <1>1, <3>1
        <3> QED BY <1>4, <2>1, <2>2, <2>4, <3>2
    <2> QED BY <2>3, <2>4
<1>9. \A k \in s + 1 .. r : b[s] <= b[k]
    <2> SUFFICES ASSUME NEW k \in s + 1 .. r PROVE b[s] <= b[k] OBVIOUS
    <2>1. k \in l .. r /\ k # s /\ k # l /\ k \in Places(len) BY <1>1, <1>2
    <2> QED BY <1>1, <1>4, <2>1
<1>10. /\ calls \in Seq(Int \X Int) /\ n \in Nat /\ v1 \in Int \X Int /\ v2 \in Int \X Int
       /\ v1[1] = l /\ v1[2] = s - 1 /\ v2[1] = s + 1 /\ v2[2] = r
    BY <1>1 DEF WindowsIn
<1> HIDE DEF v1, v2
<1>11. /\ cs \in Seq(Int \X Int) /\ Len(cs) = n + 2 /\ cs[1] = v1 /\ cs[2] = v2
       /\ \A i \in 3 .. n + 2 : cs[i] = calls[i - 2]
    BY <1>10, TwoMore
<1> HIDE DEF cs
<1>12. /\ \A k \in Int : Holds(v1, k) => Holds(w, k)
       /\ \A k \in Int : Holds(v2, k) => Holds(w, k)
       /\ Apart(v1, v2) /\ Apart(v2, v1)
    <2>1. /\ \A k \in Int : Holds(v1, k) <=> l <= k /\ k <= s - 1
          /\ \A k \in Int : Holds(v2, k) <=> s + 1 <= k /\ k <= r
          /\ \A k \in Int : Holds(w, k) <=> l <= k /\ k <= r
        BY <1>6, <1>10 DEF Holds
    <2>2. \A k \in Int : ~ (k <= s - 1 /\ s + 1 <= k) BY <1>1
    <2>3. \A k \in Int : (k <= s - 1 => k <= r) /\ (s + 1 <= k => l <= k) BY <1>1
    <2> HIDE DEF l, r, s, w
    <2> QED BY ONLY <2>1, <2>2, <2>3 DEF Apart
<1>13. \A i \in 1 .. n + 2 : i = 1 \/ i = 2 \/ (i \in 3 .. n + 2 /\ i - 2 \in 1 .. n) BY <1>10
<1>14. WindowsIn(cs, NoWindow, len)
    <2>1. \A i \in 1 .. n : /\ 0 <= calls[i][1] /\ calls[i][2] <= len - 1
                            /\ Apart(w, calls[i])
        BY <1>1 DEF WindowsIn
    <2>a. 0 <= v1[1] /\ v1[2] <= len - 1 /\ 0 <= v2[1] /\ v2[2] <= len - 1 BY <1>1, <1>10
    <2>2. ASSUME NEW i \in 1 .. n + 2 PROVE 0 <= cs[i][1] /\ cs[i][2] <= len - 1
        <3>1. CASE i = 1
            <4>1. cs[i] = v1 BY <1>11, <3>1
            <4> QED BY <2>a, <4>1
        <3>2. CASE i = 2
            <4>1. cs[i] = v2 BY <1>11, <3>2
            <4> QED BY <2>a, <4>1
        <3>3. CASE i \in 3 .. n + 2 /\ i - 2 \in 1 .. n BY <1>11, <2>1, <3>3
        <3> QED BY <1>13, <3>1, <3>2, <3>3
    <2>3. \A i \in 1 .. n : /\ Apart(v1, calls[i]) /\ Apart(v2, calls[i])
                            /\ Apart(calls[i], v1) /\ Apart(calls[i], v2)
        BY <1>12, <2>1 DEF Apart
    <2>4. ASSUME NEW i \in 1 .. n + 2, NEW j \in 1 .. n + 2, i # j PROVE Apart(cs[i], cs[j])
        <3>1. CASE i \in {1, 2} /\ j \in {1, 2} BY <1>11, <1>12, <2>4, <3>1
        <3>2. CASE i \in {1, 2} /\ j \in 3 .. n + 2 /\ j - 2 \in 1 .. n BY <1>11, <2>3, <3>2
        <3>3. CASE j \in {1, 2} /\ i \in 3 .. n + 2 /\ i - 2 \in 1 .. n BY <1>11, <2>3, <3>3
        <3>4. CASE i \in 3 .. n + 2 /\ i - 2 \in 1 .. n /\ j \in 3 .. n + 2 /\ j - 2 \in 1 .. n
            <4>1. i - 2 # j - 2 BY <2>4
            <4>2. Apart(calls[i - 2], calls[j - 2]) BY <1>1, <3>4, <4>1 DEF WindowsIn
            <4> QED BY <1>11, <3>4, <4>2
        <3> QED BY <1>13, <3>1, <3>2, <3>3, <3>4
    <2> QED BY <1>11, <2>2, <2>4, NoWindowHolds DEF WindowsIn
<1>15. InOrder(b, cs, NoWindow, len)
    <2> SUFFICES ASSUME NEW x \in Places(len), NEW y \in Places(len), x < y
                 PROVE  b[x] <= b[y] \/ OneWindow(cs, NoWindow, x, y)
        BY DEF InOrder
    <2>0. x \in Int /\ y \in Int BY <1>2
    <2>1. CASE b[x] <= b[y] BY <2>1
    <2>2. ASSUME NEW i \in 1 .. n, Holds(calls[i], x), Holds(calls[i], y)
          PROVE  OneWindow(cs, NoWindow, x, y)
        <3>1. i + 2 \in 3 .. n + 2 /\ (i + 2) - 2 = i /\ i + 2 \in 1 .. n + 2 BY <1>10
        <3>2. cs[i + 2] = calls[i] BY <1>11, <3>1
        <3> QED BY <1>11, <2>2, <3>1, <3>2 DEF OneWindow
    <2>3. CASE Holds(w, x) /\ Holds(w, y)
        <3>1. l <= x /\ x < y /\ y <= r BY <1>6, <2>3 DEF Holds
        <3>2. 1 \in 1 .. n + 2 /\ 2 \in 1 .. n + 2 BY <1>10
        <3>3. CASE y < s
            <4>2. l <= x /\ x <= s - 1 /\ l <= y /\ y <= s - 1 BY <1>1, <2>0, <3>1, <3>3
            <4>3. Holds(v1, x) /\ Holds(v1, y) BY ONLY <1>10, <4>2 DEF Holds
            <4>1. Holds(cs[1], x) /\ Holds(cs[1], y) BY <1>11, <4>3
            <4> QED BY <1>11, <3>2, <4>1 DEF OneWindow
        <3>4. CASE s < x
            <4>2. s + 1 <= x /\ x <= r /\ s + 1 <= y /\ y <= r BY <1>1, <2>0, <3>1, <3>4
            <4>3. Holds(v2, x) /\ Holds(v2, y) BY ONLY <1>10, <4>2 DEF Holds
            <4>1. Holds(cs[2], x) /\ Holds(cs[2], y) BY <1>11, <4>3
            <4> QED BY <1>11, <3>2, <4>1 DEF OneWindow
        <3>5. CASE ~ (y < s) /\ ~ (s < x)
            <4>1. (x = s \/ x \in l .. s - 1) /\ (y = s \/ y \in s + 1 .. r)
                BY <1>1, <2>0, <3>1, <3>5
            <4>2. b[x] \in Int /\ b[y] \in Int /\ b[s] \in Int BY <1>2, <1>4
            <4>3. b[x] <= b[s] /\ b[s] <= b[y] BY <1>8, <1>9, <4>1, <4>2
            <4> QED BY <4>2, <4>3
        <3> QED BY <3>3, <3>4, <3>5
    <2>4. b[x] <= b[y] \/ OneWindow(calls, w, x, y) BY <1>7 DEF InOrder
    <2> QED BY <2>1, <2>2, <2>3, <2>4 DEF OneWindow
<1> QED BY <1>3, <1>4, <1>5, <1>14, <1>15, NoWindowHolds DEF QuickIs, PartIs

LEMMA QuickStep ==
    ASSUME NEW elements, NEW len \in Nat, QuickIs(elements, len, array, calls, part),
           SortStep \/ UNCHANGED quickVars
    PROVE  QuickIs(elements, len, array', calls', part')
<1>1. CASE quicksort_helper BY <1>1, HelperKeeps
<1>2. CASE Compare BY <1>2, CompareKeeps
<1>3. CASE PlacePivot BY <1>3, PlaceKeeps
<1>4. CASE UNCHANGED quickVars BY <1>4 DEF quickVars
<1> QED BY <1>1, <1>2, <1>3, <1>4 DEF SortStep

Length(c) == Len(FlattenSeq(c.lines))

SortInv ==
    /\ spc \in {"none", "options", "read", "sort", "print", "returned", "crashed", "failed"}
    /\ spc \notin {"none", "failed"} => command \in SortCommands
    /\ spc \in {"options", "read", "print", "returned", "crashed"} => calls = <<>> /\ part = NoPart
    /\ spc \in {"read", "sort", "print", "returned", "crashed"} => command.opened
    /\ spc \in {"sort", "print", "returned", "crashed"} =>
          QuickIs(Elements(command), Length(command), array, calls, part)
    /\ spc \in {"returned", "crashed"} =>
          sprinted = [k \in 1 .. Length(command) |-> array[k - 1]]

\* What is read of the file are numbers, one of each piece.
LEMMA ElementsAre ==
    ASSUME NEW c \in SortCommands, c.opened
    PROVE  /\ Length(c) \in Nat /\ Elements(c) \in [Places(Length(c)) -> Int]
           /\ DOMAIN Elements(c) = Places(Length(c))
<1> DEFINE pieces == FlattenSeq(c.lines)
<1>1. pieces \in Seq(Pieces) /\ Value \in [Types -> [Pieces -> Int]] BY SortFileAssumption
<1>2. ElementType(c) \in Types BY DEF ElementType, TypeOfOptions, Types
<1>3. Len(pieces) \in Nat /\ \A k \in 0 .. Len(pieces) - 1 : pieces[k + 1] \in Pieces
    <2> HIDE DEF pieces
    <2>1. Len(pieces) \in Nat /\ \A k \in 1 .. Len(pieces) : pieces[k] \in Pieces BY <1>1, ItemType
    <2>2. \A k \in 0 .. Len(pieces) - 1 : k + 1 \in 1 .. Len(pieces) BY <2>1
    <2> QED BY <2>1, <2>2
<1>4. Elements(c) = [k \in 0 .. Len(pieces) - 1 |-> Value[ElementType(c)][pieces[k + 1]]]
    BY DEF Elements
<1> HIDE DEF pieces
<1>5. Elements(c) \in [0 .. Len(pieces) - 1 -> Int] BY <1>1, <1>2, <1>3, <1>4
<1> QED BY <1>3, <1>5 DEF pieces, Length, Places

LEMMA SortInitially ==
    ASSUME NEW c, NEW pc \in {"none", "options"}, SortInit(c, pc), pc = "none" \/ c \in SortCommands
    PROVE  SortInv
BY DEF SortInit, SortInv, QuickInit

\* What was read, before it is sorted: one window holds all.
LEMMA QuickBegins ==
    ASSUME NEW len \in Nat, NEW a \in [Places(len) -> Int]
    PROVE  QuickIs(a, len, a, <<<<0, len - 1>>>>, NoPart)
<1> DEFINE cs == <<<<0, len - 1>>>>
<1>1. /\ cs \in Seq(Int \X Int) /\ Len(cs) = 1 /\ cs[1] = <<0, len - 1>> OBVIOUS
<1> HIDE DEF cs
<1>2. WindowsIn(cs, NoWindow, len) BY <1>1, NoWindowHolds DEF WindowsIn
<1>3. \A k \in Places(len) : Holds(cs[1], k) BY <1>1 DEF Places, Holds
<1>4. InOrder(a, cs, NoWindow, len) BY <1>1, <1>3 DEF InOrder, OneWindow
<1>5. SameCounts(a, a, len) BY DEF SameCounts
<1> QED BY <1>2, <1>4, <1>5, NoWindowHolds DEF QuickIs, PartIs, cs

LEMMA SortStepKeeps ==
    ASSUME SortInv, [SortFileStep]_sortVars PROVE SortInv'
<1>1. CASE ReadArguments
    BY <1>1 DEF ReadArguments, SortInv, quickVars
<1>2. CASE ReadFile
    <2> DEFINE E == Elements(command)
               n == Length(command)
    <2>1. /\ spc = "read" /\ spc' = "sort" /\ array' = E /\ calls' = <<<<0, n - 1>>>>
          /\ part' = part /\ command' = command /\ part = NoPart
          /\ command \in SortCommands /\ command.opened
        BY <1>2 DEF ReadFile, quicksort, Length, SortInv
    <2>2. n \in Nat /\ E \in [Places(n) -> Int] BY <2>1, ElementsAre
    <2> HIDE DEF E, n
    <2>3. QuickIs(E, n, array', calls', part') BY <2>1, <2>2, QuickBegins
    <2>4. Elements(command)' = E /\ Length(command)' = n BY <2>1 DEF E, n
    <2> QED BY <2>1, <2>3, <2>4 DEF SortInv
<1>3. CASE SortElements
    <2> DEFINE E == Elements(command)
               n == Length(command)
    <2>1. /\ spc = "sort" /\ spc' \in {"sort", "print"} /\ command' = command
          /\ command \in SortCommands /\ command.opened
          /\ SortStep \/ UNCHANGED quickVars
          /\ spc' = "print" => calls' = <<>> /\ part' = NoPart
        BY <1>3 DEF SortElements, SortInv, Sorted, quickVars
    <2>2. n \in Nat /\ QuickIs(E, n, array, calls, part) BY <2>1, ElementsAre DEF SortInv
    <2> HIDE DEF E, n
    <2>3. QuickIs(E, n, array', calls', part') BY <2>1, <2>2, QuickStep
    <2>4. Elements(command)' = E /\ Length(command)' = n BY <2>1 DEF E, n
    <2> QED BY <2>1, <2>3, <2>4 DEF SortInv
<1>4. CASE PrintElements
    <2>1. /\ spc = "print" /\ spc' \in {"returned", "crashed"}
          /\ sprinted' = [k \in 1 .. Length(command) |-> array[k - 1]]
          /\ UNCHANGED <<array, calls, part, command>>
        BY <1>4 DEF PrintElements, AfterPrint, Length, quickVars
    <2>2. Elements(command)' = Elements(command) /\ Length(command)' = Length(command) BY <2>1
    <2> QED BY <2>1, <2>2 DEF SortInv
<1>5. CASE UNCHANGED sortVars
    <2>1. UNCHANGED <<array, calls, part, command, spc, sprinted>> BY <1>5 DEF sortVars, quickVars
    <2>2. Elements(command)' = Elements(command) /\ Length(command)' = Length(command) BY <2>1
    <2> QED BY <2>1, <2>2 DEF SortInv
<1> QED BY <1>1, <1>2, <1>3, <1>4, <1>5 DEF SortFileStep

LEMMA PivotsPlaced == SortInv => PivotsInPlace
<1> SUFFICES ASSUME SortInv, spc \in {"sort", "print", "returned", "crashed"} PROVE PivotsInPlace
    BY DEF PivotsInPlace
<1> DEFINE E == Elements(command)
           n == Length(command)
           Pend(k) == \/ k \in part.left .. part.right
                      \/ \E i \in DOMAIN calls : k \in calls[i][1] .. calls[i][2]
           Rank(v) == Cardinality({k \in Places(n) : E[k] < v})
                          .. Cardinality({k \in Places(n) : E[k] <= v}) - 1
<1>1. /\ command \in SortCommands /\ command.opened
      /\ QuickIs(E, n, array, calls, part)
    BY DEF SortInv
<1>2. n \in Nat /\ E \in [Places(n) -> Int] /\ DOMAIN E = Places(n) BY <1>1, ElementsAre
<1> HIDE DEF E, n
<1>3. /\ array \in [Places(n) -> Int] /\ SameCounts(array, E, n)
      /\ InOrder(array, calls, Window(part), n) /\ calls \in Seq(Int \X Int)
      /\ part.left \in Int /\ part.right \in Int
    BY <1>1 DEF QuickIs, WindowsIn, PartIs, NoPart
<1>4. /\ DOMAIN calls = 1 .. Len(calls)
      /\ \A i \in 1 .. Len(calls) : calls[i][1] \in Int /\ calls[i][2] \in Int
    BY <1>3, ItemType
<1>5. ASSUME NEW k \in Places(n), ~ Pend(k) PROVE k \in Rank(array[k])
    <2>1. \A j \in Places(n) : ~ OneWindow(calls, Window(part), j, k)
                               /\ ~ OneWindow(calls, Window(part), k, j)
        <3>1. k \in Int BY DEF Places
        <3>2. ~ Holds(Window(part), k) BY <1>3, <1>5, <3>1 DEF Holds, Window
        <3>3. \A i \in 1 .. Len(calls) : ~ Holds(calls[i], k) BY <1>4, <1>5, <3>1 DEF Holds
        <3> QED BY <3>2, <3>3 DEF OneWindow
    <2>2. /\ \A j \in Places(n) : j < k => array[j] <= array[k]
          /\ \A j \in Places(n) : k < j => array[k] <= array[j]
        BY <1>3, <2>1 DEF InOrder
    <2> QED BY <1>2, <1>3, <2>2, RankIs
<1>6. ASSUME NEW v \in Int
      PROVE  Cardinality({j \in Places(n) : array[j] = v}) = Cardinality({j \in Places(n) : E[j] = v})
    <2>1. /\ {j \in Places(n) : array[j] = v} = Having(array, n, {v})
          /\ {j \in Places(n) : E[j] = v} = Having(E, n, {v})
        BY DEF Having
    <2> QED BY <1>3, <2>1 DEF SameCounts
<1>7. spc \in {"returned", "crashed"} =>
          /\ Len(sprinted) = Cardinality(Places(n))
          /\ \A k \in Places(n) : k \in Rank(sprinted[k + 1])
    <2> SUFFICES ASSUME spc \in {"returned", "crashed"}
                 PROVE  /\ Len(sprinted) = Cardinality(Places(n))
                        /\ \A k \in Places(n) : k \in Rank(sprinted[k + 1])
        OBVIOUS
    <2>1. /\ sprinted = [k \in 1 .. n |-> array[k - 1]] /\ calls = <<>> /\ part = NoPart
        BY DEF SortInv, n
    <2>2. Len(sprinted) = n BY <1>2, <2>1
    <2>3. Cardinality(Places(n)) = n
        <3>1. n - 1 \in Int /\ 0 \in Int BY <1>2
        <3>2. Cardinality(0 .. n - 1) = IF 0 > n - 1 THEN 0 ELSE (n - 1) - 0 + 1 BY ONLY <3>1, FS_Interval
        <3> QED BY <1>2, <3>2 DEF Places
    <2>4. ASSUME NEW k \in Places(n) PROVE k \in Rank(sprinted[k + 1])
        <3>1. k + 1 \in 1 .. n /\ (k + 1) - 1 = k BY <1>2 DEF Places
        <3>2. sprinted[k + 1] = array[k] BY <2>1, <3>1
        <3>3. ~ Pend(k) BY <2>1 DEF NoPart, Places
        <3> HIDE DEF Pend, Rank
        <3> QED BY <1>5, <3>2, <3>3
    <2> QED BY <2>2, <2>3, <2>4
<1>8. \A k \in Places(n) : E[k] \in Int BY <1>2
<1> QED
    BY <1>2, <1>5, <1>6, <1>7, <1>8 DEF PivotsInPlace, E

\* Whatever the file holds, every pivot that quicksort has placed stays in the place
\* of its rank, no element is lost or doubled, and what sort prints is all of them
\* in order (quicksort.c 101-134, sort.c 85-178).
THEOREM Sorts == Spec => []PivotsInPlace
<1>1. Init => SortInv BY SortInitially DEF Init, NoSort
<1>2. SortInv /\ [Next]_vars => SortInv' BY OneSteps, SortStepKeeps
<1> QED BY <1>1, <1>2, PivotsPlaced, PTL DEF Spec

(***************************************************************************)
(* The echo pair.                                                          *)
(***************************************************************************)
Bytes == Seq(Nat)
EchoPcs == {"none", "start", "connect", "send", "recv", "exited", "failed", "killed"}
ServerPcs == {"none", "start", "accept", "recv", "send", "stopped", "no socket"}
EndType == [inq : Bytes, link : Net!Links]
ConnType == [Net!Sides -> EndType]
ClientType == [argv : Seq(Nat), pc : EchoPcs, said : Bytes]
BothClosed == [s \in Net!Sides |-> Net!Fresh("closed")]

EchoTypes ==
    /\ net \in [EchoClients -> ConnType]
    /\ backlog \in Seq(EchoClients) /\ listening \in BOOLEAN
    /\ server \in [pc : ServerPcs, client : EchoClients \cup {0}, buf : Bytes]
    /\ Len(server.buf) = BUFLEN
    /\ client \in [EchoClients -> ClientType]

\* What one end of a connection has received, and how it stands.
InqOf(n, s) == n[s].inq
LinkOf(n, s) == n[s].link

LEMMA SidesAre == "client" \in Net!Sides /\ "server" \in Net!Sides /\ "client" # "server"
BY DEF Net!Sides

LEMMA FreshIs ==
    ASSUME NEW l \in Net!Links
    PROVE  Net!Fresh(l) \in EndType /\ Net!Fresh(l).inq = <<>> /\ Net!Fresh(l).link = l
BY DEF Net!Fresh, EndType, Bytes

LEMMA ClientCloses ==
    ASSUME NEW n \in ConnType, NEW x, x = Net!AfterClose(n, "client")
    PROVE  /\ x \in ConnType /\ x["client"] = Net!Fresh("closed")
           /\ InqOf(x, "server") = InqOf(n, "server")
           /\ LinkOf(x, "server") = IF LinkOf(n, "server") # "up" THEN LinkOf(n, "server")
                                  ELSE IF InqOf(n, "client") # <<>> THEN "aborting" ELSE "eof"
<1> PICK l : l = IF LinkOf(n, "server") # "up" THEN LinkOf(n, "server")
                 ELSE IF InqOf(n, "client") # <<>> THEN "aborting" ELSE "eof" OBVIOUS
<1>1. x = [n EXCEPT !["client"] = Net!Fresh("closed"), !["server"].link = l]
    BY DEF Net!AfterClose, Net!Peer, Net!HasData, LinkOf, InqOf
<1>2. n["server"] \in EndType /\ n["client"] \in EndType BY SidesAre DEF ConnType
<1>3. l \in Net!Links /\ Net!Fresh("closed") \in EndType BY <1>2, FreshIs DEF EndType, Net!Links, LinkOf
<1>4. [n["server"] EXCEPT !.link = l] \in EndType BY <1>2, <1>3 DEF EndType
<1>5. x["client"] = Net!Fresh("closed") /\ x["server"] = [n["server"] EXCEPT !.link = l]
    BY <1>1, SidesAre DEF ConnType
<1>6. x \in ConnType BY <1>1, <1>3, <1>4, SidesAre DEF ConnType
<1>7. x["server"].inq = n["server"].inq /\ x["server"].link = l BY <1>2, <1>5 DEF EndType
<1> QED BY <1>5, <1>6, <1>7 DEF InqOf, LinkOf

LEMMA ServerCloses ==
    ASSUME NEW n \in ConnType, NEW x, x = Net!AfterClose(n, "server")
    PROVE  /\ x \in ConnType /\ x["server"] = Net!Fresh("closed")
           /\ InqOf(x, "client") = InqOf(n, "client")
           /\ LinkOf(x, "client") = IF LinkOf(n, "client") # "up" THEN LinkOf(n, "client")
                                  ELSE IF InqOf(n, "server") # <<>> THEN "aborting" ELSE "eof"
<1> PICK l : l = IF LinkOf(n, "client") # "up" THEN LinkOf(n, "client")
                 ELSE IF InqOf(n, "server") # <<>> THEN "aborting" ELSE "eof" OBVIOUS
<1>1. x = [n EXCEPT !["server"] = Net!Fresh("closed"), !["client"].link = l]
    BY DEF Net!AfterClose, Net!Peer, Net!HasData, LinkOf, InqOf
<1>2. n["server"] \in EndType /\ n["client"] \in EndType BY SidesAre DEF ConnType
<1>3. l \in Net!Links /\ Net!Fresh("closed") \in EndType BY <1>2, FreshIs DEF EndType, Net!Links, LinkOf
<1>4. [n["client"] EXCEPT !.link = l] \in EndType BY <1>2, <1>3 DEF EndType
<1>5. x["server"] = Net!Fresh("closed") /\ x["client"] = [n["client"] EXCEPT !.link = l]
    BY <1>1, SidesAre DEF ConnType
<1>6. x \in ConnType BY <1>1, <1>3, <1>4, SidesAre DEF ConnType
<1>7. x["client"].inq = n["client"].inq /\ x["client"].link = l BY <1>2, <1>5 DEF EndType
<1> QED BY <1>5, <1>6, <1>7 DEF InqOf, LinkOf

\* The kernel of a server that ends resets what waits in the backlog.
LEMMA Aborts ==
    ASSUME NEW n \in ConnType, NEW x, x = Net!AfterAbort(n)
    PROVE  /\ x \in ConnType /\ x["server"] = Net!Fresh("closed")
           /\ InqOf(x, "client") = InqOf(n, "client")
           /\ LinkOf(x, "client") = IF LinkOf(n, "client") = "up" THEN "aborting" ELSE LinkOf(n, "client")
<1> PICK l : l = IF LinkOf(n, "client") = "up" THEN "aborting" ELSE LinkOf(n, "client") OBVIOUS
<1>1. x = [n EXCEPT !["server"] = Net!Fresh("closed"), !["client"].link = l]
    BY DEF Net!AfterAbort, LinkOf
<1>2. n["server"] \in EndType /\ n["client"] \in EndType BY SidesAre DEF ConnType
<1>3. l \in Net!Links /\ Net!Fresh("closed") \in EndType BY <1>2, FreshIs DEF EndType, Net!Links, LinkOf
<1>4. [n["client"] EXCEPT !.link = l] \in EndType BY <1>2, <1>3 DEF EndType
<1>5. x["server"] = Net!Fresh("closed") /\ x["client"] = [n["client"] EXCEPT !.link = l]
    BY <1>1, SidesAre DEF ConnType
<1>6. x \in ConnType BY <1>1, <1>3, <1>4, SidesAre DEF ConnType
<1>7. x["client"].inq = n["client"].inq /\ x["client"].link = l BY <1>2, <1>5 DEF EndType
<1> QED BY <1>5, <1>6, <1>7 DEF InqOf, LinkOf

\* One connection changes, on one side or both.
LEMMA OneConn ==
    ASSUME NEW N \in [EchoClients -> ConnType], NEW c \in EchoClients, NEW x \in ConnType,
           NEW M, M = [N EXCEPT ![c] = x]
    PROVE  /\ M \in [EchoClients -> ConnType] /\ M[c] = x
           /\ \A d \in EchoClients : d # c => M[d] = N[d]
OBVIOUS

LEMMA ClosesOne ==
    ASSUME NEW N \in [EchoClients -> ConnType], NEW c \in EchoClients, NEW s,
           NEW x \in ConnType, x = Net!AfterClose(N[c], s), NEW M, M = Net!Closed(N, {c}, s)
    PROVE  /\ M \in [EchoClients -> ConnType] /\ M[c] = x
           /\ \A d \in EchoClients : d # c => M[d] = N[d]
BY DEF Net!Closed

\* The state of one end of a connection changes, or what it has received.
WithLink(n, s, l) == [n EXCEPT ![s].link = l]
WithInq(n, s, q) == [n EXCEPT ![s].inq = q]

LEMMA LinkSet ==
    ASSUME NEW n \in ConnType, NEW s \in Net!Sides, NEW l \in Net!Links,
           NEW x, x = WithLink(n, s, l)
    PROVE  /\ x \in ConnType /\ LinkOf(x, s) = l /\ InqOf(x, s) = InqOf(n, s)
           /\ \A r \in Net!Sides : r # s => x[r] = n[r]
<1>1. n[s] \in EndType BY DEF ConnType
<1>2. PICK y : y = [n[s] EXCEPT !.link = l] OBVIOUS
<1>3. y \in EndType /\ y.link = l /\ y.inq = n[s].inq BY <1>1, <1>2 DEF EndType
<1>4. x = [n EXCEPT ![s] = y] BY <1>2 DEF WithLink
<1>5. x \in ConnType /\ x[s] = y /\ \A r \in Net!Sides : r # s => x[r] = n[r]
    BY ONLY <1>3, <1>4, n \in ConnType, s \in Net!Sides DEF ConnType
<1> QED BY ONLY <1>3, <1>5 DEF LinkOf, InqOf

LEMMA InqSet ==
    ASSUME NEW n \in ConnType, NEW s \in Net!Sides, NEW q \in Bytes,
           NEW x, x = WithInq(n, s, q)
    PROVE  /\ x \in ConnType /\ InqOf(x, s) = q /\ LinkOf(x, s) = LinkOf(n, s)
           /\ \A r \in Net!Sides : r # s => x[r] = n[r]
<1>1. n[s] \in EndType BY DEF ConnType
<1>2. PICK y : y = [n[s] EXCEPT !.inq = q] OBVIOUS
<1>3. y \in EndType /\ y.inq = q /\ y.link = n[s].link BY <1>1, <1>2 DEF EndType
<1>4. x = [n EXCEPT ![s] = y] BY <1>2 DEF WithInq
<1>5. x \in ConnType /\ x[s] = y /\ \A r \in Net!Sides : r # s => x[r] = n[r]
    BY ONLY <1>3, <1>4, n \in ConnType, s \in Net!Sides DEF ConnType
<1> QED BY ONLY <1>3, <1>5 DEF LinkOf, InqOf

LEMMA InqType ==
    ASSUME NEW n \in ConnType, NEW s \in Net!Sides
    PROVE  InqOf(n, s) \in Bytes /\ LinkOf(n, s) \in Net!Links
BY DEF ConnType, EndType, InqOf, LinkOf

\* A send on side s, whose peer is r.
LEMMA Sends ==
    ASSUME NEW n \in ConnType, NEW s \in Net!Sides, NEW r \in Net!Sides, r = Net!Peer(s),
           NEW text \in Bytes, NEW x, x = Net!AfterSend(n, s, text)
    PROVE  /\ x \in ConnType
           /\ LinkOf(n, s) = "up" =>
                 x[s] = n[s] /\ InqOf(x, r) = InqOf(n, r) \o text /\ LinkOf(x, r) = LinkOf(n, r)
           /\ LinkOf(n, s) # "up" => x[r] = n[r] /\ InqOf(x, s) = InqOf(n, s)
           /\ LinkOf(n, s) = "eof" => LinkOf(x, s) = "probed"
           /\ LinkOf(n, s) \in {"closed", "aborting", "probed"} => x = n
<1>1. r # s BY DEF Net!Peer, Net!Sides
<1>2. CASE LinkOf(n, s) = "up"
    <2>1. PICK q : q = InqOf(n, r) \o text OBVIOUS
    <2>2. q \in Bytes
        <3>1. InqOf(n, r) \in Bytes BY InqType
        <3> QED BY ONLY <2>1, <3>1, text \in Bytes DEF Bytes
    <2>3. x = WithInq(n, r, q) BY <1>2, <2>1 DEF WithInq, Net!AfterSend, LinkOf, InqOf
    <2>4. x \in ConnType /\ InqOf(x, r) = q /\ LinkOf(x, r) = LinkOf(n, r) /\ x[s] = n[s]
        BY <1>1, <2>2, <2>3, InqSet
    <2> QED BY <1>2, <2>1, <2>4
<1>3. CASE LinkOf(n, s) = "eof"
    <2>1. x = WithLink(n, s, "probed") BY <1>3 DEF WithLink, Net!AfterSend, LinkOf
    <2>2. "probed" \in Net!Links BY DEF Net!Links
    <2> QED BY <1>1, <1>3, <2>1, <2>2, LinkSet
<1>4. CASE LinkOf(n, s) = "reset"
    <2>1. x = WithLink(n, s, "dead") BY <1>4 DEF WithLink, Net!AfterSend, LinkOf
    <2>2. "dead" \in Net!Links BY DEF Net!Links
    <2> QED BY <1>1, <1>4, <2>1, <2>2, LinkSet
<1>5. CASE LinkOf(n, s) \notin {"up", "eof", "reset"}
    <2>1. x = n BY <1>5 DEF Net!AfterSend, LinkOf
    <2> QED BY <1>5, <2>1
<1> QED BY <1>2, <1>3, <1>4, <1>5

\* The same for the client, the first of whose text finds nothing before it.
LEMMA ClientSends ==
    ASSUME NEW n \in ConnType, NEW text \in Bytes, NEW x, x = Net!AfterSend(n, "client", text)
    PROVE  /\ x \in ConnType
           /\ LinkOf(n, "client") = "up" =>
                 x["client"] = n["client"] /\ LinkOf(x, "server") = LinkOf(n, "server")
           /\ LinkOf(n, "client") = "up" /\ InqOf(n, "server") = <<>> => InqOf(x, "server") = text
           /\ LinkOf(n, "client") # "up" => x["server"] = n["server"] /\ InqOf(x, "client") = InqOf(n, "client")
           /\ LinkOf(n, "client") = "eof" => LinkOf(x, "client") \in {"eof", "probed"}
           /\ LinkOf(n, "client") \in {"aborting", "probed"} => LinkOf(x, "client") = LinkOf(n, "client")
<1>1. "server" = Net!Peer("client") BY DEF Net!Peer
<1>2. PICK s, r : s = "client" /\ r = "server" OBVIOUS
<1>3. s \in Net!Sides /\ r \in Net!Sides /\ r = Net!Peer(s) /\ x = Net!AfterSend(n, s, text)
    BY <1>1, <1>2, SidesAre
<1>4. /\ x \in ConnType
      /\ LinkOf(n, s) = "up" =>
            x[s] = n[s] /\ InqOf(x, r) = InqOf(n, r) \o text /\ LinkOf(x, r) = LinkOf(n, r)
      /\ LinkOf(n, s) # "up" => x[r] = n[r] /\ InqOf(x, s) = InqOf(n, s)
      /\ LinkOf(n, s) = "eof" => LinkOf(x, s) = "probed"
      /\ LinkOf(n, s) \in {"closed", "aborting", "probed"} => x = n
    BY ONLY <1>3, Sends
<1>5. <<>> \o text = text BY DEF Bytes
<1> QED BY ONLY <1>2, <1>4, <1>5

LEMMA Takes ==
    ASSUME NEW N \in [EchoClients -> ConnType], NEW c \in EchoClients, NEW s \in Net!Sides,
           NEW k \in Nat, k <= Len(InqOf(N[c], s)), NEW M, M = Net!Took(N, c, s, k)
    PROVE  /\ M \in [EchoClients -> ConnType]
           /\ \A d \in EchoClients : d # c => M[d] = N[d]
           /\ LinkOf(M[c], s) = LinkOf(N[c], s)
           /\ \A r \in Net!Sides : r # s => M[c][r] = N[c][r]
<1>1. PICK q : q = SubSeq(InqOf(N[c], s), k + 1, Len(InqOf(N[c], s))) OBVIOUS
<1>2. q \in Bytes
    <2>1. InqOf(N[c], s) \in Bytes BY InqType
    <2> QED BY ONLY <1>1, <2>1, k \in Nat, k <= Len(InqOf(N[c], s)) DEF Bytes
<1>3. PICK x : x = WithInq(N[c], s, q) OBVIOUS
<1>4. M = [N EXCEPT ![c] = x] BY <1>1, <1>3 DEF WithInq, Net!Took, InqOf
<1>5. /\ x \in ConnType /\ LinkOf(x, s) = LinkOf(N[c], s)
      /\ \A r \in Net!Sides : r # s => x[r] = N[c][r]
    BY <1>2, <1>3, InqSet
<1>6. M \in [EchoClients -> ConnType] /\ M[c] = x /\ \A d \in EchoClients : d # c => M[d] = N[d]
    BY <1>4, <1>5, OneConn
<1> QED BY <1>5, <1>6

(***************************************************************************)
(* A client's message.                                                     *)
(***************************************************************************)
IsBefore(f, argv, n) == f = [i \in 0 .. n |-> IF i = 0 THEN 0 ELSE f[i - 1] + argv[i] + 1]

LEMMA BeforeExists ==
    ASSUME NEW argv \in Seq(Nat)
    PROVE  \E f \in [0 .. Len(argv) -> Nat] : IsBefore(f, argv, Len(argv))
<1> DEFINE T == {m \in Nat : m <= Len(argv) => \E f \in [0 .. m -> Nat] : IsBefore(f, argv, m)}
<1>0. Len(argv) \in Nat /\ \A i \in 1 .. Len(argv) : argv[i] \in Nat OBVIOUS
<1>1. 0 \in T
    <2> DEFINE f == [i \in 0 .. 0 |-> 0]
    <2>1. f \in [0 .. 0 -> Nat] /\ IsBefore(f, argv, 0) BY DEF IsBefore
    <2> QED BY <2>1
<1>2. ASSUME NEW m \in T PROVE m + 1 \in T
    <2>0. m \in Nat /\ m + 1 \in Nat OBVIOUS
    <2> SUFFICES ASSUME m + 1 <= Len(argv)
                 PROVE  \E f \in [0 .. m + 1 -> Nat] : IsBefore(f, argv, m + 1)
        BY ONLY <2>0
    <2>1. m \in Nat /\ m <= Len(argv) BY <1>0
    <2>2. PICK f \in [0 .. m -> Nat] : IsBefore(f, argv, m) BY <2>1
    <2> DEFINE last == f[m] + argv[m + 1] + 1
               g    == [i \in 0 .. m + 1 |-> IF i <= m THEN f[i] ELSE last]
    <2>3. last \in Nat BY <1>0, <2>1
    <2>4. g \in [0 .. m + 1 -> Nat] BY <2>1, <2>3
    <2>5. ASSUME NEW i \in 0 .. m + 1
          PROVE  g[i] = IF i = 0 THEN 0 ELSE g[i - 1] + argv[i] + 1
        <3>1. CASE i = m + 1
            <4>1. g[i] = last /\ g[i - 1] = f[m] /\ i # 0 BY <2>1, <3>1
            <4> HIDE DEF g
            <4> QED BY <3>1, <4>1
        <3>2. CASE i # m + 1
            <4>1. i \in 0 .. m BY <2>1, <3>2
            <4>2. g[i] = f[i] /\ (i # 0 => g[i - 1] = f[i - 1]) BY <2>1, <4>1
            <4>3. f[i] = IF i = 0 THEN 0 ELSE f[i - 1] + argv[i] + 1 BY <2>2, <4>1 DEF IsBefore
            <4> HIDE DEF g
            <4> QED BY <4>2, <4>3
        <3> QED BY <3>1, <3>2
    <2>6. IsBefore(g, argv, m + 1)
        <3>1. g = [i \in 0 .. m + 1 |-> g[i]] OBVIOUS
        <3> HIDE DEF g
        <3> QED BY <2>5, <3>1 DEF IsBefore
    <2> HIDE DEF g
    <2> QED BY <2>4, <2>6
<1> HIDE DEF T
<1>3. T = Nat BY <1>1, <1>2, Induction DEF T
<1> QED BY <1>0, <1>3 DEF T

LEMMA MessageLenType == ASSUME NEW argv \in Seq(Nat) PROVE MessageLen(argv) \in Nat
<1> DEFINE B == CHOOSE f : f = [i \in 0 .. Len(argv) |-> IF i = 0 THEN 0 ELSE f[i - 1] + argv[i] + 1]
           fits == {i \in DOMAIN argv : \A j \in 1 .. i : Room(B[j - 1], argv[j])}
           n == Cardinality(fits)
<1>0. Len(argv) \in Nat /\ DOMAIN argv = 1 .. Len(argv) /\ \A i \in 1 .. Len(argv) : argv[i] \in Nat
    OBVIOUS
<1>1. MessageLen(argv) = IF n > 0 /\ n = Len(argv) THEN B[n] - 1 ELSE B[n] BY DEF MessageLen
<1>2. IsBefore(B, argv, Len(argv)) /\ B \in [0 .. Len(argv) -> Nat]
    <2>1. PICK f \in [0 .. Len(argv) -> Nat] : IsBefore(f, argv, Len(argv)) BY BeforeExists
    <2>2. IsBefore(B, argv, Len(argv)) BY <2>1 DEF IsBefore
    <2>3. ASSUME NEW g, IsBefore(g, argv, Len(argv)) PROVE g \in [0 .. Len(argv) -> Nat]
        <3> DEFINE T == {m \in Nat : m <= Len(argv) => g[m] \in Nat}
        <3>1. 0 \in T BY <2>3, <1>0 DEF IsBefore
        <3>2. ASSUME NEW m \in T PROVE m + 1 \in T
            <4> SUFFICES ASSUME m + 1 <= Len(argv) PROVE g[m + 1] \in Nat OBVIOUS
            <4>1. m + 1 \in 0 .. Len(argv) /\ m + 1 # 0 /\ (m + 1) - 1 = m /\ m + 1 \in 1 .. Len(argv)
                  /\ m <= Len(argv)
                BY <1>0
            <4>2. g[m + 1] = g[m] + argv[m + 1] + 1 BY <2>3, <4>1 DEF IsBefore
            <4> QED BY <1>0, <4>1, <4>2
        <3> HIDE DEF T
        <3>3. T = Nat BY <3>1, <3>2, Induction DEF T
        <3>4. \A m \in 0 .. Len(argv) : g[m] \in Nat BY <1>0, <3>3 DEF T
        <3>5. g = [m \in 0 .. Len(argv) |-> g[m]] BY <2>3 DEF IsBefore
        <3> QED BY <3>4, <3>5
    <2> HIDE DEF B
    <2> QED BY <2>2, <2>3
<1> HIDE DEF B
<1>3. n \in 0 .. Len(argv)
    <2>1. IsFiniteSet(1 .. Len(argv)) /\ Cardinality(1 .. Len(argv)) = Len(argv) BY <1>0, FS_Interval
    <2>2. fits \subseteq 1 .. Len(argv) BY <1>0
    <2> HIDE DEF fits
    <2>3. IsFiniteSet(fits) /\ n <= Len(argv) BY <2>1, <2>2, FS_Subset
    <2>4. n \in Nat BY <2>3, FS_CardinalityType
    <2> QED BY <1>0, <2>3, <2>4
<1> HIDE DEF n, fits
<1>4. B[n] \in Nat BY <1>2, <1>3
<1>5. n > 0 => B[n] - 1 \in Nat
    <2> SUFFICES ASSUME n > 0 PROVE B[n] - 1 \in Nat OBVIOUS
    <2>1. n \in 0 .. Len(argv) /\ n # 0 /\ n - 1 \in 0 .. Len(argv) /\ n \in 1 .. Len(argv)
        BY <1>0, <1>3
    <2>2. B[n] = B[n - 1] + argv[n] + 1 BY <1>2, <2>1 DEF IsBefore
    <2>3. B[n - 1] \in Nat /\ argv[n] \in Nat BY <1>0, <1>2, <2>1
    <2> QED BY <2>2, <2>3
<1> QED BY <1>1, <1>4, <1>5

\* q begins with the first k bytes of the message of c, and what ends a string.
Echoed(c, k, q) ==
    /\ Len(q) = BUFLEN /\ k < BUFLEN /\ k <= Len(Sent(c))
    /\ \A i \in 1 .. k : q[i] = Sent(c)[i]
    /\ q[k + 1] = NUL

\* No byte of a message is a NUL.
LEMMA ByteIs ==
    ASSUME NEW c \in EchoClients, NEW i \in Nat \ {0}
    PROVE  Byte(c, i) \in Nat \ {0}
<1>1. c \in Nat \ {0} /\ BUFLEN \in Nat \ {0} BY EchoAssumption
<1>2. \A x, y \in Nat \ {0} : x * y \in Nat \ {0} OBVIOUS
<1>3. PICK z \in Nat \ {0} : z = BUFLEN * c BY <1>1, <1>2
<1> QED BY <1>3 DEF Byte

LEMMA SentIs ==
    ASSUME NEW c \in EchoClients, client[c].argv \in Seq(Nat)
    PROVE  /\ Sent(c) \in Bytes /\ Len(Sent(c)) \in Nat
           /\ \A i \in 1 .. Len(Sent(c)) : Sent(c)[i] \in Nat /\ Sent(c)[i] # NUL
<1>1. PICK k \in Nat : k = MessageLen(client[c].argv) BY MessageLenType
<1>2. PICK t : t = [i \in 1 .. k |-> Byte(c, i)] OBVIOUS
<1>3. Sent(c) = t BY <1>1, <1>2 DEF Sent
<1>4. \A i \in 1 .. k : t[i] = Byte(c, i) /\ Byte(c, i) \in Nat \ {0} BY <1>2, ByteIs
<1>5. t \in Seq(Nat) /\ Len(t) = k
    <2>1. t \in [1 .. k -> Nat] BY <1>2, <1>4
    <2> QED BY ONLY <2>1, k \in Nat
<1> QED BY <1>3, <1>4, <1>5 DEF Bytes, NUL

\* What printf shows of the first n bytes of what came back.
LEMMA Prints ==
    ASSUME NEW c \in EchoClients, client[c].argv \in Seq(Nat), NEW k \in Nat,
           NEW q \in Bytes, Echoed(c, k, q), NEW n \in 1 .. BUFLEN - 1,
           NEW u, u = UpToNul(SubSeq(q, 1, n))
    PROVE  /\ u \in Bytes /\ Len(u) <= Len(Sent(c))
           /\ \A i \in 1 .. Len(u) : u[i] = Sent(c)[i]
           /\ k > 0 => u # <<>>
<1>0. BUFLEN \in Nat /\ Len(Sent(c)) \in Nat /\ NUL \in Nat BY EchoAssumption, SentIs DEF NUL
<1>1. PICK b : b = SubSeq(q, 1, n) OBVIOUS
<1>2. /\ b \in Seq(Nat) /\ Len(b) = n /\ DOMAIN b = 1 .. n
      /\ \A i \in 1 .. n : b[i] = q[i]
    <2>1. q \in Seq(Nat) /\ Len(q) = BUFLEN BY DEF Bytes, Echoed
    <2>2. n \in Nat /\ n <= Len(q) BY <1>0, <2>1
    <2> QED BY ONLY <1>1, <2>1, <2>2
<1>3. PICK m \in Nat : m = IF n <= k THEN n ELSE k BY <1>0
<1>4. {i \in DOMAIN b : \A j \in 1 .. i : b[j] # NUL} = 1 .. m
    <2>1. ASSUME NEW i \in 1 .. m PROVE i \in DOMAIN b /\ \A j \in 1 .. i : b[j] # NUL
        <3>1. i \in 1 .. n /\ i <= k BY <1>0, <1>3
        <3>2. ASSUME NEW j \in 1 .. i PROVE b[j] # NUL
            <4>1. j \in 1 .. k /\ j \in 1 .. n /\ j \in 1 .. Len(Sent(c)) BY <1>0, <3>1 DEF Echoed
            <4> QED BY <1>2, <4>1, SentIs DEF Echoed
        <3> QED BY <1>2, <3>1, <3>2
    <2>2. ASSUME NEW i \in DOMAIN b, \A j \in 1 .. i : b[j] # NUL PROVE i \in 1 .. m
        <3>1. i \in 1 .. n BY <1>2
        <3>2. CASE n <= k BY <1>3, <3>1, <3>2
        <3>3. CASE ~ (n <= k)
            <4>1. k + 1 \in 1 .. n BY <1>0, <3>3
            <4>2. b[k + 1] = NUL BY <1>2, <4>1 DEF Echoed
            <4>3. ~ (k + 1 \in 1 .. i) BY <2>2, <4>2
            <4> QED BY <1>0, <1>3, <3>1, <3>3, <4>3
        <3> QED BY <3>2, <3>3
    <2> QED BY <2>1, <2>2
<1>5. u = SubSeq(b, 1, m)
    <2>1. Cardinality(1 .. m) = m
        <3>1. m >= 1 \/ m = 0 BY <1>3
        <3> QED BY <3>1, FS_Interval
    <2> QED BY <1>1, <1>4, <2>1 DEF UpToNul
<1>6. m <= n /\ m <= k BY <1>0, <1>3
<1>7. u \in Seq(Nat) /\ Len(u) = m /\ \A i \in 1 .. m : u[i] = b[i]
    BY ONLY <1>2, <1>5, <1>6, m \in Nat, n \in 1 .. BUFLEN - 1, <1>0
<1>8. k > 0 => m > 0 BY <1>0, <1>3
<1>9. k <= Len(Sent(c)) /\ \A i \in 1 .. k : q[i] = Sent(c)[i] BY DEF Echoed
<1>10. m <= Len(Sent(c)) BY <1>0, <1>6, <1>9
<1>11. ASSUME NEW i \in 1 .. m PROVE u[i] = Sent(c)[i]
    <2>1. i \in 1 .. n /\ i \in 1 .. k BY <1>0, <1>6
    <2> QED BY <1>2, <1>7, <1>9, <2>1
<1>12. u = <<>> => Len(u) = 0 OBVIOUS
<1> QED BY <1>7, <1>8, <1>10, <1>11, <1>12 DEF Bytes

\* What the server's buf holds after recv.
LEMMA Fills ==
    ASSUME NEW c \in EchoClients, client[c].argv \in Seq(Nat), NEW buf \in Bytes, Len(buf) = BUFLEN,
           NEW q, q \in {<<>>, Sent(c)}, NEW n \in 0 .. BUFLEN - 1, n <= Len(q),
           NEW f, f = Filled(buf, SubSeq(q, 1, n))
    PROVE  f \in Bytes /\ Len(f) = BUFLEN /\ Echoed(c, n, f)
<1>0. BUFLEN \in Nat /\ BUFLEN > 0 /\ Len(Sent(c)) \in Nat /\ NUL \in Nat /\ Sent(c) \in Seq(Nat)
    BY EchoAssumption, SentIs DEF NUL, Bytes
<1>1. n \in Nat /\ n < BUFLEN /\ n <= Len(Sent(c))
    <2>1. Len(<<>>) = 0 OBVIOUS
    <2> QED BY <1>0, <2>1
<1>2. PICK b : b = SubSeq(q, 1, n) OBVIOUS
<1>3. b \in Seq(Nat) /\ Len(b) = n /\ \A i \in 1 .. n : b[i] = Sent(c)[i]
    <2>1. CASE q = Sent(c) BY <1>0, <1>1, <1>2, <2>1
    <2>2. CASE q = <<>>
        <3>1. n = 0 BY <1>1, <2>2
        <3>2. b = <<>> BY <1>2, <2>2, <3>1
        <3> QED BY <3>1, <3>2
    <2> QED BY <2>1, <2>2
<1>4. \A i \in 1 .. BUFLEN : buf[i] \in Nat BY DEF Bytes
<1>5. f = [i \in 1 .. BUFLEN |-> IF i <= n THEN b[i] ELSE IF i = n + 1 THEN NUL ELSE buf[i]]
    BY <1>2, <1>3 DEF Filled
<1>6. \A i \in 1 .. n : b[i] \in Nat BY <1>3
<1>7. f \in [1 .. BUFLEN -> Nat]
    <2>1. \A i \in 1 .. BUFLEN : i <= n => i \in 1 .. n BY <1>0, <1>1
    <2> QED BY <1>0, <1>4, <1>5, <1>6, <2>1
<1>8. f \in Seq(Nat) /\ Len(f) = BUFLEN BY ONLY <1>0, <1>7
<1>9. n + 1 \in 1 .. BUFLEN /\ ~ (n + 1 <= n) /\ \A i \in 1 .. n : i \in 1 .. BUFLEN /\ i <= n
    BY <1>0, <1>1
<1>10. f[n + 1] = NUL /\ \A i \in 1 .. n : f[i] = Sent(c)[i] BY <1>3, <1>5, <1>9
<1> QED BY <1>1, <1>8, <1>10 DEF Echoed, Bytes

(***************************************************************************)
(* How one client and the server stand to each other.                      *)
(***************************************************************************)
Serving == server.pc \in {"recv", "send"}
InBacklog(c) == \E j \in DOMAIN backlog : backlog[j] = c
Waits(c) == InBacklog(c) \/ (Serving /\ server.client = c)
Turn(c) == server.pc = "send" /\ server.client = c
IsOpen(c) == client[c].pc \in {"send", "recv"}

ServerOk ==
    /\ server.pc \in {"none", "start", "stopped", "no socket"} => backlog = <<>> /\ ~ listening
    /\ server.pc \in {"none", "start", "no socket", "accept"} => server.client = 0
    /\ Serving => server.client \in EchoClients /\ ~ InBacklog(server.client)
    /\ \A i, j \in DOMAIN backlog : backlog[i] = backlog[j] => i = j

\* Before it connects, a client has nothing to do with the server.
Unlinked(c) ==
    client[c].pc \in {"none", "start", "connect"} =>
        ~ Waits(c) /\ net[c] = BothClosed /\ client[c].said = <<>>

\* Both are open, or the client closed and what it sent may not have been read.
Connected(c) ==
    Waits(c) =>
        /\ InqOf(net[c], "client") = <<>>
        /\ IsOpen(c) => LinkOf(net[c], "client") = "up" /\ LinkOf(net[c], "server") = "up"
        /\ ~ IsOpen(c) => LinkOf(net[c], "client") = "closed" /\ LinkOf(net[c], "server") = "eof"
        /\ client[c].pc = "send" => InqOf(net[c], "server") = <<>>
        /\ ~ Turn(c) => /\ InqOf(net[c], "server") \in {<<>>, Sent(c)}
                        /\ client[c].pc = "recv" => InqOf(net[c], "server") = Sent(c)

\* The server has closed: it answered, or it was stopped.
Answered(c) ==
    ~ Waits(c) /\ IsOpen(c) =>
        /\ net[c]["server"] = Net!Fresh("closed")
        /\ LinkOf(net[c], "client") \in {"eof", "probed", "aborting", "reset", "dead"}
        /\ InqOf(net[c], "client") = <<>> => server.pc = "stopped"
        /\ InqOf(net[c], "client") # <<>> =>
              \E k \in Nat : k > 0 /\ Echoed(c, k, InqOf(net[c], "client"))

\* What the server is about to send.
Filling(c) ==
    Turn(c) =>
        /\ client[c].pc # "send"
        /\ \E k \in Nat : /\ Echoed(c, k, server.buf)
                          /\ client[c].pc = "recv" => k > 0

SaidOk(c) ==
    /\ Len(client[c].said) <= Len(Sent(c))
    /\ \A i \in 1 .. Len(client[c].said) : client[c].said[i] = Sent(c)[i]
    /\ client[c].pc = "exited" /\ client[c].said = <<>> =>
          server.pc = "stopped" \/ Sent(c) = <<>>

EchoOk(c) == Unlinked(c) /\ Connected(c) /\ Answered(c) /\ Filling(c) /\ SaidOk(c)
EchoInv == EchoTypes /\ ServerOk /\ \A c \in EchoClients : EchoOk(c)

\* A client whose connection no step touches.
Untouched(c) ==
    /\ net'[c] = net[c] /\ client'[c] = client[c]
    /\ Waits(c)' <=> Waits(c)
    /\ Turn(c)' <=> Turn(c)
    /\ Turn(c) => server'.buf = server.buf
    /\ server.pc = "stopped" => server'.pc = "stopped"

LEMMA UntouchedOk ==
    ASSUME NEW c \in EchoClients, EchoOk(c), Untouched(c)
    PROVE  EchoOk(c)'
<1> USE DEF Untouched
<1>1. Sent(c)' = Sent(c) BY DEF Sent
<1>2. IsOpen(c)' <=> IsOpen(c) BY DEF IsOpen
<1>3. Unlinked(c)' BY DEF EchoOk, Unlinked
<1>4. Connected(c)' BY <1>1, <1>2 DEF EchoOk, Connected
<1>5. Answered(c)' BY <1>1, <1>2 DEF EchoOk, Answered, Echoed
<1>6. Filling(c)'
    <2> SUFFICES ASSUME Turn(c) PROVE Filling(c)' BY DEF Filling
    <2>1. PICK k \in Nat : Echoed(c, k, server.buf) /\ (client[c].pc = "recv" => k > 0)
        BY DEF EchoOk, Filling
    <2>2. Echoed(c, k, server.buf)' BY <1>1, <2>1 DEF Echoed
    <2>3. client[c].pc # "send" BY DEF EchoOk, Filling
    <2> QED BY <2>1, <2>2, <2>3 DEF Filling
<1>7. SaidOk(c)' BY <1>1 DEF EchoOk, SaidOk
<1> QED BY <1>3, <1>4, <1>5, <1>6, <1>7 DEF EchoOk

\* One client changes, or its connection: the rest is as it was.
LEMMA OthersOk ==
    ASSUME EchoInv, NEW c \in EchoClients, EchoOk(c)', EchoTypes', ServerOk',
           \A d \in EchoClients : d # c => Untouched(d)
    PROVE  EchoInv'
<1>1. ASSUME NEW d \in EchoClients, d # c PROVE EchoOk(d)'
    BY <1>1, UntouchedOk DEF EchoInv
<1> QED BY <1>1 DEF EchoInv

LEMMA AllUntouched ==
    ASSUME EchoInv, EchoTypes', ServerOk', \A d \in EchoClients : Untouched(d)
    PROVE  EchoInv'
BY UntouchedOk DEF EchoInv

\* The client side takes a step: the server does not.
LEMMA ClientOnly ==
    ASSUME NEW c \in EchoClients, UNCHANGED <<backlog, server>>,
           \A d \in EchoClients : d # c => net'[d] = net[d] /\ client'[d] = client[d]
    PROVE  /\ \A d \in EchoClients : (Waits(d)' <=> Waits(d)) /\ (Turn(d)' <=> Turn(d))
           /\ \A d \in EchoClients : d # c => Untouched(d)
<1>1. \A d \in EchoClients : (Waits(d)' <=> Waits(d)) /\ (Turn(d)' <=> Turn(d))
    BY DEF Waits, InBacklog, Serving, Turn
<1> QED BY <1>1 DEF Untouched

LEMMA PartsOf ==
    ASSUME EchoTypes, NEW c \in EchoClients
    PROVE  /\ net \in [EchoClients -> ConnType] /\ net[c] \in ConnType
           /\ client[c] \in ClientType /\ client[c].argv \in Seq(Nat)
           /\ client[c].pc \in EchoPcs /\ client[c].said \in Bytes
           /\ server.pc \in ServerPcs /\ server.buf \in Bytes /\ Len(server.buf) = BUFLEN
BY DEF EchoTypes, ClientType

\* A client goes on, and what it said stays.
LEMMA ClientMoves ==
    ASSUME EchoTypes, NEW c \in EchoClients, NEW p \in EchoPcs, ClientGoes(c, p)
    PROVE  /\ client' \in [EchoClients -> ClientType]
           /\ client'[c].pc = p /\ client'[c].said = client[c].said
           /\ client'[c].argv = client[c].argv /\ Sent(c)' = Sent(c)
           /\ \A d \in EchoClients : d # c => client'[d] = client[d]
<1>1. client \in [EchoClients -> ClientType] /\ client[c] \in ClientType BY DEF EchoTypes
<1>2. PICK r : r = [client[c] EXCEPT !.pc = p] OBVIOUS
<1>3. r \in ClientType /\ r.pc = p /\ r.said = client[c].said /\ r.argv = client[c].argv
    BY <1>1, <1>2 DEF ClientType
<1>4. client' = [client EXCEPT ![c] = r] BY <1>2 DEF ClientGoes
<1>5. /\ client' \in [EchoClients -> ClientType] /\ client'[c] = r
      /\ \A d \in EchoClients : d # c => client'[d] = client[d]
    BY ONLY <1>1, <1>3, <1>4
<1> QED BY <1>3, <1>5 DEF Sent

LEMMA ServerStays ==
    ASSUME EchoTypes, ServerOk, UNCHANGED <<backlog, listening, server>>,
           net' \in [EchoClients -> ConnType], client' \in [EchoClients -> ClientType]
    PROVE  EchoTypes' /\ ServerOk'
<1>1. EchoTypes' BY DEF EchoTypes
<1>2. ServerOk' BY DEF ServerOk, Serving, InBacklog
<1> QED BY <1>1, <1>2

LEMMA SentOf ==
    ASSUME EchoTypes, NEW c \in EchoClients
    PROVE  /\ Sent(c) \in Bytes /\ Len(Sent(c)) \in Nat
           /\ \A i \in 1 .. Len(Sent(c)) : Sent(c)[i] \in Nat /\ Sent(c)[i] # NUL
BY PartsOf, SentIs

LEMMA StartClientOk ==
    ASSUME EchoInv, NEW c \in EchoClients, StartClient(c)
    PROVE  EchoInv'
<1>0. EchoTypes /\ ServerOk /\ EchoOk(c) BY DEF EchoInv
<1>1. PICK p \in {"connect", "failed"} : ClientGoes(c, p) BY DEF StartClient
<1>2. UNCHANGED <<net, backlog, listening, server>> /\ client[c].pc = "start" BY DEF StartClient
<1>3. p \in EchoPcs BY DEF EchoPcs
<1>4. /\ client' \in [EchoClients -> ClientType]
      /\ client'[c].pc = p /\ client'[c].said = client[c].said /\ Sent(c)' = Sent(c)
      /\ \A d \in EchoClients : d # c => client'[d] = client[d]
    BY <1>0, <1>1, <1>3, ClientMoves
<1>5. EchoTypes' /\ ServerOk'
    <2>1. net' \in [EchoClients -> ConnType] BY <1>0, <1>2 DEF EchoTypes
    <2> QED BY <1>0, <1>2, <1>4, <2>1, ServerStays
<1>6. (Waits(c)' <=> Waits(c)) /\ (Turn(c)' <=> Turn(c)) /\ \A d \in EchoClients : d # c => Untouched(d)
    BY <1>2, <1>4, ClientOnly
<1>7. ~ Waits(c) /\ net[c] = BothClosed /\ client[c].said = <<>> BY <1>0, <1>2 DEF EchoOk, Unlinked
<1>8. ~ Waits(c)' /\ ~ Turn(c)' BY <1>6, <1>7 DEF Turn, Waits, Serving
<1>9. EchoOk(c)'
    <2>1. Unlinked(c)' BY <1>2, <1>4, <1>7, <1>8 DEF Unlinked
    <2>2. Connected(c)' BY <1>8 DEF Connected
    <2>3. ~ IsOpen(c)' BY <1>1, <1>4 DEF IsOpen
    <2>4. Answered(c)' BY <2>3 DEF Answered
    <2>5. Filling(c)' BY <1>8 DEF Filling
    <2>6. SaidOk(c)' BY <1>0, <1>1, <1>4 DEF EchoOk, SaidOk
    <2> QED BY <2>1, <2>2, <2>4, <2>5, <2>6 DEF EchoOk
<1> QED BY <1>5, <1>6, <1>9, OthersOk

LEMMA ConnectOk ==
    ASSUME EchoInv, NEW c \in EchoClients, Connect(c)
    PROVE  EchoInv'
<1>0. EchoTypes /\ ServerOk /\ EchoOk(c) BY DEF EchoInv
<1>1. UNCHANGED <<listening, server>> /\ client[c].pc = "connect" BY DEF Connect
<1>2. ~ Waits(c) /\ net[c] = BothClosed /\ client[c].said = <<>> BY <1>0, <1>1 DEF EchoOk, Unlinked
<1>3. PICK p \in {"send", "failed"} : ClientGoes(c, p) /\ (p = "send" <=> listening) BY DEF Connect
<1>4. p \in EchoPcs BY DEF EchoPcs
<1>5. /\ client' \in [EchoClients -> ClientType]
      /\ client'[c].pc = p /\ client'[c].said = client[c].said /\ Sent(c)' = Sent(c)
      /\ \A d \in EchoClients : d # c => client'[d] = client[d]
    BY <1>0, <1>3, <1>4, ClientMoves
<1>6. SaidOk(c)' BY <1>0, <1>3, <1>5 DEF EchoOk, SaidOk
<1>7. CASE ~ listening
    <2>1. UNCHANGED <<net, backlog>> /\ p = "failed" BY <1>3, <1>7 DEF Connect
    <2>2. EchoTypes' /\ ServerOk'
        <3>1. net' \in [EchoClients -> ConnType] BY <1>0, <2>1 DEF EchoTypes
        <3> QED BY <1>0, <1>1, <1>5, <2>1, <3>1, ServerStays
    <2>3. (Waits(c)' <=> Waits(c)) /\ (Turn(c)' <=> Turn(c)) /\ \A d \in EchoClients : d # c => Untouched(d)
        BY <1>1, <1>5, <2>1, ClientOnly
    <2>4. ~ Waits(c)' /\ ~ Turn(c)' BY <1>2, <2>3 DEF Turn, Waits, Serving
    <2>5. ~ IsOpen(c)' BY <1>5, <2>1 DEF IsOpen
    <2>6. Unlinked(c)' BY <1>5, <2>1 DEF Unlinked
    <2>7. Connected(c)' BY <2>4 DEF Connected
    <2>8. Answered(c)' BY <2>5 DEF Answered
    <2>9. Filling(c)' BY <2>4 DEF Filling
    <2>10. EchoOk(c)' BY <1>6, <2>6, <2>7, <2>8, <2>9 DEF EchoOk
    <2> QED BY <2>2, <2>3, <2>10, OthersOk
<1>8. CASE listening
    <2>1. net' = Net!Opened(net, c) /\ backlog' = Append(backlog, c) /\ p = "send"
        BY <1>3, <1>8 DEF Connect
    <2>2. PICK x : x = [s \in Net!Sides |-> Net!Fresh("up")] OBVIOUS
    <2>3. /\ x \in ConnType /\ InqOf(x, "client") = <<>> /\ InqOf(x, "server") = <<>>
          /\ LinkOf(x, "client") = "up" /\ LinkOf(x, "server") = "up"
        <3>1. "up" \in Net!Links BY DEF Net!Links
        <3>2. PICK f \in EndType : f = Net!Fresh("up") /\ f.inq = <<>> /\ f.link = "up" BY <3>1, FreshIs
        <3> QED BY <2>2, <3>2, SidesAre DEF ConnType, InqOf, LinkOf
    <2>4. net' = [net EXCEPT ![c] = x] BY <2>1, <2>2 DEF Net!Opened
    <2>5. /\ net' \in [EchoClients -> ConnType] /\ net'[c] = x
          /\ \A d \in EchoClients : d # c => net'[d] = net[d]
        BY <1>0, <2>3, <2>4, OneConn DEF EchoTypes
    <2>6. /\ backlog' \in Seq(EchoClients) /\ Len(backlog') = Len(backlog) + 1
          /\ backlog'[Len(backlog) + 1] = c /\ DOMAIN backlog' = 1 .. Len(backlog) + 1
          /\ \A j \in 1 .. Len(backlog) : backlog'[j] = backlog[j]
          /\ DOMAIN backlog = 1 .. Len(backlog) /\ Len(backlog) \in Nat
        <3>1. backlog \in Seq(EchoClients) BY <1>0 DEF EchoTypes
        <3> QED BY ONLY <2>1, <3>1, c \in EchoClients
    <2>7. InBacklog(c)' /\ \A d : d # c => (InBacklog(d)' <=> InBacklog(d))
        <3>1. InBacklog(c)' BY <2>6 DEF InBacklog
        <3>2. ASSUME NEW d, d # c PROVE InBacklog(d)' <=> InBacklog(d) BY <2>6, <3>2 DEF InBacklog
        <3> QED BY <3>1, <3>2
    <2>8. ~ InBacklog(c) /\ ~ (Serving /\ server.client = c) BY <1>2 DEF Waits
    <2>9. EchoTypes' BY <1>0, <1>1, <1>5, <2>5, <2>6 DEF EchoTypes
    <2>10. ServerOk'
        <3>1. server.pc \notin {"none", "start", "stopped", "no socket"} BY <1>0, <1>8 DEF ServerOk
        <3>3. \A i, j \in DOMAIN backlog : backlog[i] = backlog[j] => i = j BY <1>0 DEF ServerOk
        <3>4. \A i \in DOMAIN backlog : backlog[i] # c BY <2>8 DEF InBacklog
        <3>5. \A i, j \in DOMAIN backlog' : backlog'[i] = backlog'[j] => i = j BY <2>6, <3>3, <3>4
        <3>6. server.pc \in {"none", "start", "no socket", "accept"} => server.client = 0 BY <1>0 DEF ServerOk
        <3>7. (Serving => server.client \in EchoClients /\ ~ InBacklog(server.client))'
            <4> SUFFICES ASSUME Serving'
                         PROVE  server'.client \in EchoClients /\ ~ InBacklog(server.client)'
                OBVIOUS
            <4>1. PICK d : d = server.client OBVIOUS
            <4>2. server' = server BY <1>1
            <4>3. Serving BY <4>2 DEF Serving
            <4>4. d \in EchoClients /\ ~ InBacklog(d) /\ d # c BY <1>0, <2>8, <4>1, <4>3 DEF ServerOk
            <4>5. ~ InBacklog(d)' BY <2>7, <4>4
            <4>6. server'.client = d BY <4>1, <4>2
            <4> QED BY <4>4, <4>5, <4>6 DEF InBacklog
        <3> QED BY <1>1, <3>1, <3>5, <3>6, <3>7 DEF ServerOk
    <2>11. \A d \in EchoClients : Turn(d)' <=> Turn(d) BY <1>1 DEF Turn
    <2>12. Waits(c)' BY <2>7 DEF Waits
    <2>13. \A d \in EchoClients : d # c => Untouched(d)
        <3>1. \A d \in EchoClients : d # c => (Waits(d)' <=> Waits(d))
            BY <1>1, <2>7 DEF Waits, Serving
        <3> QED BY <1>1, <1>5, <2>5, <2>11, <3>1 DEF Untouched
    <2>14. ~ Turn(c)' BY <2>8, <2>11 DEF Turn, Serving
    <2>15. IsOpen(c)' BY <1>5, <2>1 DEF IsOpen
    <2>16. Unlinked(c)' BY <1>5, <2>1 DEF Unlinked
    <2>17. Connected(c)' BY <1>5, <2>1, <2>3, <2>5, <2>15 DEF Connected
    <2>18. Answered(c)' BY <2>12 DEF Answered
    <2>19. Filling(c)' BY <2>14 DEF Filling
    <2>20. EchoOk(c)' BY <1>6, <2>16, <2>17, <2>18, <2>19 DEF EchoOk
    <2> QED BY <2>9, <2>10, <2>13, <2>20, OthersOk
<1> QED BY <1>7, <1>8

EndPcs == {"exited", "failed", "killed"}

\* A client whose connection is open ends, one way or another.
LEMMA LeavesOk ==
    ASSUME EchoInv, NEW c \in EchoClients, IsOpen(c), UNCHANGED <<backlog, listening, server>>,
           net' \in [EchoClients -> ConnType], client' \in [EchoClients -> ClientType],
           \A d \in EchoClients : d # c => net'[d] = net[d] /\ client'[d] = client[d],
           client'[c].pc \in EndPcs, Sent(c)' = Sent(c), SaidOk(c)',
           Waits(c) => net'[c] = Net!AfterClose(net[c], "client")
    PROVE  EchoInv'
<1>0. EchoTypes /\ ServerOk /\ EchoOk(c) BY DEF EchoInv
<1>1. EchoTypes' /\ ServerOk' BY <1>0, ServerStays
<1>2. (Waits(c)' <=> Waits(c)) /\ (Turn(c)' <=> Turn(c)) /\ \A d \in EchoClients : d # c => Untouched(d)
    BY ClientOnly
<1>3. ~ IsOpen(c)' BY DEF IsOpen, EndPcs
<1>4. Unlinked(c)' BY DEF Unlinked, EndPcs
<1>5. Answered(c)' BY <1>3 DEF Answered
<1>6. Connected(c)'
    <2> SUFFICES ASSUME Waits(c) PROVE Connected(c)' BY <1>2 DEF Connected
    <2>1. PICK x : x = net'[c] OBVIOUS
    <2>2. x = Net!AfterClose(net[c], "client") BY <2>1
    <2>3. net[c] \in ConnType BY <1>0, PartsOf
    <2>4. /\ InqOf(net[c], "client") = <<>> /\ LinkOf(net[c], "server") = "up"
          /\ ~ Turn(c) => InqOf(net[c], "server") \in {<<>>, Sent(c)}
        BY <1>0 DEF EchoOk, Connected
    <2>5. x["client"] = Net!Fresh("closed") /\ InqOf(x, "server") = InqOf(net[c], "server")
          /\ LinkOf(x, "server") = "eof"
        BY <2>2, <2>3, <2>4, ClientCloses
    <2>6. InqOf(x, "client") = <<>> /\ LinkOf(x, "client") = "closed"
        BY <2>5 DEF InqOf, LinkOf, Net!Fresh
    <2>7. client'[c].pc \notin {"send", "recv"} BY DEF EndPcs
    <2> QED BY <1>2, <1>3, <2>1, <2>4, <2>5, <2>6, <2>7 DEF Connected
<1>7. Filling(c)'
    <2> SUFFICES ASSUME Turn(c) PROVE Filling(c)' BY <1>2 DEF Filling
    <2>1. PICK k \in Nat : Echoed(c, k, server.buf) BY <1>0 DEF EchoOk, Filling
    <2>2. Echoed(c, k, server.buf)' BY <2>1 DEF Echoed
    <2>3. client'[c].pc \notin {"send", "recv"} BY DEF EndPcs
    <2> QED BY <2>2, <2>3 DEF Filling
<1>8. EchoOk(c)' BY <1>4, <1>5, <1>6, <1>7 DEF EchoOk
<1> QED BY <1>1, <1>2, <1>8, OthersOk

LEMMA EndsAloneOk ==
    ASSUME EchoInv, NEW c \in EchoClients, IsOpen(c), UNCHANGED <<backlog, listening, server>>,
           NEW how \in EndPcs, ClientEnds(c, how),
           how = "exited" /\ client[c].said = <<>> => server.pc = "stopped" \/ Sent(c) = <<>>
    PROVE  EchoInv'
<1>0. EchoTypes /\ EchoOk(c) BY DEF EchoInv
<1>1. how \in EchoPcs /\ ClientGoes(c, how) BY DEF EndPcs, EchoPcs, ClientEnds
<1>2. /\ client' \in [EchoClients -> ClientType]
      /\ client'[c].pc = how /\ client'[c].said = client[c].said /\ Sent(c)' = Sent(c)
      /\ \A d \in EchoClients : d # c => client'[d] = client[d]
    BY <1>0, <1>1, ClientMoves
<1>3. net[c] \in ConnType /\ net \in [EchoClients -> ConnType] BY <1>0, PartsOf
<1>4. PICK x : x = Net!AfterClose(net[c], "client") OBVIOUS
<1>5. x \in ConnType BY <1>3, <1>4, ClientCloses
<1>6. net' = Net!Closed(net, {c}, "client") BY DEF ClientEnds
<1>7. /\ net' \in [EchoClients -> ConnType] /\ net'[c] = x
      /\ \A d \in EchoClients : d # c => net'[d] = net[d]
    <2>1. PICK N : N = net' OBVIOUS
    <2>2. N = Net!Closed(net, {c}, "client") BY <1>6, <2>1
    <2>3. N \in [EchoClients -> ConnType] /\ N[c] = x /\ \A d \in EchoClients : d # c => N[d] = net[d]
        BY ONLY <1>3, <1>4, <1>5, <2>2, c \in EchoClients, ClosesOne
    <2> QED BY <2>1, <2>3
<1>8. SaidOk(c)' BY <1>0, <1>2 DEF EchoOk, SaidOk
<1> QED BY <1>2, <1>4, <1>7, <1>8, LeavesOk

LEMMA SendMessageOk ==
    ASSUME EchoInv, NEW c \in EchoClients, SendMessage(c)
    PROVE  EchoInv'
<1>0. EchoTypes /\ ServerOk /\ EchoOk(c) BY DEF EchoInv
<1>1. /\ UNCHANGED <<backlog, listening, server>> /\ client[c].pc = "send" /\ IsOpen(c)
      /\ net[c] \in ConnType /\ net \in [EchoClients -> ConnType]
    BY <1>0, PartsOf DEF SendMessage, IsOpen
<1>2. PICK link : link = LinkOf(net[c], "client") OBVIOUS
<1>3. \/ ClientEnds(c, "failed") /\ Sent(c) # <<>> /\ link \in {"reset", "dead"}
      \/ ClientGoes(c, "recv") /\ Sent(c) = <<>> /\ net' = net
      \/ /\ ClientGoes(c, "recv") /\ Sent(c) # <<>> /\ link \notin {"reset", "dead"}
         /\ net' = [net EXCEPT ![c] = Net!AfterSend(@, "client", Sent(c))]
    <2>1. CASE Sent(c) = <<>> BY <2>1 DEF SendMessage
    <2>2. CASE Sent(c) # <<>> /\ link \in {"reset", "dead"} BY <1>2, <2>2 DEF SendMessage, LinkOf
    <2>3. CASE Sent(c) # <<>> /\ link \notin {"reset", "dead"} BY <1>2, <2>3 DEF SendMessage, LinkOf
    <2> QED BY <2>1, <2>2, <2>3
<1>4. CASE ClientEnds(c, "failed")
    <2>1. "failed" \in EndPcs BY DEF EndPcs
    <2> QED BY <1>1, <1>4, <2>1, EndsAloneOk
<1>5. CASE ~ ClientEnds(c, "failed")
    <2>1. ClientGoes(c, "recv") /\ "recv" \in EchoPcs BY <1>3, <1>5 DEF EchoPcs
    <2>2. /\ client' \in [EchoClients -> ClientType]
          /\ client'[c].pc = "recv" /\ client'[c].said = client[c].said /\ Sent(c)' = Sent(c)
          /\ \A d \in EchoClients : d # c => client'[d] = client[d]
        BY <1>0, <2>1, ClientMoves
    <2>3. PICK x : x = IF Sent(c) = <<>> THEN net[c] ELSE Net!AfterSend(net[c], "client", Sent(c))
        OBVIOUS
    <2>4. /\ x \in ConnType
          /\ LinkOf(net[c], "client") = "up" =>
                x["client"] = net[c]["client"] /\ LinkOf(x, "server") = LinkOf(net[c], "server")
          /\ LinkOf(net[c], "client") = "up" /\ InqOf(net[c], "server") = <<>> => InqOf(x, "server") = Sent(c)
          /\ LinkOf(net[c], "client") # "up" =>
                x["server"] = net[c]["server"] /\ InqOf(x, "client") = InqOf(net[c], "client")
          /\ LinkOf(net[c], "client") = "eof" => LinkOf(x, "client") \in {"eof", "probed"}
          /\ LinkOf(net[c], "client") \in {"aborting", "probed"} => LinkOf(x, "client") = LinkOf(net[c], "client")
        <3>0. Sent(c) \in Bytes BY <1>0, SentOf
        <3>1. CASE Sent(c) = <<>> BY <1>1, <2>3, <3>1
        <3>2. CASE Sent(c) # <<>>
            <4>1. x = Net!AfterSend(net[c], "client", Sent(c)) BY <2>3, <3>2
            <4> QED BY ONLY <1>1, <3>0, <4>1, ClientSends
        <3> QED BY <3>1, <3>2
    <2>5. net' = [net EXCEPT ![c] = x]
        <3>1. CASE Sent(c) = <<>> BY <1>1, <1>3, <1>5, <2>3, <3>1
        <3>2. CASE Sent(c) # <<>> BY <1>3, <1>5, <2>3, <3>2
        <3> QED BY <3>1, <3>2
    <2>6. /\ net' \in [EchoClients -> ConnType] /\ net'[c] = x
          /\ \A d \in EchoClients : d # c => net'[d] = net[d]
        BY <1>1, <2>4, <2>5, OneConn
    <2>7. EchoTypes' /\ ServerOk' BY <1>0, <1>1, <2>2, <2>6, ServerStays
    <2>8. (Waits(c)' <=> Waits(c)) /\ (Turn(c)' <=> Turn(c)) /\ \A d \in EchoClients : d # c => Untouched(d)
        BY <1>1, <2>2, <2>6, ClientOnly
    <2>9. IsOpen(c)' BY <2>2 DEF IsOpen
    <2>10. Unlinked(c)' BY <2>2 DEF Unlinked
    <2>11. ~ Turn(c) BY <1>0, <1>1 DEF EchoOk, Filling
    <2>12. Filling(c)' BY <2>8, <2>11 DEF Filling
    <2>13. SaidOk(c)' BY <1>0, <2>2 DEF EchoOk, SaidOk
    <2>14. Connected(c)'
        <3> SUFFICES ASSUME Waits(c) PROVE Connected(c)' BY <2>8 DEF Connected
        <3>1. /\ InqOf(net[c], "client") = <<>> /\ InqOf(net[c], "server") = <<>>
              /\ LinkOf(net[c], "client") = "up" /\ LinkOf(net[c], "server") = "up"
            BY <1>0, <1>1 DEF EchoOk, Connected
        <3>2. /\ InqOf(x, "client") = <<>> /\ InqOf(x, "server") = Sent(c)
              /\ LinkOf(x, "client") = "up" /\ LinkOf(x, "server") = "up"
            BY <2>4, <3>1 DEF InqOf, LinkOf
        <3> QED BY <2>2, <2>6, <2>9, <3>2 DEF Connected
    <2>15. Answered(c)'
        <3> SUFFICES ASSUME ~ Waits(c) PROVE Answered(c)' BY <2>8 DEF Answered
        <3>1. /\ net[c]["server"] = Net!Fresh("closed")
              /\ LinkOf(net[c], "client") \in {"eof", "probed", "aborting", "reset", "dead"}
              /\ InqOf(net[c], "client") = <<>> => server.pc = "stopped"
              /\ InqOf(net[c], "client") # <<>> =>
                    \E k \in Nat : k > 0 /\ Echoed(c, k, InqOf(net[c], "client"))
            BY <1>0, <1>1 DEF EchoOk, Answered
        <3>2. LinkOf(x, "client") \in {"eof", "probed", "aborting", "reset", "dead"}
            <4>1. CASE Sent(c) = <<>> BY <2>3, <3>1, <4>1
            <4>2. CASE Sent(c) # <<>>
                <5>1. LinkOf(net[c], "client") \notin {"reset", "dead"} BY <1>2, <1>3, <1>5, <4>2
                <5> QED BY <2>4, <3>1, <5>1
            <4> QED BY <4>1, <4>2
        <3>3. x["server"] = net[c]["server"] /\ InqOf(x, "client") = InqOf(net[c], "client")
            BY <2>4, <3>1
        <3>4. server' = server /\ net'[c] = x BY <1>1, <2>6
        <3>5. \A k, q : Echoed(c, k, q)' <=> Echoed(c, k, q) BY <2>2 DEF Echoed
        <3>6. InqOf(x, "client") # <<>> => \E k \in Nat : k > 0 /\ Echoed(c, k, InqOf(x, "client"))'
            BY <3>1, <3>3, <3>4, <3>5
        <3> QED BY <3>1, <3>2, <3>3, <3>4, <3>6 DEF Answered
    <2>16. EchoOk(c)' BY <2>10, <2>12, <2>13, <2>14, <2>15 DEF EchoOk
    <2> QED BY <2>7, <2>8, <2>16, OthersOk
<1> QED BY <1>4, <1>5

LEMMA RecvEchoOk ==
    ASSUME EchoInv, NEW c \in EchoClients, RecvEcho(c)
    PROVE  EchoInv'
<1>0. EchoTypes /\ ServerOk /\ EchoOk(c) BY DEF EchoInv
<1>1. /\ UNCHANGED <<backlog, listening, server>> /\ client[c].pc = "recv" /\ IsOpen(c)
      /\ net[c] \in ConnType /\ net \in [EchoClients -> ConnType]
    BY <1>0, PartsOf DEF RecvEcho, IsOpen
<1>2. Waits(c) => InqOf(net[c], "client") = <<>> /\ LinkOf(net[c], "client") = "up"
    BY <1>0, <1>1 DEF EchoOk, Connected
<1>3. CASE \E n \in 1 .. BUFLEN - 1 :
            /\ n <= Len(net[c]["client"].inq)
            /\ client' = [client EXCEPT ![c].pc = "exited",
                                        ![c].said = UpToNul(SubSeq(net[c]["client"].inq, 1, n))]
            /\ net' = Net!Closed(Net!Took(net, c, "client", n), {c}, "client")
    <2>1. PICK n \in 1 .. BUFLEN - 1 :
            /\ n <= Len(net[c]["client"].inq)
            /\ client' = [client EXCEPT ![c].pc = "exited",
                                        ![c].said = UpToNul(SubSeq(net[c]["client"].inq, 1, n))]
            /\ net' = Net!Closed(Net!Took(net, c, "client", n), {c}, "client")
        BY <1>3
    <2>2. PICK q : q = InqOf(net[c], "client") OBVIOUS
    <2>3. q \in Bytes /\ n \in Nat /\ n > 0 /\ n <= Len(q)
        <3>1. BUFLEN \in Nat BY EchoAssumption
        <3>2. q \in Bytes BY <1>1, <2>2, SidesAre, InqType
        <3> QED BY <2>1, <2>2, <3>1, <3>2 DEF InqOf
    <2>4. q # <<>>
        <3>1. Len(<<>>) = 0 OBVIOUS
        <3> QED BY ONLY <2>3, <3>1
    <2>5. ~ Waits(c) BY <1>2, <2>2, <2>4
    <2>6. PICK k \in Nat : k > 0 /\ Echoed(c, k, q) BY <1>0, <1>1, <2>2, <2>4, <2>5 DEF EchoOk, Answered
    <2>7. PICK u : u = UpToNul(SubSeq(q, 1, n)) OBVIOUS
    <2>8. /\ u \in Bytes /\ Len(u) <= Len(Sent(c)) /\ u # <<>>
          /\ \A i \in 1 .. Len(u) : u[i] = Sent(c)[i]
        <3>1. client[c].argv \in Seq(Nat) BY <1>0, PartsOf
        <3> QED BY <2>1, <2>3, <2>6, <2>7, <3>1, Prints
    <2>9. /\ client' \in [EchoClients -> ClientType]
          /\ client'[c].pc = "exited" /\ client'[c].said = u /\ client'[c].argv = client[c].argv
          /\ \A d \in EchoClients : d # c => client'[d] = client[d]
        <3>1. client \in [EchoClients -> ClientType] /\ client[c] \in ClientType BY <1>0 DEF EchoTypes
        <3>2. PICK r : r = [client[c] EXCEPT !.pc = "exited", !.said = u] OBVIOUS
        <3>3. "exited" \in EchoPcs BY DEF EchoPcs
        <3>4. r \in ClientType /\ r.pc = "exited" /\ r.said = u /\ r.argv = client[c].argv
            BY ONLY <2>8, <3>1, <3>2, <3>3 DEF ClientType
        <3>5. client' = [client EXCEPT ![c].pc = "exited", ![c].said = u]
            BY <2>1, <2>2, <2>7 DEF InqOf
        <3>6. client' = [client EXCEPT ![c] = r] BY ONLY <3>1, <3>2, <3>5, c \in EchoClients
        <3> QED BY ONLY <3>1, <3>4, <3>6, c \in EchoClients
    <2>10. Sent(c)' = Sent(c) BY <2>9 DEF Sent
    <2>11. SaidOk(c)' BY <2>8, <2>9, <2>10 DEF SaidOk
    <2>12. net' \in [EchoClients -> ConnType] /\ \A d \in EchoClients : d # c => net'[d] = net[d]
        <3>1. PICK M : M = Net!Took(net, c, "client", n) OBVIOUS
        <3>2. M \in [EchoClients -> ConnType] /\ \A d \in EchoClients : d # c => M[d] = net[d]
            <4>1. n <= Len(InqOf(net[c], "client")) BY <2>2, <2>3
            <4> QED BY ONLY <1>1, <2>3, <3>1, <4>1, c \in EchoClients, SidesAre, Takes
        <3>3. PICK x : x = Net!AfterClose(M[c], "client") OBVIOUS
        <3>4. x \in ConnType
            <4>1. M[c] \in ConnType BY <3>2
            <4> QED BY <3>3, <4>1, ClientCloses
        <3>5. PICK N : N = net' OBVIOUS
        <3>6. N = Net!Closed(M, {c}, "client") BY <2>1, <3>1, <3>5
        <3>7. N \in [EchoClients -> ConnType] /\ \A d \in EchoClients : d # c => N[d] = M[d]
            BY ONLY <3>2, <3>3, <3>4, <3>6, c \in EchoClients, ClosesOne
        <3> QED BY <3>2, <3>5, <3>7
    <2>13. client'[c].pc \in EndPcs BY <2>9 DEF EndPcs
    <2> QED BY <1>1, <2>5, <2>9, <2>10, <2>11, <2>12, <2>13, LeavesOk
<1>4. CASE Net!AtEof(net[c]["client"]) /\ ClientEnds(c, "exited")
    <2>1. InqOf(net[c], "client") = <<>> /\ LinkOf(net[c], "client") \in {"eof", "probed", "dead"}
        BY <1>4 DEF Net!AtEof, InqOf, LinkOf
    <2>2. server.pc = "stopped" BY <1>0, <1>1, <1>2, <2>1 DEF EchoOk, Answered
    <2>3. "exited" \in EndPcs BY DEF EndPcs
    <2> QED BY <1>1, <1>4, <2>2, <2>3, EndsAloneOk
<1>5. CASE ClientEnds(c, "failed")
    <2>1. "failed" \in EndPcs BY DEF EndPcs
    <2> QED BY <1>1, <1>5, <2>1, EndsAloneOk
<1> QED BY <1>3, <1>4, <1>5 DEF RecvEcho

LEMMA KillClientOk ==
    ASSUME EchoInv, NEW c \in EchoClients, client[c].pc \in {"send", "recv"},
           ClientEnds(c, "killed"), UNCHANGED <<backlog, listening, server>>
    PROVE  EchoInv'
<1>1. "killed" \in EndPcs /\ IsOpen(c) BY DEF EndPcs, IsOpen
<1> QED BY <1>1, EndsAloneOk

(***************************************************************************)
(* The server.                                                             *)
(***************************************************************************)
LEMMA ServerMoves ==
    ASSUME EchoTypes, NEW p \in ServerPcs, ServerGoes(p)
    PROVE  /\ server' \in [pc : ServerPcs, client : EchoClients \cup {0}, buf : Bytes]
           /\ server'.pc = p /\ server'.client = server.client /\ server'.buf = server.buf
           /\ Len(server'.buf) = BUFLEN
BY DEF EchoTypes, ServerGoes

LEMMA StartServerOk == ASSUME EchoInv, StartServer PROVE EchoInv'
<1>0. EchoTypes /\ ServerOk BY DEF EchoInv
<1>1. server.pc = "start" /\ UNCHANGED <<net, backlog, client>> BY DEF StartServer
<1>2. PICK p \in {"accept", "no socket"} : ServerGoes(p) /\ listening' \in BOOLEAN
                                            /\ (p = "no socket" => listening' = listening)
    BY <1>0 DEF StartServer, EchoTypes
<1>3. p \in ServerPcs BY DEF ServerPcs
<1>4. /\ server' \in [pc : ServerPcs, client : EchoClients \cup {0}, buf : Bytes]
      /\ server'.pc = p /\ server'.client = server.client /\ Len(server'.buf) = BUFLEN
    BY <1>0, <1>2, <1>3, ServerMoves
<1>5. EchoTypes' BY <1>0, <1>1, <1>2, <1>4 DEF EchoTypes
<1>6. ServerOk'
    <2>1. server.client = 0 /\ backlog = <<>> /\ ~ listening BY <1>0, <1>1 DEF ServerOk
    <2>2. server'.client = 0 /\ backlog' = <<>> BY <1>1, <1>4, <2>1
    <2>3. ~ Serving' BY <1>2, <1>4 DEF Serving
    <2>4. p = "no socket" => ~ listening' BY <1>2, <2>1
    <2>5. server'.pc \in {"accept", "no socket"} /\ (server'.pc = "no socket" => ~ listening') BY <1>4, <2>4
    <2>6. \A i, j \in DOMAIN backlog' : backlog'[i] = backlog'[j] => i = j BY <1>0, <1>1 DEF ServerOk
    <2> QED BY <2>2, <2>3, <2>5, <2>6 DEF ServerOk
<1>7. \A d \in EchoClients : Untouched(d)
    BY <1>1, <1>4 DEF Untouched, Waits, InBacklog, Turn, Serving
<1> QED BY <1>5, <1>6, <1>7, AllUntouched

LEMMA AcceptOk == ASSUME EchoInv, Accept PROVE EchoInv'
<1>0. EchoTypes /\ ServerOk BY DEF EchoInv
<1>1. server.pc = "accept" /\ UNCHANGED <<net, listening, client>> BY DEF Accept
<1>2. /\ backlog \in Seq(EchoClients) /\ Len(backlog) \in Nat /\ Len(backlog) >= 1
      /\ DOMAIN backlog = 1 .. Len(backlog)
    <2>1. backlog \in Seq(EchoClients) /\ backlog # <<>> BY <1>0 DEF EchoTypes, Accept
    <2> QED BY ONLY <2>1
<1>3. PICK h : h = Head(backlog) OBVIOUS
<1>4. h = backlog[1] /\ h \in EchoClients
    <2>1. h = backlog[1] BY ONLY <1>2, <1>3
    <2> QED BY ONLY <1>2, <2>1
<1>5. PICK t : t = Tail(backlog) OBVIOUS
<1>6. /\ t \in Seq(EchoClients) /\ DOMAIN t = 1 .. Len(backlog) - 1
      /\ \A j \in 1 .. Len(backlog) - 1 : t[j] = backlog[j + 1]
    BY ONLY <1>2, <1>5
<1>7. backlog' = t BY <1>5 DEF Accept
<1>8. /\ server' \in [pc : ServerPcs, client : EchoClients \cup {0}, buf : Bytes]
      /\ server'.pc = "recv" /\ server'.client = h /\ Len(server'.buf) = BUFLEN
    <2>1. "recv" \in ServerPcs BY DEF ServerPcs
    <2>2. server' = [server EXCEPT !.pc = "recv", !.client = h] BY <1>3 DEF Accept
    <2>3. server \in [pc : ServerPcs, client : EchoClients \cup {0}, buf : Bytes] /\ Len(server.buf) = BUFLEN
        BY <1>0 DEF EchoTypes
    <2> QED BY ONLY <1>4, <2>1, <2>2, <2>3
<1>9. EchoTypes' BY <1>0, <1>1, <1>6, <1>7, <1>8 DEF EchoTypes
<1>10. \A i, j \in DOMAIN backlog : backlog[i] = backlog[j] => i = j BY <1>0 DEF ServerOk
<1>11. \A d : InBacklog(d)' <=> \E j \in DOMAIN t : t[j] = d BY <1>7 DEF InBacklog
<1>12. \A d : (\E j \in DOMAIN t : t[j] = d) <=> InBacklog(d) /\ d # h
    <2>1. ASSUME NEW d, NEW j \in DOMAIN t, t[j] = d PROVE InBacklog(d) /\ d # h
        <3>1. j + 1 \in DOMAIN backlog /\ 1 \in DOMAIN backlog /\ j + 1 # 1 /\ backlog[j + 1] = d
            BY <1>2, <1>6, <2>1
        <3> QED BY <1>4, <1>10, <3>1 DEF InBacklog
    <2>2. ASSUME NEW d, InBacklog(d), d # h PROVE \E j \in DOMAIN t : t[j] = d
        <3>1. PICK i \in DOMAIN backlog : backlog[i] = d BY <2>2 DEF InBacklog
        <3>2. i # 1 BY <1>4, <2>2, <3>1
        <3>3. i - 1 \in 1 .. Len(backlog) - 1 /\ (i - 1) + 1 = i BY <1>2, <3>1, <3>2
        <3>4. t[i - 1] = d BY <1>6, <3>1, <3>3
        <3> QED BY <1>6, <3>3, <3>4
    <2> QED BY <2>1, <2>2
<1>13. InBacklog(h) BY <1>2, <1>4 DEF InBacklog
<1>14. ServerOk'
    <2>1. \A i, j \in DOMAIN t : t[i] = t[j] => i = j
        <3> SUFFICES ASSUME NEW i \in DOMAIN t, NEW j \in DOMAIN t, t[i] = t[j] PROVE i = j OBVIOUS
        <3>1. i + 1 \in DOMAIN backlog /\ j + 1 \in DOMAIN backlog BY <1>2, <1>6
        <3>2. i + 1 = j + 1 BY <1>6, <1>10, <3>1
        <3>3. i \in Int /\ j \in Int BY <1>6
        <3> QED BY <3>2, <3>3
    <2>2. ~ \E j \in DOMAIN backlog' : backlog'[j] = server'.client BY <1>7, <1>8, <1>12
    <2> QED BY <1>4, <1>7, <1>8, <2>1, <2>2 DEF ServerOk, Serving, InBacklog
<1>15. ASSUME NEW d \in EchoClients PROVE Untouched(d)
    <2>1. Waits(d) <=> InBacklog(d) BY <1>1 DEF Waits, Serving
    <2>2. Waits(d)' <=> (InBacklog(d) /\ d # h) \/ d = h
        BY <1>8, <1>11, <1>12 DEF Waits, Serving
    <2>3. ~ Turn(d) /\ ~ Turn(d)' BY <1>1, <1>8 DEF Turn
    <2> QED BY <1>1, <1>13, <2>1, <2>2, <2>3 DEF Untouched
<1> QED BY <1>9, <1>14, <1>15, AllUntouched

\* The client that the server serves.
LEMMA ServedIs ==
    ASSUME EchoInv, Serving, NEW c, c = server.client
    PROVE  /\ c \in EchoClients /\ EchoOk(c) /\ Waits(c) /\ ~ InBacklog(c)
           /\ InqOf(net[c], "client") = <<>>
           /\ IsOpen(c) => LinkOf(net[c], "client") = "up" /\ LinkOf(net[c], "server") = "up"
           /\ ~ IsOpen(c) => LinkOf(net[c], "client") = "closed" /\ LinkOf(net[c], "server") = "eof"
           /\ client[c].pc = "send" => InqOf(net[c], "server") = <<>>
           /\ ~ Turn(c) => /\ InqOf(net[c], "server") \in {<<>>, Sent(c)}
                           /\ client[c].pc = "recv" => InqOf(net[c], "server") = Sent(c)
           /\ net[c] \in ConnType /\ client[c].argv \in Seq(Nat)
<1>0. EchoTypes /\ ServerOk BY DEF EchoInv
<1>1. c \in EchoClients /\ ~ InBacklog(c) BY <1>0 DEF ServerOk
<1>2. EchoOk(c) /\ Waits(c) BY <1>1 DEF EchoInv, Waits
<1>3. net[c] \in ConnType /\ client[c].argv \in Seq(Nat) BY <1>0, <1>1, PartsOf
<1>4. Connected(c) BY <1>2 DEF EchoOk
<1> QED BY <1>1, <1>2, <1>3, <1>4 DEF Connected

LEMMA RecvMessageOk == ASSUME EchoInv, RecvMessage PROVE EchoInv'
<1>0. EchoTypes /\ ServerOk /\ server.pc = "recv" /\ Serving BY DEF EchoInv, RecvMessage, Serving
<1>1. PICK c : c = server.client OBVIOUS
<1>2. /\ c \in EchoClients /\ EchoOk(c) /\ Waits(c) /\ ~ InBacklog(c)
      /\ InqOf(net[c], "client") = <<>>
      /\ IsOpen(c) => LinkOf(net[c], "client") = "up" /\ LinkOf(net[c], "server") = "up"
      /\ ~ IsOpen(c) => LinkOf(net[c], "client") = "closed" /\ LinkOf(net[c], "server") = "eof"
      /\ client[c].pc = "send" => InqOf(net[c], "server") = <<>>
      /\ ~ Turn(c) => /\ InqOf(net[c], "server") \in {<<>>, Sent(c)}
                      /\ client[c].pc = "recv" => InqOf(net[c], "server") = Sent(c)
      /\ net[c] \in ConnType /\ client[c].argv \in Seq(Nat)
    BY <1>0, <1>1, ServedIs
<1>3. PICK q : q = InqOf(net[c], "server") OBVIOUS
<1>4. ~ Turn(c) BY <1>0 DEF Turn
<1>5. q \in {<<>>, Sent(c)} /\ q \in Bytes /\ Len(q) \in Nat
    <2>1. q \in Bytes BY <1>2, <1>3, SidesAre, InqType
    <2> QED BY <1>2, <1>3, <1>4, <2>1 DEF Bytes
<1>6. LinkOf(net[c], "server") \in {"up", "eof"} BY <1>2
<1>7. PICK e : e = net[c]["server"] OBVIOUS
<1>8. ~ Net!AtReset(e) BY <1>6, <1>7 DEF Net!AtReset, LinkOf
<1>9. /\ UNCHANGED <<backlog, listening, client>>
      /\ \/ \E n \in 1 .. BUFLEN - 1 :
              /\ n <= Len(e.inq) /\ net' = Net!Took(net, c, "server", n)
              /\ server' = [server EXCEPT !.pc = "send", !.buf = Filled(@, SubSeq(e.inq, 1, n))]
         \/ /\ Net!AtEof(e) /\ UNCHANGED net
            /\ server' = [server EXCEPT !.pc = "send", !.buf = Filled(@, SubSeq(e.inq, 1, 0))]
    BY <1>1, <1>7, <1>8 DEF RecvMessage
<1>10. e.inq = q /\ e.link = LinkOf(net[c], "server") BY <1>3, <1>7 DEF InqOf, LinkOf
<1>11. PICK n \in 0 .. BUFLEN - 1 :
          /\ n <= Len(q)
          /\ server' = [server EXCEPT !.pc = "send", !.buf = Filled(@, SubSeq(q, 1, n))]
          /\ \/ n > 0 /\ net' = Net!Took(net, c, "server", n)
             \/ n = 0 /\ ~ IsOpen(c) /\ net' = net
    <2>0. BUFLEN \in Nat /\ BUFLEN > 1 BY EchoAssumption
    <2>1. CASE \E n \in 1 .. BUFLEN - 1 :
              /\ n <= Len(e.inq) /\ net' = Net!Took(net, c, "server", n)
              /\ server' = [server EXCEPT !.pc = "send", !.buf = Filled(@, SubSeq(e.inq, 1, n))]
        <3>1. PICK n \in 1 .. BUFLEN - 1 :
                  /\ n <= Len(e.inq) /\ net' = Net!Took(net, c, "server", n)
                  /\ server' = [server EXCEPT !.pc = "send", !.buf = Filled(@, SubSeq(e.inq, 1, n))]
            BY <2>1
        <3>2. n \in 0 .. BUFLEN - 1 /\ n > 0 BY <2>0
        <3> QED BY <1>10, <3>1, <3>2
    <2>2. CASE Net!AtEof(e) /\ UNCHANGED net
               /\ server' = [server EXCEPT !.pc = "send", !.buf = Filled(@, SubSeq(e.inq, 1, 0))]
        <3>1. ~ IsOpen(c) BY <1>2, <1>10, <2>2 DEF Net!AtEof
        <3>2. 0 \in 0 .. BUFLEN - 1 /\ 0 <= Len(q) BY <1>5, <2>0
        <3> QED BY <1>10, <2>2, <3>1, <3>2
    <2> QED BY <1>9, <2>1, <2>2
<1>12. PICK f : f = Filled(server.buf, SubSeq(q, 1, n)) OBVIOUS
<1>13. f \in Bytes /\ Len(f) = BUFLEN /\ Echoed(c, n, f)
    <2>1. server.buf \in Bytes /\ Len(server.buf) = BUFLEN BY <1>0, <1>2, PartsOf
    <2> QED BY <1>2, <1>5, <1>11, <1>12, <2>1, Fills
<1>14. /\ server' \in [pc : ServerPcs, client : EchoClients \cup {0}, buf : Bytes]
       /\ server'.pc = "send" /\ server'.client = c /\ server'.buf = f
    <2>1. "send" \in ServerPcs BY DEF ServerPcs
    <2>2. server' = [server EXCEPT !.pc = "send", !.buf = f] BY <1>11, <1>12
    <2>3. server \in [pc : ServerPcs, client : EchoClients \cup {0}, buf : Bytes] BY <1>0 DEF EchoTypes
    <2> QED BY ONLY <1>1, <1>13, <2>1, <2>2, <2>3
<1>15. /\ net' \in [EchoClients -> ConnType] /\ \A d \in EchoClients : d # c => net'[d] = net[d]
       /\ LinkOf(net'[c], "server") = LinkOf(net[c], "server")
       /\ net'[c]["client"] = net[c]["client"]
    <2>0. net \in [EchoClients -> ConnType] BY <1>0 DEF EchoTypes
    <2>1. CASE net' = net BY <2>0, <2>1
    <2>2. CASE net' = Net!Took(net, c, "server", n)
        <3>1. PICK M : M = net' OBVIOUS
        <3>2. M = Net!Took(net, c, "server", n) /\ n \in Nat /\ n <= Len(InqOf(net[c], "server"))
            BY <1>3, <1>11, <2>2, <3>1
        <3>3. /\ M \in [EchoClients -> ConnType] /\ \A d \in EchoClients : d # c => M[d] = net[d]
              /\ LinkOf(M[c], "server") = LinkOf(net[c], "server")
              /\ M[c]["client"] = net[c]["client"]
            BY ONLY <1>2, <2>0, <3>2, SidesAre, Takes
        <3> QED BY <3>1, <3>3
    <2> QED BY <1>11, <2>1, <2>2
<1>16. EchoTypes' BY <1>0, <1>9, <1>13, <1>14, <1>15 DEF EchoTypes
<1>17. ServerOk'
    <2>1. ~ \E j \in DOMAIN backlog' : backlog'[j] = server'.client
        BY <1>2, <1>9, <1>14 DEF InBacklog
    <2>2. \A i, j \in DOMAIN backlog' : backlog'[i] = backlog'[j] => i = j BY <1>0, <1>9 DEF ServerOk
    <2> QED BY <1>2, <1>14, <2>1, <2>2 DEF ServerOk, InBacklog
<1>18. /\ \A d \in EchoClients : (Waits(d)' <=> Waits(d))
       /\ \A d \in EchoClients : d # c => ~ Turn(d) /\ ~ Turn(d)'
       /\ Waits(c)' /\ Turn(c)'
    <2>1. \A d : InBacklog(d)' <=> InBacklog(d) BY <1>9 DEF InBacklog
    <2>2. Serving' BY <1>14 DEF Serving
    <2>3. \A d \in EchoClients : (Waits(d)' <=> Waits(d)) BY <1>0, <1>1, <1>14, <2>1, <2>2 DEF Waits
    <2>4. \A d \in EchoClients : d # c => ~ Turn(d) /\ ~ Turn(d)' BY <1>0, <1>14 DEF Turn
    <2>5. Waits(c)' /\ Turn(c)' BY <1>2, <1>14, <2>3 DEF Turn
    <2> QED BY <2>3, <2>4, <2>5
<1>19. \A d \in EchoClients : d # c => Untouched(d)
    BY <1>0, <1>9, <1>14, <1>15, <1>18 DEF Untouched
<1>20. IsOpen(c)' = IsOpen(c) /\ Sent(c)' = Sent(c) /\ client' = client BY <1>9 DEF IsOpen, Sent
<1>21. client[c].pc # "send"
    <2>1. CASE n = 0 BY <1>11, <2>1 DEF IsOpen
    <2>2. CASE n > 0
        <3>1. q # <<>>
            <4>1. Len(<<>>) = 0 OBVIOUS
            <4> QED BY <1>11, <2>2, <4>1
        <3> QED BY <1>2, <1>3, <3>1
    <2> QED BY <1>11, <2>1, <2>2
<1>22. EchoOk(c)'
    <2>1. Unlinked(c)' BY <1>2, <1>20 DEF EchoOk, Unlinked
    <2>2. Connected(c)'
        <3>1. InqOf(net'[c], "client") = <<>> /\ LinkOf(net'[c], "client") = LinkOf(net[c], "client")
            BY <1>2, <1>15 DEF InqOf, LinkOf
        <3> QED BY <1>2, <1>15, <1>18, <1>20, <1>21, <3>1 DEF Connected
    <2>3. Answered(c)' BY <1>18 DEF Answered
    <2>4. Filling(c)'
        <3>1. client[c].pc = "recv" => n > 0 BY <1>11 DEF IsOpen
        <3>2. Echoed(c, n, server.buf)' BY <1>13, <1>14, <1>20 DEF Echoed
        <3>3. n \in Nat BY <1>11
        <3> QED BY <1>20, <1>21, <3>1, <3>2, <3>3 DEF Filling
    <2>5. SaidOk(c)'
        <3>1. server.pc # "stopped" BY <1>0
        <3> QED BY <1>2, <1>20, <3>1 DEF EchoOk, SaidOk
    <2> QED BY <2>1, <2>2, <2>3, <2>4, <2>5 DEF EchoOk
<1> QED BY <1>2, <1>16, <1>17, <1>19, <1>22, OthersOk

LEMMA SendEchoOk == ASSUME EchoInv, SendEcho PROVE EchoInv'
<1>0. EchoTypes /\ ServerOk /\ server.pc = "send" /\ Serving BY DEF EchoInv, SendEcho, Serving
<1>1. PICK c : c = server.client OBVIOUS
<1>2. /\ c \in EchoClients /\ EchoOk(c) /\ Waits(c) /\ ~ InBacklog(c)
      /\ InqOf(net[c], "client") = <<>>
      /\ IsOpen(c) => LinkOf(net[c], "client") = "up" /\ LinkOf(net[c], "server") = "up"
      /\ ~ IsOpen(c) => LinkOf(net[c], "client") = "closed" /\ LinkOf(net[c], "server") = "eof"
      /\ net[c] \in ConnType /\ client[c].argv \in Seq(Nat)
    BY <1>0, <1>1, ServedIs
<1>3. Turn(c) /\ LinkOf(net[c], "server") \in {"up", "eof"} BY <1>0, <1>1, <1>2 DEF Turn
<1>4. server.buf \in Bytes /\ Len(server.buf) = BUFLEN /\ net \in [EchoClients -> ConnType]
    BY <1>0, <1>2, PartsOf
<1>5. PICK x : x = Net!AfterSend(net[c], "server", server.buf) OBVIOUS
<1>6. PICK y : y = Net!AfterClose(x, "server") OBVIOUS
<1>7. PICK N : N = [net EXCEPT ![c] = x] OBVIOUS
<1>8. /\ net' = Net!Closed(N, {c}, "server")
      /\ server' = [pc |-> "accept", client |-> 0, buf |-> [i \in 1 .. BUFLEN |-> NUL]]
      /\ UNCHANGED <<backlog, listening, client>>
    <2>1. ~ (net[c]["server"].link \in {"reset", "dead"}) BY <1>3 DEF LinkOf
    <2> QED BY <1>1, <1>5, <1>7, <2>1 DEF SendEcho
<1>9. /\ x \in ConnType
      /\ IsOpen(c) => InqOf(x, "client") = server.buf /\ LinkOf(x, "client") = "up"
    <2>1. "client" = Net!Peer("server") BY DEF Net!Peer
    <2>2. /\ x \in ConnType
          /\ LinkOf(net[c], "server") = "up" =>
                /\ x["server"] = net[c]["server"]
                /\ InqOf(x, "client") = InqOf(net[c], "client") \o server.buf
                /\ LinkOf(x, "client") = LinkOf(net[c], "client")
        BY ONLY <1>2, <1>4, <1>5, <2>1, SidesAre, Sends
    <2>3. <<>> \o server.buf = server.buf BY <1>4 DEF Bytes
    <2> QED BY <1>2, <2>2, <2>3
<1>10. /\ y \in ConnType /\ y["server"] = Net!Fresh("closed")
       /\ IsOpen(c) => InqOf(y, "client") = server.buf /\ LinkOf(y, "client") \in {"aborting", "eof"}
    BY <1>6, <1>9, ServerCloses
<1>11. /\ net' \in [EchoClients -> ConnType] /\ net'[c] = y
       /\ \A d \in EchoClients : d # c => net'[d] = net[d]
    <2>1. N \in [EchoClients -> ConnType] /\ N[c] = x /\ \A d \in EchoClients : d # c => N[d] = net[d]
        BY <1>2, <1>4, <1>7, <1>9, OneConn
    <2>2. PICK M : M = net' OBVIOUS
    <2>3. M = Net!Closed(N, {c}, "server") /\ y = Net!AfterClose(N[c], "server")
        BY <1>6, <1>8, <2>1, <2>2
    <2>4. M \in [EchoClients -> ConnType] /\ M[c] = y /\ \A d \in EchoClients : d # c => M[d] = N[d]
        <3>1. c \in EchoClients /\ y \in ConnType /\ N \in [EchoClients -> ConnType] BY <1>2, <1>10, <2>1
        <3> QED BY ONLY <2>3, <3>1, ClosesOne
    <2> QED BY <2>1, <2>2, <2>4
<1>12. /\ server' \in [pc : ServerPcs, client : EchoClients \cup {0}, buf : Bytes]
       /\ server'.pc = "accept" /\ server'.client = 0 /\ Len(server'.buf) = BUFLEN
    <2>1. "accept" \in ServerPcs BY DEF ServerPcs
    <2>2. BUFLEN \in Nat BY EchoAssumption
    <2>3. PICK z : z = [i \in 1 .. BUFLEN |-> NUL] OBVIOUS
    <2>4. z \in Bytes /\ Len(z) = BUFLEN
        <3>1. z \in [1 .. BUFLEN -> Nat] BY <2>3 DEF NUL
        <3> QED BY ONLY <2>2, <3>1 DEF Bytes
    <2>5. server' = [pc |-> "accept", client |-> 0, buf |-> z] BY <1>8, <2>3
    <2> QED BY ONLY <2>1, <2>4, <2>5
<1>13. EchoTypes' BY <1>0, <1>8, <1>11, <1>12 DEF EchoTypes
<1>14. ServerOk'
    <2>1. \A i, j \in DOMAIN backlog' : backlog'[i] = backlog'[j] => i = j BY <1>0, <1>8 DEF ServerOk
    <2> QED BY <1>12, <2>1 DEF ServerOk, Serving
<1>15. \A d \in EchoClients : d # c => Untouched(d)
    <2>1. \A d : InBacklog(d)' <=> InBacklog(d) BY <1>8 DEF InBacklog
    <2>2. ~ Serving' BY <1>12 DEF Serving
    <2>3. \A d \in EchoClients : d # c => (Waits(d)' <=> Waits(d)) BY <1>1, <2>1, <2>2 DEF Waits
    <2>4. \A d \in EchoClients : d # c => ~ Turn(d) /\ ~ Turn(d)' BY <1>1, <1>12 DEF Turn
    <2> QED BY <1>0, <1>8, <1>11, <2>3, <2>4 DEF Untouched
<1>16. ~ Waits(c)' /\ ~ Turn(c)' BY <1>2, <1>8, <1>12 DEF Waits, Serving, Turn, InBacklog
<1>17. IsOpen(c)' = IsOpen(c) /\ Sent(c)' = Sent(c) /\ client' = client BY <1>8 DEF IsOpen, Sent
<1>18. EchoOk(c)'
    <2>1. Unlinked(c)'
        <3>1. client[c].pc \notin {"none", "start", "connect"} BY <1>2 DEF EchoOk, Unlinked
        <3> QED BY <1>17, <3>1 DEF Unlinked
    <2>2. Connected(c)' BY <1>16 DEF Connected
    <2>3. Answered(c)'
        <3> SUFFICES ASSUME IsOpen(c) PROVE Answered(c)' BY <1>17 DEF Answered
        <3>1. client[c].pc = "recv" BY <1>2, <1>3 DEF EchoOk, Filling, IsOpen
        <3>2. PICK k \in Nat : k > 0 /\ Echoed(c, k, server.buf) BY <1>2, <1>3, <3>1 DEF EchoOk, Filling
        <3>3. InqOf(net'[c], "client") = server.buf /\ LinkOf(net'[c], "client") \in {"aborting", "eof"}
            BY <1>10, <1>11
        <3>4. InqOf(net'[c], "client") # <<>>
            <4>1. BUFLEN \in Nat /\ BUFLEN > 1 BY EchoAssumption
            <4>2. Len(<<>>) = 0 OBVIOUS
            <4> QED BY <1>4, <3>3, <4>1, <4>2
        <3>5. PICK b : b = server.buf OBVIOUS
        <3>6. Echoed(c, k, b)' BY <1>17, <3>2, <3>5 DEF Echoed
        <3>7. InqOf(net'[c], "client") = b BY <3>3, <3>5
        <3>8. net'[c]["server"] = Net!Fresh("closed") BY <1>10, <1>11
        <3>9. \E m \in Nat : m > 0 /\ Echoed(c, m, InqOf(net[c], "client"))' BY <3>2, <3>6, <3>7 DEF Echoed
        <3> QED BY <3>3, <3>4, <3>8, <3>9 DEF Answered
    <2>4. Filling(c)' BY <1>16 DEF Filling
    <2>5. SaidOk(c)'
        <3>1. server.pc # "stopped" BY <1>0
        <3> QED BY <1>2, <1>17, <3>1 DEF EchoOk, SaidOk
    <2> QED BY <2>1, <2>2, <2>3, <2>4, <2>5 DEF EchoOk
<1> QED BY <1>2, <1>13, <1>14, <1>15, <1>18, OthersOk

\* A reset arrives only where the client waits no more.
LEMMA EchoResetOk == ASSUME EchoInv, EchoReset PROVE EchoInv'
<1>0. EchoTypes /\ ServerOk BY DEF EchoInv
<1>1. PICK c \in EchoClients, s \in {"client", "server"} : Net!ResetArrives(c, s) BY DEF EchoReset
<1>2. s \in Net!Sides BY SidesAre
<1>3. EchoOk(c) /\ net \in [EchoClients -> ConnType] /\ net[c] \in ConnType BY <1>0, PartsOf DEF EchoInv
<1>4. PICK l : l = IF LinkOf(net[c], s) = "aborting" THEN "reset" ELSE "dead" OBVIOUS
<1>5. PICK x : x = WithLink(net[c], s, l) OBVIOUS
<1>6. /\ LinkOf(net[c], s) \in {"aborting", "probed"} /\ UNCHANGED <<backlog, listening, server, client>>
      /\ net' = [net EXCEPT ![c] = x]
    BY <1>1, <1>4, <1>5 DEF EchoReset, Net!ResetArrives, Net!AwaitsReset, LinkOf, WithLink
<1>7. l \in Net!Links /\ l \in {"reset", "dead"} BY <1>4 DEF Net!Links
<1>8. /\ x \in ConnType /\ LinkOf(x, s) = l /\ InqOf(x, s) = InqOf(net[c], s)
      /\ \A r \in Net!Sides : r # s => x[r] = net[c][r]
    BY ONLY <1>2, <1>3, <1>5, <1>7, LinkSet
<1>9. /\ net' \in [EchoClients -> ConnType] /\ net'[c] = x
      /\ \A d \in EchoClients : d # c => net'[d] = net[d]
    BY <1>3, <1>6, <1>8, OneConn
<1>10. client' \in [EchoClients -> ClientType] BY <1>0, <1>6 DEF EchoTypes
<1>11. EchoTypes' /\ ServerOk' BY <1>0, <1>6, <1>9, <1>10, ServerStays
<1>12. (Waits(c)' <=> Waits(c)) /\ (Turn(c)' <=> Turn(c)) /\ \A d \in EchoClients : d # c => Untouched(d)
    BY <1>6, <1>9, ClientOnly
<1>13. ~ Waits(c)
    <2>1. Waits(c) => LinkOf(net[c], s) \in {"up", "closed", "eof"} BY <1>1, <1>3 DEF EchoOk, Connected
    <2> QED BY <1>6, <2>1
<1>14. client[c].pc \notin {"none", "start", "connect"}
    <2>1. SUFFICES ASSUME net[c] = BothClosed PROVE FALSE BY <1>3 DEF EchoOk, Unlinked
    <2>2. LinkOf(net[c], s) = "closed" BY <1>2, <2>1 DEF BothClosed, LinkOf, Net!Fresh
    <2> QED BY <1>6, <2>2
<1>15. IsOpen(c)' = IsOpen(c) /\ Sent(c)' = Sent(c) /\ client' = client /\ server' = server
    BY <1>6 DEF IsOpen, Sent
<1>16. Answered(c)'
    <2> SUFFICES ASSUME IsOpen(c) PROVE Answered(c)' BY <1>15 DEF Answered
    <2>1. /\ net[c]["server"] = Net!Fresh("closed")
          /\ InqOf(net[c], "client") = <<>> => server.pc = "stopped"
          /\ InqOf(net[c], "client") # <<>> =>
                \E k \in Nat : k > 0 /\ Echoed(c, k, InqOf(net[c], "client"))
        BY <1>3, <1>13 DEF EchoOk, Answered
    <2>2. s = "client"
        <3>1. LinkOf(net[c], "server") = "closed" BY <2>1 DEF LinkOf, Net!Fresh
        <3> QED BY <1>1, <1>6, <3>1
    <2>3. x["server"] = net[c]["server"] /\ InqOf(x, "client") = InqOf(net[c], "client")
          /\ LinkOf(x, "client") \in {"reset", "dead"}
        BY <1>7, <1>8, <2>2, SidesAre
    <2>4. \A k, q : Echoed(c, k, q)' <=> Echoed(c, k, q) BY <1>15 DEF Echoed
    <2>5. InqOf(x, "client") # <<>> => \E k \in Nat : k > 0 /\ Echoed(c, k, InqOf(x, "client"))'
        BY <1>9, <2>1, <2>3, <2>4
    <2> QED BY <1>9, <1>15, <2>1, <2>3, <2>5 DEF Answered
<1>17. EchoOk(c)'
    <2>1. Unlinked(c)' BY <1>14, <1>15 DEF Unlinked
    <2>2. Connected(c)' BY <1>12, <1>13 DEF Connected
    <2>3. ~ Turn(c)' BY <1>12, <1>13 DEF Turn, Waits, Serving
    <2>4. Filling(c)' BY <2>3 DEF Filling
    <2>5. SaidOk(c)' BY <1>3, <1>15 DEF EchoOk, SaidOk
    <2> QED BY <1>16, <2>1, <2>2, <2>4, <2>5 DEF EchoOk
<1> QED BY <1>11, <1>12, <1>17, OthersOk

\* What the end of the server does to one connection.
LEMMA EndTouches ==
    ASSUME NEW N \in [EchoClients -> ConnType], NEW C, NEW Q,
           NEW M, M = Net!Aborted(Net!Closed(N, C, "server"), Q), NEW d \in EchoClients,
           ~ (d \in C /\ d \in Q)
    PROVE  /\ M[d] \in ConnType
           /\ d \in C => M[d] = Net!AfterClose(N[d], "server")
           /\ d \in Q => M[d] = Net!AfterAbort(N[d])
           /\ d \notin C /\ d \notin Q => M[d] = N[d]
<1>1. PICK K : K = Net!Closed(N, C, "server") OBVIOUS
<1>2. K[d] = IF d \in C THEN Net!AfterClose(N[d], "server") ELSE N[d] BY <1>1 DEF Net!Closed
<1>3. M[d] = IF d \in Q THEN Net!AfterAbort(K[d]) ELSE K[d] BY <1>1 DEF Net!Aborted
<1>4. N[d] \in ConnType OBVIOUS
<1>5. Net!AfterClose(N[d], "server") \in ConnType BY <1>4, ServerCloses
<1>6. Net!AfterAbort(N[d]) \in ConnType BY <1>4, Aborts
<1> QED BY <1>2, <1>3, <1>4, <1>5, <1>6

LEMMA StopServerOk ==
    ASSUME EchoInv, server.pc \in {"accept", "recv", "send"}, ServerEnds("stopped")
    PROVE  EchoInv'
<1>0. EchoTypes /\ ServerOk /\ net \in [EchoClients -> ConnType] BY DEF EchoInv, EchoTypes
<1>1. PICK C : C = {server.client} \ {0} OBVIOUS
<1>2. PICK Q : Q = Net!Queued OBVIOUS
<1>3. /\ ServerGoes("stopped") /\ listening' = FALSE /\ backlog' = <<>> /\ client' = client
      /\ net' = Net!Aborted(Net!Closed(net, C, "server"), Q)
    BY <1>1, <1>2 DEF ServerEnds
<1>4. /\ server' \in [pc : ServerPcs, client : EchoClients \cup {0}, buf : Bytes]
      /\ server'.pc = "stopped" /\ Len(server'.buf) = BUFLEN
    <2>1. "stopped" \in ServerPcs BY DEF ServerPcs
    <2> QED BY <1>0, <1>3, <2>1, ServerMoves
<1>5. ASSUME NEW d \in EchoClients
      PROVE  /\ d \in C <=> Serving /\ server.client = d
             /\ d \in Q <=> InBacklog(d)
             /\ ~ (d \in C /\ d \in Q)
    <2>1. d # 0 BY EchoAssumption
    <2>2. d \in C <=> server.client = d BY <1>1, <2>1
    <2>3. server.client = d => Serving BY <1>0, <2>1 DEF ServerOk, Serving
    <2>4. d \in Q <=> InBacklog(d) BY <1>2 DEF Net!Queued, InBacklog
    <2>5. Serving => ~ InBacklog(server.client) BY <1>0 DEF ServerOk
    <2>6. ~ (d \in C /\ d \in Q) BY <2>2, <2>3, <2>4, <2>5 DEF InBacklog
    <2> QED BY <2>2, <2>3, <2>4, <2>6
<1>6. ASSUME NEW d \in EchoClients
      PROVE  /\ net'[d] \in ConnType
             /\ Serving /\ server.client = d => net'[d] = Net!AfterClose(net[d], "server")
             /\ InBacklog(d) => net'[d] = Net!AfterAbort(net[d])
             /\ ~ Waits(d) => net'[d] = net[d]
    <2>1. PICK M : M = net' OBVIOUS
    <2>2. M = Net!Aborted(Net!Closed(net, C, "server"), Q) BY <1>3, <2>1
    <2>3. ~ (d \in C /\ d \in Q) BY <1>5
    <2>4. /\ M[d] \in ConnType
          /\ d \in C => M[d] = Net!AfterClose(net[d], "server")
          /\ d \in Q => M[d] = Net!AfterAbort(net[d])
          /\ d \notin C /\ d \notin Q => M[d] = net[d]
        BY ONLY <1>0, <2>2, <2>3, d \in EchoClients, EndTouches
    <2> QED BY <1>5, <2>1, <2>4 DEF Waits
<1>7. net' \in [EchoClients -> ConnType]
    <2>1. PICK K : K = Net!Closed(net, C, "server") OBVIOUS
    <2>2. net' = [d \in EchoClients |-> IF d \in Q THEN Net!AfterAbort(K[d]) ELSE K[d]]
        BY <1>3, <2>1 DEF Net!Aborted
    <2>3. net' = [d \in EchoClients |-> net'[d]] BY <2>2
    <2> QED BY <1>6, <2>3
<1>8. EchoTypes'
    <2>1. backlog' \in Seq(EchoClients) BY <1>3
    <2> QED BY <1>0, <1>3, <1>4, <1>7, <2>1 DEF EchoTypes
<1>9. ServerOk'
    <2>1. \A i, j \in DOMAIN backlog' : backlog'[i] = backlog'[j] => i = j
        <3>1. \A i, j \in DOMAIN <<>> : i = j OBVIOUS
        <3> QED BY <1>3, <3>1
    <2> QED BY <1>3, <1>4, <2>1 DEF ServerOk, Serving
<1>10. ASSUME NEW d \in EchoClients PROVE EchoOk(d)'
    <2>0. EchoOk(d) /\ net[d] \in ConnType BY <1>0, PartsOf DEF EchoInv
    <2>1. ~ Waits(d)' /\ ~ Turn(d)'
        <3>1. ~ InBacklog(d)'
            <4>1. \A j \in DOMAIN <<>> : FALSE OBVIOUS
            <4> QED BY <1>3, <4>1 DEF InBacklog
        <3> QED BY <1>4, <3>1 DEF Waits, Serving, Turn
    <2>2. IsOpen(d)' = IsOpen(d) /\ Sent(d)' = Sent(d) BY <1>3 DEF IsOpen, Sent
    <2>3. Unlinked(d)' BY <1>3, <1>6, <2>0, <2>1 DEF EchoOk, Unlinked
    <2>4. Connected(d)' BY <2>1 DEF Connected
    <2>5. Filling(d)' BY <2>1 DEF Filling
    <2>6. SaidOk(d)' BY <1>3, <1>4, <2>0, <2>2 DEF EchoOk, SaidOk
    <2>7. Answered(d)'
        <3> SUFFICES ASSUME IsOpen(d) PROVE Answered(d)' BY <2>2 DEF Answered
        <3>1. CASE ~ Waits(d)
            <4>1. /\ net[d]["server"] = Net!Fresh("closed")
                  /\ LinkOf(net[d], "client") \in {"eof", "probed", "aborting", "reset", "dead"}
                  /\ InqOf(net[d], "client") # <<>> =>
                        \E k \in Nat : k > 0 /\ Echoed(d, k, InqOf(net[d], "client"))
                BY <2>0, <3>1 DEF EchoOk, Answered
            <4>2. net'[d] = net[d] BY <1>6, <3>1
            <4>3. \A k, q : Echoed(d, k, q)' <=> Echoed(d, k, q) BY <2>2 DEF Echoed
            <4>4. PICK q : q = InqOf(net[d], "client") OBVIOUS
            <4>5. InqOf(net'[d], "client") = q BY <4>2, <4>4
            <4>6. q # <<>> => \E k \in Nat : k > 0 /\ Echoed(d, k, q)' BY <4>1, <4>3, <4>4
            <4>7. q # <<>> => \E k \in Nat : k > 0 /\ Echoed(d, k, InqOf(net[d], "client"))'
                BY <4>5, <4>6 DEF Echoed
            <4> QED BY <1>4, <4>1, <4>2, <4>5, <4>7 DEF Answered
        <3>2. CASE Waits(d)
            <4>1. /\ InqOf(net[d], "client") = <<>> /\ LinkOf(net[d], "client") = "up"
                BY <2>0, <3>2 DEF EchoOk, Connected
            <4>2. PICK x : x = net'[d] OBVIOUS
            <4>3. x = Net!AfterClose(net[d], "server") \/ x = Net!AfterAbort(net[d])
                BY <1>6, <3>2, <4>2 DEF Waits
            <4>4. /\ x["server"] = Net!Fresh("closed") /\ InqOf(x, "client") = <<>>
                  /\ LinkOf(x, "client") \in {"eof", "aborting"}
                <5>1. CASE x = Net!AfterClose(net[d], "server") BY <2>0, <4>1, <5>1, ServerCloses
                <5>2. CASE x = Net!AfterAbort(net[d]) BY <2>0, <4>1, <5>2, Aborts
                <5> QED BY <4>3, <5>1, <5>2
            <4> QED BY <1>4, <4>2, <4>4 DEF Answered
        <3> QED BY <3>1, <3>2
    <2> QED BY <2>3, <2>4, <2>5, <2>6, <2>7 DEF EchoOk
<1> QED BY <1>8, <1>9, <1>10 DEF EchoInv

LEMMA EchoStepOk == ASSUME EchoInv, EchoStep \/ KillOne PROVE EchoInv'
<1>1. ASSUME NEW c \in EchoClients, StartClient(c) \/ Connect(c) \/ SendMessage(c) \/ RecvEcho(c)
      PROVE  EchoInv'
    BY <1>1, StartClientOk, ConnectOk, SendMessageOk, RecvEchoOk
<1>2. CASE StartServer \/ Accept \/ RecvMessage \/ SendEcho \/ EchoReset
    BY <1>2, StartServerOk, AcceptOk, RecvMessageOk, SendEchoOk, EchoResetOk
<1>3. CASE KillOne BY <1>3, KillClientOk, StopServerOk DEF KillOne
<1> QED BY <1>1, <1>2, <1>3 DEF EchoStep

LEMMA EchoStays == ASSUME EchoInv, UNCHANGED echoVars PROVE EchoInv'
<1>1. UNCHANGED <<net, backlog, listening, server, client>> BY DEF echoVars
<1>2. EchoTypes' /\ ServerOk'
    BY <1>1 DEF EchoInv, EchoTypes, ServerOk, Serving, InBacklog
<1>3. \A d \in EchoClients : Untouched(d)
    BY <1>1 DEF Untouched, Waits, InBacklog, Turn, Serving
<1> QED BY <1>2, <1>3, AllUntouched

LEMMA EchoInitially ==
    ASSUME NEW argvs \in [EchoClients -> Seq(Nat)], NEW p \in {"none", "start"}, EchoInit(argvs, p)
    PROVE  EchoInv
<1>1. /\ net = [c \in EchoClients |-> BothClosed] /\ backlog = <<>> /\ listening = FALSE
      /\ server = [pc |-> p, client |-> 0, buf |-> [i \in 1 .. BUFLEN |-> Junk]]
      /\ client = [c \in EchoClients |-> [argv |-> argvs[c], pc |-> p, said |-> <<>>]]
    BY DEF EchoInit, Net!TcpInit, BothClosed
<1>2. BothClosed \in ConnType
    <2>1. "closed" \in Net!Links BY DEF Net!Links
    <2> QED BY <2>1, FreshIs DEF BothClosed, ConnType
<1>3. EchoTypes
    <2>1. BUFLEN \in Nat BY EchoAssumption
    <2>2. PICK z : z = [i \in 1 .. BUFLEN |-> Junk] OBVIOUS
    <2>3. z \in Bytes /\ Len(z) = BUFLEN
        <3>1. z \in [1 .. BUFLEN -> Nat] BY <2>2 DEF Junk
        <3> QED BY ONLY <2>1, <3>1 DEF Bytes
    <2>4. p \in ServerPcs /\ p \in EchoPcs BY DEF ServerPcs, EchoPcs
    <2>5. server = [pc |-> p, client |-> 0, buf |-> z] BY <1>1, <2>2
    <2>6. /\ server \in [pc : ServerPcs, client : EchoClients \cup {0}, buf : Bytes]
          /\ Len(server.buf) = BUFLEN
        BY ONLY <2>3, <2>4, <2>5
    <2>7. client \in [EchoClients -> ClientType]
        <3>1. <<>> \in Bytes BY DEF Bytes
        <3> QED BY <1>1, <2>4, <3>1 DEF ClientType
    <2>8. backlog \in Seq(EchoClients) BY <1>1
    <2> QED BY <1>1, <1>2, <2>6, <2>7, <2>8 DEF EchoTypes
<1>4. server.pc = p /\ server.client = 0 BY <1>1
<1>5. ~ Serving BY <1>4 DEF Serving
<1>6. \A j \in DOMAIN backlog : FALSE
    <2>1. \A j \in DOMAIN <<>> : FALSE OBVIOUS
    <2> QED BY <1>1, <2>1
<1>7. ServerOk BY <1>1, <1>4, <1>5, <1>6 DEF ServerOk
<1>8. ASSUME NEW c \in EchoClients PROVE EchoOk(c)
    <2>1. /\ net[c] = BothClosed /\ client[c].said = <<>> /\ client[c].pc = p BY <1>1
    <2>2. ~ Waits(c) /\ ~ Turn(c) BY <1>4, <1>5, <1>6 DEF Waits, Turn, InBacklog
    <2>3. Unlinked(c) BY <2>1, <2>2 DEF Unlinked
    <2>4. Connected(c) /\ Filling(c) BY <2>2 DEF Connected, Filling
    <2>5. Answered(c) BY <2>1 DEF Answered, IsOpen
    <2>6. SaidOk(c)
        <3>1. Len(Sent(c)) \in Nat BY <1>3, SentOf
        <3>2. Len(client[c].said) = 0 /\ ~ (client[c].pc = "exited") BY <2>1
        <3>3. \A i \in 1 .. Len(client[c].said) : FALSE BY <3>2
        <3> QED BY <3>1, <3>2, <3>3 DEF SaidOk
    <2> QED BY <2>3, <2>4, <2>5, <2>6 DEF EchoOk
<1> QED BY <1>3, <1>7, <1>8 DEF EchoInv

\* What a client prints is right whenever the invariant holds.
LEMMA EchoShows ==
    ASSUME EchoInv, NEW c \in EchoClients
    PROVE  /\ IsPrefix(client[c].said, Sent(c))
           /\ client[c].pc = "exited" /\ client[c].said = <<>> =>
                 server.pc = "stopped" \/ Sent(c) = <<>>
           /\ server.pc \notin {"failed", "killed"}
<1>1. EchoTypes /\ EchoOk(c) BY DEF EchoInv
<1>2. client[c].said \in Seq(Nat) /\ Sent(c) \in Seq(Nat) BY <1>1, PartsOf, SentOf DEF Bytes
<1>3. PICK u : u = client[c].said OBVIOUS
<1>4. PICK w : w = Sent(c) OBVIOUS
<1>5. Len(u) <= Len(w) /\ \A i \in 1 .. Len(u) : u[i] = w[i] BY <1>1, <1>3, <1>4 DEF EchoOk, SaidOk
<1>6. IsPrefix(u, w)
    <2>1. u \in Seq(Nat) /\ w \in Seq(Nat) BY <1>2, <1>3, <1>4
    <2> QED BY ONLY <1>5, <2>1 DEF IsPrefix
<1>7. server.pc \notin {"failed", "killed"} BY <1>1, PartsOf DEF ServerPcs
<1> QED BY <1>1, <1>3, <1>4, <1>6, <1>7 DEF EchoOk, SaidOk

(***************************************************************************)
(* findserver.                                                             *)
(***************************************************************************)
FindInv ==
    /\ port \in 1 .. LastPort
    /\ \A p \in 1 .. port - 1 : ports[p] = "nothing" \/ p \in late
    /\ fpc = "found" => ports[answer] \in {"greets", "hangs up"}
    /\ fpc = "not found" => port = LastPort /\ (ports[port] = "nothing" \/ port \in late)
    /\ fpc = "socket" => open = {}
    /\ fpc \in {"found", "not found"} => open = {}
    /\ open \subseteq {port}

LEMMA FindInitially ==
    ASSUME NEW services, NEW p \in {"none", "socket"}, FindInit(services, p)
    PROVE  FindInv
<1>1. 1 \in 1 .. LastPort /\ \A q \in 1 .. 1 - 1 : FALSE BY FindServerAssumption
<1> QED BY <1>1 DEF FindInit, FindInv

LEMMA GoesOnOk ==
    ASSUME FindInv, GoOn, late \subseteq late', ports[port] = "nothing" \/ port \in late'
    PROVE  FindInv'
<1>1. LastPort \in Nat /\ port \in 1 .. LastPort BY FindServerAssumption DEF FindInv
<1>2. open' = {} /\ ports' = ports BY DEF GoOn, NextPort, FindInv
<1>3. CASE port = LastPort
    <2>1. fpc' = "not found" /\ port' = port BY <1>3 DEF GoOn
    <2> QED BY <1>1, <1>2, <1>3, <2>1 DEF FindInv
<1>4. CASE port # LastPort
    <2>1. fpc' = "socket" /\ port' = port + 1 BY <1>4 DEF GoOn
    <2>2. port + 1 \in 1 .. LastPort /\ \A p \in 1 .. (port + 1) - 1 : p = port \/ p \in 1 .. port - 1
        BY <1>1, <1>4
    <2>3. \A p \in 1 .. port - 1 : ports[p] = "nothing" \/ p \in late BY DEF FindInv
    <2> QED BY <1>2, <2>1, <2>2, <2>3 DEF FindInv
<1> QED BY <1>3, <1>4

LEMMA FindStepOk == ASSUME FindInv, [FindStep]_findVars PROVE FindInv'
<1>1. CASE UNCHANGED findVars BY <1>1 DEF findVars, FindInv
<1>2. CASE CreateSocket BY <1>2 DEF CreateSocket, FindInv
<1>3. CASE TryConnect
    <2>1. UNCHANGED late BY <1>3 DEF TryConnect
    <2>2. CASE ports[port] = "nothing" /\ GoOn BY <2>1, <2>2, GoesOnOk
    <2>3. CASE fpc' = "recv" /\ UNCHANGED <<ports, port, open, answer>> BY <2>1, <2>3 DEF FindInv
    <2> QED BY <1>3, <2>2, <2>3 DEF TryConnect
<1>4. CASE RecvGreeting
    <2>1. CASE late' = late \cup {port} /\ GoOn BY <2>1, GoesOnOk
    <2>2. CASE /\ ports[port] \in {"greets", "hangs up"} /\ answer' = port
               /\ fpc' = "found" /\ open' = open \ {port} /\ UNCHANGED <<ports, port, late>>
        BY <2>2 DEF FindInv
    <2> QED BY <1>4, <2>1, <2>2 DEF RecvGreeting
<1> QED BY <1>1, <1>2, <1>3, <1>4 DEF FindStep

LEMMA NetworkInitially == Init => EchoInv /\ FindInv
<1> SUFFICES ASSUME Init PROVE EchoInv /\ FindInv OBVIOUS
<1>1. EchoInv
    <2>1. NoEcho => EchoInv
        <3>1. <<>> \in Seq(Nat) OBVIOUS
        <3> QED BY <3>1, EchoInitially DEF NoEcho
    <2>2. (\E argvs \in [EchoClients -> EchoArguments] : EchoInit(argvs, "start")) => EchoInv
        <3>1. [EchoClients -> EchoArguments] \subseteq [EchoClients -> Seq(Nat)] BY EchoAssumption
        <3> QED BY <3>1, EchoInitially
    <2> QED BY <2>1, <2>2 DEF Init
<1>2. FindInv BY FindInitially DEF Init, NoFind
<1> QED BY <1>1, <1>2

LEMMA NetworkSteps ==
    ASSUME [Next]_vars
    PROVE  (EchoStep \/ KillOne \/ UNCHANGED echoVars) /\ [FindStep]_findVars
BY DEF Next, OtherSteps, User, Kills, Rings, ProcessSteps, vars, otherVars, findVars, echoVars

\* However the echo clients and their server take turns, and whichever of them
\* CTRL+C ends, a client prints a beginning of its own message and nothing that
\* was in the server's buffer behind it, and no client stops the server (server.c
\* 65-98, client.c 62-121); and findserver, whatever the ports, passes over no
\* server that says something in time, prints none that stays silent, and closes
\* every socket before the next (findserver.c 80-103).
THEOREM NetworkRight == Spec => []NetworkShows
<1>1. Init => EchoInv /\ FindInv BY NetworkInitially
<1>2. (EchoInv /\ FindInv) /\ [Next]_vars => (EchoInv /\ FindInv)'
    BY NetworkSteps, EchoStepOk, EchoStays, FindStepOk
<1>3. EchoInv /\ FindInv => NetworkShows
    <2> SUFFICES ASSUME EchoInv, FindInv PROVE NetworkShows OBVIOUS
    <2>1. program = "echo" =>
            /\ \A c \in EchoClients :
                  /\ IsPrefix(client[c].said, Sent(c))
                  /\ client[c].pc = "exited" /\ client[c].said = <<>> =>
                        server.pc = "stopped" \/ Sent(c) = <<>>
            /\ server.pc \notin {"failed", "killed"}
        <3>1. server.pc \notin {"failed", "killed"} BY DEF EchoInv, EchoTypes, ServerPcs
        <3> QED BY <3>1, EchoShows
    <2>2. ASSUME NEW p \in 1 .. LastPort, ports[p] = "greets", p < port \/ fpc = "not found"
          PROVE  p \in late
        <3>1. LastPort \in Nat /\ port \in 1 .. LastPort BY FindServerAssumption DEF FindInv
        <3>2. CASE p \in 1 .. port - 1 BY <2>2, <3>2 DEF FindInv
        <3>3. CASE fpc = "not found" /\ p = port BY <2>2, <3>3 DEF FindInv
        <3>4. fpc = "not found" => port = LastPort BY DEF FindInv
        <3>5. p < port => p \in 1 .. port - 1 BY <3>1
        <3>6. port = LastPort => p \in 1 .. port - 1 \/ p = port BY <3>1
        <3> QED BY <2>2, <3>2, <3>3, <3>4, <3>5, <3>6
    <2>3. fpc = "found" /\ ports[answer] # "hangs up" => ports[answer] = "greets" BY DEF FindInv
    <2>4. open \subseteq IF fpc \in {"found", "not found"} THEN {} ELSE {port} BY DEF FindInv
    <2> QED BY <2>1, <2>2, <2>3, <2>4 DEF NetworkShows
<1> QED BY <1>1, <1>2, <1>3, PTL DEF Spec
=============================================================================
