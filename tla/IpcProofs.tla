----------------------------- MODULE IpcProofs -----------------------------
(***************************************************************************)
(* The two programs that use semaphore.c: types for any number of runs in  *)
(* one directory, of children, elements and kills, and then what holds of  *)
(* one run.                                                                *)
(***************************************************************************)
EXTENDS Ipc, SumsProofs, FiniteSetTheorems

SemRec == [status : Status, val : Nat, adj : [Procs -> Int]]
ShmRec == [status : Status, word : Int, attached : SUBSET Procs]

Used(objects) == {id \in Ids : objects[id].status # "unused"}

(***************************************************************************)
(* What each operation on the semaphores does.                             *)
(***************************************************************************)
SemsOK   == sems \in [Ids -> SemRec]
ShmsOK   == shms \in [Ids -> ShmRec]

LEMMA PEffect ==
    ASSUME SemsOK, NEW p \in Procs, NEW id, P(p, id)
    PROVE  /\ SemsOK' /\ semOfKey' = semOfKey
           /\ \A j \in Ids : sems'[j].status = sems[j].status
           /\ id \in Live(sems) =>
                 /\ id \in Ids /\ sems[id].val > 0 /\ sems'[id].val = sems[id].val - 1
                 /\ sems'[id].adj[p] = sems[id].adj[p] + 1
                 /\ \A q \in Procs : q # p => sems'[id].adj[q] = sems[id].adj[q]
<1>1. CASE id \in Live(sems)
    <2>1. id \in Ids /\ sems[id] \in SemRec BY <1>1 DEF Live, SemsOK
    <2> DEFINE r == [status |-> sems[id].status, val |-> sems[id].val - 1,
                     adj |-> [sems[id].adj EXCEPT ![p] = @ + 1]]
    <2>2. sems[id].val > 0 /\ semOfKey' = semOfKey BY <1>1 DEF P
    <2>3. r \in SemRec BY <2>1, <2>2 DEF SemRec
    <2>4. sems' = [sems EXCEPT ![id] = r] BY <1>1, <2>1 DEF P, SemRec
    <2>5. r.status = sems[id].status /\ r.val = sems[id].val - 1
          /\ r.adj[p] = sems[id].adj[p] + 1
          /\ \A q \in Procs : q # p => r.adj[q] = sems[id].adj[q]
        BY <2>1 DEF SemRec
    <2> HIDE DEF r
    <2>6. SemsOK' /\ sems'[id] = r /\ \A j \in Ids : j # id => sems'[j] = sems[j]
        BY <2>1, <2>3, <2>4 DEF SemsOK
    <2> QED BY <2>1, <2>2, <2>5, <2>6
<1>2. CASE id \notin Live(sems) BY <1>2 DEF P, SemsOK
<1> QED BY <1>1, <1>2

LEMMA VEffect ==
    ASSUME SemsOK, NEW p \in Procs, NEW id, V(p, id)
    PROVE  /\ SemsOK' /\ semOfKey' = semOfKey
           /\ \A j \in Ids : sems'[j].status = sems[j].status
           /\ id \in Live(sems) =>
                 /\ id \in Ids /\ sems'[id].val = sems[id].val + 1
                 /\ sems'[id].adj[p] = sems[id].adj[p] - 1
                 /\ \A q \in Procs : q # p => sems'[id].adj[q] = sems[id].adj[q]
<1>1. CASE id \in Live(sems)
    <2>1. id \in Ids /\ sems[id] \in SemRec BY <1>1 DEF Live, SemsOK
    <2> DEFINE r == [status |-> sems[id].status, val |-> sems[id].val + 1,
                     adj |-> [sems[id].adj EXCEPT ![p] = @ - 1]]
    <2>2. semOfKey' = semOfKey BY <1>1 DEF V
    <2>3. r \in SemRec BY <2>1, <2>2 DEF SemRec
    <2>4. sems' = [sems EXCEPT ![id] = r] BY <1>1, <2>1 DEF V, SemRec
    <2>5. r.status = sems[id].status /\ r.val = sems[id].val + 1
          /\ r.adj[p] = sems[id].adj[p] - 1
          /\ \A q \in Procs : q # p => r.adj[q] = sems[id].adj[q]
        BY <2>1 DEF SemRec
    <2> HIDE DEF r
    <2>6. SemsOK' /\ sems'[id] = r /\ \A j \in Ids : j # id => sems'[j] = sems[j]
        BY <2>1, <2>3, <2>4 DEF SemsOK
    <2> QED BY <2>1, <2>2, <2>5, <2>6
<1>2. CASE id \notin Live(sems) BY <1>2 DEF V, SemsOK
<1> QED BY <1>1, <1>2

LEMMA SetvalEffect ==
    ASSUME SemsOK, NEW id, NEW val \in Nat, set_sem_value(id, val)
    PROVE  /\ SemsOK' /\ semOfKey' = semOfKey /\ id \in Live(sems)
           /\ \A j \in Ids : sems'[j].status = sems[j].status
           /\ sems'[id].val = val /\ \A q \in Procs : sems'[id].adj[q] = 0
<1>1. id \in Ids /\ id \in Live(sems) /\ sems[id] \in SemRec BY DEF set_sem_value, Live, SemsOK
<1> DEFINE r == [status |-> sems[id].status, val |-> val, adj |-> NoUndo]
<1>2. r \in SemRec /\ \A q \in Procs : r.adj[q] = 0 BY <1>1 DEF SemRec, NoUndo
<1>3. sems' = [sems EXCEPT ![id] = r]
    <2> DEFINE first == [sems EXCEPT ![id].val = val]
    <2>1. sems' = [first EXCEPT ![id].adj = NoUndo] BY DEF set_sem_value
    <2>2. first[id] = [status |-> sems[id].status, val |-> val, adj |-> sems[id].adj]
        BY <1>1 DEF SemsOK, SemRec
    <2>3. [first[id] EXCEPT !.adj = NoUndo] = r BY <2>2
    <2>4. \A j \in Ids : j # id => first[j] = sems[j] BY DEF SemsOK
    <2>5. DOMAIN first = Ids /\ DOMAIN sems = Ids BY DEF SemsOK
    <2> HIDE DEF first, r
    <2>6. sems' = [first EXCEPT ![id] = r] BY <2>1, <2>3
    <2> QED BY <1>1, <2>4, <2>5, <2>6 DEF SemsOK
<1>4. r.status = sems[id].status /\ r.val = val OBVIOUS
<1> HIDE DEF r
<1>5. SemsOK' /\ sems'[id] = r /\ \A j \in Ids : j # id => sems'[j] = sems[j]
    BY <1>1, <1>2, <1>3 DEF SemsOK
<1> QED BY <1>1, <1>2, <1>4, <1>5 DEF set_sem_value

LEMMA ExitsEffect ==
    ASSUME SemsOK, ShmsOK, NEW p \in Procs, Exits(p)
    PROVE  /\ SemsOK' /\ ShmsOK' /\ UNCHANGED <<semOfKey, shmOfKey>>
           /\ \A j \in Ids :
                 /\ sems'[j].status = sems[j].status
                 /\ sems'[j].val = Positive(sems[j].val + sems[j].adj[p])
                 /\ sems'[j].adj[p] = 0
                 /\ \A q \in Procs : q # p => sems'[j].adj[q] = sems[j].adj[q]
                 /\ shms'[j].status = shms[j].status /\ shms'[j].word = shms[j].word
<1>1. ASSUME NEW j \in Ids
      PROVE  /\ sems'[j] \in SemRec
             /\ sems'[j].status = sems[j].status
             /\ sems'[j].val = Positive(sems[j].val + sems[j].adj[p])
             /\ sems'[j].adj[p] = 0
             /\ \A q \in Procs : q # p => sems'[j].adj[q] = sems[j].adj[q]
    <2>1. sems[j] \in SemRec BY DEF SemsOK
    <2>2. sems'[j] = [sems[j] EXCEPT !.val = Positive(@ + sems[j].adj[p]), !.adj[p] = 0]
        BY DEF Exits
    <2>3. sems'[j] = [status |-> sems[j].status, val |-> Positive(sems[j].val + sems[j].adj[p]),
                      adj |-> [sems[j].adj EXCEPT ![p] = 0]]
        BY <2>1, <2>2 DEF SemRec
    <2>4. Positive(sems[j].val + sems[j].adj[p]) \in Nat BY <2>1 DEF SemRec, Positive
    <2>5. [sems[j].adj EXCEPT ![p] = 0] \in [Procs -> Int] BY <2>1 DEF SemRec
    <2> QED BY <2>1, <2>3, <2>4, <2>5 DEF SemRec
<1>2. ASSUME NEW j \in Ids
      PROVE  /\ shms'[j] \in ShmRec
             /\ shms'[j].status = shms[j].status /\ shms'[j].word = shms[j].word
    <2>1. shms[j] \in ShmRec BY DEF ShmsOK
    <2>2. shms'[j] = [shms[j] EXCEPT !.attached = @ \ {p}] BY DEF Exits
    <2> QED BY <2>1, <2>2 DEF ShmRec
<1>3. SemsOK' /\ ShmsOK' BY <1>1, <1>2 DEF SemsOK, ShmsOK, Exits
<1> QED BY <1>1, <1>2, <1>3 DEF Exits

(***************************************************************************)
(* The other operations: each changes one object, and most do not change   *)
(* its status.                                                             *)
(***************************************************************************)
LEMMA CreateEffect ==
    ASSUME SemsOK, create_semaphore, SemIdOfKey \in Ids
    PROVE  /\ SemsOK' /\ semOfKey' = SemIdOfKey
           /\ \A j \in Ids :
                 /\ sems'[j].status = IF j = SemIdOfKey THEN "live" ELSE sems[j].status
                 /\ sems'[j].val = sems[j].val /\ sems'[j].adj = sems[j].adj
<1> DEFINE id == SemIdOfKey
           r == [status |-> "live", val |-> sems[id].val, adj |-> sems[id].adj]
<1>1. r \in SemRec BY DEF SemsOK, SemRec, Status
<1>0. id \in Ids /\ sems[id] \in SemRec BY DEF SemsOK
<1>2. sems' = [sems EXCEPT ![id] = r]
    <2>1. [sems[id] EXCEPT !.status = "live"] = r BY <1>0 DEF SemRec
    <2> QED BY <1>0, <2>1, Zenon DEF create_semaphore
<1>3. r.status = "live" /\ r.val = sems[id].val /\ r.adj = sems[id].adj OBVIOUS
<1> HIDE DEF r, id
<1>4. id \in Ids BY DEF id
<1>5. SemsOK' /\ sems'[id] = r /\ \A j \in Ids : j # id => sems'[j] = sems[j]
    BY <1>1, <1>2, <1>4 DEF SemsOK
<1> QED BY <1>3, <1>4, <1>5 DEF create_semaphore, id

LEMMA DeleteEffect ==
    ASSUME SemsOK, NEW id, del_sem_value(id)
    PROVE  /\ SemsOK' /\ id \in Live(sems) /\ id \in Ids
           /\ semOfKey' \in {semOfKey, NoId}
           /\ \A j \in Ids :
                 /\ sems'[j].status = IF j = id THEN "removed" ELSE sems[j].status
                 /\ sems'[j].val = sems[j].val /\ sems'[j].adj = sems[j].adj
<1> DEFINE r == [status |-> "removed", val |-> sems[id].val, adj |-> sems[id].adj]
<1>0. id \in Ids /\ id \in Live(sems) BY DEF SemsOK, Live, del_sem_value
<1>1. r \in SemRec BY <1>0 DEF SemsOK, SemRec, Status
<1>2. sems' = [sems EXCEPT ![id] = r]
    <2>1. [sems[id] EXCEPT !.status = "removed"] = r BY <1>0 DEF SemsOK, SemRec
    <2> QED BY <1>0, <2>1, Zenon DEF del_sem_value
<1>3. r.status = "removed" /\ r.val = sems[id].val /\ r.adj = sems[id].adj OBVIOUS
<1> HIDE DEF r
<1>5. SemsOK' /\ sems'[id] = r /\ \A j \in Ids : j # id => sems'[j] = sems[j]
    BY <1>0, <1>1, <1>2 DEF SemsOK
<1> QED BY <1>0, <1>3, <1>5 DEF del_sem_value

LEMMA ShmgetEffect ==
    ASSUME ShmsOK, shmget, ShmIdOfKey \in Ids
    PROVE  /\ ShmsOK' /\ shmOfKey' = ShmIdOfKey
           /\ \A j \in Ids :
                 /\ shms'[j].status = IF j = ShmIdOfKey THEN "live" ELSE shms[j].status
                 /\ shms'[j].word = shms[j].word
<1> DEFINE id == ShmIdOfKey
           r == [status |-> "live", word |-> shms[id].word, attached |-> shms[id].attached]
<1>1. r \in ShmRec BY DEF ShmsOK, ShmRec, Status
<1>0. id \in Ids /\ shms[id] \in ShmRec BY DEF ShmsOK
<1>2. shms' = [shms EXCEPT ![id] = r]
    <2>1. [shms[id] EXCEPT !.status = "live"] = r BY <1>0 DEF ShmRec
    <2> QED BY <1>0, <2>1, Zenon DEF shmget
<1>3. r.status = "live" /\ r.word = shms[id].word OBVIOUS
<1> HIDE DEF r, id
<1>4. id \in Ids BY DEF id
<1>5. ShmsOK' /\ shms'[id] = r /\ \A j \in Ids : j # id => shms'[j] = shms[j]
    BY <1>1, <1>2, <1>4 DEF ShmsOK
<1> QED BY <1>3, <1>4, <1>5 DEF shmget, id

LEMMA ShmRemoveEffect ==
    ASSUME ShmsOK, NEW id, shm_remove(id)
    PROVE  /\ ShmsOK' /\ id \in Live(shms) /\ id \in Ids
           /\ shmOfKey' \in {shmOfKey, NoId}
           /\ \A j \in Ids :
                 /\ shms'[j].status = IF j = id THEN "removed" ELSE shms[j].status
                 /\ shms'[j].word = shms[j].word
<1> DEFINE r == [status |-> "removed", word |-> shms[id].word, attached |-> shms[id].attached]
<1>0. id \in Ids /\ id \in Live(shms) BY DEF ShmsOK, Live, shm_remove
<1>1. r \in ShmRec BY <1>0 DEF ShmsOK, ShmRec, Status
<1>2. shms' = [shms EXCEPT ![id] = r]
    <2>1. [shms[id] EXCEPT !.status = "removed"] = r BY <1>0 DEF ShmsOK, ShmRec
    <2> QED BY <1>0, <2>1, Zenon DEF shm_remove
<1>3. r.status = "removed" /\ r.word = shms[id].word OBVIOUS
<1> HIDE DEF r
<1>5. ShmsOK' /\ shms'[id] = r /\ \A j \in Ids : j # id => shms'[j] = shms[j]
    BY <1>0, <1>1, <1>2 DEF ShmsOK
<1> QED BY <1>0, <1>3, <1>5 DEF shm_remove

LEMMA AttachEffect ==
    ASSUME ShmsOK, NEW p \in Procs, NEW id, Attach(p, id) \/ Detach(p, id)
    PROVE  /\ ShmsOK'
           /\ \A j \in Ids : shms'[j].status = shms[j].status /\ shms'[j].word = shms[j].word
<1>1. CASE id \in Ids
    <2>1. PICK S \in SUBSET Procs : shms' = [shms EXCEPT ![id].attached = S]
        <3>1. shms[id].attached \cup {p} \in SUBSET Procs /\ shms[id].attached \ {p} \in SUBSET Procs
            BY <1>1 DEF ShmsOK, ShmRec
        <3> QED BY <3>1 DEF Attach, Detach
    <2> DEFINE r == [status |-> shms[id].status, word |-> shms[id].word, attached |-> S]
    <2>2. r \in ShmRec BY <1>1 DEF ShmsOK, ShmRec
    <2>3. shms' = [shms EXCEPT ![id] = r]
        <3>1. [shms[id] EXCEPT !.attached = S] = r BY <1>1 DEF ShmsOK, ShmRec
        <3> QED BY <2>1, <3>1, Zenon
    <2>4. r.status = shms[id].status /\ r.word = shms[id].word OBVIOUS
    <2> HIDE DEF r
    <2> QED BY <1>1, <2>2, <2>3, <2>4 DEF ShmsOK
<1>2. CASE id \notin Ids BY <1>2 DEF ShmsOK, Attach, Detach
<1> QED BY <1>1, <1>2

LEMMA WriteEffect ==
    ASSUME ShmsOK, NEW id, NEW val \in Int, Write(id, val)
    PROVE  /\ ShmsOK'
           /\ \A j \in Ids : /\ shms'[j].status = shms[j].status
                             /\ shms'[j].word = IF j = id THEN val ELSE shms[j].word
<1>1. CASE id \in Ids
    <2> DEFINE r == [status |-> shms[id].status, word |-> val, attached |-> shms[id].attached]
    <2>2. r \in ShmRec BY <1>1 DEF ShmsOK, ShmRec
    <2>3. shms' = [shms EXCEPT ![id] = r]
        <3>1. [shms[id] EXCEPT !.word = val] = r BY <1>1 DEF ShmsOK, ShmRec
        <3> QED BY <3>1, Zenon DEF Write
    <2>4. r.status = shms[id].status /\ r.word = val OBVIOUS
    <2> HIDE DEF r
    <2> QED BY <1>1, <2>2, <2>3, <2>4 DEF ShmsOK
<1>2. CASE id \notin Ids BY <1>2 DEF ShmsOK, Write
<1> QED BY <1>1, <1>2

(***************************************************************************)
(* Processes.                                                              *)
(***************************************************************************)
LEMMA ProcsFacts ==
    /\ Mains \subseteq Procs /\ Children \subseteq Procs /\ Mains \cap Children = {}
    /\ \A m \in Mains : Run(m) = m /\ ChildrenOf(m) \subseteq Children
    /\ \A m \in Mains : \A n \in Numbers : <<m, n>> \in ChildrenOf(m)
    /\ \A m \in Mains : \A c \in ChildrenOf(m) : Parent(c) = m
    /\ \A c \in Children : /\ Run(c) = Parent(c) /\ Parent(c) \in Mains
                           /\ c \in ChildrenOf(Parent(c))
    /\ \A p \in Procs : Run(p) \in Mains /\ (p \notin Mains => p \in Children)
BY SysvIpcAssumption DEF Procs, Children, Run, ChildrenOf, Parent

LEMMA NumbersFacts ==
    /\ Cardinality(Numbers) \in Nat /\ Cardinality(Numbers) >= 2
    /\ \A n \in Int : n \in Numbers <=> 1 <= n /\ n <= Cardinality(Numbers)
    /\ 1 \in Numbers /\ 2 \in Numbers
<1>1. Cardinality(Numbers) \in Nat BY SysvIpcAssumption, FS_CardinalityType
<1>2. 1 \in Numbers /\ 2 \in Numbers BY SharedSumAssumption
<1> QED BY <1>1, <1>2, IpcRunAssumption

(***************************************************************************)
(* Identifiers: there is one left for each run that has not asked for one. *)
(***************************************************************************)
EarlySem == {"ftok", "semget"}
EarlyShm == {"ftok", "semget", "setval", "shmget"}
Past(early) == {m \in Mains : pc[m] \notin early}

Budget ==
    /\ Cardinality(Used(sems)) <= 1 + Cardinality(Past(EarlySem))
    /\ Cardinality(Used(shms)) <= 1 + Cardinality(Past(EarlyShm))

LEMMA IdsFinite == IsFiniteSet(Ids) /\ Cardinality(Ids) = MaxId + 1
BY SysvIpcAssumption, FS_Interval DEF Ids

LEMMA UsedFinite ==
    ASSUME NEW objects
    PROVE  IsFiniteSet(Used(objects)) /\ Cardinality(Used(objects)) \in Nat
<1>1. Used(objects) \subseteq Ids BY DEF Used
<1> QED BY <1>1, IdsFinite, FS_Subset, FS_CardinalityType

LEMMA PastFinite ==
    ASSUME NEW S \in SUBSET Mains
    PROVE  IsFiniteSet(S) /\ Cardinality(S) \in Nat /\ Cardinality(S) <= Cardinality(Mains)
BY SysvIpcAssumption, FS_Subset, FS_CardinalityType

LEMMA FreshUnused ==
    ASSUME NEW objects, DOMAIN objects = Ids, Cardinality(Used(objects)) <= Cardinality(Mains)
    PROVE  Fresh(objects) \in Ids /\ objects[Fresh(objects)].status = "unused"
<1> DEFINE unused(id) == id \in Ids /\ objects[id].status = "unused"
           T == {n \in Nat : \A id \in 0 .. n : ~ unused(id)}
<1>1. \E id : unused(id)
    <2> SUFFICES ASSUME Used(objects) = Ids PROVE FALSE BY DEF Used
    <2>1. Cardinality(Ids) <= Cardinality(Mains) OBVIOUS
    <2>2. Cardinality(Mains) \in Nat BY SysvIpcAssumption, FS_CardinalityType
    <2> QED BY <2>1, <2>2, IdsFinite, SysvIpcAssumption
<1>2. Ids \subseteq Nat BY SysvIpcAssumption DEF Ids
<1> HIDE DEF unused
<1>3. PICK id : unused(id) /\ \A j : unused(j) => id <= j
    <2>1. PICK top : unused(top) BY <1>1
    <2>2. top \in Nat /\ top \notin T BY <1>2, <2>1 DEF unused
    <2>3. CASE 0 \notin T
        <3>1. unused(0) BY <2>3
        <3>2. \A j : unused(j) => 0 <= j BY <1>2 DEF unused
        <3> QED BY <3>1, <3>2
    <2>4. CASE 0 \in T
        <3>1. PICK n \in T : n + 1 \notin T
            <4>1. T \in SUBSET Nat OBVIOUS
            <4> HIDE DEF T
            <4> QED BY <2>2, <2>4, <4>1, Induction
        <3>2. n \in Nat /\ \A j \in 0 .. n : ~ unused(j) OBVIOUS
        <3>3. unused(n + 1)
            <4>1. \A j \in 0 .. n + 1 : j \in 0 .. n \/ j = n + 1 BY <3>2
            <4> QED BY <3>1, <3>2, <4>1
        <3>4. \A j : unused(j) => n + 1 <= j BY <1>2, <3>2 DEF unused
        <3> QED BY <3>3, <3>4
    <2> QED BY <2>3, <2>4
<1>4. /\ id \in DOMAIN objects /\ objects[id].status = "unused"
      /\ \A j \in DOMAIN objects : objects[j].status = "unused" => id <= j
    BY <1>3 DEF unused
<1> QED BY <1>4 DEF Fresh

\* A run that asks for its first identifier, and the others.
LEMMA BudgetSpent ==
    ASSUME NEW old, NEW new, NEW U, NEW W, NEW m \in Mains, NEW id,
           U \subseteq Mains, W \subseteq Mains, m \notin U, m \in W, U \subseteq W,
           Cardinality(Used(old)) <= 1 + Cardinality(U),
           Used(new) \subseteq Used(old) \cup {id}
    PROVE  Cardinality(Used(new)) <= 1 + Cardinality(W)
<1>1. /\ IsFiniteSet(Used(old)) /\ Cardinality(Used(old)) \in Nat
      /\ IsFiniteSet(Used(new)) /\ Cardinality(Used(new)) \in Nat
    BY UsedFinite
<1>2. /\ IsFiniteSet(U) /\ Cardinality(U) \in Nat
      /\ IsFiniteSet(W) /\ Cardinality(W) \in Nat
    BY PastFinite
<1>3. IsFiniteSet(Used(old) \cup {id}) /\ Cardinality(Used(old) \cup {id}) <= Cardinality(Used(old)) + 1
    <2>1. PICK S : S = Used(old) OBVIOUS
    <2>2. IsFiniteSet(S) /\ Cardinality(S) \in Nat BY <1>1, <2>1
    <2> DEFINE n == Cardinality(S \cup {id})
               k == Cardinality(S)
    <2>a. IsFiniteSet(S \cup {id}) /\ n = IF id \in S THEN k ELSE k + 1
        BY ONLY <2>2, FS_AddElement, Zenon
    <2>b. k \in Nat BY <2>2
    <2> HIDE DEF n, k
    <2>c. n <= k + 1 BY ONLY <2>a, <2>b
    <2>3. IsFiniteSet(S \cup {id}) /\ Cardinality(S \cup {id}) <= Cardinality(S) + 1
        BY ONLY <2>a, <2>c DEF n, k
    <2> QED BY ONLY <2>1, <2>3
<1>4. Cardinality(Used(new)) <= Cardinality(Used(old) \cup {id}) BY <1>3, FS_Subset
<1>5. IsFiniteSet(U \cup {m}) /\ Cardinality(U \cup {m}) = Cardinality(U) + 1
    BY <1>2, FS_AddElement
<1>6. U \cup {m} \subseteq W OBVIOUS
<1>7. Cardinality(U \cup {m}) <= Cardinality(W) BY <1>2, <1>6, FS_Subset
<1>8. Cardinality(Used(old) \cup {id}) \in Nat BY <1>3, FS_CardinalityType
<1> QED BY <1>1, <1>2, <1>3, <1>4, <1>5, <1>7, <1>8

LEMMA BudgetUnspent ==
    ASSUME NEW old, NEW new, NEW U, NEW W, U \subseteq W, W \subseteq Mains,
           Cardinality(Used(old)) <= 1 + Cardinality(U),
           Used(new) \subseteq Used(old)
    PROVE  Cardinality(Used(new)) <= 1 + Cardinality(W)
<1>1. IsFiniteSet(Used(old)) /\ Cardinality(Used(old)) \in Nat /\ Cardinality(Used(new)) \in Nat
    BY UsedFinite
<1>2. IsFiniteSet(W) /\ Cardinality(U) \in Nat /\ Cardinality(W) \in Nat BY PastFinite
<1>3. Cardinality(Used(new)) <= Cardinality(Used(old)) BY <1>1, FS_Subset
<1>4. Cardinality(U) <= Cardinality(W) BY <1>2, FS_Subset
<1> QED BY <1>1, <1>2, <1>3, <1>4
(***************************************************************************)
(* The invariant, for any number of runs.  What is known of run m depends  *)
(* on m and its children only.                                             *)
(***************************************************************************)
SettingUp == {"ftok", "semget", "setval", "shmget", "shmat", "zero"}
AtWork    == {"fork", "P", "load", "store", "V", "wait"}
Leaving   == {"shmdt", "shmrm", "semrm", "returned"}
Summing(m) == program[m] = "mpsumarray"
Unborn(m)  == \A c \in ChildrenOf(m) : pc[c] = "unborn"

\* Who uses a segment knows it; a run that sets up has no children yet.
Mapped(m) ==
    pc[m] \in AtWork \cup {"zero"} \/ shm[m] = "attached" \/ ~ Unborn(m) => shmid[m] \in Ids

Young(m) ==
    pc[m] \in SettingUp => /\ Unborn(m) /\ num_started[m] = 0 /\ i[m] = 1
                           /\ pc[m] # "zero" => shm[m] = "unset"

\* The loops end: there is a child left to fork, and the last one forked is
\* counted up.
Loops(m) ==
    /\ pc[m] = "fork" => IF Summing(m) THEN num_started[m] <= 1 ELSE i[m] <= Cardinality(Numbers)
    /\ pc[m] \in {"P", "load", "store", "V"} => ~ Summing(m) /\ i[m] >= 2

RunInv(m) == Mapped(m) /\ Young(m) /\ Loops(m)

TInv == TypeOK /\ Budget /\ \A m \in Mains : RunInv(m)

(***************************************************************************)
(* A step of run m, by its parent or by one of its children.               *)
(***************************************************************************)
PlainOK ==
    /\ {semOfKey, shmOfKey} \subseteq Ids \cup {NoId}
    /\ pc \in [Procs -> Locations]
    /\ semid \in [Mains -> Ids \cup {NoId}]
    /\ shmid \in [Mains -> Ids \cup {NoId}]
    /\ shm \in [Mains -> {"unset", "failed", "attached"}]
    /\ loaded \in [Procs -> Int]
    /\ retval \in [Mains -> {0, 1}]
    /\ shown \in [Mains -> Seq(Int)]
    /\ kills \in 0 .. MaxKills
    /\ SumTypeOK /\ SleepTypeOK
    /\ program \in [Mains -> {"mpsumarray", "sleepingprocesses"}]

LEMMA TypeParts ==
    /\ TypeOK <=> SemsOK /\ ShmsOK /\ PlainOK
    /\ TypeOK' <=> SemsOK' /\ ShmsOK' /\ PlainOK'
BY DEF TypeOK, RunTypeOK, SemsOK, ShmsOK, PlainOK, SemRec, ShmRec

\* The other runs are as they were.
Apart(m) ==
    \A n \in Mains \ {m} :
        /\ pc'[n] = pc[n] /\ \A c \in ChildrenOf(n) : pc'[c] = pc[c]
        /\ shmid'[n] = shmid[n] /\ shm'[n] = shm[n] /\ program'[n] = program[n]
        /\ num_started'[n] = num_started[n] /\ i'[n] = i[n]

Kept(m) == TypeOK' /\ Budget' /\ RunInv(m)' /\ Apart(m)

LEMMA OthersKept ==
    ASSUME TInv, NEW m \in Mains, Kept(m)
    PROVE  TInv'
<1> SUFFICES ASSUME NEW n \in Mains \ {m} PROVE RunInv(n)' BY DEF Kept, TInv
<1>1. /\ pc'[n] = pc[n] /\ shmid'[n] = shmid[n] /\ shm'[n] = shm[n] /\ program'[n] = program[n]
      /\ num_started'[n] = num_started[n] /\ i'[n] = i[n]
      /\ \A c \in ChildrenOf(n) : pc'[c] = pc[c]
    BY DEF Kept, Apart
<1>2. RunInv(n) BY DEF TInv
<1>3. Unborn(n)' <=> Unborn(n) BY <1>1 DEF Unborn
<1>4. Summing(n)' <=> Summing(n) BY <1>1 DEF Summing
<1> HIDE DEF Kept
<1> QED BY <1>1, <1>2, <1>3, <1>4 DEF RunInv, Mapped, Young, Loops, Unborn

\* The budget is kept when nothing is created.
SameUse ==
    /\ \A j \in Ids : sems'[j].status = "unused" <=> sems[j].status = "unused"
    /\ \A j \in Ids : shms'[j].status = "unused" <=> shms[j].status = "unused"

LEMMA BudgetKept ==
    ASSUME Budget, SameUse, Past(EarlySem) \subseteq Past(EarlySem)',
           Past(EarlyShm) \subseteq Past(EarlyShm)'
    PROVE  Budget'
<1> DEFINE U == Past(EarlySem)
           W == Past(EarlySem)'
           X == Past(EarlyShm)
           Y == Past(EarlyShm)'
           S == Used(sems)
           T == Used(shms)
<1>1. Used(sems)' = Used(sems') /\ Used(shms)' = Used(shms') BY DEF Used
<1>2. Used(sems') \subseteq Used(sems) /\ Used(shms') \subseteq Used(shms) BY DEF Used, SameUse
<1>3. W \subseteq Mains /\ Y \subseteq Mains BY DEF Past
<1>4. Cardinality(Used(sems)) <= 1 + Cardinality(U) /\ Cardinality(Used(shms)) <= 1 + Cardinality(X)
    BY DEF Budget
<1>5. U \subseteq W /\ X \subseteq Y OBVIOUS
<1> HIDE DEF U, W, X, Y
<1>6. Cardinality(Used(sems')) <= 1 + Cardinality(W) BY <1>2, <1>3, <1>4, <1>5, BudgetUnspent
<1>7. Cardinality(Used(shms')) <= 1 + Cardinality(Y) BY <1>2, <1>3, <1>4, <1>5, BudgetUnspent
<1> QED BY <1>1, <1>6, <1>7 DEF Budget, W, Y

\* A process of run m moves, and nothing else of m that RunInv speaks of.
LEMMA ChildMoves ==
    ASSUME TInv, NEW m \in Mains, NEW c \in ChildrenOf(m), NEW where \in Locations,
           Goto(c, where), pc[c] # "unborn", where # "unborn", SameUse, TypeOK',
           UNCHANGED <<shmid, shm, sumVars, sleepVars, program>> \/
           UNCHANGED <<shmid, shm, num_started, i, program>>
    PROVE  Kept(m)
<1>1. pc \in [Procs -> Locations] BY TypeParts DEF TInv, PlainOK
<1>2. c \in Procs /\ c \notin Mains BY ProcsFacts
<1>3. \A p \in Procs : pc'[p] = IF p = c THEN where ELSE pc[p] BY <1>1, <1>2 DEF Goto
<1>4. UNCHANGED <<shmid, shm, num_started, i, program>> BY DEF sumVars, sleepVars
<1>5. \A n \in Mains : pc'[n] = pc[n] BY <1>2, <1>3, ProcsFacts
<1>6. \A n \in Mains \ {m} : \A d \in ChildrenOf(n) : pc'[d] = pc[d]
    BY <1>2, <1>3, ProcsFacts
<1>7. Apart(m) BY <1>4, <1>5, <1>6 DEF Apart
<1>8. Past(EarlySem)' = Past(EarlySem) /\ Past(EarlyShm)' = Past(EarlyShm)
    BY <1>5 DEF Past, EarlySem, EarlyShm
<1>9. Budget' BY <1>8, BudgetKept DEF TInv
<1>10. ~ Unborn(m) /\ ~ Unborn(m)'
    BY <1>2, <1>3 DEF Unborn
<1>11. RunInv(m)'
    <2>1. RunInv(m) BY DEF TInv
    <2> QED BY <1>4, <1>5, <1>10, <2>1 DEF RunInv, Mapped, Young, Loops, Summing
<1> QED BY <1>7, <1>9, <1>11 DEF Kept

LEMMA MainMoves ==
    ASSUME TInv, NEW m \in Mains, NEW where \in Locations,
           Goto(m, where), SameUse, TypeOK',
           pc[m] \in EarlySem \/ where \notin EarlySem,
           pc[m] \in EarlyShm \/ where \notin EarlyShm,
           UNCHANGED <<num_started, i, program>>,
           \A n \in Mains \ {m} : shmid'[n] = shmid[n] /\ shm'[n] = shm[n],
           Mapped(m)', Young(m)', Loops(m)'
    PROVE  Kept(m)
<1>1. pc \in [Procs -> Locations] BY TypeParts DEF TInv, PlainOK
<1>2. m \in Procs /\ m \notin Children BY ProcsFacts
<1>3. \A p \in Procs : pc'[p] = IF p = m THEN where ELSE pc[p] BY <1>1, <1>2 DEF Goto
<1>4. \A n \in Mains \ {m} : pc'[n] = pc[n] /\ \A d \in ChildrenOf(n) : pc'[d] = pc[d]
    BY <1>2, <1>3, ProcsFacts
<1>5. Apart(m) BY <1>4 DEF Apart
<1>6. Past(EarlySem) \subseteq Past(EarlySem)' /\ Past(EarlyShm) \subseteq Past(EarlyShm)'
    BY <1>2, <1>3, <1>4, ProcsFacts DEF Past
<1>7. Budget' BY <1>6, BudgetKept DEF TInv
<1> QED BY <1>5, <1>7 DEF Kept, RunInv

LEMMA GotoEffect ==
    ASSUME PlainOK, NEW p \in Procs, NEW where \in Locations, Goto(p, where)
    PROVE  /\ pc' \in [Procs -> Locations]
           /\ \A q \in Procs : pc'[q] = IF q = p THEN where ELSE pc[q]
BY DEF PlainOK, Goto

LEMMA MainGoes ==
    ASSUME PlainOK, NEW m \in Mains, NEW where \in Locations, Goto(m, where)
    PROVE  /\ m \in Procs /\ pc' \in [Procs -> Locations] /\ pc'[m] = where
           /\ \A q \in Procs : q # m => pc'[q] = pc[q]
           /\ Unborn(m)' <=> Unborn(m)
           /\ \A c \in ChildrenOf(m) : pc'[c] = pc[c]
<1>1. m \in Procs /\ \A c \in ChildrenOf(m) : c \in Procs /\ c # m BY ProcsFacts
<1> QED BY <1>1, GotoEffect DEF Unborn

(***************************************************************************)
(* Set-up.                                                                 *)
(***************************************************************************)
LEMMA FtokKept ==
    ASSUME TInv, NEW m \in Mains, NEW onError \in Leaving, Ftok(m, onError),
           UNCHANGED <<sumVars, sleepVars, kills, program>>
    PROVE  Kept(m)
<1>1. SemsOK /\ ShmsOK /\ PlainOK /\ RunInv(m) BY TypeParts DEF TInv
<1>2. PICK where \in {"semget", onError} : Goto(m, where) /\ retval' \in [Mains -> {0, 1}]
    BY <1>1 DEF Ftok, Fails, PlainOK
<1>3. where \in Locations /\ where \notin AtWork \cup {"ftok", "zero", "shmat"}
    BY DEF Leaving, Locations, AtWork
<1>4. pc[m] = "ftok" /\ UNCHANGED <<ipcVars, semid, shmid, shm, loaded, shown, sumVars, sleepVars, kills, program>>
    BY DEF Ftok
<1>5. TypeOK'
    <2>1. PlainOK'
        BY <1>1, <1>2, <1>3, <1>4, GotoEffect, MainGoes
        DEF PlainOK, ipcVars, sumVars, sleepVars, SumTypeOK, SleepTypeOK
    <2> QED BY <1>1, <1>4, <2>1, TypeParts DEF SemsOK, ShmsOK, ipcVars
<1>6. Mapped(m)' /\ Young(m)' /\ Loops(m)'
    BY <1>1, <1>2, <1>3, <1>4, MainGoes
    DEF RunInv, Mapped, Young, Loops, AtWork, SettingUp, sumVars, sleepVars, Summing
<1>7. SameUse BY <1>4 DEF SameUse, ipcVars
<1> QED BY <1>2, <1>3, <1>4, <1>5, <1>6, <1>7, MainMoves DEF sumVars, sleepVars, EarlySem, EarlyShm

LEMMA SetvalKept ==
    ASSUME TInv, NEW m \in Mains, Setval(m), UNCHANGED <<sumVars, sleepVars, kills, program>>
    PROVE  Kept(m)
<1>1. SemsOK /\ ShmsOK /\ PlainOK /\ RunInv(m) BY TypeParts DEF TInv
<1>2. PICK where \in {"shmget", "shmdt"} : Goto(m, where) /\ retval' \in [Mains -> {0, 1}]
    BY <1>1 DEF Setval, Fails, PlainOK
<1>3. where \in Locations BY DEF Locations
<1>4. /\ pc[m] = "setval"
      /\ UNCHANGED <<shms, shmOfKey, semid, shmid, shm, loaded, shown, sumVars, sleepVars, kills, program>>
    BY DEF Setval
<1>5. SemsOK' /\ semOfKey' = semOfKey /\ \A j \in Ids : sems'[j].status = sems[j].status
    <2>1. CASE set_sem_value(semid[m], InitialValue)
        <3>1. InitialValue \in Nat BY DEF InitialValue
        <3> QED BY <1>1, <2>1, <3>1, SetvalEffect
    <2>2. CASE UNCHANGED <<sems, semOfKey>> BY <1>1, <2>2 DEF SemsOK
    <2> QED BY <2>1, <2>2 DEF Setval
<1>6. TypeOK'
    <2>1. PlainOK'
        BY <1>1, <1>2, <1>3, <1>4, <1>5, MainGoes
        DEF PlainOK, sumVars, sleepVars, SumTypeOK, SleepTypeOK
    <2> QED BY <1>1, <1>4, <1>5, <2>1, TypeParts DEF ShmsOK
<1>7. Mapped(m)' /\ Young(m)' /\ Loops(m)'
    BY <1>1, <1>2, <1>3, <1>4, MainGoes
    DEF RunInv, Mapped, Young, Loops, AtWork, SettingUp, sumVars, sleepVars, Summing
<1>8. SameUse BY <1>4, <1>5 DEF SameUse
<1> QED BY <1>2, <1>3, <1>4, <1>6, <1>7, <1>8, MainMoves DEF sumVars, sleepVars, EarlySem, EarlyShm

LEMMA ShmatKept ==
    ASSUME TInv, NEW m \in Mains, Shmat(m), UNCHANGED <<sumVars, sleepVars, kills, program>>
    PROVE  Kept(m)
<1>1. SemsOK /\ ShmsOK /\ PlainOK /\ RunInv(m) BY TypeParts DEF TInv
<1>2. PICK where \in {"zero", "shmdt"} : Goto(m, where) /\ retval' \in [Mains -> {0, 1}]
    BY <1>1 DEF Shmat, Fails, PlainOK
<1>3. where \in Locations BY DEF Locations
<1>4. /\ pc[m] = "shmat"
      /\ UNCHANGED <<sems, semOfKey, shmOfKey, semid, shmid, loaded, shown, sumVars, sleepVars, kills, program>>
    BY DEF Shmat
<1>5. /\ ShmsOK' /\ \A j \in Ids : shms'[j].status = shms[j].status
      /\ \/ shm' = [shm EXCEPT ![m] = "attached"] /\ shmid[m] \in Ids
         \/ shm' = [shm EXCEPT ![m] = "failed"] /\ where = "shmdt"
    <2>0. pc' = [pc EXCEPT ![m] = where] /\ m \in Procs BY <1>2, ProcsFacts DEF Goto
    <2>1. CASE Attach(m, shmid[m]) /\ shmid[m] \in Live(shms) /\ shm' = [shm EXCEPT ![m] = "attached"]
        <3>1. shmid[m] \in Ids BY <1>1, <2>1 DEF Live, ShmsOK
        <3> QED BY <1>1, <2>0, <2>1, <3>1, AttachEffect
    <2>2. CASE UNCHANGED shms /\ shm' = [shm EXCEPT ![m] = "failed"] /\ Goto(m, "shmdt")
        BY <1>1, <1>2, <2>0, <2>2, MainGoes DEF ShmsOK, Locations
    <2> QED BY <2>1, <2>2 DEF Shmat, Fails
<1>6. TypeOK'
    <2>1. PlainOK'
        BY <1>1, <1>2, <1>3, <1>4, <1>5, MainGoes
        DEF PlainOK, sumVars, sleepVars, SumTypeOK, SleepTypeOK
    <2> QED BY <1>1, <1>4, <1>5, <2>1, TypeParts DEF SemsOK
<1>7. shm \in [Mains -> {"unset", "failed", "attached"}] BY <1>1 DEF PlainOK
<1>8. \A n \in Mains \ {m} : shm'[n] = shm[n] BY <1>5, <1>7
<1>9. Mapped(m)' /\ Young(m)' /\ Loops(m)'
    BY <1>1, <1>2, <1>3, <1>4, <1>5, <1>7, MainGoes
    DEF RunInv, Mapped, Young, Loops, AtWork, SettingUp, sumVars, sleepVars, Summing
<1>10. SameUse BY <1>4, <1>5 DEF SameUse
<1> QED BY <1>2, <1>3, <1>4, <1>6, <1>8, <1>9, <1>10, MainMoves DEF sumVars, sleepVars, EarlySem, EarlyShm

LEMMA ZeroKept ==
    ASSUME TInv, NEW m \in Mains, Zero(m), UNCHANGED <<sumVars, sleepVars, kills, program>>
    PROVE  Kept(m)
<1>1. SemsOK /\ ShmsOK /\ PlainOK /\ RunInv(m) BY TypeParts DEF TInv
<1>2. /\ pc[m] = "zero" /\ Goto(m, "fork") /\ "fork" \in Locations
      /\ UNCHANGED <<sems, semOfKey, shmOfKey, runVars, loaded>>
    BY DEF Zero, Locations
<1>3. ShmsOK' /\ \A j \in Ids : shms'[j].status = shms[j].status
    <2>1. 0 \in Int OBVIOUS
    <2> QED BY <1>1, <2>1, WriteEffect DEF Zero
<1>4. TypeOK'
    <2>1. PlainOK'
        BY <1>1, <1>2, <1>3, MainGoes
        DEF PlainOK, sumVars, sleepVars, runVars, SumTypeOK, SleepTypeOK
    <2> QED BY <1>1, <1>2, <1>3, <2>1, TypeParts DEF SemsOK
<1>5. Mapped(m)' /\ Young(m)' /\ Loops(m)'
    BY <1>1, <1>2, MainGoes, NumbersFacts
    DEF RunInv, Mapped, Young, Loops, AtWork, SettingUp, runVars, sumVars, sleepVars, Summing
<1>6. SameUse BY <1>2, <1>3 DEF SameUse
<1> QED BY <1>2, <1>4, <1>5, <1>6, MainMoves DEF sumVars, sleepVars, runVars, EarlySem, EarlyShm

(***************************************************************************)
(* Identifiers from the kernel.                                            *)
(***************************************************************************)
LEMMA PastGrows ==
    ASSUME PlainOK, NEW m \in Mains, NEW where \in Locations, Goto(m, where),
           NEW early, pc[m] \in early, where \notin early
    PROVE  /\ Past(early) \subseteq Mains /\ Past(early)' \subseteq Mains
           /\ m \notin Past(early) /\ m \in Past(early)'
           /\ Past(early) \subseteq Past(early)'
           /\ Cardinality(Past(early)) + 1 <= Cardinality(Mains)
<1>1. /\ Past(early) \subseteq Mains /\ Past(early)' \subseteq Mains
      /\ m \notin Past(early) /\ m \in Past(early)' /\ Past(early) \subseteq Past(early)'
    BY MainGoes, ProcsFacts DEF Past
<1> DEFINE S == Past(early)
<1>2. S \subseteq Mains /\ m \notin S BY <1>1
<1> HIDE DEF S
<1>3. IsFiniteSet(S) /\ Cardinality(S) \in Nat BY <1>2, PastFinite
<1>4. IsFiniteSet(S \cup {m}) /\ Cardinality(S \cup {m}) = Cardinality(S) + 1 BY <1>2, <1>3, FS_AddElement
<1>5. Cardinality(S \cup {m}) <= Cardinality(Mains)
    <2>1. S \cup {m} \subseteq Mains BY <1>2
    <2> QED BY <2>1, PastFinite
<1> QED BY <1>1, <1>4, <1>5 DEF S

LEMMA SemgetKept ==
    ASSUME TInv, NEW m \in Mains, NEW onError \in Leaving, Semget(m, onError),
           UNCHANGED <<sumVars, sleepVars, kills, program>>
    PROVE  Kept(m)
<1>1. SemsOK /\ ShmsOK /\ PlainOK /\ RunInv(m) /\ Budget BY TypeParts DEF TInv
<1>2. PICK where \in {"setval", onError} : Goto(m, where) /\ retval' \in [Mains -> {0, 1}]
    BY <1>1 DEF Semget, Fails, PlainOK
<1>3. where \in Locations /\ where \notin AtWork \cup {"ftok", "semget", "zero"}
    BY DEF Leaving, Locations, AtWork
<1>4. /\ pc[m] = "semget"
      /\ UNCHANGED <<shms, shmOfKey, shmid, shm, loaded, shown, sumVars, sleepVars, kills, program>>
    BY DEF Semget
<1>5. /\ Past(EarlySem) \subseteq Mains /\ Past(EarlySem)' \subseteq Mains
      /\ m \notin Past(EarlySem) /\ m \in Past(EarlySem)'
      /\ Past(EarlySem) \subseteq Past(EarlySem)'
      /\ Cardinality(Past(EarlySem)) + 1 <= Cardinality(Mains)
    BY <1>1, <1>2, <1>3, <1>4, PastGrows DEF EarlySem, Leaving
<1>6. Past(EarlyShm) \subseteq Past(EarlyShm)' /\ Past(EarlyShm)' \subseteq Mains
    BY <1>1, <1>2, <1>3, <1>4, MainGoes, ProcsFacts DEF Past, EarlyShm
<1>7. \E id \in Ids \cup {NoId} :
         /\ SemsOK' /\ semOfKey' \in Ids \cup {NoId} /\ semid' = [semid EXCEPT ![m] = id]
         /\ \A j \in Ids : j # id => sems'[j].status = sems[j].status
    <2>1. CASE create_semaphore /\ semid' = [semid EXCEPT ![m] = SemIdOfKey]
        <3>1. SemIdOfKey \in Ids
            <4>1. CASE semOfKey = NoId
                <5>1. DOMAIN sems = Ids BY <1>1 DEF SemsOK
                <5>2. Cardinality(Used(sems)) <= Cardinality(Mains)
                    <6>1. /\ Cardinality(Used(sems)) \in Nat /\ Cardinality(Past(EarlySem)) \in Nat
                          /\ Cardinality(Mains) \in Nat
                        BY <1>5, UsedFinite, PastFinite
                    <6> QED BY <1>1, <1>5, <6>1 DEF Budget
                <5> QED BY <4>1, <5>1, <5>2, FreshUnused DEF SemIdOfKey
            <4>2. CASE semOfKey # NoId BY <1>1, <4>2 DEF PlainOK, SemIdOfKey
            <4> QED BY <4>1, <4>2
        <3>2. /\ SemsOK' /\ semOfKey' = SemIdOfKey
              /\ \A j \in Ids : j # SemIdOfKey => sems'[j].status = sems[j].status
            BY <1>1, <2>1, <3>1, CreateEffect
        <3> QED BY <2>1, <3>1, <3>2
    <2>2. CASE semid' = [semid EXCEPT ![m] = NoId] /\ UNCHANGED <<sems, semOfKey>>
        BY <1>1, <2>2 DEF SemsOK, PlainOK
    <2> QED BY <2>1, <2>2 DEF Semget
<1>8. TypeOK'
    <2>1. PlainOK'
        BY <1>1, <1>2, <1>3, <1>4, <1>7, MainGoes
        DEF PlainOK, sumVars, sleepVars, SumTypeOK, SleepTypeOK
    <2> QED BY <1>1, <1>4, <1>7, <2>1, TypeParts DEF ShmsOK
<1>9. Budget'
    <2> DEFINE W == Past(EarlySem)'
               Y == Past(EarlyShm)'
    <2>1. PICK id : Used(sems') \subseteq Used(sems) \cup {id} BY <1>7 DEF Used
    <2>2. Used(shms') = Used(shms) BY <1>4
    <2>3. Used(sems)' = Used(sems') /\ Used(shms)' = Used(shms') BY DEF Used
    <2>4. /\ Past(EarlySem) \subseteq Mains /\ W \subseteq Mains
          /\ m \notin Past(EarlySem) /\ m \in W /\ Past(EarlySem) \subseteq W
          /\ Past(EarlyShm) \subseteq Y /\ Y \subseteq Mains
        BY <1>5, <1>6
    <2>5. /\ Cardinality(Used(sems)) <= 1 + Cardinality(Past(EarlySem))
          /\ Cardinality(Used(shms)) <= 1 + Cardinality(Past(EarlyShm))
        BY <1>1 DEF Budget
    <2> HIDE DEF W, Y
    <2>6. Cardinality(Used(sems')) <= 1 + Cardinality(W) BY <2>1, <2>4, <2>5, BudgetSpent
    <2>7. Cardinality(Used(shms')) <= 1 + Cardinality(Y) BY <2>2, <2>4, <2>5, BudgetUnspent
    <2> QED BY <2>3, <2>6, <2>7 DEF Budget, W, Y
<1>10. Mapped(m)' /\ Young(m)' /\ Loops(m)'
    BY <1>1, <1>2, <1>3, <1>4, MainGoes
    DEF RunInv, Mapped, Young, Loops, AtWork, SettingUp, sumVars, sleepVars, Summing
<1>11. Apart(m)
    BY <1>1, <1>2, <1>3, <1>4, MainGoes, ProcsFacts DEF Apart, sumVars, sleepVars
<1> QED BY <1>8, <1>9, <1>10, <1>11 DEF Kept, RunInv

LEMMA ShmgetKept ==
    ASSUME TInv, NEW m \in Mains, Shmget(m), UNCHANGED <<sumVars, sleepVars, kills, program>>
    PROVE  Kept(m)
<1>1. SemsOK /\ ShmsOK /\ PlainOK /\ RunInv(m) /\ Budget BY TypeParts DEF TInv
<1>2. PICK where \in {"shmat", "shmdt"} : Goto(m, where) /\ retval' \in [Mains -> {0, 1}]
    BY <1>1 DEF Shmget, Fails, PlainOK
<1>3. where \in Locations BY DEF Locations
<1>4. /\ pc[m] = "shmget"
      /\ UNCHANGED <<sems, semOfKey, semid, shm, loaded, shown, sumVars, sleepVars, kills, program>>
    BY DEF Shmget
<1>5. /\ Past(EarlyShm) \subseteq Mains /\ Past(EarlyShm)' \subseteq Mains
      /\ m \notin Past(EarlyShm) /\ m \in Past(EarlyShm)'
      /\ Past(EarlyShm) \subseteq Past(EarlyShm)'
      /\ Cardinality(Past(EarlyShm)) + 1 <= Cardinality(Mains)
    BY <1>1, <1>2, <1>3, <1>4, PastGrows DEF EarlyShm
<1>6. Past(EarlySem) \subseteq Past(EarlySem)' /\ Past(EarlySem)' \subseteq Mains
    BY <1>1, <1>2, <1>3, <1>4, MainGoes, ProcsFacts DEF Past, EarlySem
<1>7. \E id \in Ids \cup {NoId} :
         /\ ShmsOK' /\ shmOfKey' \in Ids \cup {NoId} /\ shmid' = [shmid EXCEPT ![m] = id]
         /\ \A j \in Ids : j # id => shms'[j].status = shms[j].status
    <2>1. CASE shmget /\ shmid' = [shmid EXCEPT ![m] = ShmIdOfKey]
        <3>1. ShmIdOfKey \in Ids
            <4>1. CASE shmOfKey = NoId
                <5>1. DOMAIN shms = Ids BY <1>1 DEF ShmsOK
                <5>2. Cardinality(Used(shms)) <= Cardinality(Mains)
                    <6>1. /\ Cardinality(Used(shms)) \in Nat /\ Cardinality(Past(EarlyShm)) \in Nat
                          /\ Cardinality(Mains) \in Nat
                        BY <1>5, UsedFinite, PastFinite
                    <6> QED BY <1>1, <1>5, <6>1 DEF Budget
                <5> QED BY <4>1, <5>1, <5>2, FreshUnused DEF ShmIdOfKey
            <4>2. CASE shmOfKey # NoId BY <1>1, <4>2 DEF PlainOK, ShmIdOfKey
            <4> QED BY <4>1, <4>2
        <3>2. /\ ShmsOK' /\ shmOfKey' = ShmIdOfKey
              /\ \A j \in Ids : j # ShmIdOfKey => shms'[j].status = shms[j].status
            BY <1>1, <2>1, <3>1, ShmgetEffect
        <3> QED BY <2>1, <3>1, <3>2
    <2>2. CASE shmid' = [shmid EXCEPT ![m] = NoId] /\ UNCHANGED <<shms, shmOfKey>>
        BY <1>1, <2>2 DEF ShmsOK, PlainOK
    <2> QED BY <2>1, <2>2 DEF Shmget
<1>8. TypeOK'
    <2>1. PlainOK'
        BY <1>1, <1>2, <1>3, <1>4, <1>7, MainGoes
        DEF PlainOK, sumVars, sleepVars, SumTypeOK, SleepTypeOK
    <2> QED BY <1>1, <1>4, <1>7, <2>1, TypeParts DEF SemsOK
<1>9. Budget'
    <2> DEFINE W == Past(EarlySem)'
               Y == Past(EarlyShm)'
    <2>1. PICK id : Used(shms') \subseteq Used(shms) \cup {id} BY <1>7 DEF Used
    <2>2. Used(sems') = Used(sems) BY <1>4
    <2>3. Used(sems)' = Used(sems') /\ Used(shms)' = Used(shms') BY DEF Used
    <2>4. /\ Past(EarlyShm) \subseteq Mains /\ W \subseteq Mains
          /\ m \notin Past(EarlyShm) /\ m \in Y /\ Past(EarlySem) \subseteq W
          /\ Past(EarlyShm) \subseteq Y /\ Y \subseteq Mains
        BY <1>5, <1>6
    <2>5. /\ Cardinality(Used(sems)) <= 1 + Cardinality(Past(EarlySem))
          /\ Cardinality(Used(shms)) <= 1 + Cardinality(Past(EarlyShm))
        BY <1>1 DEF Budget
    <2> HIDE DEF W, Y
    <2>6. Cardinality(Used(shms')) <= 1 + Cardinality(Y) BY <2>1, <2>4, <2>5, BudgetSpent
    <2>7. Cardinality(Used(sems')) <= 1 + Cardinality(W) BY <2>2, <2>4, <2>5, BudgetUnspent
    <2> QED BY <2>3, <2>6, <2>7 DEF Budget, W, Y
<1>10. shmid \in [Mains -> Ids \cup {NoId}] BY <1>1 DEF PlainOK
<1>11. Mapped(m)' /\ Young(m)' /\ Loops(m)'
    BY <1>1, <1>2, <1>3, <1>4, <1>7, <1>10, MainGoes
    DEF RunInv, Mapped, Young, Loops, AtWork, SettingUp, sumVars, sleepVars, Summing
<1>12. Apart(m)
    BY <1>1, <1>2, <1>3, <1>4, <1>7, <1>10, MainGoes, ProcsFacts DEF Apart, sumVars, sleepVars
<1> QED BY <1>8, <1>9, <1>11, <1>12 DEF Kept, RunInv

(***************************************************************************)
(* EXIT, and the steps of the parent while children work.                  *)
(***************************************************************************)
LEMMA ShmdtKept ==
    ASSUME TInv, NEW m \in Mains, Shmdt(m), UNCHANGED <<sumVars, sleepVars, kills, program>>
    PROVE  Kept(m)
<1>1. SemsOK /\ ShmsOK /\ PlainOK /\ RunInv(m) BY TypeParts DEF TInv
<1>2. /\ pc[m] = "shmdt" /\ Goto(m, "shmrm") /\ "shmrm" \in Locations
      /\ UNCHANGED <<sems, semOfKey, shmOfKey, semid, shmid, shm, loaded, shown,
                     sumVars, sleepVars, kills, program>>
    BY DEF Shmdt, Locations
<1>3. /\ ShmsOK' /\ retval' \in [Mains -> {0, 1}]
      /\ \A j \in Ids : shms'[j].status = shms[j].status
    <2>1. m \in Procs /\ retval \in [Mains -> {0, 1}]
          /\ shm[m] \in {"unset", "failed", "attached"}
        BY <1>1, ProcsFacts DEF PlainOK
    <2>2. CASE shm[m] = "attached"
        <3>1. Detach(m, shmid[m]) /\ UNCHANGED retval BY <2>2 DEF Shmdt
        <3> QED BY <1>1, <2>1, <3>1, AttachEffect
    <2>3. CASE shm[m] = "failed" BY <1>1, <2>1, <2>3 DEF Shmdt, ShmsOK
    <2>4. CASE shm[m] = "unset"
        <3>1. UNCHANGED shms /\ retval' \in {retval, [retval EXCEPT ![m] = 1]}
            BY <2>4 DEF Shmdt
        <3> QED BY <1>1, <2>1, <3>1 DEF ShmsOK
    <2> QED BY <2>1, <2>2, <2>3, <2>4
<1>4. TypeOK'
    <2>1. PlainOK'
        BY <1>1, <1>2, <1>3, MainGoes DEF PlainOK, sumVars, sleepVars, SumTypeOK, SleepTypeOK
    <2> QED BY <1>1, <1>2, <1>3, <2>1, TypeParts DEF SemsOK
<1>5. Mapped(m)' /\ Young(m)' /\ Loops(m)'
    BY <1>1, <1>2, MainGoes
    DEF RunInv, Mapped, Young, Loops, AtWork, SettingUp, sumVars, sleepVars, Summing
<1>6. SameUse BY <1>2, <1>3 DEF SameUse
<1> QED BY <1>2, <1>4, <1>5, <1>6, MainMoves DEF sumVars, sleepVars, EarlySem, EarlyShm

LEMMA ShmrmKept ==
    ASSUME TInv, NEW m \in Mains, Shmrm(m), UNCHANGED <<sumVars, sleepVars, kills, program>>
    PROVE  Kept(m)
<1>1. SemsOK /\ ShmsOK /\ PlainOK /\ RunInv(m) BY TypeParts DEF TInv
<1>2. /\ pc[m] = "shmrm" /\ Goto(m, "semrm") /\ "semrm" \in Locations
      /\ UNCHANGED <<sems, semOfKey, semid, shmid, shm, loaded, shown,
                     sumVars, sleepVars, kills, program>>
    BY DEF Shmrm, Locations
<1>3. /\ ShmsOK' /\ retval' \in [Mains -> {0, 1}] /\ shmOfKey' \in Ids \cup {NoId}
      /\ \A j \in Ids : shms'[j].status = "unused" <=> shms[j].status = "unused"
    <2>1. retval \in [Mains -> {0, 1}] /\ shmOfKey \in Ids \cup {NoId} BY <1>1 DEF PlainOK
    <2>2. CASE shm_remove(shmid[m]) /\ UNCHANGED retval
        <3>1. /\ ShmsOK' /\ shmid[m] \in Live(shms) /\ shmOfKey' \in {shmOfKey, NoId}
              /\ \A j \in Ids : shms'[j].status = IF j = shmid[m] THEN "removed" ELSE shms[j].status
            BY <1>1, <2>2, ShmRemoveEffect
        <3> QED BY <2>1, <2>2, <3>1 DEF Live
    <2>3. CASE UNCHANGED <<shms, shmOfKey>> /\ retval' \in {retval, [retval EXCEPT ![m] = 1]}
        BY <1>1, <2>1, <2>3 DEF ShmsOK
    <2> QED BY <2>2, <2>3 DEF Shmrm
<1>4. TypeOK'
    <2>1. PlainOK'
        BY <1>1, <1>2, <1>3, MainGoes DEF PlainOK, sumVars, sleepVars, SumTypeOK, SleepTypeOK
    <2> QED BY <1>1, <1>2, <1>3, <2>1, TypeParts DEF SemsOK
<1>5. Mapped(m)' /\ Young(m)' /\ Loops(m)'
    BY <1>1, <1>2, MainGoes
    DEF RunInv, Mapped, Young, Loops, AtWork, SettingUp, sumVars, sleepVars, Summing
<1>6. SameUse BY <1>2, <1>3 DEF SameUse
<1> QED BY <1>2, <1>4, <1>5, <1>6, MainMoves DEF sumVars, sleepVars, EarlySem, EarlyShm

LEMMA SemrmKept ==
    ASSUME TInv, NEW m \in Mains, Semrm(m), UNCHANGED <<sumVars, sleepVars, kills, program>>
    PROVE  Kept(m)
<1>1. SemsOK /\ ShmsOK /\ PlainOK /\ RunInv(m) BY TypeParts DEF TInv
<1>2. /\ pc[m] = "semrm" /\ Goto(m, "returned") /\ "returned" \in Locations
      /\ UNCHANGED <<shms, shmOfKey, semid, shmid, shm, loaded, shown,
                     sumVars, sleepVars, kills, program>>
    BY DEF Semrm, Locations
<1>3. /\ SemsOK' /\ retval' \in [Mains -> {0, 1}] /\ semOfKey' \in Ids \cup {NoId}
      /\ \A j \in Ids : sems'[j].status = "unused" <=> sems[j].status = "unused"
    <2>1. retval \in [Mains -> {0, 1}] /\ semOfKey \in Ids \cup {NoId} BY <1>1 DEF PlainOK
    <2>2. CASE del_sem_value(semid[m]) /\ UNCHANGED retval
        <3>1. /\ SemsOK' /\ semid[m] \in Live(sems) /\ semOfKey' \in {semOfKey, NoId}
              /\ \A j \in Ids : sems'[j].status = IF j = semid[m] THEN "removed" ELSE sems[j].status
            BY <1>1, <2>2, DeleteEffect
        <3> QED BY <2>1, <2>2, <3>1 DEF Live
    <2>3. CASE UNCHANGED <<sems, semOfKey>> /\ retval' \in {retval, [retval EXCEPT ![m] = 1]}
        BY <1>1, <2>1, <2>3 DEF SemsOK
    <2> QED BY <2>2, <2>3 DEF Semrm
<1>4. TypeOK'
    <2>1. PlainOK'
        BY <1>1, <1>2, <1>3, MainGoes DEF PlainOK, sumVars, sleepVars, SumTypeOK, SleepTypeOK
    <2> QED BY <1>1, <1>2, <1>3, <2>1, TypeParts DEF ShmsOK
<1>5. Mapped(m)' /\ Young(m)' /\ Loops(m)'
    BY <1>1, <1>2, MainGoes
    DEF RunInv, Mapped, Young, Loops, AtWork, SettingUp, sumVars, sleepVars, Summing
<1>6. SameUse BY <1>2, <1>3 DEF SameUse
<1> QED BY <1>2, <1>4, <1>5, <1>6, MainMoves DEF sumVars, sleepVars, EarlySem, EarlyShm

LEMMA ReportKept ==
    ASSUME TInv, NEW m \in Mains, Report(m), UNCHANGED <<sumVars, sleepVars, kills, program>>
    PROVE  Kept(m)
<1>1. SemsOK /\ ShmsOK /\ PlainOK /\ RunInv(m) BY TypeParts DEF TInv
<1>2. /\ pc[m] = "wait" /\ Goto(m, "shmdt") /\ "shmdt" \in Locations
      /\ UNCHANGED <<ipcVars, semid, shmid, shm, retval, loaded, sumVars, sleepVars, kills, program>>
      /\ shown' = [shown EXCEPT ![m] = <<shms[shmid[m]].word>>]
    BY DEF Report, Locations
<1>3. shown' \in [Mains -> Seq(Int)]
    <2>1. shmid[m] \in Ids BY <1>1, <1>2 DEF RunInv, Mapped, AtWork
    <2>2. shms[shmid[m]].word \in Int BY <1>1, <2>1 DEF ShmsOK, ShmRec
    <2> QED BY <1>1, <1>2, <2>2 DEF PlainOK
<1>4. TypeOK'
    <2>1. PlainOK'
        BY <1>1, <1>2, <1>3, MainGoes
        DEF PlainOK, ipcVars, sumVars, sleepVars, SumTypeOK, SleepTypeOK
    <2> QED BY <1>1, <1>2, <2>1, TypeParts DEF SemsOK, ShmsOK, ipcVars
<1>5. Mapped(m)' /\ Young(m)' /\ Loops(m)'
    BY <1>1, <1>2, MainGoes
    DEF RunInv, Mapped, Young, Loops, AtWork, SettingUp, sumVars, sleepVars, Summing
<1>6. SameUse BY <1>2 DEF SameUse, ipcVars
<1> QED BY <1>2, <1>4, <1>5, <1>6, MainMoves DEF sumVars, sleepVars, EarlySem, EarlyShm

LEMMA ReapKept ==
    ASSUME TInv, NEW m \in Mains, Reap(m), UNCHANGED <<sumVars, sleepVars, kills, program>>
    PROVE  Kept(m)
<1>1. SemsOK /\ ShmsOK /\ PlainOK BY TypeParts DEF TInv
<1>2. PICK c \in ChildrenOf(m) : pc[c] = "zombie" /\ Goto(c, "reaped") BY DEF Reap
<1>3. UNCHANGED <<ipcVars, runVars, loaded>> BY DEF Reap
<1>4. c \in Procs /\ "reaped" \in Locations BY ProcsFacts DEF Locations
<1>5. TypeOK'
    <2>1. PlainOK'
        BY <1>1, <1>2, <1>3, <1>4, GotoEffect
        DEF PlainOK, ipcVars, runVars, sumVars, sleepVars, SumTypeOK, SleepTypeOK
    <2> QED BY <1>1, <1>3, <2>1, TypeParts DEF SemsOK, ShmsOK, ipcVars
<1>6. SameUse BY <1>3 DEF SameUse, ipcVars
<1> QED BY <1>2, <1>3, <1>4, <1>5, <1>6, ChildMoves DEF runVars, sumVars, sleepVars

LEMMA ForkAdderKept ==
    ASSUME TInv, NEW m \in Mains, Summing(m), ForkAdder(m), UNCHANGED <<sleepVars, kills, program>>
    PROVE  Kept(m)
<1>1. SemsOK /\ ShmsOK /\ PlainOK /\ RunInv(m) BY TypeParts DEF TInv
<1>2. /\ pc[m] = "fork"
      /\ UNCHANGED <<sems, semOfKey, shmOfKey, semid, shmid, shm, loaded, shown, stored,
                     sleepVars, kills, program>>
    BY DEF ForkAdder
<1>3. num_started[m] \in {0, 1} /\ shmid[m] \in Ids
    <2>1. num_started[m] \in 0 .. 2 BY <1>1 DEF PlainOK, SumTypeOK
    <2> QED BY <1>1, <1>2, <2>1 DEF RunInv, Loops, Mapped, AtWork
<1> DEFINE c == <<m, num_started[m] + 1>>
           where == IF num_started[m] = 1 THEN "wait" ELSE "fork"
<1>4. c \in ChildrenOf(m) /\ c \in Procs /\ m \in Procs /\ c # m
    <2>1. num_started[m] + 1 \in {1, 2} BY <1>3
    <2> QED BY <2>1, NumbersFacts, ProcsFacts
<1>5. CASE /\ pc' = [pc EXCEPT ![c] = "P", ![m] = where]
           /\ num_started' = [num_started EXCEPT ![m] = @ + 1]
           /\ Attach(c, shmid[m])
           /\ UNCHANGED retval
    <2>1. /\ pc' \in [Procs -> Locations] /\ pc'[m] = where /\ pc'[c] = "P"
          /\ \A q \in Procs : q # m /\ q # c => pc'[q] = pc[q]
        <3>1. where \in Locations /\ "P" \in Locations BY DEF Locations
        <3>2. pc \in [Procs -> Locations] BY <1>1 DEF PlainOK
        <3> HIDE DEF c, where
        <3> QED BY <1>4, <1>5, <3>1, <3>2
    <2>2. num_started' \in [Mains -> 0 .. 2] /\ num_started'[m] = num_started[m] + 1
          /\ \A n \in Mains \ {m} : num_started'[n] = num_started[n]
        BY <1>1, <1>3, <1>5 DEF PlainOK, SumTypeOK
    <2>3. ShmsOK' /\ \A j \in Ids : shms'[j].status = shms[j].status
        BY <1>1, <1>4, <1>5, AttachEffect
    <2> HIDE DEF c
    <2>4. TypeOK'
        <3>1. PlainOK'
            BY <1>1, <1>2, <1>5, <2>1, <2>2 DEF PlainOK, sleepVars, SumTypeOK, SleepTypeOK
        <3> QED BY <1>1, <1>2, <2>3, <3>1, TypeParts DEF SemsOK
    <2>5. Apart(m)
        <3>1. \A n \in Mains \ {m} : n \in Procs /\ n # c /\ \A d \in ChildrenOf(n) : d \in Procs /\ d # c /\ d # m
            BY <1>4, ProcsFacts
        <3> QED BY <1>2, <2>1, <2>2, <3>1 DEF Apart, sleepVars
    <2>6. RunInv(m)'
        BY <1>1, <1>2, <1>3, <2>1, <2>2
        DEF RunInv, Mapped, Young, Loops, AtWork, SettingUp, sleepVars, Summing
    <2>7. Budget'
        <3>1. SameUse BY <1>2, <2>3 DEF SameUse
        <3>2. Past(EarlySem) \subseteq Past(EarlySem)' /\ Past(EarlyShm) \subseteq Past(EarlyShm)'
            BY <1>4, <2>1, ProcsFacts DEF Past, EarlySem, EarlyShm
        <3> QED BY <3>1, <3>2, BudgetKept DEF TInv
    <2> QED BY <2>4, <2>5, <2>6, <2>7 DEF Kept
<1>6. CASE Fails(m, "shmdt") /\ UNCHANGED <<num_started, shms>>
    <2>1. Goto(m, "shmdt") /\ "shmdt" \in Locations BY <1>6 DEF Fails, Locations
    <2>2. TypeOK'
        <3>1. PlainOK'
            BY <1>1, <1>2, <1>6, <2>1, MainGoes DEF Fails, PlainOK, sleepVars, SumTypeOK, SleepTypeOK
        <3> QED BY <1>1, <1>2, <1>6, <3>1, TypeParts DEF SemsOK, ShmsOK
    <2>3. Mapped(m)' /\ Young(m)' /\ Loops(m)'
        BY <1>1, <1>2, <1>3, <1>6, <2>1, MainGoes
        DEF RunInv, Mapped, Young, Loops, AtWork, SettingUp, sleepVars, Summing
    <2>4. SameUse BY <1>2, <1>6 DEF SameUse
    <2> QED BY <1>2, <1>6, <2>1, <2>2, <2>3, <2>4, MainMoves DEF sleepVars, EarlySem, EarlyShm
<1> QED BY <1>5, <1>6 DEF ForkAdder

LEMMA ForkSleeperKept ==
    ASSUME TInv, NEW m \in Mains, ~ Summing(m), ForkSleeper(m), UNCHANGED <<sumVars, kills, program>>
    PROVE  Kept(m)
<1>1. SemsOK /\ ShmsOK /\ PlainOK /\ RunInv(m) BY TypeParts DEF TInv
<1>2. /\ pc[m] = "fork" /\ i' = [i EXCEPT ![m] = @ + 1]
      /\ UNCHANGED <<sems, semOfKey, shmOfKey, runVars, loaded, up, down, sumVars, kills, program>>
    BY DEF ForkSleeper
<1>3. i[m] \in Numbers /\ i[m] \in Int /\ i[m] >= 1 /\ i[m] <= Cardinality(Numbers) /\ shmid[m] \in Ids
    <2>1. i[m] \in 1 .. Cardinality(Numbers) + 1 BY <1>1 DEF PlainOK, SleepTypeOK
    <2>2. i[m] <= Cardinality(Numbers) /\ shmid[m] \in Ids
        BY <1>1, <1>2 DEF RunInv, Loops, Mapped, AtWork
    <2> QED BY <2>1, <2>2, NumbersFacts
<1> DEFINE c == <<m, i[m]>>
<1>4. c \in ChildrenOf(m) /\ c \in Procs /\ m \in Procs /\ c # m BY <1>3, ProcsFacts
<1>5. i' \in [Mains -> 1 .. Cardinality(Numbers) + 1] /\ i'[m] = i[m] + 1
      /\ \A n \in Mains \ {m} : i'[n] = i[n]
    BY <1>1, <1>2, <1>3, NumbersFacts DEF PlainOK, SleepTypeOK
<1>6. \E where \in {"P", "fork", "wait"} :
         /\ pc' \in [Procs -> Locations] /\ pc'[m] = where
         /\ \A q \in Procs : q # m /\ q # c => pc'[q] = pc[q]
         /\ where = "fork" => i[m] < Cardinality(Numbers)
         /\ ShmsOK' /\ \A j \in Ids : shms'[j].status = shms[j].status
    <2> HIDE DEF c
    <2>1. pc \in [Procs -> Locations] BY <1>1 DEF PlainOK
    <2>2. CASE pc' = [pc EXCEPT ![c] = "start", ![m] = "P"] /\ Attach(c, shmid[m])
        <3>1. "P" \in Locations /\ "start" \in Locations BY DEF Locations
        <3>2. ShmsOK' /\ \A j \in Ids : shms'[j].status = shms[j].status
            BY <1>1, <1>4, <2>2, AttachEffect
        <3>3. /\ pc' \in [Procs -> Locations] /\ pc'[m] = "P"
              /\ \A q \in Procs : q # m /\ q # c => pc'[q] = pc[q]
            BY <1>4, <2>1, <2>2, <3>1
        <3> QED BY <3>2, <3>3
    <2>3. CASE Goto(m, AfterFork(i[m])) /\ UNCHANGED shms
        <3>1. AfterFork(i[m]) \in {"fork", "wait"} /\ AfterFork(i[m]) \in Locations
              /\ (AfterFork(i[m]) = "fork" => i[m] < Cardinality(Numbers))
            BY <1>3, NumbersFacts DEF AfterFork, Locations
        <3>2. pc' \in [Procs -> Locations] /\ pc'[m] = AfterFork(i[m])
              /\ \A q \in Procs : q # m => pc'[q] = pc[q]
            BY <1>1, <2>3, <3>1, MainGoes
        <3> QED BY <1>1, <2>3, <3>1, <3>2 DEF ShmsOK
    <2> QED BY <2>2, <2>3 DEF ForkSleeper, c
<1> HIDE DEF c
<1>7. TypeOK'
    <2>1. PlainOK'
        BY <1>1, <1>2, <1>5, <1>6 DEF PlainOK, runVars, sumVars, SumTypeOK, SleepTypeOK
    <2> QED BY <1>1, <1>2, <1>6, <2>1, TypeParts DEF SemsOK
<1>8. Apart(m)
    <2>1. \A n \in Mains \ {m} : n \in Procs /\ n # c /\ \A d \in ChildrenOf(n) : d \in Procs /\ d # c /\ d # m
        BY <1>4, ProcsFacts
    <2> QED BY <1>2, <1>5, <1>6, <2>1 DEF Apart, sumVars, runVars
<1>9. RunInv(m)'
    BY <1>1, <1>2, <1>3, <1>5, <1>6, NumbersFacts
    DEF RunInv, Mapped, Young, Loops, AtWork, SettingUp, sumVars, runVars, Summing
<1>10. Budget'
    <2>1. SameUse BY <1>2, <1>6 DEF SameUse
    <2>2. Past(EarlySem) \subseteq Past(EarlySem)' /\ Past(EarlyShm) \subseteq Past(EarlyShm)'
        BY <1>4, <1>6, ProcsFacts DEF Past, EarlySem, EarlyShm
    <2> QED BY <2>1, <2>2, BudgetKept DEF TInv
<1> QED BY <1>7, <1>8, <1>9, <1>10 DEF Kept

(***************************************************************************)
(* What parent and children have in common.                                *)
(***************************************************************************)
Inner == {"P", "load", "store", "V"}
After(m, p, where) ==
    \/ where \in {"load", "store", "V"}
    \/ p = m /\ where = AfterFork(i[m] - 1)
    \/ p # m /\ where = "exit"

\* A process between the P and the V goes on, to `where'.
LEMMA InnerMoves ==
    ASSUME TInv, NEW m \in Mains, NEW p \in {m} \cup ChildrenOf(m), NEW where \in Locations,
           pc[p] \in Inner, Goto(p, where), After(m, p, where), SameUse, TypeOK',
           UNCHANGED <<shmid, shm, num_started, i, program>>
    PROVE  Kept(m)
<1>1. PlainOK /\ RunInv(m) BY TypeParts DEF TInv
<1>2. CASE p = m
    <2>1. where \in {"load", "store", "V", "fork", "wait"} /\ (where = "fork" => i[m] <= Cardinality(Numbers))
        <3>1. i[m] \in Int BY <1>1 DEF PlainOK, SleepTypeOK
        <3> QED BY <1>2, <3>1, NumbersFacts DEF AfterFork, After
    <2>2. Mapped(m)' /\ Young(m)' /\ Loops(m)'
        BY <1>1, <1>2, <2>1, MainGoes
        DEF RunInv, Mapped, Young, Loops, AtWork, SettingUp, Summing, Inner
    <2>3. where \notin EarlySem /\ where \notin EarlyShm BY <2>1 DEF EarlySem, EarlyShm
    <2> QED BY <1>2, <2>2, <2>3, MainMoves
<1>3. CASE p # m
    <2>1. where # "unborn" /\ pc[p] # "unborn" BY <1>3 DEF Inner, After
    <2> QED BY <1>3, <2>1, ChildMoves
<1> QED BY <1>2, <1>3

LEMMA DownKept ==
    ASSUME TInv, NEW m \in Mains, NEW p \in {m} \cup ChildrenOf(m), Down(p),
           UNCHANGED <<sumVars, sleepVars, kills, program>>
    PROVE  Kept(m)
<1>1. SemsOK /\ ShmsOK /\ PlainOK BY TypeParts DEF TInv
<1>2. p \in Procs /\ Run(p) = m /\ "load" \in Locations BY ProcsFacts DEF Locations
<1>3. /\ pc[p] = "P" /\ P(p, semid[m]) /\ Goto(p, "load")
      /\ UNCHANGED <<shms, shmOfKey, runVars, loaded, sumVars, sleepVars, kills, program>>
    BY <1>2 DEF Down
<1>4. SemsOK' /\ semOfKey' = semOfKey /\ \A j \in Ids : sems'[j].status = sems[j].status
    BY <1>1, <1>2, <1>3, PEffect
<1>5. TypeOK'
    <2>1. PlainOK'
        BY <1>1, <1>2, <1>3, <1>4, GotoEffect
        DEF PlainOK, runVars, sumVars, sleepVars, SumTypeOK, SleepTypeOK
    <2> QED BY <1>1, <1>3, <1>4, <2>1, TypeParts DEF ShmsOK
<1>6. SameUse BY <1>3, <1>4 DEF SameUse
<1>7. pc[p] \in Inner /\ After(m, p, "load") /\ UNCHANGED <<shmid, shm, num_started, i, program>>
    BY <1>3 DEF Inner, After, runVars, sumVars, sleepVars
<1> QED BY <1>2, <1>3, <1>5, <1>6, <1>7, InnerMoves

LEMMA UpKept ==
    ASSUME TInv, NEW m \in Mains, NEW p \in {m} \cup ChildrenOf(m), NEW where, Up(p, where),
           After(m, p, where), UNCHANGED <<sumVars, sleepVars, kills, program>>
    PROVE  Kept(m)
<1>1. SemsOK /\ ShmsOK /\ PlainOK BY TypeParts DEF TInv
<1>2. p \in Procs /\ Run(p) = m /\ where \in Locations
    BY ProcsFacts DEF Locations, AfterFork, After
<1>3. /\ pc[p] = "V" /\ V(p, semid[m]) /\ Goto(p, where)
      /\ UNCHANGED <<shms, shmOfKey, runVars, loaded, sumVars, sleepVars, kills, program>>
    BY <1>2 DEF Up
<1>4. SemsOK' /\ semOfKey' = semOfKey /\ \A j \in Ids : sems'[j].status = sems[j].status
    BY <1>1, <1>2, <1>3, VEffect
<1>5. TypeOK'
    <2>1. PlainOK'
        BY <1>1, <1>2, <1>3, <1>4, GotoEffect
        DEF PlainOK, runVars, sumVars, sleepVars, SumTypeOK, SleepTypeOK
    <2> QED BY <1>1, <1>3, <1>4, <2>1, TypeParts DEF ShmsOK
<1>6. SameUse BY <1>3, <1>4 DEF SameUse
<1> QED BY <1>2, <1>3, <1>5, <1>6, InnerMoves DEF runVars, sumVars, sleepVars, Inner

LEMMA LoadKept ==
    ASSUME TInv, NEW m \in Mains, NEW p \in {m} \cup ChildrenOf(m), Load(p),
           UNCHANGED <<sumVars, sleepVars, kills, program>>
    PROVE  Kept(m)
<1>1. SemsOK /\ ShmsOK /\ PlainOK /\ RunInv(m) BY TypeParts DEF TInv
<1>2. p \in Procs /\ Run(p) = m /\ "store" \in Locations BY ProcsFacts DEF Locations
<1>3. /\ pc[p] = "load" /\ loaded' = [loaded EXCEPT ![p] = shms[shmid[m]].word] /\ Goto(p, "store")
      /\ UNCHANGED <<ipcVars, runVars, sumVars, sleepVars, kills, program>>
    BY <1>2 DEF Load
<1>4. shmid[m] \in Ids
    <2>1. p # m => ~ Unborn(m) BY <1>3 DEF Unborn
    <2> QED BY <1>1, <1>3, <2>1 DEF RunInv, Mapped, AtWork
<1>5. shms[shmid[m]].word \in Int BY <1>1, <1>4 DEF ShmsOK, ShmRec
<1>6. TypeOK'
    <2>1. loaded' \in [Procs -> Int] BY <1>1, <1>2, <1>3, <1>5 DEF PlainOK
    <2>2. PlainOK'
        BY <1>1, <1>2, <1>3, <2>1, GotoEffect
        DEF PlainOK, ipcVars, runVars, sumVars, sleepVars, SumTypeOK, SleepTypeOK
    <2> QED BY <1>1, <1>3, <2>2, TypeParts DEF SemsOK, ShmsOK, ipcVars
<1>7. SameUse BY <1>3 DEF SameUse, ipcVars
<1>8. pc[p] \in Inner /\ After(m, p, "store") /\ UNCHANGED <<shmid, shm, num_started, i, program>>
    BY <1>3 DEF Inner, After, runVars, sumVars, sleepVars
<1> QED BY <1>2, <1>3, <1>6, <1>7, <1>8, InnerMoves

LEMMA StoreKept ==
    ASSUME TInv, NEW m \in Mains, NEW p \in {m} \cup ChildrenOf(m), NEW change \in Int,
           StoreSum(p, change), SumTypeOK', SleepTypeOK', UNCHANGED <<num_started, i, kills, program>>
    PROVE  Kept(m)
<1>1. SemsOK /\ ShmsOK /\ PlainOK BY TypeParts DEF TInv
<1>2. p \in Procs /\ Run(p) = m /\ "V" \in Locations BY ProcsFacts DEF Locations
<1>3. /\ pc[p] = "store" /\ Write(shmid[m], loaded[p] + change) /\ Goto(p, "V")
      /\ UNCHANGED <<sems, semOfKey, shmOfKey, runVars, loaded>>
    BY <1>2 DEF StoreSum
<1>4. loaded[p] + change \in Int BY <1>1, <1>2 DEF PlainOK
<1>5. ShmsOK' /\ \A j \in Ids : shms'[j].status = shms[j].status
    BY <1>1, <1>3, <1>4, WriteEffect
<1>6. TypeOK'
    <2>1. PlainOK' BY <1>1, <1>2, <1>3, GotoEffect DEF PlainOK, runVars
    <2> QED BY <1>1, <1>3, <1>5, <2>1, TypeParts DEF SemsOK
<1>7. SameUse BY <1>3, <1>5 DEF SameUse
<1>8. pc[p] \in Inner /\ After(m, p, "V") /\ UNCHANGED <<shmid, shm, num_started, i, program>>
    BY <1>3 DEF Inner, After, runVars
<1> QED BY <1>2, <1>3, <1>6, <1>7, <1>8, InnerMoves

(***************************************************************************)
(* A child starts and ends; a process is killed.                           *)
(***************************************************************************)
LEMMA SleepKept ==
    ASSUME TInv, NEW m \in Mains, NEW c \in ChildrenOf(m), Sleep(c),
           UNCHANGED <<sumVars, sleepVars, kills, program>>
    PROVE  Kept(m)
<1>1. SemsOK /\ ShmsOK /\ PlainOK BY TypeParts DEF TInv
<1>2. /\ pc[c] = "start" /\ Goto(c, "P") /\ UNCHANGED <<ipcVars, runVars, loaded>>
      /\ c \in Procs /\ "P" \in Locations
    BY ProcsFacts DEF Sleep, Locations
<1>3. TypeOK'
    <2>1. PlainOK'
        BY <1>1, <1>2, GotoEffect
        DEF PlainOK, ipcVars, runVars, sumVars, sleepVars, SumTypeOK, SleepTypeOK
    <2> QED BY <1>1, <1>2, <2>1, TypeParts DEF SemsOK, ShmsOK, ipcVars
<1>4. SameUse BY <1>2 DEF SameUse, ipcVars
<1> QED BY <1>2, <1>3, <1>4, ChildMoves DEF runVars, sumVars, sleepVars

LEMMA ExitKept ==
    ASSUME TInv, NEW m \in Mains, NEW c \in ChildrenOf(m), Exits(c), Goto(c, "zombie"),
           pc[c] # "unborn", kills' \in 0 .. MaxKills,
           UNCHANGED <<runVars, loaded, sumVars, sleepVars, program>>
    PROVE  Kept(m)
<1>1. SemsOK /\ ShmsOK /\ PlainOK BY TypeParts DEF TInv
<1>2. c \in Procs /\ "zombie" \in Locations BY ProcsFacts DEF Locations
<1>3. /\ SemsOK' /\ ShmsOK' /\ UNCHANGED <<semOfKey, shmOfKey>> /\ SameUse
    BY <1>1, <1>2, ExitsEffect DEF SameUse
<1>4. TypeOK'
    <2>1. PlainOK'
        BY <1>1, <1>2, <1>3, GotoEffect
        DEF PlainOK, runVars, sumVars, sleepVars, SumTypeOK, SleepTypeOK
    <2> QED BY <1>1, <1>3, <2>1, TypeParts
<1> QED BY <1>2, <1>3, <1>4, ChildMoves DEF runVars, sumVars, sleepVars

LEMMA KillKept ==
    ASSUME TInv, NEW p \in Procs, Kill(p), UNCHANGED <<sumVars, sleepVars, program>>
    PROVE  Kept(Run(p))
<1>1. SemsOK /\ ShmsOK /\ PlainOK /\ RunInv(Run(p)) BY TypeParts, ProcsFacts DEF TInv
<1>2. /\ pc[p] \notin Gone /\ kills' \in 0 .. MaxKills /\ Exits(p)
      /\ UNCHANGED <<runVars, loaded, sumVars, sleepVars, program>>
    BY <1>1, IpcRunAssumption DEF Kill, PlainOK
<1>3. CASE p \in Mains
    <2>1. Run(p) = p /\ Goto(p, "killed") /\ "killed" \in Locations
        BY <1>3, ProcsFacts DEF Kill, Locations
    <2>2. /\ SemsOK' /\ ShmsOK' /\ UNCHANGED <<semOfKey, shmOfKey>> /\ SameUse
        BY <1>1, <1>2, ExitsEffect DEF SameUse
    <2>3. TypeOK'
        <3>1. PlainOK'
            BY <1>1, <1>2, <2>1, <2>2, GotoEffect
            DEF PlainOK, runVars, sumVars, sleepVars, SumTypeOK, SleepTypeOK
        <3> QED BY <1>1, <2>2, <3>1, TypeParts
    <2>4. Mapped(p)' /\ Young(p)' /\ Loops(p)'
        BY <1>1, <1>2, <1>3, <2>1, MainGoes
        DEF RunInv, Mapped, Young, Loops, AtWork, SettingUp, runVars, sumVars, sleepVars, Summing
    <2> QED BY <1>2, <1>3, <2>1, <2>2, <2>3, <2>4, MainMoves
            DEF runVars, sumVars, sleepVars, EarlySem, EarlyShm
<1>4. CASE p \notin Mains
    <2>1. Goto(p, "zombie") /\ pc[p] # "unborn" BY <1>2, <1>4 DEF Kill, Gone
    <2>2. Run(p) \in Mains /\ p \in ChildrenOf(Run(p)) BY <1>4, ProcsFacts
    <2> QED BY <1>2, <2>1, <2>2, ExitKept
<1> QED BY <1>3, <1>4

LEMMA MainKept ==
    ASSUME TInv, NEW m \in Mains, MainSteps(m)
    PROVE  Kept(m)
<1>1. {"shmdt", "returned"} \subseteq Leaving BY DEF Leaving
<1>2. ASSUME NEW onError \in {"shmdt", "returned"}, UNCHANGED <<sumVars, sleepVars, kills, program>>,
             SetUp(m, onError) \/ Reap(m) \/ Report(m) \/ CleanUp(m)
      PROVE  Kept(m)
    BY <1>1, <1>2, FtokKept, SemgetKept, SetvalKept, ShmgetKept, ShmatKept, ZeroKept, ReapKept,
       ReportKept, ShmdtKept, ShmrmKept, SemrmKept DEF SetUp, CleanUp
<1>3. CASE program[m] = "mpsumarray" /\ SumMain(m) /\ UNCHANGED sleepVars
    <2>1. UNCHANGED <<kills, program>> BY DEF MainSteps
    <2>2. CASE ForkAdder(m) BY <1>3, <2>1, <2>2, ForkAdderKept DEF Summing
    <2>3. CASE (SetUp(m, "shmdt") \/ Reap(m) \/ Report(m) \/ CleanUp(m)) /\ UNCHANGED sumVars
        BY <1>2, <1>3, <2>1, <2>3
    <2> QED BY <1>3, <2>2, <2>3 DEF SumMain
<1>4. CASE program[m] = "sleepingprocesses" /\ SleepMain(m) /\ UNCHANGED sumVars
    <2>1. UNCHANGED <<kills, program>> BY DEF MainSteps
    <2>2. CASE ForkSleeper(m) BY <1>4, <2>1, <2>2, ForkSleeperKept DEF Summing
    <2>3. CASE CountUp(m)
        <3>1. PlainOK /\ RunInv(m) /\ pc[m] = "store" BY <2>3, TypeParts DEF TInv, CountUp, StoreSum
        <3>2. Latest(m) \in Children
            <4>1. i[m] \in 1 .. Cardinality(Numbers) + 1 /\ i[m] >= 2
                BY <3>1 DEF PlainOK, SleepTypeOK, RunInv, Loops
            <4>2. i[m] - 1 \in Numbers BY <4>1, NumbersFacts
            <4> QED BY <4>2 DEF Latest, Children
        <3>3. SumTypeOK' /\ SleepTypeOK'
            BY <1>4, <2>3, <3>1, <3>2 DEF PlainOK, SumTypeOK, SleepTypeOK, CountUp, sumVars
        <3>4. StoreSum(m, 1) /\ UNCHANGED <<num_started, i, kills, program>> /\ 1 \in Int
            BY <1>4, <2>1, <2>3 DEF CountUp, sumVars
        <3> QED BY <3>3, <3>4, StoreKept
    <2>4. CASE /\ \/ SetUp(m, "returned") \/ Reap(m) \/ Report(m) \/ CleanUp(m)
                  \/ Down(m) \/ Load(m) \/ Up(m, AfterFork(i[m] - 1))
               /\ UNCHANGED sleepVars
        <3>1. CASE SetUp(m, "returned") \/ Reap(m) \/ Report(m) \/ CleanUp(m)
            BY <1>2, <1>4, <2>1, <2>4, <3>1
        <3>2. m \in {m} \cup ChildrenOf(m) OBVIOUS
        <3>3. CASE Down(m) BY <1>4, <2>1, <2>4, <3>2, <3>3, DownKept
        <3>4. CASE Load(m) BY <1>4, <2>1, <2>4, <3>2, <3>4, LoadKept
        <3>5. CASE Up(m, AfterFork(i[m] - 1))
            <4>1. After(m, m, AfterFork(i[m] - 1)) BY DEF After
            <4> QED BY <1>4, <2>1, <2>4, <3>2, <3>5, <4>1, UpKept
        <3> QED BY <2>4, <3>1, <3>3, <3>4, <3>5
    <2> QED BY <1>4, <2>2, <2>3, <2>4 DEF SleepMain
<1> QED BY <1>3, <1>4 DEF MainSteps

LEMMA ShareSum ==
    ASSUME NEW S PROVE SumOf(S) \in Nat
<1>1. num_values \in Nat /\ \A k \in 0 .. num_values - 1 : k \in S => Array[k] \in Nat
    BY SharedSumAssumption
<1> QED BY <1>1, SumType DEF SumOf

LEMMA ChildKept ==
    ASSUME TInv, NEW c \in Children, ChildSteps(c)
    PROVE  Kept(Parent(c))
<1>1. Parent(c) \in Mains /\ c \in ChildrenOf(Parent(c)) /\ c # Parent(c) BY ProcsFacts
<1>2. PlainOK BY TypeParts DEF TInv
<1>3. UNCHANGED <<kills, program>> /\ kills \in 0 .. MaxKills BY <1>2 DEF ChildSteps, PlainOK
<1>4. ASSUME Down(c) \/ Load(c) \/ Up(c, "exit") \/ Exit(c) \/ Sleep(c),
             UNCHANGED <<sumVars, sleepVars>>
      PROVE  Kept(Parent(c))
    <2>1. CASE Exit(c)
        <3>1. Exits(c) /\ Goto(c, "zombie") /\ pc[c] # "unborn" /\ UNCHANGED <<runVars, loaded>>
            BY <2>1 DEF Exit
        <3> QED BY <1>1, <1>3, <1>4, <3>1, ExitKept
    <2>2. CASE Down(c) BY <1>1, <1>3, <1>4, <2>2, DownKept
    <2>3. CASE Load(c) BY <1>1, <1>3, <1>4, <2>3, LoadKept
    <2>4. CASE Up(c, "exit")
        <3>1. After(Parent(c), c, "exit") BY <1>1 DEF After
        <3> QED BY <1>1, <1>3, <1>4, <2>4, <3>1, UpKept
    <2>5. CASE Sleep(c) BY <1>1, <1>3, <1>4, <2>5, SleepKept
    <2> QED BY <1>4, <2>1, <2>2, <2>3, <2>4, <2>5
<1>5. CASE Store(c) /\ UNCHANGED sleepVars
    <2>1. SumOf(Share(c)) \in Int BY ShareSum
    <2>2. SumTypeOK' /\ SleepTypeOK' BY <1>2, <1>5 DEF PlainOK, SumTypeOK, SleepTypeOK, Store, sleepVars
    <2>3. StoreSum(c, SumOf(Share(c))) /\ UNCHANGED <<num_started, i>> BY <1>5 DEF Store, sleepVars
    <2> QED BY <1>1, <1>3, <2>1, <2>2, <2>3, StoreKept
<1>6. CASE CountDown(c) /\ UNCHANGED sumVars
    <2>1. SumTypeOK' /\ SleepTypeOK' BY <1>2, <1>6 DEF PlainOK, SumTypeOK, SleepTypeOK, CountDown, sumVars
    <2>2. StoreSum(c, -1) /\ -1 \in Int /\ UNCHANGED <<num_started, i>> BY <1>6 DEF CountDown, sumVars
    <2> QED BY <1>1, <1>3, <2>1, <2>2, StoreKept
<1> QED BY <1>4, <1>5, <1>6 DEF ChildSteps, SumChild, SleepChild

LEMMA TInvInit == Init => TInv
<1> SUFFICES ASSUME Init PROVE TInv OBVIOUS
<1>1. 0 \in Ids BY SysvIpcAssumption DEF Ids
<1>2. NoUndo \in [Procs -> Int] BY DEF NoUndo
<1>3. SemsOK /\ ShmsOK
    BY <1>2 DEF Init, RunInit, IpcInit, SemsOK, ShmsOK, SemRec, ShmRec, Status
<1>4. PlainOK
    <2>1. kills \in 0 .. MaxKills BY IpcRunAssumption DEF Init, RunInit
    <2>2. pc \in [Procs -> Locations] BY DEF Init, RunInit, Locations
    <2>3. SumTypeOK /\ SleepTypeOK
        BY NumbersFacts DEF Init, SumInit, SleepInit, SumTypeOK, SleepTypeOK
    <2>4. loaded \in [Procs -> Int] /\ shown \in [Mains -> Seq(Int)] BY DEF Init, RunInit
    <2> QED BY <1>1, <2>1, <2>2, <2>3, <2>4 DEF Init, RunInit, IpcInit, PlainOK
<1>5. Budget
    <2>1. Used(sems) = {0} /\ Used(shms) = {0} BY <1>1 DEF Init, RunInit, IpcInit, Used
    <2>2. Cardinality({0}) = 1 BY FS_Singleton
    <2>3. Cardinality(Past(EarlySem)) \in Nat /\ Cardinality(Past(EarlyShm)) \in Nat
        <3>1. Past(EarlySem) \subseteq Mains /\ Past(EarlyShm) \subseteq Mains BY DEF Past
        <3> QED BY <3>1, PastFinite
    <2> QED BY <2>1, <2>2, <2>3 DEF Budget
<1>6. ASSUME NEW m \in Mains PROVE RunInv(m)
    <2>1. pc[m] = "ftok" /\ shm[m] = "unset" /\ num_started[m] = 0 /\ i[m] = 1 /\ Unborn(m)
        BY ProcsFacts DEF Init, RunInit, SumInit, SleepInit, Unborn
    <2> QED BY <2>1 DEF RunInv, Mapped, Young, Loops, AtWork
<1> QED BY <1>3, <1>4, <1>5, <1>6, TypeParts DEF TInv

LEMMA TInvNext == TInv /\ [Next]_vars => TInv'
<1> SUFFICES ASSUME TInv, [Next]_vars PROVE TInv' OBVIOUS
<1>1. ASSUME NEW m \in Mains, MainSteps(m) PROVE TInv' BY <1>1, MainKept, OthersKept
<1>2. ASSUME NEW c \in Children, ChildSteps(c) PROVE TInv'
    <2>1. Parent(c) \in Mains BY ProcsFacts
    <2> QED BY <1>2, <2>1, ChildKept, OthersKept
<1>3. ASSUME NEW p \in Procs, Kill(p), UNCHANGED <<sumVars, sleepVars, program>> PROVE TInv'
    <2>1. Run(p) \in Mains BY ProcsFacts
    <2> QED BY <1>3, <2>1, KillKept, OthersKept
<1>4. CASE UNCHANGED vars
    BY <1>4
    DEF vars, ipcVars, runVars, sumVars, sleepVars, TInv, TypeOK, RunTypeOK, SumTypeOK, SleepTypeOK,
        Budget, Used, Past, RunInv, Mapped, Young, Loops, Unborn, Summing
<1> QED BY <1>1, <1>2, <1>3, <1>4 DEF Next

LEMMA TInvariant == Spec => []TInv
BY TInvInit, TInvNext, PTL DEF Spec

\* The variables have their types, however many runs there are: no semaphore
\* goes below zero, whoever is killed (Exits undoes at most what was done to a
\* positive value), a process that changes the integer is attached to a
\* segment, and the identifiers do not run out.
THEOREM TypeCorrect == Spec => []TypeOK
<1>1. TInv => TypeOK BY DEF TInv
<1> QED BY <1>1, TInvariant, PTL

(***************************************************************************)
(* One run of a program that uses semaphore.c, with any number of          *)
(* children, elements and kills.  With two runs in one directory none of   *)
(* this holds: the second sets the semaphore of the first to 1 again.      *)
(***************************************************************************)
OneRun == \A m, n \in Mains : m = n

(***************************************************************************)
(* Mutual exclusion.  From the semaphore's first value on, as long as      *)
(* somebody may use it, it is 1 when nobody is between P and V, and a      *)
(* process that is has one to give back.  A parent cleans up with at most  *)
(* one child at work, which then meets nobody.                             *)
(***************************************************************************)
Holding == {"load", "store", "V"}
Over    == {"zombie", "reaped"}
Ready   == AtWork \cup {"shmget", "shmat", "zero"}

Active(m)   == {c \in ChildrenOf(m) : pc[c] \notin Over \cup {"unborn"}}
Guarding(m) == pc[m] \in Ready \/ (pc[m] # "returned" /\ Active(m) # {})

OneIn   == \A p, q \in Critical : p = q
Few(m)  == pc[m] \in Leaving => \A c, d \in Active(m) : c = d
Guard(m) ==
    Guarding(m) =>
        /\ semid[m] \in Live(sems)
        /\ sems[semid[m]].val = IF Critical = {} THEN 1 ELSE 0
        /\ \A p \in Procs : sems[semid[m]].adj[p] = IF p \in Critical THEN 1 ELSE 0

\* Which children were not forked yet.
Forked(m) ==
    \A c \in ChildrenOf(m) :
        IF Summing(m) THEN pc[c] = "unborn" <=> c[2] > num_started[m]
                      ELSE c[2] >= i[m] => pc[c] = "unborn"

ExclInv(m) == OneIn /\ Few(m) /\ Guard(m) /\ Forked(m)

LEMMA OneRunProcs ==
    ASSUME OneRun, NEW m \in Mains
    PROVE  /\ Mains = {m} /\ Children = ChildrenOf(m) /\ Procs = {m} \cup ChildrenOf(m)
           /\ m \notin ChildrenOf(m) /\ \A p \in Procs : Run(p) = m
BY ProcsFacts DEF OneRun, Procs, Children, ChildrenOf, Run, Parent

LEMMA CriticalMoves ==
    ASSUME PlainOK, NEW p \in Procs, NEW where \in Locations, Goto(p, where)
    PROVE  Critical' = IF where \in Holding THEN Critical \cup {p} ELSE Critical \ {p}
BY GotoEffect DEF Critical, Holding

\* A step that neither enters nor leaves, and does not touch the semaphore.
LEMMA StillExcl ==
    ASSUME OneRun, PlainOK, NEW m \in Mains, ExclInv(m),
           NEW p \in {m} \cup ChildrenOf(m), NEW where \in Locations, Goto(p, where),
           pc[p] \in Holding <=> where \in Holding,
           UNCHANGED <<sems, semid, num_started, program>>, i'[m] >= i[m],
           i[m] \in Int /\ i'[m] \in Int,
           p # m => pc[p] # "unborn" /\ where # "unborn" /\ (pc[p] \in Over => where \in Over),
           p = m => /\ where \in Leaving => pc[m] \in Leaving \/ \A c, d \in Active(m) : c = d
                    /\ where \in Ready => Guarding(m)
                    /\ pc[m] # "returned"
    PROVE  ExclInv(m)'
<1>1. p \in Procs /\ m \in Procs /\ m \notin ChildrenOf(m)
      /\ \A c \in ChildrenOf(m) : c \in Procs /\ c[2] \in Int
    BY OneRunProcs, NumbersFacts, IpcRunAssumption DEF ChildrenOf
<1>2. \A q \in Procs : pc'[q] = IF q = p THEN where ELSE pc[q] BY <1>1, GotoEffect
<1>3. Critical' = Critical
    BY <1>1, CriticalMoves DEF Critical, Holding
<1>4. Active(m)' \subseteq Active(m) BY <1>1, <1>2 DEF Active
<1>5. Guarding(m)' => Guarding(m) BY <1>1, <1>2, <1>4 DEF Guarding
<1>6. Few(m)'
    <2>1. CASE p = m BY <1>1, <1>2, <1>4, <2>1 DEF Few, ExclInv
    <2>2. CASE p # m BY <1>1, <1>2, <1>4, <2>2 DEF Few, ExclInv
    <2> QED BY <2>1, <2>2
<1>7. Guard(m)'
    <2>1. (Live(sems))' = Live(sems) BY DEF Live
    <2> QED BY <1>3, <1>5, <2>1 DEF Guard, ExclInv
<1>8. Forked(m)'
    <2>1. Summing(m)' <=> Summing(m) BY DEF Summing
    <2>2. \A c \in ChildrenOf(m) : pc'[c] = "unborn" <=> pc[c] = "unborn" BY <1>1, <1>2
    <2> QED BY <1>1, <2>1, <2>2 DEF Forked, ExclInv
<1>9. OneIn' BY <1>3 DEF OneIn, ExclInv
<1> QED BY <1>6, <1>7, <1>8, <1>9 DEF ExclInv

\* Before the first fork.
LEMMA Alone ==
    ASSUME OneRun, NEW m \in Mains, Unborn(m), pc[m] \notin Holding
    PROVE  Critical = {} /\ Active(m) = {}
BY OneRunProcs DEF Unborn, Critical, Holding, Active

LEMMA SetUpExcl ==
    ASSUME OneRun, TInv, NEW m \in Mains, ExclInv(m), SetUp(m, "shmdt") \/ SetUp(m, "returned"),
           UNCHANGED <<sumVars, sleepVars, program>>
    PROVE  ExclInv(m)'
<1>1. SemsOK /\ PlainOK /\ RunInv(m) BY TypeParts DEF TInv
<1>2. /\ pc[m] \in SettingUp /\ Unborn(m) /\ Critical = {} /\ Active(m) = {}
      /\ UNCHANGED <<num_started, i, program>>
    <2>1. pc[m] \in SettingUp
        BY DEF SetUp, Ftok, Semget, Setval, Shmget, Shmat, Zero, SettingUp
    <2> QED BY <1>1, <2>1, Alone DEF RunInv, Young, SettingUp, Holding, sumVars, sleepVars
<1>3. PICK where \in SettingUp \cup Leaving \cup {"fork"} : Goto(m, where)
    BY DEF SetUp, Ftok, Semget, Setval, Shmget, Shmat, Zero, Fails, SettingUp, Leaving
<1>4. where \in Locations BY DEF SettingUp, Leaving, Locations
<1>5. Unborn(m)' /\ Active(m)' = {} /\ Critical' = {} /\ pc'[m] = where
    <2>1. /\ Unborn(m)' /\ pc'[m] = where /\ \A c \in ChildrenOf(m) : pc'[c] = pc[c]
        BY <1>1, <1>2, <1>3, <1>4, MainGoes
    <2>2. Active(m)' = {} BY <1>2, <2>1 DEF Active
    <2>3. m \in Procs BY ProcsFacts
    <2>4. Critical' = {}
        BY <1>1, <1>2, <1>3, <1>4, <2>3, CriticalMoves DEF SettingUp, Leaving, Holding
    <2> QED BY <2>1, <2>2, <2>4
<1>6. OneIn' /\ Few(m)' BY <1>5 DEF OneIn, Few
<1>7. Forked(m)'
    <2>1. Summing(m)' <=> Summing(m) BY <1>2 DEF Summing
    <2>2. \A c \in ChildrenOf(m) : pc'[c] = pc[c] BY <1>2, <1>5 DEF Unborn
    <2>3. Forked(m) BY DEF ExclInv
    <2> QED BY <1>2, <2>1, <2>2, <2>3 DEF Forked
<1>8. Guard(m)'
    <2>1. CASE where \notin Ready BY <1>5, <2>1 DEF Guard, Guarding
    <2>2. CASE pc[m] \in Ready
        <3>1. UNCHANGED <<sems, semid>>
            BY <2>2 DEF SetUp, Ftok, Semget, Setval, Shmget, Shmat, Zero, Ready, AtWork, runVars
        <3>2. (Live(sems))' = Live(sems) BY <3>1 DEF Live
        <3>3. Guarding(m) BY <2>2 DEF Guarding
        <3> QED BY <1>2, <1>5, <3>1, <3>2, <3>3 DEF Guard, ExclInv
    <2>3. CASE pc[m] \notin Ready /\ where \in Ready
        <3>1. set_sem_value(semid[m], InitialValue) /\ UNCHANGED semid
            <4>1. pc[m] \in {"ftok", "semget", "setval"} /\ where \notin SettingUp \ Ready
                BY <1>2, <2>3 DEF Ready, SettingUp
            <4>2. m \in Procs /\ pc \in [Procs -> Locations] BY <1>1, ProcsFacts DEF PlainOK
            <4>3. pc'[m] \in Ready BY <1>5, <2>3
            <4>4. ~ Goto(m, "semget") /\ ~ Goto(m, "setval") /\ ~ Goto(m, "shmdt") /\ ~ Goto(m, "returned")
                BY <4>2, <4>3 DEF Goto, Ready, AtWork
            <4> QED BY <4>1, <4>4
                    DEF SetUp, Ftok, Semget, Setval, Shmget, Shmat, Zero, Fails
        <3>2. InitialValue = 1 /\ InitialValue \in Nat BY DEF InitialValue
        <3>3. /\ semid[m] \in Live(sems) /\ semid[m] \in Ids
              /\ \A j \in Ids : sems'[j].status = sems[j].status
              /\ sems'[semid[m]].val = 1 /\ \A q \in Procs : sems'[semid[m]].adj[q] = 0
              /\ SemsOK'
            BY <1>1, <3>1, <3>2, SetvalEffect DEF Live, SemsOK
        <3>4. semid'[m] \in (Live(sems))' BY <3>1, <3>3 DEF Live, SemsOK
        <3> QED BY <1>5, <3>1, <3>3, <3>4 DEF Guard
    <2> QED BY <2>1, <2>2, <2>3
<1> QED BY <1>6, <1>7, <1>8 DEF ExclInv

LEMMA CleanUpExcl ==
    ASSUME OneRun, TInv, NEW m \in Mains, ExclInv(m), CleanUp(m),
           UNCHANGED <<sumVars, sleepVars, program>>
    PROVE  ExclInv(m)'
<1>1. SemsOK /\ PlainOK BY TypeParts DEF TInv
<1>2. UNCHANGED <<semid, num_started, i, program>> /\ i[m] \in Int
    <2>1. UNCHANGED semid BY DEF CleanUp, Shmdt, Shmrm, Semrm
    <2> QED BY <1>1, <2>1 DEF sumVars, sleepVars, PlainOK, SleepTypeOK
<1>3. CASE Shmdt(m) \/ Shmrm(m)
    <2>1. PICK where \in {"shmrm", "semrm"} : Goto(m, where) BY <1>3 DEF Shmdt, Shmrm
    <2>2. /\ pc[m] \in {"shmdt", "shmrm"} /\ UNCHANGED sems /\ where \in Locations
        BY <1>3 DEF Shmdt, Shmrm, Locations
    <2>3. where \notin Ready /\ where \notin Holding /\ pc[m] \notin Holding /\ pc[m] \in Leaving
        BY <2>2 DEF Ready, AtWork, Holding, Leaving
    <2> QED BY <1>1, <1>2, <2>1, <2>2, <2>3, StillExcl
<1>4. CASE Semrm(m)
    <2>1. pc[m] = "semrm" /\ Goto(m, "returned") /\ "returned" \in Locations /\ m \in Procs
        BY <1>4, ProcsFacts DEF Semrm, Locations
    <2>2. /\ pc'[m] = "returned" /\ \A c \in ChildrenOf(m) : pc'[c] = pc[c]
        BY <1>1, <2>1, MainGoes
    <2>3. ~ Guarding(m)' BY <2>2 DEF Guarding, Ready, AtWork
    <2>4. Critical' \subseteq Critical BY <1>1, <2>1, CriticalMoves DEF Holding
    <2>5. Active(m)' = Active(m) BY <2>2 DEF Active
    <2>6. Few(m)' BY <2>1, <2>5 DEF Few, ExclInv, Leaving
    <2>7. Forked(m)'
        <3>1. Summing(m)' <=> Summing(m) BY <1>2 DEF Summing
        <3> QED BY <1>2, <2>2, <3>1 DEF Forked, ExclInv
    <2> QED BY <2>3, <2>4, <2>6, <2>7 DEF ExclInv, OneIn, Guard
<1> QED BY <1>3, <1>4 DEF CleanUp

LEMMA WaitExcl ==
    ASSUME OneRun, TInv, NEW m \in Mains, ExclInv(m), Reap(m) \/ Report(m),
           UNCHANGED <<sumVars, sleepVars, program>>
    PROVE  ExclInv(m)'
<1>1. PlainOK BY TypeParts DEF TInv
<1>2. UNCHANGED <<sems, semid, num_started, i, program>> /\ i[m] \in Int
    BY <1>1 DEF Reap, Report, ipcVars, runVars, sumVars, sleepVars, PlainOK, SleepTypeOK
<1>3. CASE Reap(m)
    <2>1. PICK c \in ChildrenOf(m) : pc[c] = "zombie" /\ Goto(c, "reaped") BY <1>3 DEF Reap
    <2>2. "reaped" \in Locations /\ "reaped" \in Over /\ "reaped" \notin Holding /\ pc[c] \notin Holding
          /\ c # m /\ c \in {m} \cup ChildrenOf(m)
        BY <2>1, OneRunProcs DEF Locations, Over, Holding
    <2> QED BY <1>1, <1>2, <2>1, <2>2, StillExcl
<1>4. CASE Report(m)
    <2>1. pc[m] = "wait" /\ Goto(m, "shmdt") /\ Waited(m) BY <1>4 DEF Report
    <2>2. "shmdt" \in Locations /\ "shmdt" \notin Holding /\ pc[m] \notin Holding /\ "shmdt" \notin Ready
        BY <2>1 DEF Locations, Holding, Ready, AtWork
    <2>3. Active(m) = {} BY <2>1 DEF Waited, Active, Over
    <2> QED BY <1>1, <1>2, <2>1, <2>2, <2>3, StillExcl
<1> QED BY <1>3, <1>4

LEMMA PairOf ==
    ASSUME NEW m \in Mains, NEW c \in ChildrenOf(m)
    PROVE  c = <<m, c[2]>> /\ c[2] \in Numbers /\ c[2] \in Int /\ c[2] >= 1
BY NumbersFacts, IpcRunAssumption DEF ChildrenOf

\* A new child is active, and everybody else as before.
LEMMA ForkedExcl ==
    ASSUME OneRun, PlainOK, NEW m \in Mains, ExclInv(m), pc[m] = "fork",
           NEW c \in ChildrenOf(m), pc' \in [Procs -> Locations],
           pc'[m] \in {"fork", "wait", "P"}, pc'[c] \in {"start", "P"}, pc[c] \notin Holding,
           \A q \in Procs : q # m /\ q # c => pc'[q] = pc[q],
           UNCHANGED <<sems, semid, program>>, Forked(m)'
    PROVE  ExclInv(m)'
<1>1. c \in Procs /\ m \in Procs /\ m # c BY OneRunProcs
<1>2. Critical' = Critical
    <2>1. pc[m] \notin Holding /\ pc'[m] \notin Holding /\ pc'[c] \notin Holding BY DEF Holding
    <2>2. \A q \in Procs : pc'[q] \in Holding <=> pc[q] \in Holding BY <1>1, <2>1
    <2> QED BY <2>2 DEF Critical, Holding
<1>3. Few(m)' BY DEF Few, Leaving
<1>4. Guarding(m) BY DEF Guarding, Ready, AtWork
<1>5. (Live(sems))' = Live(sems) BY DEF Live
<1>6. Guard(m)' BY <1>2, <1>4, <1>5 DEF Guard, ExclInv
<1> QED BY <1>2, <1>3, <1>6 DEF ExclInv, OneIn

LEMMA ForkAdderExcl ==
    ASSUME OneRun, TInv, NEW m \in Mains, ExclInv(m), Summing(m), ForkAdder(m),
           UNCHANGED <<sleepVars, program>>
    PROVE  ExclInv(m)'
<1>1. PlainOK /\ RunInv(m) BY TypeParts DEF TInv
<1>2. /\ pc[m] = "fork" /\ UNCHANGED <<sems, semid, i, program>> /\ i[m] \in Int
      /\ num_started[m] \in {0, 1}
    <2>1. num_started[m] \in 0 .. 2 /\ i[m] \in Int BY <1>1 DEF PlainOK, SumTypeOK, SleepTypeOK
    <2> QED BY <1>1, <2>1 DEF ForkAdder, sleepVars, RunInv, Loops
<1> DEFINE c == <<m, num_started[m] + 1>>
           where == IF num_started[m] = 1 THEN "wait" ELSE "fork"
<1>3. c \in ChildrenOf(m) /\ c \in Procs /\ m \in Procs /\ c # m /\ c[2] = num_started[m] + 1
    <2>1. num_started[m] + 1 \in {1, 2} BY <1>2
    <2> QED BY <2>1, NumbersFacts, ProcsFacts
<1>4. CASE /\ pc' = [pc EXCEPT ![c] = "P", ![m] = where]
           /\ num_started' = [num_started EXCEPT ![m] = @ + 1]
    <2>1. /\ pc' \in [Procs -> Locations] /\ pc'[m] = where /\ pc'[c] = "P"
          /\ \A q \in Procs : q # m /\ q # c => pc'[q] = pc[q]
        <3>1. where \in Locations /\ "P" \in Locations BY DEF Locations
        <3>2. pc \in [Procs -> Locations] BY <1>1 DEF PlainOK
        <3> HIDE DEF c, where
        <3> QED BY <1>3, <1>4, <3>1, <3>2
    <2>2. num_started'[m] = num_started[m] + 1 BY <1>1, <1>4 DEF PlainOK, SumTypeOK
    <2>3. where \in {"fork", "wait"} OBVIOUS
    <2>4. pc[c] \notin Holding
        <3>1. pc[c] = "unborn" BY <1>2, <1>3 DEF ExclInv, Forked
        <3> QED BY <3>1 DEF Holding
    <2>5. Forked(m)'
        <3>1. Summing(m)' BY <1>2 DEF Summing
        <3>2. ASSUME NEW d \in ChildrenOf(m)
              PROVE  pc'[d] = "unborn" <=> d[2] > num_started[m] + 1
            <4>1. CASE d = c BY <1>2, <1>3, <2>1, <4>1
            <4>2. CASE d # c
                <5>1. d[2] # num_started[m] + 1 /\ d[2] \in Int BY <4>2, PairOf
                <5>2. pc[d] = "unborn" <=> d[2] > num_started[m] BY DEF ExclInv, Forked
                <5>3. pc'[d] = pc[d] BY <2>1, <4>2, OneRunProcs
                <5> QED BY <1>2, <5>1, <5>2, <5>3
            <4> QED BY <4>1, <4>2
        <3> QED BY <2>2, <3>1, <3>2 DEF Forked
    <2> HIDE DEF c, where
    <2> QED BY <1>1, <1>2, <1>3, <2>1, <2>3, <2>4, <2>5, ForkedExcl
<1>5. CASE Fails(m, "shmdt") /\ UNCHANGED num_started
    <2>1. Goto(m, "shmdt") /\ "shmdt" \in Locations /\ "shmdt" \notin Holding /\ pc[m] \notin Holding
          /\ "shmdt" \notin Ready
        BY <1>2, <1>5 DEF Fails, Locations, Holding, Ready, AtWork
    <2>2. ASSUME NEW x \in Active(m), NEW y \in Active(m) PROVE x = y
        <3>1. \A d \in Active(m) : d \in ChildrenOf(m) /\ d[2] = 1
            <4> TAKE d \in Active(m)
            <4>1. d \in ChildrenOf(m) /\ pc[d] # "unborn" BY DEF Active
            <4>2. d[2] <= 1 BY <1>2, <4>1, PairOf DEF ExclInv, Forked
            <4> QED BY <4>1, <4>2, PairOf
        <3> QED BY <3>1, PairOf
    <2> QED BY <1>1, <1>2, <1>5, <2>1, <2>2, StillExcl
<1> QED BY <1>4, <1>5 DEF ForkAdder

LEMMA ForkSleeperExcl ==
    ASSUME OneRun, TInv, NEW m \in Mains, ExclInv(m), ~ Summing(m), ForkSleeper(m),
           UNCHANGED <<sumVars, program>>
    PROVE  ExclInv(m)'
<1>1. PlainOK /\ RunInv(m) BY TypeParts DEF TInv
<1>2. /\ pc[m] = "fork" /\ UNCHANGED <<sems, semid, num_started, program>>
      /\ i[m] \in Int /\ i[m] \in Numbers /\ i'[m] = i[m] + 1
    <2>1. i[m] \in 1 .. Cardinality(Numbers) + 1 /\ i \in [Mains -> 1 .. Cardinality(Numbers) + 1]
        BY <1>1 DEF PlainOK, SleepTypeOK
    <2>2. pc[m] = "fork" /\ i' = [i EXCEPT ![m] = @ + 1] /\ UNCHANGED <<sems, semid, num_started>>
        BY DEF ForkSleeper, runVars, sumVars
    <2>3. i[m] <= Cardinality(Numbers) BY <1>1, <2>2 DEF RunInv, Loops
    <2> QED BY <2>1, <2>2, <2>3, NumbersFacts
<1> DEFINE c == <<m, i[m]>>
<1>3. c \in ChildrenOf(m) /\ c \in Procs /\ m \in Procs /\ c # m /\ c[2] = i[m] BY <1>2, ProcsFacts
<1>4. CASE pc' = [pc EXCEPT ![c] = "start", ![m] = "P"]
    <2>1. /\ pc' \in [Procs -> Locations] /\ pc'[m] = "P" /\ pc'[c] = "start"
          /\ \A q \in Procs : q # m /\ q # c => pc'[q] = pc[q]
        <3>1. "start" \in Locations /\ "P" \in Locations BY DEF Locations
        <3>2. pc \in [Procs -> Locations] BY <1>1 DEF PlainOK
        <3> HIDE DEF c
        <3> QED BY <1>3, <1>4, <3>1, <3>2
    <2>2. pc[c] \notin Holding
        <3>1. pc[c] = "unborn" BY <1>2, <1>3 DEF ExclInv, Forked
        <3> QED BY <3>1 DEF Holding
    <2>3. Forked(m)'
        <3>1. ~ Summing(m)' BY <1>2 DEF Summing
        <3>2. ASSUME NEW d \in ChildrenOf(m), d[2] >= i[m] + 1 PROVE pc'[d] = "unborn"
            <4>1. d[2] \in Int BY PairOf
            <4>2. d # c /\ d[2] >= i[m] BY <1>2, <1>3, <3>2, <4>1
            <4>3. pc[d] = "unborn" BY <4>2 DEF ExclInv, Forked
            <4> QED BY <2>1, <4>2, <4>3, OneRunProcs
        <3> QED BY <1>2, <3>1, <3>2 DEF Forked
    <2> HIDE DEF c
    <2> QED BY <1>1, <1>2, <1>3, <2>1, <2>2, <2>3, ForkedExcl
<1>5. CASE Goto(m, AfterFork(i[m]))
    <2>1. AfterFork(i[m]) \in {"fork", "wait"} BY DEF AfterFork
    <2>2. AfterFork(i[m]) \in Locations /\ AfterFork(i[m]) \notin Holding \cup Leaving /\ pc[m] \notin Holding
        BY <1>2, <2>1 DEF Locations, Holding, Leaving
    <2>3. Guarding(m) BY <1>2 DEF Guarding, Ready, AtWork
    <2> DEFINE where == AfterFork(i[m])
    <2>4. where \in Locations /\ Goto(m, where) /\ where \notin Holding \cup Leaving BY <1>5, <2>2
    <2> HIDE DEF where
    <2> QED BY <1>1, <1>2, <2>2, <2>3, <2>4, StillExcl
<1> QED BY <1>4, <1>5 DEF ForkSleeper

(***************************************************************************)
(* Into P, between P and V, and out.                                       *)
(***************************************************************************)
LEMMA DownExcl ==
    ASSUME OneRun, TInv, NEW m \in Mains, ExclInv(m), NEW p \in {m} \cup ChildrenOf(m), Down(p),
           UNCHANGED <<sumVars, sleepVars, program>>
    PROVE  ExclInv(m)'
<1>1. SemsOK /\ PlainOK BY TypeParts DEF TInv
<1>2. p \in Procs /\ m \in Procs /\ Run(p) = m /\ "load" \in Locations /\ "load" \in Holding
    BY OneRunProcs DEF Locations, Holding
<1>3. /\ pc[p] = "P" /\ P(p, semid[m]) /\ Goto(p, "load")
      /\ UNCHANGED <<semid, num_started, i, program>>
    BY <1>2 DEF Down, runVars, sumVars, sleepVars
<1>4. /\ \A q \in Procs : pc'[q] = IF q = p THEN "load" ELSE pc[q]
      /\ Critical' = Critical \cup {p} /\ p \notin Critical
    BY <1>1, <1>2, <1>3, GotoEffect, CriticalMoves DEF Critical
<1>5. Active(m)' = Active(m) /\ (p # m => p \in Active(m))
    BY <1>2, <1>3, <1>4, OneRunProcs DEF Active, Over
<1>6. (pc'[m] \in Ready <=> pc[m] \in Ready) /\ (pc'[m] = "returned" <=> pc[m] = "returned")
    BY <1>2, <1>3, <1>4 DEF Ready, AtWork
<1>7. Guarding(m)' <=> Guarding(m) BY <1>5, <1>6 DEF Guarding
<1>8. SemsOK' /\ \A j \in Ids : sems'[j].status = sems[j].status BY <1>1, <1>2, <1>3, PEffect
<1>9. Critical = {}
    <2>1. CASE Guarding(m)
        <3>1. semid[m] \in Live(sems) BY <2>1 DEF Guard, ExclInv
        <3>2. sems[semid[m]].val > 0 BY <1>1, <1>2, <1>3, <3>1, PEffect
        <3> QED BY <2>1, <3>2 DEF Guard, ExclInv
    <2>2. CASE ~ Guarding(m)
        <3>1. pc[m] = "returned" /\ p # m BY <1>3, <1>5, <2>2 DEF Guarding, Ready, AtWork
        <3>2. \A c \in Active(m) : c = p BY <1>5, <3>1 DEF ExclInv, Few, Leaving
        <3>3. ASSUME NEW q \in Critical PROVE FALSE
            <4>1. q # m /\ q \in ChildrenOf(m) BY <3>1, <3>3, OneRunProcs DEF Critical
            <4>2. q \in Active(m) BY <3>3, <4>1 DEF Active, Over, Critical
            <4> QED BY <1>4, <3>2, <3>3, <4>2
        <3> QED BY <3>3
    <2> QED BY <2>1, <2>2
<1>10. OneIn' BY <1>4, <1>9 DEF OneIn
<1>11. Few(m)'
    <2>1. pc'[m] \in Leaving => pc[m] \in Leaving BY <1>2, <1>4 DEF Leaving
    <2> QED BY <1>5, <2>1 DEF ExclInv, Few
<1>12. Guard(m)'
    <2> SUFFICES ASSUME Guarding(m)'
                 PROVE  /\ semid[m] \in (Live(sems))'
                        /\ sems'[semid[m]].val = 0
                        /\ \A q \in Procs : sems'[semid[m]].adj[q] = IF q = p THEN 1 ELSE 0
        BY <1>3, <1>4, <1>9 DEF Guard
    <2>1. /\ semid[m] \in Live(sems) /\ sems[semid[m]].val = 1
          /\ \A q \in Procs : sems[semid[m]].adj[q] = 0
        BY <1>7, <1>9 DEF Guard, ExclInv
    <2>2. /\ semid[m] \in Ids /\ sems'[semid[m]].val = sems[semid[m]].val - 1
          /\ sems'[semid[m]].adj[p] = sems[semid[m]].adj[p] + 1
          /\ \A q \in Procs : q # p => sems'[semid[m]].adj[q] = sems[semid[m]].adj[q]
        BY <1>1, <1>2, <1>3, <2>1, PEffect
    <2>3. semid[m] \in (Live(sems))' BY <1>1, <1>8, <2>1, <2>2 DEF Live, SemsOK
    <2> QED BY <1>2, <2>1, <2>2, <2>3
<1>13. Forked(m)'
    <2>1. Summing(m)' <=> Summing(m) BY <1>3 DEF Summing
    <2>2. \A c \in ChildrenOf(m) : pc'[c] = "unborn" <=> pc[c] = "unborn"
        BY <1>3, <1>4, OneRunProcs
    <2> QED BY <1>3, <2>1, <2>2 DEF Forked, ExclInv
<1> QED BY <1>10, <1>11, <1>12, <1>13 DEF ExclInv

LEMMA UpExcl ==
    ASSUME OneRun, TInv, NEW m \in Mains, ExclInv(m), NEW p \in {m} \cup ChildrenOf(m),
           NEW where \in {"exit", "fork", "wait"}, Up(p, where),
           p = m => where \in AtWork, UNCHANGED <<sumVars, sleepVars, program>>
    PROVE  ExclInv(m)'
<1>1. SemsOK /\ PlainOK BY TypeParts DEF TInv
<1>2. p \in Procs /\ m \in Procs /\ Run(p) = m /\ where \in Locations /\ where \notin Holding
    BY OneRunProcs DEF Locations, Holding
<1>3. /\ pc[p] = "V" /\ V(p, semid[m]) /\ Goto(p, where)
      /\ UNCHANGED <<semid, num_started, i, program>>
    BY <1>2 DEF Up, runVars, sumVars, sleepVars
<1>4. /\ \A q \in Procs : pc'[q] = IF q = p THEN where ELSE pc[q]
      /\ Critical' = {} /\ Critical = {p}
    <2>1. Critical' = Critical \ {p} /\ p \in Critical
        BY <1>1, <1>2, <1>3, CriticalMoves DEF Critical
    <2> QED BY <1>1, <1>2, <1>3, <2>1, GotoEffect DEF ExclInv, OneIn
<1>5. Active(m)' = Active(m)
    BY <1>2, <1>3, <1>4, OneRunProcs DEF Active, Over
<1>6. (pc'[m] \in Ready <=> pc[m] \in Ready) /\ (pc'[m] = "returned" <=> pc[m] = "returned")
    BY <1>2, <1>3, <1>4 DEF Ready, AtWork
<1>7. Guarding(m)' <=> Guarding(m) BY <1>5, <1>6 DEF Guarding
<1>8. SemsOK' /\ \A j \in Ids : sems'[j].status = sems[j].status BY <1>1, <1>2, <1>3, VEffect
<1>9. Few(m)'
    <2>1. pc'[m] \in Leaving => pc[m] \in Leaving BY <1>2, <1>4 DEF Leaving, AtWork
    <2> QED BY <1>5, <2>1 DEF ExclInv, Few
<1>10. Guard(m)'
    <2> SUFFICES ASSUME Guarding(m)'
                 PROVE  /\ semid[m] \in (Live(sems))'
                        /\ sems'[semid[m]].val = 1
                        /\ \A q \in Procs : sems'[semid[m]].adj[q] = 0
        BY <1>3, <1>4 DEF Guard
    <2>1. /\ semid[m] \in Live(sems) /\ sems[semid[m]].val = 0
          /\ \A q \in Procs : sems[semid[m]].adj[q] = IF q = p THEN 1 ELSE 0
        BY <1>4, <1>7 DEF Guard, ExclInv
    <2>2. /\ semid[m] \in Ids /\ sems'[semid[m]].val = sems[semid[m]].val + 1
          /\ sems'[semid[m]].adj[p] = sems[semid[m]].adj[p] - 1
          /\ \A q \in Procs : q # p => sems'[semid[m]].adj[q] = sems[semid[m]].adj[q]
        BY <1>1, <1>2, <1>3, <2>1, VEffect
    <2>3. semid[m] \in (Live(sems))' BY <1>1, <1>8, <2>1, <2>2 DEF Live, SemsOK
    <2> QED BY <1>2, <2>1, <2>2, <2>3
<1>11. Forked(m)'
    <2>1. Summing(m)' <=> Summing(m) BY <1>3 DEF Summing
    <2>2. \A c \in ChildrenOf(m) : pc'[c] = "unborn" <=> pc[c] = "unborn"
        BY <1>3, <1>4, OneRunProcs
    <2> QED BY <1>3, <2>1, <2>2 DEF Forked, ExclInv
<1> QED BY <1>4, <1>9, <1>10, <1>11 DEF ExclInv, OneIn

Storing(p) == \E change : StoreSum(p, change)

LEMMA BetweenExcl ==
    ASSUME OneRun, TInv, NEW m \in Mains, ExclInv(m), NEW p \in {m} \cup ChildrenOf(m),
           Load(p) \/ Storing(p) \/ (Sleep(p) /\ p # m),
           UNCHANGED <<num_started, i, program>>
    PROVE  ExclInv(m)'
<1>1. PlainOK BY TypeParts DEF TInv
<1>2. PICK where \in {"store", "V", "P"} :
         /\ Goto(p, where) /\ UNCHANGED <<sems, semid>>
         /\ \/ where = "store" /\ pc[p] = "load"
            \/ where = "V" /\ pc[p] = "store"
            \/ where = "P" /\ pc[p] = "start" /\ p # m
    BY DEF Load, Storing, StoreSum, Sleep, ipcVars, runVars
<1>3. /\ where \in Locations /\ where # "unborn" /\ where \notin Leaving
      /\ pc[p] \in Holding <=> where \in Holding
      /\ p # m => pc[p] # "unborn" /\ pc[p] \notin Over
      /\ p = m => pc[m] # "returned" /\ pc[m] \in Ready
    BY <1>2 DEF Locations, Leaving, Holding, Over, Ready, AtWork
<1>4. i[m] \in Int BY <1>1 DEF PlainOK, SleepTypeOK
<1>5. p = m => Guarding(m) BY <1>3 DEF Guarding
<1> QED BY <1>1, <1>2, <1>3, <1>4, <1>5, StillExcl

(***************************************************************************)
(* The end of a process gives back what it holds.                          *)
(***************************************************************************)
LEMMA ExitsExcl ==
    ASSUME OneRun, TInv, NEW m \in Mains, ExclInv(m), NEW p \in {m} \cup ChildrenOf(m),
           NEW where, Exits(p), Goto(p, where),
           p = m => where = "killed" /\ pc[m] # "returned",
           p # m => where = "zombie" /\ pc[p] # "unborn",
           UNCHANGED <<semid, num_started, i, program>>
    PROVE  ExclInv(m)'
<1>1. SemsOK /\ ShmsOK /\ PlainOK BY TypeParts DEF TInv
<1>2. p \in Procs /\ m \in Procs /\ where \in Locations /\ where \notin Holding \cup Leaving \cup Ready
    BY OneRunProcs DEF Locations, Holding, Leaving, Ready, AtWork
<1>3. /\ \A q \in Procs : pc'[q] = IF q = p THEN where ELSE pc[q]
      /\ Critical' = Critical \ {p}
    BY <1>1, <1>2, GotoEffect, CriticalMoves
<1>4. Active(m)' \subseteq Active(m)
    BY <1>2, <1>3, OneRunProcs DEF Active, Over
<1>5. Guarding(m)' => Guarding(m)
    BY <1>2, <1>3, <1>4 DEF Guarding
<1>6. /\ SemsOK'
      /\ \A j \in Ids :
            /\ sems'[j].status = sems[j].status
            /\ sems'[j].val = Positive(sems[j].val + sems[j].adj[p])
            /\ sems'[j].adj[p] = 0
            /\ \A q \in Procs : q # p => sems'[j].adj[q] = sems[j].adj[q]
    BY <1>1, <1>2, ExitsEffect
<1>7. Few(m)'
    <2>1. pc'[m] \in Leaving => pc[m] \in Leaving BY <1>2, <1>3
    <2> QED BY <1>4, <2>1 DEF ExclInv, Few
<1>8. OneIn' BY <1>3 DEF ExclInv, OneIn
<1>9. Guard(m)'
    <2> SUFFICES ASSUME Guarding(m)'
                 PROVE  /\ semid[m] \in (Live(sems))'
                        /\ sems'[semid[m]].val = IF Critical' = {} THEN 1 ELSE 0
                        /\ \A q \in Procs : sems'[semid[m]].adj[q] = IF q \in Critical' THEN 1 ELSE 0
        BY DEF Guard
    <2>1. /\ semid[m] \in Live(sems) /\ sems[semid[m]].val = IF Critical = {} THEN 1 ELSE 0
          /\ \A q \in Procs : sems[semid[m]].adj[q] = IF q \in Critical THEN 1 ELSE 0
        BY <1>5 DEF Guard, ExclInv
    <2>2. semid[m] \in Ids BY <1>1, <2>1 DEF Live, SemsOK
    <2>3. semid[m] \in (Live(sems))' BY <1>1, <1>6, <2>1, <2>2 DEF Live, SemsOK
    <2>4. sems'[semid[m]].val = IF Critical' = {} THEN 1 ELSE 0
        <3>1. CASE p \in Critical
            <4>1. Critical = {p} /\ Critical' = {} BY <1>3, <3>1 DEF ExclInv, OneIn
            <4>2. sems[semid[m]].val = 0 /\ sems[semid[m]].adj[p] = 1 BY <1>2, <2>1, <4>1
            <4>3. Positive(0 + 1) = 1 BY DEF Positive
            <4> QED BY <1>6, <2>2, <4>1, <4>2, <4>3
        <3>2. CASE p \notin Critical
            <4>1. Critical' = Critical BY <1>3, <3>2
            <4>2. sems[semid[m]].adj[p] = 0 BY <1>2, <2>1, <3>2
            <4>3. Positive(0 + 0) = 0 /\ Positive(1 + 0) = 1 BY DEF Positive
            <4> QED BY <1>6, <2>1, <2>2, <4>1, <4>2, <4>3
        <3> QED BY <3>1, <3>2
    <2>5. ASSUME NEW q \in Procs
          PROVE  sems'[semid[m]].adj[q] = IF q \in Critical' THEN 1 ELSE 0
        BY <1>3, <1>6, <2>1, <2>2
    <2> QED BY <2>3, <2>4, <2>5
<1>10. Forked(m)'
    <2>1. Summing(m)' <=> Summing(m) BY DEF Summing
    <2>2. \A c \in ChildrenOf(m) : pc'[c] = "unborn" <=> pc[c] = "unborn"
        BY <1>3, OneRunProcs
    <2> QED BY <2>1, <2>2 DEF Forked, ExclInv
<1> QED BY <1>7, <1>8, <1>9, <1>10 DEF ExclInv

LEMMA MainExcl ==
    ASSUME OneRun, TInv, NEW m \in Mains, ExclInv(m), MainSteps(m)
    PROVE  ExclInv(m)'
<1>1. UNCHANGED <<kills, program>> /\ m \in {m} \cup ChildrenOf(m) BY DEF MainSteps
<1>2. CASE Summing(m) /\ SumMain(m) /\ UNCHANGED sleepVars
    BY <1>1, <1>2, ForkAdderExcl, SetUpExcl, WaitExcl, CleanUpExcl DEF SumMain
<1>3. CASE ~ Summing(m) /\ SleepMain(m) /\ UNCHANGED sumVars
    <2>1. CASE ForkSleeper(m) BY <1>1, <1>3, <2>1, ForkSleeperExcl
    <2>2. CASE CountUp(m)
        <3>1. Storing(m) /\ UNCHANGED <<num_started, i, program>>
            BY <1>1, <1>3, <2>2 DEF CountUp, Storing, sumVars
        <3> QED BY <1>1, <3>1, BetweenExcl
    <2>3. CASE (SetUp(m, "returned") \/ Reap(m) \/ Report(m) \/ CleanUp(m)) /\ UNCHANGED sleepVars
        BY <1>1, <1>3, <2>3, SetUpExcl, WaitExcl, CleanUpExcl
    <2>4. CASE Down(m) /\ UNCHANGED sleepVars BY <1>1, <1>3, <2>4, DownExcl
    <2>5. CASE Load(m) /\ UNCHANGED sleepVars
        <3>1. UNCHANGED <<num_started, i, program>> BY <1>1, <1>3, <2>5 DEF sumVars, sleepVars
        <3> QED BY <1>1, <2>5, <3>1, BetweenExcl
    <2>6. CASE Up(m, AfterFork(i[m] - 1)) /\ UNCHANGED sleepVars
        <3> DEFINE where == AfterFork(i[m] - 1)
        <3>1. where \in {"exit", "fork", "wait"} /\ where \in AtWork BY DEF AfterFork, AtWork
        <3>2. Up(m, where) BY <2>6
        <3> HIDE DEF where
        <3> QED BY <1>1, <1>3, <2>6, <3>1, <3>2, UpExcl
    <2> QED BY <1>3, <2>1, <2>2, <2>3, <2>4, <2>5, <2>6 DEF SleepMain
<1> QED BY <1>2, <1>3 DEF MainSteps, Summing

LEMMA ChildExcl ==
    ASSUME OneRun, TInv, NEW m \in Mains, ExclInv(m), NEW c \in ChildrenOf(m), ChildSteps(c)
    PROVE  ExclInv(m)'
<1>1. c \in {m} \cup ChildrenOf(m) /\ c # m /\ UNCHANGED program
    BY OneRunProcs DEF ChildSteps
<1>2. CASE Store(c) /\ UNCHANGED sleepVars
    <2>1. Storing(c) /\ UNCHANGED <<num_started, i, program>>
        BY <1>1, <1>2 DEF Store, Storing, sleepVars
    <2> QED BY <1>1, <2>1, BetweenExcl
<1>3. CASE CountDown(c) /\ UNCHANGED sumVars
    <2>1. Storing(c) /\ UNCHANGED <<num_started, i, program>>
        BY <1>1, <1>3 DEF CountDown, Storing, sumVars
    <2> QED BY <1>1, <2>1, BetweenExcl
<1>4. CASE /\ Sleep(c) \/ Down(c) \/ Load(c) \/ Up(c, "exit") \/ Exit(c)
           /\ UNCHANGED <<sumVars, sleepVars>>
    <2>1. UNCHANGED <<num_started, i, program>> BY <1>1, <1>4 DEF sumVars, sleepVars
    <2>2. CASE Sleep(c) \/ Load(c) BY <1>1, <2>1, <2>2, BetweenExcl
    <2>3. CASE Down(c) BY <1>1, <1>4, <2>3, DownExcl
    <2>4. CASE Up(c, "exit")
        <3>1. "exit" \in {"exit", "fork", "wait"} OBVIOUS
        <3> QED BY <1>1, <1>4, <2>4, <3>1, UpExcl
    <2>5. CASE Exit(c)
        <3>1. Exits(c) /\ Goto(c, "zombie") /\ pc[c] # "unborn" /\ UNCHANGED semid
            BY <2>5 DEF Exit, runVars
        <3> QED BY <1>1, <2>1, <3>1, ExitsExcl
    <2> QED BY <1>4, <2>2, <2>3, <2>4, <2>5
<1> QED BY <1>2, <1>3, <1>4 DEF ChildSteps, SumChild, SleepChild

LEMMA KillExcl ==
    ASSUME OneRun, TInv, NEW m \in Mains, ExclInv(m), NEW p \in Procs, Kill(p),
           UNCHANGED <<sumVars, sleepVars, program>>
    PROVE  ExclInv(m)'
<1>1. p \in {m} \cup ChildrenOf(m) /\ Mains = {m} BY OneRunProcs
<1> DEFINE where == IF p \in Mains THEN "killed" ELSE "zombie"
<1>2. Exits(p) /\ Goto(p, where) /\ pc[p] \notin {"unborn", "returned"} BY DEF Kill, Gone
<1>3. UNCHANGED <<semid, num_started, i, program>> BY DEF Kill, runVars, sumVars, sleepVars
<1>4. (p = m => where = "killed") /\ (p # m => where = "zombie") BY <1>1
<1> HIDE DEF where
<1> QED BY <1>1, <1>2, <1>3, <1>4, ExitsExcl

\* What the invariants of this module speak of.
LEMMA Unmoved ==
    ASSUME UNCHANGED vars
    PROVE  UNCHANGED <<sems, semOfKey, shms, shmOfKey, pc, semid, shmid, shm, loaded, retval, shown,
                       kills, num_started, stored, i, up, down, program>>
BY DEF vars, ipcVars, runVars, sumVars, sleepVars

LEMMA ExclInvNext ==
    ASSUME OneRun, NEW m \in Mains
    PROVE  TInv /\ ExclInv(m) /\ [Next]_vars => ExclInv(m)'
<1> SUFFICES ASSUME TInv, ExclInv(m), [Next]_vars PROVE ExclInv(m)' OBVIOUS
<1>1. Mains = {m} /\ Children = ChildrenOf(m) BY OneRunProcs
<1>2. CASE UNCHANGED vars
    BY <1>2, Unmoved
    DEF ExclInv, OneIn, Few, Guard, Forked, Guarding, Active, Critical, Live, Summing
<1> QED BY <1>1, <1>2, MainExcl, ChildExcl, KillExcl DEF Next

LEMMA ExclInvInit ==
    ASSUME OneRun, NEW m \in Mains
    PROVE  Init => ExclInv(m)
<1> SUFFICES ASSUME Init PROVE ExclInv(m) OBVIOUS
<1>1. TInv BY TInvInit
<1>2. pc[m] = "ftok" /\ Unborn(m) /\ num_started[m] = 0 /\ i[m] = 1
    BY ProcsFacts DEF Init, RunInit, SumInit, SleepInit, Unborn
<1>3. Critical = {} /\ Active(m) = {} BY <1>2, Alone DEF Holding
<1>4. ~ Guarding(m) BY <1>2, <1>3 DEF Guarding, Ready, AtWork
<1>5. Forked(m) BY <1>2, PairOf DEF Forked, Unborn
<1> QED BY <1>3, <1>4, <1>5 DEF ExclInv, OneIn, Few, Guard

LEMMA ExclInvariant ==
    ASSUME OneRun, NEW m \in Mains
    PROVE  Spec => []ExclInv(m)
<1>1. Init => ExclInv(m) BY ExclInvInit
<1>2. TInv /\ ExclInv(m) /\ [Next]_vars => ExclInv(m)' BY ExclInvNext
<1> QED BY <1>1, <1>2, TInvariant, PTL DEF Spec

\* With one run, P and V exclude: no two processes are between them, whichever
\* calls fail, whoever is killed, and although the parent of the adders removes
\* the semaphore under a child that still runs.
THEOREM MutuallyExclusive ==
    ASSUME OneRun
    PROVE  Spec => []MutualExclusion
<1>1. CASE Mains = {}
    <2>1. MutualExclusion BY <1>1 DEF MutualExclusion, Critical, Procs, Children
    <2> QED BY <2>1, PTL
<1>2. CASE Mains # {}
    <2>1. PICK m : m \in Mains BY <1>2
    <2>2. ExclInv(m) => MutualExclusion BY DEF ExclInv, OneIn, MutualExclusion
    <2>3. Spec => []ExclInv(m) BY <2>1, ExclInvariant
    <2> QED BY <2>2, <2>3, PTL
<1> QED BY <1>1, <1>2

(***************************************************************************)
(* What the run has got of the kernel and not given back: the identifiers  *)
(* it knows.                                                               *)
(***************************************************************************)
HasSem(m) == pc[m] \notin EarlySem \cup {"returned"}
HasShm(m) == pc[m] \notin EarlyShm \cup {"semrm", "returned"}
SemKept(m) == Live(sems) \subseteq IF HasSem(m) THEN {0, semid[m]} ELSE {0}
ShmKept(m) == Live(shms) \subseteq IF HasShm(m) THEN {0, shmid[m]} ELSE {0}
FreeInv(m) == SemKept(m) /\ ShmKept(m)

LEMMA SemStill ==
    ASSUME NEW m, SemsOK, SemsOK', SemKept(m), semid'[m] = semid[m], HasSem(m) => HasSem(m)',
           \A j \in Ids : sems'[j].status = sems[j].status
    PROVE  SemKept(m)'
<1>1. (Live(sems))' = Live(sems) BY DEF Live, SemsOK
<1> QED BY <1>1 DEF SemKept

LEMMA ShmStill ==
    ASSUME NEW m, ShmsOK, ShmsOK', ShmKept(m), shmid'[m] = shmid[m], HasShm(m) => HasShm(m)',
           \A j \in Ids : shms'[j].status = shms[j].status
    PROVE  ShmKept(m)'
<1>1. (Live(shms))' = Live(shms) BY DEF Live, ShmsOK
<1> QED BY <1>1 DEF ShmKept

\* No status changes.
SameStatus ==
    /\ \A j \in Ids : sems'[j].status = sems[j].status
    /\ \A j \in Ids : shms'[j].status = shms[j].status

LEMMA StillFree ==
    ASSUME TInv, TInv', NEW m \in Mains, FreeInv(m), SameStatus,
           semid'[m] = semid[m], shmid'[m] = shmid[m],
           HasSem(m) => HasSem(m)', HasShm(m) => HasShm(m)'
    PROVE  FreeInv(m)'
BY TypeParts, SemStill, ShmStill DEF TInv, SameStatus, FreeInv

\* The steps that create and remove nothing: what becomes of the parent.
LEMMA SetUpFree ==
    ASSUME TInv, TInv', NEW m \in Mains, FreeInv(m), SetUp(m, "shmdt") \/ SetUp(m, "returned")
    PROVE  FreeInv(m)'
<1>1. SemsOK /\ ShmsOK /\ PlainOK /\ SemsOK' /\ ShmsOK' /\ PlainOK' BY TypeParts DEF TInv
<1>2. /\ pc[m] \in SettingUp /\ m \in Procs
      /\ Ftok(m, "shmdt") \/ Ftok(m, "returned") => pc[m] = "ftok"
      /\ Semget(m, "shmdt") \/ Semget(m, "returned") => pc[m] = "semget"
    BY ProcsFacts DEF SetUp, Ftok, Semget, Setval, Shmget, Shmat, Zero, SettingUp
<1>3. PICK where \in (SettingUp \ EarlySem) \cup Leaving \cup {"semget", "fork"} :
         /\ Goto(m, where)
         /\ where \in {"semget", "returned"} => pc[m] \in EarlySem
         /\ where \in {"setval", "shmget"} => pc[m] \in {"semget", "setval"}
         /\ where # "semrm"
    BY DEF SetUp, Ftok, Semget, Setval, Shmget, Shmat, Zero, Fails, SettingUp, Leaving, EarlySem
<1>4. pc'[m] = where BY <1>1, <1>2, <1>3 DEF Goto, PlainOK
<1>5. (HasSem(m) => HasSem(m)') /\ (HasShm(m) => HasShm(m)')
    BY <1>2, <1>3, <1>4 DEF HasSem, HasShm, EarlySem, EarlyShm, SettingUp, Leaving
<1>6. CASE Ftok(m, "shmdt") \/ Ftok(m, "returned")
    <2>1. UNCHANGED <<sems, shms, semid, shmid>> BY <1>6 DEF Ftok, ipcVars
    <2> QED BY <1>5, <2>1, StillFree DEF SameStatus
<1>7. CASE Semget(m, "shmdt") \/ Semget(m, "returned")
    <2>1. UNCHANGED <<shms, shmid>> /\ pc[m] = "semget" BY <1>7 DEF Semget
    <2>2. ShmKept(m)' BY <1>1, <1>5, <2>1, ShmStill DEF FreeInv
    <2>3. Live(sems) \subseteq {0} BY <2>1 DEF FreeInv, SemKept, HasSem, EarlySem
    <2>4. CASE create_semaphore /\ semid' = [semid EXCEPT ![m] = SemIdOfKey] /\ Goto(m, "setval")
        <3>1. sems' = [sems EXCEPT ![SemIdOfKey].status = "live"] BY <2>4 DEF create_semaphore
        <3>2. (Live(sems))' \subseteq Live(sems) \cup {SemIdOfKey} BY <1>1, <3>1 DEF Live, SemsOK
        <3>3. semid'[m] = SemIdOfKey BY <1>1, <2>4 DEF PlainOK
        <3>4. HasSem(m)' BY <1>1, <1>2, <2>4 DEF Goto, PlainOK, HasSem, EarlySem
        <3> QED BY <2>2, <2>3, <3>2, <3>3, <3>4 DEF FreeInv, SemKept
    <2>5. CASE UNCHANGED sems
        <3>1. (Live(sems))' = Live(sems) BY <2>5 DEF Live
        <3> QED BY <2>2, <2>3, <3>1 DEF FreeInv, SemKept
    <2> QED BY <1>7, <2>4, <2>5 DEF Semget
<1>8. CASE Setval(m)
    <2>1. UNCHANGED <<shms, semid, shmid>> BY <1>8 DEF Setval
    <2>2. \A j \in Ids : sems'[j].status = sems[j].status
        <3>1. CASE set_sem_value(semid[m], InitialValue)
            <4>1. InitialValue \in Nat BY DEF InitialValue
            <4> QED BY <1>1, <3>1, <4>1, SetvalEffect
        <3> QED BY <1>8, <3>1 DEF Setval
    <2> QED BY <1>5, <2>1, <2>2, StillFree DEF SameStatus
<1>9. CASE Shmget(m)
    <2>1. UNCHANGED <<sems, semid>> /\ pc[m] = "shmget" BY <1>9 DEF Shmget
    <2>2. SemKept(m)' BY <1>1, <1>5, <2>1, SemStill DEF FreeInv
    <2>3. Live(shms) \subseteq {0} BY <2>1 DEF FreeInv, ShmKept, HasShm, EarlyShm
    <2>4. CASE shmget /\ shmid' = [shmid EXCEPT ![m] = ShmIdOfKey] /\ Goto(m, "shmat")
        <3>1. shms' = [shms EXCEPT ![ShmIdOfKey].status = "live"] BY <2>4 DEF shmget
        <3>2. (Live(shms))' \subseteq Live(shms) \cup {ShmIdOfKey} BY <1>1, <3>1 DEF Live, ShmsOK
        <3>3. shmid'[m] = ShmIdOfKey BY <1>1, <2>4 DEF PlainOK
        <3>4. HasShm(m)' BY <1>1, <1>2, <2>4 DEF Goto, PlainOK, HasShm, EarlyShm
        <3> QED BY <2>2, <2>3, <3>2, <3>3, <3>4 DEF FreeInv, ShmKept
    <2>5. CASE UNCHANGED shms
        <3>1. (Live(shms))' = Live(shms) BY <2>5 DEF Live
        <3> QED BY <2>2, <2>3, <3>1 DEF FreeInv, ShmKept
    <2> QED BY <1>9, <2>4, <2>5 DEF Shmget
<1>10. CASE Shmat(m)
    <2>1. UNCHANGED <<sems, semid, shmid>> BY <1>10 DEF Shmat
    <2>2. \A j \in Ids : shms'[j].status = shms[j].status
        <3>1. CASE Attach(m, shmid[m]) BY <1>1, <1>2, <3>1, AttachEffect
        <3> QED BY <1>10, <3>1 DEF Shmat
    <2> QED BY <1>5, <2>1, <2>2, StillFree DEF SameStatus
<1>11. CASE Zero(m)
    <2>1. UNCHANGED <<sems, semid, shmid>> BY <1>11 DEF Zero, runVars
    <2>2. \A j \in Ids : shms'[j].status = shms[j].status
        <3>1. Write(shmid[m], 0) /\ 0 \in Int BY <1>11 DEF Zero
        <3> QED BY <1>1, <3>1, WriteEffect
    <2> QED BY <1>5, <2>1, <2>2, StillFree DEF SameStatus
<1> QED BY <1>6, <1>7, <1>8, <1>9, <1>10, <1>11 DEF SetUp

LEMMA CleanUpFree ==
    ASSUME TInv, TInv', NEW m \in Mains, FreeInv(m), CleanUp(m)
    PROVE  FreeInv(m)'
<1>1. SemsOK /\ ShmsOK /\ PlainOK /\ SemsOK' /\ ShmsOK' /\ PlainOK' /\ m \in Procs
    BY TypeParts, ProcsFacts DEF TInv
<1>2. CASE Shmdt(m)
    <2>1. UNCHANGED <<sems, semid, shmid>> /\ pc[m] = "shmdt" /\ Goto(m, "shmrm") BY <1>2 DEF Shmdt
    <2>2. pc'[m] = "shmrm" BY <1>1, <2>1 DEF Goto, PlainOK
    <2>3. \A j \in Ids : shms'[j].status = shms[j].status
        <3>1. shm[m] \in {"unset", "failed", "attached"} BY <1>1 DEF PlainOK
        <3>2. CASE shm[m] = "attached"
            <4>1. Detach(m, shmid[m]) BY <1>2, <3>2 DEF Shmdt
            <4> QED BY <1>1, <4>1, AttachEffect
        <3>3. CASE shm[m] = "failed" BY <1>2, <3>3 DEF Shmdt
        <3>4. CASE shm[m] = "unset"
            <4>1. UNCHANGED shms BY <1>2, <3>4 DEF Shmdt
            <4> QED BY <4>1
        <3> QED BY <3>1, <3>2, <3>3, <3>4
    <2> QED BY <2>1, <2>2, <2>3, StillFree DEF SameStatus, HasSem, HasShm, EarlySem, EarlyShm
<1>3. CASE Shmrm(m)
    <2>1. UNCHANGED <<sems, semid, shmid>> /\ pc[m] = "shmrm" /\ Goto(m, "semrm") BY <1>3 DEF Shmrm
    <2>2. pc'[m] = "semrm" BY <1>1, <2>1 DEF Goto, PlainOK
    <2>3. SemKept(m)' BY <1>1, <2>1, <2>2, SemStill DEF FreeInv, HasSem, EarlySem
    <2>4. Live(shms) \subseteq {0, shmid[m]} BY DEF FreeInv, ShmKept
    <2>5. (Live(shms))' \subseteq {0}
        <3>1. CASE shm_remove(shmid[m])
            <4>1. shms' = [shms EXCEPT ![shmid[m]].status = "removed"] BY <3>1 DEF shm_remove
            <4>2. (Live(shms))' \subseteq Live(shms) \ {shmid[m]} BY <1>1, <4>1 DEF Live, ShmsOK
            <4> QED BY <2>4, <4>2
        <3>2. CASE UNCHANGED shms /\ shmid[m] \notin Live(shms)
            <4>1. (Live(shms))' = Live(shms) BY <3>2 DEF Live
            <4> QED BY <2>4, <3>2, <4>1
        <3>3. CASE UNCHANGED shms /\ ~ MayFreeShm(m)
            <4>1. shmid[m] \notin Ids BY <3>3, SysvIpcAssumption DEF MayFreeShm, Ids, NoId
            <4>2. (Live(shms))' = Live(shms) /\ shmid[m] \notin Live(shms)
                BY <1>1, <3>3, <4>1 DEF Live, ShmsOK
            <4> QED BY <2>4, <4>2
        <3> QED BY <1>3, <3>1, <3>2, <3>3 DEF Shmrm
    <2> QED BY <2>3, <2>5 DEF FreeInv, ShmKept
<1>4. CASE Semrm(m)
    <2>1. UNCHANGED <<shms, semid, shmid>> /\ pc[m] = "semrm" /\ Goto(m, "returned") BY <1>4 DEF Semrm
    <2>2. pc'[m] = "returned" BY <1>1, <2>1 DEF Goto, PlainOK
    <2>3. ShmKept(m)' BY <1>1, <2>1, <2>2, ShmStill DEF FreeInv, HasShm, EarlyShm
    <2>4. Live(sems) \subseteq {0, semid[m]} BY DEF FreeInv, SemKept
    <2>5. (Live(sems))' \subseteq {0}
        <3>1. CASE del_sem_value(semid[m])
            <4>1. sems' = [sems EXCEPT ![semid[m]].status = "removed"] BY <3>1 DEF del_sem_value
            <4>2. (Live(sems))' \subseteq Live(sems) \ {semid[m]} BY <1>1, <4>1 DEF Live, SemsOK
            <4> QED BY <2>4, <4>2
        <3>2. CASE UNCHANGED sems /\ semid[m] \notin Live(sems)
            <4>1. (Live(sems))' = Live(sems) BY <3>2 DEF Live
            <4> QED BY <2>4, <3>2, <4>1
        <3>3. CASE UNCHANGED sems /\ semid[m] = NoId
            <4>1. semid[m] \notin Ids BY <3>3, SysvIpcAssumption DEF Ids, NoId
            <4>2. (Live(sems))' = Live(sems) /\ semid[m] \notin Live(sems)
                BY <1>1, <3>3, <4>1 DEF Live, SemsOK
            <4> QED BY <2>4, <4>2
        <3> QED BY <1>4, <3>1, <3>2, <3>3 DEF Semrm
    <2> QED BY <2>3, <2>5 DEF FreeInv, SemKept
<1> QED BY <1>2, <1>3, <1>4 DEF CleanUp

\* What is left creates and removes nothing, and the parent does not return.
LEMMA WorkStatus ==
    ASSUME SemsOK, ShmsOK, PlainOK, NEW p \in Procs,
           \/ Down(p) \/ (\E where : Up(p, where)) \/ Load(p) \/ Sleep(p) \/ Exits(p)
           \/ \E change \in Int : StoreSum(p, change)
    PROVE  SameStatus
<1>1. CASE Down(p) BY <1>1, PEffect DEF Down, SameStatus
<1>2. CASE \E where : Up(p, where) BY <1>2, VEffect DEF Up, SameStatus
<1>3. CASE Load(p) \/ Sleep(p) BY <1>3 DEF Load, Sleep, ipcVars, SameStatus
<1>4. CASE Exits(p) BY <1>4, ExitsEffect DEF SameStatus
<1>5. CASE \E change \in Int : StoreSum(p, change)
    <2>1. PICK change \in Int : StoreSum(p, change) BY <1>5
    <2>2. Write(shmid[Run(p)], loaded[p] + change) /\ UNCHANGED sems /\ loaded[p] + change \in Int
        BY <2>1 DEF StoreSum, PlainOK
    <2> QED BY <2>2, WriteEffect DEF SameStatus
<1> QED BY <1>1, <1>2, <1>3, <1>4, <1>5

LEMMA AttachStatus ==
    ASSUME ShmsOK, NEW p, NEW id, Attach(p, id)
    PROVE  \A j \in Ids : shms'[j].status = shms[j].status /\ shms'[j].word = shms[j].word
BY DEF ShmsOK, ShmRec, Attach

LEMMA WorkFree ==
    ASSUME TInv, TInv', NEW m \in Mains, FreeInv(m), SameStatus, UNCHANGED <<semid, shmid>>,
           pc'[m] = pc[m] \/ pc'[m] \in AtWork \cup {"shmdt", "killed"}
    PROVE  FreeInv(m)'
<1>1. (HasSem(m) => HasSem(m)') /\ (HasShm(m) => HasShm(m)')
    BY DEF HasSem, HasShm, EarlySem, EarlyShm, AtWork
<1> QED BY <1>1, StillFree

LEMMA MainFree ==
    ASSUME TInv, TInv', NEW m \in Mains, FreeInv(m), MainSteps(m)
    PROVE  FreeInv(m)'
<1>1. SemsOK /\ ShmsOK /\ PlainOK /\ m \in Procs /\ m \notin ChildrenOf(m)
      /\ \A c \in ChildrenOf(m) : c \in Procs
    BY TypeParts, ProcsFacts DEF TInv
<1>2. CASE SetUp(m, "shmdt") \/ SetUp(m, "returned") BY <1>2, SetUpFree
<1>3. CASE CleanUp(m) BY <1>3, CleanUpFree
<1>4. CASE Reap(m)
    <2>1. pc'[m] = pc[m] BY <1>1, <1>4 DEF Reap, Goto, PlainOK
    <2> QED BY <1>4, <2>1, WorkFree DEF Reap, ipcVars, runVars, SameStatus
<1>5. CASE Report(m)
    <2>1. pc'[m] = "shmdt" BY <1>1, <1>5 DEF Report, Goto, PlainOK
    <2> QED BY <1>5, <2>1, WorkFree DEF Report, ipcVars, SameStatus
<1>6. CASE ForkAdder(m)
    <2>1. UNCHANGED <<sems, semid, shmid>> BY <1>6 DEF ForkAdder
    <2>2. pc'[m] \in AtWork \cup {"shmdt"}
        BY <1>1, <1>6 DEF ForkAdder, Fails, Goto, PlainOK, AtWork
    <2>3. \A j \in Ids : shms'[j].status = shms[j].status
        <3>1. CASE UNCHANGED shms BY <3>1
        <3>2. CASE \E p : Attach(p, shmid[m]) BY <1>1, <3>2, AttachStatus
        <3> QED BY <1>6, <3>1, <3>2 DEF ForkAdder
    <2> QED BY <2>1, <2>2, <2>3, WorkFree DEF SameStatus
<1>7. CASE ForkSleeper(m)
    <2>1. UNCHANGED <<sems, semid, shmid>> BY <1>7 DEF ForkSleeper, runVars
    <2>2. pc'[m] \in AtWork
        BY <1>1, <1>7 DEF ForkSleeper, Goto, PlainOK, AtWork, AfterFork
    <2>3. \A j \in Ids : shms'[j].status = shms[j].status
        <3>1. CASE UNCHANGED shms BY <3>1
        <3>2. CASE \E p : Attach(p, shmid[m]) BY <1>1, <3>2, AttachStatus
        <3> QED BY <1>7, <3>1, <3>2 DEF ForkSleeper
    <2> QED BY <2>1, <2>2, <2>3, WorkFree DEF SameStatus
<1>8. CASE CountUp(m) \/ Down(m) \/ Load(m) \/ Up(m, AfterFork(i[m] - 1))
    <2>1. UNCHANGED <<semid, shmid>>
        BY <1>8 DEF CountUp, StoreSum, Down, Load, Up, runVars
    <2>2. pc'[m] \in AtWork
        BY <1>1, <1>8 DEF CountUp, StoreSum, Down, Load, Up, Goto, PlainOK, AtWork, AfterFork
    <2>3. CountUp(m) => StoreSum(m, 1) /\ 1 \in Int BY DEF CountUp
    <2>4. \/ Down(m) \/ (\E where : Up(m, where)) \/ Load(m)
          \/ \E change \in Int : StoreSum(m, change)
        BY <1>8, <2>3
    <2>5. SameStatus BY <1>1, <2>4, WorkStatus
    <2> QED BY <2>1, <2>2, <2>5, WorkFree
<1> QED BY <1>2, <1>3, <1>4, <1>5, <1>6, <1>7, <1>8 DEF MainSteps, SumMain, SleepMain

LEMMA ChildFree ==
    ASSUME OneRun, TInv, TInv', NEW m \in Mains, FreeInv(m), NEW c \in ChildrenOf(m), ChildSteps(c)
    PROVE  FreeInv(m)'
<1>1. SemsOK /\ ShmsOK /\ PlainOK /\ m \in Procs /\ c \in Procs /\ c # m
    BY TypeParts, ProcsFacts DEF TInv
<1>2. SumOf(Share(c)) \in Int /\ -1 \in Int BY ShareSum
<1>3. UNCHANGED <<semid, shmid>> /\ \E where : Goto(c, where)
    BY DEF ChildSteps, SumChild, SleepChild, Store, CountDown, StoreSum, Down, Load, Up, Exit, Sleep, runVars
<1>4. pc'[m] = pc[m] BY <1>1, <1>3 DEF Goto, PlainOK
<1>5. \/ Down(c) \/ (\E where : Up(c, where)) \/ Load(c) \/ Sleep(c) \/ Exits(c)
      \/ \E change \in Int : StoreSum(c, change)
    BY <1>2 DEF ChildSteps, SumChild, SleepChild, Store, CountDown, Exit
<1>6. SameStatus BY <1>1, <1>5, WorkStatus
<1> QED BY <1>3, <1>4, <1>6, WorkFree

LEMMA KillFree ==
    ASSUME OneRun, TInv, TInv', NEW m \in Mains, FreeInv(m), NEW p \in Procs, Kill(p)
    PROVE  FreeInv(m)'
<1>1. SemsOK /\ ShmsOK /\ PlainOK /\ m \in Procs BY TypeParts, ProcsFacts DEF TInv
<1>2. Exits(p) /\ UNCHANGED <<semid, shmid>> BY DEF Kill, runVars
<1>3. pc'[m] \in {pc[m], "killed"} BY <1>1 DEF Kill, Goto, PlainOK
<1>4. SameStatus BY <1>1, <1>2, WorkStatus
<1> QED BY <1>2, <1>3, <1>4, WorkFree

LEMMA FreeInvNext ==
    ASSUME OneRun, NEW m \in Mains
    PROVE  TInv /\ TInv' /\ FreeInv(m) /\ [Next]_vars => FreeInv(m)'
<1> SUFFICES ASSUME TInv, TInv', FreeInv(m), [Next]_vars PROVE FreeInv(m)' OBVIOUS
<1>1. Mains = {m} /\ Children = ChildrenOf(m) BY OneRunProcs
<1>2. CASE UNCHANGED vars
    BY <1>2, Unmoved DEF FreeInv, SemKept, ShmKept, HasSem, HasShm, Live
<1> QED BY <1>1, <1>2, MainFree, ChildFree, KillFree DEF Next

\* A run that returns has removed its semaphore and its segment, whichever
\* calls failed and whoever was killed.
THEOREM NothingLeft ==
    ASSUME OneRun
    PROVE  Spec => []IpcFreed
<1>1. CASE Mains = {}
    <2>1. IpcFreed BY <1>1 DEF IpcFreed
    <2> QED BY <2>1, PTL
<1>2. CASE Mains # {}
    <2>1. PICK m : m \in Mains BY <1>2
    <2>2. Init => FreeInv(m)
        BY <2>1, ProcsFacts
        DEF Init, RunInit, IpcInit, FreeInv, SemKept, ShmKept, HasSem, HasShm, EarlySem, EarlyShm, Live
    <2>3. TInv /\ TInv' /\ FreeInv(m) /\ [Next]_vars => FreeInv(m)' BY <2>1, FreeInvNext
    <2>4. FreeInv(m) => IpcFreed
        BY <2>1, OneRunProcs DEF IpcFreed, FreeInv, SemKept, ShmKept, HasSem, HasShm
    <2> QED BY <2>2, <2>3, <2>4, TInvariant, PTL DEF Spec
<1> QED BY <1>1, <1>2

(***************************************************************************)
(* The shared integer.  Between load and store nobody else writes it; who  *)
(* is past its store is in the history variables.                          *)
(***************************************************************************)
Done    == {"V", "exit", "zombie", "reaped"}
Born(m) == {c \in ChildrenOf(m) : pc[c] # "unborn"}
Word(m) == shms[shmid[m]].word
Total(m) ==
    IF Summing(m)
    THEN SumOf(UNION {Share(c) : c \in stored \cap ChildrenOf(m)})
    ELSE Cardinality(up \cap ChildrenOf(m)) - Cardinality(down \cap ChildrenOf(m))

LoadedWord(m) == \A p \in Procs : pc[p] = "store" => loaded[p] = Word(m)
WordIs(m)     == pc[m] \in AtWork => Word(m) = Total(m)
DoneOnly      == \A c \in stored \cup down : pc[c] \in Done
DoneAll(m)    == kills = 0 /\ Summing(m) => \A c \in ChildrenOf(m) : pc[c] \in Done => c \in stored
BothForked(m) == Summing(m) /\ pc[m] = "wait" => num_started[m] = 2
CountedUp(m) ==
    ~ Summing(m) =>
        /\ up \cap ChildrenOf(m) \subseteq Born(m)
        /\ pc[m] \in {"fork", "wait", "V"} => up \cap ChildrenOf(m) = Born(m)
        /\ pc[m] \in {"P", "load", "store"} =>
               Latest(m) \in Born(m) /\ up \cap ChildrenOf(m) = Born(m) \ {Latest(m)}

\* After the report no child moves.
ShownLast(m) == shown[m] # <<>> => pc[m] \notin SettingUp \cup AtWork /\ Waited(m)
ShownSum(m)  == Summing(m) /\ shown[m] # <<>> /\ kills = 0 => shown[m] = <<SumOf(DOMAIN Array)>>
ShownLeft(m) ==
    ~ Summing(m) /\ shown[m] # <<>> =>
        shown[m] = <<Cardinality({c \in ChildrenOf(m) : pc[c] = "reaped" /\ c \notin down})>>

WordInv(m) ==
    /\ LoadedWord(m) /\ WordIs(m) /\ DoneOnly /\ DoneAll(m) /\ BothForked(m)
    /\ CountedUp(m) /\ ShownLast(m) /\ ShownSum(m) /\ ShownLeft(m)

LEMMA MappedWord ==
    ASSUME OneRun, TInv, NEW m \in Mains
    PROVE  /\ pc[m] \in AtWork => shmid[m] \in Ids
           /\ \A p \in Procs : pc[p] = "store" => shmid[m] \in Ids
<1>1. RunInv(m) BY DEF TInv
<1>2. ASSUME NEW p \in ChildrenOf(m), pc[p] = "store" PROVE shmid[m] \in Ids
    <2>1. ~ Unborn(m) BY <1>2 DEF Unborn
    <2> QED BY <1>1, <2>1 DEF RunInv, Mapped
<1> QED BY <1>1, <1>2, OneRunProcs DEF RunInv, Mapped, AtWork

\* A step that leaves the integer and what is known of it alone.
LEMMA StillWord ==
    ASSUME OneRun, TInv, NEW m \in Mains, WordInv(m),
           NEW p \in {m} \cup ChildrenOf(m), NEW where \in Locations, Goto(p, where),
           UNCHANGED <<loaded, shmid, stored, up, down, shown, num_started, program>>,
           \A j \in Ids : shms'[j].word = shms[j].word,
           kills' = 0 => kills = 0, where # "store",
           p # m => /\ pc[p] \notin {"unborn", "reaped"} /\ where # "unborn"
                    /\ pc[p] \in Done => where \in Done
                    /\ where \in Done /\ kills' = 0 => pc[p] \in Done,
           p = m => /\ where \in AtWork => pc[m] \in AtWork
                    /\ where \in SettingUp => pc[m] \in SettingUp
                    /\ where \in {"fork", "wait", "V"} => pc[m] \in {"fork", "wait", "V"}
                    /\ where = "wait" => ~ Summing(m)
                    /\ where \in {"P", "load"} => pc[m] \in {"P", "load"} /\ i'[m] = i[m],
           p # m => i'[m] = i[m]
    PROVE  WordInv(m)'
<1>1. PlainOK BY TypeParts DEF TInv
<1>2. /\ p \in Procs /\ m \in Procs /\ m \notin ChildrenOf(m)
      /\ \A c \in ChildrenOf(m) : c \in Procs
      /\ stored \subseteq ChildrenOf(m) /\ down \subseteq ChildrenOf(m)
    BY <1>1, OneRunProcs DEF PlainOK, SumTypeOK, SleepTypeOK
<1>3. \A q \in Procs : pc'[q] = IF q = p THEN where ELSE pc[q] BY <1>1, <1>2, GotoEffect
<1>4. Summing(m)' <=> Summing(m) BY DEF Summing
<1>5. LoadedWord(m)'
    <2> SUFFICES ASSUME NEW q \in Procs, pc'[q] = "store" PROVE loaded[q] = shms'[shmid[m]].word
        BY DEF LoadedWord, Word
    <2>1. pc[q] = "store" BY <1>3
    <2>2. shmid[m] \in Ids /\ loaded[q] = Word(m) BY <2>1, MappedWord DEF WordInv, LoadedWord
    <2> QED BY <2>2 DEF Word
<1>6. Total(m)' = Total(m) BY <1>4 DEF Total
<1>7. WordIs(m)'
    <2> SUFFICES ASSUME pc'[m] \in AtWork PROVE Word(m)' = Total(m)' BY DEF WordIs
    <2>1. pc[m] \in AtWork BY <1>2, <1>3
    <2>2. shmid[m] \in Ids /\ Word(m) = Total(m) BY <2>1, MappedWord DEF WordInv, WordIs
    <2> QED BY <1>6, <2>2 DEF Word
<1>8. DoneOnly' BY <1>2, <1>3 DEF DoneOnly, WordInv
<1>9. DoneAll(m)' BY <1>2, <1>3, <1>4 DEF DoneAll, WordInv
<1>10. BothForked(m)' BY <1>2, <1>3, <1>4 DEF BothForked, WordInv
<1>11. Born(m)' = Born(m) BY <1>2, <1>3 DEF Born
<1>12. CountedUp(m)'
    BY <1>2, <1>3, <1>4, <1>11 DEF CountedUp, WordInv, Latest
<1>13. ASSUME shown[m] # <<>>
       PROVE  /\ p = m /\ Waited(m) /\ Waited(m)' /\ pc[m] \notin SettingUp \cup AtWork
              /\ \A c \in ChildrenOf(m) : pc'[c] = pc[c]
    <2>1. Waited(m) /\ pc[m] \notin SettingUp \cup AtWork BY <1>13 DEF WordInv, ShownLast
    <2>2. p = m BY <2>1 DEF Waited
    <2>3. \A c \in ChildrenOf(m) : pc'[c] = pc[c] BY <1>2, <1>3, <2>2
    <2> QED BY <2>1, <2>2, <2>3 DEF Waited
<1>14. ShownLast(m)' BY <1>2, <1>3, <1>13 DEF ShownLast
<1>15. ShownSum(m)' BY <1>4 DEF ShownSum, WordInv
<1>16. ShownLeft(m)'
    <2> SUFFICES ASSUME ~ Summing(m), shown[m] # <<>>
                 PROVE  {c \in ChildrenOf(m) : pc'[c] = "reaped" /\ c \notin down}
                            = {c \in ChildrenOf(m) : pc[c] = "reaped" /\ c \notin down}
        BY <1>4 DEF ShownLeft, WordInv
    <2> QED BY <1>13
<1> QED BY <1>5, <1>7, <1>8, <1>9, <1>10, <1>12, <1>14, <1>15, <1>16 DEF WordInv

LEMMA SetUpWord ==
    ASSUME OneRun, TInv, TInv', NEW m \in Mains, WordInv(m), SetUp(m, "shmdt") \/ SetUp(m, "returned"),
           UNCHANGED <<sumVars, sleepVars, program>>
    PROVE  WordInv(m)'
<1>1. ShmsOK /\ PlainOK /\ RunInv(m) BY TypeParts DEF TInv
<1>2. /\ pc[m] \in SettingUp /\ Unborn(m)
      /\ UNCHANGED <<stored, up, down, num_started, program, shown>>
    <2>1. pc[m] \in SettingUp
        BY DEF SetUp, Ftok, Semget, Setval, Shmget, Shmat, Zero, SettingUp
    <2>2. UNCHANGED shown
        BY DEF SetUp, Ftok, Semget, Setval, Shmget, Shmat, Zero, runVars
    <2> QED BY <1>1, <2>1, <2>2 DEF RunInv, Young, sumVars, sleepVars
<1>3. PICK where \in SettingUp \cup Leaving \cup {"fork"} :
         Goto(m, where) /\ (where = "fork" => Write(shmid[m], 0) /\ UNCHANGED shmid)
    BY DEF SetUp, Ftok, Semget, Setval, Shmget, Shmat, Zero, Fails, SettingUp, Leaving, runVars
<1>4. where \in Locations BY DEF SettingUp, Leaving, Locations
<1>5. Unborn(m)' /\ pc'[m] = where /\ m \in Procs
      /\ \A c \in ChildrenOf(m) : pc'[c] = pc[c] /\ c \in Procs
    BY <1>1, <1>2, <1>3, <1>4, MainGoes, ProcsFacts
<1>6. Summing(m)' <=> Summing(m) BY <1>2 DEF Summing
<1>7. stored = {} /\ down = {}
    <2>1. stored \cup down \subseteq ChildrenOf(m)
        BY <1>1, OneRunProcs DEF PlainOK, SumTypeOK, SleepTypeOK
    <2> QED BY <1>2, <2>1 DEF WordInv, DoneOnly, Unborn, Done
<1>8. Born(m) = {} /\ Born(m)' = {} BY <1>2, <1>5 DEF Born, Unborn
<1>9. ~ Summing(m) => up \cap ChildrenOf(m) = {} BY <1>8 DEF WordInv, CountedUp
<1>10. shown[m] = <<>> BY <1>2 DEF WordInv, ShownLast
<1>11. LoadedWord(m)'
    <2>1. \A q \in Procs : pc'[q] # "store"
        BY <1>3, <1>5, OneRunProcs DEF Unborn, SettingUp, Leaving
    <2> QED BY <2>1 DEF LoadedWord
<1>12. WordIs(m)'
    <2> SUFFICES ASSUME where = "fork" PROVE Word(m)' = Total(m)'
        BY <1>3, <1>5 DEF WordIs, SettingUp, Leaving, AtWork
    <2>1. shmid[m] \in Ids
        <3>1. RunInv(m)' BY DEF TInv
        <3>2. shmid'[m] \in Ids BY <1>5, <3>1 DEF RunInv, Mapped, AtWork
        <3> QED BY <1>3, <3>2
    <2>2. Word(m)' = 0
        <3>1. 0 \in Int /\ Write(shmid[m], 0) BY <1>3
        <3>2. shms'[shmid[m]].word = 0 BY <1>1, <2>1, <3>1, WriteEffect
        <3> QED BY <1>3, <3>2 DEF Word
    <2>3. CASE Summing(m)
        <3>1. Total(m)' = SumOf({}) BY <1>2, <1>6, <1>7, <2>3 DEF Total, SumOf
        <3>2. SumOf({}) = 0 BY SumNone, SharedSumAssumption DEF SumOf
        <3> QED BY <2>2, <3>1, <3>2
    <2>4. CASE ~ Summing(m)
        <3>1. Total(m)' = Cardinality({}) - Cardinality({}) BY <1>2, <1>6, <1>7, <1>9, <2>4 DEF Total
        <3> QED BY <2>2, <3>1, FS_EmptySet
    <2> QED BY <2>3, <2>4
<1>13. DoneOnly' /\ DoneAll(m)'
    BY <1>2, <1>5, <1>7 DEF DoneOnly, DoneAll, Unborn, Done
<1>14. BothForked(m)' BY <1>3, <1>5 DEF BothForked, SettingUp, Leaving
<1>15. CountedUp(m)'
    <2>1. pc'[m] \notin {"P", "load", "store"} BY <1>3, <1>5 DEF SettingUp, Leaving
    <2> QED BY <1>2, <1>6, <1>8, <1>9, <2>1 DEF CountedUp
<1>16. ShownLast(m)' /\ ShownSum(m)' /\ ShownLeft(m)'
    BY <1>2, <1>10 DEF ShownLast, ShownSum, ShownLeft
<1> QED BY <1>11, <1>12, <1>13, <1>14, <1>15, <1>16 DEF WordInv

LEMMA CleanUpWord ==
    ASSUME OneRun, TInv, NEW m \in Mains, WordInv(m), CleanUp(m),
           UNCHANGED <<sumVars, sleepVars, kills, program>>
    PROVE  WordInv(m)'
<1>1. SemsOK /\ ShmsOK /\ PlainOK /\ m \in Procs BY TypeParts, ProcsFacts DEF TInv
<1>2. PICK where \in {"shmrm", "semrm", "returned"} : Goto(m, where)
    BY DEF CleanUp, Shmdt, Shmrm, Semrm
<1>3. UNCHANGED <<shmid, loaded, shown>>
    BY DEF CleanUp, Shmdt, Shmrm, Semrm
<1>4. UNCHANGED <<stored, up, down, num_started, i, kills, program>> BY DEF sumVars, sleepVars
<1>5. where \in Locations /\ where \notin AtWork \cup SettingUp \cup {"store", "P", "load"}
    BY DEF Locations, AtWork, SettingUp
<1>6. \A j \in Ids : shms'[j].word = shms[j].word
    <2>1. CASE Shmdt(m)
        <3>1. shm[m] \in {"unset", "failed", "attached"} BY <1>1 DEF PlainOK
        <3>2. CASE shm[m] = "attached"
            <4>1. Detach(m, shmid[m]) BY <2>1, <3>2 DEF Shmdt
            <4> QED BY <1>1, <4>1, AttachEffect
        <3>3. CASE shm[m] = "failed" BY <2>1, <3>3 DEF Shmdt
        <3>4. CASE shm[m] = "unset"
            <4>1. UNCHANGED shms BY <2>1, <3>4 DEF Shmdt
            <4> QED BY <4>1
        <3> QED BY <3>1, <3>2, <3>3, <3>4
    <2>2. CASE Shmrm(m)
        <3>1. CASE shm_remove(shmid[m]) BY <1>1, <3>1, ShmRemoveEffect
        <3> QED BY <2>2, <3>1 DEF Shmrm
    <2>3. CASE Semrm(m) BY <2>3 DEF Semrm
    <2> QED BY <2>1, <2>2, <2>3 DEF CleanUp
<1>7. m \in {m} \cup ChildrenOf(m) /\ where \notin {"fork", "wait", "V"} BY <1>5
<1> QED BY <1>2, <1>3, <1>4, <1>5, <1>6, <1>7, StillWord

LEMMA ReapWord ==
    ASSUME OneRun, TInv, NEW m \in Mains, WordInv(m), Reap(m),
           UNCHANGED <<sumVars, sleepVars, kills, program>>
    PROVE  WordInv(m)'
<1>1. PICK c \in ChildrenOf(m) : pc[c] = "zombie" /\ Goto(c, "reaped") BY DEF Reap
<1>2. /\ UNCHANGED <<shms, shmid, loaded, shown, stored, up, down, num_started, i, kills, program>>
      /\ c # m /\ c \in {m} \cup ChildrenOf(m) /\ "reaped" \in Locations
      /\ "reaped" \in Done /\ pc[c] \in Done
    BY <1>1, OneRunProcs DEF Reap, ipcVars, runVars, sumVars, sleepVars, Locations, Done
<1> QED BY <1>1, <1>2, StillWord

LEMMA DownWord ==
    ASSUME OneRun, TInv, NEW m \in Mains, WordInv(m), NEW p \in {m} \cup ChildrenOf(m), Down(p),
           UNCHANGED <<sumVars, sleepVars, kills, program>>
    PROVE  WordInv(m)'
<1>1. /\ UNCHANGED <<shms, shmid, loaded, shown, stored, up, down, num_started, i, kills, program>>
      /\ pc[p] = "P" /\ Goto(p, "load") /\ "load" \in Locations
      /\ "load" \notin Done /\ pc[p] \notin Done /\ "load" \notin SettingUp /\ (p = m => pc[m] \in AtWork)
    BY DEF Down, runVars, sumVars, sleepVars, Locations, Done, SettingUp, AtWork
<1> DEFINE where == "load"
<1>2. where \in Locations /\ Goto(p, where) /\ where \notin {"store", "unborn", "fork", "wait", "V"}
      /\ where \notin Done \cup SettingUp
    BY <1>1
<1> HIDE DEF where
<1> QED BY <1>1, <1>2, StillWord

LEMMA UpWord ==
    ASSUME OneRun, TInv, NEW m \in Mains, WordInv(m), NEW p \in {m} \cup ChildrenOf(m),
           NEW where \in {"exit", "fork", "wait"}, Up(p, where), p = m <=> where # "exit",
           UNCHANGED <<sumVars, sleepVars, kills, program>>
    PROVE  WordInv(m)'
<1>1. RunInv(m) BY DEF TInv
<1>2. /\ UNCHANGED <<shms, shmid, loaded, shown, stored, up, down, num_started, i, kills, program>>
      /\ pc[p] = "V" /\ Goto(p, where) /\ where \in Locations
      /\ pc[p] \in Done /\ (where = "exit" => where \in Done) /\ where \notin SettingUp
      /\ (p = m => pc[m] \in AtWork /\ ~ Summing(m))
    BY <1>1 DEF Up, runVars, sumVars, sleepVars, Locations, Done, SettingUp, AtWork, RunInv, Loops
<1> QED BY <1>2, StillWord

LEMMA SleepWord ==
    ASSUME OneRun, TInv, NEW m \in Mains, WordInv(m), NEW c \in ChildrenOf(m), Sleep(c),
           UNCHANGED <<sumVars, sleepVars, kills, program>>
    PROVE  WordInv(m)'
<1>1. /\ UNCHANGED <<shms, shmid, loaded, shown, stored, up, down, num_started, i, kills, program>>
      /\ pc[c] = "start" /\ Goto(c, "P") /\ "P" \in Locations /\ c # m /\ c \in {m} \cup ChildrenOf(m)
      /\ "P" \notin Done /\ pc[c] \notin Done
    BY OneRunProcs DEF Sleep, ipcVars, runVars, sumVars, sleepVars, Locations, Done
<1> DEFINE where == "P"
<1>2. where \in Locations /\ Goto(c, where) /\ where \notin {"store", "unborn"} /\ where \notin Done
    BY <1>1
<1> HIDE DEF where
<1> QED BY <1>1, <1>2, StillWord

LEMMA ExitsWord ==
    ASSUME OneRun, TInv, NEW m \in Mains, WordInv(m), NEW p \in {m} \cup ChildrenOf(m),
           NEW where, Exits(p), Goto(p, where),
           p = m => where = "killed" /\ pc[m] # "returned",
           p # m => where = "zombie" /\ pc[p] \notin {"unborn", "reaped"},
           kills' = 0 => kills = 0 /\ p # m /\ pc[p] \in Done,
           UNCHANGED <<runVars, loaded, sumVars, sleepVars, program>>
    PROVE  WordInv(m)'
<1>1. SemsOK /\ ShmsOK /\ PlainOK /\ p \in Procs BY TypeParts, ProcsFacts, OneRunProcs DEF TInv
<1>2. /\ UNCHANGED <<shmid, loaded, shown, stored, up, down, num_started, i, program>>
      /\ \A j \in Ids : shms'[j].word = shms[j].word
    BY <1>1, ExitsEffect DEF runVars, sumVars, sleepVars
<1>3. /\ where \in Locations /\ where \notin AtWork \cup SettingUp /\ (p # m => where \in Done)
      /\ where \notin {"store", "unborn", "fork", "wait", "V", "P", "load"}
    BY DEF Locations, AtWork, SettingUp, Done
<1> QED BY <1>2, <1>3, StillWord

LEMMA LoadWord ==
    ASSUME OneRun, TInv, NEW m \in Mains, WordInv(m), NEW p \in {m} \cup ChildrenOf(m), Load(p),
           UNCHANGED <<sumVars, sleepVars, kills, program>>
    PROVE  WordInv(m)'
<1>1. PlainOK BY TypeParts DEF TInv
<1>2. /\ p \in Procs /\ m \in Procs /\ m \notin ChildrenOf(m) /\ Run(p) = m
      /\ \A c \in ChildrenOf(m) : c \in Procs
      /\ stored \subseteq ChildrenOf(m) /\ down \subseteq ChildrenOf(m) /\ "store" \in Locations
    BY <1>1, OneRunProcs DEF PlainOK, SumTypeOK, SleepTypeOK, Locations
<1>3. /\ pc[p] = "load" /\ loaded' = [loaded EXCEPT ![p] = shms[shmid[m]].word] /\ Goto(p, "store")
      /\ UNCHANGED <<shms, shmid, shown, stored, up, down, num_started, i, kills, program>>
    BY <1>2 DEF Load, ipcVars, runVars, sumVars, sleepVars
<1>4. \A q \in Procs : pc'[q] = IF q = p THEN "store" ELSE pc[q] BY <1>1, <1>2, <1>3, GotoEffect
<1>5. Summing(m)' <=> Summing(m) BY <1>3 DEF Summing
<1>6. LoadedWord(m)'
    <2>1. loaded \in [Procs -> Int] BY <1>1 DEF PlainOK
    <2> QED BY <1>2, <1>3, <1>4, <2>1 DEF WordInv, LoadedWord, Word
<1>7. Total(m)' = Total(m) /\ Word(m)' = Word(m) BY <1>3, <1>5 DEF Total, Word
<1>8. WordIs(m)' BY <1>2, <1>3, <1>4, <1>7 DEF WordInv, WordIs, AtWork
<1>9. DoneOnly' /\ DoneAll(m)' /\ BothForked(m)'
    BY <1>2, <1>3, <1>4, <1>5 DEF WordInv, DoneOnly, DoneAll, BothForked, Done
<1>10. Born(m)' = Born(m) BY <1>2, <1>3, <1>4 DEF Born
<1>11. CountedUp(m)' BY <1>2, <1>3, <1>4, <1>5, <1>10 DEF WordInv, CountedUp, Latest
<1>12. shown[m] = <<>>
    <2>1. CASE p = m BY <1>3, <2>1 DEF WordInv, ShownLast, AtWork
    <2>2. CASE p # m BY <1>3, <2>2 DEF WordInv, ShownLast, Waited
    <2> QED BY <2>1, <2>2
<1>13. ShownLast(m)' /\ ShownSum(m)' /\ ShownLeft(m)'
    BY <1>3, <1>12 DEF ShownLast, ShownSum, ShownLeft
<1> QED BY <1>6, <1>8, <1>9, <1>11, <1>13 DEF WordInv

\* A store adds its change to the integer, and to what the history says.
LEMMA StoreWord ==
    ASSUME OneRun, TInv, NEW m \in Mains, WordInv(m), OneIn, NEW p \in {m} \cup ChildrenOf(m),
           NEW change \in Int, StoreSum(p, change), UNCHANGED <<num_started, i, kills, program>>,
           Total(m) \in Int, Total(m)' = Total(m) + change,
           DoneOnly', DoneAll(m)', CountedUp(m)'
    PROVE  WordInv(m)'
<1>1. ShmsOK /\ PlainOK BY TypeParts DEF TInv
<1>2. /\ p \in Procs /\ m \in Procs /\ m \notin ChildrenOf(m) /\ Run(p) = m
      /\ \A c \in ChildrenOf(m) : c \in Procs /\ "V" \in Locations
    BY OneRunProcs DEF Locations
<1>3. /\ pc[p] = "store" /\ Write(shmid[m], loaded[p] + change) /\ Goto(p, "V")
      /\ UNCHANGED <<loaded, shmid, shown>> /\ "V" \in Locations
    BY <1>2 DEF StoreSum, runVars, Locations
<1>4. \A q \in Procs : pc'[q] = IF q = p THEN "V" ELSE pc[q] BY <1>1, <1>2, <1>3, GotoEffect
<1>5. loaded[p] = Word(m) /\ shmid[m] \in Ids /\ loaded[p] \in Int
    BY <1>1, <1>2, <1>3, MappedWord DEF WordInv, LoadedWord, PlainOK
<1>6. Word(m)' = Word(m) + change
    <2>1. loaded[p] + change \in Int BY <1>5
    <2>2. shms'[shmid[m]].word = loaded[p] + change BY <1>1, <1>3, <1>5, <2>1, WriteEffect
    <2> QED BY <1>3, <1>5, <2>2 DEF Word
<1>7. LoadedWord(m)'
    <2>1. \A q \in Procs : pc'[q] # "store"
        <3> TAKE q \in Procs
        <3>1. pc[q] = "store" => q = p BY <1>2, <1>3 DEF OneIn, Critical
        <3> QED BY <1>4, <3>1
    <2> QED BY <2>1 DEF LoadedWord
<1>8. WordIs(m)'
    <2> SUFFICES ASSUME pc'[m] \in AtWork PROVE Word(m)' = Total(m)' BY DEF WordIs
    <2>1. pc[m] \in AtWork BY <1>2, <1>3, <1>4 DEF AtWork
    <2>2. Word(m) = Total(m) BY <2>1 DEF WordInv, WordIs
    <2> QED BY <1>6, <2>2
<1>9. Summing(m)' <=> Summing(m) BY DEF Summing
<1>10. BothForked(m)' BY <1>2, <1>3, <1>4, <1>9 DEF WordInv, BothForked
<1>11. shown[m] = <<>>
    <2>1. CASE p = m BY <1>3, <2>1 DEF WordInv, ShownLast, AtWork
    <2>2. CASE p # m BY <1>3, <2>2 DEF WordInv, ShownLast, Waited
    <2> QED BY <2>1, <2>2
<1>12. ShownLast(m)' /\ ShownSum(m)' /\ ShownLeft(m)'
    BY <1>3, <1>11 DEF ShownLast, ShownSum, ShownLeft
<1> QED BY <1>7, <1>8, <1>10, <1>12 DEF WordInv

LEMMA SharesApart ==
    ASSUME NEW m \in Mains, NEW c \in ChildrenOf(m), NEW d \in ChildrenOf(m), c # d
    PROVE  Share(c) \cap Share(d) = {}
BY PairOf DEF Share

LEMMA ChildrenFinite ==
    ASSUME NEW m \in Mains, NEW S \in SUBSET ChildrenOf(m)
    PROVE  IsFiniteSet(S) /\ Cardinality(S) \in Nat
<1>1. IsFiniteSet({m}) /\ IsFiniteSet(Numbers) BY SysvIpcAssumption, FS_Singleton
<1>2. IsFiniteSet(ChildrenOf(m)) BY <1>1, FS_Product DEF ChildrenOf
<1> QED BY <1>2, FS_Subset, FS_CardinalityType

LEMMA StoreAdderWord ==
    ASSUME OneRun, TInv, NEW m \in Mains, WordInv(m), OneIn, NEW c \in ChildrenOf(m), Summing(m), Store(c),
           UNCHANGED <<sleepVars, kills, program>>
    PROVE  WordInv(m)'
<1>1. PlainOK BY TypeParts DEF TInv
<1>2. /\ c \in Procs /\ m \in Procs /\ c # m /\ c \in {m} \cup ChildrenOf(m) /\ "V" \in Locations
      /\ \A d \in ChildrenOf(m) : d \in Procs
      /\ stored \subseteq ChildrenOf(m) /\ down \subseteq ChildrenOf(m)
    BY <1>1, OneRunProcs DEF PlainOK, SumTypeOK, SleepTypeOK, Locations
<1>3. /\ pc[c] = "store" /\ Goto(c, "V") /\ StoreSum(c, SumOf(Share(c)))
      /\ stored' = stored \cup {c}
      /\ UNCHANGED <<num_started, i, up, down, kills, program>>
    BY DEF Store, StoreSum, sleepVars
<1>4. \A q \in Procs : pc'[q] = IF q = c THEN "V" ELSE pc[q] BY <1>1, <1>2, <1>3, GotoEffect
<1>5. c \notin stored BY <1>3 DEF WordInv, DoneOnly, Done
<1>6. Summing(m)' BY <1>3 DEF Summing
<1> DEFINE S == UNION {Share(d) : d \in stored \cap ChildrenOf(m)}
<1>7. Total(m) = SumOf(S) /\ Total(m)' = SumOf(S \cup Share(c))
    <2>1. Total(m) = SumOf(S) BY DEF Total
    <2>2. (stored \cup {c}) \cap ChildrenOf(m) = (stored \cap ChildrenOf(m)) \cup {c} OBVIOUS
    <2>3. UNION {Share(d) : d \in (stored \cap ChildrenOf(m)) \cup {c}} = S \cup Share(c) OBVIOUS
    <2>4. Total(m)' = SumOf(UNION {Share(d) : d \in (stored \cup {c}) \cap ChildrenOf(m)})
        BY <1>3, <1>6 DEF Total, Share, SumOf
    <2> QED BY <2>1, <2>2, <2>3, <2>4
<1>8. S \cap Share(c) = {} BY <1>5, SharesApart
<1> HIDE DEF S
<1>9. SumOf(S \cup Share(c)) = SumOf(S) + SumOf(Share(c))
    <2>1. num_values \in Nat /\ \A k \in 0 .. num_values - 1 : k \in S \cup Share(c) => Array[k] \in Int
        BY SharedSumAssumption
    <2> QED BY <1>8, <2>1, SumSplit DEF SumOf
<1>10. SumOf(Share(c)) \in Int /\ Total(m) \in Int BY <1>7, ShareSum
<1>11. DoneOnly' /\ DoneAll(m)'
    BY <1>2, <1>3, <1>4 DEF WordInv, DoneOnly, DoneAll, Done, Summing
<1>12. CountedUp(m)' BY <1>6 DEF CountedUp
<1> QED BY <1>2, <1>3, <1>7, <1>9, <1>10, <1>11, <1>12, StoreWord

LEMMA CountUpWord ==
    ASSUME OneRun, TInv, NEW m \in Mains, WordInv(m), OneIn, ~ Summing(m), CountUp(m),
           UNCHANGED <<sumVars, kills, program>>
    PROVE  WordInv(m)'
<1>1. PlainOK BY TypeParts DEF TInv
<1>2. /\ m \in Procs /\ m \notin ChildrenOf(m) /\ "V" \in Locations /\ m \in {m} \cup ChildrenOf(m)
      /\ \A d \in ChildrenOf(m) : d \in Procs
      /\ stored \subseteq ChildrenOf(m) /\ down \subseteq ChildrenOf(m)
    BY <1>1, OneRunProcs DEF PlainOK, SumTypeOK, SleepTypeOK, Locations
<1>3. /\ pc[m] = "store" /\ Goto(m, "V") /\ StoreSum(m, 1) /\ up' = up \cup {Latest(m)}
      /\ UNCHANGED <<num_started, i, stored, down, kills, program>>
    BY DEF CountUp, StoreSum, sumVars
<1>4. \A q \in Procs : pc'[q] = IF q = m THEN "V" ELSE pc[q] BY <1>1, <1>2, <1>3, GotoEffect
<1>5. ~ Summing(m)' BY <1>3 DEF Summing
<1> DEFINE U == up \cap ChildrenOf(m)
<1>6. Latest(m) \in ChildrenOf(m) /\ Latest(m) \in Born(m) /\ U = Born(m) \ {Latest(m)}
    BY <1>3 DEF WordInv, CountedUp, Born
<1>7. up' \cap ChildrenOf(m) = U \cup {Latest(m)} /\ Latest(m) \notin U BY <1>3, <1>6
<1>8. /\ IsFiniteSet(U) /\ Cardinality(U) \in Nat
      /\ Cardinality(down \cap ChildrenOf(m)) \in Nat
    BY ChildrenFinite
<1>9. Cardinality(U \cup {Latest(m)}) = Cardinality(U) + 1 BY <1>7, <1>8, FS_AddElement
<1>10. Total(m) = Cardinality(U) - Cardinality(down \cap ChildrenOf(m)) BY DEF Total
<1>11. Total(m)' = Cardinality(U \cup {Latest(m)}) - Cardinality(down \cap ChildrenOf(m))
    BY <1>3, <1>5, <1>7 DEF Total
<1> HIDE DEF U
<1>12. Total(m) \in Int /\ Total(m)' = Total(m) + 1 BY <1>8, <1>9, <1>10, <1>11
<1>13. Born(m)' = Born(m) BY <1>2, <1>4 DEF Born
<1>14. CountedUp(m)'
    <2>1. pc'[m] = "V" BY <1>2, <1>4
    <2>2. up' \cap ChildrenOf(m) = Born(m) BY <1>6, <1>7
    <2> QED BY <1>13, <2>1, <2>2 DEF CountedUp
<1>15. DoneOnly' /\ DoneAll(m)'
    BY <1>2, <1>3, <1>4, <1>5 DEF WordInv, DoneOnly, DoneAll
<1> QED BY <1>2, <1>3, <1>12, <1>14, <1>15, StoreWord

LEMMA CountDownWord ==
    ASSUME OneRun, TInv, NEW m \in Mains, WordInv(m), OneIn, NEW c \in ChildrenOf(m), ~ Summing(m),
           CountDown(c), UNCHANGED <<sumVars, kills, program>>
    PROVE  WordInv(m)'
<1>1. PlainOK BY TypeParts DEF TInv
<1>2. /\ c \in Procs /\ m \in Procs /\ c # m /\ c \in {m} \cup ChildrenOf(m) /\ "V" \in Locations
      /\ \A d \in ChildrenOf(m) : d \in Procs
      /\ stored \subseteq ChildrenOf(m) /\ down \subseteq ChildrenOf(m)
    BY <1>1, OneRunProcs DEF PlainOK, SumTypeOK, SleepTypeOK, Locations
<1>3. /\ pc[c] = "store" /\ Goto(c, "V") /\ StoreSum(c, -1) /\ down' = down \cup {c}
      /\ UNCHANGED <<num_started, i, stored, up, kills, program>>
    BY DEF CountDown, StoreSum, sumVars
<1>4. \A q \in Procs : pc'[q] = IF q = c THEN "V" ELSE pc[q] BY <1>1, <1>2, <1>3, GotoEffect
<1>5. ~ Summing(m)' BY <1>3 DEF Summing
<1>6. c \notin down BY <1>3 DEF WordInv, DoneOnly, Done
<1> DEFINE D == down \cap ChildrenOf(m)
<1>7. down' \cap ChildrenOf(m) = D \cup {c} /\ c \notin D BY <1>3, <1>6
<1>8. IsFiniteSet(D) /\ Cardinality(D) \in Nat /\ Cardinality(up \cap ChildrenOf(m)) \in Nat
    BY ChildrenFinite
<1>9. Cardinality(D \cup {c}) = Cardinality(D) + 1 BY <1>7, <1>8, FS_AddElement
<1>10. Total(m) = Cardinality(up \cap ChildrenOf(m)) - Cardinality(D) BY DEF Total
<1>11. Total(m)' = Cardinality(up \cap ChildrenOf(m)) - Cardinality(D \cup {c})
    BY <1>3, <1>5, <1>7 DEF Total
<1> HIDE DEF D
<1>12. Total(m) \in Int /\ Total(m)' = Total(m) + (-1) BY <1>8, <1>9, <1>10, <1>11
<1>13. Born(m)' = Born(m) BY <1>2, <1>3, <1>4 DEF Born
<1>14. CountedUp(m)' BY <1>2, <1>3, <1>4, <1>5, <1>13 DEF WordInv, CountedUp, Latest
<1>15. DoneOnly' /\ DoneAll(m)'
    BY <1>2, <1>3, <1>4, <1>5 DEF WordInv, DoneOnly, DoneAll, Done
<1> DEFINE change == -1
<1>16. change \in Int /\ StoreSum(c, change) /\ Total(m)' = Total(m) + change BY <1>3, <1>12
<1> HIDE DEF change
<1> QED BY <1>2, <1>3, <1>12, <1>14, <1>15, <1>16, StoreWord

LEMMA ReportWord ==
    ASSUME OneRun, TInv, NEW m \in Mains, WordInv(m), Forked(m), Report(m),
           UNCHANGED <<sumVars, sleepVars, kills, program>>
    PROVE  WordInv(m)'
<1>1. PlainOK BY TypeParts DEF TInv
<1>2. /\ m \in Procs /\ m \notin ChildrenOf(m) /\ "shmdt" \in Locations
      /\ \A c \in ChildrenOf(m) : c \in Procs
      /\ stored \subseteq ChildrenOf(m) /\ down \subseteq ChildrenOf(m)
    BY <1>1, OneRunProcs DEF PlainOK, SumTypeOK, SleepTypeOK, Locations
<1>3. /\ pc[m] = "wait" /\ Goto(m, "shmdt") /\ Waited(m)
      /\ shown' = [shown EXCEPT ![m] = <<Word(m)>>]
      /\ UNCHANGED <<shms, shmid, loaded, stored, up, down, num_started, i, kills, program>>
    BY DEF Report, Word, ipcVars, sumVars, sleepVars
<1>4. \A q \in Procs : pc'[q] = IF q = m THEN "shmdt" ELSE pc[q] BY <1>1, <1>2, <1>3, GotoEffect
<1>5. \A c \in ChildrenOf(m) : pc'[c] = pc[c] BY <1>2, <1>4
<1>6. Summing(m)' <=> Summing(m) BY <1>3 DEF Summing
<1>7. shown'[m] = <<Total(m)>>
    <2>1. Word(m) = Total(m) BY <1>3 DEF WordInv, WordIs, AtWork
    <2> QED BY <1>1, <1>3, <2>1 DEF PlainOK
<1>8. LoadedWord(m)'
    <2>1. Word(m)' = Word(m) BY <1>3 DEF Word
    <2> QED BY <1>3, <1>4, <2>1 DEF WordInv, LoadedWord
<1>9. WordIs(m)' /\ BothForked(m)' BY <1>2, <1>4 DEF WordIs, BothForked, AtWork
<1>10. DoneOnly' /\ DoneAll(m)' BY <1>2, <1>3, <1>5, <1>6 DEF WordInv, DoneOnly, DoneAll
<1>11. CountedUp(m)'
    <2>1. Born(m)' = Born(m) BY <1>5 DEF Born
    <2>2. pc'[m] = "shmdt" BY <1>2, <1>4
    <2> QED BY <1>3, <1>6, <2>1, <2>2 DEF WordInv, CountedUp
<1>12. ShownLast(m)'
    <2>1. pc'[m] = "shmdt" BY <1>2, <1>4
    <2>2. Waited(m)' BY <1>3, <1>5 DEF Waited
    <2> QED BY <2>1, <2>2 DEF ShownLast, SettingUp, AtWork
<1>13. ShownSum(m)'
    <2> SUFFICES ASSUME Summing(m), kills = 0 PROVE shown'[m] = <<SumOf(DOMAIN Array)>>
        BY <1>3, <1>6 DEF ShownSum, SumOf
    <2> DEFINE a == <<m, 1>>
               b == <<m, 2>>
    <2>1. a \in ChildrenOf(m) /\ b \in ChildrenOf(m) /\ a[2] = 1 /\ b[2] = 2
        BY NumbersFacts DEF ChildrenOf
    <2>2. num_started[m] = 2 BY <1>3 DEF WordInv, BothForked
    <2>3. \A c \in ChildrenOf(m) : c \in stored <=> c[2] \in {1, 2}
        <3> TAKE c \in ChildrenOf(m)
        <3>1. pc[c] = "unborn" <=> c[2] > 2 BY <2>2 DEF Forked
        <3>2. pc[c] \in {"unborn", "reaped"} BY <1>3 DEF Waited
        <3>3. c \in stored => pc[c] \in Done BY DEF WordInv, DoneOnly
        <3>4. pc[c] \in Done => c \in stored BY DEF WordInv, DoneAll
        <3> QED BY <3>1, <3>2, <3>3, <3>4, PairOf DEF Done
    <2>4. stored \cap ChildrenOf(m) = {a, b} BY <2>1, <2>3, PairOf
    <2>5. Share(a) = {k \in DOMAIN Array : k % 2 = 0} /\ Share(b) = {k \in DOMAIN Array : k % 2 = 1}
        BY <2>1 DEF Share
    <2>6. \A k \in DOMAIN Array : k % 2 = 0 \/ k % 2 = 1 BY SharedSumAssumption
    <2> HIDE DEF a, b
    <2>7. UNION {Share(c) : c \in {a, b}} = DOMAIN Array BY <2>5, <2>6
    <2>8. Total(m) = SumOf(DOMAIN Array) BY <2>4, <2>7 DEF Total
    <2> QED BY <1>7, <2>8
<1>14. ShownLeft(m)'
    <2> DEFINE left == {c \in ChildrenOf(m) : pc[c] = "reaped" /\ c \notin down}
    <2> SUFFICES ASSUME ~ Summing(m) PROVE shown'[m] = <<Cardinality(left)>>
        <3>1. {c \in ChildrenOf(m) : pc'[c] = "reaped" /\ c \notin down'} = left BY <1>3, <1>5
        <3> HIDE DEF left
        <3> QED BY <1>6, <3>1 DEF ShownLeft
    <2>1. up \cap ChildrenOf(m) = Born(m) BY <1>3 DEF WordInv, CountedUp
    <2>2. \A c \in ChildrenOf(m) : pc[c] = "reaped" <=> pc[c] # "unborn" BY <1>3 DEF Waited
    <2>3. down \subseteq Born(m)
        BY <1>2 DEF WordInv, DoneOnly, Done, Born
    <2>4. left = Born(m) \ down BY <2>2 DEF Born
    <2>5. IsFiniteSet(Born(m)) /\ Cardinality(Born(m)) \in Nat /\ Cardinality(down) \in Nat
          /\ IsFiniteSet(down) /\ down \cap ChildrenOf(m) = down
        <3>1. Born(m) \subseteq ChildrenOf(m) BY DEF Born
        <3> QED BY <1>2, <3>1, ChildrenFinite
    <2>6. Total(m) = Cardinality(Born(m)) - Cardinality(down) BY <2>1, <2>5 DEF Total
    <2>7. Cardinality(Born(m) \ down) = Cardinality(Born(m)) - Cardinality(Born(m) \cap down)
        BY <2>5, FS_Difference
    <2>8. Born(m) \cap down = down BY <2>3
    <2> HIDE DEF left
    <2> QED BY <1>7, <2>4, <2>6, <2>7, <2>8
<1> QED BY <1>8, <1>9, <1>10, <1>11, <1>12, <1>13, <1>14 DEF WordInv

\* A child is born at its first call, and has done nothing.
LEMMA BirthWord ==
    ASSUME OneRun, TInv, NEW m \in Mains, WordInv(m), pc[m] = "fork",
           NEW c \in ChildrenOf(m), pc[c] = "unborn", pc'[c] \in {"start", "P"},
           NEW where \in {"fork", "wait", "P"}, pc'[m] = where,
           \A q \in Procs : q # m /\ q # c => pc'[q] = pc[q],
           \A j \in Ids : shms'[j].word = shms[j].word,
           UNCHANGED <<shmid, loaded, shown, stored, up, down, kills, program>>,
           Summing(m) => where # "P" /\ (where = "wait" => num_started'[m] = 2),
           ~ Summing(m) => where = "P" /\ Latest(m)' = c
    PROVE  WordInv(m)'
<1>1. PlainOK BY TypeParts DEF TInv
<1>2. /\ m \in Procs /\ m \notin ChildrenOf(m) /\ c # m /\ c \in Procs /\ Procs = {m} \cup ChildrenOf(m)
      /\ \A d \in ChildrenOf(m) : d \in Procs
      /\ stored \subseteq ChildrenOf(m) /\ down \subseteq ChildrenOf(m)
    BY <1>1, OneRunProcs DEF PlainOK, SumTypeOK, SleepTypeOK
<1>3. Summing(m)' <=> Summing(m) BY DEF Summing
<1>4. Word(m)' = Word(m) /\ Word(m) = Total(m) /\ Total(m)' = Total(m)
    <2>1. shmid[m] \in Ids BY MappedWord DEF AtWork
    <2>2. Word(m) = Total(m) BY DEF WordInv, WordIs, AtWork
    <2> QED BY <1>3, <2>1, <2>2 DEF Word, Total
<1>5. LoadedWord(m)' BY <1>2, <1>4 DEF WordInv, LoadedWord
<1>6. WordIs(m)' BY <1>4 DEF WordIs
<1>7. c \notin stored \cup down BY DEF WordInv, DoneOnly, Done
<1>8. DoneOnly' /\ DoneAll(m)'
    BY <1>2, <1>3, <1>7 DEF WordInv, DoneOnly, DoneAll, Done
<1>9. BothForked(m)' BY <1>3 DEF BothForked
<1>10. CountedUp(m)'
    <2> SUFFICES ASSUME ~ Summing(m)
                 PROVE  up \cap ChildrenOf(m) = Born(m)' \ {c} /\ c \in Born(m)'
        BY <1>3 DEF CountedUp
    <2>1. up \cap ChildrenOf(m) = Born(m) BY DEF WordInv, CountedUp
    <2>2. Born(m)' = Born(m) \cup {c} /\ c \notin Born(m) BY <1>2 DEF Born
    <2> QED BY <2>1, <2>2
<1>11. shown[m] = <<>> BY DEF WordInv, ShownLast, AtWork
<1>12. ShownLast(m)' /\ ShownSum(m)' /\ ShownLeft(m)' BY <1>11 DEF ShownLast, ShownSum, ShownLeft
<1> QED BY <1>5, <1>6, <1>8, <1>9, <1>10, <1>12 DEF WordInv

LEMMA ForkAdderWord ==
    ASSUME OneRun, TInv, NEW m \in Mains, WordInv(m), Forked(m), Summing(m), ForkAdder(m),
           UNCHANGED <<sleepVars, kills, program>>
    PROVE  WordInv(m)'
<1>1. ShmsOK /\ PlainOK /\ RunInv(m) BY TypeParts DEF TInv
<1>2. /\ pc[m] = "fork" /\ num_started[m] \in {0, 1}
      /\ UNCHANGED <<shmid, loaded, shown, stored, up, down, i, kills, program>>
    <2>1. num_started[m] \in 0 .. 2 BY <1>1 DEF PlainOK, SumTypeOK
    <2> QED BY <1>1, <2>1 DEF ForkAdder, sleepVars, RunInv, Loops
<1> DEFINE c == <<m, num_started[m] + 1>>
           where == IF num_started[m] = 1 THEN "wait" ELSE "fork"
<1>3. c \in ChildrenOf(m) /\ c \in Procs /\ m \in Procs /\ c # m /\ c[2] = num_started[m] + 1
    <2>1. num_started[m] + 1 \in {1, 2} BY <1>2
    <2> QED BY <2>1, NumbersFacts, ProcsFacts
<1>4. CASE /\ pc' = [pc EXCEPT ![c] = "P", ![m] = where]
           /\ num_started' = [num_started EXCEPT ![m] = @ + 1]
           /\ Attach(c, shmid[m])
    <2>1. /\ pc'[m] = where /\ pc'[c] = "P"
          /\ \A q \in Procs : q # m /\ q # c => pc'[q] = pc[q]
        <3>1. pc \in [Procs -> Locations] BY <1>1 DEF PlainOK
        <3> HIDE DEF c, where
        <3> QED BY <1>3, <1>4, <3>1
    <2>2. num_started'[m] = num_started[m] + 1 BY <1>1, <1>4 DEF PlainOK, SumTypeOK
    <2>3. where \in {"fork", "wait"} /\ (where = "wait" => num_started'[m] = 2) BY <2>2
    <2>4. pc[c] = "unborn" BY <1>2, <1>3 DEF Forked
    <2>5. \A j \in Ids : shms'[j].word = shms[j].word BY <1>1, <1>3, <1>4, AttachEffect
    <2> HIDE DEF c, where
    <2> QED BY <1>2, <1>3, <2>1, <2>3, <2>4, <2>5, BirthWord
<1>5. CASE Fails(m, "shmdt") /\ UNCHANGED <<num_started, shms>>
    <2>1. /\ Goto(m, "shmdt") /\ "shmdt" \in Locations
          /\ "shmdt" \notin AtWork \cup SettingUp /\ m \in {m} \cup ChildrenOf(m)
        BY <1>5 DEF Fails, Locations, SettingUp, AtWork
    <2> QED BY <1>2, <1>5, <2>1, StillWord
<1> QED BY <1>4, <1>5 DEF ForkAdder

LEMMA ForkSleeperWord ==
    ASSUME OneRun, TInv, NEW m \in Mains, WordInv(m), Forked(m), ~ Summing(m), ForkSleeper(m),
           UNCHANGED <<sumVars, kills, program>>
    PROVE  WordInv(m)'
<1>1. ShmsOK /\ PlainOK /\ RunInv(m) BY TypeParts DEF TInv
<1>2. /\ pc[m] = "fork" /\ i[m] \in Int /\ i[m] \in Numbers /\ i'[m] = i[m] + 1
      /\ UNCHANGED <<shmid, loaded, shown, stored, up, down, num_started, kills, program>>
    <2>1. i[m] \in 1 .. Cardinality(Numbers) + 1 /\ i \in [Mains -> 1 .. Cardinality(Numbers) + 1]
        BY <1>1 DEF PlainOK, SleepTypeOK
    <2>2. /\ pc[m] = "fork" /\ i' = [i EXCEPT ![m] = @ + 1]
          /\ UNCHANGED <<shmid, loaded, shown, stored, up, down, num_started>>
        BY DEF ForkSleeper, runVars, sumVars
    <2>3. i[m] <= Cardinality(Numbers) BY <1>1, <2>2 DEF RunInv, Loops
    <2> QED BY <2>1, <2>2, <2>3, NumbersFacts
<1> DEFINE c == <<m, i[m]>>
<1>3. c \in ChildrenOf(m) /\ c \in Procs /\ m \in Procs /\ c # m /\ c[2] = i[m] BY <1>2, ProcsFacts
<1>4. CASE pc' = [pc EXCEPT ![c] = "start", ![m] = "P"] /\ Attach(c, shmid[m])
    <2>1. /\ pc'[m] = "P" /\ pc'[c] = "start"
          /\ \A q \in Procs : q # m /\ q # c => pc'[q] = pc[q]
        <3>1. pc \in [Procs -> Locations] BY <1>1 DEF PlainOK
        <3> HIDE DEF c
        <3> QED BY <1>3, <1>4, <3>1
    <2>2. pc[c] = "unborn" BY <1>2, <1>3 DEF Forked
    <2>3. Latest(m)' = c BY <1>2 DEF Latest
    <2>4. \A j \in Ids : shms'[j].word = shms[j].word BY <1>1, <1>3, <1>4, AttachEffect
    <2> HIDE DEF c
    <2> QED BY <1>2, <1>3, <2>1, <2>2, <2>3, <2>4, BirthWord
<1>5. CASE Goto(m, AfterFork(i[m])) /\ UNCHANGED shms
    <2> DEFINE where == AfterFork(i[m])
    <2>1. where \in {"fork", "wait"} BY DEF AfterFork
    <2>2. where \in Locations /\ Goto(m, where) /\ where \notin SettingUp /\ pc[m] \in AtWork
          /\ m \in {m} \cup ChildrenOf(m)
        BY <1>2, <1>5, <2>1 DEF Locations, SettingUp, AtWork
    <2> HIDE DEF where
    <2> QED BY <1>2, <1>5, <2>1, <2>2, StillWord
<1> QED BY <1>4, <1>5 DEF ForkSleeper

LEMMA MainWord ==
    ASSUME OneRun, TInv, TInv', NEW m \in Mains, ExclInv(m), WordInv(m), MainSteps(m)
    PROVE  WordInv(m)'
<1>1. UNCHANGED <<kills, program>> /\ m \in {m} \cup ChildrenOf(m) BY DEF MainSteps
<1>2. OneIn /\ Forked(m) BY DEF ExclInv
<1>3. CASE Summing(m) /\ SumMain(m) /\ UNCHANGED sleepVars
    <2>1. CASE ForkAdder(m) BY <1>1, <1>2, <1>3, <2>1, ForkAdderWord
    <2>2. CASE (SetUp(m, "shmdt") \/ Reap(m) \/ Report(m) \/ CleanUp(m)) /\ UNCHANGED sumVars
        BY <1>1, <1>2, <1>3, <2>2, SetUpWord, ReapWord, ReportWord, CleanUpWord
    <2> QED BY <1>3, <2>1, <2>2 DEF SumMain
<1>4. CASE ~ Summing(m) /\ SleepMain(m) /\ UNCHANGED sumVars
    <2>1. CASE ForkSleeper(m) BY <1>1, <1>2, <1>4, <2>1, ForkSleeperWord
    <2>2. CASE CountUp(m) BY <1>1, <1>2, <1>4, <2>2, CountUpWord
    <2>3. CASE (SetUp(m, "returned") \/ Reap(m) \/ Report(m) \/ CleanUp(m)) /\ UNCHANGED sleepVars
        BY <1>1, <1>2, <1>4, <2>3, SetUpWord, ReapWord, ReportWord, CleanUpWord
    <2>4. CASE Down(m) /\ UNCHANGED sleepVars BY <1>1, <1>4, <2>4, DownWord
    <2>5. CASE Load(m) /\ UNCHANGED sleepVars BY <1>1, <1>4, <2>5, LoadWord
    <2>6. CASE Up(m, AfterFork(i[m] - 1)) /\ UNCHANGED sleepVars
        <3> DEFINE where == AfterFork(i[m] - 1)
        <3>1. where \in {"exit", "fork", "wait"} /\ where # "exit" BY DEF AfterFork
        <3>2. Up(m, where) BY <2>6
        <3> HIDE DEF where
        <3> QED BY <1>1, <1>4, <2>6, <3>1, <3>2, UpWord
    <2> QED BY <1>4, <2>1, <2>2, <2>3, <2>4, <2>5, <2>6 DEF SleepMain
<1> QED BY <1>3, <1>4 DEF MainSteps, Summing

LEMMA ChildWord ==
    ASSUME OneRun, TInv, NEW m \in Mains, ExclInv(m), WordInv(m), NEW c \in ChildrenOf(m), ChildSteps(c)
    PROVE  WordInv(m)'
<1>1. c \in {m} \cup ChildrenOf(m) /\ c # m /\ Parent(c) = m /\ UNCHANGED <<kills, program>>
    BY OneRunProcs, ProcsFacts DEF ChildSteps, ChildrenOf, Parent
<1>2. OneIn BY DEF ExclInv
<1>3. CASE Summing(m) /\ Store(c) /\ UNCHANGED sleepVars BY <1>1, <1>2, <1>3, StoreAdderWord
<1>4. CASE ~ Summing(m) /\ CountDown(c) /\ UNCHANGED sumVars BY <1>1, <1>2, <1>4, CountDownWord
<1>5. CASE /\ Sleep(c) \/ Down(c) \/ Load(c) \/ Up(c, "exit") \/ Exit(c)
           /\ UNCHANGED <<sumVars, sleepVars>>
    <2>1. CASE Sleep(c) BY <1>1, <1>5, <2>1, SleepWord
    <2>2. CASE Load(c) BY <1>1, <1>5, <2>2, LoadWord
    <2>3. CASE Down(c) BY <1>1, <1>5, <2>3, DownWord
    <2>4. CASE Up(c, "exit")
        <3> DEFINE where == "exit"
        <3>1. where \in {"exit", "fork", "wait"} /\ Up(c, where) /\ (c = m <=> where # "exit")
            BY <1>1, <2>4
        <3> HIDE DEF where
        <3> QED BY <1>1, <1>5, <3>1, UpWord
    <2>5. CASE Exit(c)
        <3> DEFINE where == "zombie"
        <3>1. /\ Exits(c) /\ Goto(c, where) /\ pc[c] \notin {"unborn", "reaped"} /\ pc[c] \in Done
              /\ where = "zombie" /\ UNCHANGED <<runVars, loaded>>
            BY <2>5 DEF Exit, Done
        <3> HIDE DEF where
        <3> QED BY <1>1, <1>5, <3>1, ExitsWord
    <2> QED BY <1>5, <2>1, <2>2, <2>3, <2>4, <2>5
<1> QED BY <1>1, <1>3, <1>4, <1>5 DEF ChildSteps, SumChild, SleepChild, Summing

LEMMA KillWord ==
    ASSUME OneRun, TInv, NEW m \in Mains, WordInv(m), NEW p \in Procs, Kill(p),
           UNCHANGED <<sumVars, sleepVars, program>>
    PROVE  WordInv(m)'
<1>1. p \in {m} \cup ChildrenOf(m) /\ Mains = {m} BY OneRunProcs
<1> DEFINE where == IF p \in Mains THEN "killed" ELSE "zombie"
<1>2. Exits(p) /\ Goto(p, where) /\ pc[p] \notin {"unborn", "reaped", "returned"}
      /\ UNCHANGED <<runVars, loaded>>
    BY DEF Kill, Gone
<1>3. kills' # 0
    <2>1. kills \in Nat BY TypeParts, IpcRunAssumption DEF TInv, PlainOK
    <2> QED BY <2>1 DEF Kill
<1>4. (p = m => where = "killed") /\ (p # m => where = "zombie") BY <1>1
<1> HIDE DEF where
<1> QED BY <1>1, <1>2, <1>3, <1>4, ExitsWord

LEMMA WordInvNext ==
    ASSUME OneRun, NEW m \in Mains
    PROVE  TInv /\ TInv' /\ ExclInv(m) /\ WordInv(m) /\ [Next]_vars => WordInv(m)'
<1> SUFFICES ASSUME TInv, TInv', ExclInv(m), WordInv(m), [Next]_vars PROVE WordInv(m)' OBVIOUS
<1>1. Mains = {m} /\ Children = ChildrenOf(m) BY OneRunProcs
<1>2. CASE UNCHANGED vars
    BY <1>2, Unmoved
    DEF WordInv, LoadedWord, WordIs, DoneOnly, DoneAll, BothForked, CountedUp, ShownLast, ShownSum,
        ShownLeft, Word, Total, Born, Latest, Summing, Waited, Share, SumOf
<1> QED BY <1>1, <1>2, MainWord, ChildWord, KillWord DEF Next

LEMMA WordInvInit ==
    ASSUME OneRun, NEW m \in Mains
    PROVE  Init => WordInv(m)
<1> SUFFICES ASSUME Init PROVE WordInv(m) OBVIOUS
<1>1. /\ pc[m] = "ftok" /\ shown[m] = <<>> /\ stored = {} /\ up = {} /\ down = {}
      /\ \A c \in ChildrenOf(m) : pc[c] = "unborn"
    BY ProcsFacts DEF Init, RunInit, SumInit, SleepInit
<1>2. LoadedWord(m)
    <2>1. \A p \in Procs : pc[p] # "store" BY <1>1, OneRunProcs
    <2> QED BY <2>1 DEF LoadedWord
<1>3. CountedUp(m) BY <1>1 DEF CountedUp, Born
<1> QED BY <1>1, <1>2, <1>3
        DEF WordInv, WordIs, AtWork, DoneOnly, DoneAll, Done, BothForked, ShownLast, ShownSum, ShownLeft

LEMMA WordInvariant ==
    ASSUME OneRun, NEW m \in Mains
    PROVE  Spec => []WordInv(m)
<1>1. Init => WordInv(m) BY WordInvInit
<1>2. TInv /\ TInv' /\ ExclInv(m) /\ WordInv(m) /\ [Next]_vars => WordInv(m)' BY WordInvNext
<1> QED BY <1>1, <1>2, TInvariant, ExclInvariant, PTL DEF Spec

\* With one run no change of the shared integer is lost or done twice, in
\* whatever order its processes come to it and whoever is killed.
THEOREM NoChangeLost ==
    ASSUME OneRun
    PROVE  Spec => []WordAddsUp
<1>1. CASE Mains = {}
    <2>1. WordAddsUp BY <1>1 DEF WordAddsUp
    <2> QED BY <2>1, PTL
<1>2. CASE Mains # {}
    <2>1. PICK m : m \in Mains BY <1>2
    <2>2. WordInv(m) => WordAddsUp
        BY <2>1, OneRunProcs DEF WordInv, WordIs, WordAddsUp, Word, Total, Summing, AtWork
    <2>3. Spec => []WordInv(m) BY <2>1, WordInvariant
    <2> QED BY <2>2, <2>3, PTL
<1> QED BY <1>1, <1>2

\* The sum that mpsumarray prints is the sum of the whole array, when nobody
\* was killed.
THEOREM SumPrinted ==
    ASSUME OneRun
    PROVE  Spec => []PrintedSum
<1>1. CASE Mains = {}
    <2>1. PrintedSum BY <1>1 DEF PrintedSum
    <2> QED BY <2>1, PTL
<1>2. CASE Mains # {}
    <2>1. PICK m : m \in Mains BY <1>2
    <2>2. WordInv(m) => PrintedSum
        BY <2>1, OneRunProcs DEF WordInv, ShownSum, PrintedSum, Summing
    <2>3. Spec => []WordInv(m) BY <2>1, WordInvariant
    <2> QED BY <2>2, <2>3, PTL
<1> QED BY <1>1, <1>2

\* The number that sleepingprocesses reports is the number of its children
\* that were killed before they counted themselves down.
THEOREM ReportRight ==
    ASSUME OneRun
    PROVE  Spec => []ReportExact
<1>1. CASE Mains = {}
    <2>1. ReportExact BY <1>1 DEF ReportExact
    <2> QED BY <2>1, PTL
<1>2. CASE Mains # {}
    <2>1. PICK m : m \in Mains BY <1>2
    <2>2. WordInv(m) => ReportExact
        BY <2>1, OneRunProcs DEF WordInv, ShownLeft, ReportExact, Summing
    <2>3. Spec => []WordInv(m) BY <2>1, WordInvariant
    <2> QED BY <2>2, <2>3, PTL
<1> QED BY <1>1, <1>2
=============================================================================
