------------------------------- MODULE Lists -------------------------------
(***************************************************************************)
(* lab 3/linked_list.h and LinkedList/linked_list.h with their node.h: a   *)
(* doubly linked list in which nodes are inserted in order, and one to     *)
(* which they are added, and from which they are taken, at the ends.       *)
(* Their two mains do such operations with words of their own.             *)
(***************************************************************************)
EXTENDS Integers, Sequences

CONSTANTS
    MaxNodes,           \* bound: the nodes that are created
    Words               \* what a node holds, numbered as strcmp orders them

ASSUME ListsAssumption == MaxNodes \in Nat /\ Words \subseteq Nat

Nodes == 1 .. MaxNodes
NULL == 0

VARIABLES
    kind,               \* which of the two programs: lab3, LinkedList or none
    lpc,                \* what it does: idle, walk, free, done
    head, tail, num_nodes,
    data, next, prev,   \* of each node
    created,            \* how many nodes were created
    freed,              \* those freed
    walk                \* insert_in_order's n, p and q

listVars == <<kind, lpc, head, tail, num_nodes, data, next, prev, created, freed, walk>>

NoWalk == [n |-> NULL, p |-> NULL, q |-> NULL]

ListInit(k) ==
    /\ kind = k
    /\ lpc = "idle"
    /\ head = NULL /\ tail = NULL /\ num_nodes = 0
    /\ data = [n \in Nodes |-> 0]
    /\ next = [n \in Nodes |-> NULL]
    /\ prev = [n \in Nodes |-> NULL]
    /\ created = 0 /\ freed = {}
    /\ walk = NoWalk

\* create_node: the n that is created next, with its word.
create_node(word) ==
    /\ created < MaxNodes
    /\ created' = created + 1
    /\ data' = [data EXCEPT ![created + 1] = word]

(***************************************************************************)
(* lab 3: insert_in_order, and free_list at the end.                       *)
(***************************************************************************)
StartInsert(word) ==
    /\ kind = "lab3" /\ lpc = "idle"
    /\ create_node(word)
    /\ num_nodes' = num_nodes + 1
    /\ walk' = [n |-> created + 1, p |-> head, q |-> NULL]
    /\ lpc' = "walk"
    /\ UNCHANGED <<kind, head, tail, next, prev, freed>>

Passes_Less(p, n) == data[p] < data[n]
Passes(p, n) == data[p] <= data[n]

WalkOn ==
    /\ lpc = "walk"
    /\ walk.p # NULL /\ Passes(walk.p, walk.n)
    /\ walk' = [walk EXCEPT !.q = walk.p, !.p = next[walk.p]]
    /\ UNCHANGED <<kind, lpc, head, tail, num_nodes, data, next, prev, created, freed>>

Link ==
    /\ lpc = "walk"
    /\ ~ (walk.p # NULL /\ Passes(walk.p, walk.n))
    /\ LET n == walk.n  p == walk.p  q == walk.q
       IN  /\ next' = [m \in Nodes |-> IF m = n THEN p ELSE IF m = q THEN n ELSE next[m]]
           /\ prev' = [m \in Nodes |-> IF m = n THEN q ELSE IF m = p THEN n ELSE prev[m]]
           /\ tail' = IF p = NULL THEN n ELSE tail
           /\ head' = IF q = NULL THEN n ELSE head
    /\ walk' = NoWalk
    /\ lpc' = "idle"
    /\ UNCHANGED <<kind, num_nodes, data, created, freed>>

StartFree ==
    /\ kind = "lab3" /\ lpc = "idle"
    /\ lpc' = "free"
    /\ UNCHANGED <<kind, head, tail, num_nodes, data, next, prev, created, freed, walk>>

\* free_list goes back from the tail; head and num_nodes keep their values.
FreeTail ==
    /\ lpc = "free"
    /\ IF tail = NULL
       THEN lpc' = "done" /\ UNCHANGED <<tail, freed>>
       ELSE freed' = freed \cup {tail} /\ tail' = prev[tail] /\ UNCHANGED lpc
    /\ UNCHANGED <<kind, head, num_nodes, data, next, prev, created, walk>>

(***************************************************************************)
(* LinkedList.                                                             *)
(***************************************************************************)
push_back(word) ==
    /\ kind = "LinkedList" /\ lpc = "idle"
    /\ create_node(word)
    /\ LET n == created + 1
       IN  IF head = NULL
           THEN head' = n /\ tail' = n /\ UNCHANGED <<next, prev>>
           ELSE /\ next' = [next EXCEPT ![tail] = n]
                /\ prev' = [prev EXCEPT ![n] = tail]
                /\ tail' = n
                /\ UNCHANGED head
    /\ num_nodes' = num_nodes + 1
    /\ UNCHANGED <<kind, lpc, freed, walk>>

push_front(word) ==
    /\ kind = "LinkedList" /\ lpc = "idle"
    /\ create_node(word)
    /\ LET n == created + 1
       IN  IF head = NULL
           THEN head' = n /\ tail' = n /\ UNCHANGED <<next, prev>>
           ELSE /\ prev' = [prev EXCEPT ![head] = n]
                /\ next' = [next EXCEPT ![n] = head]
                /\ head' = n
                /\ UNCHANGED tail
    /\ num_nodes' = num_nodes + 1
    /\ UNCHANGED <<kind, lpc, freed, walk>>

\* pop_front, and main frees what it returns.
PrevAfterPop_Old == prev
PrevAfterPop == [prev EXCEPT ![next[head]] = NULL]

pop_front ==
    /\ kind = "LinkedList" /\ lpc = "idle"
    /\ head # NULL
    /\ IF next[head] = NULL
       THEN head' = NULL /\ tail' = NULL /\ UNCHANGED <<next, prev>>
       ELSE /\ head' = next[head]
            /\ prev' = PrevAfterPop
            /\ next' = [next EXCEPT ![head] = NULL]
            /\ UNCHANGED tail
    /\ num_nodes' = num_nodes - 1
    /\ freed' = freed \cup {head}
    /\ UNCHANGED <<kind, lpc, data, created, walk>>

ListStep ==
    \/ \E word \in Words : StartInsert(word) \/ push_back(word) \/ push_front(word)
    \/ WalkOn \/ Link \/ StartFree \/ FreeTail \/ pop_front

(***************************************************************************)
(* The list as its readers see it: along next from the head, along prev    *)
(* from the tail.  Pointers that run in a circle are followed for as many  *)
(* steps as there are nodes and one more.                                  *)
(***************************************************************************)
Chain(first, link) ==
    LET At[i \in 0 .. MaxNodes] == IF i = 0 THEN first
                                   ELSE IF At[i - 1] = NULL THEN NULL ELSE link[At[i - 1]]
        size == CHOOSE i \in 0 .. MaxNodes + 1 :
                    /\ \A j \in 0 .. i - 1 : At[j] # NULL
                    /\ i = MaxNodes + 1 \/ At[i] = NULL
    IN  [i \in 1 .. size |-> At[i - 1]]

Forward == Chain(head, next)
Backward == Chain(tail, prev)
=============================================================================
