---------------------------- MODULE AbstractList ----------------------------
(***************************************************************************)
(* What the two linked lists promise: a sequence of nodes with a word each *)
(* that is kept in order, equal words in the order they came, and freed    *)
(* from the end; or one that grows at both ends and shrinks at the front.  *)
(***************************************************************************)
EXTENDS Integers, Sequences

CONSTANTS Nodes, Words

VARIABLES
    ordered,            \* which of the two it is
    items               \* pairs of a node and its word

Init == ordered \in BOOLEAN /\ items = <<>>

InsertInOrder(item) ==
    /\ ordered
    /\ \E k \in 0 .. Len(items) :
         /\ \A i \in 1 .. k : items[i][2] <= item[2]
         /\ \A i \in k + 1 .. Len(items) : item[2] < items[i][2]
         /\ items' = SubSeq(items, 1, k) \o <<item>> \o SubSeq(items, k + 1, Len(items))

FreeLast == ordered /\ items # <<>> /\ items' = SubSeq(items, 1, Len(items) - 1)

PushBack(item)  == ~ ordered /\ items' = Append(items, item)
PushFront(item) == ~ ordered /\ items' = <<item>> \o items
PopFront        == ~ ordered /\ items # <<>> /\ items' = Tail(items)

IsNew(n) == \A i \in DOMAIN items : items[i][1] # n

Next ==
    /\ \/ \E n \in Nodes, w \in Words :
            IsNew(n) /\ (InsertInOrder(<<n, w>>) \/ PushBack(<<n, w>>) \/ PushFront(<<n, w>>))
       \/ FreeLast \/ PopFront
    /\ UNCHANGED ordered

Spec == Init /\ [][Next]_<<ordered, items>>
=============================================================================
