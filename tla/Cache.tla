------------------------------- MODULE Cache --------------------------------
(***************************************************************************)
(* Cache and its LRUList (src/src/cache.rs): a hash map whose entries are  *)
(* chained in a doubly linked list, most recently used first.              *)
(*                                                                         *)
(* The heap holds the list's nodes at the addresses in `alloc`, and the    *)
(* list's own head node at Head.  `next` owns the node it points at (a     *)
(* Box), `prev` and the handles in the map are raw pointers.  An operation *)
(* on the list is an operator on the heap that performs the code's pointer *)
(* assignments and swaps in their order.                                   *)
(*                                                                         *)
(* `clock` and `stamp` are history: stamp[n] is the time node n was last   *)
(* put to the front.                                                       *)
(***************************************************************************)
EXTENDS Integers, FiniteSets

CONSTANTS Key, Val,     \* cache keys (cache id and block offset) and elements
          Addr,         \* the addresses a node may get
          Head,         \* the address of the list's head node
          None,         \* Option::None
          Cap,          \* Cache::cap
          MaxUses,      \* bound on the number of uses, for the checker
          MaxIds        \* bound on the cache ids, for the checker

ASSUME CapAssumption == Cap \in Nat \ {0}

ASSUME AddrAssumption == Head \notin Addr /\ None \notin Addr /\ Head # None

ASSUME ElementAssumption == None \notin Val /\ None \notin Key

Node == Addr \union {Head}

NoEntry == [elem |-> None, handle |-> None]

HeapType ==
    [next : [Node -> Addr \union {None}],
     prev : [Node -> Node \union {None}],
     data : [Node -> Key \union {None}]]

EmptyHeap ==
    [next |-> [n \in Node |-> None],
     prev |-> [n \in Node |-> None],
     data |-> [n \in Node |-> None]]

\* LRUList::insert: node n, with data k, becomes the first
ListInsert(h, n, k) ==
    LET first == h.next[Head]
    IN  [next |-> [h.next EXCEPT ![n] = first, ![Head] = n],
         prev |-> IF first # None
                  THEN [h.prev EXCEPT ![n] = Head, ![first] = n]
                  ELSE [h.prev EXCEPT ![n] = Head, ![Head] = n],
         data |-> [h.data EXCEPT ![n] = k]]

\* (deliberately wrong, for the mutant of LastNode: one step too few)
LastNode_OneStep(h) == IF h.prev[Head] = None THEN None ELSE h.next[h.prev[Head]]

\* the node that LRUList::remove_last takes out: not head.prev itself but what
\* the node before it owns
LastNode(h) ==
    IF h.prev[Head] = None THEN None ELSE h.next[h.prev[h.prev[Head]]]

\* (deliberately wrong, for the mutant of RemoveLast: the list is closed into a
\* circle)
RemoveLast_Circular(h) ==
    [next |-> [h.next EXCEPT ![h.prev[h.prev[Head]]] = Head],
     prev |-> [h.prev EXCEPT ![Head] = h.prev[LastNode(h)]],
     data |-> [h.data EXCEPT ![LastNode(h)] = None]]

\* LRUList::remove_last, when it finds a node
RemoveLast(h) ==
    [next |-> [h.next EXCEPT ![h.prev[h.prev[Head]]] = None],
     prev |-> [h.prev EXCEPT ![Head] = h.prev[LastNode(h)]],
     data |-> [h.data EXCEPT ![LastNode(h)] = None]]

SwapNext(h, m, n) == [h EXCEPT !.next = [@ EXCEPT ![m] = h.next[n], ![n] = h.next[m]]]

SwapPrev(h, m, n) == [h EXCEPT !.prev = [@ EXCEPT ![m] = h.prev[n], ![n] = h.prev[m]]]

\* (deliberately wrong, for the mutant of CloseGap: head.prev is forgotten)
CloseGap_KeepsTail(h, n) ==
    IF h.next[n] # None
    THEN [h EXCEPT !.prev = [@ EXCEPT ![h.next[n]] = h.prev[n]]]
    ELSE h

\* LRUList::reinsert_front begins: the node after n, or head if there is none, gets n's predecessor
CloseGap(h, n) ==
    IF h.next[n] # None
    THEN [h EXCEPT !.prev = [@ EXCEPT ![h.next[n]] = h.prev[n]]]
    ELSE [h EXCEPT !.prev = [@ EXCEPT ![Head] = h.prev[n]]]

\* n's new neighbours point back: the second node, or head if there is none
LinkBack(h, n) ==
    IF h.next[n] # None
    THEN [h EXCEPT !.prev = [@ EXCEPT ![n] = h.prev[h.next[n]], ![h.next[n]] = n]]
    ELSE [h EXCEPT !.prev = [@ EXCEPT ![Head] = n]]

\* LRUList::reinsert_front
ReinsertFront(h, n) ==
    LinkBack(SwapNext(SwapNext(CloseGap(h, n), h.prev[n], n), n, Head), n)

\* LRUList::remove.  The first swap leaves prev[n] = n when n is followed by
\* another node, and then the second one swaps n's own next with itself.
ListRemove(h, n) ==
    LET h1 == IF h.next[n] # None THEN SwapPrev(h, h.next[n], n) ELSE h
        h2 == IF h1.prev[n] # None THEN SwapNext(h1, h1.prev[n], n) ELSE h1
    IN  [h2 EXCEPT !.data = [@ EXCEPT ![n] = None]]

-----------------------------------------------------------------------------

VARIABLES heap,         \* the list's nodes and its head
          alloc,        \* the addresses of the nodes not freed
          count,        \* LRUList::count
          map,          \* Cache::map
          id,           \* Cache::id
          panicked,     \* a panic!, assert! or unwrap of the code failed
          clock,        \* history: the number of uses
          stamp         \* history: the time of each node's last use

vars == <<heap, alloc, count, map, id, panicked, clock, stamp>>

Cached == {k \in Key : map[k].handle # None}

TypeOK ==
    /\ heap \in HeapType
    /\ alloc \in SUBSET Addr
    /\ count \in Nat
    /\ map \in [Key -> [elem : Val \union {None}, handle : Addr \union {None}]]
    /\ id \in Nat
    /\ panicked \in BOOLEAN
    /\ clock \in Nat
    /\ stamp \in [Addr -> Nat]

Init ==
    /\ heap = EmptyHeap
    /\ alloc = {}
    /\ count = 0
    /\ map = [k \in Key |-> NoEntry]
    /\ id = 0
    /\ panicked = FALSE
    /\ clock = 0
    /\ stamp = [n \in Addr |-> 0]

\* Cache::new_cache_id
new_cache_id ==
    /\ ~panicked
    /\ id < MaxIds
    /\ id' = id + 1
    /\ UNCHANGED <<heap, alloc, count, map, panicked, clock, stamp>>

Used(n) == clock' = clock + 1 /\ stamp' = [stamp EXCEPT ![n] = clock + 1]

\* (deliberately wrong, for the mutant of get: a hit is not a use)
get_NotAUse(k) ==
    /\ ~panicked
    /\ clock < MaxUses
    /\ k \in Cached
    /\ clock' = clock + 1
    /\ UNCHANGED <<heap, alloc, count, map, id, panicked, stamp>>

\* Cache::get of a cached key; for any other key it changes nothing
get(k) ==
    /\ ~panicked
    /\ clock < MaxUses
    /\ k \in Cached
    /\ Used(map[k].handle)
    /\ heap' = ReinsertFront(heap, map[k].handle)
    /\ panicked' = (heap'.next[Head] = None \/ heap'.prev[Head] = None)
    /\ UNCHANGED <<alloc, count, map, id>>

\* the end of Cache::insert, on the heap h, map m and list length c that are
\* left once there is room
PutFirst(h, m, c, free, k, v) ==
    \E n \in free :
        /\ heap' = ListInsert(h, n, k)
        /\ alloc' = (Addr \ free) \union {n}
        /\ map' = [m EXCEPT ![k] = [elem |-> v, handle |-> n]]
        /\ count' = c + 1
        /\ Used(n)

Full == count >= Cap

\* remove_last() finds a node that holds a key the map knows
CanEvict ==
    /\ LastNode(heap) # None
    /\ heap.data[LastNode(heap)] \in Cached

\* (deliberately wrong, for the mutant of Forget: the map keeps the evicted key)
Forget_Nothing(k) == map

\* what the map is without the key k
Forget(k) == [map EXCEPT ![k] = NoEntry]

\* Cache::insert
insert(k, v) ==
    /\ ~panicked
    /\ clock < MaxUses
    /\ IF ~Full
       THEN PutFirst(heap, map, count, Addr \ alloc, k, v) /\ UNCHANGED panicked
       ELSE IF CanEvict
            THEN /\ PutFirst(RemoveLast(heap), Forget(heap.data[LastNode(heap)]), count - 1,
                             (Addr \ alloc) \union {LastNode(heap)}, k, v)
                 /\ UNCHANGED panicked
            ELSE /\ panicked' = TRUE
                 /\ UNCHANGED <<heap, alloc, count, map, clock, stamp>>
    /\ UNCHANGED id

\* Cache::remove of a cached key; the node is not freed, it owns itself
remove(k) ==
    /\ ~panicked
    /\ k \in Cached
    /\ heap' = ListRemove(heap, map[k].handle)
    /\ map' = Forget(k)
    /\ count' = count - 1
    /\ UNCHANGED <<alloc, id, panicked, clock, stamp>>

\* The cache as Table::read_block uses it: a key is inserted only after a get()
\* under the same lock did not find it, and nothing is ever removed.
Next ==
    \/ new_cache_id
    \/ \E k \in Key : get(k)
    \/ \E k \in Key, v \in Val : k \notin Cached /\ insert(k, v)

Spec == Init /\ [][Next]_vars

\* A user of the cache who also invalidates elements.
RemoveSpec == Init /\ [][Next \/ \E k \in Key : remove(k)]_vars

-----------------------------------------------------------------------------

\* No assertion, unwrap or panic! of the cache is reached: head.next and
\* head.prev are set after a get(), and a full cache finds a last node whose
\* key is in the map ("could not remove_last(); bug!").
NeverPanics == ~panicked

\* h is one chain of the nodes al from Head: next and prev are inverse, the
\* last node is the one head.prev names, and from node to node the uses lie
\* further back.
Chain(h, al, st) ==
    /\ \A n \in al : h.prev[n] \in al \union {Head} /\ h.next[h.prev[n]] = n
    /\ \A n \in al : h.prev[n] # Head => st[h.prev[n]] > st[n]
    /\ \A n \in al \union {Head} :
          h.next[n] # None => h.next[n] \in al /\ h.prev[h.next[n]] = n
    /\ \A n \in al : h.next[n] = None <=> n = h.prev[Head]
    /\ al # {} => h.prev[Head] \in al /\ h.next[Head] # None

\* The list is what the raw pointers take it for, after any number of
\* insertions, hits and evictions: one chain of the nodes not freed, in the
\* order of use.
ListOK ==
    /\ Chain(heap, alloc, stamp)
    /\ \A n \in alloc : stamp[n] <= clock

\* the keys that a map m holds
KeysOf(m) == {k \in Key : m[k].handle # None}

\* the map m and the nodes al of h refer to each other
Agree(h, al, m) ==
    /\ \A k \in Key : m[k].handle # None <=> m[k].elem # None
    /\ \A k \in KeysOf(m) : m[k].handle \in al /\ h.data[m[k].handle] = k
    /\ \A n \in al : h.data[n] \in KeysOf(m) /\ m[h.data[n]].handle = n

\* Map and list hold the same keys: a handle is the node that carries its key,
\* every node is some key's handle, and the count the evictions go by is the
\* number of keys, never above the capacity.
MapListAgree ==
    /\ Agree(heap, alloc, map)
    /\ IsFiniteSet(Cached)
    /\ count = Cardinality(Cached)
    /\ count <= Cap

\* The cache is an LRU cache: get() and insert() are uses, and an insertion
\* into a full cache drops exactly the key whose last use is the oldest.
Abs == INSTANCE LRU WITH
           elems   <- [k \in Key |-> map[k].elem],
           lastUse <- [k \in Key |-> IF k \in Cached THEN stamp[map[k].handle] ELSE 0]

ImplementsLRU == Abs!Spec
=============================================================================
