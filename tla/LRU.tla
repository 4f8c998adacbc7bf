-------------------------------- MODULE LRU ---------------------------------
(***************************************************************************)
(* What Cache (src/src/cache.rs) promises: a map of bounded size that, when *)
(* it is full, gives up the element whose last use lies furthest back.     *)
(***************************************************************************)
EXTENDS Integers, FiniteSets

CONSTANTS Key,          \* the cache keys
          Val,          \* the cached elements
          None,         \* no element
          Cap           \* the capacity

VARIABLES elems,        \* the element cached for each key, or None
          lastUse,      \* for each cached key, the time of its last use
          clock,        \* the number of uses so far
          id            \* the cache id handed out last

vars == <<elems, lastUse, clock, id>>

Present == {k \in Key : elems[k] # None}

Init ==
    /\ elems = [k \in Key |-> None]
    /\ lastUse = [k \in Key |-> 0]
    /\ clock = 0
    /\ id = 0

\* the keys that a full cache may give up: at most one, as no two uses coincide
Oldest == {k \in Present : \A j \in Present : lastUse[k] <= lastUse[j]}

Get(k) ==
    /\ k \in Present
    /\ lastUse' = [lastUse EXCEPT ![k] = clock + 1]
    /\ clock' = clock + 1
    /\ UNCHANGED <<elems, id>>

InsertNew(k, v) ==
    /\ Cardinality(Present) < Cap
    /\ elems' = [elems EXCEPT ![k] = v]
    /\ lastUse' = [lastUse EXCEPT ![k] = clock + 1]
    /\ clock' = clock + 1
    /\ UNCHANGED id

InsertEvicting(k, v) ==
    /\ Cardinality(Present) >= Cap
    /\ \E old \in Oldest :
          /\ elems' = [elems EXCEPT ![old] = None, ![k] = v]
          /\ lastUse' = [lastUse EXCEPT ![old] = 0, ![k] = clock + 1]
    /\ clock' = clock + 1
    /\ UNCHANGED id

NewId == id' = id + 1 /\ UNCHANGED <<elems, lastUse, clock>>

Next ==
    \/ \E k \in Key : Get(k)
    \/ \E k \in Key, v \in Val : k \notin Present /\ (InsertNew(k, v) \/ InsertEvicting(k, v))
    \/ NewId

Spec == Init /\ [][Next]_vars
=============================================================================
