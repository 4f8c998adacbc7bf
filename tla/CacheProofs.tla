---------------------------- MODULE CacheProofs -----------------------------
(***************************************************************************)
(* Cache: the linked list stays one chain in the order of use, map and     *)
(* list stay in step, no panic is reached, and the cache implements LRU.   *)
(* BlockCache: threads that call read_block() use the shared cache as      *)
(* Cache!Spec allows, so that all this holds for them, and a hit is never  *)
(* another table's block.                                                  *)
(***************************************************************************)
EXTENDS BlockCache, FiniteSetTheorems, WellFoundedInduction, TLAPS

USE DEF Node

\* Every non-empty set of naturals has a least element.
LEMMA LeastNat ==
    ASSUME NEW S \in SUBSET Nat, S # {}
    PROVE  \E x \in S : \A y \in S : x <= y
<1>1. PICK x \in S : \A y \in S : ~(<<y, x>> \in OpToRel(<, Nat))
  BY WFMin, NatLessThanWellFounded
<1>2. \A y \in S : ~(y < x)
  BY <1>1 DEF OpToRel
<1> QED BY <1>2

\* The node a chain ends with, which remove_last() takes out, is the one used
\* least recently; if it is also the first, it is the only one.
LEMMA LastIsOldest ==
    ASSUME NEW h \in HeapType, NEW al \in SUBSET Addr, NEW st \in [Addr -> Nat],
           Chain(h, al, st), al # {}
    PROVE  /\ LastNode(h) = h.prev[Head]
           /\ LastNode(h) \in al
           /\ \A n \in al : st[LastNode(h)] <= st[n]
           /\ h.prev[LastNode(h)] = Head => al = {LastNode(h)}
<1> DEFINE last == h.prev[Head]
<1>1. last \in al /\ last # None
  BY AddrAssumption DEF Chain
<1>2. LastNode(h) = last
  BY <1>1 DEF Chain, LastNode
<1>3. ASSUME NEW m \in al, m # last
      PROVE  \E q \in al : h.prev[q] = m /\ st[q] < st[m]
  <2>1. h.next[m] # None
    BY <1>3 DEF Chain
  <2>2. h.next[m] \in al /\ h.prev[h.next[m]] = m
    BY <2>1 DEF Chain
  <2>3. m # Head
    BY AddrAssumption
  <2> QED BY <2>2, <2>3 DEF Chain
<1>4. ASSUME NEW n \in al PROVE st[last] <= st[n]
  <2> DEFINE S == {st[m] : m \in al}
  <2>1. PICK x \in S : \A y \in S : x <= y
    <3>1. S \in SUBSET Nat /\ S # {}
      OBVIOUS
    <3> HIDE DEF S
    <3> QED BY <3>1, LeastNat
  <2>2. PICK m \in al : st[m] = x
    OBVIOUS
  <2>3. \A q \in al : st[m] <= st[q]
    BY <2>1, <2>2
  <2>4. m = last
    BY <2>3, <1>3
  <2> QED BY <2>3, <2>4
<1>5. ASSUME h.prev[last] = Head, NEW n \in al, n # last
      PROVE  FALSE
  <2> DEFINE S == {st[m] : m \in al \ {last}}
  <2>1. PICK x \in S : \A y \in S : x <= y
    <3>1. S \in SUBSET Nat /\ S # {}
      BY <1>5
    <3> HIDE DEF S
    <3> QED BY <3>1, LeastNat
  <2>2. PICK m \in al \ {last} : st[m] = x
    OBVIOUS
  <2>3. \A q \in al \ {last} : st[m] <= st[q]
    BY <2>1, <2>2
  <2>4. PICK q \in al : h.prev[q] = m /\ st[q] < st[m]
    BY <2>2, <1>3
  <2>5. q = last
    BY <2>3, <2>4
  <2>6. m # Head
    BY AddrAssumption
  <2> QED BY <2>4, <2>5, <2>6, <1>5
<1> QED BY <1>1, <1>2, <1>4, <1>5

\* remove_last() leaves a chain without its last node.
LEMMA RemoveLastChain ==
    ASSUME NEW h \in HeapType, NEW al \in SUBSET Addr, NEW st \in [Addr -> Nat],
           Chain(h, al, st), al # {}
    PROVE  /\ RemoveLast(h) \in HeapType
           /\ Chain(RemoveLast(h), al \ {LastNode(h)}, st)
           /\ \A n \in al \ {LastNode(h)} : RemoveLast(h).data[n] = h.data[n]
<1> DEFINE last == LastNode(h)
           p    == h.prev[last]
           g    == RemoveLast(h)
<1>1. /\ last = h.prev[Head] /\ last \in al
      /\ p = Head => al = {last}
  BY LastIsOldest
<1>2. p \in al \union {Head} /\ h.next[p] = last /\ h.next[last] = None
  BY <1>1 DEF Chain
<1>3. g = [next |-> [h.next EXCEPT ![p] = None],
           prev |-> [h.prev EXCEPT ![Head] = p],
           data |-> [h.data EXCEPT ![last] = None]]
  BY <1>1 DEF RemoveLast
<1>4. g \in HeapType
  BY <1>1, <1>2, <1>3 DEF HeapType
<1>5. p # last
  BY <1>1, <1>2, AddrAssumption DEF Chain
<1> HIDE DEF last, p, g
<1>6. ASSUME NEW n \in al \ {last}
      PROVE  /\ g.prev[n] \in (al \ {last}) \union {Head}
             /\ g.next[g.prev[n]] = n
             /\ g.prev[n] # Head => st[g.prev[n]] > st[n]
             /\ g.next[n] = None <=> n = g.prev[Head]
  <2>1. n # Head /\ g.prev[n] = h.prev[n]
    BY <1>3, AddrAssumption DEF HeapType
  <2>2. h.prev[n] # p /\ h.prev[n] # last
    BY <1>2, <1>6, AddrAssumption DEF Chain
  <2>3. g.prev[Head] = p
    BY <1>3 DEF HeapType
  <2>4. g.next[n] = IF n = p THEN None ELSE h.next[n]
    BY <1>3 DEF HeapType
  <2>5. g.next[h.prev[n]] = h.next[h.prev[n]]
    BY <1>3, <2>2, <1>6 DEF HeapType, Chain
  <2> QED BY <2>1, <2>2, <2>3, <2>4, <2>5, <1>1, <1>6 DEF Chain
<1>7. ASSUME NEW n \in (al \ {last}) \union {Head}, g.next[n] # None
      PROVE  g.next[n] \in al \ {last} /\ g.prev[g.next[n]] = n
  <2>1. n # p /\ g.next[n] = h.next[n]
    BY <1>3, <1>7 DEF HeapType
  <2>2. h.next[n] \in al /\ h.prev[h.next[n]] = n
    BY <2>1, <1>7 DEF Chain
  <2>3. h.next[n] # last
    BY <2>1, <2>2 DEF p
  <2>4. h.next[n] # Head
    BY <2>2, AddrAssumption
  <2> QED BY <2>1, <2>2, <2>3, <2>4, <1>3 DEF HeapType
<1>8. al \ {last} # {} => g.prev[Head] \in al \ {last} /\ g.next[Head] # None
  <2> HAVE al \ {last} # {}
  <2>1. p \in al \ {last} /\ p # Head
    BY <1>1, <1>2, <1>5
  <2>2. h.next[Head] # None
    BY <1>1 DEF Chain
  <2> QED BY <2>1, <2>2, <1>3 DEF HeapType
<1>9. Chain(g, al \ {last}, st)
  BY <1>6, <1>7, <1>8 DEF Chain
<1>10. \A n \in al \ {last} : g.data[n] = h.data[n]
  BY <1>3 DEF HeapType
<1> QED BY <1>4, <1>9, <1>10 DEF last, g

\* insert() puts a new node before the chain.
LEMMA ListInsertChain ==
    ASSUME NEW h \in HeapType, NEW al \in SUBSET Addr, NEW st \in [Addr -> Nat],
           Chain(h, al, st), NEW n \in Addr \ al, NEW k \in Key,
           NEW t \in Nat, \A m \in al : st[m] < t
    PROVE  /\ ListInsert(h, n, k) \in HeapType
           /\ Chain(ListInsert(h, n, k), al \union {n}, [st EXCEPT ![n] = t])
<1> DEFINE f == h.next[Head]
           g == ListInsert(h, n, k)
           s == [st EXCEPT ![n] = t]
<1>1. /\ g.next = [h.next EXCEPT ![n] = f, ![Head] = n]
      /\ g.prev = IF f # None THEN [h.prev EXCEPT ![n] = Head, ![f] = n]
                  ELSE [h.prev EXCEPT ![n] = Head, ![Head] = n]
      /\ g.data = [h.data EXCEPT ![n] = k]
  BY DEF ListInsert
<1>2. f # None => f \in al /\ h.prev[f] = Head
  BY DEF Chain
<1>3. f = None <=> al = {}
  BY <1>2 DEF Chain
<1>4. n # Head /\ n # None /\ n # f
  BY <1>2, AddrAssumption
<1>5. g \in HeapType
  BY <1>1, <1>2 DEF HeapType, ListInsert
<1>6. /\ s \in [Addr -> Nat] /\ s[n] = t
      /\ \A m \in al : s[m] = st[m]
  OBVIOUS
<1>7. /\ g.next[Head] = n /\ g.next[n] = f /\ g.prev[n] = Head
      /\ f # None => g.prev[f] = n /\ g.prev[Head] = h.prev[Head]
      /\ f = None => g.prev[Head] = n
  BY <1>1, <1>2, <1>4, AddrAssumption DEF HeapType
<1>8. \A m \in al : /\ g.next[m] = h.next[m]
                    /\ m # f => g.prev[m] = h.prev[m]
  BY <1>1, <1>2, <1>4, AddrAssumption DEF HeapType
<1> HIDE DEF f, g, s
<1>9. ASSUME NEW m \in al \union {n}
      PROVE  /\ g.prev[m] \in al \union {n, Head}
             /\ g.next[g.prev[m]] = m
             /\ g.prev[m] # Head => s[g.prev[m]] > s[m]
             /\ g.next[m] = None <=> m = g.prev[Head]
  <2>1. CASE m = n
    BY <2>1, <1>7, <1>3, <1>4, AddrAssumption DEF Chain
  <2>2. CASE m \in al /\ m = f
    BY <2>2, <1>3, <1>4, <1>6, <1>7, <1>8 DEF Chain
  <2>3. CASE m \in al /\ m # f
    <3>1. h.prev[m] \in al
      BY <2>3 DEF Chain, f
    <3>2. g.prev[m] = h.prev[m] /\ g.next[h.prev[m]] = h.next[h.prev[m]]
      BY <2>3, <3>1, <1>8
    <3>3. f # None /\ g.prev[Head] = h.prev[Head] /\ g.next[m] = h.next[m]
      BY <2>3, <1>3, <1>7, <1>8
    <3>4. g.prev[m] # Head /\ s[g.prev[m]] = st[h.prev[m]] /\ s[m] = st[m]
      BY <3>1, <3>2, <1>6, <2>3, AddrAssumption
    <3> QED BY <3>1, <3>2, <3>3, <3>4, <2>3 DEF Chain
  <2> QED BY <2>1, <2>2, <2>3
<1>10. ASSUME NEW m \in al \union {n, Head}, g.next[m] # None
       PROVE  g.next[m] \in al \union {n} /\ g.prev[g.next[m]] = m
  <2>1. CASE m = Head
    BY <2>1, <1>7
  <2>2. CASE m = n
    BY <2>2, <1>10, <1>7, <1>2
  <2>3. CASE m \in al
    <3>1. h.next[m] \in al /\ h.prev[h.next[m]] = m /\ g.next[m] = h.next[m]
      BY <2>3, <1>8, <1>10 DEF Chain
    <3>2. h.next[m] # f
      BY <3>1, <1>2, <2>3, AddrAssumption
    <3> QED BY <3>1, <3>2, <1>8
  <2> QED BY <2>1, <2>2, <2>3
<1>11. g.prev[Head] \in al \union {n} /\ g.next[Head] # None
  BY <1>3, <1>4, <1>7 DEF Chain
<1>12. Chain(g, al \union {n}, s)
  BY <1>9, <1>10, <1>11 DEF Chain
<1> QED BY <1>1, <1>5, <1>12 DEF g, s

\* What reinsert_front()'s swaps amount to for a node that is not the first.
LEMMA ReinsertFrontHeap ==
    ASSUME NEW h \in HeapType, NEW al \in SUBSET Addr, NEW st \in [Addr -> Nat],
           Chain(h, al, st), NEW n \in al
    PROVE  LET p == h.prev[n]
               x == h.next[n]
               f == h.next[Head]
               y == IF x # None THEN x ELSE Head
           IN  IF p = Head THEN ReinsertFront(h, n) = h
               ELSE /\ f \in al /\ f # n /\ f # x
                    /\ ReinsertFront(h, n) =
                         [next |-> [h.next EXCEPT ![p] = x, ![n] = f, ![Head] = n],
                          prev |-> [h.prev EXCEPT ![y] = p, ![n] = Head, ![f] = n],
                          data |-> h.data]
<1> DEFINE p  == h.prev[n]
           x  == h.next[n]
           f  == h.next[Head]
           y  == IF x # None THEN x ELSE Head
           h1 == CloseGap(h, n)
           h2 == SwapNext(h1, p, n)
           h3 == SwapNext(h2, n, Head)
<1>1. /\ p \in al \union {Head} /\ h.next[p] = n /\ p # n
      /\ n # Head /\ n # None
      /\ x # None => x \in al /\ h.prev[x] = n
      /\ x = None <=> n = h.prev[Head]
      /\ f # None /\ f \in al /\ h.prev[f] = Head
      /\ h.prev[Head] \in al
  BY AddrAssumption DEF Chain
<1>2. h1 = [next |-> h.next, prev |-> [h.prev EXCEPT ![y] = p], data |-> h.data]
  BY <1>1 DEF CloseGap, HeapType
<1>3. h2 = [next |-> [h.next EXCEPT ![p] = x, ![n] = n],
            prev |-> [h.prev EXCEPT ![y] = p], data |-> h.data]
  BY <1>1, <1>2 DEF SwapNext, HeapType
<1>4. ReinsertFront(h, n) = LinkBack(h3, n)
  BY DEF ReinsertFront
<1>5. CASE p = Head
  <2>1. h3 = [next |-> [h.next EXCEPT ![n] = x, ![Head] = n],
              prev |-> [h.prev EXCEPT ![y] = p], data |-> h.data]
    <3>1. h2.next[n] = n /\ h2.next[Head] = x
      BY <1>1, <1>3, <1>5 DEF HeapType
    <3>2. h3 = [h2 EXCEPT !.next = [@ EXCEPT ![n] = x, ![Head] = n]]
      BY <3>1 DEF SwapNext
    <3>3. h3.next = [h2.next EXCEPT ![n] = x, ![Head] = n]
      BY <1>3, <3>2
    <3>4. [h2.next EXCEPT ![n] = x, ![Head] = n] = [h.next EXCEPT ![n] = x, ![Head] = n]
      BY <1>3, <1>1, <1>5 DEF HeapType
    <3> QED BY <1>3, <3>2, <3>4
  <2>2. h3.next = h.next
    BY <2>1, <1>1, <1>5 DEF HeapType
  <2>3. LinkBack(h3, n).prev = h.prev
    <3>1. CASE x # None
      <4>1. h3.next[n] = x /\ h3.prev = [h.prev EXCEPT ![x] = Head]
        BY <3>1, <2>1, <2>2, <1>5
      <4>2. h3.prev[x] = Head
        BY <3>1, <4>1, <1>1 DEF HeapType
      <4>3. LinkBack(h3, n).prev = [h3.prev EXCEPT ![n] = Head, ![x] = n]
        BY <3>1, <4>1, <4>2, <2>1 DEF LinkBack
      <4> QED BY <3>1, <4>1, <4>3, <1>1, <1>5 DEF HeapType
    <3>2. CASE x = None
      <4>1. h3.next[n] = None /\ h3.prev = [h.prev EXCEPT ![Head] = Head]
        BY <3>2, <2>1, <2>2, <1>5
      <4>2. LinkBack(h3, n).prev = [h3.prev EXCEPT ![Head] = n]
        BY <3>2, <4>1, <2>1 DEF LinkBack
      <4> QED BY <3>2, <4>1, <4>2, <1>1 DEF HeapType
    <3> QED BY <3>1, <3>2
  <2>4. LinkBack(h3, n) = [next |-> h.next, prev |-> h.prev, data |-> h.data]
    BY <2>1, <2>2, <2>3 DEF LinkBack
  <2>5. h = [next |-> h.next, prev |-> h.prev, data |-> h.data]
    BY DEF HeapType
  <2> QED BY <1>4, <1>5, <2>4, <2>5
<1>6. CASE p # Head
  <2>1. f # n /\ f # x
    BY <1>1, <1>6
  <2>2. h3 = [next |-> [h.next EXCEPT ![p] = x, ![n] = f, ![Head] = n],
              prev |-> [h.prev EXCEPT ![y] = p], data |-> h.data]
    <3>1. h2.next[n] = n /\ h2.next[Head] = f
      BY <1>1, <1>3, <1>6 DEF HeapType
    <3>2. h3 = [h2 EXCEPT !.next = [@ EXCEPT ![n] = f, ![Head] = n]]
      BY <3>1 DEF SwapNext
    <3>3. [h2.next EXCEPT ![n] = f, ![Head] = n]
             = [h.next EXCEPT ![p] = x, ![n] = f, ![Head] = n]
      BY <1>3, <1>1, <1>6 DEF HeapType
    <3> QED BY <1>3, <3>2, <3>3
  <2>3. h3.next[n] = f /\ h3.prev[f] = Head
    BY <2>1, <2>2, <1>1, <1>6, AddrAssumption DEF HeapType
  <2>4. LinkBack(h3, n) = [h3 EXCEPT !.prev = [@ EXCEPT ![n] = Head, ![f] = n]]
    BY <2>3, <1>1 DEF LinkBack
  <2>5. LinkBack(h3, n) =
            [next |-> [h.next EXCEPT ![p] = x, ![n] = f, ![Head] = n],
             prev |-> [h.prev EXCEPT ![y] = p, ![n] = Head, ![f] = n],
             data |-> h.data]
    BY <2>2, <2>4
  <2> QED BY <1>1, <1>4, <1>6, <2>1, <2>5
<1> QED BY <1>5, <1>6

\* get() moves a node of the chain to its front.
LEMMA ReinsertFrontChain ==
    ASSUME NEW h \in HeapType, NEW al \in SUBSET Addr, NEW st \in [Addr -> Nat],
           Chain(h, al, st), NEW n \in al,
           NEW t \in Nat, \A m \in al : st[m] < t
    PROVE  /\ ReinsertFront(h, n) \in HeapType
           /\ Chain(ReinsertFront(h, n), al, [st EXCEPT ![n] = t])
           /\ ReinsertFront(h, n).data = h.data
<1> DEFINE p == h.prev[n]
           x == h.next[n]
           f == h.next[Head]
           y == IF x # None THEN x ELSE Head
           g == ReinsertFront(h, n)
           s == [st EXCEPT ![n] = t]
<1>1. /\ p \in al \union {Head} /\ h.next[p] = n /\ p # n
      /\ n # Head /\ n # None
      /\ x # None => x \in al /\ h.prev[x] = n
      /\ x = None <=> n = h.prev[Head]
      /\ f # None /\ f \in al /\ h.prev[f] = Head
      /\ h.prev[Head] \in al
  BY AddrAssumption DEF Chain
<1>2. s \in [Addr -> Nat] /\ s[n] = t /\ \A m \in al \ {n} : s[m] = st[m]
  OBVIOUS
<1>3. CASE p = Head
  <2>1. g = h
    BY <1>3, ReinsertFrontHeap
  <2>2. \A m \in al : h.prev[m] # Head => s[h.prev[m]] > s[m]
    <3> TAKE m \in al
    <3> HAVE h.prev[m] # Head
    <3>1. m # n /\ h.prev[m] \in al /\ st[h.prev[m]] > st[m]
      BY <1>3 DEF Chain
    <3> QED BY <3>1, <1>2
  <2> QED BY <2>1, <2>2 DEF Chain
<1>4. CASE p # Head
  <2>1. /\ f # n /\ f # x
        /\ g = [next |-> [h.next EXCEPT ![p] = x, ![n] = f, ![Head] = n],
                prev |-> [h.prev EXCEPT ![y] = p, ![n] = Head, ![f] = n],
                data |-> h.data]
    BY <1>4, ReinsertFrontHeap
  <2>2. p \in al
    BY <1>1, <1>4
  <2>3. g \in HeapType
    BY <1>1, <2>1, <2>2 DEF HeapType
  <2>4. /\ g.next[Head] = n /\ g.next[n] = f /\ g.next[p] = x
        /\ g.prev[n] = Head /\ g.prev[f] = n
        /\ x # None => g.prev[x] = p /\ g.prev[Head] = h.prev[Head]
        /\ x = None => g.prev[Head] = p
    BY <1>1, <1>4, <2>1, <2>2, AddrAssumption DEF HeapType
  <2>5. \A m \in al : /\ m \notin {n, p} => g.next[m] = h.next[m]
                      /\ m \notin {n, f, x} => g.prev[m] = h.prev[m]
    BY <1>1, <2>1, <2>2, AddrAssumption DEF HeapType
  <2>6. g.data = h.data
    BY <2>1
  <2> HIDE DEF p, x, f, y, g, s
  <2>7. ASSUME NEW m \in al
        PROVE  /\ g.prev[m] \in al \union {Head}
               /\ g.next[g.prev[m]] = m
               /\ g.prev[m] # Head => s[g.prev[m]] > s[m]
               /\ g.next[m] = None <=> m = g.prev[Head]
    <3>1. CASE m = n
      <4>1. h.prev[Head] # n \/ g.prev[Head] = p
        BY <1>1, <2>4
      <4> QED BY <3>1, <4>1, <1>1, <2>4
    <3>2. CASE m = f
      <4>1. s[m] = st[m] /\ s[n] > st[m]
        BY <3>2, <2>1, <1>2
      <4>2. g.prev[m] = n /\ g.next[n] = m
        BY <3>2, <2>4
      <4>3. g.next[m] = None <=> m = g.prev[Head]
        <5>1. CASE m = p
          BY <5>1, <1>1, <2>1, <2>4, <3>2 DEF Chain
        <5>2. CASE m # p
          <6>1. g.next[m] = h.next[m] /\ (h.next[m] = None <=> m = h.prev[Head])
            BY <5>2, <3>2, <2>1, <2>5 DEF Chain
          <6>2. g.prev[Head] = h.prev[Head] \/ (g.prev[Head] = p /\ h.prev[Head] = n)
            BY <1>1, <2>4
          <6> QED BY <6>1, <6>2, <5>2, <3>2, <2>1
        <5> QED BY <5>1, <5>2
      <4> QED BY <4>1, <4>2, <4>3, <1>2
    <3>3. CASE m = x /\ m # n
      <4>1. x # None /\ g.prev[m] = p /\ g.next[p] = m
        BY <3>3, <2>4, AddrAssumption
      <4>2. st[p] > st[n] /\ st[n] > st[m]
        BY <3>3, <4>1, <1>1, <1>4, AddrAssumption DEF Chain, p, x
      <4>3. s[p] = st[p] /\ s[m] = st[m]
        BY <2>2, <3>3, <1>1, <1>2
      <4>4. g.prev[Head] = h.prev[Head]
        BY <4>1, <2>4
      <4>5. m # p
        BY <4>2, <2>2
      <4>6. g.next[m] = h.next[m]
        BY <4>5, <3>3, <2>5
      <4>7. h.next[m] = None <=> m = h.prev[Head]
        BY DEF Chain
      <4>8. st[p] > st[m]
        BY <4>2, <2>2
      <4> QED BY <4>1, <4>3, <4>4, <4>6, <4>7, <4>8, <2>2
    <3>4. CASE m \notin {n, f, x}
      <4>1. h.prev[m] \in al /\ g.prev[m] = h.prev[m]
        BY <3>4, <2>5 DEF Chain, f
      <4>2. h.prev[m] # n /\ h.prev[m] # p
        BY <3>4, <1>1 DEF Chain, x
      <4>3. g.next[h.prev[m]] = m
        BY <4>1, <4>2, <2>5 DEF Chain
      <4>4. st[h.prev[m]] > st[m]
        BY <4>1, AddrAssumption DEF Chain
      <4>5. s[h.prev[m]] = st[h.prev[m]] /\ s[m] = st[m]
        BY <4>1, <4>2, <3>4, <1>2
      <4>6. g.next[m] = None <=> m = g.prev[Head]
        <5>1. CASE m = p
          BY <5>1, <1>1, <2>4 DEF Chain
        <5>2. CASE m # p
          <6>1. g.next[m] = h.next[m] /\ (h.next[m] = None <=> m = h.prev[Head])
            BY <5>2, <3>4, <2>5 DEF Chain
          <6>2. g.prev[Head] = h.prev[Head] \/ (g.prev[Head] = p /\ h.prev[Head] = n)
            BY <1>1, <2>4
          <6> QED BY <6>1, <6>2, <5>2, <3>4
        <5> QED BY <5>1, <5>2
      <4> QED BY <4>1, <4>3, <4>4, <4>5, <4>6
    <3> QED BY <3>1, <3>2, <3>3, <3>4
  <2>8. ASSUME NEW m \in al \union {Head}, g.next[m] # None
        PROVE  g.next[m] \in al /\ g.prev[g.next[m]] = m
    <3>1. CASE m \in {Head, n, p}
      BY <3>1, <2>8, <2>4, <1>1
    <3>2. CASE m \notin {Head, n, p}
      <4>1. m \in al /\ g.next[m] = h.next[m]
        BY <3>2, <2>5
      <4>2. h.next[m] \in al /\ h.prev[h.next[m]] = m
        BY <4>1, <2>8 DEF Chain
      <4>3. h.next[m] \notin {n, f, x}
        <5>1. h.next[m] # n
          BY <3>2, <4>2 DEF p
        <5>2. h.next[m] # f /\ h.next[m] # x
          BY <3>2, <4>2, <1>1, AddrAssumption
        <5> QED BY <5>1, <5>2
      <4> QED BY <4>1, <4>2, <4>3, <2>5
    <3> QED BY <3>1, <3>2
  <2>9. g.prev[Head] \in al /\ g.next[Head] # None
    BY <2>4, <2>2, <1>1
  <2>10. Chain(g, al, s)
    BY <2>7, <2>8, <2>9 DEF Chain
  <2> QED BY <2>3, <2>6, <2>10 DEF g, s
<1> QED BY <1>3, <1>4

-----------------------------------------------------------------------------

\* The inductive invariant: the four invariants together.
IInv == TypeOK /\ NeverPanics /\ ListOK /\ MapListAgree

MapType == [Key -> [elem : Val \union {None}, handle : Addr \union {None}]]

\* Dropping the key of the last node from list and map keeps them in step.
LEMMA EvictAgrees ==
    ASSUME IInv, count > 0
    PROVE  LET last == LastNode(heap)
               old  == heap.data[last]
               m    == Forget(old)
           IN  /\ CanEvict
               /\ last \in alloc
               /\ old \in Cached /\ map[old].handle = last
               /\ m \in MapType
               /\ KeysOf(m) = Cached \ {old}
               /\ Agree(RemoveLast(heap), alloc \ {last}, m)
               /\ Chain(RemoveLast(heap), alloc \ {last}, stamp)
               /\ RemoveLast(heap) \in HeapType
               /\ Cardinality(KeysOf(m)) = count - 1
               /\ IsFiniteSet(KeysOf(m))
<1> DEFINE last == LastNode(heap)
           old  == heap.data[last]
           m    == Forget(old)
           g    == RemoveLast(heap)
<1>1. alloc # {}
  <2>1. Cached # {}
    BY FS_EmptySet DEF IInv, MapListAgree, TypeOK
  <2> QED BY <2>1 DEF IInv, MapListAgree, Agree, KeysOf, Cached
<1>2. /\ last \in alloc
      /\ g \in HeapType /\ Chain(g, alloc \ {last}, stamp)
      /\ \A n \in alloc \ {last} : g.data[n] = heap.data[n]
  BY <1>1, LastIsOldest, RemoveLastChain DEF IInv, TypeOK, ListOK
<1>3. last # None
  BY <1>2, AddrAssumption DEF IInv, TypeOK
<1>4. old \in Cached /\ old \in Key /\ map[old].handle = last
  BY <1>2 DEF IInv, MapListAgree, Agree, Cached, KeysOf
<1>5. m \in MapType /\ m[old] = NoEntry /\ \A k \in Key \ {old} : m[k] = map[k]
  BY <1>4 DEF Forget, MapType, NoEntry, IInv, TypeOK
<1>6. KeysOf(m) = Cached \ {old}
  BY <1>4, <1>5 DEF KeysOf, Cached, NoEntry
<1>7. Agree(g, alloc \ {last}, m)
  <2>1. \A k \in Key : m[k].handle # None <=> m[k].elem # None
    BY <1>5 DEF NoEntry, IInv, MapListAgree, Agree
  <2>2. ASSUME NEW k \in KeysOf(m)
        PROVE  m[k].handle \in alloc \ {last} /\ g.data[m[k].handle] = k
    <3>1. k \in Cached /\ k # old /\ m[k] = map[k]
      BY <1>5, <1>6 DEF Cached
    <3>2. map[k].handle \in alloc /\ heap.data[map[k].handle] = k
      BY <3>1 DEF IInv, MapListAgree, Agree, Cached, KeysOf
    <3> QED BY <3>1, <3>2, <1>2
  <2>3. ASSUME NEW n \in alloc \ {last}
        PROVE  g.data[n] \in KeysOf(m) /\ m[g.data[n]].handle = n
    <3>1. heap.data[n] \in Cached /\ map[heap.data[n]].handle = n
      BY DEF IInv, MapListAgree, Agree, Cached, KeysOf
    <3>2. heap.data[n] # old
      BY <3>1, <1>4
    <3> QED BY <3>1, <3>2, <1>2, <1>5, <1>6 DEF Cached
  <2> HIDE DEF m, g, last
  <2> QED BY <2>1, <2>2, <2>3 DEF Agree
<1>8. Cardinality(KeysOf(m)) = count - 1 /\ IsFiniteSet(KeysOf(m))
  <2>1. IsFiniteSet(Cached) /\ count = Cardinality(Cached)
    BY DEF IInv, MapListAgree
  <2>2. IsFiniteSet(Cached \ {old}) /\ Cardinality(Cached \ {old}) = Cardinality(Cached) - 1
    BY <1>4, <2>1, FS_RemoveElement
  <2> QED BY <1>6, <2>1, <2>2
<1>9. CanEvict
  BY <1>3, <1>4 DEF CanEvict
<1> QED BY <1>2, <1>4, <1>5, <1>6, <1>7, <1>8, <1>9

\* What insert() does once there is room restores the invariant.
LEMMA PutFirstInv ==
    ASSUME IInv,
           NEW h \in HeapType, NEW al \in SUBSET alloc, NEW m \in MapType, NEW c \in Nat,
           NEW k \in Key, NEW v \in Val, k \notin KeysOf(m),
           Chain(h, al, stamp), Agree(h, al, m),
           IsFiniteSet(KeysOf(m)), c = Cardinality(KeysOf(m)), c < Cap,
           PutFirst(h, m, c, Addr \ al, k, v), UNCHANGED <<id, panicked>>
    PROVE  IInv'
<1>1. PICK n \in Addr \ al :
        /\ heap' = ListInsert(h, n, k)
        /\ alloc' = al \union {n}
        /\ map' = [m EXCEPT ![k] = [elem |-> v, handle |-> n]]
        /\ count' = c + 1
        /\ clock' = clock + 1 /\ stamp' = [stamp EXCEPT ![n] = clock + 1]
  <2>1. al \subseteq Addr
    BY DEF IInv, TypeOK
  <2>2. Addr \ (Addr \ al) = al
    BY <2>1
  <2> QED BY <2>2 DEF PutFirst, Used
<1>2. /\ al \in SUBSET Addr /\ stamp \in [Addr -> Nat] /\ clock + 1 \in Nat
      /\ \A a \in al : stamp[a] < clock + 1
  BY DEF IInv, TypeOK, ListOK
<1>3. /\ heap' \in HeapType
      /\ Chain(heap', alloc', stamp')
      /\ heap'.data = [h.data EXCEPT ![n] = k]
  <2> DEFINE t == clock + 1
  <2>1. /\ t \in Nat /\ \A a \in al : stamp[a] < t
        /\ al \in SUBSET Addr /\ stamp \in [Addr -> Nat]
    BY <1>2
  <2>2. /\ heap' = ListInsert(h, n, k) /\ alloc' = al \union {n}
        /\ stamp' = [stamp EXCEPT ![n] = t]
    BY <1>1
  <2> HIDE DEF t
  <2>3. ListInsert(h, n, k) \in HeapType
    BY <2>1, ListInsertChain
  <2>4. Chain(ListInsert(h, n, k), al \union {n}, [stamp EXCEPT ![n] = t])
    BY <2>1, ListInsertChain
  <2>5. ListInsert(h, n, k).data = [h.data EXCEPT ![n] = k]
    BY DEF ListInsert
  <2>6. Chain(heap', alloc', stamp')
    BY <2>2, <2>4, Zenon
  <2> QED BY <2>2, <2>3, <2>5, <2>6
<1>4. /\ n # None /\ v # None
      /\ map' \in MapType
      /\ map'[k] = [elem |-> v, handle |-> n]
      /\ \A j \in Key \ {k} : map'[j] = m[j]
  BY <1>1, AddrAssumption, ElementAssumption DEF MapType
<1>5. Cached' = KeysOf(m) \union {k}
  BY <1>4 DEF KeysOf, Cached
<1>6. KeysOf(map') = Cached'
  BY DEF KeysOf, Cached
<1>7. heap'.data[n] = k /\ \A a \in al : heap'.data[a] = h.data[a]
  BY <1>2, <1>3 DEF HeapType
<1>8. Agree(heap', alloc', map')
  <2>1. \A j \in Key : map'[j].handle # None <=> map'[j].elem # None
    BY <1>4 DEF Agree
  <2>2. ASSUME NEW j \in KeysOf(map')
        PROVE  map'[j].handle \in alloc' /\ heap'.data[map'[j].handle] = j
    <3>1. CASE j = k
      BY <3>1, <1>1, <1>4, <1>7
    <3>2. CASE j # k
      <4>1. j \in KeysOf(m) /\ map'[j] = m[j]
        BY <3>2, <1>4, <1>5, <1>6 DEF KeysOf
      <4>2. m[j].handle \in al /\ h.data[m[j].handle] = j
        BY <4>1 DEF Agree
      <4> QED BY <4>1, <4>2, <1>1, <1>7
    <3> QED BY <3>1, <3>2
  <2>3. ASSUME NEW a \in alloc'
        PROVE  heap'.data[a] \in KeysOf(map') /\ map'[heap'.data[a]].handle = a
    <3>1. CASE a = n
      BY <3>1, <1>4, <1>5, <1>6, <1>7
    <3>2. CASE a \in al
      <4>1. h.data[a] \in KeysOf(m) /\ m[h.data[a]].handle = a
        BY <3>2 DEF Agree
      <4>2. h.data[a] # k /\ h.data[a] \in Key
        BY <4>1 DEF KeysOf
      <4> QED BY <3>2, <4>1, <4>2, <1>4, <1>5, <1>6, <1>7
    <3> QED BY <3>1, <3>2, <1>1
  <2> QED BY <2>1, <2>2, <2>3 DEF Agree
<1>9. IsFiniteSet(Cached') /\ Cardinality(Cached') = c + 1
  BY <1>5, FS_AddElement
<1>10. MapListAgree'
  BY <1>1, <1>8, <1>9, CapAssumption DEF MapListAgree
<1>11. ListOK'
  <2>1. \A a \in alloc' : stamp'[a] <= clock'
    BY <1>1, <1>2
  <2> QED BY <2>1, <1>3 DEF ListOK
<1>12. TypeOK'
  BY <1>1, <1>2, <1>3, <1>4 DEF IInv, TypeOK, MapType
<1> QED BY <1>10, <1>11, <1>12 DEF IInv, NeverPanics

\* An empty cache satisfies the inductive invariant.
LEMMA InitInv == Init => IInv
<1> SUFFICES ASSUME Init PROVE IInv
  OBVIOUS
<1>1. TypeOK
  BY DEF Init, TypeOK, HeapType, EmptyHeap, NoEntry
<1>2. ListOK
  BY DEF Init, ListOK, Chain, EmptyHeap
<1>3. Cached = {}
  BY DEF Init, Cached, NoEntry
<1>4. MapListAgree
  <2>1. Agree(heap, alloc, map)
    BY <1>3 DEF Init, Agree, KeysOf, NoEntry, Cached
  <2> QED BY <1>3, <2>1, FS_EmptySet, CapAssumption DEF Init, MapListAgree
<1> QED BY <1>1, <1>2, <1>4 DEF Init, IInv, NeverPanics

\* A hit, which moves its node to the front, keeps the invariant and reaches
\* neither assertion of reinsert_front().
LEMMA GetInv ==
    ASSUME IInv, NEW k \in Key, get(k)
    PROVE  IInv'
<1> DEFINE n == map[k].handle
<1>1. n \in alloc
  BY DEF get, IInv, MapListAgree, Agree, KeysOf, Cached
<1>2. /\ alloc \in SUBSET Addr /\ stamp \in [Addr -> Nat] /\ clock + 1 \in Nat
      /\ \A a \in alloc : stamp[a] < clock + 1
      /\ heap \in HeapType /\ Chain(heap, alloc, stamp)
  BY DEF IInv, TypeOK, ListOK
<1>3. /\ heap' = ReinsertFront(heap, n) /\ stamp' = [stamp EXCEPT ![n] = clock + 1]
      /\ clock' = clock + 1
      /\ UNCHANGED <<alloc, count, map, id>>
  BY DEF get, Used
<1>4. heap' \in HeapType /\ Chain(heap', alloc', stamp') /\ heap'.data = heap.data
  BY <1>1, <1>2, <1>3, ReinsertFrontChain
<1>5. panicked' = FALSE
  <2>1. heap'.prev[Head] \in alloc /\ heap'.next[Head] # None
    BY <1>1, <1>3, <1>4 DEF Chain
  <2>2. heap'.prev[Head] # None
    BY <2>1, <1>2, AddrAssumption
  <2>3. panicked' = (heap'.next[Head] = None \/ heap'.prev[Head] = None)
    BY DEF get
  <2> QED BY <2>1, <2>2, <2>3
<1>6. ListOK'
  BY <1>1, <1>2, <1>3, <1>4 DEF ListOK
<1>7. MapListAgree'
  BY <1>3, <1>4 DEF IInv, MapListAgree, Agree, Cached, KeysOf
<1>8. TypeOK'
  BY <1>2, <1>3, <1>4, <1>5, <1>1 DEF IInv, TypeOK
<1> QED BY <1>5, <1>6, <1>7, <1>8 DEF IInv, NeverPanics

\* insert() of a key that is not cached keeps the invariant, with and without an
\* eviction; a full cache always finds a last node whose key is in the map.
LEMMA InsertInv ==
    ASSUME IInv, NEW k \in Key, NEW v \in Val, k \notin Cached, insert(k, v)
    PROVE  IInv'
<1>1. KeysOf(map) = Cached
  BY DEF KeysOf, Cached
<1>2. CASE ~Full
  <2>1. count < Cap /\ count \in Nat
    BY <1>2, CapAssumption DEF Full, IInv, TypeOK
  <2>2. PutFirst(heap, map, count, Addr \ alloc, k, v) /\ UNCHANGED <<id, panicked>>
    BY <1>2 DEF insert
  <2> QED BY <1>1, <2>1, <2>2, PutFirstInv DEF IInv, TypeOK, MapType, ListOK, MapListAgree
<1>3. CASE Full
  <2> DEFINE last == LastNode(heap)
             m    == Forget(heap.data[last])
  <2>1. count > 0 /\ count \in Nat /\ count <= Cap
    BY <1>3, CapAssumption DEF Full, IInv, TypeOK, MapListAgree
  <2>2. /\ CanEvict /\ last \in alloc /\ m \in MapType
        /\ KeysOf(m) = Cached \ {heap.data[last]}
        /\ Agree(RemoveLast(heap), alloc \ {last}, m)
        /\ Chain(RemoveLast(heap), alloc \ {last}, stamp)
        /\ RemoveLast(heap) \in HeapType
        /\ Cardinality(KeysOf(m)) = count - 1
        /\ IsFiniteSet(KeysOf(m))
    BY <2>1, EvictAgrees
  <2>3. (Addr \ alloc) \union {last} = Addr \ (alloc \ {last})
    BY <2>2 DEF IInv, TypeOK
  <2>4. /\ PutFirst(RemoveLast(heap), m, count - 1, Addr \ (alloc \ {last}), k, v)
        /\ UNCHANGED <<id, panicked>>
    BY <1>3, <2>2, <2>3 DEF insert
  <2> HIDE DEF m, last
  <2>5. k \notin KeysOf(m) /\ count - 1 \in Nat /\ count - 1 < Cap
    BY <2>1, <2>2, CapAssumption
  <2>6. alloc \ {last} \in SUBSET alloc
    OBVIOUS
  <2> QED BY <2>2, <2>4, <2>5, <2>6, PutFirstInv
<1> QED BY <1>2, <1>3

\* Every operation that read_block() makes of the cache keeps the invariant.
LEMMA NextInv == IInv /\ [Next]_vars => IInv'
<1> SUFFICES ASSUME IInv, [Next]_vars PROVE IInv'
  OBVIOUS
<1>1. CASE new_cache_id
  BY <1>1 DEF new_cache_id, IInv, TypeOK, NeverPanics, ListOK, MapListAgree, Cached, KeysOf,
              Agree
<1>2. CASE \E k \in Key : get(k)
  BY <1>2, GetInv
<1>3. CASE \E k \in Key, v \in Val : k \notin Cached /\ insert(k, v)
  BY <1>3, InsertInv
<1>4. CASE UNCHANGED vars
  BY <1>4 DEF vars, IInv, TypeOK, NeverPanics, ListOK, MapListAgree, Cached, KeysOf, Agree
<1> QED BY <1>1, <1>2, <1>3, <1>4 DEF Next

\* The inductive invariant holds of the cache as read_block() uses it.
THEOREM CacheInvariant == Spec => []IInv
BY InitInv, NextInv, PTL DEF Spec

\* The raw pointers of the list never dangle, its nodes are one chain in the
\* order of use, and map and list agree: for any capacity, keys and addresses.
THEOREM ListAndMap == Spec => [](ListOK /\ MapListAgree)
<1>1. IInv => ListOK /\ MapListAgree
  BY DEF IInv
<1> QED BY <1>1, CacheInvariant, PTL

\* "could not remove_last(); bug!" and the cache's assertions are not reached.
THEOREM CacheNeverPanics == Spec => []NeverPanics
<1>1. IInv => NeverPanics
  BY DEF IInv
<1> QED BY <1>1, CacheInvariant, PTL

-----------------------------------------------------------------------------

\* the refinement mapping, by name
AElems == [k \in Key |-> map[k].elem]

AUse == [k \in Key |-> IF k \in Cached THEN stamp[map[k].handle] ELSE 0]

\* LRU and Cache hold the same keys.
LEMMA PresentIsCached ==
    ASSUME IInv
    PROVE  Abs!Present = Cached
BY DEF IInv, MapListAgree, Agree, KeysOf, Cached, Abs!Present

\* LRU counts as Cache does.
LEMMA SameCardinality == \A S : Abs!Cardinality(S) = Cardinality(S)
BY DEF Abs!Cardinality, Cardinality

\* A hit in the cache is a use in LRU.
LEMMA GetRefines ==
    ASSUME IInv, NEW k \in Key, get(k)
    PROVE  Abs!Get(k)
<1>1. /\ k \in Cached /\ map' = map /\ id' = id
      /\ clock' = clock + 1 /\ stamp' = [stamp EXCEPT ![map[k].handle] = clock + 1]
  BY DEF get, Used
<1>2. Cached' = Cached
  BY <1>1 DEF Cached
<1>3. \A j \in Cached : map[j].handle \in Addr /\ (map[j].handle = map[k].handle => j = k)
  BY <1>1 DEF IInv, TypeOK, MapListAgree, Agree, KeysOf, Cached
<1>4. AUse' = [AUse EXCEPT ![k] = clock + 1]
  <2>1. \A j \in Key : AUse'[j] = IF j = k THEN clock + 1 ELSE AUse[j]
    BY <1>1, <1>2, <1>3 DEF AUse, IInv, TypeOK
  <2> QED BY <2>1 DEF AUse
<1>5. AElems' = AElems
  BY <1>1 DEF AElems
<1>6. k \in Abs!Present
  BY <1>1, PresentIsCached
<1> QED BY <1>1, <1>4, <1>5, <1>6 DEF Abs!Get, AUse, AElems

\* The elements and the uses after k was put first, where the map m was left
\* once there was room.
PutEffect(m, k, v) ==
    /\ clock' = clock + 1
    /\ \A j \in Key : AElems'[j] = IF j = k THEN v ELSE m[j].elem
    /\ \A j \in Key : AUse'[j] = IF j = k THEN clock + 1
                                 ELSE IF j \in KeysOf(m) THEN stamp[m[j].handle] ELSE 0

\* What insert() does once there is room, in terms of the refinement mapping.
LEMMA PutFirstRefines ==
    ASSUME IInv,
           NEW h \in HeapType, NEW al \in SUBSET alloc, NEW m \in MapType, NEW c,
           NEW k \in Key, NEW v \in Val, k \notin KeysOf(m),
           Agree(h, al, m), PutFirst(h, m, c, Addr \ al, k, v)
    PROVE  PutEffect(m, k, v)
<1>1. PICK n \in Addr \ al :
        /\ map' = [m EXCEPT ![k] = [elem |-> v, handle |-> n]]
        /\ clock' = clock + 1 /\ stamp' = [stamp EXCEPT ![n] = clock + 1]
  BY DEF PutFirst, Used
<1>2. /\ n # None
      /\ map'[k] = [elem |-> v, handle |-> n]
      /\ \A j \in Key \ {k} : map'[j] = m[j]
  BY <1>1, AddrAssumption DEF MapType
<1>3. Cached' = KeysOf(m) \union {k}
  BY <1>2 DEF KeysOf, Cached
<1>4. \A j \in KeysOf(m) : m[j].handle \in Addr /\ m[j].handle # n
  BY <1>1 DEF Agree, IInv, TypeOK
<1>5. \A j \in Key : AElems'[j] = IF j = k THEN v ELSE m[j].elem
  BY <1>2 DEF AElems
<1>6. \A j \in Key : AUse'[j] = IF j = k THEN clock + 1
                                ELSE IF j \in KeysOf(m) THEN stamp[m[j].handle] ELSE 0
  <2> TAKE j \in Key
  <2>1. CASE j = k
    BY <2>1, <1>1, <1>2, <1>3 DEF AUse, IInv, TypeOK
  <2>2. CASE j # k /\ j \in KeysOf(m)
    BY <2>2, <1>1, <1>2, <1>3, <1>4 DEF AUse, IInv, TypeOK
  <2>3. CASE j # k /\ j \notin KeysOf(m)
    BY <2>3, <1>3 DEF AUse
  <2> QED BY <2>1, <2>2, <2>3
<1> QED BY <1>1, <1>5, <1>6 DEF PutEffect

\* insert() is an insertion of LRU, and an eviction takes the key whose last use
\* is the oldest.
LEMMA InsertRefines ==
    ASSUME IInv, NEW k \in Key, NEW v \in Val, k \notin Cached, insert(k, v)
    PROVE  k \notin Abs!Present /\ (Abs!InsertNew(k, v) \/ Abs!InsertEvicting(k, v))
<1>1. KeysOf(map) = Cached /\ Abs!Present = Cached /\ count = Cardinality(Cached)
  BY PresentIsCached DEF KeysOf, Cached, IInv, MapListAgree
<1>2. map \in MapType /\ heap \in HeapType /\ count \in Nat
  BY DEF IInv, TypeOK, MapType
<1>3. id' = id
  BY DEF insert
<1>4. CASE ~Full
  <2>1. PutFirst(heap, map, count, Addr \ alloc, k, v)
    BY <1>4 DEF insert
  <2>2. Agree(heap, alloc, map)
    BY DEF IInv, MapListAgree
  <2>3. /\ clock' = clock + 1
        /\ \A j \in Key : AElems'[j] = IF j = k THEN v ELSE map[j].elem
        /\ \A j \in Key : AUse'[j] = IF j = k THEN clock + 1
                                     ELSE IF j \in KeysOf(map) THEN stamp[map[j].handle] ELSE 0
    <3>1. PutEffect(map, k, v)
      BY <1>1, <1>2, <2>1, <2>2, PutFirstRefines
    <3> QED BY <3>1 DEF PutEffect
  <2>4. AElems' = [AElems EXCEPT ![k] = v]
    BY <2>3 DEF AElems
  <2>5. AUse' = [AUse EXCEPT ![k] = clock + 1]
    BY <1>1, <2>3 DEF AUse
  <2>6. Abs!Cardinality(Abs!Present) < Cap
    BY <1>1, <1>2, <1>4, CapAssumption, SameCardinality DEF Full
  <2>7. Abs!InsertNew(k, v)
    <3>1. clock' = clock + 1
      BY <2>3
    <3> QED BY <1>3, <2>4, <2>5, <2>6, <3>1 DEF Abs!InsertNew, AElems, AUse
  <2> QED BY <1>1, <2>7
<1>5. CASE Full
  <2> DEFINE last == LastNode(heap)
             old  == heap.data[last]
             m    == Forget(old)
  <2>1. count > 0
    BY <1>2, <1>5, CapAssumption DEF Full
  <2>2. /\ CanEvict /\ last \in alloc /\ m \in MapType
        /\ old \in Cached /\ map[old].handle = last
        /\ KeysOf(m) = Cached \ {old}
        /\ Agree(RemoveLast(heap), alloc \ {last}, m)
        /\ RemoveLast(heap) \in HeapType
    BY <2>1, EvictAgrees
  <2>3. (Addr \ alloc) \union {last} = Addr \ (alloc \ {last})
    BY <2>2 DEF IInv, TypeOK
  <2>4. PutFirst(RemoveLast(heap), m, count - 1, Addr \ (alloc \ {last}), k, v)
    BY <1>5, <2>2, <2>3 DEF insert
  <2>5. m = [map EXCEPT ![old] = NoEntry] /\ old \in Key /\ old # k
    BY <2>2 DEF Forget, Cached
  <2>6. alloc # {} /\ \A n \in alloc : stamp[last] <= stamp[n]
    BY <2>2, LastIsOldest DEF IInv, TypeOK, ListOK
  <2> HIDE DEF m, old, last
  <2>7. /\ clock' = clock + 1
        /\ \A j \in Key : AElems'[j] = IF j = k THEN v ELSE m[j].elem
        /\ \A j \in Key : AUse'[j] = IF j = k THEN clock + 1
                                     ELSE IF j \in KeysOf(m) THEN stamp[m[j].handle] ELSE 0
    <3> DEFINE g  == RemoveLast(heap)
               al == alloc \ {last}
               c  == count - 1
    <3>1. g \in HeapType /\ al \in SUBSET alloc /\ m \in MapType /\ k \notin KeysOf(m)
      BY <2>2
    <3>2. Agree(g, al, m)
      BY <2>2
    <3>3. PutFirst(g, m, c, Addr \ al, k, v)
      BY <2>4
    <3> HIDE DEF g, al, c
    <3>4. PutEffect(m, k, v)
      BY <3>1, <3>2, <3>3, PutFirstRefines
    <3> QED BY <3>4 DEF PutEffect
  <2>8. \A j \in Key \ {old} : m[j] = map[j]
    BY <2>5
  <2>9. m[old] = NoEntry
    BY <2>5, <1>2 DEF MapType
  <2>10. AElems' = [AElems EXCEPT ![old] = None, ![k] = v]
    <3>1. \A j \in Key : AElems'[j] = IF j = k THEN v ELSE m[j].elem
      BY <2>7
    <3>2. \A j \in Key : m[j].elem = IF j = old THEN None ELSE map[j].elem
      BY <2>8, <2>9 DEF NoEntry
    <3> QED BY <2>5, <3>1, <3>2 DEF AElems
  <2>11. AUse' = [AUse EXCEPT ![old] = 0, ![k] = clock + 1]
    BY <2>2, <2>5, <2>7, <2>8 DEF AUse
  <2>12. \A j \in Cached : map[j].handle \in alloc
    BY DEF IInv, MapListAgree, Agree, Cached, KeysOf
  <2>13. old \in Abs!Oldest
    BY <1>1, <2>2, <2>6, <2>12 DEF Abs!Oldest, Cached
  <2>14. Abs!Cardinality(Abs!Present) >= Cap
    BY <1>1, <1>5, SameCardinality DEF Full
  <2>15. Abs!InsertEvicting(k, v)
    <3>1. clock' = clock + 1
      BY <2>7
    <3> QED BY <1>3, <2>10, <2>11, <2>13, <2>14, <3>1 DEF Abs!InsertEvicting, AElems, AUse
  <2> QED BY <1>1, <2>15
<1> QED BY <1>4, <1>5

\* Each step of the cache is a step of the LRU cache, or none: so the cache
\* drops exactly the least recently used key, whatever its capacity.
THEOREM CacheImplementsLRU == Spec => ImplementsLRU
<1>1. Init => Abs!Init
  BY DEF Init, Abs!Init, NoEntry, Cached
<1>2. IInv /\ [Next]_vars => [Abs!Next]_(Abs!vars)
  <2> SUFFICES ASSUME IInv, [Next]_vars PROVE [Abs!Next]_(Abs!vars)
    OBVIOUS
  <2>1. CASE new_cache_id
    <3>1. AElems' = AElems /\ AUse' = AUse
      BY <2>1 DEF new_cache_id, AElems, AUse, Cached
    <3>2. Abs!NewId
      BY <2>1, <3>1 DEF new_cache_id, Abs!NewId, AElems, AUse
    <3> QED BY <3>2 DEF Abs!Next
  <2>2. CASE \E k \in Key : get(k)
    BY <2>2, GetRefines DEF Abs!Next
  <2>3. CASE \E k \in Key, v \in Val : k \notin Cached /\ insert(k, v)
    BY <2>3, InsertRefines DEF Abs!Next
  <2>4. CASE UNCHANGED vars
    BY <2>4 DEF vars, Abs!vars, Cached
  <2> QED BY <2>1, <2>2, <2>3, <2>4 DEF Next
<1> QED BY <1>1, <1>2, CacheInvariant, PTL DEF Spec, Abs!Spec, ImplementsLRU

-----------------------------------------------------------------------------

\* No two tables have the same cache id, and none that is still to be given.
IdsDiffer ==
    /\ \A tab \in Table : cache_id[tab] <= id
    /\ \A x, y \in Table : cache_id[x] # 0 /\ cache_id[x] = cache_id[y] => x = y
    /\ id <= MaxIds

\* A thread inside read_block() reads a table that is open, and one inside
\* Table::new() is the only one that knows its table.
CallsMakeSense ==
    \A t \in Thread :
        /\ th[t].pc \in {"waiting", "reading"} =>
              th[t].table \in Table /\ th[t].offset \in Offset /\ cache_id[th[t].table] # 0
        /\ th[t].pc = "opening" =>
              /\ th[t].table \in Table /\ cache_id[th[t].table] = 0
              /\ \A u \in Thread : th[u].table = th[t].table => u = t

\* The lock is held by the one thread that reads from a file.
OneReader ==
    /\ \A t \in Thread : th[t].pc = "reading" <=> t \in holders
    /\ \A t, u \in holders : t = u
    /\ poisoned => holders = {}

\* Keys are in the cache only under ids that were given.
CachedIdsGiven == \A k \in Cached : k[1] <= id

\* The inductive invariant.
BInv ==
    /\ IInv
    /\ BlockCacheTypeOK
    /\ IdsDiffer
    /\ CallsMakeSense
    /\ OneReader
    /\ CachedIdsGiven
    /\ ReadsRight
    /\ MissStaysMiss

\* The key of a block of an open table is a key of the cache.
LEMMA HandleIsKey ==
    ASSUME BInv, NEW tab \in Table, NEW off \in Offset, cache_id[tab] # 0
    PROVE  block_cache_handle(tab, off) \in Key
<1>1. cache_id[tab] \in 1 .. MaxIds
  BY BlockCacheAssumption DEF BInv, BlockCacheTypeOK
<1> QED BY <1>1, BlockCacheAssumption DEF block_cache_handle

\* The handles of two blocks differ, whatever tables they are of.
LEMMA HandlesDiffer ==
    ASSUME BInv,
           NEW x \in Table, NEW p \in Offset, cache_id[x] # 0,
           NEW y \in Table, NEW q \in Offset,
           block_cache_handle(x, p) = block_cache_handle(y, q)
    PROVE  x = y /\ p = q
<1>1. cache_id[x] = cache_id[y] /\ p = q
  BY DEF block_cache_handle
<1> QED BY <1>1 DEF BInv, IdsDiffer

\* No thread has begun and the cache is empty.
LEMMA BlockCacheInitInv == BlockCacheInit => BInv
<1> SUFFICES ASSUME BlockCacheInit PROVE BInv
  OBVIOUS
<1>1. IInv
  BY InitInv DEF BlockCacheInit
<1>2. Cached = {}
  BY DEF BlockCacheInit, Init, Cached, NoEntry
<1>3. BlockCacheTypeOK
  <2>1. cache_id \in [Table -> 0 .. MaxIds]
    BY BlockCacheAssumption DEF BlockCacheInit
  <2>2. th \in [Thread -> [pc     : {"idle", "opening", "waiting", "reading", "dead"},
                           table  : Table \union {None},
                           offset : Offset \union {None}]]
    BY DEF BlockCacheInit, Idle, At
  <2> QED BY <1>1, <2>1, <2>2 DEF IInv, BlockCacheTypeOK, BlockCacheInit
<1>4. IdsDiffer
  BY BlockCacheAssumption DEF IdsDiffer, BlockCacheInit, Init
<1>5. CallsMakeSense /\ OneReader /\ MissStaysMiss
  BY DEF CallsMakeSense, OneReader, MissStaysMiss, BlockCacheInit, Idle, At
<1>6. CachedIdsGiven /\ ReadsRight
  BY <1>2 DEF CachedIdsGiven, ReadsRight
<1> QED BY <1>1, <1>3, <1>4, <1>5, <1>6 DEF BInv

\* Each step of a thread leaves the cache alone or is one that Cache!Next
\* allows: what read_block() inserts is missing, because the lock was kept.
LEMMA StepIsCacheStep ==
    ASSUME BInv, [BlockCacheNext]_allVars
    PROVE  [Next]_vars
<1>1. CASE UNCHANGED allVars
  BY <1>1 DEF allVars
<1>2. ASSUME NEW t \in Thread, openId(t)
      PROVE  Next
  BY <1>2 DEF openId, Next
<1>3. ASSUME NEW t \in Thread, hit(t)
      PROVE  Next
  <2>1. KeyOf(t) \in Key
    BY <1>3, HandleIsKey DEF hit, KeyOf, BInv, CallsMakeSense
  <2> QED BY <1>3, <2>1 DEF hit, Next
<1>4. ASSUME NEW t \in Thread, fill(t)
      PROVE  Next
  <2>1. KeyOf(t) \in Key /\ <<th[t].table, th[t].offset>> \in Val
    BY <1>4, HandleIsKey, BlockCacheAssumption DEF fill, KeyOf, BInv, CallsMakeSense
  <2>2. KeyOf(t) \notin Cached
    BY <1>4 DEF fill, BInv, MissStaysMiss
  <2> QED BY <1>4, <2>1, <2>2 DEF fill, Next
<1>5. ASSUME NEW t \in Thread,
             \/ \E tab \in Table : open(t, tab)
             \/ \E tab \in Table, off \in Offset : read_block(t, tab, off)
             \/ miss(t) \/ lockError(t) \/ readError(t) \/ readPanics(t)
      PROVE  UNCHANGED vars
  BY <1>5 DEF open, read_block, miss, lockError, readError, readPanics
<1> QED BY <1>1, <1>2, <1>3, <1>4, <1>5 DEF BlockCacheNext, Runs

-----------------------------------------------------------------------------

\* What an insertion does to the map: the key has the element, no other key
\* gets one.
LEMMA InsertMap ==
    ASSUME IInv, NEW k \in Key, NEW v \in Val, k \notin Cached, insert(k, v)
    PROVE  /\ \A j \in Key \ {k} : map'[j] \in {map[j], NoEntry}
           /\ k \in Cached' => map'[k].elem = v
<1>1. \A j \in Key : Forget(j) \in [Key -> {NoEntry} \union {map[i] : i \in Key}]
                     /\ \A i \in Key : Forget(j)[i] \in {map[i], NoEntry}
  BY DEF IInv, TypeOK, Forget
<1>2. CASE map' = map
  BY <1>2 DEF Cached
<1>3. CASE ~Full
  BY <1>3 DEF insert, PutFirst, IInv, TypeOK, Cached
<1>4. CASE Full /\ CanEvict
  <2> DEFINE m == Forget(heap.data[LastNode(heap)])
  <2>1. heap.data[LastNode(heap)] \in Key
    BY <1>4 DEF CanEvict, Cached
  <2>2. \E n : map' = [m EXCEPT ![k] = [elem |-> v, handle |-> n]]
    BY <1>4 DEF insert, PutFirst
  <2>3. DOMAIN m = Key /\ \A i \in Key : m[i] \in {map[i], NoEntry}
    BY <2>1, <1>1
  <2> HIDE DEF m
  <2> QED BY <2>2, <2>3, <1>2 DEF Cached
<1> QED BY <1>2, <1>3, <1>4 DEF insert

ThreadState ==
    [pc     : {"idle", "opening", "waiting", "reading", "dead"},
     table  : Table \union {None},
     offset : Offset \union {None}]

\* The parts of the invariant that speak of map, ids and handles of tables
\* stay, when these do.
LEMMA SameCache ==
    ASSUME BInv, map' = map, cache_id' = cache_id, id' = id
    PROVE  IdsDiffer' /\ CachedIdsGiven' /\ ReadsRight' /\ Cached' = Cached
<1>1. Cached' = Cached
  BY DEF Cached
<1>2. IdsDiffer' /\ CachedIdsGiven'
  BY <1>1 DEF BInv, IdsDiffer, CachedIdsGiven
<1>3. ReadsRight'
  BY <1>1 DEF BInv, ReadsRight, block_cache_handle
<1> QED BY <1>1, <1>2, <1>3

\* A step that leaves the map, the ids and the tables alone keeps the invariant,
\* if the thread's new place is one that CallsMakeSense and MissStaysMiss allow.
LEMMA QuietStep ==
    ASSUME BInv, IInv', NEW t \in Thread,
           NEW pc \in {"idle", "opening", "waiting", "reading", "dead"},
           NEW tab \in Table \union {None}, NEW off \in Offset \union {None},
           th' = [th EXCEPT ![t] = At(pc, tab, off)],
           map' = map, cache_id' = cache_id, id' = id,
           calls' \in Nat, holders' \in SUBSET Thread, poisoned' \in BOOLEAN, OneReader',
           pc \in {"waiting", "reading"} =>
               tab \in Table /\ off \in Offset /\ cache_id[tab] # 0,
           pc = "opening" =>
               tab \in Table /\ cache_id[tab] = 0 /\ \A u \in Thread : th[u].table # tab,
           pc = "reading" => block_cache_handle(tab, off) \notin Cached,
           tab \in Table /\ pc # "opening" => cache_id[tab] # 0
    PROVE  BInv'
<1>1. /\ th' \in [Thread -> ThreadState]
      /\ th'[t].pc = pc /\ th'[t].table = tab /\ th'[t].offset = off
      /\ \A u \in Thread : u # t => th'[u] = th[u]
  <2>1. th \in [Thread -> ThreadState] /\ At(pc, tab, off) \in ThreadState
    BY DEF BInv, BlockCacheTypeOK, ThreadState, At
  <2> QED BY <2>1 DEF At
<1>2. IdsDiffer' /\ CachedIdsGiven' /\ ReadsRight' /\ Cached' = Cached
  BY SameCache
<1>3. BlockCacheTypeOK'
  BY <1>1 DEF BInv, BlockCacheTypeOK, IInv, ThreadState
<1>4. CallsMakeSense'
  BY <1>1 DEF BInv, CallsMakeSense
<1>5. MissStaysMiss'
  BY <1>1, <1>2 DEF BInv, MissStaysMiss, KeyOf, block_cache_handle
<1> QED BY <1>2, <1>3, <1>4, <1>5 DEF BInv

\* Every step of a thread but openId() and fill() is such a step.
LEMMA QuietSteps ==
    ASSUME BInv, IInv', NEW t \in Thread,
           \/ \E tab \in Table : open(t, tab)
           \/ \E tab \in Table, off \in Offset : read_block(t, tab, off)
           \/ lockError(t) \/ hit(t) \/ miss(t) \/ readError(t) \/ readPanics(t)
    PROVE  BInv'
<1>1. /\ th \in [Thread -> ThreadState]
      /\ holders \in SUBSET Thread /\ poisoned \in BOOLEAN /\ calls \in Nat
      /\ None \notin Table /\ None \in Table \union {None} /\ None \in Offset \union {None}
  BY BlockCacheAssumption DEF BInv, BlockCacheTypeOK, ThreadState
<1>2. ASSUME NEW tab \in Table, open(t, tab)
      PROVE  BInv'
  <2>1. OneReader'
    BY <1>2, <1>1 DEF open, BInv, OneReader, At
  <2> QED BY <1>1, <1>2, <2>1, QuietStep DEF open, vars
<1>3. ASSUME NEW tab \in Table, NEW off \in Offset, read_block(t, tab, off)
      PROVE  BInv'
  <2>1. OneReader'
    BY <1>3, <1>1 DEF read_block, BInv, OneReader, At
  <2>2. /\ th' = [th EXCEPT ![t] = At("waiting", tab, off)]
        /\ map' = map /\ id' = id /\ UNCHANGED <<holders, poisoned, cache_id>>
        /\ cache_id[tab] # 0 /\ calls' \in Nat
    BY <1>1, <1>3 DEF read_block, vars
  <2> QED BY <1>1, <2>1, <2>2, QuietStep
<1>4. CASE lockError(t) \/ hit(t)
  <2>1. OneReader'
    BY <1>4, <1>1 DEF lockError, hit, Returns, Idle, BInv, OneReader, At
  <2>2. /\ th' = [th EXCEPT ![t] = At("idle", None, None)]
        /\ map' = map /\ id' = id /\ UNCHANGED <<holders, poisoned, cache_id, calls>>
    BY <1>4 DEF lockError, hit, Returns, Idle, get, vars
  <2> QED BY <1>1, <2>1, <2>2, QuietStep
<1>5. CASE miss(t)
  <2>1. th[t].table \in Table /\ th[t].offset \in Offset /\ cache_id[th[t].table] # 0
    BY <1>5 DEF miss, BInv, CallsMakeSense
  <2>2. OneReader'
    BY <1>5, <1>1 DEF miss, CanUse, CanLock, Goes, BInv, OneReader, At
  <2> QED BY <1>1, <1>5, <2>1, <2>2, QuietStep DEF miss, Goes, KeyOf, vars
<1>6. CASE readError(t)
  <2>1. OneReader'
    BY <1>6, <1>1 DEF readError, Returns, Idle, BInv, OneReader, At
  <2>2. /\ th' = [th EXCEPT ![t] = At("idle", None, None)]
        /\ map' = map /\ id' = id /\ UNCHANGED <<poisoned, cache_id, calls>>
        /\ holders' \in SUBSET Thread
    BY <1>1, <1>6 DEF readError, Returns, Idle, vars
  <2> QED BY <1>1, <2>1, <2>2, QuietStep
<1>7. CASE readPanics(t)
  <2>1. th[t].table \in Table /\ th[t].offset \in Offset /\ cache_id[th[t].table] # 0
    BY <1>7 DEF readPanics, BInv, CallsMakeSense
  <2>2. OneReader'
    BY <1>7, <1>1 DEF readPanics, Goes, BInv, OneReader, At
  <2> QED BY <1>1, <1>7, <2>1, <2>2, QuietStep DEF readPanics, Goes, vars
<1> QED BY <1>2, <1>3, <1>4, <1>5, <1>6, <1>7

\* The id that Table::new() gets is no other table's, and no key of the cache
\* has it: the new table cannot hit on what another one has inserted.
LEMMA OpenIdInv ==
    ASSUME BInv, IInv', NEW t \in Thread, openId(t)
    PROVE  BInv'
<1> DEFINE tab == th[t].table
<1>1. /\ tab \in Table /\ cache_id[tab] = 0
      /\ \A u \in Thread : th[u].table = tab => u = t
  BY DEF openId, BInv, CallsMakeSense
<1>2. /\ id \in Nat /\ id' = id + 1 /\ id + 1 \in 1 .. MaxIds /\ map' = map
      /\ cache_id \in [Table -> 0 .. MaxIds]
      /\ cache_id' = [cache_id EXCEPT ![tab] = id + 1]
      /\ UNCHANGED <<holders, poisoned, calls>> /\ holders = {} /\ th[t].pc = "opening"
  BY BlockCacheAssumption
     DEF openId, CanUse, CanLock, new_cache_id, BInv, BlockCacheTypeOK, IInv, TypeOK
<1>3. /\ th' \in [Thread -> ThreadState]
      /\ th'[t].pc = "idle" /\ th'[t].table = None
      /\ \A u \in Thread : u # t => th'[u] = th[u]
  <2>1. th \in [Thread -> ThreadState] /\ At("idle", None, None) \in ThreadState
    BY DEF BInv, BlockCacheTypeOK, ThreadState, At
  <2> QED BY <2>1 DEF openId, Returns, Idle, At
<1> HIDE DEF tab
<1>4. /\ cache_id' \in [Table -> 0 .. MaxIds]
      /\ cache_id'[tab] = id + 1
      /\ \A x \in Table : x # tab => cache_id'[x] = cache_id[x]
  BY <1>1, <1>2
<1>5. Cached' = Cached
  BY <1>2 DEF Cached
<1>6. BlockCacheTypeOK'
  BY <1>2, <1>3, <1>4 DEF BInv, BlockCacheTypeOK, IInv, ThreadState
<1>7. IdsDiffer'
  <2>1. \A x \in Table : cache_id[x] \in Nat /\ cache_id[x] <= id
    BY <1>2, BlockCacheAssumption DEF BInv, IdsDiffer
  <2> QED BY <1>2, <1>4, <2>1, BlockCacheAssumption DEF BInv, IdsDiffer
<1>8. CallsMakeSense'
  BY <1>1, <1>2, <1>3, <1>4, BlockCacheAssumption DEF BInv, CallsMakeSense, tab
<1>9. OneReader' /\ MissStaysMiss'
  <2>1. \A u \in Thread : th[u].pc # "reading"
    BY <1>2 DEF BInv, OneReader
  <2>2. \A u \in Thread : th'[u].pc # "reading"
    BY <2>1, <1>3
  <2> QED BY <1>2, <2>2 DEF OneReader, MissStaysMiss
<1>10. CachedIdsGiven'
  <2>1. ASSUME NEW k \in Cached PROVE k[1] <= id + 1
    <3>1. k[1] \in 1 .. MaxIds
      BY <2>1, BlockCacheAssumption DEF Cached
    <3> QED BY <3>1, <1>2 DEF BInv, CachedIdsGiven
  <2> QED BY <2>1, <1>2, <1>5 DEF CachedIdsGiven
<1>11. ReadsRight'
  <2> SUFFICES ASSUME NEW x \in Table, NEW off \in Offset,
                      <<cache_id'[x], off>> \in Cached, cache_id'[x] # 0
               PROVE  map[<<cache_id'[x], off>>].elem = <<x, off>>
    BY <1>2, <1>5 DEF ReadsRight, block_cache_handle
  <2>1. cache_id'[x] <= id
    BY DEF BInv, CachedIdsGiven
  <2>2. x # tab
    BY <2>1, <1>2, <1>4
  <2> QED BY <2>2, <1>4 DEF BInv, ReadsRight, block_cache_handle
<1> QED BY <1>6, <1>7, <1>8, <1>9, <1>10, <1>11 DEF BInv

\* What read_block() inserts is the block that its key is the handle of.
LEMMA FillInv ==
    ASSUME BInv, IInv', NEW t \in Thread, fill(t)
    PROVE  BInv'
<1> DEFINE tab == th[t].table
           off == th[t].offset
           k   == KeyOf(t)
<1>1. tab \in Table /\ off \in Offset /\ cache_id[tab] # 0 /\ k = block_cache_handle(tab, off)
  BY DEF fill, BInv, CallsMakeSense, KeyOf
<1>2. k \in Key /\ <<tab, off>> \in Val /\ k \notin Cached
  BY <1>1, HandleIsKey, BlockCacheAssumption DEF fill, BInv, MissStaysMiss
<1>3. /\ \A j \in Key \ {k} : map'[j] \in {map[j], NoEntry}
      /\ k \in Cached' => map'[k].elem = <<tab, off>>
  BY <1>2, InsertMap DEF fill, BInv
<1>4. /\ id' = id /\ UNCHANGED <<poisoned, cache_id, calls>> /\ holders' = holders \ {t}
  BY DEF fill, insert
<1>5. /\ th' \in [Thread -> ThreadState]
      /\ th'[t].pc = "idle" /\ th'[t].table = None
      /\ \A u \in Thread : u # t => th'[u] = th[u]
  <2>1. th \in [Thread -> ThreadState] /\ At("idle", None, None) \in ThreadState
    BY DEF BInv, BlockCacheTypeOK, ThreadState, At
  <2> QED BY <2>1 DEF fill, Returns, Idle, At
<1>6. \A u \in Thread : th'[u].pc # "reading"
  BY <1>5 DEF fill, BInv, OneReader
<1> HIDE DEF tab, off, k
<1>7. \A j \in Cached' : j = k \/ (j \in Cached /\ map'[j] = map[j])
  <2>1. ASSUME NEW j \in Cached', j # k PROVE j \in Cached /\ map'[j] = map[j]
    <3>1. j \in Key /\ map'[j].handle # None
      BY DEF Cached
    <3>2. map'[j] # NoEntry
      BY <3>1 DEF NoEntry
    <3> QED BY <3>1, <3>2, <2>1, <1>3 DEF Cached
  <2> QED BY <2>1
<1>8. BlockCacheTypeOK'
  BY <1>4, <1>5 DEF BInv, BlockCacheTypeOK, IInv, ThreadState
<1>9. IdsDiffer'
  BY <1>4 DEF BInv, IdsDiffer
<1>10. CallsMakeSense'
  BY <1>4, <1>5, BlockCacheAssumption DEF BInv, CallsMakeSense
<1>11. OneReader' /\ MissStaysMiss'
  <2>1. holders' = {}
    BY <1>4 DEF fill, BInv, OneReader
  <2> QED BY <1>6, <2>1 DEF OneReader, MissStaysMiss
<1>12. CachedIdsGiven'
  <2>1. k[1] <= id
    BY <1>1 DEF block_cache_handle, BInv, IdsDiffer
  <2> QED BY <1>4, <1>7, <2>1 DEF BInv, CachedIdsGiven
<1>13. ReadsRight'
  <2> SUFFICES ASSUME NEW x \in Table, NEW p \in Offset, cache_id[x] # 0,
                      block_cache_handle(x, p) \in Cached'
               PROVE  map'[block_cache_handle(x, p)].elem = <<x, p>>
    BY <1>4 DEF ReadsRight, block_cache_handle
  <2>1. CASE block_cache_handle(x, p) = k
    <3>1. x = tab /\ p = off
      BY <1>1, <2>1, HandlesDiffer
    <3> QED BY <3>1, <2>1, <1>3 DEF k, tab, off
  <2>2. CASE block_cache_handle(x, p) # k
    BY <2>2, <1>7 DEF BInv, ReadsRight
  <2> QED BY <2>1, <2>2
<1> QED BY <1>8, <1>9, <1>10, <1>11, <1>12, <1>13 DEF BInv

\* Every step of a thread keeps the invariant.
LEMMA BlockCacheNextInv == BInv /\ [BlockCacheNext]_allVars => BInv'
<1> SUFFICES ASSUME BInv, [BlockCacheNext]_allVars PROVE BInv'
  OBVIOUS
<1>1. IInv'
  BY StepIsCacheStep, NextInv DEF BInv
<1>2. CASE UNCHANGED allVars
  <2>1. /\ map' = map /\ cache_id' = cache_id /\ id' = id
        /\ UNCHANGED <<holders, poisoned, th, calls>>
    BY <1>2 DEF allVars, vars, lockVars
  <2>2. IdsDiffer' /\ CachedIdsGiven' /\ ReadsRight' /\ Cached' = Cached
    BY <2>1, SameCache
  <2>3. BlockCacheTypeOK'
    BY <1>1, <2>1 DEF BInv, IInv, BlockCacheTypeOK
  <2>4. CallsMakeSense' /\ OneReader' /\ MissStaysMiss'
    BY <2>1, <2>2 DEF BInv, CallsMakeSense, OneReader, MissStaysMiss, KeyOf, block_cache_handle
  <2> QED BY <1>1, <2>2, <2>3, <2>4 DEF BInv
<1>3. ASSUME NEW t \in Thread, openId(t) PROVE BInv'
  BY <1>1, <1>3, OpenIdInv
<1>4. ASSUME NEW t \in Thread, fill(t) PROVE BInv'
  BY <1>1, <1>4, FillInv
<1>5. ASSUME NEW t \in Thread,
             \/ \E tab \in Table : open(t, tab)
             \/ \E tab \in Table, off \in Offset : read_block(t, tab, off)
             \/ lockError(t) \/ hit(t) \/ miss(t) \/ readError(t) \/ readPanics(t)
      PROVE  BInv'
  BY <1>1, <1>5, QuietSteps
<1> QED BY <1>2, <1>3, <1>4, <1>5 DEF BlockCacheNext, Runs

\* The inductive invariant holds however the threads interleave.
THEOREM BlockCacheInvariant == BlockCacheSpec => []BInv
BY BlockCacheInitInv, BlockCacheNextInv, PTL DEF BlockCacheSpec

\* Any number of threads, tables and blocks on one shared cache: read_block()
\* and Table::new() make only the calls that the cache's proofs allow its user,
\* so the threads' cache is the cache of Cache!Spec.
THEOREM ThreadsUseCache == BlockCacheSpec => Spec
<1>1. BlockCacheInit => Init
  BY DEF BlockCacheInit
<1>2. BInv /\ [BlockCacheNext]_allVars => [Next]_vars
  BY StepIsCacheStep
<1> QED BY <1>1, <1>2, BlockCacheInvariant, PTL DEF BlockCacheSpec, Spec

\* Hence what is shown of the cache holds for the threads: its raw
\* pointers never dangle, map and list agree, no assertion of it fails ...
THEOREM SharedCacheIsSound == BlockCacheSpec => [](NeverPanics /\ ListOK /\ MapListAgree)
<1>1. IInv => NeverPanics /\ ListOK /\ MapListAgree
  BY DEF IInv
<1> QED BY <1>1, ThreadsUseCache, CacheInvariant, PTL

\* ... and it evicts the block whose last use, by any thread, is the oldest.
THEOREM SharedCacheIsLRU == BlockCacheSpec => ImplementsLRU
BY ThreadsUseCache, CacheImplementsLRU, PTL

\* A hit is the block that was asked for, whatever tables share the cache and
\* whatever was evicted between the calls.
THEOREM HitsAreRight == BlockCacheSpec => []ReadsRight
<1>1. BInv => ReadsRight
  BY DEF BInv
<1> QED BY <1>1, BlockCacheInvariant, PTL

\* No two threads read the same block at a time: a miss stays one until the
\* thread that met it has inserted the block.
THEOREM MissesStay == BlockCacheSpec => []MissStaysMiss
<1>1. BInv => MissStaysMiss
  BY DEF BInv
<1> QED BY <1>1, BlockCacheInvariant, PTL

\* The types of the threads' state.
THEOREM BlockCacheTypes == BlockCacheSpec => []BlockCacheTypeOK
<1>1. BInv => BlockCacheTypeOK
  BY DEF BInv
<1> QED BY <1>1, BlockCacheInvariant, PTL

\* After a panic under the lock the cache is never touched again, for any
\* number of threads that wait for it.
THEOREM PoisonStays == BlockCacheSpec => PoisonIsFinal
<1>1. BInv /\ [BlockCacheNext]_allVars =>
          [poisoned => UNCHANGED <<vars, cache_id>> /\ holders' = {}]_allVars
  <2> SUFFICES ASSUME BInv, BlockCacheNext, poisoned
               PROVE  UNCHANGED <<vars, cache_id>> /\ holders' = {}
    OBVIOUS
  <2>1. holders = {} /\ \A t \in Thread : th[t].pc # "reading"
    BY DEF BInv, OneReader
  <2>2. ~CanUse
    BY DEF CanUse
  <2> QED
    BY <2>1, <2>2 DEF BlockCacheNext, Runs, open, read_block, openId, hit, miss, lockError,
                      fill, readError, readPanics
<1> QED BY <1>1, BlockCacheInvariant, PTL DEF BlockCacheSpec, PoisonIsFinal
=============================================================================
