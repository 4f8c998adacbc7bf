----------------------------- MODULE BlockCache -----------------------------
(***************************************************************************)
(* Threads that open tables and read blocks through one shared cache:      *)
(* Table::new and Table::read_block (src/src/table_reader.rs) around the   *)
(* RwLock in Options::block_cache, over the cache of module Cache.         *)
(*                                                                         *)
(* Everything between two points where another thread can get in is one    *)
(* step.  A miss keeps the lock while the block is read from the file.     *)
(* That read may fail, or panic: then the guard is dropped during          *)
(* unwinding and the lock is poisoned, so that every later write() on it   *)
(* is an error.                                                            *)
(***************************************************************************)
EXTENDS Cache

CONSTANTS Thread,
          Table,        \* the Tables opened with clones of one Options
          Offset,       \* where the blocks of a table begin
          MaxCalls      \* bound on the calls of read_block

\* A cache key is an id that new_cache_id gave and an offset; the element
\* cached for a block is known by the table and the place it was read from.
ASSUME BlockCacheAssumption ==
    /\ MaxIds \in Nat /\ MaxUses \in Nat /\ None \notin Table
    /\ Key = (1 .. MaxIds) \X Offset
    /\ Val = Table \X Offset
    /\ MaxCalls \in 0 .. MaxUses

VARIABLES holders,      \* the threads inside the lock
          poisoned,     \* the lock is poisoned
          cache_id,     \* Table::cache_id, 0 before Table::new has returned
          th,           \* what each thread does
          calls         \* the calls of read_block made so far

lockVars == <<holders, poisoned, cache_id, th, calls>>

allVars == <<vars, lockVars>>

\* where a thread is, and for which block of which table
At(pc, tab, off) == [pc |-> pc, table |-> tab, offset |-> off]

Idle == At("idle", None, None)

BlockCacheInit ==
    /\ Init
    /\ holders = {} /\ poisoned = FALSE
    /\ cache_id = [tab \in Table |-> 0]
    /\ th = [t \in Thread |-> Idle]
    /\ calls = 0

BlockCacheTypeOK ==
    /\ TypeOK
    /\ holders \in SUBSET Thread
    /\ poisoned \in BOOLEAN
    /\ cache_id \in [Table -> 0 .. MaxIds]
    /\ th \in [Thread -> [pc     : {"idle", "opening", "waiting", "reading", "dead"},
                          table  : Table \union {None},
                          offset : Offset \union {None}]]
    /\ calls \in Nat

\* (deliberately wrong, for the mutant of block_cache_handle: tables are not told apart)
block_cache_handle_OffsetOnly(tab, off) == <<1, off>>

\* Table::block_cache_handle: two fixed-size numbers side by side
block_cache_handle(tab, off) == <<cache_id[tab], off>>

KeyOf(t) == block_cache_handle(th[t].table, th[t].offset)

\* (deliberately wrong, for the mutant of CanLock: a lock that readers share)
CanLock_Shared == TRUE

\* RwLock::write can return
CanLock == holders = {}

\* (deliberately wrong, for the mutant of CanUse: the cache is taken out of a
\* poisoned lock)
CanUse_Poisoned == CanLock

\* ... and returns the cache
CanUse == CanLock /\ ~poisoned

Goes(t, pc) == th' = [th EXCEPT ![t] = At(pc, th[t].table, th[t].offset)]

\* the thread's call returns, with a block or with an error
Returns(t) == th' = [th EXCEPT ![t] = Idle]

-----------------------------------------------------------------------------

\* Table::new, up to the lock: footer, index, metaindex and filter were read
open(t, tab) ==
    /\ th[t].pc = "idle"
    /\ cache_id[tab] = 0 /\ \A u \in Thread : th[u].table # tab
    /\ th' = [th EXCEPT ![t] = At("opening", tab, None)]
    /\ UNCHANGED <<vars, holders, poisoned, cache_id, calls>>

\* Table::new, under the lock
openId(t) ==
    /\ th[t].pc = "opening"
    /\ CanUse
    /\ new_cache_id
    /\ cache_id' = [cache_id EXCEPT ![th[t].table] = id']
    /\ Returns(t)
    /\ UNCHANGED <<holders, poisoned, calls>>

\* Table::read_block is called, on a table that any thread may share
read_block(t, tab, off) ==
    /\ th[t].pc = "idle"
    /\ calls < MaxCalls
    /\ cache_id[tab] # 0
    /\ th' = [th EXCEPT ![t] = At("waiting", tab, off)]
    /\ calls' = calls + 1
    /\ UNCHANGED <<vars, holders, poisoned, cache_id>>

\* the block is in the cache
hit(t) ==
    /\ th[t].pc = "waiting"
    /\ CanUse
    /\ get(KeyOf(t))
    /\ Returns(t)
    /\ UNCHANGED <<holders, poisoned, cache_id, calls>>

\* it is not: the lock is kept
miss(t) ==
    /\ th[t].pc = "waiting"
    /\ CanUse
    /\ KeyOf(t) \notin Cached
    /\ holders' = holders \union {t}
    /\ Goes(t, "reading")
    /\ UNCHANGED <<vars, poisoned, cache_id, calls>>

\* (deliberately wrong, for the mutant of lockError: read_block waits for a
\* lock that is not given any more)
lockError_Waits(t) ==
    /\ th[t].pc = "opening" /\ CanLock /\ poisoned
    /\ Returns(t)
    /\ UNCHANGED <<vars, holders, poisoned, cache_id, calls>>

\* write() on a poisoned lock, in Table::new or in read_block
lockError(t) ==
    /\ th[t].pc \in {"opening", "waiting"}
    /\ CanLock /\ poisoned
    /\ Returns(t)
    /\ UNCHANGED <<vars, holders, poisoned, cache_id, calls>>

\* read_table_block fails: the file cannot be read, or the checksum is wrong
readError(t) ==
    /\ th[t].pc = "reading"
    /\ holders' = holders \ {t}
    /\ Returns(t)
    /\ UNCHANGED <<vars, poisoned, cache_id, calls>>

\* read_table_block panics: in a RandomAccess of the user's, or in Block::new on
\* contents of four bytes or less
readPanics(t) ==
    /\ th[t].pc = "reading"
    /\ poisoned' = TRUE
    /\ holders' = holders \ {t}
    /\ Goes(t, "dead")
    /\ UNCHANGED <<vars, cache_id, calls>>

\* read_table_block returns the block: it is inserted, and the lock released
fill(t) ==
    /\ th[t].pc = "reading"
    /\ insert(KeyOf(t), <<th[t].table, th[t].offset>>)
    /\ holders' = holders \ {t}
    /\ Returns(t)
    /\ UNCHANGED <<poisoned, cache_id, calls>>

-----------------------------------------------------------------------------

\* the steps of a call that was made
Runs(t) ==
    \/ openId(t) \/ lockError(t)
    \/ hit(t) \/ miss(t)
    \/ fill(t) \/ readError(t) \/ readPanics(t)

BlockCacheNext ==
    \E t \in Thread :
        \/ \E tab \in Table : open(t, tab)
        \/ \E tab \in Table, off \in Offset : read_block(t, tab, off)
        \/ Runs(t)

BlockCacheSpec == BlockCacheInit /\ [][BlockCacheNext]_allVars

\* A thread that is inside a call is scheduled, and reads of a file return.
\* Nothing is assumed of the order in which a lock is given.
FairBlockCacheSpec == BlockCacheSpec /\ \A t \in Thread : WF_allVars(Runs(t))

-----------------------------------------------------------------------------

\* Whoever shares the cache, what it holds under the key that a table makes for
\* one of its blocks is that block, so that a hit returns what a read would.
ReadsRight ==
    \A tab \in Table, off \in Offset :
        LET k == block_cache_handle(tab, off)
        IN  cache_id[tab] # 0 /\ k \in Cached => map[k].elem = <<tab, off>>

\* What a thread found missing is missing until the thread itself inserts it:
\* no block is read twice at a time and no key inserted twice, which is what
\* Cache takes from its user.
MissStaysMiss ==
    \A t \in Thread : th[t].pc = "reading" => KeyOf(t) \notin Cached

\* A panic under the lock ends the use of the cache for all tables that share
\* it: no element comes or goes, no table is opened any more, and no thread was
\* half way through an insertion.
PoisonIsFinal ==
    [][poisoned => UNCHANGED <<vars, cache_id>> /\ holders' = {}]_allVars

\* Every call returns, or its thread has panicked: no error path and no panic
\* leaves the lock taken.
CallEnds ==
    \A t \in Thread : th[t].pc # "idle" ~> th[t].pc \in {"idle", "dead"}
=============================================================================
