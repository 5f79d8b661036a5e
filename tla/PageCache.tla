------------------------------ MODULE PageCache ------------------------------
(***************************************************************************)
(* The page cache, kernel/mm/page_cache.c: a hash table of entries, a list *)
(* of the same entries in eviction order, and one spinlock.                *)
(*                                                                         *)
(* Every critical section of the cache lock is one step, so an operation   *)
(* that lets go of the lock and takes it again (page_cache_insert when the *)
(* cache is full) is several.  Pages come from the buddy allocator, seen   *)
(* through its specification: an order-0 request yields some free page and *)
(* fails only when there is none.  Timestamps matter only by their order,  *)
(* so last_access is the sequence of entries from the latest access to the *)
(* earliest.  Hit and miss counters, which nothing reads, are left out.    *)
(*                                                                         *)
(* A caller knows what the calls return and no more.  page_cache_insert    *)
(* returns 0 when it has added the page and when the key was cached        *)
(* already: in either case the caller takes its page for inserted.         *)
(* page_cache_remove returns nothing.                                      *)
(*                                                                         *)
(* What other users of the pages behind the table and the table do to each *)
(* other is not followed: TableAlone says where they meet.                 *)
(***************************************************************************)
EXTENDS Integers, Sequences, FiniteSets, Functions

CONSTANTS
  CPUs,
  Keys,           \* the <<file_id, offset>> pairs callers use
  HashOf,         \* HashOf[k]: hash_function of the key
  Pages,          \* the pages of the buddy allocator
  None,
  MaxHeld,        \* bound: pages a caller keeps at a time
  max_pages,      \* argument of page_cache_init
  BlindRemove,    \* TRUE: a caller that removes a key takes the page it had
                  \* inserted back, as kernel/tests/test_page_cache.c does;
                  \* FALSE: callers leave an inserted page to the cache
  HASH_SIZE,      \* hash_size: 1024
  PTR_SIZE,       \* sizeof(page_cache_entry_t *)
  BUDDY_PAGE_SIZE

ASSUME CacheAssumption ==
  /\ CPUs # {} /\ HashOf \in [Keys -> Nat]
  /\ None \notin Pages \cup CPUs \cup Keys
  /\ max_pages \in Nat /\ MaxHeld \in Nat
  /\ BlindRemove \in BOOLEAN
  /\ HASH_SIZE \in Nat \ {0} /\ PTR_SIZE \in Nat \ {0}
  /\ BUDDY_PAGE_SIZE \in Nat \ {0}

VARIABLES
  table,        \* hash_table: the page that holds it, None for NULL
  spill,        \* the pages behind it that the table reaches into
  chain,        \* chain[b]: the entries of bucket b, first to last
  key,          \* key[e]: file_id and offset of the entry in page e
  phys,         \* phys[e]: its physical_address
  lru,          \* the list from lru_head to lru_tail
  last_access,  \* the entries ordered by last_access, latest first
  total_pages,
  free,         \* the buddy allocator's free pages
  held,         \* held[c]: pages that belong to the caller c
  inserted,     \* inserted[c]: with BlindRemove, the <<key, page>> that c put
                \* into the cache last, else None
  left,         \* history: pages that the cache left to a caller without
                \* telling it
  pc,           \* pc[c]: where c is in page_cache_insert
  arg           \* arg[c]: the <<key, page>> c is inserting, or None

cacheVars == <<chain, key, phys, lru, last_access, total_pages>>
tableVars == <<table, spill>>
vars == <<table, spill, chain, key, phys, lru, last_access, total_pages, free,
          held, inserted, left, pc, arg>>

Buckets == Range(HashOf)

\* List s with entry e unlinked, if it is there.
Without(s, e) ==
  LET i == CHOOSE j \in 1..Len(s) : s[j] = e IN
  IF e \in Range(s) THEN SubSeq(s, 1, i - 1) \o SubSeq(s, i + 1, Len(s)) ELSE s

-----------------------------------------------------------------------------
(* The list, and what the two ways out of the cache give back *)

\* Mutant: the entry stays on the list.
LruRemoveForgotten(e) == UNCHANGED lru

lru_add_to_head(e) == lru' = <<e>> \o lru
lru_remove(e) == lru' = Without(lru, e)

\* Mutants: the cached page is leaked by an eviction, freed by a removal.
EvictFreesEntryOnly(e) == {e}
RemoveFreesPageToo(e) == {phys[e], e}

\* An eviction frees the cached page and the entry, a removal the entry only.
EvictFrees(e) == {phys[e], e}
RemoveFrees(e) == {e}

\* Mutant: one page too late.
FullTooLate == total_pages > max_pages

Full == total_pages >= max_pages

-----------------------------------------------------------------------------
(* page_cache_init *)

\* Memory may be used up before the cache is set up.
Init ==
  /\ table = None
  /\ spill = {}
  /\ chain = [b \in Buckets |-> <<>>]
  /\ key = [e \in Pages |-> None]
  /\ phys = [e \in Pages |-> None]
  /\ lru = <<>>
  /\ last_access = <<>>
  /\ total_pages = 0
  /\ free \in {Pages, {}}
  /\ held = [c \in CPUs |-> {}]
  /\ inserted = [c \in CPUs |-> None]
  /\ left = {}
  /\ pc = [c \in CPUs |-> "boot"]
  /\ arg = [c \in CPUs |-> None]

hash_table_pages == (HASH_SIZE * PTR_SIZE + BUDDY_PAGE_SIZE - 1) \div BUDDY_PAGE_SIZE

\* One page is allocated for the table, however many it takes; the rest of it
\* lies in the pages that follow.  Without a page hash_table stays NULL and
\* every operation returns at once.
page_cache_init ==
  /\ pc = [c \in CPUs |-> "boot"]
  /\ \/ \E p \in free :
          /\ table' = p /\ free' = free \ {p}
          /\ \E S \in SUBSET (Pages \ {p}) :
               Cardinality(S) = hash_table_pages - 1 /\ spill' = S
     \/ free = {} /\ UNCHANGED <<tableVars, free>>
  /\ pc' = [c \in CPUs |-> "idle"]
  /\ UNCHANGED <<cacheVars, held, inserted, left, arg>>

-----------------------------------------------------------------------------
(* Callers *)

\* A caller gets a page from the buddy allocator, to fill and to insert.
CallerAlloc(c) ==
  /\ pc[c] = "idle" /\ Cardinality(held[c]) < MaxHeld
  /\ \E p \in free :
       /\ free' = free \ {p}
       /\ held' = [held EXCEPT ![c] = @ \cup {p}]
  /\ UNCHANGED <<tableVars, cacheVars, inserted, left, pc, arg>>

CallerFree(c) ==
  /\ pc[c] = "idle"
  /\ \E p \in held[c] :
       /\ free' = free \cup {p}
       /\ held' = [held EXCEPT ![c] = @ \ {p}]
  /\ UNCHANGED <<tableVars, cacheVars, inserted, left, pc, arg>>

\* Without a table every operation returns at once.
NoTable(c) == pc[c] = "idle" /\ table = None /\ UNCHANGED vars

-----------------------------------------------------------------------------
(* Lookup *)

\* Where the walk along a bucket stops: at the first entry of key k, if any.
Match(k) ==
  LET list == chain[HashOf[k]] IN
  {list[i] : i \in {j \in 1..Len(list) :
                      /\ key[list[j]] = k
                      /\ \A h \in 1..(j - 1) : key[list[h]] # k}}

\* A hit stamps the entry; it does not move it on the list.
page_cache_lookup(c, k) ==
  /\ pc[c] = "idle" /\ table # None
  /\ \/ Match(k) = {} /\ UNCHANGED last_access
     \/ \E e \in Match(k) : last_access' = <<e>> \o Without(last_access, e)
  /\ UNCHANGED <<tableVars, chain, key, phys, lru, total_pages, free, held,
                 inserted, left, pc, arg>>

-----------------------------------------------------------------------------
(* page_cache_insert *)

\* The call has returned 0 and the caller takes page p for inserted.
GiveUp(c, k, p) ==
  /\ held' = [held EXCEPT ![c] = @ \ {p}]
  /\ inserted' = [inserted EXCEPT ![c] = IF BlindRemove THEN <<k, p>> ELSE None]

\* The tail of page_cache_insert, run with the lock: a page for the entry,
\* which goes to the front of its bucket and of the list.  Without a page the
\* call returns -1.
AddEntry(c, k, p) ==
  \/ \E e \in free :
       /\ free' = free \ {e}
       /\ key' = [key EXCEPT ![e] = k]
       /\ phys' = [phys EXCEPT ![e] = p]
       /\ chain' = [chain EXCEPT ![HashOf[k]] = <<e>> \o @]
       /\ lru_add_to_head(e)
       /\ last_access' = <<e>> \o last_access
       /\ total_pages' = total_pages + 1
       /\ GiveUp(c, k, p)
  \/ /\ free = {}
     /\ UNCHANGED <<cacheVars, free, held, inserted>>

\* A call with physical address 0 returns -1 at once and changes nothing.
\* First critical section: an existing entry ends the call with 0; a full
\* cache makes it let go of the lock to evict; otherwise the entry is added
\* before the lock is released.
InsertBegin(c, k) ==
  /\ pc[c] = "idle" /\ table # None
  /\ \E p \in held[c] :
       \/ /\ Match(k) # {}
          /\ GiveUp(c, k, p)
          /\ left' = left \cup {p}
          /\ UNCHANGED <<cacheVars, free, pc, arg>>
       \/ /\ Match(k) = {} /\ Full
          /\ pc' = [pc EXCEPT ![c] = "evict"]
          /\ arg' = [arg EXCEPT ![c] = <<k, p>>]
          /\ UNCHANGED <<cacheVars, free, held, inserted, left>>
       \/ /\ Match(k) = {} /\ ~Full
          /\ AddEntry(c, k, p)
          /\ UNCHANGED <<left, pc, arg>>
  /\ UNCHANGED tableVars

\* Take entry e out of the list, its bucket and the count.
Unlink(e) ==
  /\ lru_remove(e)
  /\ chain' = [chain EXCEPT ![HashOf[key[e]]] = Without(@, e)]
  /\ last_access' = Without(last_access, e)
  /\ total_pages' = total_pages - 1
  /\ key' = [key EXCEPT ![e] = None]
  /\ phys' = [phys EXCEPT ![e] = None]

\* The critical section of page_cache_evict_lru: the entry at the tail of the
\* list goes, and with it the cached page.
EvictTail ==
  \/ lru = <<>> /\ UNCHANGED <<cacheVars, free>>
  \/ /\ lru # <<>>
     /\ Unlink(lru[Len(lru)])
     /\ free' = free \cup EvictFrees(lru[Len(lru)])

InsertEvict(c) ==
  /\ pc[c] = "evict"
  /\ EvictTail
  /\ pc' = [pc EXCEPT ![c] = "relock"]
  /\ UNCHANGED <<tableVars, held, inserted, left, arg>>

\* The lock is taken again and the entry added: neither the key nor the
\* number of pages is looked at a second time.
InsertFinish(c) ==
  /\ pc[c] = "relock"
  /\ AddEntry(c, arg[c][1], arg[c][2])
  /\ pc' = [pc EXCEPT ![c] = "idle"]
  /\ arg' = [arg EXCEPT ![c] = None]
  /\ UNCHANGED <<tableVars, left>>

-----------------------------------------------------------------------------
(* page_cache_evict_lru and page_cache_remove, called from outside *)

page_cache_evict_lru(c) ==
  /\ pc[c] = "idle" /\ table # None
  /\ EvictTail
  /\ UNCHANGED <<tableVars, held, inserted, left, pc, arg>>

\* The pages a caller thinks it gets back by removing a key.
TakenBack(c) == IF BlindRemove THEN {inserted[c][2]} ELSE {}

\* The first entry of the key goes and its page is left to the caller, who is
\* not told whether there was one.
page_cache_remove(c, k) ==
  /\ pc[c] = "idle" /\ table # None
  /\ BlindRemove => inserted[c] # None /\ inserted[c][1] = k
  /\ \/ \E e \in Match(k) :
          /\ Unlink(e)
          /\ free' = free \cup RemoveFrees(e)
          /\ left' = (left \cup {phys[e]}) \ TakenBack(c)
     \/ /\ Match(k) = {}
        /\ left' = left \ TakenBack(c)
        /\ UNCHANGED <<cacheVars, free>>
  /\ held' = [held EXCEPT ![c] = @ \cup TakenBack(c)]
  /\ inserted' = [inserted EXCEPT ![c] = None]
  /\ UNCHANGED <<tableVars, pc, arg>>

-----------------------------------------------------------------------------
(* The specification *)

Next ==
  \/ page_cache_init
  \/ \E c \in CPUs :
       \/ CallerAlloc(c) \/ CallerFree(c) \/ NoTable(c)
       \/ InsertEvict(c) \/ InsertFinish(c) \/ page_cache_evict_lru(c)
       \/ \E k \in Keys : \/ page_cache_lookup(c, k) \/ InsertBegin(c, k)
                          \/ page_cache_remove(c, k)

Spec == Init /\ [][Next]_vars

-----------------------------------------------------------------------------
(* Properties *)

Entries == {e \in Pages : key[e] # None}

TypeOK ==
  /\ table \in Pages \cup {None} /\ spill \subseteq Pages
  /\ chain \in [Buckets -> Seq(Pages)]
  /\ key \in [Pages -> Keys \cup {None}]
  /\ phys \in [Pages -> Pages \cup {None}]
  /\ lru \in Seq(Pages) /\ last_access \in Seq(Pages)
  /\ total_pages \in Nat
  /\ free \subseteq Pages
  /\ held \in [CPUs -> SUBSET Pages]
  /\ inserted \in [CPUs -> (Keys \X Pages) \cup {None}]
  /\ left \subseteq Pages
  /\ pc \in [CPUs -> {"boot", "idle", "evict", "relock"}]
  /\ arg \in [CPUs -> (Keys \X Pages) \cup {None}]

\* The hash table and the list never drift apart: both link exactly the live
\* entries, each once and in the bucket of its key, and total_pages counts
\* them, whatever inserts, evictions and removals interleave.
ListsAgree ==
  /\ Range(lru) = Entries /\ IsInjective(lru)
  /\ \A b \in Buckets :
       /\ Range(chain[b]) = {e \in Entries : HashOf[key[e]] = b}
       /\ IsInjective(chain[b])
  /\ total_pages = Len(lru)

\* The buddy allocator has given a page to one user: it is free, the table,
\* an entry, cached by one entry, or with one caller.
GivenOnce ==
  /\ free \cap (Entries \cup {phys[e] : e \in Entries} \cup {table}) = {}
  /\ \A e \in Entries : phys[e] \notin Entries \cup {table} /\ e # table
  /\ \A e, f \in Entries : e # f => phys[e] # phys[f]
  /\ \A c \in CPUs :
       /\ held[c] \cap (free \cup Entries \cup {phys[e] : e \in Entries}) = {}
       /\ \A d \in CPUs : c # d => held[c] \cap held[d] = {}

Used == free \cup {table} \cup Entries \cup {phys[e] : e \in Entries}
          \cup UNION {held[c] : c \in CPUs}

\* What an eviction frees nobody else has, and what was left to a caller stays
\* with it: no page has two uses at any step of any interleaving.
OneUse == GivenOnce /\ left \cap Used = {}

\* The cache loses no page but those it leaves to callers that do not know: the
\* page of an insert whose key was cached already, and that of a removed entry.
NoOtherLost == table # None => Pages = Used \cup left

\* What page_cache_insert takes over with 0 is cached, as
\* kernel/tests/test_page_cache.c expects of a result of 0.
InsertedIsCached ==
  [][\A c \in CPUs : \A p \in held[c] \ (held'[c] \cup free') :
       \E e \in Entries' : phys'[e] = p]_vars

\* How far the unlocked eviction lets the cache grow: by at most one page for
\* every other CPU (a cache of no pages at all holds one for every CPU).
Overshoot ==
  max_pages > 0 => total_pages <= max_pages + Cardinality(CPUs) - 1

\* After page_cache_remove the key is gone, as kernel/tests/test_page_cache.c
\* expects.
RemovedIsGone ==
  [][\A c \in CPUs, k \in Keys : page_cache_remove(c, k) =>
       \A e \in Pages : key'[e] # k]_vars

\* The LRU policy of docs/memory_management.md: the page evicted is the one
\* accessed the longest ago.
EvictsLeastRecent ==
  [][EvictTail /\ lru # <<>> =>
       last_access[Len(last_access)] \notin Range(lru')]_vars

\* A bucket that links an entry lies in no page that somebody else was given.
TableAlone ==
  (\E b \in Buckets : chain[b] # <<>> /\ (b + 1) * PTR_SIZE > BUDDY_PAGE_SIZE)
  => spill \cap (Used \ free) = {}
=============================================================================
