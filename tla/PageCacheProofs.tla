---------------------------- MODULE PageCacheProofs ----------------------------
(***************************************************************************)
(* Proofs about the page cache, for any number of CPUs, keys and pages and *)
(* any hash function, of callers that leave what they inserted to the      *)
(* cache: the hash table and the list agree, a page has one use and none   *)
(* is lost but what the cache leaves to callers without telling them, and  *)
(* the cache outgrows its bound by at most one page for every other CPU.   *)
(***************************************************************************)
EXTENDS PageCache, MathLemmas, FiniteSetTheorems

-----------------------------------------------------------------------------
(* The inductive invariant *)

\* A page that waits to be inserted stays with its caller.
ArgsHeld ==
  \A c \in CPUs : pc[c] \in {"evict", "relock"} =>
    arg[c] \in Keys \X Pages /\ arg[c][2] \in held[c]

\* Every entry caches a page, and no caller has the page of the table.
PagesCached == \A e \in Entries : phys[e] \in Pages
TableKept == \A c \in CPUs : table \notin held[c]

\* Until page_cache_init is done nothing has been allocated.
BootInv ==
  \A c \in CPUs : pc[c] = "boot" =>
    (\A d \in CPUs : pc[d] = "boot") /\ free \in {Pages, {}}

\* Nobody uses what was left to a caller.
LeftAlone == left \cap Used = {}

CInv ==
  /\ TypeOK /\ ListsAgree /\ GivenOnce /\ LeftAlone /\ NoOtherLost
  /\ ArgsHeld /\ PagesCached /\ TableKept /\ BootInv

\* CPUs that have evicted an entry and not added theirs.
Owed == {c \in CPUs : pc[c] = "relock"}

\* What was evicted for an insert still counts until it is made.
RoomInv ==
  max_pages > 0 =>
    total_pages + Cardinality(Owed) <= max_pages + Cardinality(CPUs) - 1

-----------------------------------------------------------------------------
(* Lists and buckets *)

\* An entry taken out of a list, with the rest of the list as it was.
LEMMA WithoutTyped ==
  ASSUME NEW S, NEW s \in Seq(S), NEW e
  PROVE  Without(s, e) \in Seq(S)
<1>1. CASE e \notin Range(s)
  BY <1>1 DEF Without
<1>2. CASE e \in Range(s)
  <2> DEFINE i == CHOOSE j \in 1..Len(s) : s[j] = e
             t == SubSeq(s, 1, i - 1) \o SubSeq(s, i + 1, Len(s))
  <2>1. \E j \in 1..Len(s) : s[j] = e
    BY <1>2 DEF Range
  <2>2. i \in 1..Len(s)
    BY <2>1, Zenon
  <2>3. Without(s, e) = t
    BY <1>2, Zenon DEF Without
  <2> HIDE DEF i
  <2>4. t \in Seq(S)
    BY <2>2, SeqCut, Zenon
  <2> QED
    BY <2>3, <2>4
<1> QED
  BY <1>1, <1>2

\* A list that holds every element once loses just the one taken out.
LEMMA WithoutFacts ==
  ASSUME NEW S, NEW s \in Seq(S), NEW e, IsInjective(s)
  PROVE  /\ Range(Without(s, e)) = Range(s) \ {e}
         /\ IsInjective(Without(s, e))
         /\ e \in Range(s) => Len(Without(s, e)) = Len(s) - 1
<1>1. CASE e \notin Range(s)
  BY <1>1 DEF Without
<1>2. CASE e \in Range(s)
  <2> DEFINE i == CHOOSE j \in 1..Len(s) : s[j] = e
             t == SubSeq(s, 1, i - 1) \o SubSeq(s, i + 1, Len(s))
  <2>1. \E j \in 1..Len(s) : s[j] = e
    BY <1>2 DEF Range
  <2>2. i \in 1..Len(s) /\ s[i] = e
    BY <2>1, Zenon
  <2>3. Without(s, e) = t
    BY <1>2, Zenon DEF Without
  <2> HIDE DEF i
  <2>4. /\ Len(t) = Len(s) - 1
        /\ Range(t) \subseteq Range(s) /\ Range(s) \ {s[i]} \subseteq Range(t)
        /\ IsInjective(t) /\ s[i] \notin Range(t)
    BY <2>2, SeqCut, Zenon
  <2> HIDE DEF t
  <2> QED
    BY <2>2, <2>3, <2>4
<1> QED
  BY <1>1, <1>2

\* The table has a bucket for every key.
LEMMA BucketOf ==
  ASSUME NEW k \in Keys
  PROVE  HashOf[k] \in Buckets
BY CacheAssumption DEF Buckets, Range

\* The walk along a bucket ends at an entry of its key.
LEMMA MatchFacts ==
  ASSUME TypeOK, ListsAgree, NEW k \in Keys, NEW e \in Match(k)
  PROVE  e \in Entries /\ key[e] = k
<1> DEFINE list == chain[HashOf[k]]
<1>1. HashOf[k] \in Buckets
  BY BucketOf
<1>2. list \in Seq(Pages)
  BY <1>1 DEF TypeOK
<1>3. PICK i \in 1..Len(list) : e = list[i] /\ key[list[i]] = k
  BY Zenon DEF Match
<1>4. e \in Range(list)
  BY <1>2, <1>3 DEF Range
<1>5. e \in Entries
  BY <1>1, <1>4 DEF ListsAgree
<1> QED
  BY <1>3, <1>5

\* The tail of the list is a live entry.
LEMMA TailFacts ==
  ASSUME TypeOK, ListsAgree, lru # <<>>
  PROVE  lru[Len(lru)] \in Entries
<1>1. Len(lru) \in 1..Len(lru)
  BY DEF TypeOK
<1>2. lru[Len(lru)] \in Range(lru)
  BY <1>1 DEF TypeOK, Range
<1> QED
  BY <1>2 DEF ListsAgree

-----------------------------------------------------------------------------
(* An entry comes *)

\* AddEntry with the page e that it found for the entry.
Adds(c, k, p, e) ==
  /\ e \in free
  /\ free' = free \ {e}
  /\ key' = [key EXCEPT ![e] = k]
  /\ phys' = [phys EXCEPT ![e] = p]
  /\ chain' = [chain EXCEPT ![HashOf[k]] = <<e>> \o @]
  /\ lru' = <<e>> \o lru
  /\ last_access' = <<e>> \o last_access
  /\ total_pages' = total_pages + 1
  /\ held' = [held EXCEPT ![c] = @ \ {p}]
  /\ inserted' = [inserted EXCEPT ![c] = None]
  /\ left' = left

\* The page found becomes an entry of the key, and no other entry changes.
LEMMA AddsEntries ==
  ASSUME TypeOK, GivenOnce, NEW c \in CPUs, NEW k \in Keys, NEW p \in Pages,
         NEW e \in Pages, Adds(c, k, p, e)
  PROVE  /\ e \notin Entries /\ Entries' = Entries \cup {e}
         /\ key'[e] = k /\ \A f \in Entries : key'[f] = key[f]
         /\ phys'[e] = p /\ \A f \in Entries : phys'[f] = phys[f]
<1>1. k # None
  BY CacheAssumption
<1>2. e \notin Entries
  BY DEF Adds, GivenOnce
<1>3. key'[e] = k /\ \A f \in Pages \ {e} : key'[f] = key[f]
  BY DEF Adds, TypeOK
<1>4. phys'[e] = p /\ \A f \in Pages \ {e} : phys'[f] = phys[f]
  BY DEF Adds, TypeOK
<1>5. Entries' = Entries \cup {e}
  BY <1>1, <1>3 DEF Entries
<1>6. Entries \subseteq Pages \ {e}
  BY <1>2 DEF Entries
<1> QED
  BY <1>2, <1>3, <1>4, <1>5, <1>6

\* It is linked in front, and the types are kept.
LEMMA AddsTyped ==
  ASSUME TypeOK, NEW c \in CPUs, NEW k \in Keys, NEW p \in Pages,
         NEW e \in Pages, Adds(c, k, p, e)
  PROVE  /\ chain' \in [Buckets -> Seq(Pages)]
         /\ key' \in [Pages -> Keys \cup {None}]
         /\ phys' \in [Pages -> Pages \cup {None}]
         /\ lru' \in Seq(Pages) /\ last_access' \in Seq(Pages)
         /\ total_pages' \in Nat /\ free' \subseteq Pages
         /\ held' \in [CPUs -> SUBSET Pages]
         /\ inserted' \in [CPUs -> (Keys \X Pages) \cup {None}]
<1>1. HashOf[k] \in Buckets
  BY BucketOf
<1>2. chain[HashOf[k]] \in Seq(Pages) /\ lru \in Seq(Pages)
      /\ last_access \in Seq(Pages)
  BY <1>1 DEF TypeOK
<1>3. <<e>> \o chain[HashOf[k]] \in Seq(Pages)
  BY <1>2, SeqPush
<1>4. lru' \in Seq(Pages) /\ last_access' \in Seq(Pages)
  BY <1>2, SeqPush DEF Adds
<1>5. chain' \in [Buckets -> Seq(Pages)]
  BY <1>1, <1>3 DEF Adds, TypeOK
<1>6. /\ key' \in [Pages -> Keys \cup {None}]
      /\ phys' \in [Pages -> Pages \cup {None}]
      /\ total_pages' \in Nat /\ free' \subseteq Pages
  BY DEF Adds, TypeOK
<1>7. /\ held' \in [CPUs -> SUBSET Pages]
      /\ inserted' \in [CPUs -> (Keys \X Pages) \cup {None}]
  BY DEF Adds, TypeOK
<1> QED
  BY <1>4, <1>5, <1>6, <1>7

\* The hash table and the list get the same entry.
LEMMA AddsListed ==
  ASSUME TypeOK, ListsAgree, GivenOnce, NEW c \in CPUs, NEW k \in Keys,
         NEW p \in Pages, NEW e \in Pages, Adds(c, k, p, e)
  PROVE  ListsAgree'
<1>1. /\ e \notin Entries /\ Entries' = Entries \cup {e}
      /\ key'[e] = k /\ \A f \in Entries : key'[f] = key[f]
  BY AddsEntries
<1>2. HashOf[k] \in Buckets
  BY BucketOf
<1>3. Range(lru') = Entries' /\ IsInjective(lru') /\ total_pages' = Len(lru')
  <2>1. lru \in Seq(Pages) /\ Range(lru) = Entries /\ IsInjective(lru)
        /\ total_pages = Len(lru)
    BY DEF TypeOK, ListsAgree
  <2>2. /\ Len(<<e>> \o lru) = Len(lru) + 1
        /\ Range(<<e>> \o lru) = Range(lru) \cup {e}
        /\ IsInjective(lru) /\ e \notin Range(lru) => IsInjective(<<e>> \o lru)
    BY <2>1, SeqPush
  <2> QED
    BY <2>1, <2>2, <1>1 DEF Adds
<1>4. ASSUME NEW b \in Buckets
      PROVE  /\ Range(chain'[b]) = {f \in Entries' : HashOf[key'[f]] = b}
             /\ IsInjective(chain'[b])
  <2>1. /\ chain[b] \in Seq(Pages) /\ IsInjective(chain[b])
        /\ Range(chain[b]) = {f \in Entries : HashOf[key[f]] = b}
    BY DEF TypeOK, ListsAgree
  <2>2. CASE b = HashOf[k]
    <3>1. chain'[b] = <<e>> \o chain[b]
      BY <2>2 DEF Adds, TypeOK
    <3>2. /\ Range(<<e>> \o chain[b]) = Range(chain[b]) \cup {e}
          /\ IsInjective(chain[b]) /\ e \notin Range(chain[b])
               => IsInjective(<<e>> \o chain[b])
      BY <2>1, SeqPush
    <3>3. e \notin Range(chain[b])
      BY <2>1, <1>1
    <3>4. {f \in Entries' : HashOf[key'[f]] = b}
            = {f \in Entries : HashOf[key[f]] = b} \cup {e}
      BY <1>1, <2>2
    <3> QED
      BY <3>1, <3>2, <3>3, <3>4, <2>1
  <2>3. CASE b # HashOf[k]
    <3>1. chain'[b] = chain[b]
      BY <2>3 DEF Adds, TypeOK
    <3>2. {f \in Entries' : HashOf[key'[f]] = b}
            = {f \in Entries : HashOf[key[f]] = b}
      BY <1>1, <2>3
    <3> QED
      BY <3>1, <3>2, <2>1
  <2> QED
    BY <2>2, <2>3
<1> QED
  BY <1>3, <1>4 DEF ListsAgree

\* The caller's page becomes the cached page, the page found the entry.
LEMMA AddsUse ==
  ASSUME TypeOK, GivenOnce, PagesCached, TableKept, UNCHANGED table,
         NEW c \in CPUs, NEW k \in Keys, NEW p \in held[c],
         NEW e \in Pages, Adds(c, k, p, e)
  PROVE  GivenOnce' /\ PagesCached' /\ TableKept'
<1>1. p \in Pages
  BY DEF TypeOK
<1>2. /\ e \notin Entries /\ Entries' = Entries \cup {e}
      /\ phys'[e] = p /\ \A f \in Entries : phys'[f] = phys[f]
  BY <1>1, AddsEntries
<1>3. /\ e \in free /\ free' = free \ {e} /\ table' = table
      /\ held'[c] = held[c] \ {p}
      /\ \A d \in CPUs \ {c} : held'[d] = held[d]
  BY DEF Adds, TypeOK
<1>4. \A d \in CPUs : held'[d] \subseteq held[d] /\ p \notin held'[d]
  BY <1>3 DEF GivenOnce
<1>5. {phys'[f] : f \in Entries'} = {phys[f] : f \in Entries} \cup {p}
  BY <1>2
<1>6. /\ p # e /\ p # table /\ e # table /\ p \notin Entries /\ p \notin free
      /\ \A f \in Entries : phys[f] # p /\ phys[f] # e
  BY <1>3 DEF GivenOnce, TableKept
<1>7. free' \cap (Entries' \cup {phys'[f] : f \in Entries'} \cup {table'}) = {}
  BY <1>2, <1>3, <1>5, <1>6 DEF GivenOnce
<1>8. ASSUME NEW f \in Entries'
      PROVE  phys'[f] \notin Entries' \cup {table'} /\ f # table'
  BY <1>2, <1>3, <1>6 DEF GivenOnce
<1>9. ASSUME NEW f \in Entries', NEW g \in Entries', f # g
      PROVE  phys'[f] # phys'[g]
  BY <1>2, <1>6, <1>9 DEF GivenOnce
<1>10. ASSUME NEW d \in CPUs
       PROVE  held'[d] \cap (free' \cup Entries' \cup {phys'[f] : f \in Entries'})
                = {}
  BY <1>2, <1>3, <1>4, <1>5 DEF GivenOnce
<1>11. ASSUME NEW d \in CPUs, NEW a \in CPUs, d # a
       PROVE  held'[d] \cap held'[a] = {}
  BY <1>4, <1>11 DEF GivenOnce
<1>12. GivenOnce'
  BY <1>7, <1>8, <1>9, <1>10, <1>11 DEF GivenOnce
<1>13. PagesCached' /\ TableKept'
  BY <1>1, <1>2, <1>3, <1>4 DEF PagesCached, TableKept
<1> QED
  BY <1>12, <1>13

\* Both stay in use.
LEMMA AddsUsed ==
  ASSUME TypeOK, GivenOnce, UNCHANGED table, NEW c \in CPUs, NEW k \in Keys,
         NEW p \in held[c], NEW e \in Pages, Adds(c, k, p, e)
  PROVE  Used' = Used
<1>1. p \in Pages
  BY DEF TypeOK
<1>2. /\ Entries' = Entries \cup {e}
      /\ phys'[e] = p /\ \A f \in Entries : phys'[f] = phys[f]
  BY <1>1, AddsEntries
<1>3. /\ e \in free /\ free' = free \ {e} /\ table' = table
      /\ held'[c] = held[c] \ {p}
      /\ \A d \in CPUs \ {c} : held'[d] = held[d]
  BY DEF Adds, TypeOK
<1>4. {phys'[f] : f \in Entries'} = {phys[f] : f \in Entries} \cup {p}
  BY <1>2
<1>5. UNION {held[d] : d \in CPUs} = (UNION {held'[d] : d \in CPUs}) \cup {p}
  <2>1. \A d \in CPUs : held'[d] \subseteq held[d]
                        /\ held[d] \subseteq held'[d] \cup {p}
    BY <1>3
  <2> QED
    BY <2>1
<1> QED
  BY <1>2, <1>3, <1>4, <1>5 DEF Used

-----------------------------------------------------------------------------
(* An entry goes *)

\* The entry taken out is none any more, and no other entry changes.
LEMMA UnlinkEntries ==
  ASSUME TypeOK, NEW e \in Entries, Unlink(e)
  PROVE  /\ Entries' = Entries \ {e}
         /\ \A f \in Entries \ {e} : key'[f] = key[f] /\ phys'[f] = phys[f]
<1>1. key'[e] = None /\ \A f \in Pages \ {e} : key'[f] = key[f]
  BY DEF Unlink, TypeOK, Entries
<1>2. \A f \in Pages \ {e} : phys'[f] = phys[f]
  BY DEF Unlink, TypeOK, Entries
<1> QED
  BY <1>1, <1>2 DEF Entries

\* The lists stay lists of pages.
LEMMA UnlinkTyped ==
  ASSUME TypeOK, ListsAgree, NEW e \in Entries, Unlink(e)
  PROVE  /\ chain' \in [Buckets -> Seq(Pages)]
         /\ key' \in [Pages -> Keys \cup {None}]
         /\ phys' \in [Pages -> Pages \cup {None}]
         /\ lru' \in Seq(Pages) /\ last_access' \in Seq(Pages)
         /\ total_pages' \in Nat
<1>1. e \in Pages /\ key[e] \in Keys
  BY DEF Entries, TypeOK
<1>2. HashOf[key[e]] \in Buckets
  BY <1>1, BucketOf
<1>3. chain[HashOf[key[e]]] \in Seq(Pages) /\ lru \in Seq(Pages)
      /\ last_access \in Seq(Pages)
  BY <1>2 DEF TypeOK
<1>4. Without(chain[HashOf[key[e]]], e) \in Seq(Pages)
  BY <1>3, WithoutTyped
<1>5. lru' \in Seq(Pages) /\ last_access' \in Seq(Pages)
  BY <1>3, WithoutTyped DEF Unlink, lru_remove
<1>6. chain' \in [Buckets -> Seq(Pages)]
  BY <1>2, <1>4 DEF Unlink, TypeOK
<1>7. /\ key' \in [Pages -> Keys \cup {None}]
      /\ phys' \in [Pages -> Pages \cup {None}]
  BY <1>1 DEF Unlink, TypeOK
<1>8. total_pages' \in Nat
  <2>1. e \in Range(lru) /\ total_pages = Len(lru)
    BY DEF ListsAgree
  <2>2. Len(lru) \in Nat /\ Len(lru) # 0
    BY <2>1, <1>3 DEF Range
  <2> QED
    BY <2>1, <2>2 DEF Unlink
<1> QED
  BY <1>5, <1>6, <1>7, <1>8

\* The hash table and the list lose the same entry.
LEMMA UnlinkListed ==
  ASSUME TypeOK, ListsAgree, NEW e \in Entries, Unlink(e)
  PROVE  ListsAgree'
<1>1. /\ Entries' = Entries \ {e}
      /\ \A f \in Entries \ {e} : key'[f] = key[f]
  BY UnlinkEntries
<1>2. Range(lru') = Entries' /\ IsInjective(lru') /\ total_pages' = Len(lru')
  <2>1. lru \in Seq(Pages) /\ Range(lru) = Entries /\ IsInjective(lru)
        /\ total_pages = Len(lru)
    BY DEF TypeOK, ListsAgree
  <2>2. /\ Range(Without(lru, e)) = Range(lru) \ {e}
        /\ IsInjective(Without(lru, e))
        /\ e \in Range(lru) => Len(Without(lru, e)) = Len(lru) - 1
    BY <2>1, WithoutFacts
  <2> QED
    BY <2>1, <2>2, <1>1 DEF Unlink, lru_remove
<1>3. ASSUME NEW b \in Buckets
      PROVE  /\ Range(chain'[b]) = {f \in Entries' : HashOf[key'[f]] = b}
             /\ IsInjective(chain'[b])
  <2>1. /\ chain[b] \in Seq(Pages) /\ IsInjective(chain[b])
        /\ Range(chain[b]) = {f \in Entries : HashOf[key[f]] = b}
    BY DEF TypeOK, ListsAgree
  <2>2. {f \in Entries' : HashOf[key'[f]] = b}
          = {f \in Entries : HashOf[key[f]] = b} \ {e}
    BY <1>1
  <2>3. CASE b = HashOf[key[e]]
    <3>1. chain'[b] = Without(chain[b], e)
      BY <2>3 DEF Unlink, TypeOK
    <3>2. /\ Range(Without(chain[b], e)) = Range(chain[b]) \ {e}
          /\ IsInjective(Without(chain[b], e))
      BY <2>1, WithoutFacts
    <3> QED
      BY <3>1, <3>2, <2>1, <2>2
  <2>4. CASE b # HashOf[key[e]]
    <3>1. chain'[b] = chain[b]
      BY <2>4 DEF Unlink, TypeOK
    <3>2. e \notin {f \in Entries : HashOf[key[f]] = b}
      BY <2>4
    <3> QED
      BY <3>1, <3>2, <2>1, <2>2
  <2> QED
    BY <2>3, <2>4
<1> QED
  BY <1>2, <1>3 DEF ListsAgree

\* An eviction frees two pages that had no other use.
LEMMA EvictUse ==
  ASSUME TypeOK, GivenOnce, PagesCached, TableKept, NEW e \in Entries, Unlink(e),
         free' = free \cup EvictFrees(e), UNCHANGED <<table, held>>
  PROVE  GivenOnce' /\ PagesCached' /\ TableKept' /\ free' \subseteq Pages
<1>1. /\ Entries' = Entries \ {e}
      /\ \A f \in Entries \ {e} : phys'[f] = phys[f]
  BY UnlinkEntries
<1>2. free' = free \cup {phys[e], e}
  BY DEF EvictFrees
<1>3. e \in Pages /\ phys[e] \in Pages
  BY DEF Entries, PagesCached
<1>4. {phys'[f] : f \in Entries'} = {phys[f] : f \in Entries \ {e}}
  BY <1>1
<1>5. /\ e # table /\ phys[e] # table /\ phys[e] \notin Entries
      /\ \A f \in Entries \ {e} : phys[f] # phys[e] /\ phys[f] # e
  BY DEF GivenOnce
<1>6. free' \cap (Entries' \cup {phys'[f] : f \in Entries'} \cup {table'}) = {}
  BY <1>1, <1>2, <1>4, <1>5 DEF GivenOnce
<1>7. ASSUME NEW f \in Entries'
      PROVE  phys'[f] \notin Entries' \cup {table'} /\ f # table'
  BY <1>1 DEF GivenOnce
<1>8. ASSUME NEW f \in Entries', NEW g \in Entries', f # g
      PROVE  phys'[f] # phys'[g]
  BY <1>1, <1>8 DEF GivenOnce
<1>9. ASSUME NEW d \in CPUs
      PROVE  held'[d] \cap (free' \cup Entries' \cup {phys'[f] : f \in Entries'})
               = {}
  BY <1>1, <1>2, <1>4 DEF GivenOnce
<1>10. \A d, a \in CPUs : d # a => held'[d] \cap held'[a] = {}
  BY DEF GivenOnce
<1>11. GivenOnce'
  BY <1>6, <1>7, <1>8, <1>9, <1>10 DEF GivenOnce
<1>12. PagesCached' /\ TableKept' /\ free' \subseteq Pages
  BY <1>1, <1>2, <1>3 DEF PagesCached, TableKept, TypeOK
<1> QED
  BY <1>11, <1>12

\* Both pages stay in use, as free pages.
LEMMA EvictUsed ==
  ASSUME TypeOK, NEW e \in Entries, Unlink(e),
         free' = free \cup EvictFrees(e), UNCHANGED <<table, held>>
  PROVE  Used' = Used
<1>1. /\ Entries' = Entries \ {e}
      /\ \A f \in Entries \ {e} : phys'[f] = phys[f]
  BY UnlinkEntries
<1>2. free' = free \cup {phys[e], e}
  BY DEF EvictFrees
<1>3. {phys'[f] : f \in Entries'} = {phys[f] : f \in Entries \ {e}}
  BY <1>1
<1>4. {phys[f] : f \in Entries} = {phys[f] : f \in Entries \ {e}} \cup {phys[e]}
  OBVIOUS
<1> QED
  BY <1>1, <1>2, <1>3, <1>4 DEF Used

\* A removal frees the entry and leaves the cached page to the caller.
LEMMA RemoveUse ==
  ASSUME TypeOK, GivenOnce, PagesCached, TableKept, NEW e \in Entries, Unlink(e),
         free' = free \cup RemoveFrees(e), UNCHANGED <<table, held>>
  PROVE  /\ GivenOnce' /\ PagesCached' /\ TableKept' /\ free' \subseteq Pages
         /\ Used = Used' \cup {phys[e]} /\ phys[e] \notin Used'
<1>1. /\ Entries' = Entries \ {e}
      /\ \A f \in Entries \ {e} : phys'[f] = phys[f]
  BY UnlinkEntries
<1>2. free' = free \cup {e}
  BY DEF RemoveFrees
<1>3. e \in Pages /\ phys[e] \in Pages
  BY DEF Entries, PagesCached
<1>4. /\ {phys'[f] : f \in Entries'} = {phys[f] : f \in Entries \ {e}}
      /\ {phys[f] : f \in Entries} = {phys[f] : f \in Entries \ {e}} \cup {phys[e]}
  BY <1>1
<1>5. /\ e # table /\ phys[e] # table /\ phys[e] \notin Entries
      /\ phys[e] \notin free
      /\ \A f \in Entries \ {e} : phys[f] # phys[e] /\ phys[f] # e
      /\ \A d \in CPUs : phys[e] \notin held[d]
  BY DEF GivenOnce
<1>6. free' \cap (Entries' \cup {phys'[f] : f \in Entries'} \cup {table'}) = {}
  BY <1>1, <1>2, <1>4, <1>5 DEF GivenOnce
<1>7. ASSUME NEW f \in Entries'
      PROVE  phys'[f] \notin Entries' \cup {table'} /\ f # table'
  BY <1>1 DEF GivenOnce
<1>8. ASSUME NEW f \in Entries', NEW g \in Entries', f # g
      PROVE  phys'[f] # phys'[g]
  BY <1>1, <1>8 DEF GivenOnce
<1>9. ASSUME NEW d \in CPUs
      PROVE  held'[d] \cap (free' \cup Entries' \cup {phys'[f] : f \in Entries'})
               = {}
  BY <1>1, <1>2, <1>4 DEF GivenOnce
<1>10. \A d, a \in CPUs : d # a => held'[d] \cap held'[a] = {}
  BY DEF GivenOnce
<1>11. GivenOnce'
  BY <1>6, <1>7, <1>8, <1>9, <1>10 DEF GivenOnce
<1>12. PagesCached' /\ TableKept' /\ free' \subseteq Pages
  BY <1>1, <1>2, <1>3 DEF PagesCached, TableKept, TypeOK
<1>13. Used = Used' \cup {phys[e]}
  BY <1>1, <1>2, <1>4 DEF Used
<1>14. phys[e] \notin Used'
  BY <1>1, <1>2, <1>4, <1>5 DEF Used
<1> QED
  BY <1>11, <1>12, <1>13, <1>14

\* Nothing was left to a caller, and the same pages are in use.
LEMMA SameUsed ==
  ASSUME LeftAlone, NoOtherLost, Used' = Used, left' = left, table' = table
  PROVE  LeftAlone' /\ NoOtherLost'
BY DEF LeftAlone, NoOtherLost

-----------------------------------------------------------------------------
(* The steps *)

\* Once one CPU is past page_cache_init, all are.
LEMMA PastBoot ==
  ASSUME BootInv, NEW c \in CPUs, pc[c] # "boot"
  PROVE  \A d \in CPUs : pc[d] # "boot"
BY DEF BootInv

\* At first nothing is cached and no caller has a page.
LEMMA InitInv ==
  ASSUME Init
  PROVE  CInv
<1>1. Entries = {}
  BY DEF Init, Entries
<1>2. TypeOK
  <2>1. <<>> \in Seq(Pages) /\ CPUs # {}
    BY CacheAssumption
  <2> QED
    BY <2>1 DEF Init, TypeOK
<1>3. ListsAgree
  <2>1. Range(<<>>) = {} /\ IsInjective(<<>>) /\ Len(<<>>) = 0
    BY DEF Range, IsInjective
  <2>2. lru = <<>> /\ \A b \in Buckets : chain[b] = <<>>
    BY DEF Init
  <2> QED
    BY <1>1, <2>1, <2>2 DEF Init, ListsAgree
<1>4. GivenOnce
  <2>1. free \subseteq Pages /\ None \notin Pages
    BY CacheAssumption DEF Init
  <2> QED
    BY <1>1, <2>1 DEF Init, GivenOnce
<1>5. LeftAlone /\ NoOtherLost
  BY DEF Init, LeftAlone, NoOtherLost
<1>6. ArgsHeld /\ PagesCached /\ TableKept /\ BootInv
  BY <1>1 DEF Init, ArgsHeld, PagesCached, TableKept, BootInv
<1> QED
  BY <1>2, <1>3, <1>4, <1>5, <1>6 DEF CInv

\* The table gets a page of its own, if there is one.
LEMMA BootStep ==
  ASSUME CInv, page_cache_init
  PROVE  CInv'
<1> USE DEF CInv
<1>1. UNCHANGED <<cacheVars, held, inserted, left, arg>> /\ Entries' = Entries
  BY DEF page_cache_init, cacheVars, Entries
<1>2. \A c \in CPUs : pc'[c] = "idle" /\ pc[c] = "boot"
  BY DEF page_cache_init
<1>3. free \in {Pages, {}}
  BY <1>2, CacheAssumption DEF BootInv
<1>4. /\ \/ \E p \in free : table' = p /\ free' = free \ {p}
         \/ table' = table /\ free' = free /\ free = {}
      /\ spill' \subseteq Pages
  BY DEF page_cache_init, tableVars, TypeOK
<1>5. TypeOK'
  BY <1>1, <1>2, <1>4 DEF TypeOK, cacheVars, page_cache_init
<1>6. ListsAgree'
  BY <1>1 DEF ListsAgree, cacheVars, Entries
<1>7. {phys'[f] : f \in Entries'} = {phys[f] : f \in Entries}
  BY <1>1 DEF cacheVars
<1>8. GivenOnce' /\ TableKept'
  <2>1. CASE table' = table /\ free' = free
    BY <2>1, <1>1, <1>7 DEF GivenOnce, TableKept, cacheVars, Entries
  <2>2. ASSUME NEW p \in free, table' = p, free' = free \ {p}
        PROVE  GivenOnce' /\ TableKept'
    <3>1. p \notin Entries \cup {phys[f] : f \in Entries}
      BY DEF GivenOnce
    <3>2. \A c \in CPUs : p \notin held[c]
      BY DEF GivenOnce
    <3>3. free' \cap (Entries' \cup {phys'[f] : f \in Entries'} \cup {table'})
            = {}
      BY <2>2, <3>1, <1>1, <1>7 DEF GivenOnce
    <3>4. \A e \in Entries' : phys'[e] \notin Entries' \cup {table'} /\ e # table'
      BY <2>2, <3>1, <1>1 DEF GivenOnce, cacheVars
    <3>5. \A e, f \in Entries' : e # f => phys'[e] # phys'[f]
      BY <1>1 DEF GivenOnce, cacheVars
    <3>6. \A c \in CPUs :
            /\ held'[c] \cap (free' \cup Entries' \cup {phys'[f] : f \in Entries'})
                 = {}
            /\ \A d \in CPUs : c # d => held'[c] \cap held'[d] = {}
      BY <2>2, <1>1, <1>7 DEF GivenOnce
    <3> QED
      BY <2>2, <3>2, <3>3, <3>4, <3>5, <3>6, <1>1 DEF GivenOnce, TableKept
  <2> QED
    BY <2>1, <2>2, <1>4
<1>9. LeftAlone' /\ NoOtherLost'
  <2>1. CASE table' = table /\ free' = free
    <3>1. Used' = Used
      BY <2>1, <1>1, <1>7 DEF Used
    <3> QED
      BY <3>1, <2>1, <1>1, SameUsed
  <2>2. ASSUME NEW p \in free, table' = p, free' = free \ {p}
        PROVE  LeftAlone' /\ NoOtherLost'
    <3>1. Pages = free' \cup {table'}
      BY <2>2, <1>3
    <3>2. Entries \subseteq Pages /\ {phys[f] : f \in Entries} \subseteq Pages
          /\ UNION {held[c] : c \in CPUs} \subseteq Pages /\ left \subseteq Pages
      BY DEF Entries, PagesCached, TypeOK
    <3>3. Used' \subseteq Used
      BY <2>2, <1>1, <1>7 DEF Used
    <3>4. Used' = Pages
      BY <3>1, <3>2, <1>1, <1>7 DEF Used
    <3> QED
      BY <3>2, <3>3, <3>4, <1>1 DEF LeftAlone, NoOtherLost
  <2> QED
    BY <2>1, <2>2, <1>4
<1>10. ArgsHeld' /\ PagesCached' /\ BootInv'
  BY <1>1, <1>2 DEF ArgsHeld, PagesCached, BootInv, cacheVars, Entries
<1> QED
  BY <1>5, <1>6, <1>8, <1>9, <1>10

\* Pages move between the free pages and a caller that is not inserting.
LEMMA CallerSteps ==
  ASSUME CInv, NEW c \in CPUs, CallerAlloc(c) \/ CallerFree(c)
  PROVE  CInv'
<1> USE DEF CInv
<1>1. /\ UNCHANGED <<table, spill, cacheVars, inserted, left, pc, arg>>
      /\ Entries' = Entries /\ pc[c] = "idle"
  BY DEF CallerAlloc, CallerFree, cacheVars, tableVars, Entries
<1>2. PICK p \in Pages :
        \/ /\ p \in free /\ free' = free \ {p}
           /\ held' = [held EXCEPT ![c] = @ \cup {p}]
        \/ /\ p \in held[c] /\ free' = free \cup {p}
           /\ held' = [held EXCEPT ![c] = @ \ {p}]
  BY DEF CallerAlloc, CallerFree, TypeOK
<1>3. /\ free' \subseteq Pages /\ held' \in [CPUs -> SUBSET Pages]
      /\ \A d \in CPUs \ {c} : held'[d] = held[d]
      /\ \/ p \in free /\ free' = free \ {p} /\ held'[c] = held[c] \cup {p}
         \/ p \in held[c] /\ free' = free \cup {p} /\ held'[c] = held[c] \ {p}
  BY <1>2 DEF TypeOK
<1>4. TypeOK' /\ ListsAgree'
  BY <1>1, <1>3 DEF TypeOK, ListsAgree, cacheVars, Entries
<1>5. {phys'[f] : f \in Entries'} = {phys[f] : f \in Entries}
  BY <1>1 DEF cacheVars
<1>6. /\ p \notin Entries /\ p \notin {phys[f] : f \in Entries} /\ p # table
      /\ \A d \in CPUs \ {c} : p \notin held[d]
  BY <1>3 DEF GivenOnce, TableKept
<1>7. GivenOnce'
  <2>1. free' \cap (Entries' \cup {phys'[f] : f \in Entries'} \cup {table'}) = {}
    BY <1>1, <1>3, <1>5, <1>6 DEF GivenOnce
  <2>2. \A e \in Entries' : phys'[e] \notin Entries' \cup {table'} /\ e # table'
    BY <1>1 DEF GivenOnce, cacheVars
  <2>3. \A e, f \in Entries' : e # f => phys'[e] # phys'[f]
    BY <1>1 DEF GivenOnce, cacheVars
  <2>4. ASSUME NEW d \in CPUs
        PROVE  held'[d] \cap (free' \cup Entries' \cup {phys'[f] : f \in Entries'})
                 = {}
    BY <1>1, <1>3, <1>5, <1>6 DEF GivenOnce
  <2>5. ASSUME NEW d \in CPUs, NEW a \in CPUs, d # a
        PROVE  held'[d] \cap held'[a] = {}
    BY <2>5, <1>3, <1>6 DEF GivenOnce
  <2> QED
    BY <2>1, <2>2, <2>3, <2>4, <2>5 DEF GivenOnce
<1>8. LeftAlone' /\ NoOtherLost'
  <2>1. free \cup UNION {held[d] : d \in CPUs}
          = free' \cup UNION {held'[d] : d \in CPUs}
    BY <1>3
  <2>2. Used' = Used
    BY <2>1, <1>1, <1>5 DEF Used
  <2> QED
    BY <2>2, <1>1, SameUsed
<1>9. ArgsHeld' /\ PagesCached' /\ TableKept' /\ BootInv'
  <2>1. \A d \in CPUs : pc'[d] # "boot"
    BY <1>1, PastBoot
  <2> QED
    BY <2>1, <1>1, <1>3, <1>6
      DEF ArgsHeld, PagesCached, TableKept, BootInv, cacheVars, Entries
<1> QED
  BY <1>4, <1>7, <1>8, <1>9

\* A lookup changes the times of access at most.
LEMMA LookupStep ==
  ASSUME CInv, NEW c \in CPUs, NEW k \in Keys, page_cache_lookup(c, k)
  PROVE  CInv'
<1> USE DEF CInv
<1>1. UNCHANGED <<table, spill, chain, key, phys, lru, total_pages, free, held,
                  inserted, left, pc, arg>>
  BY DEF page_cache_lookup, tableVars
<1>2. last_access' \in Seq(Pages)
  <2>1. CASE last_access' = last_access
    BY <2>1 DEF TypeOK
  <2>2. ASSUME NEW e \in Match(k), last_access' = <<e>> \o Without(last_access, e)
        PROVE  last_access' \in Seq(Pages)
    <3>1. e \in Pages
      BY MatchFacts DEF Entries
    <3>2. Without(last_access, e) \in Seq(Pages)
      BY WithoutTyped DEF TypeOK
    <3> QED
      BY <2>2, <3>1, <3>2, SeqPush
  <2> QED
    BY <2>1, <2>2 DEF page_cache_lookup
<1>3. TypeOK'
  BY <1>1, <1>2 DEF TypeOK
<1>4. ListsAgree' /\ GivenOnce' /\ LeftAlone' /\ NoOtherLost'
  BY <1>1 DEF ListsAgree, GivenOnce, LeftAlone, NoOtherLost, Used, Entries
<1>5. ArgsHeld' /\ PagesCached' /\ TableKept' /\ BootInv'
  BY <1>1 DEF ArgsHeld, PagesCached, TableKept, BootInv, Entries
<1> QED
  BY <1>3, <1>4, <1>5

UseKept == LeftAlone' /\ NoOtherLost'

\* What every step that adds an entry or gives up keeps.
LEMMA AddStep ==
  ASSUME CInv, ~BlindRemove, NEW c \in CPUs, NEW k \in Keys, NEW p \in held[c],
         AddEntry(c, k, p), UNCHANGED <<table, left>>
  PROVE  /\ chain' \in [Buckets -> Seq(Pages)]
         /\ key' \in [Pages -> Keys \cup {None}]
         /\ phys' \in [Pages -> Pages \cup {None}]
         /\ lru' \in Seq(Pages) /\ last_access' \in Seq(Pages)
         /\ total_pages' \in Nat /\ free' \subseteq Pages
         /\ held' \in [CPUs -> SUBSET Pages]
         /\ inserted' \in [CPUs -> (Keys \X Pages) \cup {None}]
         /\ ListsAgree' /\ GivenOnce' /\ UseKept /\ PagesCached' /\ TableKept'
         /\ \A d \in CPUs \ {c} : held'[d] = held[d]
         /\ total_pages' \in {total_pages, total_pages + 1}
<1> USE DEF CInv
<1>1. CASE UNCHANGED <<cacheVars, free, held, inserted>>
  <2>1. /\ UNCHANGED <<chain, key, phys, lru, last_access, total_pages>>
        /\ UNCHANGED <<free, held, inserted, left, table>>
    BY <1>1 DEF cacheVars
  <2>2. ListsAgree' /\ GivenOnce' /\ UseKept /\ PagesCached' /\ TableKept'
    BY <2>1 DEF ListsAgree, GivenOnce, UseKept, LeftAlone, NoOtherLost, Used,
                   PagesCached, TableKept, Entries
  <2> QED
    BY <2>1, <2>2 DEF TypeOK
<1>2. ASSUME NEW e \in free, Adds(c, k, p, e)
      PROVE  /\ chain' \in [Buckets -> Seq(Pages)]
             /\ key' \in [Pages -> Keys \cup {None}]
             /\ phys' \in [Pages -> Pages \cup {None}]
             /\ lru' \in Seq(Pages) /\ last_access' \in Seq(Pages)
             /\ total_pages' \in Nat /\ free' \subseteq Pages
             /\ held' \in [CPUs -> SUBSET Pages]
             /\ inserted' \in [CPUs -> (Keys \X Pages) \cup {None}]
             /\ ListsAgree' /\ GivenOnce' /\ UseKept /\ PagesCached' /\ TableKept'
             /\ \A d \in CPUs \ {c} : held'[d] = held[d]
             /\ total_pages' \in {total_pages, total_pages + 1}
  <2>1. e \in Pages /\ p \in Pages
    BY DEF TypeOK
  <2>2. /\ chain' \in [Buckets -> Seq(Pages)]
        /\ key' \in [Pages -> Keys \cup {None}]
        /\ phys' \in [Pages -> Pages \cup {None}]
        /\ lru' \in Seq(Pages) /\ last_access' \in Seq(Pages)
        /\ total_pages' \in Nat /\ free' \subseteq Pages
        /\ held' \in [CPUs -> SUBSET Pages]
        /\ inserted' \in [CPUs -> (Keys \X Pages) \cup {None}]
    BY <1>2, <2>1, AddsTyped
  <2>3. ListsAgree'
    BY <1>2, <2>1, AddsListed
  <2>4. GivenOnce' /\ PagesCached' /\ TableKept'
    BY <1>2, <2>1, AddsUse
  <2>5. UseKept
    <3>1. Used' = Used
      BY <1>2, <2>1, AddsUsed
    <3> QED
      BY <3>1, SameUsed DEF UseKept
  <2>6. /\ \A d \in CPUs \ {c} : held'[d] = held[d]
        /\ total_pages' \in {total_pages, total_pages + 1}
    BY <1>2 DEF Adds, TypeOK
  <2> QED
    BY <2>2, <2>3, <2>4, <2>5, <2>6
<1>3. UNCHANGED <<cacheVars, free, held, inserted>>
      \/ \E e \in free : Adds(c, k, p, e)
  BY DEF AddEntry, Adds, GiveUp, lru_add_to_head
<1> QED
  BY <1>1, <1>2, <1>3

\* First critical section of an insert.
LEMMA InsertBeginStep ==
  ASSUME CInv, ~BlindRemove, NEW c \in CPUs, NEW k \in Keys, InsertBegin(c, k)
  PROVE  CInv'
<1> USE DEF CInv
<1>1. pc[c] = "idle" /\ table' = table /\ spill' = spill
  BY DEF InsertBegin, tableVars
<1>2. \A d \in CPUs : pc[d] # "boot"
  BY <1>1, PastBoot
<1>3. PICK p \in held[c] :
        \/ /\ GiveUp(c, k, p) /\ left' = left \cup {p}
           /\ UNCHANGED <<cacheVars, free, pc, arg>>
        \/ /\ pc' = [pc EXCEPT ![c] = "evict"]
           /\ arg' = [arg EXCEPT ![c] = <<k, p>>]
           /\ UNCHANGED <<cacheVars, free, held, inserted, left>>
        \/ AddEntry(c, k, p) /\ UNCHANGED <<left, pc, arg>>
  BY DEF InsertBegin
<1>4. p \in Pages
  BY DEF TypeOK
<1>5. CASE /\ pc' = [pc EXCEPT ![c] = "evict"]
           /\ arg' = [arg EXCEPT ![c] = <<k, p>>]
           /\ UNCHANGED <<cacheVars, free, held, inserted, left>>
  <2>1. UNCHANGED <<table, spill, chain, key, phys, lru, last_access, total_pages,
                    free, held, inserted, left>>
    BY <1>1, <1>5 DEF cacheVars
  <2> DEFINE a == <<k, p>>
  <2>a. a \in Keys \X Pages /\ a[2] = p
    BY <1>4
  <2>b. pc' = [pc EXCEPT ![c] = "evict"] /\ arg' = [arg EXCEPT ![c] = a]
    BY <1>5
  <2> HIDE DEF a
  <2>2. /\ pc' \in [CPUs -> {"boot", "idle", "evict", "relock"}]
        /\ arg' \in [CPUs -> (Keys \X Pages) \cup {None}]
    BY <2>a, <2>b DEF TypeOK
  <2>3. TypeOK'
    BY <2>1, <2>2 DEF TypeOK
  <2>4. ListsAgree' /\ GivenOnce' /\ UseKept /\ PagesCached' /\ TableKept'
    BY <2>1 DEF ListsAgree, GivenOnce, UseKept, LeftAlone, NoOtherLost, Used,
                   PagesCached, TableKept, Entries
  <2>5. \A d \in CPUs : pc'[d] # "boot"
    BY <1>2, <1>5 DEF TypeOK
  <2>6. ArgsHeld'
    BY <2>1, <2>a, <2>b DEF ArgsHeld, TypeOK
  <2> QED
    BY <2>3, <2>4, <2>5, <2>6 DEF BootInv, UseKept
<1>6. CASE AddEntry(c, k, p) /\ UNCHANGED <<left, pc, arg>>
  <2>1. /\ chain' \in [Buckets -> Seq(Pages)]
        /\ key' \in [Pages -> Keys \cup {None}]
        /\ phys' \in [Pages -> Pages \cup {None}]
        /\ lru' \in Seq(Pages) /\ last_access' \in Seq(Pages)
        /\ total_pages' \in Nat /\ free' \subseteq Pages
        /\ held' \in [CPUs -> SUBSET Pages]
        /\ inserted' \in [CPUs -> (Keys \X Pages) \cup {None}]
        /\ ListsAgree' /\ GivenOnce' /\ UseKept /\ PagesCached' /\ TableKept'
        /\ \A d \in CPUs \ {c} : held'[d] = held[d]
    BY <1>1, <1>6, AddStep
  <2>2. TypeOK'
    BY <2>1, <1>1, <1>6 DEF TypeOK
  <2>3. ArgsHeld' /\ BootInv'
    BY <2>1, <1>1, <1>2, <1>6 DEF ArgsHeld, BootInv
  <2> QED
    BY <2>1, <2>2, <2>3 DEF UseKept
<1>7. CASE /\ GiveUp(c, k, p) /\ left' = left \cup {p}
           /\ UNCHANGED <<cacheVars, free, pc, arg>>
  <2>1. UNCHANGED <<table, spill, chain, key, phys, lru, last_access, total_pages,
                    free, pc, arg>>
    BY <1>1, <1>7 DEF cacheVars
  <2>2. /\ held'[c] = held[c] \ {p} /\ \A d \in CPUs \ {c} : held'[d] = held[d]
        /\ held' \in [CPUs -> SUBSET Pages]
        /\ inserted' \in [CPUs -> (Keys \X Pages) \cup {None}]
        /\ left' \subseteq Pages
    BY <1>4, <1>7 DEF GiveUp, TypeOK
  <2>3. TypeOK' /\ ListsAgree' /\ PagesCached'
    BY <2>1, <2>2 DEF TypeOK, ListsAgree, PagesCached, Entries
  <2>4. Entries' = Entries /\ {phys'[f] : f \in Entries'} = {phys[f] : f \in Entries}
    BY <2>1 DEF Entries
  <2>5. GivenOnce' /\ TableKept'
    <3>1. \A d \in CPUs : held'[d] \subseteq held[d]
      BY <2>2
    <3>2. /\ free' \cap (Entries' \cup {phys'[e] : e \in Entries'} \cup {table'}) = {}
          /\ \A e \in Entries' : phys'[e] \notin Entries' \cup {table'} /\ e # table'
          /\ \A e, f \in Entries' : e # f => phys'[e] # phys'[f]
      BY <2>1, <2>4 DEF GivenOnce
    <3>3. ASSUME NEW d \in CPUs
          PROVE  /\ held'[d] \cap (free' \cup Entries' \cup {phys'[e] : e \in Entries'})
                      = {}
                 /\ \A a \in CPUs : d # a => held'[d] \cap held'[a] = {}
      BY <3>1, <2>1, <2>4 DEF GivenOnce
    <3> QED
      BY <3>1, <3>2, <3>3, <2>1 DEF GivenOnce, TableKept
  <2>6. Used = Used' \cup {p} /\ p \notin Used'
    <3>1. UNION {held[d] : d \in CPUs} = (UNION {held'[d] : d \in CPUs}) \cup {p}
      <4>1. \A d \in CPUs : held'[d] \subseteq held[d]
                            /\ held[d] \subseteq held'[d] \cup {p}
        BY <2>2
      <4> QED
        BY <4>1
    <3>2. p \notin UNION {held'[d] : d \in CPUs}
      BY <2>2 DEF GivenOnce
    <3>3. p \notin free \cup {table} \cup Entries \cup {phys[f] : f \in Entries}
      BY DEF GivenOnce, TableKept
    <3> QED
      BY <3>1, <3>2, <3>3, <2>1, <2>4 DEF Used
  <2>7. LeftAlone' /\ NoOtherLost'
    BY <2>1, <2>6, <1>7 DEF LeftAlone, NoOtherLost
  <2>8. ArgsHeld' /\ BootInv'
    BY <2>1, <2>2, <1>1, <1>2 DEF ArgsHeld, BootInv
  <2> QED
    BY <2>3, <2>5, <2>7, <2>8
<1> QED
  BY <1>3, <1>5, <1>6, <1>7

\* The lock taken again: the caller still owns the page it inserts.
LEMMA InsertFinishStep ==
  ASSUME CInv, ~BlindRemove, NEW c \in CPUs, InsertFinish(c)
  PROVE  CInv'
<1> USE DEF CInv
<1> DEFINE k == arg[c][1]
           p == arg[c][2]
<1>1. /\ pc[c] = "relock" /\ UNCHANGED <<table, spill, left>>
      /\ AddEntry(c, k, p)
      /\ pc' = [pc EXCEPT ![c] = "idle"] /\ arg' = [arg EXCEPT ![c] = None]
  BY DEF InsertFinish, tableVars
<1>2. k \in Keys /\ p \in held[c]
  BY <1>1 DEF ArgsHeld
<1>3. \A d \in CPUs : pc[d] # "boot"
  BY <1>1, PastBoot
<1> HIDE DEF k, p
<1>4. /\ chain' \in [Buckets -> Seq(Pages)]
      /\ key' \in [Pages -> Keys \cup {None}]
      /\ phys' \in [Pages -> Pages \cup {None}]
      /\ lru' \in Seq(Pages) /\ last_access' \in Seq(Pages)
      /\ total_pages' \in Nat /\ free' \subseteq Pages
      /\ held' \in [CPUs -> SUBSET Pages]
      /\ inserted' \in [CPUs -> (Keys \X Pages) \cup {None}]
      /\ ListsAgree' /\ GivenOnce' /\ UseKept /\ PagesCached' /\ TableKept'
      /\ \A d \in CPUs \ {c} : held'[d] = held[d]
  BY <1>1, <1>2, AddStep
<1>5. TypeOK'
  BY <1>4, <1>1 DEF TypeOK
<1>6. ArgsHeld' /\ BootInv'
  BY <1>4, <1>1, <1>3 DEF ArgsHeld, BootInv, TypeOK
<1> QED
  BY <1>4, <1>5, <1>6 DEF UseKept

\* What the critical section of an eviction keeps.
LEMMA EvictStep ==
  ASSUME CInv, EvictTail, UNCHANGED <<table, held, inserted, left>>
  PROVE  /\ chain' \in [Buckets -> Seq(Pages)]
         /\ key' \in [Pages -> Keys \cup {None}]
         /\ phys' \in [Pages -> Pages \cup {None}]
         /\ lru' \in Seq(Pages) /\ last_access' \in Seq(Pages)
         /\ total_pages' \in Nat /\ free' \subseteq Pages
         /\ ListsAgree' /\ GivenOnce' /\ UseKept /\ PagesCached' /\ TableKept'
         /\ \/ total_pages' = total_pages - 1
            \/ total_pages' = 0 /\ total_pages = 0
<1> USE DEF CInv
<1>1. CASE lru = <<>> /\ UNCHANGED <<cacheVars, free>>
  <2>1. UNCHANGED <<chain, key, phys, lru, last_access, total_pages, free>>
    BY <1>1 DEF cacheVars
  <2>2. ListsAgree' /\ GivenOnce' /\ UseKept /\ PagesCached' /\ TableKept'
    BY <2>1 DEF ListsAgree, GivenOnce, UseKept, LeftAlone, NoOtherLost, Used,
                   PagesCached, TableKept, Entries
  <2>3. total_pages = 0
    BY <1>1 DEF ListsAgree
  <2> QED
    BY <2>1, <2>2, <2>3 DEF TypeOK
<1>2. ASSUME NEW e \in Entries, Unlink(e), free' = free \cup EvictFrees(e)
      PROVE  /\ chain' \in [Buckets -> Seq(Pages)]
             /\ key' \in [Pages -> Keys \cup {None}]
             /\ phys' \in [Pages -> Pages \cup {None}]
             /\ lru' \in Seq(Pages) /\ last_access' \in Seq(Pages)
             /\ total_pages' \in Nat /\ free' \subseteq Pages
             /\ ListsAgree' /\ GivenOnce' /\ UseKept /\ PagesCached' /\ TableKept'
             /\ total_pages' = total_pages - 1
  <2>1. /\ chain' \in [Buckets -> Seq(Pages)]
        /\ key' \in [Pages -> Keys \cup {None}]
        /\ phys' \in [Pages -> Pages \cup {None}]
        /\ lru' \in Seq(Pages) /\ last_access' \in Seq(Pages)
        /\ total_pages' \in Nat
    BY <1>2, UnlinkTyped
  <2>2. ListsAgree'
    BY <1>2, UnlinkListed
  <2>3. GivenOnce' /\ PagesCached' /\ TableKept' /\ free' \subseteq Pages
    BY <1>2, EvictUse
  <2>4. UseKept
    <3>1. Used' = Used
      BY <1>2, EvictUsed
    <3> QED
      BY <3>1, SameUsed DEF UseKept
  <2> QED
    BY <2>1, <2>2, <2>3, <2>4, <1>2 DEF Unlink
<1>3. CASE lru # <<>>
  <2> DEFINE e == lru[Len(lru)]
  <2>1. e \in Entries
    BY <1>3, TailFacts
  <2>2. Unlink(e) /\ free' = free \cup EvictFrees(e)
    BY <1>3 DEF EvictTail
  <2> HIDE DEF e
  <2> QED
    BY <2>1, <2>2, <1>2
<1> QED
  BY <1>1, <1>3 DEF EvictTail

\* An eviction on behalf of an insert, and one from outside.
LEMMA EvictSteps ==
  ASSUME CInv, NEW c \in CPUs, InsertEvict(c) \/ page_cache_evict_lru(c)
  PROVE  CInv'
<1> USE DEF CInv
<1>1. /\ EvictTail /\ UNCHANGED <<table, spill, held, inserted, left, arg>>
      /\ \/ pc[c] = "evict" /\ pc' = [pc EXCEPT ![c] = "relock"]
         \/ pc[c] = "idle" /\ pc' = pc
  BY DEF InsertEvict, page_cache_evict_lru, tableVars
<1>2. /\ chain' \in [Buckets -> Seq(Pages)]
      /\ key' \in [Pages -> Keys \cup {None}]
      /\ phys' \in [Pages -> Pages \cup {None}]
      /\ lru' \in Seq(Pages) /\ last_access' \in Seq(Pages)
      /\ total_pages' \in Nat /\ free' \subseteq Pages
      /\ ListsAgree' /\ GivenOnce' /\ UseKept /\ PagesCached' /\ TableKept'
  BY <1>1, EvictStep
<1>3. TypeOK'
  BY <1>1, <1>2 DEF TypeOK
<1>4. \A d \in CPUs : pc[d] # "boot"
  BY <1>1, PastBoot
<1>5. ArgsHeld' /\ BootInv'
  BY <1>1, <1>4 DEF ArgsHeld, BootInv, TypeOK
<1> QED
  BY <1>2, <1>3, <1>5 DEF UseKept

\* A removal.
LEMMA RemoveStep ==
  ASSUME CInv, ~BlindRemove, NEW c \in CPUs, NEW k \in Keys,
         page_cache_remove(c, k)
  PROVE  CInv'
<1> USE DEF CInv
<1>1. /\ pc[c] = "idle" /\ UNCHANGED <<table, spill, pc, arg>>
      /\ inserted' = [inserted EXCEPT ![c] = None]
  BY DEF page_cache_remove, tableVars
<1>2. \A d \in CPUs : pc'[d] # "boot"
  BY <1>1, PastBoot
<1>3. inserted' \in [CPUs -> (Keys \X Pages) \cup {None}]
  BY <1>1 DEF TypeOK
<1>4. held' = held
  BY DEF page_cache_remove, TakenBack, TypeOK
<1>5. ArgsHeld' /\ BootInv'
  BY <1>1, <1>2, <1>4 DEF ArgsHeld, BootInv
<1>6. CASE UNCHANGED <<cacheVars, free, left>>
  <2>1. UNCHANGED <<chain, key, phys, lru, last_access, total_pages, free, left>>
    BY <1>6 DEF cacheVars
  <2>2. TypeOK'
    BY <2>1, <1>1, <1>3, <1>4 DEF TypeOK
  <2>3. ListsAgree' /\ GivenOnce' /\ PagesCached' /\ TableKept'
    BY <2>1, <1>1, <1>4 DEF ListsAgree, GivenOnce, PagesCached, TableKept, Entries
  <2>4. LeftAlone' /\ NoOtherLost'
    BY <2>1, <1>1, <1>4 DEF LeftAlone, NoOtherLost, Used, Entries
  <2> QED
    BY <2>2, <2>3, <2>4, <1>5
<1>7. ASSUME NEW e \in Entries, Unlink(e), free' = free \cup RemoveFrees(e),
             left' = left \cup {phys[e]}
      PROVE  CInv'
  <2>1. /\ chain' \in [Buckets -> Seq(Pages)]
        /\ key' \in [Pages -> Keys \cup {None}]
        /\ phys' \in [Pages -> Pages \cup {None}]
        /\ lru' \in Seq(Pages) /\ last_access' \in Seq(Pages)
        /\ total_pages' \in Nat
    BY <1>7, UnlinkTyped
  <2>2. ListsAgree'
    BY <1>7, UnlinkListed
  <2>3. /\ GivenOnce' /\ PagesCached' /\ TableKept' /\ free' \subseteq Pages
        /\ Used = Used' \cup {phys[e]} /\ phys[e] \notin Used'
    BY <1>1, <1>4, <1>7, RemoveUse
  <2>4. left' \subseteq Pages
    BY <1>7 DEF TypeOK, PagesCached
  <2>5. TypeOK'
    BY <2>1, <2>3, <2>4, <1>1, <1>3, <1>4 DEF TypeOK
  <2>6. LeftAlone' /\ NoOtherLost'
    BY <2>3, <1>1, <1>7 DEF LeftAlone, NoOtherLost
  <2> QED
    BY <2>2, <2>3, <2>5, <2>6, <1>5
<1>8. \/ UNCHANGED <<cacheVars, free, left>>
      \/ \E e \in Match(k) : /\ Unlink(e) /\ free' = free \cup RemoveFrees(e)
                            /\ left' = left \cup {phys[e]}
  BY DEF page_cache_remove, TakenBack
<1> QED
  BY <1>6, <1>7, <1>8, MatchFacts

-----------------------------------------------------------------------------
(* The theorems *)

\* Every step keeps the invariant, with callers that leave what they inserted to
\* the cache.
LEMMA NextInv ==
  ASSUME CInv, ~BlindRemove, [Next]_vars
  PROVE  CInv'
<1>1. CASE UNCHANGED vars
  <2>1. UNCHANGED <<table, spill, chain, key, phys, lru, last_access, total_pages,
                    free, held, inserted, left, pc, arg>>
    BY <1>1 DEF vars
  <2>2. TypeOK' /\ ListsAgree' /\ GivenOnce'
    BY <2>1 DEF CInv, TypeOK, ListsAgree, GivenOnce, Entries
  <2>3. LeftAlone' /\ NoOtherLost'
    <3>1. Used' = Used
      BY <2>1 DEF Used, Entries
    <3> QED
      BY <3>1, <2>1, SameUsed DEF CInv
  <2>4. ArgsHeld' /\ PagesCached' /\ TableKept' /\ BootInv'
    BY <2>1 DEF CInv, ArgsHeld, PagesCached, TableKept, BootInv, Entries
  <2> QED
    BY <2>2, <2>3, <2>4 DEF CInv
<1>2. CASE page_cache_init
  BY <1>2, BootStep
<1>3. ASSUME NEW c \in CPUs, CallerAlloc(c) \/ CallerFree(c)
      PROVE  CInv'
  BY <1>3, CallerSteps
<1>4. ASSUME NEW c \in CPUs, InsertEvict(c) \/ page_cache_evict_lru(c)
      PROVE  CInv'
  BY <1>4, EvictSteps
<1>5. ASSUME NEW c \in CPUs, InsertFinish(c)
      PROVE  CInv'
  BY <1>5, InsertFinishStep
<1>6. ASSUME NEW c \in CPUs, NEW k \in Keys, page_cache_lookup(c, k)
      PROVE  CInv'
  BY <1>6, LookupStep
<1>7. ASSUME NEW c \in CPUs, NEW k \in Keys, InsertBegin(c, k)
      PROVE  CInv'
  BY <1>7, InsertBeginStep
<1>8. ASSUME NEW c \in CPUs, NEW k \in Keys, page_cache_remove(c, k)
      PROVE  CInv'
  BY <1>8, RemoveStep
<1> QED
  BY <1>1, <1>2, <1>3, <1>4, <1>5, <1>6, <1>7, <1>8 DEF Next, NoTable

\* The inductive invariant holds in every state, with callers that leave a page
\* that page_cache_insert took over to the cache.
THEOREM Invariance ==
  ASSUME ~BlindRemove
  PROVE  Spec => []CInv
<1>1. Init => CInv
  BY InitInv
<1>2. CInv /\ [Next]_vars => CInv'
  BY NextInv
<1> QED
  BY <1>1, <1>2, PTL DEF Spec

\* The types.
THEOREM TypeCorrect ==
  ASSUME ~BlindRemove
  PROVE  Spec => []TypeOK
<1>1. CInv => TypeOK
  BY DEF CInv
<1> QED
  BY <1>1, Invariance, PTL

\* The hash table and the list link the same entries, each once and in the
\* bucket of its key, and total_pages counts them, however the two critical
\* sections of page_cache_insert interleave with evictions and removals.
THEOREM TableAndListAgree ==
  ASSUME ~BlindRemove
  PROVE  Spec => []ListsAgree
<1>1. CInv => ListsAgree
  BY DEF CInv
<1> QED
  BY <1>1, Invariance, PTL

\* No page is free and in use, or in use twice: an eviction frees what nobody
\* else has, and what insert and remove leave to callers is not touched again.
THEOREM PagesUsedOnce ==
  ASSUME ~BlindRemove
  PROVE  Spec => []OneUse
<1>1. CInv => OneUse
  BY DEF CInv, OneUse, LeftAlone
<1> QED
  BY <1>1, Invariance, PTL

\* The cache loses no page but those that page_cache_insert, for a key that is
\* cached already, and page_cache_remove leave to callers without telling them.
THEOREM PagesNotLost ==
  ASSUME ~BlindRemove
  PROVE  Spec => []NoOtherLost
<1>1. CInv => NoOtherLost
  BY DEF CInv
<1> QED
  BY <1>1, Invariance, PTL

-----------------------------------------------------------------------------
(* How far the cache outgrows its bound *)

\* There is a CPU, and the CPUs between two critical sections can be counted.
LEMMA OwedFinite ==
  ASSUME IsFiniteSet(CPUs)
  PROVE  /\ Cardinality(CPUs) \in Nat \ {0}
         /\ IsFiniteSet(Owed) /\ Cardinality(Owed) \in Nat
         /\ Cardinality(Owed) <= Cardinality(CPUs)
         /\ IsFiniteSet(Owed') /\ Cardinality(Owed') \in Nat
         /\ Cardinality(Owed') <= Cardinality(CPUs)
<1>1. Owed \subseteq CPUs /\ Owed' \subseteq CPUs
  BY DEF Owed
<1>2. Cardinality(CPUs) \in Nat /\ Cardinality(CPUs) # 0
  BY CacheAssumption, FS_CardinalityType, FS_EmptySet
<1>3. /\ IsFiniteSet(Owed) /\ Cardinality(Owed) <= Cardinality(CPUs)
      /\ IsFiniteSet(Owed') /\ Cardinality(Owed') <= Cardinality(CPUs)
  BY <1>1, FS_Subset
<1>4. Cardinality(Owed) \in Nat /\ Cardinality(Owed') \in Nat
  BY <1>3, FS_CardinalityType
<1> QED
  BY <1>2, <1>3, <1>4

\* A step that neither adds an entry nor ends an insert.
LEMMA RoomSame ==
  ASSUME RoomInv, Owed' = Owed, total_pages' <= total_pages,
         total_pages \in Nat, total_pages' \in Nat, IsFiniteSet(CPUs)
  PROVE  RoomInv'
<1>1. Cardinality(CPUs) \in Nat /\ Cardinality(Owed) \in Nat
  BY OwedFinite
<1>2. max_pages \in Nat
  BY CacheAssumption
<1> QED
  BY <1>1, <1>2 DEF RoomInv

\* An entry added at once: there was room, and the CPU owed nothing.
LEMMA RoomBegin ==
  ASSUME CInv, RoomInv, IsFiniteSet(CPUs), ~BlindRemove,
         NEW c \in CPUs, NEW k \in Keys, InsertBegin(c, k)
  PROVE  RoomInv'
<1> USE DEF CInv
<1>1. pc[c] = "idle" /\ table' = table
  BY DEF InsertBegin, tableVars
<1>2. CASE UNCHANGED total_pages
           /\ (pc' = pc \/ pc' = [pc EXCEPT ![c] = "evict"])
  <2>1. Owed' = Owed
    BY <1>1, <1>2 DEF Owed, TypeOK
  <2>2. total_pages \in Nat /\ total_pages' \in Nat
        /\ total_pages' <= total_pages
    BY <1>2 DEF TypeOK
  <2> QED
    BY <2>1, <2>2, RoomSame
<1>3. ASSUME NEW p \in held[c], AddEntry(c, k, p), ~Full, pc' = pc,
             left' = left
      PROVE  RoomInv'
  <2>1. total_pages' \in Nat /\ total_pages' \in {total_pages, total_pages + 1}
    BY <1>1, <1>3, AddStep
  <2>2. total_pages \in Nat /\ max_pages \in Nat /\ total_pages < max_pages
    BY <1>3, CacheAssumption DEF Full, TypeOK
  <2>3. Owed' = Owed /\ Owed \subseteq CPUs \ {c}
    BY <1>1, <1>3 DEF Owed
  <2>4. /\ IsFiniteSet(CPUs \ {c})
        /\ Cardinality(CPUs \ {c}) = Cardinality(CPUs) - 1
    BY FS_RemoveElement
  <2>5. Cardinality(Owed) <= Cardinality(CPUs \ {c})
    BY <2>3, <2>4, FS_Subset
  <2>6. Cardinality(CPUs) \in Nat /\ Cardinality(Owed) \in Nat
    BY OwedFinite
  <2>7. Cardinality(Owed) <= Cardinality(CPUs) - 1
    BY <2>4, <2>5
  <2> QED
    BY <2>1, <2>2, <2>3, <2>6, <2>7 DEF RoomInv
<1> QED
  BY <1>2, <1>3 DEF InsertBegin, cacheVars

\* An eviction on behalf of an insert makes the room that is owed.
LEMMA RoomEvict ==
  ASSUME CInv, RoomInv, IsFiniteSet(CPUs), NEW c \in CPUs, InsertEvict(c)
  PROVE  RoomInv'
<1> USE DEF CInv
<1>1. /\ EvictTail /\ UNCHANGED <<table, held, inserted, left>>
      /\ pc[c] = "evict" /\ pc' = [pc EXCEPT ![c] = "relock"]
  BY DEF InsertEvict, tableVars
<1>2. /\ total_pages' \in Nat
      /\ \/ total_pages' = total_pages - 1
         \/ total_pages' = 0 /\ total_pages = 0
  BY <1>1, EvictStep
<1>3. c \notin Owed /\ Owed' = Owed \cup {c}
  BY <1>1 DEF Owed, TypeOK
<1>4. /\ Cardinality(CPUs) \in Nat /\ IsFiniteSet(Owed)
      /\ Cardinality(Owed) \in Nat /\ Cardinality(Owed') <= Cardinality(CPUs)
      /\ Cardinality(Owed') \in Nat
  BY OwedFinite
<1>5. Cardinality(Owed \cup {c}) = Cardinality(Owed) + 1
  BY <1>3, <1>4, FS_AddElement
<1>6. Cardinality(Owed') = Cardinality(Owed) + 1
  BY <1>3, <1>5
<1>7. total_pages \in Nat /\ max_pages \in Nat
  BY CacheAssumption DEF TypeOK
<1> QED
  BY <1>2, <1>4, <1>6, <1>7 DEF RoomInv

\* The entry that was owed.
LEMMA RoomFinish ==
  ASSUME CInv, RoomInv, IsFiniteSet(CPUs), ~BlindRemove,
         NEW c \in CPUs, InsertFinish(c)
  PROVE  RoomInv'
<1> USE DEF CInv
<1> DEFINE k == arg[c][1]
           p == arg[c][2]
<1>1. /\ pc[c] = "relock" /\ UNCHANGED <<table, left>> /\ AddEntry(c, k, p)
      /\ pc' = [pc EXCEPT ![c] = "idle"]
  BY DEF InsertFinish, tableVars
<1>2. k \in Keys /\ p \in held[c]
  BY <1>1 DEF ArgsHeld
<1> HIDE DEF k, p
<1>3. total_pages' \in Nat /\ total_pages' \in {total_pages, total_pages + 1}
  BY <1>1, <1>2, AddStep
<1>4. c \in Owed /\ Owed' = Owed \ {c}
  BY <1>1 DEF Owed, TypeOK
<1>5. /\ Cardinality(CPUs) \in Nat /\ IsFiniteSet(Owed)
      /\ Cardinality(Owed) \in Nat /\ Cardinality(Owed') \in Nat
  BY OwedFinite
<1>6. Cardinality(Owed \ {c}) = Cardinality(Owed) - 1
  BY <1>4, <1>5, FS_RemoveElement
<1>7. Cardinality(Owed') = Cardinality(Owed) - 1
  BY <1>4, <1>6
<1>8. total_pages \in Nat /\ max_pages \in Nat
  BY CacheAssumption DEF TypeOK
<1> QED
  BY <1>3, <1>5, <1>7, <1>8 DEF RoomInv

\* Every step keeps the account of the room that is owed.
LEMMA RoomStep ==
  ASSUME CInv, CInv', RoomInv, IsFiniteSet(CPUs), ~BlindRemove, [Next]_vars
  PROVE  RoomInv'
<1>1. total_pages \in Nat /\ total_pages' \in Nat
  BY DEF CInv, TypeOK
<1>2. CASE total_pages' <= total_pages /\ Owed' = Owed
  BY <1>1, <1>2, RoomSame
<1>3. CASE page_cache_init \/ UNCHANGED vars
  <2>1. total_pages' = total_pages
    BY <1>3 DEF page_cache_init, cacheVars, vars
  <2>2. CASE page_cache_init
    <3>1. Owed' = Owed
      BY <2>2 DEF page_cache_init, Owed
    <3> QED
      BY <2>1, <3>1, <1>1, <1>2
  <2>3. CASE UNCHANGED vars
    <3>1. Owed' = Owed
      BY <2>3 DEF vars, Owed
    <3> QED
      BY <2>1, <3>1, <1>1, <1>2
  <2> QED
    BY <1>3, <2>2, <2>3
<1>4. ASSUME NEW c \in CPUs,
             CallerAlloc(c) \/ CallerFree(c) \/ page_cache_evict_lru(c)
      PROVE  RoomInv'
  <2>1. Owed' = Owed
    BY <1>4 DEF CallerAlloc, CallerFree, page_cache_evict_lru, Owed
  <2>2. total_pages' <= total_pages
    <3>1. CASE CallerAlloc(c) \/ CallerFree(c)
      BY <3>1, <1>1 DEF CallerAlloc, CallerFree, cacheVars
    <3>2. CASE page_cache_evict_lru(c)
      BY <3>2, <1>1 DEF page_cache_evict_lru, EvictTail, Unlink, cacheVars
    <3> QED
      BY <3>1, <3>2, <1>4
  <2> QED
    BY <2>1, <2>2, <1>2
<1>5. ASSUME NEW c \in CPUs, NEW k \in Keys,
             page_cache_lookup(c, k) \/ page_cache_remove(c, k)
      PROVE  RoomInv'
  <2>1. Owed' = Owed
    BY <1>5 DEF page_cache_lookup, page_cache_remove, Owed
  <2>2. total_pages' <= total_pages
    <3>1. CASE page_cache_lookup(c, k)
      BY <3>1, <1>1 DEF page_cache_lookup
    <3>2. CASE page_cache_remove(c, k)
      BY <3>2, <1>1 DEF page_cache_remove, Unlink, cacheVars
    <3> QED
      BY <3>1, <3>2, <1>5
  <2> QED
    BY <2>1, <2>2, <1>2
<1>6. ASSUME NEW c \in CPUs, NEW k \in Keys, InsertBegin(c, k)
      PROVE  RoomInv'
  BY <1>6, RoomBegin
<1>7. ASSUME NEW c \in CPUs, InsertEvict(c)
      PROVE  RoomInv'
  BY <1>7, RoomEvict
<1>8. ASSUME NEW c \in CPUs, InsertFinish(c)
      PROVE  RoomInv'
  BY <1>8, RoomFinish
<1> QED
  BY <1>3, <1>4, <1>5, <1>6, <1>7, <1>8 DEF Next, NoTable

\* page_cache_insert evicts in one critical section and adds in another without
\* looking at the size again: the cache outgrows max_pages by at most one page
\* for every other CPU, however many inserts overlap.
THEOREM OvershootBounded ==
  ASSUME ~BlindRemove, IsFiniteSet(CPUs)
  PROVE  Spec => []Overshoot
<1>1. Init => RoomInv
  <2> SUFFICES ASSUME Init PROVE RoomInv
    OBVIOUS
  <2>1. Owed = {} /\ total_pages = 0
    BY DEF Init, Owed
  <2>2. Cardinality(Owed) = 0
    BY <2>1, FS_EmptySet
  <2>3. Cardinality(CPUs) \in Nat \ {0} /\ max_pages \in Nat
    BY OwedFinite, CacheAssumption
  <2> QED
    BY <2>1, <2>2, <2>3 DEF RoomInv
<1>2. CInv /\ CInv' /\ RoomInv /\ [Next]_vars => RoomInv'
  BY RoomStep
<1>3. CInv /\ RoomInv => Overshoot
  <2> SUFFICES ASSUME CInv, RoomInv PROVE Overshoot
    OBVIOUS
  <2>1. Cardinality(CPUs) \in Nat /\ Cardinality(Owed) \in Nat
        /\ max_pages \in Nat /\ total_pages \in Nat
    BY OwedFinite, CacheAssumption DEF CInv, TypeOK
  <2> QED
    BY <2>1 DEF RoomInv, Overshoot
<1>4. Spec => []CInv
  BY Invariance
<1> QED
  BY <1>1, <1>2, <1>3, <1>4, PTL DEF Spec
=============================================================================
