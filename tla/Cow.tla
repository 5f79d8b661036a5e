--------------------------------- MODULE Cow ---------------------------------
(***************************************************************************)
(* Copy-on-write page sharing, kernel/mm/cow.c.                            *)
(*                                                                         *)
(* Every address space has one virtual page.  A reference entry is named   *)
(* by the page it counts for; the memory an entry takes is not one of      *)
(* Pages.  A section under cow_global_lock or under an entry's own lock is *)
(* one step, except that cow_decrement_ref keeps the global lock over two; *)
(* everything in between interleaves.  Contents are members of a small     *)
(* set, and view is the history variable they are compared with.           *)
(*                                                                         *)
(* Callers follow kernel/tests/test_cow.c: a page is mapped in two spaces, *)
(* both mappings are marked, once each, before either is used again, and a *)
(* mapping is dropped by unmapping it and then giving up its page:         *)
(* cow_decrement_ref for a marked one, buddy_free_pages for another.  A    *)
(* CPU that maps, shares or drops the page of a space has the space to     *)
(* itself; whether a space may run on a second CPU while a call is under   *)
(* way in it is a parameter.                                               *)
(***************************************************************************)
EXTENDS Integers, Sequences, FiniteSets

CONSTANTS
  CPUs,
  Pinners,       \* bound: the CPUs whose callers use cow_increment_ref
  Spaces,        \* the address spaces
  Pages,         \* the physical pages
  Contents,      \* what a page can hold
  None,
  CountMod,      \* ref_count wraps here: 2^32 in the code
  MemoryFails,   \* TRUE: other users of the buddy allocator may have taken
                 \* every page at any time
  OneThread      \* TRUE: a space runs on one CPU at a time

ASSUME CowAssumption ==
  /\ None \notin CPUs \cup Spaces \cup Pages /\ None \notin Nat
  /\ Pinners \subseteq CPUs
  /\ CountMod \in Nat \ {0, 1}
  /\ MemoryFails \in BOOLEAN /\ OneThread \in BOOLEAN

VARIABLES
  pte,       \* pte[s]: the page table entry of space s
  entry,     \* entry[p]: ref_count of the reference entry of page p, or None
  glock,     \* who keeps cow_global_lock from one step to the next
  content,   \* content[p]: the bytes of page p
  free,      \* the buddy allocator's free pages
  pin,       \* pin[c]: the page c counted with cow_increment_ref, or None
  pc,        \* pc[c]: where c is in a call
  at,        \* at[c]: the spaces in the hands of c
  todo,      \* todo[c]: the mappings c has to mark
  page,      \* page[c]: the page c's call is about (from a copy of the PTE)
  new,       \* new[c]: the page c's cow_handle_fault has allocated
  view       \* view[s]: what space s should find in its page

callVars == <<at, todo, page, new>>
vars == <<pte, entry, glock, content, free, pin, pc, at, todo, page, new,
          view>>

PTE(p, writable, cow) == [page |-> p, writable |-> writable, cow |-> cow]
Unmapped == PTE(None, FALSE, FALSE)
Mapped == {s \in Spaces : pte[s] # Unmapped}
Busy(s) == \E c \in CPUs : s \in at[c]
Runs(s) == ~Busy(s) \/ (~OneThread /\ \E c \in CPUs : pc[c] = "idle")
Goto(c, l) == pc' = [pc EXCEPT ![c] = l]

\* cow_init, no space mapped yet.
Init ==
  /\ pte = [s \in Spaces |-> Unmapped]
  /\ entry = [p \in Pages |-> None]
  /\ glock = None
  /\ \E v \in Contents : content = [p \in Pages |-> v]
  /\ free = Pages
  /\ pin = [c \in CPUs |-> None]
  /\ pc = [c \in CPUs |-> "idle"]
  /\ at = [c \in CPUs |-> {}]
  /\ todo = [c \in CPUs |-> <<>>]
  /\ page = [c \in CPUs |-> None]
  /\ new = [c \in CPUs |-> None]
  /\ view = [s \in Spaces |-> None]

\* The call returns and its locals are gone.
Return(c) ==
  /\ Goto(c, "idle")
  /\ at' = [at EXCEPT ![c] = {}]
  /\ todo' = [todo EXCEPT ![c] = <<>>]
  /\ page' = [page EXCEPT ![c] = None]
  /\ new' = [new EXCEPT ![c] = None]

-----------------------------------------------------------------------------
(* Reference entries *)

\* Whether buddy_alloc_pages can refuse a page.
NoMemory == MemoryFails \/ free = {}

\* cow_get_ref, all of it under the global lock: find the entry of page p or
\* create one with count 0.
cow_get_ref(p) ==
  /\ glock = None
  /\ entry[p] # None \/ free # {}
  /\ entry' = [entry EXCEPT ![p] = IF @ = None THEN 0 ELSE @]

\* It returns 0 when there is no entry and no memory for one.
NoRef(p) == glock = None /\ entry[p] = None /\ NoMemory

\* Add d to the count c's pointer leads to.  If cow_decrement_ref has freed
\* the entry meanwhile the store goes to freed memory and no count changes.
AddCount(c, d) ==
  entry' = [entry EXCEPT ![page[c]] = IF @ = None THEN @ ELSE (@ + d) % CountMod]

-----------------------------------------------------------------------------
(* Callers *)

\* A fresh page is mapped writable.
MapNew(s) ==
  /\ pte[s] = Unmapped /\ ~Busy(s)
  /\ \E p \in free :
       /\ pte' = [pte EXCEPT ![s] = PTE(p, TRUE, FALSE)]
       /\ view' = [view EXCEPT ![s] = content[p]]
       /\ free' = free \ {p}
  /\ UNCHANGED <<entry, glock, content, pin, pc, callVars>>

\* A store through a writable mapping.
Write(s) ==
  /\ pte[s].writable /\ Runs(s)
  /\ \E v \in Contents :
       /\ content' = [content EXCEPT ![pte[s].page] = v]
       /\ view' = [view EXCEPT ![s] = v]
  /\ UNCHANGED <<pte, entry, glock, free, pin, pc, callVars>>

\* The page of s is mapped in t too; the mappings not marked yet must be.
Share(c, s, t) ==
  /\ pc[c] = "idle"
  /\ ~Busy(s) /\ ~Busy(t)
  /\ pte[s] # Unmapped /\ pte[t] = Unmapped
  /\ pte' = [pte EXCEPT ![t] = PTE(pte[s].page, TRUE, FALSE)]
  /\ view' = [view EXCEPT ![t] = view[s]]
  /\ at' = [at EXCEPT ![c] = {s, t}]
  /\ todo' = [todo EXCEPT ![c] = IF pte[s].cow THEN <<t>> ELSE <<s, t>>]
  /\ Goto(c, "mark")
  /\ UNCHANGED <<entry, glock, content, free, pin, page, new>>

\* A mapping is dropped.
Unmap(c, s) ==
  /\ pc[c] = "idle" /\ ~Busy(s) /\ pte[s] # Unmapped
  /\ pte' = [pte EXCEPT ![s] = Unmapped]
  /\ view' = [view EXCEPT ![s] = None]
  /\ \/ /\ pte[s].cow
        /\ page' = [page EXCEPT ![c] = pte[s].page]
        /\ Goto(c, "dec")
        /\ UNCHANGED free
     \/ /\ ~pte[s].cow
        /\ free' = free \cup {pte[s].page}
        /\ UNCHANGED <<page, pc>>
  /\ UNCHANGED <<entry, glock, content, pin, at, todo, new>>

-----------------------------------------------------------------------------
(* cow_mark_page *)

\* Read the PTE and get the entry; a caller told -1 undoes the sharing.
MarkRef(c) ==
  LET s == Head(todo[c]) IN
  /\ pc[c] = "mark"
  /\ \/ /\ cow_get_ref(pte[s].page)
        /\ page' = [page EXCEPT ![c] = pte[s].page]
        /\ Goto(c, "mark_count")
        /\ UNCHANGED <<pte, view, at, todo, new>>
     \/ /\ NoRef(pte[s].page)
        /\ LET t == todo[c][Len(todo[c])] IN
             /\ pte' = [pte EXCEPT ![t] = Unmapped]
             /\ view' = [view EXCEPT ![t] = None]
        /\ Return(c)
        /\ UNCHANGED entry
  /\ UNCHANGED <<glock, content, free, pin>>

\* Mutant: the mapping is marked without being counted.
MarkCountForgotten(c) ==
  /\ pc[c] = "mark_count"
  /\ Goto(c, "mark_pte")
  /\ UNCHANGED <<pte, entry, glock, content, free, pin, callVars, view>>

MarkCount(c) ==
  /\ pc[c] = "mark_count"
  /\ AddCount(c, 1)
  /\ Goto(c, "mark_pte")
  /\ UNCHANGED <<pte, glock, content, free, pin, callVars, view>>

\* Write the PTE back, read-only and marked; then the next mapping.
MarkPte(c) ==
  /\ pc[c] = "mark_pte"
  /\ pte' = [pte EXCEPT ![Head(todo[c])] = PTE(page[c], FALSE, TRUE)]
  /\ IF Len(todo[c]) = 1
       THEN Return(c)
       ELSE /\ todo' = [todo EXCEPT ![c] = Tail(@)]
            /\ Goto(c, "mark")
            /\ UNCHANGED <<at, page, new>>
  /\ UNCHANGED <<entry, glock, content, free, pin, view>>

-----------------------------------------------------------------------------
(* cow_handle_fault *)

\* Space s stores to its page: a page that is not mapped or not marked is
\* refused with -1, as is a marked one whose entry cannot be had.
FaultRefused(c, s) ==
  /\ pc[c] = "idle" /\ Runs(s)
  /\ pte[s].cow => NoRef(pte[s].page)
  /\ UNCHANGED vars

FaultRef(c, s) ==
  /\ pc[c] = "idle" /\ Runs(s)
  /\ pte[s].cow
  /\ cow_get_ref(pte[s].page)
  /\ at' = [at EXCEPT ![c] = {s}]
  /\ page' = [page EXCEPT ![c] = pte[s].page]
  /\ Goto(c, "fault_count")
  /\ UNCHANGED <<pte, glock, content, free, pin, todo, new, view>>

\* Mutant: the count is compared after it was decremented.
SoleOwnerLate(c) == entry[page[c]] = 2

\* ref_count == 1.
SoleOwner(c) == entry[page[c]] = 1

\* The faulting space gives up its reference in either case.
FaultCount(c) ==
  /\ pc[c] = "fault_count"
  /\ \/ SoleOwner(c) /\ Goto(c, "fault_own")
     \/ ~SoleOwner(c) /\ Goto(c, "fault_alloc")
  /\ AddCount(c, -1)
  /\ UNCHANGED <<pte, glock, content, free, pin, callVars, view>>

\* The space of c's fault gets page p, writable and not marked.
FaultPte(c, p) ==
  pte' = [s \in Spaces |-> IF s \in at[c] THEN PTE(p, TRUE, FALSE) ELSE pte[s]]

FaultOwn(c) ==
  /\ pc[c] = "fault_own"
  /\ FaultPte(c, page[c])
  /\ Return(c)
  /\ UNCHANGED <<entry, glock, content, free, pin, view>>

FaultAlloc(c) ==
  /\ pc[c] = "fault_alloc"
  /\ \/ \E p \in free :
          /\ free' = free \ {p}
          /\ new' = [new EXCEPT ![c] = p]
          /\ Goto(c, "fault_copy")
     \/ NoMemory /\ Goto(c, "fault_restore") /\ UNCHANGED <<free, new>>
  /\ UNCHANGED <<pte, entry, glock, content, pin, at, todo, page, view>>

\* Mutant: the reference is not restored.
FaultRestoreForgotten(c) ==
  /\ pc[c] = "fault_restore"
  /\ Return(c)
  /\ UNCHANGED <<pte, entry, glock, content, free, pin, view>>

\* Out of memory: take the reference back and return -1.
FaultRestore(c) ==
  /\ pc[c] = "fault_restore"
  /\ AddCount(c, 1)
  /\ Return(c)
  /\ UNCHANGED <<pte, glock, content, free, pin, view>>

FaultCopy(c) ==
  /\ pc[c] = "fault_copy"
  /\ content' = [content EXCEPT ![new[c]] = content[page[c]]]
  /\ Goto(c, "fault_pte")
  /\ UNCHANGED <<pte, entry, glock, free, pin, callVars, view>>

FaultDone(c) ==
  /\ pc[c] = "fault_pte"
  /\ FaultPte(c, new[c])
  /\ Return(c)
  /\ UNCHANGED <<entry, glock, content, free, pin, view>>

-----------------------------------------------------------------------------
(* cow_increment_ref and cow_decrement_ref *)

\* A caller that has a marked mapping of a page counts one reference more,
\* to keep the page beyond the mapping.  Without an entry and memory for one
\* cow_increment_ref returns, and does not tell its caller.
IncrementRef(c, s) ==
  /\ c \in Pinners
  /\ pc[c] = "idle" /\ pin[c] = None
  /\ Runs(s) /\ pte[s].cow
  /\ cow_get_ref(pte[s].page) \/ (NoRef(pte[s].page) /\ UNCHANGED entry)
  /\ at' = [at EXCEPT ![c] = {s}]
  /\ page' = [page EXCEPT ![c] = pte[s].page]
  /\ Goto(c, "inc")
  /\ UNCHANGED <<pte, glock, content, free, pin, todo, new, view>>

Increment(c) ==
  /\ pc[c] = "inc"
  /\ AddCount(c, 1)
  /\ pin' = [pin EXCEPT ![c] = page[c]]
  /\ Return(c)
  /\ UNCHANGED <<pte, glock, content, free, view>>

\* The caller gives that reference up.
Unpin(c) ==
  /\ pc[c] = "idle" /\ pin[c] # None
  /\ page' = [page EXCEPT ![c] = pin[c]]
  /\ pin' = [pin EXCEPT ![c] = None]
  /\ Goto(c, "dec")
  /\ UNCHANGED <<pte, entry, glock, content, free, at, todo, new, view>>

\* Mutant: one reference too early.
LastRefEarly(count) == count <= 1

LastRef(count) == count = 0

\* Under the global lock: without an entry the call returns; otherwise it
\* decrements, and keeps the lock if it has to unlink the entry.
DecCount(c) ==
  /\ pc[c] = "dec" /\ glock = None
  /\ \/ /\ entry[page[c]] = None
        /\ Return(c)
        /\ UNCHANGED <<entry, glock>>
     \/ /\ entry[page[c]] # None
        /\ LET count == (entry[page[c]] - 1) % CountMod IN
             /\ entry' = [entry EXCEPT ![page[c]] = count]
             /\ \/ /\ LastRef(count)
                   /\ glock' = c
                   /\ Goto(c, "dec_unlink")
                   /\ UNCHANGED <<callVars>>
                \/ /\ ~LastRef(count)
                   /\ Return(c)
                   /\ UNCHANGED glock
  /\ UNCHANGED <<pte, content, free, pin, view>>

DecUnlink(c) ==
  /\ pc[c] = "dec_unlink"
  /\ entry' = [entry EXCEPT ![page[c]] = None]
  /\ glock' = None
  /\ Goto(c, "dec_free")
  /\ UNCHANGED <<pte, content, free, pin, callVars, view>>

\* Mutant: only the entry is freed.
DecFreeEntryOnly(c) ==
  /\ pc[c] = "dec_free"
  /\ Return(c)
  /\ UNCHANGED <<pte, entry, glock, content, free, pin, view>>

\* The page and the entry go back to the buddy allocator.
DecFree(c) ==
  /\ pc[c] = "dec_free"
  /\ free' = free \cup {page[c]}
  /\ Return(c)
  /\ UNCHANGED <<pte, entry, glock, content, pin, view>>

-----------------------------------------------------------------------------
(* The specification *)

Call(c) ==
  \/ \E s, t \in Spaces : Share(c, s, t)
  \/ \E s \in Spaces :
       Unmap(c, s) \/ FaultRefused(c, s) \/ FaultRef(c, s) \/ IncrementRef(c, s)
  \/ Unpin(c)

Step(c) ==
  \/ MarkRef(c) \/ MarkCount(c) \/ MarkPte(c)
  \/ FaultCount(c) \/ FaultOwn(c) \/ FaultAlloc(c) \/ FaultRestore(c)
  \/ FaultCopy(c) \/ FaultDone(c)
  \/ Increment(c) \/ DecCount(c) \/ DecUnlink(c) \/ DecFree(c)

Next ==
  \/ \E s \in Spaces : MapNew(s) \/ Write(s)
  \/ \E c \in CPUs : Call(c) \/ Step(c)

Spec == Init /\ [][Next]_vars

-----------------------------------------------------------------------------
(* Properties *)

PTEs ==
  [page : Pages, writable : BOOLEAN, cow : BOOLEAN] \cup {Unmapped}

TypeOK ==
  /\ pte \in [Spaces -> PTEs]
  /\ entry \in [Pages -> 0..(CountMod - 1) \cup {None}]
  /\ glock \in CPUs \cup {None}
  /\ content \in [Pages -> Contents]
  /\ free \subseteq Pages
  /\ pin \in [CPUs -> Pages \cup {None}]
  /\ pc \in [CPUs -> {"idle", "mark", "mark_count", "mark_pte", "fault_count",
                      "fault_own", "fault_alloc", "fault_restore",
                      "fault_copy", "fault_pte", "inc", "dec", "dec_unlink",
                      "dec_free"}]
  /\ at \in [CPUs -> SUBSET Spaces]
  /\ todo \in [CPUs -> Seq(Spaces)]
  /\ page \in [CPUs -> Pages \cup {None}]
  /\ new \in [CPUs -> Pages \cup {None}]
  /\ view \in [Spaces -> Contents \cup {None}]

\* CPUs between giving up the reference of a faulting space and writing its
\* page table entry.
GaveUp == {c \in CPUs : pc[c] \in {"fault_own", "fault_alloc", "fault_restore",
                                  "fault_copy", "fault_pte"}}

\* What ref_count of page p should be: its marked mappings but those whose
\* reference was given up, the references callers took with
\* cow_increment_ref, and the marks and decrements under way.
Expected(p) ==
  Cardinality({s \in Mapped : /\ pte[s].page = p /\ pte[s].cow
                             /\ \A c \in GaveUp : s \notin at[c]})
  + Cardinality({c \in CPUs : pin[c] = p})
  + Cardinality({c \in CPUs : page[c] = p /\ pc[c] \in {"mark_pte", "dec"}})

\* Reference counting is exact at every step of every interleaving of marks,
\* faults, increments and decrements: no reference is lost or counted twice.
RefCountExact ==
  \A p \in Pages :
    IF entry[p] = None THEN Expected(p) = 0 ELSE entry[p] = Expected(p)

\* Isolation: a space finds in its page what it wrote there itself or, before
\* its first write, what the page held when it was shared; no other space's
\* writes show through.
Isolation ==
  \A s \in Mapped : ~Busy(s) => content[pte[s].page] = view[s]

\* cow_decrement_ref frees no page that a space still maps or that a caller
\* still counts on.
NoEarlyFree ==
  /\ \A s \in Mapped : pte[s].page \notin free
  /\ \A c \in CPUs : pin[c] \notin free /\ new[c] \notin free

\* No physical page is lost on the way through sharing, faults, failed
\* allocations and decrements.
NoPageLost ==
  \A p \in Pages :
    \/ p \in free
    \/ \E s \in Mapped : pte[s].page = p
    \/ \E c \in CPUs : p \in {pin[c], new[c]}
    \/ \E c \in CPUs :
         page[c] = p /\ pc[c] \in {"dec", "dec_unlink", "dec_free"}

\* A page that some space can write is mapped writable by no other space
\* that is free to run.
OneWriter ==
  \A s, t \in Mapped :
    /\ s # t /\ pte[s].page = pte[t].page
    /\ ~Busy(s) /\ ~Busy(t)
    => ~(pte[s].writable /\ pte[t].writable)
=============================================================================
