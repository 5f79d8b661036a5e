------------------------------- MODULE CowProofs -------------------------------
(***************************************************************************)
(* Proofs about copy-on-write, for any number of spaces, pages and         *)
(* contents.  With any number of CPUs of which no two run the same space,  *)
(* and memory that does not run out, or on one CPU with memory that may:   *)
(* reference counts are exact, no page is lost and no page has two         *)
(* writers.  On one CPU besides: spaces do not see each other's writes,    *)
(* and no page is freed too early.                                         *)
(***************************************************************************)
EXTENDS Cow, MathLemmas, FiniteSetTheorems

-----------------------------------------------------------------------------
(* Under what conditions *)

OneCPU == \A c, d \in CPUs : c = d

\* No two CPUs run the same space.  (Where they do, both may give up the one
\* reference of the space: cow_handle_fault reads the entry of the page table
\* before it takes a lock.)
SpacesApart == OneThread \/ OneCPU

\* Whatever spaces, callers and calls have, a page is left.
MemoryPlenty ==
  /\ ~MemoryFails /\ IsFiniteSet(Pages)
  /\ Cardinality(Pages) > Cardinality(Spaces) + 2 * Cardinality(CPUs)

\* Fewer references than ref_count has room for.
CountFits ==
  /\ IsFiniteSet(CPUs) /\ IsFiniteSet(Spaces)
  /\ CountMod > Cardinality(Spaces) + 2 * Cardinality(CPUs)

-----------------------------------------------------------------------------
(* The inductive invariant *)

MarkSteps == {"mark", "mark_count", "mark_pte"}
CopySteps == {"fault_alloc", "fault_restore", "fault_copy", "fault_pte"}
FaultSteps == {"fault_count", "fault_own"} \cup CopySteps
DeathSteps == {"dec_unlink", "dec_free"}

\* An entry of a page table is empty, or a page that is marked or writable.
PteInv ==
  \A s \in Spaces :
    /\ pte[s].cow => ~pte[s].writable
    /\ pte[s].page = None <=> pte[s] = Unmapped

\* Two spaces that share an unmarked page, on their way to be marked.
TwoToMark(c) ==
  /\ Len(todo[c]) = 2 /\ todo[c][1] # todo[c][2]
  /\ at[c] = {todo[c][1], todo[c][2]}
  /\ ~pte[todo[c][1]].cow /\ ~pte[todo[c][2]].cow

\* A marked space and one to mark.
OneToMark(c) ==
  /\ Len(todo[c]) = 1
  /\ \E s \in Spaces : s # todo[c][1] /\ at[c] = {s, todo[c][1]} /\ pte[s].cow
  /\ ~pte[todo[c][1]].cow

\* Where a CPU is in a call says what it has in its hands.
MarkLocals(c) ==
  pc[c] \in MarkSteps =>
    /\ TwoToMark(c) \/ OneToMark(c)
    /\ \A s, t \in at[c] : pte[s].page = pte[t].page
    /\ \A s \in at[c] : pte[s].page \in Pages
    /\ pc[c] # "mark" => \A s \in at[c] : pte[s].page = page[c]

FaultLocals(c) ==
  pc[c] \in FaultSteps \cup {"inc"} =>
    /\ page[c] \in Pages
    /\ \E s \in Spaces : at[c] = {s} /\ pte[s].cow /\ pte[s].page = page[c]

OtherLocals(c) ==
  /\ pc[c] \in {"idle", "dec"} \cup DeathSteps => at[c] = {}
  /\ pc[c] \in {"dec"} \cup DeathSteps => page[c] \in Pages
  /\ pc[c] = "inc" => pin[c] = None
  /\ new[c] # None <=> pc[c] \in {"fault_copy", "fault_pte"}

Locals(c) == MarkLocals(c) /\ FaultLocals(c) /\ OtherLocals(c)

HandsApart == \A c, d \in CPUs : c # d => at[c] \cap at[d] = {}
GlockInv == \A c \in CPUs : glock = c <=> pc[c] = "dec_unlink"

Structure ==
  /\ TypeOK /\ PteInv /\ HandsApart /\ GlockInv
  /\ \A c \in CPUs : Locals(c)

\* Spaces that are being marked, that have given up their reference to own the
\* page, and to get a copy of it.
InHands(s, steps) == \E c \in CPUs : s \in at[c] /\ pc[c] \in steps

\* The users of page p: a space (one that waits for its copy is none any
\* more), a space whose reference is counted, and CPUs that are about to give
\* up a reference or to free the page.
On(s, p) == pte[s].page = p /\ ~InHands(s, CopySteps)
Counted(s, p) == On(s, p) /\ pte[s].cow /\ ~InHands(s, {"fault_own"})
Dec(c, p) == pc[c] = "dec" /\ page[c] = p
Dying(c, p) == pc[c] \in DeathSteps /\ page[c] = p

\* A space that is ready to share its page.
Sharing(s) ==
  \/ pte[s].cow /\ ~InHands(s, {"fault_own"})
  \/ InHands(s, MarkSteps)

\* A CPU whose caller counts on page p or is about to give it up.
User(c, p) == pin[c] = p \/ Dec(c, p)

\* A page has one user, or users that share it.
SpacesShare(p) ==
  \A s, t \in Spaces : On(s, p) /\ On(t, p) /\ s # t => Sharing(s)
OwnersAlone(p) ==
  \A s \in Spaces, c \in CPUs : On(s, p) /\ ~Sharing(s) => ~User(c, p)
UsedNotFree(p) ==
  (\E s \in Spaces : On(s, p)) \/ (\E c \in CPUs : User(c, p)) =>
    p \notin free /\ \A d \in CPUs : new[d] # p /\ ~Dying(d, p)
NewAlone(p) ==
  \A c \in CPUs : new[c] = p =>
    /\ p \notin free
    /\ \A d \in CPUs : ~Dying(d, p) /\ (c # d => new[d] # p)
DyingAlone(p) ==
  \A c \in CPUs :
    Dying(c, p) => p \notin free /\ \A d \in CPUs : c # d => ~Dying(d, p)

\* Two spaces that are to be marked are the only users of their page.
Marks(c, p) ==
  pc[c] \in MarkSteps /\ Len(todo[c]) = 2 /\ pte[todo[c][1]].page = p
MarkedFirst(p) ==
  \A c \in CPUs : Marks(c, p) =>
    /\ \A s \in Spaces : On(s, p) => s \in at[c]
    /\ \A d \in CPUs : ~User(d, p)

\* A page has a user or is free.
Kept(p) ==
  \/ p \in free
  \/ \E s \in Spaces : On(s, p)
  \/ \E c \in CPUs : User(c, p) \/ new[c] = p \/ Dying(c, p)

Owned(p) ==
  /\ SpacesShare(p) /\ OwnersAlone(p) /\ UsedNotFree(p) /\ NewAlone(p)
  /\ DyingAlone(p) /\ MarkedFirst(p) /\ Kept(p)

\* An entry that a CPU is about to count in is there.
EntryInv == \A c \in CPUs : pc[c] = "mark_count" => entry[page[c]] # None

\* With memory for all no fault has to be undone.
NoRestore == MemoryPlenty => \A c \in CPUs : pc[c] # "fault_restore"

\* With one CPU, a page to be copied keeps its entry and its other users.
CopyInv ==
  OneCPU => \A c \in CPUs : pc[c] \in CopySteps =>
    /\ page[c] \notin free /\ new[c] # page[c] /\ entry[page[c]] # None
    /\ \A s \in Spaces : On(s, page[c]) => pte[s].cow

WInv ==
  /\ Structure /\ \A p \in Pages : Owned(p)
  /\ EntryInv /\ NoRestore /\ CopyInv /\ RefCountExact

\* One CPU: what a space should find it finds, in its own page while it waits
\* for the copy, and in the copy.
ViewInv ==
  /\ \A s \in Mapped : content[pte[s].page] = view[s]
  /\ \A c \in CPUs : pc[c] = "fault_pte" => content[new[c]] = content[page[c]]

-----------------------------------------------------------------------------
(* Page table entries and CPUs *)

\* The three kinds of entries.
LEMMA PteKinds ==
  /\ Unmapped \in PTEs /\ Unmapped.page = None
  /\ Unmapped.writable = FALSE /\ Unmapped.cow = FALSE
  /\ \A p \in Pages :
       /\ PTE(p, TRUE, FALSE) \in PTEs /\ PTE(p, TRUE, FALSE).page = p
       /\ PTE(p, TRUE, FALSE).writable = TRUE /\ PTE(p, TRUE, FALSE).cow = FALSE
       /\ PTE(p, FALSE, TRUE) \in PTEs /\ PTE(p, FALSE, TRUE).page = p
       /\ PTE(p, FALSE, TRUE).writable = FALSE /\ PTE(p, FALSE, TRUE).cow = TRUE
       /\ PTE(p, TRUE, FALSE) # Unmapped /\ PTE(p, FALSE, TRUE) # Unmapped
<1>1. None \notin Pages
  BY CowAssumption
<1> QED
  BY <1>1 DEF PTEs, PTE, Unmapped

\* The fields of an entry.
LEMMA PteFields ==
  ASSUME TypeOK, PteInv, NEW s \in Spaces
  PROVE  /\ pte[s].cow \in BOOLEAN /\ pte[s].writable \in BOOLEAN
         /\ pte[s].page \in Pages \cup {None}
         /\ pte[s] = Unmapped <=> pte[s].page = None
         /\ pte[s].cow \/ pte[s].writable => pte[s].page \in Pages
         /\ s \in Mapped <=> pte[s].page \in Pages
<1>1. pte[s] \in PTEs
  BY DEF TypeOK
<1>2. pte[s].cow \in BOOLEAN /\ pte[s].writable \in BOOLEAN
      /\ pte[s].page \in Pages \cup {None}
  <2>1. CASE pte[s] = Unmapped
    BY <2>1, PteKinds
  <2>2. CASE pte[s] \in [page : Pages, writable : BOOLEAN, cow : BOOLEAN]
    <3>1. pte[s].page \in Pages
      BY <2>2
    <3>2. pte[s].cow \in BOOLEAN /\ pte[s].writable \in BOOLEAN
      BY <2>2, Zenon
    <3> QED
      BY <3>1, <3>2
  <2> QED
    BY <1>1, <2>1, <2>2 DEF PTEs
<1>3. pte[s] = Unmapped <=> pte[s].page = None
  BY DEF PteInv
<1>4. None \notin Pages
  BY CowAssumption
<1>5. pte[s].cow \/ pte[s].writable => pte[s].page \in Pages
  BY <1>2, <1>3, PteKinds
<1> QED
  BY <1>2, <1>3, <1>4, <1>5 DEF Mapped

\* A step of CPU c leaves the calls of the others alone.
Others(c) ==
  \A d \in CPUs \ {c} :
    /\ pc'[d] = pc[d] /\ at'[d] = at[d] /\ todo'[d] = todo[d]
    /\ page'[d] = page[d] /\ new'[d] = new[d] /\ pin'[d] = pin[d]

\* A CPU whose call and spaces are left alone.
LEMMA LocalsFrame ==
  ASSUME NEW d \in CPUs, Locals(d), TypeOK,
         pc'[d] = pc[d], at'[d] = at[d], todo'[d] = todo[d],
         page'[d] = page[d], new'[d] = new[d], pin'[d] = pin[d],
         \A s \in at[d] : pte'[s] = pte[s]
  PROVE  Locals(d)'
<1>1. MarkLocals(d)'
  <2> SUFFICES ASSUME pc[d] \in MarkSteps
               PROVE  /\ TwoToMark(d)' \/ OneToMark(d)'
                      /\ \A s, t \in at[d] : pte'[s].page = pte'[t].page
                      /\ \A s \in at[d] : pte'[s].page \in Pages
                      /\ pc[d] # "mark" => \A s \in at[d] : pte'[s].page = page[d]
    BY DEF MarkLocals
  <2>1. /\ TwoToMark(d) \/ OneToMark(d)
        /\ \A s, t \in at[d] : pte[s].page = pte[t].page
        /\ \A s \in at[d] : pte[s].page \in Pages
        /\ pc[d] # "mark" => \A s \in at[d] : pte[s].page = page[d]
    BY DEF Locals, MarkLocals
  <2>2. CASE TwoToMark(d)
    <3>1. TwoToMark(d)'
      BY <2>2 DEF TwoToMark
    <3> QED
      BY <3>1, <2>1
  <2>3. CASE OneToMark(d)
    <3>1. OneToMark(d)'
      BY <2>3 DEF OneToMark
    <3> QED
      BY <3>1, <2>1
  <2> QED
    BY <2>1, <2>2, <2>3
<1>2. FaultLocals(d)'
  BY DEF Locals, FaultLocals
<1>3. OtherLocals(d)'
  BY DEF Locals, OtherLocals
<1> QED
  BY <1>1, <1>2, <1>3 DEF Locals

\* A step of CPU c that touches its own spaces and such as run.
LEMMA StructFrame ==
  ASSUME Structure, NEW c \in CPUs, Others(c), TypeOK', PteInv',
         Locals(c)', GlockInv',
         \A s \in at'[c] : s \in at[c] \/ ~Busy(s),
         \A s \in Spaces : pte'[s] = pte[s] \/ s \in at[c] \/ ~Busy(s)
  PROVE  Structure'
<1>1. HandsApart'
  <2> SUFFICES ASSUME NEW a \in CPUs, NEW d \in CPUs, a # d,
                      NEW s \in at'[a], s \in at'[d]
               PROVE  FALSE
    BY DEF HandsApart
  <2>1. HandsApart
    BY DEF Structure
  <2> QED
    BY <2>1 DEF HandsApart, Others, Busy
<1>2. ASSUME NEW d \in CPUs PROVE Locals(d)'
  <2>1. CASE d = c
    BY <2>1
  <2>2. CASE d # c
    <3>1. /\ pc'[d] = pc[d] /\ at'[d] = at[d] /\ todo'[d] = todo[d]
          /\ page'[d] = page[d] /\ new'[d] = new[d] /\ pin'[d] = pin[d]
      BY <2>2 DEF Others
    <3>2. at[d] \subseteq Spaces /\ at[c] \cap at[d] = {}
      BY <2>2 DEF Structure, TypeOK, HandsApart
    <3>3. \A s \in at[d] : pte'[s] = pte[s]
      BY <3>2 DEF Busy
    <3>4. Locals(d) /\ TypeOK
      BY DEF Structure
    <3> QED
      BY <3>1, <3>3, <3>4, LocalsFrame
  <2> QED
    BY <2>1, <2>2
<1> QED
  BY <1>1, <1>2 DEF Structure

-----------------------------------------------------------------------------
(* The types *)

Steps ==
  {"idle", "inc", "dec"} \cup MarkSteps \cup FaultSteps \cup DeathSteps

\* The types of what belongs to the calls.
CallTypes ==
  /\ pc \in [CPUs -> Steps]
  /\ at \in [CPUs -> SUBSET Spaces]
  /\ todo \in [CPUs -> Seq(Spaces)]
  /\ page \in [CPUs -> Pages \cup {None}]
  /\ new \in [CPUs -> Pages \cup {None}]

\* The rest.
SharedTypes ==
  /\ pte \in [Spaces -> PTEs]
  /\ entry \in [Pages -> 0..(CountMod - 1) \cup {None}]
  /\ glock \in CPUs \cup {None}
  /\ content \in [Pages -> Contents]
  /\ free \subseteq Pages
  /\ pin \in [CPUs -> Pages \cup {None}]
  /\ view \in [Spaces -> Contents \cup {None}]

\* The two together.
LEMMA TypesSplit == TypeOK <=> CallTypes /\ SharedTypes
BY DEF TypeOK, CallTypes, SharedTypes, Steps, MarkSteps, FaultSteps, CopySteps,
       DeathSteps

\* After a step too.
LEMMA TypesNext == TypeOK' <=> CallTypes' /\ SharedTypes'
BY TypesSplit, PTL

\* Where a step leaves the call of CPU c; the others are left alone.
After(c, l, A, t, p, q) ==
  /\ pc'[c] = l /\ at'[c] = A /\ todo'[c] = t /\ page'[c] = p /\ new'[c] = q
  /\ \A d \in CPUs \ {c} :
       /\ pc'[d] = pc[d] /\ at'[d] = at[d] /\ todo'[d] = todo[d]
       /\ page'[d] = page[d] /\ new'[d] = new[d]

\* A call that returns.
LEMMA ReturnFacts ==
  ASSUME CallTypes, NEW c \in CPUs, Return(c)
  PROVE  CallTypes' /\ After(c, "idle", {}, <<>>, None, None)
<1>1. <<>> \in Seq(Spaces) /\ "idle" \in Steps
  BY DEF Steps
<1> QED
  BY <1>1 DEF CallTypes, Return, Goto, After

\* A call that goes on, with its locals as they were.
LEMMA GotoFacts ==
  ASSUME CallTypes, NEW c \in CPUs, NEW l \in Steps, Goto(c, l),
         UNCHANGED callVars
  PROVE  CallTypes' /\ After(c, l, at[c], todo[c], page[c], new[c])
BY DEF CallTypes, Goto, callVars, After

\* Where it cannot disturb the others.
LEMMA AfterOthers ==
  ASSUME NEW c, NEW l, NEW A, NEW t, NEW p, NEW q, After(c, l, A, t, p, q),
         \A d \in CPUs \ {c} : pin'[d] = pin[d]
  PROVE  Others(c)
BY DEF After, Others

\* A count stays in its range.
LEMMA CountTyped ==
  ASSUME SharedTypes, CallTypes, NEW c \in CPUs, page[c] \in Pages,
         NEW d \in {1, -1}, AddCount(c, d)
  PROVE  /\ entry' \in [Pages -> 0..(CountMod - 1) \cup {None}]
         /\ \A q \in Pages \ {page[c]} : entry'[q] = entry[q]
         /\ entry'[page[c]] = IF entry[page[c]] = None THEN None
                              ELSE (entry[page[c]] + d) % CountMod
<1> DEFINE p == page[c]
           x == IF entry[p] = None THEN entry[p] ELSE (entry[p] + d) % CountMod
<1>1. CountMod \in Nat \ {0}
  BY CowAssumption
<1>2. entry[p] = None \/ entry[p] \in 0..(CountMod - 1)
  BY DEF SharedTypes
<1>3. entry[p] # None => (entry[p] + d) % CountMod \in 0..(CountMod - 1)
  <2> SUFFICES ASSUME entry[p] # None
               PROVE  (entry[p] + d) % CountMod \in 0..(CountMod - 1)
    OBVIOUS
  <2> DEFINE y == entry[p] + d
  <2>1. y \in Int
    BY <1>1, <1>2
  <2> HIDE DEF y
  <2>2. y % CountMod \in 0..(CountMod - 1)
    BY <2>1, <1>1, DivMod
  <2> QED
    BY <2>2 DEF y
<1>4. x \in 0..(CountMod - 1) \cup {None}
  BY <1>3
<1>5. entry' = [entry EXCEPT ![p] = x]
  BY DEF AddCount
<1> HIDE DEF x
<1>6. entry' \in [Pages -> 0..(CountMod - 1) \cup {None}] /\ entry'[p] = x
      /\ \A q \in Pages \ {p} : entry'[q] = entry[q]
  BY <1>4, <1>5 DEF SharedTypes
<1> QED
  BY <1>6 DEF x

-----------------------------------------------------------------------------
(* What the steps do, and that they keep the structure *)

\* cow_init.
LEMMA InitStructure ==
  ASSUME Init
  PROVE  Structure
<1>1. TypeOK
  <2>1. CallTypes
    <3>1. <<>> \in Seq(Spaces) /\ "idle" \in Steps
      BY DEF Steps
    <3> QED
      BY <3>1 DEF Init, CallTypes
  <2>2. SharedTypes
    BY PteKinds DEF Init, SharedTypes
  <2> QED
    BY <2>1, <2>2, TypesSplit
<1>2. PteInv
  BY PteKinds DEF Init, PteInv
<1>3. HandsApart /\ GlockInv
  BY CowAssumption DEF Init, HandsApart, GlockInv
<1>4. ASSUME NEW c \in CPUs PROVE Locals(c)
  <2>1. pc[c] = "idle" /\ at[c] = {} /\ new[c] = None
    BY DEF Init
  <2> QED
    BY <2>1 DEF Locals, MarkLocals, FaultLocals, OtherLocals, MarkSteps,
                FaultSteps, CopySteps, DeathSteps
<1> QED
  BY <1>1, <1>2, <1>3, <1>4 DEF Structure

\* A new entry in the page table of one space.
LEMMA PteSet ==
  ASSUME TypeOK, PteInv, NEW s \in Spaces, NEW x \in PTEs,
         pte' = [pte EXCEPT ![s] = x], x.cow => ~x.writable,
         x.page = None <=> x = Unmapped
  PROVE  /\ pte' \in [Spaces -> PTEs] /\ PteInv' /\ pte'[s] = x
         /\ \A t \in Spaces \ {s} : pte'[t] = pte[t]
<1>1. /\ pte' \in [Spaces -> PTEs] /\ pte'[s] = x
      /\ \A t \in Spaces \ {s} : pte'[t] = pte[t]
  BY DEF TypeOK
<1>2. PteInv'
  BY <1>1 DEF PteInv
<1> QED
  BY <1>1, <1>2

\* A step of a space that runs: no call is touched.
LEMMA SpaceFrame ==
  ASSUME Structure, UNCHANGED <<pc, callVars, pin, glock>>, TypeOK', PteInv',
         NEW s \in Spaces, ~Busy(s), \A t \in Spaces \ {s} : pte'[t] = pte[t]
  PROVE  Structure'
<1>1. UNCHANGED <<pc, at, todo, page, new, pin, glock>>
  BY DEF callVars
<1>2. HandsApart' /\ GlockInv'
  BY <1>1 DEF Structure, HandsApart, GlockInv
<1>3. ASSUME NEW d \in CPUs PROVE Locals(d)'
  <2>1. /\ pc'[d] = pc[d] /\ at'[d] = at[d] /\ todo'[d] = todo[d]
        /\ page'[d] = page[d] /\ new'[d] = new[d] /\ pin'[d] = pin[d]
    BY <1>1
  <2>2. at[d] \subseteq Spaces \ {s}
    BY DEF Structure, TypeOK, Busy
  <2>3. \A t \in at[d] : pte'[t] = pte[t]
    BY <2>2
  <2>4. Locals(d) /\ TypeOK
    BY DEF Structure
  <2> QED
    BY <2>1, <2>3, <2>4, LocalsFrame
<1> QED
  BY <1>2, <1>3 DEF Structure

\* A fresh page is mapped.
LEMMA MapNewFacts ==
  ASSUME Structure, NEW s \in Spaces, MapNew(s)
  PROVE  /\ Structure' /\ ~Busy(s) /\ pte[s].page = None
         /\ UNCHANGED <<entry, glock, content, pin, pc, at, todo, page, new>>
         /\ \A t \in Spaces \ {s} : pte'[t] = pte[t] /\ view'[t] = view[t]
         /\ \E p \in free : /\ free' = free \ {p} /\ p \in Pages
                            /\ pte'[s].page = p /\ ~pte'[s].cow
                            /\ view'[s] = content[p]
<1> USE DEF Structure
<1>1. ~Busy(s) /\ pte[s] = Unmapped
      /\ UNCHANGED <<entry, glock, content, pin, pc, callVars>>
  BY DEF MapNew
<1>2. UNCHANGED <<pc, at, todo, page, new>>
  BY <1>1 DEF callVars
<1>3. PICK p \in free : /\ pte' = [pte EXCEPT ![s] = PTE(p, TRUE, FALSE)]
                        /\ view' = [view EXCEPT ![s] = content[p]]
                        /\ free' = free \ {p}
  BY DEF MapNew
<1>4. p \in Pages /\ None \notin Pages
  BY CowAssumption DEF TypeOK
<1> DEFINE x == PTE(p, TRUE, FALSE)
<1>5. x \in PTEs /\ x.page = p /\ x.cow = FALSE /\ x # Unmapped
  BY <1>4, PteKinds
<1>6. pte' = [pte EXCEPT ![s] = x]
  BY <1>3
<1> HIDE DEF x
<1>7. /\ pte' \in [Spaces -> PTEs] /\ PteInv' /\ pte'[s] = x
      /\ \A t \in Spaces \ {s} : pte'[t] = pte[t]
  BY <1>4, <1>5, <1>6, PteSet
<1>8. view' \in [Spaces -> Contents \cup {None}] /\ view'[s] = content[p]
      /\ \A t \in Spaces \ {s} : view'[t] = view[t]
  BY <1>3, <1>4 DEF TypeOK
<1>9. TypeOK'
  BY <1>1, <1>2, <1>3, <1>7, <1>8 DEF TypeOK
<1>10. Structure'
  BY <1>1, <1>7, <1>9, SpaceFrame
<1>11. pte[s].page = None
  BY <1>1, PteKinds
<1> QED
  BY <1>1, <1>2, <1>3, <1>4, <1>5, <1>7, <1>8, <1>10, <1>11

\* A space that runs is in no call's hands.
LEMMA RunsAlone ==
  ASSUME SpacesApart, Structure, NEW s, Runs(s)
  PROVE  ~Busy(s)
<1>1. CASE OneThread
  BY <1>1 DEF Runs
<1>2. CASE OneCPU /\ \E c \in CPUs : pc[c] = "idle"
  <2>1. \A c \in CPUs : pc[c] = "idle"
    BY <1>2 DEF OneCPU
  <2>2. \A c \in CPUs : at[c] = {}
    BY <2>1 DEF Structure, Locals, OtherLocals
  <2> QED
    BY <2>2 DEF Busy
<1> QED
  BY <1>1, <1>2 DEF Runs, SpacesApart

\* A store.
LEMMA WriteFacts ==
  ASSUME SpacesApart, Structure, NEW s \in Spaces, Write(s)
  PROVE  /\ Structure' /\ ~Busy(s) /\ pte[s].writable /\ pte[s].page \in Pages
         /\ UNCHANGED <<pte, entry, glock, free, pin, pc, at, todo, page, new>>
         /\ \A t \in Spaces \ {s} : view'[t] = view[t]
         /\ \A p \in Pages \ {pte[s].page} : content'[p] = content[p]
         /\ content'[pte[s].page] = view'[s]
<1> USE DEF Structure
<1>0. Runs(s)
  BY DEF Write
<1>1. /\ ~Busy(s) /\ pte[s].writable
      /\ UNCHANGED <<pte, entry, glock, free, pin, pc, callVars>>
  BY <1>0, RunsAlone DEF Write
<1>2. UNCHANGED <<pc, at, todo, page, new>>
  BY <1>1 DEF callVars
<1>3. PICK v \in Contents : /\ content' = [content EXCEPT ![pte[s].page] = v]
                            /\ view' = [view EXCEPT ![s] = v]
  BY DEF Write
<1>4. pte[s].page \in Pages
  BY <1>1, PteFields
<1>5. /\ content' \in [Pages -> Contents] /\ content'[pte[s].page] = v
      /\ \A p \in Pages \ {pte[s].page} : content'[p] = content[p]
      /\ view' \in [Spaces -> Contents \cup {None}] /\ view'[s] = v
      /\ \A t \in Spaces \ {s} : view'[t] = view[t]
  BY <1>3, <1>4 DEF TypeOK
<1>6. TypeOK' /\ PteInv'
  BY <1>1, <1>2, <1>5 DEF TypeOK, PteInv
<1>7. Structure'
  BY <1>1, <1>6, SpaceFrame
<1> QED
  BY <1>1, <1>2, <1>4, <1>5, <1>7

\* A page is mapped a second time.
LEMMA ShareFacts ==
  ASSUME Structure, NEW c \in CPUs, NEW s \in Spaces, NEW t \in Spaces,
         Share(c, s, t)
  PROVE  /\ Structure' /\ Others(c) /\ s # t /\ ~Busy(s) /\ ~Busy(t)
         /\ pc[c] = "idle" /\ at[c] = {} /\ pc'[c] = "mark" /\ at'[c] = {s, t}
         /\ todo'[c] = IF pte[s].cow THEN <<t>> ELSE <<s, t>>
         /\ UNCHANGED <<entry, glock, content, free, pin, page, new>>
         /\ pte[t].page = None /\ pte[s].page \in Pages
         /\ pte'[t].page = pte[s].page /\ ~pte'[t].cow
         /\ view'[t] = view[s]
         /\ \A u \in Spaces \ {t} : pte'[u] = pte[u] /\ view'[u] = view[u]
<1> USE DEF Structure
<1>1. /\ ~Busy(s) /\ ~Busy(t) /\ pte[s] # Unmapped /\ pte[t] = Unmapped
      /\ UNCHANGED <<entry, glock, content, free, pin, page, new>>
      /\ pc[c] = "idle" /\ s # t
  BY DEF Share
<1>2. pte[s].page \in Pages /\ pte[t].page = None /\ None \notin Pages
  BY <1>1, PteFields, CowAssumption
<1> DEFINE x == PTE(pte[s].page, TRUE, FALSE)
<1>3. x \in PTEs /\ x.page = pte[s].page /\ x.cow = FALSE /\ x # Unmapped
  BY <1>2, PteKinds
<1>4. pte' = [pte EXCEPT ![t] = x]
  BY DEF Share
<1> HIDE DEF x
<1>5. /\ pte' \in [Spaces -> PTEs] /\ PteInv' /\ pte'[t] = x
      /\ \A u \in Spaces \ {t} : pte'[u] = pte[u]
  BY <1>2, <1>3, <1>4, PteSet
<1>6. /\ view' \in [Spaces -> Contents \cup {None}] /\ view'[t] = view[s]
      /\ \A u \in Spaces \ {t} : view'[u] = view[u]
  BY DEF Share, TypeOK
<1> DEFINE l == IF pte[s].cow THEN <<t>> ELSE <<s, t>>
<1>7. l \in Seq(Spaces) /\ "mark" \in Steps
  BY DEF Steps, MarkSteps
<1>8. Goto(c, "mark") /\ at' = [at EXCEPT ![c] = {s, t}]
      /\ todo' = [todo EXCEPT ![c] = l]
  BY DEF Share
<1>9. CallTypes /\ SharedTypes
  BY TypesSplit
<1> HIDE DEF l
<1>10. CallTypes' /\ After(c, "mark", {s, t}, l, page[c], new[c])
  BY <1>1, <1>7, <1>8, <1>9 DEF CallTypes, Goto, After
<1>11. /\ pc'[c] = "mark" /\ at'[c] = {s, t} /\ todo'[c] = l
       /\ page'[c] = page[c] /\ new'[c] = new[c]
  BY <1>10 DEF After
<1>12. SharedTypes'
  BY <1>1, <1>5, <1>6, <1>9 DEF SharedTypes
<1>13. TypeOK'
  BY <1>10, <1>12, TypesNext
<1>14. Others(c)
  BY <1>1, <1>10, AfterOthers
<1>15. at[c] = {} /\ new[c] = None
  BY <1>1 DEF Locals, OtherLocals
<1>16. Locals(c)'
  <2>1. TwoToMark(c)' \/ OneToMark(c)'
    <3>1. CASE pte[s].cow
      <4>1. todo'[c] = <<t>>
        BY <3>1, <1>11 DEF l
      <4>2. todo'[c][1] = t /\ Len(todo'[c]) = 1
        BY <4>1
      <4>3. pte'[s].cow
        BY <3>1, <1>1, <1>5
      <4> QED
        BY <4>2, <4>3, <1>1, <1>3, <1>5, <1>11 DEF OneToMark
    <3>2. CASE ~pte[s].cow
      <4>1. todo'[c] = <<s, t>>
        BY <3>2, <1>11 DEF l
      <4>2. todo'[c][1] = s /\ todo'[c][2] = t /\ Len(todo'[c]) = 2
        BY <4>1
      <4>3. ~pte'[s].cow
        BY <3>2, <1>1, <1>5
      <4> QED
        BY <4>2, <4>3, <1>1, <1>3, <1>5, <1>11 DEF TwoToMark
    <3> QED
      BY <3>1, <3>2
  <2>2. \A u \in at'[c] : pte'[u].page = pte[s].page
    BY <1>1, <1>3, <1>5, <1>11
  <2>3. MarkLocals(c)'
    BY <2>1, <2>2, <1>2, <1>11 DEF MarkLocals
  <2>4. FaultLocals(c)' /\ OtherLocals(c)'
    BY <1>11, <1>15 DEF FaultLocals, OtherLocals, FaultSteps, CopySteps, DeathSteps
  <2> QED
    BY <2>3, <2>4 DEF Locals
<1>17. GlockInv'
  BY <1>1, <1>10 DEF GlockInv, After
<1>18. Structure'
  <2>1. \A u \in at'[c] : u \in at[c] \/ ~Busy(u)
    BY <1>1, <1>11
  <2>2. \A u \in Spaces : pte'[u] = pte[u] \/ u \in at[c] \/ ~Busy(u)
    BY <1>1, <1>5
  <2> QED
    BY <1>5, <1>13, <1>14, <1>16, <1>17, <2>1, <2>2, StructFrame
<1> QED
  BY <1>1, <1>2, <1>3, <1>5, <1>6, <1>11, <1>14, <1>15, <1>18 DEF l

\* A CPU that has returned, that gives up a page, that handles a fault.
LEMMA IdleLocals ==
  ASSUME NEW c \in CPUs, pc'[c] = "idle", at'[c] = {}, new'[c] = None
  PROVE  Locals(c)'
BY DEF Locals, MarkLocals, FaultLocals, OtherLocals, MarkSteps, FaultSteps,
       CopySteps, DeathSteps

\* A CPU that gives up a page.
LEMMA DecLocals ==
  ASSUME NEW c \in CPUs, pc'[c] \in {"dec"} \cup DeathSteps, at'[c] = {},
         page'[c] \in Pages, new'[c] = None
  PROVE  Locals(c)'
BY DEF Locals, MarkLocals, FaultLocals, OtherLocals, MarkSteps, FaultSteps,
       CopySteps, DeathSteps

\* A CPU that works for a marked space.
LEMMA ForSpaceLocals ==
  ASSUME NEW c \in CPUs, pc'[c] \in FaultSteps \cup {"inc"}, NEW s \in Spaces,
         at'[c] = {s}, pte'[s].cow, pte'[s].page = page'[c], page'[c] \in Pages,
         pc'[c] = "inc" => pin'[c] = None,
         new'[c] # None <=> pc'[c] \in {"fault_copy", "fault_pte"}
  PROVE  Locals(c)'
<1>1. MarkLocals(c)'
  BY DEF MarkLocals, MarkSteps, FaultSteps, CopySteps
<1>2. FaultLocals(c)'
  BY DEF FaultLocals
<1>3. OtherLocals(c)'
  BY DEF OtherLocals, FaultSteps, CopySteps, DeathSteps
<1> QED
  BY <1>1, <1>2, <1>3 DEF Locals

\* The lock is where it was.
LEMMA GlockFrame ==
  ASSUME GlockInv, NEW c \in CPUs, Others(c), UNCHANGED glock,
         pc[c] # "dec_unlink", pc'[c] # "dec_unlink"
  PROVE  GlockInv'
BY DEF GlockInv, Others

\* A mapping is dropped.
LEMMA UnmapFacts ==
  ASSUME Structure, NEW c \in CPUs, NEW s \in Spaces, Unmap(c, s)
  PROVE  /\ Structure' /\ Others(c) /\ ~Busy(s) /\ pc[c] = "idle"
         /\ pte[s].page \in Pages /\ pte'[s].page = None /\ ~pte'[s].cow
         /\ \A t \in Spaces \ {s} : pte'[t] = pte[t] /\ view'[t] = view[t]
         /\ at'[c] = {} /\ at[c] = {} /\ new'[c] = None
         /\ UNCHANGED <<entry, glock, content, pin, new>>
         /\ \/ pte[s].cow /\ pc'[c] = "dec" /\ page'[c] = pte[s].page
               /\ UNCHANGED free
            \/ ~pte[s].cow /\ pc'[c] = "idle" /\ free' = free \cup {pte[s].page}
<1> USE DEF Structure
<1>1. /\ ~Busy(s) /\ pte[s] # Unmapped /\ pc[c] = "idle"
      /\ UNCHANGED <<entry, glock, content, pin, at, todo, new>>
      /\ pte' = [pte EXCEPT ![s] = Unmapped]
      /\ view' = [view EXCEPT ![s] = None]
  BY DEF Unmap
<1>2. pte[s].page \in Pages /\ None \notin Pages /\ at[c] = {} /\ new[c] = None
  BY <1>1, PteFields, CowAssumption DEF Locals, OtherLocals
<1>3. /\ pte' \in [Spaces -> PTEs] /\ PteInv' /\ pte'[s] = Unmapped
      /\ \A t \in Spaces \ {s} : pte'[t] = pte[t]
  BY <1>1, PteKinds, PteSet
<1>4. /\ view' \in [Spaces -> Contents \cup {None}]
      /\ \A t \in Spaces \ {s} : view'[t] = view[t]
  BY <1>1 DEF TypeOK
<1>5. CallTypes /\ SharedTypes
  BY TypesSplit
<1>6. \/ /\ pte[s].cow /\ free' = free /\ CallTypes'
         /\ After(c, "dec", at[c], todo[c], pte[s].page, new[c])
      \/ /\ ~pte[s].cow /\ free' = free \cup {pte[s].page} /\ CallTypes'
         /\ After(c, "idle", at[c], todo[c], page[c], new[c])
  <2>1. "dec" \in Steps
    BY DEF Steps
  <2>2. CASE pte[s].cow
    BY <2>1, <2>2, <1>1, <1>2, <1>5, ZenonT(30) DEF Unmap, CallTypes, Goto, After
  <2>3. CASE ~pte[s].cow
    BY <2>3, <1>1, <1>5 DEF Unmap, CallTypes, After
  <2> QED
    BY <2>2, <2>3
<1>7. SharedTypes'
  BY <1>1, <1>2, <1>3, <1>4, <1>5, <1>6 DEF SharedTypes
<1>8. TypeOK'
  BY <1>6, <1>7, TypesNext
<1>9. Others(c)
  BY <1>1, <1>6 DEF Others, After
<1>10. at'[c] = {} /\ new'[c] = None /\ pc'[c] \in {"idle", "dec"}
       /\ (pc'[c] = "dec" => page'[c] = pte[s].page)
  BY <1>2, <1>6 DEF After
<1>11. Locals(c)'
  BY <1>2, <1>10, IdleLocals, DecLocals
<1>12. GlockInv'
  BY <1>1, <1>9, <1>10, GlockFrame
<1>13. Structure'
  <2>1. \A u \in at'[c] : u \in at[c] \/ ~Busy(u)
    BY <1>10
  <2>2. \A u \in Spaces : pte'[u] = pte[u] \/ u \in at[c] \/ ~Busy(u)
    BY <1>1, <1>3
  <2> QED
    BY <1>3, <1>8, <1>9, <1>11, <1>12, <2>1, <2>2, StructFrame
<1>14. pte'[s].page = None /\ ~pte'[s].cow
  BY <1>3, PteKinds
<1>15. \/ pte[s].cow /\ pc'[c] = "dec" /\ page'[c] = pte[s].page
          /\ UNCHANGED free
       \/ ~pte[s].cow /\ pc'[c] = "idle" /\ free' = free \cup {pte[s].page}
  BY <1>6 DEF After
<1> QED
  BY <1>1, <1>2, <1>3, <1>4, <1>9, <1>10, <1>13, <1>14, <1>15

\* What a CPU that marks has to do next and last.
LEMMA MarkShape ==
  ASSUME Structure, NEW c \in CPUs, pc[c] \in MarkSteps
  PROVE  /\ Head(todo[c]) = todo[c][1] /\ todo[c][1] \in at[c]
         /\ Len(todo[c]) \in {1, 2}
         /\ todo[c][Len(todo[c])] \in at[c] /\ ~pte[todo[c][Len(todo[c])]].cow
         /\ ~pte[todo[c][1]].cow
         /\ Len(todo[c]) = 2 =>
              /\ todo[c][1] # todo[c][2] /\ at[c] = {todo[c][1], todo[c][2]}
              /\ ~pte[todo[c][2]].cow
         /\ Len(todo[c]) = 1 =>
              \E s \in Spaces : s # todo[c][1] /\ at[c] = {s, todo[c][1]} /\ pte[s].cow
         /\ at[c] \subseteq Spaces /\ todo[c] \in Seq(Spaces)
         /\ \A s, t \in at[c] : pte[s].page = pte[t].page
         /\ \A s \in at[c] : pte[s].page \in Pages
         /\ pc[c] # "mark" => \A s \in at[c] : pte[s].page = page[c]
<1>1. /\ TwoToMark(c) \/ OneToMark(c)
      /\ \A s, t \in at[c] : pte[s].page = pte[t].page
      /\ \A s \in at[c] : pte[s].page \in Pages
      /\ pc[c] # "mark" => \A s \in at[c] : pte[s].page = page[c]
  BY DEF Structure, Locals, MarkLocals
<1>2. at[c] \subseteq Spaces /\ todo[c] \in Seq(Spaces)
  BY DEF Structure, TypeOK
<1>3. CASE TwoToMark(c)
  <2>1. Head(todo[c]) = todo[c][1]
    BY <1>2, <1>3 DEF TwoToMark
  <2> QED
    BY <2>1, <1>1, <1>2, <1>3 DEF TwoToMark
<1>4. CASE OneToMark(c)
  <2>1. Head(todo[c]) = todo[c][1]
    BY <1>2, <1>4 DEF OneToMark
  <2> QED
    BY <2>1, <1>1, <1>2, <1>4 DEF OneToMark
<1> QED
  BY <1>1, <1>3, <1>4

\* cow_mark_page finds or makes the entry, or fails and its caller undoes the
\* sharing.
LEMMA MarkRefFacts ==
  ASSUME Structure, NEW c \in CPUs, MarkRef(c), NEW p, NEW t,
         p = pte[Head(todo[c])].page, t = todo[c][Len(todo[c])]
  PROVE  /\ Structure' /\ Others(c) /\ p \in Pages /\ pc[c] = "mark"
         /\ UNCHANGED <<glock, content, free, pin, new>>
         /\ \A u \in Spaces \ {t} : pte'[u] = pte[u] /\ view'[u] = view[u]
         /\ \/ /\ pc'[c] = "mark_count" /\ at'[c] = at[c]
               /\ todo'[c] = todo[c] /\ page'[c] = p
               /\ UNCHANGED <<pte, view>> /\ glock = None
               /\ entry'[p] = (IF entry[p] = None THEN 0 ELSE entry[p])
               /\ \A q \in Pages \ {p} : entry'[q] = entry[q]
            \/ /\ pc'[c] = "idle" /\ at'[c] = {} /\ UNCHANGED entry
               /\ pte'[t].page = None /\ ~pte'[t].cow
<1> USE DEF Structure
<1>1. pc[c] = "mark" /\ UNCHANGED <<glock, content, free, pin>>
  BY DEF MarkRef
<1>2. /\ Head(todo[c]) = todo[c][1] /\ todo[c][1] \in at[c] /\ t \in at[c]
      /\ \A u, v \in at[c] : pte[u].page = pte[v].page
      /\ \A u \in at[c] : pte[u].page \in Pages
      /\ at[c] \subseteq Spaces
  BY <1>1, MarkShape DEF MarkSteps
<1>3. p \in Pages /\ t \in Spaces /\ \A u \in at[c] : pte[u].page = p
  BY <1>2
<1>4. CallTypes /\ SharedTypes /\ new[c] = None
  BY <1>1, TypesSplit, SMTT(20) DEF Locals, OtherLocals
<1>5. CASE /\ cow_get_ref(p) /\ page' = [page EXCEPT ![c] = p]
           /\ Goto(c, "mark_count") /\ UNCHANGED <<pte, view, at, todo, new>>
  <2>1. /\ glock = None
        /\ entry' = [entry EXCEPT ![p] = IF @ = None THEN 0 ELSE @]
    BY <1>5 DEF cow_get_ref
  <2>2. 0 \in 0..(CountMod - 1)
    BY CowAssumption
  <2>3. /\ entry' \in [Pages -> 0..(CountMod - 1) \cup {None}]
        /\ entry'[p] = (IF entry[p] = None THEN 0 ELSE entry[p])
        /\ \A q \in Pages \ {p} : entry'[q] = entry[q]
    BY <2>1, <2>2, <1>3, <1>4 DEF SharedTypes
  <2>4. "mark_count" \in Steps
    BY DEF Steps, MarkSteps
  <2>5. CallTypes' /\ After(c, "mark_count", at[c], todo[c], p, new[c])
    BY <2>4, <1>3, <1>4, <1>5 DEF CallTypes, Goto, After
  <2>6. SharedTypes'
    BY <2>3, <1>1, <1>4, <1>5 DEF SharedTypes
  <2>7. TypeOK'
    BY <2>5, <2>6, TypesNext
  <2>8. Others(c)
    BY <1>1, <2>5, AfterOthers
  <2>9. /\ pc'[c] = "mark_count" /\ at'[c] = at[c] /\ todo'[c] = todo[c]
        /\ page'[c] = p /\ new'[c] = None
    BY <2>5, <1>4 DEF After
  <2>10. PteInv' /\ GlockInv'
    BY <1>1, <1>5, <2>8, <2>9, GlockFrame DEF PteInv
  <2>11. Locals(c)'
    <3>1. TwoToMark(c) \/ OneToMark(c)
      BY <1>1 DEF Locals, MarkLocals, MarkSteps
    <3>2. TwoToMark(c)' \/ OneToMark(c)'
      BY <3>1, <2>9, <1>5 DEF TwoToMark, OneToMark
    <3>3. MarkLocals(c)'
      BY <3>2, <2>9, <1>3, <1>5 DEF MarkLocals
    <3>4. FaultLocals(c)' /\ OtherLocals(c)'
      BY <2>9 DEF FaultLocals, OtherLocals, FaultSteps, CopySteps, DeathSteps
    <3> QED
      BY <3>3, <3>4 DEF Locals
  <2>12. Structure'
    <3>1. \A u \in at'[c] : u \in at[c] \/ ~Busy(u)
      BY <2>9
    <3>2. \A u \in Spaces : pte'[u] = pte[u] \/ u \in at[c] \/ ~Busy(u)
      BY <1>5
    <3> QED
      BY <2>7, <2>8, <2>10, <2>11, <3>1, <3>2, StructFrame
  <2> QED
    BY <2>1, <2>3, <2>8, <2>9, <2>12, <1>1, <1>3, <1>5
<1>6. CASE /\ pte' = [pte EXCEPT ![t] = Unmapped]
           /\ view' = [view EXCEPT ![t] = None]
           /\ Return(c) /\ UNCHANGED entry
  <2>1. /\ pte' \in [Spaces -> PTEs] /\ PteInv' /\ pte'[t] = Unmapped
        /\ \A u \in Spaces \ {t} : pte'[u] = pte[u]
    BY <1>3, <1>6, PteKinds, PteSet
  <2>2. /\ view' \in [Spaces -> Contents \cup {None}]
        /\ \A u \in Spaces \ {t} : view'[u] = view[u]
    BY <1>6 DEF TypeOK
  <2>3. CallTypes' /\ After(c, "idle", {}, <<>>, None, None)
    BY <1>4, <1>6, ReturnFacts
  <2>4. SharedTypes'
    BY <2>1, <2>2, <1>1, <1>4, <1>6 DEF SharedTypes
  <2>5. TypeOK'
    BY <2>3, <2>4, TypesNext
  <2>6. Others(c)
    BY <1>1, <2>3, AfterOthers
  <2>7. pc'[c] = "idle" /\ at'[c] = {} /\ new'[c] = None
    BY <2>3 DEF After
  <2>8. GlockInv' /\ Locals(c)'
    BY <1>1, <2>6, <2>7, GlockFrame, IdleLocals
  <2>9. Structure'
    <3>1. \A u \in at'[c] : u \in at[c] \/ ~Busy(u)
      BY <2>7
    <3>2. \A u \in Spaces : pte'[u] = pte[u] \/ u \in at[c] \/ ~Busy(u)
      BY <2>1, <1>2
    <3> QED
      BY <2>1, <2>5, <2>6, <2>8, <3>1, <3>2, StructFrame
  <2>10. UNCHANGED new
    <3>1. \A d \in CPUs : new'[d] = new[d]
      BY <2>3, <1>4 DEF After
    <3> QED
      BY <3>1, <2>3, <1>4 DEF CallTypes
  <2> QED
    BY <2>1, <2>2, <2>6, <2>7, <2>9, <2>10, <1>1, <1>3, <1>6, PteKinds
<1> QED
  BY <1>5, <1>6 DEF MarkRef

\* The mapping is counted.
LEMMA MarkCountFacts ==
  ASSUME Structure, NEW c \in CPUs, MarkCount(c)
  PROVE  /\ Structure' /\ Others(c) /\ page[c] \in Pages
         /\ pc[c] = "mark_count" /\ pc'[c] = "mark_pte"
         /\ at'[c] = at[c] /\ todo'[c] = todo[c] /\ page'[c] = page[c]
         /\ AddCount(c, 1)
         /\ UNCHANGED <<pte, glock, content, free, pin, view, new>>
<1> USE DEF Structure
<1>1. /\ pc[c] = "mark_count" /\ AddCount(c, 1) /\ Goto(c, "mark_pte")
      /\ UNCHANGED <<pte, glock, content, free, pin, callVars, view>>
  BY DEF MarkCount
<1>2. /\ todo[c][1] \in at[c] /\ \A u \in at[c] : pte[u].page = page[c]
      /\ \A u \in at[c] : pte[u].page \in Pages
  BY <1>1, MarkShape DEF MarkSteps
<1>3. page[c] \in Pages
  BY <1>2
<1>4. CallTypes /\ SharedTypes /\ new[c] = None
  BY <1>1, TypesSplit DEF Locals, OtherLocals
<1>5. "mark_pte" \in Steps
  BY DEF Steps, MarkSteps
<1>6. CallTypes' /\ After(c, "mark_pte", at[c], todo[c], page[c], new[c])
  BY <1>1, <1>4, <1>5, GotoFacts
<1>7. entry' \in [Pages -> 0..(CountMod - 1) \cup {None}]
  BY <1>1, <1>3, <1>4, CountTyped
<1>8. SharedTypes'
  BY <1>1, <1>4, <1>7 DEF SharedTypes
<1>9. TypeOK' /\ Others(c)
  BY <1>1, <1>6, <1>8, TypesNext, AfterOthers
<1>10. /\ pc'[c] = "mark_pte" /\ at'[c] = at[c] /\ todo'[c] = todo[c]
       /\ page'[c] = page[c] /\ new'[c] = None
  BY <1>6, <1>4 DEF After
<1>11. PteInv' /\ GlockInv'
  BY <1>1, <1>9, <1>10, GlockFrame DEF PteInv
<1>12. Locals(c)'
  <2>1. TwoToMark(c) \/ OneToMark(c)
    BY <1>1 DEF Locals, MarkLocals, MarkSteps
  <2>2. TwoToMark(c)' \/ OneToMark(c)'
    BY <2>1, <1>1, <1>10 DEF TwoToMark, OneToMark
  <2>3. MarkLocals(c)'
    BY <2>2, <1>1, <1>2, <1>10 DEF MarkLocals
  <2>4. FaultLocals(c)' /\ OtherLocals(c)'
    BY <1>10 DEF FaultLocals, OtherLocals, FaultSteps, CopySteps, DeathSteps
  <2> QED
    BY <2>3, <2>4 DEF Locals
<1>13. Structure'
  <2>1. \A u \in at'[c] : u \in at[c] \/ ~Busy(u)
    BY <1>10
  <2>2. \A u \in Spaces : pte'[u] = pte[u] \/ u \in at[c] \/ ~Busy(u)
    BY <1>1
  <2> QED
    BY <1>9, <1>11, <1>12, <2>1, <2>2, StructFrame
<1> QED
  BY <1>1, <1>3, <1>9, <1>10, <1>13 DEF callVars

\* The mapping is marked; the next one is due or the call returns.
LEMMA MarkPteFacts ==
  ASSUME Structure, NEW c \in CPUs, MarkPte(c), NEW s, s = todo[c][1]
  PROVE  /\ Structure' /\ Others(c) /\ page[c] \in Pages /\ pc[c] = "mark_pte"
         /\ s \in at[c] /\ s \in Spaces
         /\ pte[s].page = page[c] /\ pte'[s].page = page[c] /\ pte'[s].cow
         /\ \A u \in Spaces \ {s} : pte'[u] = pte[u]
         /\ UNCHANGED <<entry, glock, content, free, pin, view, new>>
         /\ \/ Len(todo[c]) = 1 /\ pc'[c] = "idle" /\ at'[c] = {}
            \/ /\ Len(todo[c]) = 2 /\ pc'[c] = "mark" /\ at'[c] = at[c]
               /\ Len(todo'[c]) = 1
<1> USE DEF Structure
<1>1. /\ pc[c] = "mark_pte" /\ UNCHANGED <<entry, glock, content, free, pin, view>>
      /\ pte' = [pte EXCEPT ![Head(todo[c])] = PTE(page[c], FALSE, TRUE)]
  BY DEF MarkPte
<1>2. /\ Head(todo[c]) = s /\ s \in at[c] /\ at[c] \subseteq Spaces
      /\ \A u \in at[c] : pte[u].page = page[c]
      /\ \A u \in at[c] : pte[u].page \in Pages
      /\ Len(todo[c]) \in {1, 2} /\ todo[c] \in Seq(Spaces)
      /\ Len(todo[c]) = 2 =>
              /\ todo[c][1] # todo[c][2] /\ at[c] = {todo[c][1], todo[c][2]}
              /\ ~pte[todo[c][2]].cow
  BY <1>1, MarkShape DEF MarkSteps
<1>3. page[c] \in Pages /\ s \in Spaces /\ None \notin Pages
  BY <1>2, CowAssumption
<1>4. CallTypes /\ SharedTypes /\ new[c] = None
  BY <1>1, TypesSplit DEF Locals, OtherLocals
<1> DEFINE x == PTE(page[c], FALSE, TRUE)
<1>5. x \in PTEs /\ x.page = page[c] /\ x.cow = TRUE /\ x.writable = FALSE
      /\ x # Unmapped
  BY <1>3, PteKinds
<1>6. pte' = [pte EXCEPT ![s] = x]
  BY <1>1, <1>2
<1> HIDE DEF x
<1>7. /\ pte' \in [Spaces -> PTEs] /\ PteInv' /\ pte'[s] = x
      /\ \A u \in Spaces \ {s} : pte'[u] = pte[u]
  BY <1>3, <1>5, <1>6, PteSet
<1>8. SharedTypes'
  BY <1>1, <1>4, <1>7 DEF SharedTypes
<1>9. ASSUME CallTypes', Others(c), Locals(c)', at'[c] \subseteq at[c],
             pc'[c] # "dec_unlink"
      PROVE  Structure'
  <2>1. TypeOK' /\ GlockInv'
    BY <1>1, <1>8, <1>9, TypesNext, GlockFrame
  <2>2. \A u \in at'[c] : u \in at[c] \/ ~Busy(u)
    BY <1>9
  <2>3. \A u \in Spaces : pte'[u] = pte[u] \/ u \in at[c] \/ ~Busy(u)
    BY <1>2, <1>7
  <2> QED
    BY <1>7, <1>9, <2>1, <2>2, <2>3, StructFrame
<1>10. CASE Len(todo[c]) = 1
  <2>1. CallTypes' /\ After(c, "idle", {}, <<>>, None, None)
    BY <1>4, <1>10, ReturnFacts DEF MarkPte
  <2>2. Others(c)
    BY <1>1, <2>1, AfterOthers
  <2>3. pc'[c] = "idle" /\ at'[c] = {} /\ new'[c] = None
    BY <2>1 DEF After
  <2>4. Structure'
    BY <2>1, <2>2, <2>3, <1>9, IdleLocals
  <2>5. UNCHANGED new
    <3>1. \A d \in CPUs : new'[d] = new[d]
      BY <2>1, <1>4 DEF After
    <3> QED
      BY <3>1, <2>1, <1>4 DEF CallTypes
  <2> QED
    BY <2>2, <2>3, <2>4, <2>5, <1>1, <1>2, <1>3, <1>5, <1>7, <1>10
<1>11. CASE Len(todo[c]) = 2
  <2>1. /\ todo' = [todo EXCEPT ![c] = Tail(@)] /\ Goto(c, "mark")
        /\ UNCHANGED <<at, page, new>>
    BY <1>11 DEF MarkPte
  <2> DEFINE l == Tail(todo[c])
  <2>2. l \in Seq(Spaces) /\ Len(l) = 1 /\ l[1] = todo[c][2]
    BY <1>2, <1>11
  <2>3. "mark" \in Steps
    BY DEF Steps, MarkSteps
  <2> HIDE DEF l
  <2>4. todo' = [todo EXCEPT ![c] = l]
    BY <2>1 DEF l
  <2>5. CallTypes' /\ After(c, "mark", at[c], l, page[c], new[c])
    BY <2>1, <2>2, <2>3, <2>4, <1>4 DEF CallTypes, Goto, After
  <2>6. Others(c)
    BY <1>1, <2>5, AfterOthers
  <2>7. /\ pc'[c] = "mark" /\ at'[c] = at[c] /\ todo'[c] = l
        /\ page'[c] = page[c] /\ new'[c] = None
    BY <2>5, <1>4 DEF After
  <2>8. OneToMark(c)'
    <3>1. todo[c][2] \in Spaces /\ ~pte'[todo[c][2]].cow
      BY <1>2, <1>7, <1>11
    <3>2. pte'[s].cow /\ s # todo'[c][1] /\ at'[c] = {s, todo'[c][1]}
      BY <2>2, <2>7, <1>2, <1>5, <1>7, <1>11
    <3> QED
      BY <3>1, <3>2, <2>2, <2>7, <1>3 DEF OneToMark
  <2>9. \A u \in at'[c] : pte'[u].page = page[c]
    BY <2>7, <1>2, <1>5, <1>7
  <2>10. Locals(c)'
    <3>1. MarkLocals(c)'
      BY <2>7, <2>8, <2>9, <1>3 DEF MarkLocals
    <3>2. FaultLocals(c)' /\ OtherLocals(c)'
      BY <2>7 DEF FaultLocals, OtherLocals, FaultSteps, CopySteps, DeathSteps
    <3> QED
      BY <3>1, <3>2 DEF Locals
  <2>11. Structure'
    BY <2>5, <2>6, <2>7, <2>10, <1>9
  <2> QED
    BY <2>1, <2>2, <2>6, <2>7, <2>11, <1>1, <1>2, <1>3, <1>5, <1>7, <1>11
<1> QED
  BY <1>2, <1>10, <1>11

-----------------------------------------------------------------------------
(* Faults *)

\* The space a fault, or an increment, is about.
LEMMA FaultShape ==
  ASSUME Structure, NEW c \in CPUs, pc[c] \in FaultSteps \cup {"inc"}
  PROVE  /\ page[c] \in Pages
         /\ \E s \in Spaces : at[c] = {s} /\ pte[s].cow /\ pte[s].page = page[c]
BY DEF Structure, Locals, FaultLocals

\* A call about a marked space gets the entry of its page.
LEMMA GetRefFacts ==
  ASSUME Structure, NEW c \in CPUs, NEW s \in Spaces, NEW l \in {"fault_count", "inc"},
         pc[c] = "idle", ~Busy(s), pte[s].cow,
         cow_get_ref(pte[s].page) \/ UNCHANGED entry,
         at' = [at EXCEPT ![c] = {s}], page' = [page EXCEPT ![c] = pte[s].page],
         Goto(c, l), UNCHANGED <<pte, glock, content, free, pin, todo, new, view>>,
         l = "inc" => pin[c] = None
  PROVE  /\ Structure' /\ Others(c) /\ at[c] = {} /\ pte[s].page \in Pages
         /\ pc'[c] = l /\ at'[c] = {s} /\ page'[c] = pte[s].page
         /\ \/ entry'[pte[s].page] = entry[pte[s].page]
            \/ entry[pte[s].page] = None /\ entry'[pte[s].page] = 0
         /\ \A q \in Pages \ {pte[s].page} : entry'[q] = entry[q]
<1> USE DEF Structure
<1> DEFINE p == pte[s].page
<1>1. p \in Pages
  BY PteFields
<1>2. CallTypes /\ SharedTypes /\ new[c] = None /\ at[c] = {}
  BY TypesSplit DEF Locals, OtherLocals
<1>3. l \in Steps
  BY DEF Steps, FaultSteps
<1>4. page' = [page EXCEPT ![c] = p]
      /\ entry' \in {entry, [entry EXCEPT ![p] = IF @ = None THEN 0 ELSE @]}
  BY DEF cow_get_ref
<1> HIDE DEF p
<1>5. CallTypes' /\ After(c, l, {s}, todo[c], p, new[c])
  BY <1>1, <1>2, <1>3, <1>4 DEF CallTypes, Goto, After
<1>6. 0 \in 0..(CountMod - 1)
  BY CowAssumption
<1>7. /\ entry' \in [Pages -> 0..(CountMod - 1) \cup {None}]
      /\ entry'[p] = entry[p] \/ (entry[p] = None /\ entry'[p] = 0)
      /\ \A q \in Pages \ {p} : entry'[q] = entry[q]
  BY <1>1, <1>2, <1>4, <1>6 DEF SharedTypes
<1>8. SharedTypes'
  BY <1>2, <1>7 DEF SharedTypes
<1>9. TypeOK' /\ Others(c)
  BY <1>5, <1>8, TypesNext, AfterOthers
<1>10. pc'[c] = l /\ at'[c] = {s} /\ page'[c] = p /\ new'[c] = None
  BY <1>2, <1>5 DEF After
<1>11. PteInv' /\ GlockInv'
  BY <1>9, <1>10, GlockFrame DEF PteInv
<1>12. Locals(c)'
  <2>1. pc'[c] \in FaultSteps \cup {"inc"}
    BY <1>10 DEF FaultSteps
  <2>2. pte'[s].cow /\ pte'[s].page = page'[c] /\ page'[c] \in Pages
    BY <1>1, <1>10 DEF p
  <2>3. /\ pc'[c] = "inc" => pin'[c] = None
        /\ new'[c] # None <=> pc'[c] \in {"fault_copy", "fault_pte"}
    BY <1>10
  <2> QED
    BY <2>1, <2>2, <2>3, <1>10, ForSpaceLocals
<1>13. Structure'
  <2>1. \A u \in at'[c] : u \in at[c] \/ ~Busy(u)
    BY <1>10
  <2>2. \A u \in Spaces : pte'[u] = pte[u] \/ u \in at[c] \/ ~Busy(u)
    OBVIOUS
  <2> QED
    BY <1>9, <1>11, <1>12, <2>1, <2>2, StructFrame
<1> QED
  BY <1>1, <1>2, <1>7, <1>9, <1>10, <1>13 DEF p

\* A fault goes on.
LEMMA FaultMove ==
  ASSUME Structure, NEW c \in CPUs, NEW l \in FaultSteps, pc[c] \in FaultSteps,
         Goto(c, l), NEW q \in Pages \cup {None}, new' = [new EXCEPT ![c] = q],
         q # None <=> l \in {"fault_copy", "fault_pte"}, SharedTypes',
         UNCHANGED <<pte, glock, pin, at, todo, page>>
  PROVE  /\ Structure' /\ Others(c) /\ pc'[c] = l /\ at'[c] = at[c]
         /\ page'[c] = page[c] /\ new'[c] = q
<1> USE DEF Structure
<1>1. CallTypes
  BY TypesSplit
<1>2. l \in Steps
  BY DEF Steps
<1>3. CallTypes' /\ After(c, l, at[c], todo[c], page[c], q)
  BY <1>1, <1>2 DEF CallTypes, Goto, After
<1>4. TypeOK' /\ Others(c)
  BY <1>3, TypesNext, AfterOthers
<1>5. pc'[c] = l /\ at'[c] = at[c] /\ page'[c] = page[c] /\ new'[c] = q
  BY <1>3 DEF After
<1>6. PteInv' /\ GlockInv'
  BY <1>4, <1>5, GlockFrame DEF PteInv, FaultSteps, CopySteps
<1>7. PICK s \in Spaces : at[c] = {s} /\ pte[s].cow /\ pte[s].page = page[c]
                          /\ page[c] \in Pages
  BY FaultShape
<1>8. Locals(c)'
  <2>1. pc'[c] \in FaultSteps \cup {"inc"} /\ at'[c] = {s} /\ pte'[s].cow
        /\ pte'[s].page = page'[c] /\ page'[c] \in Pages
    BY <1>5, <1>7
  <2>2. pc'[c] # "inc"
    BY <1>5 DEF FaultSteps, CopySteps
  <2>3. new'[c] # None <=> pc'[c] \in {"fault_copy", "fault_pte"}
    BY <1>5
  <2> QED
    BY <2>1, <2>2, <2>3, ForSpaceLocals
<1>9. Structure'
  <2>1. \A u \in at'[c] : u \in at[c] \/ ~Busy(u)
    BY <1>5
  <2>2. \A u \in Spaces : pte'[u] = pte[u] \/ u \in at[c] \/ ~Busy(u)
    OBVIOUS
  <2> QED
    BY <1>4, <1>6, <1>8, <2>1, <2>2, StructFrame
<1> QED
  BY <1>4, <1>5, <1>9

\* A call returns.
LEMMA ReturnMove ==
  ASSUME Structure, NEW c \in CPUs, Return(c), pc[c] # "dec_unlink",
         \A d \in CPUs \ {c} : pin'[d] = pin[d], UNCHANGED glock,
         SharedTypes', PteInv', \A s \in Spaces \ at[c] : pte'[s] = pte[s]
  PROVE  /\ Structure' /\ Others(c) /\ pc'[c] = "idle" /\ at'[c] = {}
         /\ page'[c] = None /\ new'[c] = None
<1> USE DEF Structure
<1>1. CallTypes
  BY TypesSplit
<1>2. CallTypes' /\ After(c, "idle", {}, <<>>, None, None)
  BY <1>1, ReturnFacts
<1>3. TypeOK' /\ Others(c)
  BY <1>2, TypesNext, AfterOthers
<1>4. pc'[c] = "idle" /\ at'[c] = {} /\ page'[c] = None /\ new'[c] = None
  BY <1>2 DEF After
<1>5. Locals(c)' /\ GlockInv'
  BY <1>3, <1>4, IdleLocals, GlockFrame
<1>6. Structure'
  <2>1. \A u \in at'[c] : u \in at[c] \/ ~Busy(u)
    BY <1>4
  <2>2. \A u \in Spaces : pte'[u] = pte[u] \/ u \in at[c] \/ ~Busy(u)
    OBVIOUS
  <2> QED
    BY <1>3, <1>5, <2>1, <2>2, StructFrame
<1> QED
  BY <1>3, <1>4, <1>6

\* The reference is given up.
LEMMA FaultCountFacts ==
  ASSUME Structure, NEW c \in CPUs, FaultCount(c)
  PROVE  /\ Structure' /\ Others(c) /\ page[c] \in Pages /\ AddCount(c, -1)
         /\ pc[c] = "fault_count" /\ at'[c] = at[c] /\ page'[c] = page[c]
         /\ \/ entry[page[c]] = 1 /\ pc'[c] = "fault_own"
            \/ entry[page[c]] # 1 /\ pc'[c] = "fault_alloc"
         /\ UNCHANGED <<pte, glock, content, free, pin, view, new>>
<1> USE DEF Structure
<1>1. /\ pc[c] = "fault_count" /\ AddCount(c, -1)
      /\ UNCHANGED <<pte, glock, content, free, pin, callVars, view>>
  BY DEF FaultCount
<1>2. PICK l \in {"fault_own", "fault_alloc"} :
        Goto(c, l) /\ (l = "fault_own" <=> entry[page[c]] = 1)
  BY DEF FaultCount, SoleOwner
<1>3. page[c] \in Pages /\ new[c] = None
  BY <1>1, FaultShape DEF FaultSteps, Locals, OtherLocals
<1>4. CallTypes /\ SharedTypes
  BY TypesSplit
<1>5. entry' \in [Pages -> 0..(CountMod - 1) \cup {None}]
  BY <1>1, <1>3, <1>4, CountTyped
<1>6. SharedTypes'
  BY <1>1, <1>4, <1>5 DEF SharedTypes
<1>7. UNCHANGED <<at, todo, page, new>>
  BY <1>1 DEF callVars
<1> DEFINE q == None
<1>8. new' = [new EXCEPT ![c] = q] /\ q \in Pages \cup {None}
  BY <1>3, <1>4, <1>7 DEF CallTypes
<1>9. l \in FaultSteps /\ pc[c] \in FaultSteps
  BY <1>1 DEF FaultSteps, CopySteps
<1>10. q # None <=> l \in {"fault_copy", "fault_pte"}
  OBVIOUS
<1> HIDE DEF q
<1>11. Goto(c, l) /\ UNCHANGED <<pte, glock, pin, at, todo, page>>
  BY <1>1, <1>2, <1>7
<1>12. /\ Structure' /\ Others(c) /\ pc'[c] = l /\ at'[c] = at[c]
       /\ page'[c] = page[c]
  BY <1>6, <1>8, <1>9, <1>10, <1>11, FaultMove
<1> QED
  BY <1>1, <1>2, <1>3, <1>7, <1>12

\* The copy gets a page, or there is none.
LEMMA FaultAllocFacts ==
  ASSUME Structure, NEW c \in CPUs, FaultAlloc(c)
  PROVE  /\ Structure' /\ Others(c) /\ page[c] \in Pages
         /\ pc[c] = "fault_alloc" /\ at'[c] = at[c] /\ page'[c] = page[c]
         /\ \/ \E p \in free : /\ p \in Pages /\ free' = free \ {p}
                               /\ new'[c] = p /\ pc'[c] = "fault_copy"
            \/ NoMemory /\ UNCHANGED free /\ new'[c] = None
               /\ pc'[c] = "fault_restore"
         /\ UNCHANGED <<pte, entry, glock, content, pin, view>>
<1> USE DEF Structure
<1>1. /\ pc[c] = "fault_alloc"
      /\ UNCHANGED <<pte, entry, glock, content, pin, at, todo, page, view>>
  BY DEF FaultAlloc
<1>2. page[c] \in Pages /\ new[c] = None
  BY <1>1, FaultShape DEF FaultSteps, CopySteps, Locals, OtherLocals
<1>3. CallTypes /\ SharedTypes /\ pc[c] \in FaultSteps /\ None \notin Pages
  BY <1>1, TypesSplit, CowAssumption DEF FaultSteps, CopySteps
<1>4. CASE NoMemory /\ Goto(c, "fault_restore") /\ UNCHANGED <<free, new>>
  <2>1. SharedTypes'
    BY <1>1, <1>3, <1>4 DEF SharedTypes
  <2>2. new' = [new EXCEPT ![c] = None] /\ None \in Pages \cup {None}
    BY <1>2, <1>3, <1>4 DEF CallTypes
  <2> DEFINE l == "fault_restore"
  <2>3. l \in FaultSteps /\ Goto(c, l)
        /\ (None # None <=> l \in {"fault_copy", "fault_pte"})
    BY <1>4 DEF FaultSteps, CopySteps
  <2> HIDE DEF l
  <2>4. /\ Structure' /\ Others(c) /\ pc'[c] = l /\ at'[c] = at[c]
        /\ page'[c] = page[c] /\ new'[c] = None
    BY <2>1, <2>2, <2>3, <1>1, <1>3, FaultMove
  <2> QED
    BY <2>4, <1>1, <1>2, <1>4 DEF l
<1>5. ASSUME NEW p \in free, free' = free \ {p}, new' = [new EXCEPT ![c] = p],
             Goto(c, "fault_copy")
      PROVE  /\ Structure' /\ Others(c) /\ at'[c] = at[c] /\ page'[c] = page[c]
             /\ p \in Pages /\ new'[c] = p /\ pc'[c] = "fault_copy"
  <2>1. SharedTypes' /\ p \in Pages
    BY <1>1, <1>3, <1>5 DEF SharedTypes
  <2> DEFINE l == "fault_copy"
  <2>2. l \in FaultSteps /\ Goto(c, l) /\ p \in Pages \cup {None}
        /\ (p # None <=> l \in {"fault_copy", "fault_pte"})
    BY <2>1, <1>3, <1>5 DEF FaultSteps, CopySteps
  <2> HIDE DEF l
  <2>3. /\ Structure' /\ Others(c) /\ pc'[c] = l /\ at'[c] = at[c]
        /\ page'[c] = page[c] /\ new'[c] = p
    BY <2>1, <2>2, <1>1, <1>3, <1>5, FaultMove
  <2> QED
    BY <2>1, <2>3 DEF l
<1> QED
  BY <1>1, <1>2, <1>4, <1>5 DEF FaultAlloc

\* The page is copied.
LEMMA FaultCopyFacts ==
  ASSUME Structure, NEW c \in CPUs, FaultCopy(c)
  PROVE  /\ Structure' /\ Others(c) /\ page[c] \in Pages /\ new[c] \in Pages
         /\ pc[c] = "fault_copy" /\ pc'[c] = "fault_pte"
         /\ at'[c] = at[c] /\ page'[c] = page[c]
         /\ content'[new[c]] = content[page[c]]
         /\ \A p \in Pages \ {new[c]} : content'[p] = content[p]
         /\ UNCHANGED <<pte, entry, glock, free, pin, view, new>>
<1> USE DEF Structure
<1>1. /\ pc[c] = "fault_copy" /\ Goto(c, "fault_pte")
      /\ content' = [content EXCEPT ![new[c]] = content[page[c]]]
      /\ UNCHANGED <<pte, entry, glock, free, pin, callVars, view>>
  BY DEF FaultCopy
<1>2. page[c] \in Pages /\ new[c] # None
  BY <1>1, FaultShape DEF FaultSteps, CopySteps, Locals, OtherLocals
<1>3. CallTypes /\ SharedTypes /\ pc[c] \in FaultSteps /\ new[c] \in Pages
  BY <1>1, <1>2, TypesSplit DEF FaultSteps, CopySteps, TypeOK
<1>4. UNCHANGED <<at, todo, page, new>>
  BY <1>1 DEF callVars
<1> DEFINE q == new[c]
           l == "fault_pte"
<1>5. new' = [new EXCEPT ![c] = q] /\ q \in Pages \cup {None}
  BY <1>3, <1>4 DEF CallTypes
<1>6. l \in FaultSteps /\ Goto(c, l)
      /\ (q # None <=> l \in {"fault_copy", "fault_pte"})
  BY <1>1, <1>2 DEF FaultSteps, CopySteps
<1>7. /\ content' \in [Pages -> Contents] /\ content'[new[c]] = content[page[c]]
      /\ \A p \in Pages \ {new[c]} : content'[p] = content[p]
  BY <1>1, <1>2, <1>3 DEF SharedTypes
<1>8. SharedTypes'
  BY <1>1, <1>3, <1>7 DEF SharedTypes
<1> HIDE DEF q, l
<1>9. /\ Structure' /\ Others(c) /\ pc'[c] = l /\ at'[c] = at[c]
      /\ page'[c] = page[c]
  BY <1>1, <1>3, <1>4, <1>5, <1>6, <1>8, FaultMove
<1> QED
  BY <1>1, <1>2, <1>3, <1>4, <1>7, <1>9 DEF l

\* The space gets a page of its own: the one it had or the copy.
LEMMA FaultPteFacts ==
  ASSUME Structure, NEW c \in CPUs, NEW p \in Pages,
         \/ FaultOwn(c) /\ p = page[c]
         \/ FaultDone(c) /\ p = new[c]
  PROVE  /\ Structure' /\ Others(c) /\ page[c] \in Pages
         /\ \/ pc[c] = "fault_own" /\ p = page[c]
            \/ pc[c] = "fault_pte" /\ p = new[c]
         /\ pc'[c] = "idle" /\ at'[c] = {} /\ page'[c] = None /\ new'[c] = None
         /\ \E s \in Spaces : /\ at[c] = {s} /\ pte[s].cow /\ pte[s].page = page[c]
                              /\ pte'[s].page = p /\ ~pte'[s].cow
                              /\ \A u \in Spaces \ {s} : pte'[u] = pte[u]
         /\ UNCHANGED <<entry, glock, content, free, pin, view>>
<1> USE DEF Structure
<1>1. /\ FaultPte(c, p) /\ Return(c)
      /\ UNCHANGED <<entry, glock, content, free, pin, view>>
      /\ \/ pc[c] = "fault_own" /\ p = page[c]
         \/ pc[c] = "fault_pte" /\ p = new[c]
  BY DEF FaultOwn, FaultDone
<1>2. PICK s \in Spaces : /\ at[c] = {s} /\ pte[s].cow /\ pte[s].page = page[c]
                          /\ page[c] \in Pages
  BY <1>1, FaultShape DEF FaultSteps, CopySteps
<1> DEFINE x == PTE(p, TRUE, FALSE)
<1>3. x \in PTEs /\ x.page = p /\ x.cow = FALSE /\ x # Unmapped /\ None \notin Pages
  BY PteKinds, CowAssumption
<1>4. pte' = [u \in Spaces |-> IF u \in at[c] THEN x ELSE pte[u]]
  BY <1>1 DEF FaultPte
<1> HIDE DEF x
<1>5. pte' = [pte EXCEPT ![s] = x]
  BY <1>2, <1>4 DEF TypeOK
<1>6. /\ pte' \in [Spaces -> PTEs] /\ PteInv' /\ pte'[s] = x
      /\ \A u \in Spaces \ {s} : pte'[u] = pte[u]
  BY <1>3, <1>5, PteSet
<1>7. SharedTypes'
  BY <1>1, <1>6 DEF SharedTypes, TypeOK
<1>8. pc[c] # "dec_unlink" /\ \A u \in Spaces \ at[c] : pte'[u] = pte[u]
  BY <1>1, <1>2, <1>6
<1>9. \A d \in CPUs \ {c} : pin'[d] = pin[d]
  BY <1>1
<1>10. /\ Structure' /\ Others(c) /\ pc'[c] = "idle" /\ at'[c] = {}
       /\ page'[c] = None /\ new'[c] = None
  BY <1>1, <1>6, <1>7, <1>8, <1>9, ReturnMove
<1> QED
  BY <1>1, <1>2, <1>3, <1>6, <1>10

\* The reference is taken back.
LEMMA FaultRestoreFacts ==
  ASSUME Structure, NEW c \in CPUs, FaultRestore(c)
  PROVE  /\ Structure' /\ Others(c) /\ page[c] \in Pages /\ AddCount(c, 1)
         /\ pc[c] = "fault_restore" /\ pc'[c] = "idle" /\ at'[c] = {}
         /\ page'[c] = None /\ new'[c] = None /\ new[c] = None
         /\ UNCHANGED <<pte, glock, content, free, pin, view>>
<1> USE DEF Structure
<1>1. /\ pc[c] = "fault_restore" /\ AddCount(c, 1) /\ Return(c)
      /\ UNCHANGED <<pte, glock, content, free, pin, view>>
  BY DEF FaultRestore
<1>2. page[c] \in Pages /\ new[c] = None
  BY <1>1, FaultShape DEF FaultSteps, CopySteps, Locals, OtherLocals
<1>3. CallTypes /\ SharedTypes
  BY TypesSplit
<1>4. entry' \in [Pages -> 0..(CountMod - 1) \cup {None}]
  BY <1>1, <1>2, <1>3, CountTyped
<1>5. SharedTypes' /\ PteInv'
  BY <1>1, <1>3, <1>4 DEF SharedTypes, PteInv
<1>6. pc[c] # "dec_unlink" /\ (\A u \in Spaces \ at[c] : pte'[u] = pte[u])
      /\ \A d \in CPUs \ {c} : pin'[d] = pin[d]
  BY <1>1
<1>7. /\ Structure' /\ Others(c) /\ pc'[c] = "idle" /\ at'[c] = {}
      /\ page'[c] = None /\ new'[c] = None
  BY <1>1, <1>5, <1>6, ReturnMove
<1> QED
  BY <1>1, <1>2, <1>7

-----------------------------------------------------------------------------
(* References that callers count, and pages that go *)

\* cow_increment_ref counts.
LEMMA IncrementFacts ==
  ASSUME Structure, NEW c \in CPUs, Increment(c)
  PROVE  /\ Structure' /\ Others(c) /\ page[c] \in Pages /\ AddCount(c, 1)
         /\ pc[c] = "inc" /\ pc'[c] = "idle" /\ at'[c] = {}
         /\ page'[c] = None /\ new'[c] = None /\ new[c] = None
         /\ pin[c] = None /\ pin'[c] = page[c]
         /\ UNCHANGED <<pte, glock, content, free, view>>
<1> USE DEF Structure
<1>1. /\ pc[c] = "inc" /\ AddCount(c, 1) /\ Return(c)
      /\ pin' = [pin EXCEPT ![c] = page[c]]
      /\ UNCHANGED <<pte, glock, content, free, view>>
  BY DEF Increment
<1>2. page[c] \in Pages /\ new[c] = None /\ pin[c] = None
  BY <1>1, FaultShape DEF Locals, OtherLocals
<1>3. CallTypes /\ SharedTypes
  BY TypesSplit
<1>4. entry' \in [Pages -> 0..(CountMod - 1) \cup {None}]
  BY <1>1, <1>2, <1>3, CountTyped
<1>5. /\ pin' \in [CPUs -> Pages \cup {None}] /\ pin'[c] = page[c]
      /\ \A d \in CPUs \ {c} : pin'[d] = pin[d]
  BY <1>1, <1>2, <1>3 DEF SharedTypes
<1>6. SharedTypes' /\ PteInv'
  BY <1>1, <1>3, <1>4, <1>5 DEF SharedTypes, PteInv
<1>7. pc[c] # "dec_unlink" /\ (\A u \in Spaces \ at[c] : pte'[u] = pte[u])
  BY <1>1
<1>8. /\ Structure' /\ Others(c) /\ pc'[c] = "idle" /\ at'[c] = {}
      /\ page'[c] = None /\ new'[c] = None
  BY <1>1, <1>5, <1>6, <1>7, ReturnMove
<1> QED
  BY <1>1, <1>2, <1>5, <1>8

\* A call that gives up a page goes on.
LEMMA DecMove ==
  ASSUME Structure, NEW c \in CPUs, CallTypes', SharedTypes', GlockInv', Others(c),
         pc'[c] \in {"dec"} \cup DeathSteps, at[c] = {}, at'[c] = {},
         page'[c] \in Pages, new'[c] = None, UNCHANGED pte
  PROVE  Structure'
<1>1. TypeOK' /\ PteInv'
  BY TypesNext DEF Structure, PteInv
<1>2. Locals(c)'
  BY DecLocals
<1>3. \A u \in at'[c] : u \in at[c] \/ ~Busy(u)
  OBVIOUS
<1>4. \A u \in Spaces : pte'[u] = pte[u] \/ u \in at[c] \/ ~Busy(u)
  OBVIOUS
<1> QED
  BY <1>1, <1>2, <1>3, <1>4, StructFrame

\* A caller gives up the reference it took.
LEMMA UnpinFacts ==
  ASSUME Structure, NEW c \in CPUs, Unpin(c)
  PROVE  /\ Structure' /\ Others(c) /\ pin[c] \in Pages /\ pin'[c] = None
         /\ pc[c] = "idle" /\ pc'[c] = "dec" /\ at[c] = {} /\ at'[c] = {}
         /\ page'[c] = pin[c]
         /\ UNCHANGED <<pte, entry, glock, content, free, view, new>>
<1> USE DEF Structure
<1>1. /\ pc[c] = "idle" /\ pin[c] # None /\ Goto(c, "dec")
      /\ page' = [page EXCEPT ![c] = pin[c]] /\ pin' = [pin EXCEPT ![c] = None]
      /\ UNCHANGED <<pte, entry, glock, content, free, at, todo, new, view>>
  BY DEF Unpin
<1>2. CallTypes /\ SharedTypes /\ at[c] = {} /\ new[c] = None
  BY <1>1, TypesSplit DEF Locals, OtherLocals
<1>3. pin[c] \in Pages /\ "dec" \in Steps
  BY <1>1, <1>2 DEF SharedTypes, Steps
<1>4. CallTypes' /\ After(c, "dec", at[c], todo[c], pin[c], new[c])
  BY <1>1, <1>2, <1>3 DEF CallTypes, Goto, After
<1>5. /\ pin' \in [CPUs -> Pages \cup {None}] /\ pin'[c] = None
      /\ \A d \in CPUs \ {c} : pin'[d] = pin[d]
  BY <1>1, <1>2 DEF SharedTypes
<1>6. SharedTypes' /\ Others(c)
  BY <1>1, <1>2, <1>4, <1>5, AfterOthers DEF SharedTypes
<1>7. pc'[c] = "dec" /\ at'[c] = {} /\ page'[c] = pin[c] /\ new'[c] = None
  BY <1>2, <1>4 DEF After
<1>8. GlockInv'
  BY <1>1, <1>6, <1>7, GlockFrame
<1>9. Structure'
  BY <1>1, <1>2, <1>3, <1>4, <1>6, <1>7, <1>8, DecMove
<1> QED
  BY <1>1, <1>2, <1>3, <1>5, <1>6, <1>7, <1>9

\* cow_decrement_ref decrements, or finds no entry.
LEMMA DecCountFacts ==
  ASSUME Structure, NEW c \in CPUs, DecCount(c), NEW p, p = page[c],
         NEW n, n = (entry[p] - 1) % CountMod
  PROVE  /\ Structure' /\ Others(c) /\ p \in Pages /\ glock = None
         /\ pc[c] = "dec" /\ at[c] = {} /\ at'[c] = {} /\ new[c] = None
         /\ UNCHANGED <<pte, content, free, pin, view, new>>
         /\ \A q \in Pages \ {p} : entry'[q] = entry[q]
         /\ \/ entry[p] = None /\ entry'[p] = None /\ pc'[c] = "idle"
            \/ /\ entry[p] # None /\ entry'[p] = n
               /\ \/ n = 0 /\ pc'[c] = "dec_unlink" /\ page'[c] = p
                  \/ n # 0 /\ pc'[c] = "idle"
<1> USE DEF Structure
<1>1. /\ pc[c] = "dec" /\ glock = None
      /\ UNCHANGED <<pte, content, free, pin, view>>
  BY DEF DecCount
<1>2. CallTypes /\ SharedTypes /\ at[c] = {} /\ new[c] = None /\ p \in Pages
  BY <1>1, TypesSplit DEF Locals, OtherLocals
<1>3. pc[c] # "dec_unlink" /\ (\A u \in Spaces \ at[c] : pte'[u] = pte[u])
      /\ (\A d \in CPUs \ {c} : pin'[d] = pin[d]) /\ PteInv'
  BY <1>1 DEF PteInv
<1>4. ASSUME CallTypes', new'[c] = None, Others(c) PROVE UNCHANGED new
  <2>1. \A d \in CPUs : new'[d] = new[d]
    BY <1>2, <1>4 DEF Others
  <2> QED
    BY <2>1, <1>2, <1>4 DEF CallTypes
<1>5. CASE entry[p] = None
  <2>1. Return(c) /\ UNCHANGED <<entry, glock>>
    BY <1>5 DEF DecCount
  <2>2. SharedTypes'
    BY <2>1, <1>1, <1>2 DEF SharedTypes
  <2>3. /\ Structure' /\ Others(c) /\ pc'[c] = "idle" /\ at'[c] = {}
        /\ page'[c] = None /\ new'[c] = None
    BY <2>1, <2>2, <1>3, ReturnMove
  <2>4. UNCHANGED new
    BY <2>3, <1>4, TypesNext
  <2> QED
    BY <2>1, <2>3, <2>4, <1>1, <1>2, <1>5
<1>6. CASE entry[p] # None
  <2>1. /\ entry' = [entry EXCEPT ![p] = n]
        /\ \/ n = 0 /\ glock' = c /\ Goto(c, "dec_unlink") /\ UNCHANGED callVars
           \/ n # 0 /\ Return(c) /\ UNCHANGED glock
    BY <1>6 DEF DecCount, LastRef
  <2>2. n \in 0..(CountMod - 1)
    <3>1. entry[p] \in 0..(CountMod - 1) /\ CountMod \in Nat \ {0}
      BY <1>2, <1>6, CowAssumption DEF SharedTypes
    <3> DEFINE y == entry[p] - 1
    <3>2. y \in Int
      BY <3>1
    <3> HIDE DEF y
    <3>3. y % CountMod \in 0..(CountMod - 1)
      BY <3>1, <3>2, DivMod
    <3> QED
      BY <3>3 DEF y
  <2>3. /\ entry' \in [Pages -> 0..(CountMod - 1) \cup {None}] /\ entry'[p] = n
        /\ \A q \in Pages \ {p} : entry'[q] = entry[q]
    BY <2>1, <2>2, <1>2 DEF SharedTypes
  <2>4. CASE n # 0
    <3>1. Return(c) /\ UNCHANGED glock
      BY <2>1, <2>4
    <3>2. SharedTypes'
      BY <2>3, <3>1, <1>1, <1>2 DEF SharedTypes
    <3>3. /\ Structure' /\ Others(c) /\ pc'[c] = "idle" /\ at'[c] = {}
          /\ page'[c] = None /\ new'[c] = None
      BY <3>1, <3>2, <1>3, ReturnMove
    <3>4. UNCHANGED new
      BY <3>3, <1>4, TypesNext
    <3> QED
      BY <2>3, <2>4, <3>3, <3>4, <1>1, <1>2, <1>6
  <2>5. CASE n = 0
    <3>1. glock' = c /\ Goto(c, "dec_unlink") /\ UNCHANGED callVars
      BY <2>1, <2>5
    <3>2. SharedTypes' /\ "dec_unlink" \in Steps
      BY <2>3, <3>1, <1>1, <1>2 DEF SharedTypes, Steps, DeathSteps
    <3>3. CallTypes' /\ After(c, "dec_unlink", at[c], todo[c], page[c], new[c])
      BY <3>1, <3>2, <1>2, GotoFacts
    <3>4. Others(c) /\ pc'[c] = "dec_unlink" /\ at'[c] = {} /\ page'[c] = p
          /\ new'[c] = None
      BY <3>3, <1>2, <1>3, AfterOthers DEF After
    <3>5. GlockInv'
      BY <3>1, <3>4, <1>1, CowAssumption DEF GlockInv, Others
    <3>6. Structure'
      BY <3>2, <3>3, <3>4, <3>5, <1>1, <1>2, DecMove DEF DeathSteps
    <3> QED
      BY <2>3, <2>5, <3>1, <3>4, <3>6, <1>1, <1>2, <1>6 DEF callVars
  <2> QED
    BY <2>4, <2>5
<1> QED
  BY <1>5, <1>6

\* The entry is unlinked.
LEMMA DecUnlinkFacts ==
  ASSUME Structure, NEW c \in CPUs, DecUnlink(c), NEW p, p = page[c]
  PROVE  /\ Structure' /\ Others(c) /\ p \in Pages
         /\ pc[c] = "dec_unlink" /\ pc'[c] = "dec_free" /\ page'[c] = p
         /\ at[c] = {} /\ at'[c] = {}
         /\ UNCHANGED <<pte, content, free, pin, view, new>>
         /\ entry'[p] = None /\ \A q \in Pages \ {p} : entry'[q] = entry[q]
<1> USE DEF Structure
<1>1. /\ pc[c] = "dec_unlink" /\ glock' = None /\ Goto(c, "dec_free")
      /\ entry' = [entry EXCEPT ![p] = None]
      /\ UNCHANGED <<pte, content, free, pin, callVars, view>>
  BY DEF DecUnlink
<1>2. CallTypes /\ SharedTypes /\ at[c] = {} /\ new[c] = None /\ p \in Pages
  BY <1>1, TypesSplit DEF Locals, OtherLocals, DeathSteps
<1>3. /\ entry' \in [Pages -> 0..(CountMod - 1) \cup {None}] /\ entry'[p] = None
      /\ \A q \in Pages \ {p} : entry'[q] = entry[q]
  BY <1>1, <1>2 DEF SharedTypes
<1>4. SharedTypes' /\ "dec_free" \in Steps
  BY <1>1, <1>2, <1>3 DEF SharedTypes, Steps, DeathSteps
<1>5. CallTypes' /\ After(c, "dec_free", at[c], todo[c], page[c], new[c])
  BY <1>1, <1>2, <1>4, GotoFacts
<1>6. Others(c) /\ pc'[c] = "dec_free" /\ at'[c] = {} /\ page'[c] = p
      /\ new'[c] = None
  BY <1>1, <1>2, <1>5, AfterOthers DEF After
<1>7. GlockInv'
  BY <1>1, <1>6, CowAssumption DEF GlockInv, Others
<1>8. Structure'
  BY <1>1, <1>2, <1>4, <1>5, <1>6, <1>7, DecMove DEF DeathSteps
<1> QED
  BY <1>1, <1>2, <1>3, <1>6, <1>8 DEF callVars

\* The page goes.
LEMMA DecFreeFacts ==
  ASSUME Structure, NEW c \in CPUs, DecFree(c), NEW p, p = page[c]
  PROVE  /\ Structure' /\ Others(c) /\ p \in Pages
         /\ pc[c] = "dec_free" /\ pc'[c] = "idle" /\ at[c] = {} /\ at'[c] = {}
         /\ free' = free \cup {p} /\ new[c] = None /\ new'[c] = None
         /\ UNCHANGED <<pte, entry, glock, content, pin, view>>
<1> USE DEF Structure
<1>1. /\ pc[c] = "dec_free" /\ Return(c) /\ free' = free \cup {p}
      /\ UNCHANGED <<pte, entry, glock, content, pin, view>>
  BY DEF DecFree
<1>2. SharedTypes /\ at[c] = {} /\ new[c] = None /\ p \in Pages
  BY <1>1, TypesSplit DEF Locals, OtherLocals, DeathSteps
<1>3. SharedTypes' /\ PteInv'
  BY <1>1, <1>2 DEF SharedTypes, PteInv
<1>4. pc[c] # "dec_unlink" /\ (\A u \in Spaces \ at[c] : pte'[u] = pte[u])
      /\ (\A d \in CPUs \ {c} : pin'[d] = pin[d])
  BY <1>1
<1>5. /\ Structure' /\ Others(c) /\ pc'[c] = "idle" /\ at'[c] = {}
      /\ page'[c] = None /\ new'[c] = None
  BY <1>1, <1>3, <1>4, ReturnMove
<1> QED
  BY <1>1, <1>2, <1>5

\* The call about a marked space, from either caller.
LEMMA RefFacts ==
  ASSUME SpacesApart, Structure, NEW c \in CPUs, NEW s \in Spaces, NEW p,
         p = pte[s].page, FaultRef(c, s) \/ IncrementRef(c, s)
  PROVE  /\ Structure' /\ Others(c) /\ at[c] = {} /\ at'[c] = {s} /\ ~Busy(s)
         /\ p \in Pages /\ pte[s].cow /\ glock = None
         /\ pc[c] = "idle" /\ pc'[c] \in {"fault_count", "inc"} /\ page'[c] = p
         /\ entry'[p] = entry[p] \/ (entry[p] = None /\ entry'[p] = 0)
         /\ \A q \in Pages \ {p} : entry'[q] = entry[q]
         /\ UNCHANGED <<pte, glock, content, free, pin, new, view>>
<1>0. ~Busy(s)
  BY RunsAlone DEF FaultRef, IncrementRef
<1>1. PICK l \in {"fault_count", "inc"} : Goto(c, l) /\ (l = "inc" => pin[c] = None)
  BY DEF FaultRef, IncrementRef
<1>2. /\ pc[c] = "idle" /\ pte[s].cow /\ glock = None
      /\ cow_get_ref(pte[s].page) \/ UNCHANGED entry
      /\ at' = [at EXCEPT ![c] = {s}] /\ page' = [page EXCEPT ![c] = pte[s].page]
      /\ UNCHANGED <<pte, glock, content, free, pin, todo, new, view>>
  BY DEF FaultRef, IncrementRef, cow_get_ref, NoRef
<1>3. /\ Structure' /\ Others(c) /\ at[c] = {} /\ pte[s].page \in Pages
      /\ pc'[c] = l /\ at'[c] = {s} /\ page'[c] = pte[s].page
      /\ \/ entry'[pte[s].page] = entry[pte[s].page]
         \/ entry[pte[s].page] = None /\ entry'[pte[s].page] = 0
      /\ \A q \in Pages \ {pte[s].page} : entry'[q] = entry[q]
  BY <1>0, <1>1, <1>2, GetRefFacts
<1> QED
  BY <1>0, <1>1, <1>2, <1>3

\* Every step keeps the structure.
LEMMA StructureNext ==
  ASSUME SpacesApart, Structure, [Next]_vars
  PROVE  Structure'
<1>1. CASE UNCHANGED vars
  BY <1>1 DEF vars, Structure, TypeOK, PteInv, HandsApart, GlockInv, Locals,
              MarkLocals, FaultLocals, OtherLocals, TwoToMark, OneToMark
<1>2. ASSUME NEW s \in Spaces, MapNew(s) \/ Write(s) PROVE Structure'
  BY <1>2, MapNewFacts, WriteFacts
<1>3. ASSUME NEW c \in CPUs, Call(c) PROVE Structure'
  <2>1. ASSUME NEW s \in Spaces, NEW t \in Spaces, Share(c, s, t) PROVE Structure'
    BY <2>1, ShareFacts
  <2>2. ASSUME NEW s \in Spaces, Unmap(c, s) PROVE Structure'
    BY <2>2, UnmapFacts
  <2>3. ASSUME NEW s \in Spaces, FaultRefused(c, s) PROVE Structure'
    BY <2>3, <1>1 DEF FaultRefused
  <2>4. ASSUME NEW s \in Spaces, FaultRef(c, s) \/ IncrementRef(c, s)
        PROVE  Structure'
    BY <2>4, RefFacts
  <2> QED
    BY <1>3, <2>1, <2>2, <2>3, <2>4, UnpinFacts DEF Call
<1>4. ASSUME NEW c \in CPUs, Step(c) PROVE Structure'
  <2>1. CASE MarkRef(c) \/ MarkCount(c) \/ MarkPte(c)
    BY <2>1, MarkRefFacts, MarkCountFacts, MarkPteFacts
  <2>2. CASE FaultOwn(c) \/ FaultDone(c)
    <3>1. page[c] \in Pages
      BY <2>2, FaultShape DEF FaultOwn, FaultDone, FaultSteps, CopySteps
    <3>2. FaultDone(c) => new[c] \in Pages
      BY DEF FaultDone, Structure, TypeOK, Locals, OtherLocals
    <3> QED
      BY <2>2, <3>1, <3>2, FaultPteFacts
  <2>3. CASE FaultCount(c) \/ FaultAlloc(c) \/ FaultRestore(c) \/ FaultCopy(c)
    BY <2>3, FaultCountFacts, FaultAllocFacts, FaultRestoreFacts, FaultCopyFacts
  <2>4. CASE Increment(c) \/ DecCount(c) \/ DecUnlink(c) \/ DecFree(c)
    BY <2>4, IncrementFacts, DecCountFacts, DecUnlinkFacts, DecFreeFacts
  <2> QED
    BY <1>4, <2>1, <2>2, <2>3, <2>4 DEF Step
<1> QED
  BY <1>1, <1>2, <1>3, <1>4 DEF Next

\* The types of Cow hold in every state, with any number of CPUs that run a
\* space one at a time, and with memory that may run out.
THEOREM TypeCorrect ==
  ASSUME SpacesApart
  PROVE  Spec => []TypeOK
<1>1. Init => Structure
  BY InitStructure
<1>2. Structure /\ [Next]_vars => Structure'
  BY StructureNext
<1>3. Structure => TypeOK
  BY DEF Structure
<1> QED
  BY <1>1, <1>2, <1>3, PTL DEF Spec

-----------------------------------------------------------------------------
(* What a step changes for the users of a page *)

\* A CPU whose mark or decrement is counted.
Under(c, p) == page[c] = p /\ pc[c] \in {"mark_pte", "dec"}

\* A space in the hands of CPU c.
LEMMA SpaceHeld ==
  ASSUME HandsApart, NEW c \in CPUs, NEW s \in at[c]
  PROVE  /\ \A p : On(s, p) <=> pte[s].page = p /\ pc[c] \notin CopySteps
         /\ \A p : Counted(s, p) <=> /\ On(s, p) /\ pte[s].cow
                                     /\ pc[c] # "fault_own"
         /\ Sharing(s) <=> \/ pte[s].cow /\ pc[c] # "fault_own"
                           \/ pc[c] \in MarkSteps
<1>1. \A steps : InHands(s, steps) <=> pc[c] \in steps
  BY DEF HandsApart, InHands
<1> QED
  BY <1>1 DEF On, Counted, Sharing

\* The same after a step.
LEMMA SpaceHeldNext ==
  ASSUME HandsApart', NEW c \in CPUs, NEW s \in at'[c]
  PROVE  /\ \A p : On(s, p)' <=> pte'[s].page = p /\ pc'[c] \notin CopySteps
         /\ \A p : Counted(s, p)' <=> /\ On(s, p)' /\ pte'[s].cow
                                      /\ pc'[c] # "fault_own"
         /\ Sharing(s)' <=> \/ pte'[s].cow /\ pc'[c] # "fault_own"
                            \/ pc'[c] \in MarkSteps
<1>1. \A steps : InHands(s, steps)' <=> pc'[c] \in steps
  BY DEF HandsApart, InHands
<1> QED
  BY <1>1 DEF On, Counted, Sharing

\* A space that runs.
LEMMA SpaceRuns ==
  ASSUME NEW s, ~Busy(s)
  PROVE  /\ \A p : On(s, p) <=> pte[s].page = p
         /\ \A p : Counted(s, p) <=> pte[s].page = p /\ pte[s].cow
         /\ Sharing(s) <=> pte[s].cow
<1>1. \A steps : ~InHands(s, steps)
  BY DEF Busy, InHands
<1> QED
  BY <1>1 DEF On, Counted, Sharing

\* A space that the step of CPU c leaves running.
LEMMA SpaceRunsNext ==
  ASSUME HandsApart, NEW c \in CPUs, Others(c), NEW s, s \in at[c] \/ ~Busy(s),
         s \notin at'[c]
  PROVE  /\ \A p : On(s, p)' <=> pte'[s].page = p
         /\ \A p : Counted(s, p)' <=> pte'[s].page = p /\ pte'[s].cow
         /\ Sharing(s)' <=> pte'[s].cow
<1>1. \A d \in CPUs : s \notin at'[d]
  BY DEF Others, Busy, HandsApart
<1>2. \A steps : ~InHands(s, steps)'
  BY <1>1 DEF InHands
<1> QED
  BY <1>2 DEF On, Counted, Sharing

\* What stays as it was, of a space and of a CPU.
SameSpace(s) ==
  /\ \A p : (On(s, p)' <=> On(s, p)) /\ (Counted(s, p)' <=> Counted(s, p))
  /\ Sharing(s)' <=> Sharing(s)
SameCPU(d) ==
  /\ at'[d] = at[d] /\ new'[d] = new[d] /\ pin'[d] = pin[d]
  /\ \A p : /\ User(d, p)' <=> User(d, p)
            /\ Dying(d, p)' <=> Dying(d, p)
            /\ Under(d, p)' <=> Under(d, p)
            /\ Marks(d, p)' <=> Marks(d, p)

\* A step of CPU c leaves the spaces it does not touch and the other CPUs alone.
LEMMA StepFrame ==
  ASSUME Structure, NEW c \in CPUs, Others(c), NEW T,
         \A s \in T : s \in at[c] \/ ~Busy(s), at[c] \subseteq T, at'[c] \subseteq T,
         \A s \in Spaces \ T : pte'[s] = pte[s]
  PROVE  /\ \A s \in Spaces \ T : SameSpace(s)
         /\ \A d \in CPUs \ {c} : SameCPU(d)
<1>1. ASSUME NEW s \in Spaces \ T PROVE SameSpace(s)
  <2>1. \A steps : InHands(s, steps)' <=> InHands(s, steps)
    BY DEF Others, InHands
  <2>2. pte'[s] = pte[s]
    OBVIOUS
  <2> QED
    BY <2>1, <2>2 DEF SameSpace, On, Counted, Sharing
<1>2. ASSUME NEW d \in CPUs \ {c} PROVE SameCPU(d)
  <2>1. /\ pc'[d] = pc[d] /\ at'[d] = at[d] /\ todo'[d] = todo[d]
        /\ page'[d] = page[d] /\ new'[d] = new[d] /\ pin'[d] = pin[d]
    BY DEF Others
  <2>2. pc[d] \in MarkSteps => pte'[todo[d][1]] = pte[todo[d][1]]
    <3> SUFFICES ASSUME pc[d] \in MarkSteps PROVE pte'[todo[d][1]] = pte[todo[d][1]]
      OBVIOUS
    <3>1. todo[d][1] \in at[d] /\ at[d] \subseteq Spaces
      BY MarkShape
    <3>2. todo[d][1] \notin at[c]
      BY <3>1 DEF Structure, HandsApart
    <3> QED
      BY <3>1, <3>2 DEF Busy
  <2> QED
    BY <2>1, <2>2 DEF SameCPU, User, Dec, Dying, Under, Marks
<1> QED
  BY <1>1, <1>2

\* Nothing has changed for the users of page p.
Same(p) ==
  /\ \A s \in Spaces : /\ On(s, p)' <=> On(s, p)
                       /\ On(s, p) => (Sharing(s)' <=> Sharing(s))
  /\ \A d \in CPUs : /\ User(d, p)' <=> User(d, p)
                     /\ new'[d] = p <=> new[d] = p
                     /\ Dying(d, p)' <=> Dying(d, p)
                     /\ Marks(d, p)' => Marks(d, p) /\ at'[d] = at[d]
  /\ p \in free' <=> p \in free

\* Then what is said of them is still true.
LEMMA OwnedSame ==
  ASSUME NEW p, Owned(p), Same(p)
  PROVE  Owned(p)'
<1> USE DEF Same, Owned
<1>1. SpacesShare(p)' /\ OwnersAlone(p)'
  BY DEF SpacesShare, OwnersAlone
<1>2. UsedNotFree(p)'
  BY DEF UsedNotFree
<1>3. NewAlone(p)' /\ DyingAlone(p)'
  BY DEF NewAlone, DyingAlone
<1>4. MarkedFirst(p)'
  BY DEF MarkedFirst
<1>5. Kept(p)'
  BY DEF Kept
<1> QED
  BY <1>1, <1>2, <1>3, <1>4, <1>5

-----------------------------------------------------------------------------
(* What a reference count should be *)

Refs(p) == {s \in Spaces : Counted(s, p)}
Pins(p) == {c \in CPUs : pin[c] = p}
Unders(p) == {c \in CPUs : Under(c, p)}

\* Expected is the sum of the three.
Parts ==
  \A p \in Pages :
    Expected(p) = Cardinality(Refs(p)) + Cardinality(Pins(p)) + Cardinality(Unders(p))

\* It is, of the spaces, callers and calls that hold a reference.
LEMMA PartsNow == Structure => Parts
<1> SUFFICES ASSUME Structure, NEW p \in Pages
             PROVE  Expected(p) = Cardinality(Refs(p)) + Cardinality(Pins(p))
                                  + Cardinality(Unders(p))
  BY DEF Parts
<1> DEFINE S == {s \in Mapped : /\ pte[s].page = p /\ pte[s].cow
                               /\ \A c \in GaveUp : s \notin at[c]}
<1>1. ASSUME NEW s \in Spaces
      PROVE  (\A c \in GaveUp : s \notin at[c]) <=>
             ~InHands(s, CopySteps) /\ ~InHands(s, {"fault_own"})
  BY DEF GaveUp, InHands, CopySteps
<1>2. ASSUME NEW s \in Spaces PROVE pte[s].page = p => s \in Mapped
  BY PteFields DEF Structure
<1>3. S = Refs(p)
  BY <1>1, <1>2 DEF Refs, Counted, On, Mapped
<1>4. {c \in CPUs : page[c] = p /\ pc[c] \in {"mark_pte", "dec"}} = Unders(p)
  BY DEF Unders, Under
<1>5. Expected(p) = Cardinality(S) + Cardinality(Pins(p))
                    + Cardinality({c \in CPUs : page[c] = p /\ pc[c] \in {"mark_pte", "dec"}})
  BY DEF Expected, Pins
<1> QED
  BY <1>3, <1>4, <1>5

\* After a step too.
LEMMA PartsNext == Structure' => Parts'
BY PartsNow, PTL

\* Sets of spaces and of CPUs are small.
LEMMA SmallSets ==
  ASSUME CountFits, NEW R \in SUBSET Spaces, NEW P \in SUBSET CPUs,
         NEW U \in SUBSET CPUs, NEW n,
         n = Cardinality(R) + Cardinality(P) + Cardinality(U)
  PROVE  /\ IsFiniteSet(R) /\ IsFiniteSet(P) /\ IsFiniteSet(U)
         /\ Cardinality(R) \in Nat /\ Cardinality(P) \in Nat /\ Cardinality(U) \in Nat
         /\ n \in 0..(CountMod - 1)
<1>1. IsFiniteSet(CPUs) /\ IsFiniteSet(Spaces)
      /\ CountMod > Cardinality(Spaces) + 2 * Cardinality(CPUs)
  BY DEF CountFits
<1>2. IsFiniteSet(R) /\ Cardinality(R) <= Cardinality(Spaces)
  BY <1>1, FS_Subset
<1>3. IsFiniteSet(P) /\ Cardinality(P) <= Cardinality(CPUs)
  BY <1>1, FS_Subset
<1>4. IsFiniteSet(U) /\ Cardinality(U) <= Cardinality(CPUs)
  BY <1>1, FS_Subset
<1>5. /\ Cardinality(R) \in Nat /\ Cardinality(P) \in Nat /\ Cardinality(U) \in Nat
      /\ Cardinality(Spaces) \in Nat /\ Cardinality(CPUs) \in Nat /\ CountMod \in Nat
  BY <1>1, <1>2, <1>3, <1>4, FS_CardinalityType, CowAssumption
<1> QED
  BY <1>1, <1>2, <1>3, <1>4, <1>5

\* Before and after a step.
LEMMA Sums ==
  ASSUME CountFits, Structure, Structure', NEW p \in Pages
  PROVE  /\ Expected(p) = Cardinality(Refs(p)) + Cardinality(Pins(p)) + Cardinality(Unders(p))
         /\ Expected(p)' = Cardinality(Refs(p)') + Cardinality(Pins(p)') + Cardinality(Unders(p)')
         /\ IsFiniteSet(Refs(p)) /\ IsFiniteSet(Pins(p)) /\ IsFiniteSet(Unders(p))
         /\ Cardinality(Refs(p)) \in Nat /\ Cardinality(Pins(p)) \in Nat
         /\ Cardinality(Unders(p)) \in Nat
         /\ Expected(p) \in 0..(CountMod - 1) /\ Expected(p)' \in 0..(CountMod - 1)
<1>1. Expected(p) = Cardinality(Refs(p)) + Cardinality(Pins(p)) + Cardinality(Unders(p))
  BY PartsNow DEF Parts
<1>2. Expected(p)' = Cardinality(Refs(p)') + Cardinality(Pins(p)') + Cardinality(Unders(p)')
  BY PartsNext DEF Parts
<1> DEFINE R == Refs(p)
           P == Pins(p)
           U == Unders(p)
           n == Expected(p)
           R2 == Refs(p)'
           P2 == Pins(p)'
           U2 == Unders(p)'
           n2 == Expected(p)'
<1>3. R \in SUBSET Spaces /\ P \in SUBSET CPUs /\ U \in SUBSET CPUs
      /\ R2 \in SUBSET Spaces /\ P2 \in SUBSET CPUs /\ U2 \in SUBSET CPUs
  BY DEF Refs, Pins, Unders
<1>4. n = Cardinality(R) + Cardinality(P) + Cardinality(U)
      /\ n2 = Cardinality(R2) + Cardinality(P2) + Cardinality(U2)
  BY <1>1, <1>2
<1> HIDE DEF R, P, U, n, R2, P2, U2, n2
<1>5. /\ IsFiniteSet(R) /\ IsFiniteSet(P) /\ IsFiniteSet(U)
      /\ Cardinality(R) \in Nat /\ Cardinality(P) \in Nat /\ Cardinality(U) \in Nat
      /\ n \in 0..(CountMod - 1)
  BY <1>3, <1>4, SmallSets
<1>6. n2 \in 0..(CountMod - 1)
  BY <1>3, <1>4, SmallSets
<1> QED
  BY <1>1, <1>2, <1>5, <1>6 DEF R, P, U, n, R2, P2, U2, n2

\* No reference to page p comes or goes.
SameCount(p) ==
  /\ \A s \in Spaces : Counted(s, p)' <=> Counted(s, p)
  /\ \A d \in CPUs : /\ pin'[d] = p <=> pin[d] = p
                     /\ Under(d, p)' <=> Under(d, p)

\* A count of a page is right.
Exact(p) == IF entry[p] = None THEN Expected(p) = 0 ELSE entry[p] = Expected(p)

\* It stays right when no reference comes or goes.
LEMMA ExactSame ==
  ASSUME CountFits, Structure, Structure', NEW p \in Pages, Exact(p), SameCount(p),
         entry'[p] = entry[p] \/ (entry[p] = None /\ entry'[p] = 0)
  PROVE  Exact(p)'
<1>1. Refs(p)' = Refs(p) /\ Pins(p)' = Pins(p) /\ Unders(p)' = Unders(p)
  BY DEF SameCount, Refs, Pins, Unders
<1>2. Expected(p)' = Expected(p)
  BY <1>1, Sums
<1>3. None \notin Nat
  BY CowAssumption
<1> QED
  BY <1>2, <1>3 DEF Exact

-----------------------------------------------------------------------------
(* Steps that change nothing for the users of a page *)

Good == \A p \in Pages : Owned(p) /\ Exact(p)

\* A step of CPU c that touches spaces of T and changes nothing for the users
\* of page p and for its count.
LEMMA PageSame ==
  ASSUME CountFits, Structure, Structure', NEW p \in Pages, Good,
         NEW c \in CPUs, NEW T,
         \A s \in Spaces \ T : SameSpace(s), \A d \in CPUs \ {c} : SameCPU(d),
         \A s \in T : /\ On(s, p)' <=> On(s, p)
                      /\ On(s, p) => (Sharing(s)' <=> Sharing(s))
                      /\ Counted(s, p)' <=> Counted(s, p),
         new'[c] = p <=> new[c] = p, pin'[c] = p <=> pin[c] = p,
         Dec(c, p)' <=> Dec(c, p), Dying(c, p)' <=> Dying(c, p),
         Under(c, p)' <=> Under(c, p),
         Marks(c, p)' => Marks(c, p) /\ at'[c] = at[c],
         p \in free' <=> p \in free,
         entry'[p] = entry[p] \/ (entry[p] = None /\ entry'[p] = 0)
  PROVE  Owned(p)' /\ Exact(p)'
<1>1. User(c, p)' <=> User(c, p)
  BY DEF User
<1>2. Same(p)
  BY <1>1 DEF Same, SameSpace, SameCPU
<1>3. SameCount(p)
  BY DEF SameCount, SameSpace, SameCPU
<1>4. Owned(p) /\ Exact(p)
  BY DEF Good
<1> QED
  BY <1>2, <1>3, <1>4, OwnedSame, ExactSame

\* An entry is found or made for a fault or an increment.
LEMMA RefGood ==
  ASSUME CountFits, SpacesApart, Structure, Good, NEW c \in CPUs, NEW s \in Spaces,
         FaultRef(c, s) \/ IncrementRef(c, s)
  PROVE  Good'
<1> DEFINE T == {s}
           p == pte[s].page
<1>1. /\ Structure' /\ Others(c) /\ at[c] = {} /\ at'[c] = {s} /\ ~Busy(s)
      /\ p \in Pages /\ pte[s].cow /\ glock = None
      /\ pc[c] = "idle" /\ pc'[c] \in {"fault_count", "inc"} /\ page'[c] = p
      /\ entry'[p] = entry[p] \/ (entry[p] = None /\ entry'[p] = 0)
      /\ \A q \in Pages \ {p} : entry'[q] = entry[q]
      /\ UNCHANGED <<pte, glock, content, free, pin, new, view>>
  BY RefFacts
<1> HIDE DEF p
<1>2. /\ \A u \in Spaces \ T : SameSpace(u)
      /\ \A d \in CPUs \ {c} : SameCPU(d)
  BY <1>1, StepFrame
<1>3. /\ \A q : On(s, q) <=> pte[s].page = q
      /\ \A q : Counted(s, q) <=> pte[s].page = q /\ pte[s].cow
      /\ Sharing(s) <=> pte[s].cow
  BY <1>1, SpaceRuns
<1>4. /\ \A q : On(s, q)' <=> pte'[s].page = q /\ pc'[c] \notin CopySteps
      /\ \A q : Counted(s, q)' <=> /\ On(s, q)' /\ pte'[s].cow
                                   /\ pc'[c] # "fault_own"
      /\ Sharing(s)' <=> \/ pte'[s].cow /\ pc'[c] # "fault_own"
                         \/ pc'[c] \in MarkSteps
  <2>1. HandsApart' /\ s \in at'[c]
    BY <1>1 DEF Structure
  <2> QED
    BY <2>1, SpaceHeldNext
<1>5. SUFFICES ASSUME NEW q \in Pages PROVE Owned(q)' /\ Exact(q)'
  BY DEF Good
<1>6. \A u \in T : /\ On(u, q)' <=> On(u, q)
                   /\ On(u, q) => (Sharing(u)' <=> Sharing(u))
                   /\ Counted(u, q)' <=> Counted(u, q)
  BY <1>1, <1>3, <1>4 DEF CopySteps, MarkSteps
<1>7. /\ Dec(c, q)' <=> Dec(c, q)
      /\ Dying(c, q)' <=> Dying(c, q)
      /\ Under(c, q)' <=> Under(c, q)
      /\ Marks(c, q)' => Marks(c, q) /\ at'[c] = at[c]
  BY <1>1 DEF Dec, Dying, Under, Marks, DeathSteps, MarkSteps
<1>8. entry'[q] = entry[q] \/ (entry[q] = None /\ entry'[q] = 0)
  BY <1>1
<1>9. (new'[c] = q <=> new[c] = q) /\ (pin'[c] = q <=> pin[c] = q)
      /\ (q \in free' <=> q \in free)
  BY <1>1
<1> QED
  BY <1>1, <1>2, <1>6, <1>7, <1>8, <1>9, PageSame

\* cow_mark_page gets its entry.
LEMMA MarkRefGood ==
  ASSUME CountFits, Structure, Good, NEW c \in CPUs, MarkRef(c), pc'[c] # "idle"
  PROVE  Good'
<1> DEFINE T == at[c]
           p == pte[Head(todo[c])].page
           t == todo[c][Len(todo[c])]
<1>1. /\ Structure' /\ Others(c) /\ p \in Pages /\ pc[c] = "mark"
      /\ UNCHANGED <<glock, content, free, pin, new>>
      /\ pc'[c] = "mark_count" /\ at'[c] = at[c]
      /\ todo'[c] = todo[c] /\ page'[c] = p
      /\ UNCHANGED <<pte, view>>
      /\ entry'[p] = (IF entry[p] = None THEN 0 ELSE entry[p])
      /\ \A q \in Pages \ {p} : entry'[q] = entry[q]
  BY MarkRefFacts
<1> HIDE DEF p
<1>2. /\ \A u \in Spaces \ T : SameSpace(u)
      /\ \A d \in CPUs \ {c} : SameCPU(d)
  BY <1>1, StepFrame
<1>3. HandsApart /\ HandsApart'
  BY <1>1 DEF Structure
<1>4. SUFFICES ASSUME NEW q \in Pages PROVE Owned(q)' /\ Exact(q)'
  BY DEF Good
<1>5. \A u \in T : /\ On(u, q)' <=> On(u, q)
                   /\ On(u, q) => (Sharing(u)' <=> Sharing(u))
                   /\ Counted(u, q)' <=> Counted(u, q)
  <2> TAKE u \in T
  <2>1. /\ On(u, q) <=> pte[u].page = q /\ pc[c] \notin CopySteps
        /\ Counted(u, q) <=> On(u, q) /\ pte[u].cow /\ pc[c] # "fault_own"
        /\ Sharing(u) <=> (pte[u].cow /\ pc[c] # "fault_own") \/ pc[c] \in MarkSteps
    BY <1>3, SpaceHeld
  <2>2. /\ On(u, q)' <=> pte'[u].page = q /\ pc'[c] \notin CopySteps
        /\ Counted(u, q)' <=> On(u, q)' /\ pte'[u].cow /\ pc'[c] # "fault_own"
        /\ Sharing(u)' <=> (pte'[u].cow /\ pc'[c] # "fault_own") \/ pc'[c] \in MarkSteps
    BY <1>1, <1>3, SpaceHeldNext
  <2> QED
    BY <2>1, <2>2, <1>1 DEF CopySteps, MarkSteps
<1>6. /\ Dec(c, q)' <=> Dec(c, q)
      /\ Dying(c, q)' <=> Dying(c, q)
      /\ Under(c, q)' <=> Under(c, q)
      /\ Marks(c, q)' => Marks(c, q) /\ at'[c] = at[c]
  BY <1>1 DEF Dec, Dying, Under, Marks, DeathSteps, MarkSteps
<1>7. entry'[q] = entry[q] \/ (entry[q] = None /\ entry'[q] = 0)
  BY <1>1
<1>8. (new'[c] = q <=> new[c] = q) /\ (pin'[c] = q <=> pin[c] = q)
      /\ (q \in free' <=> q \in free)
  BY <1>1
<1> QED
  BY <1>1, <1>2, <1>5, <1>6, <1>7, <1>8, PageSame

\* The copy of a fault.
LEMMA FaultCopyGood ==
  ASSUME CountFits, Structure, Good, NEW c \in CPUs, FaultCopy(c)
  PROVE  Good'
<1> DEFINE T == at[c]
<1>1. /\ Structure' /\ Others(c)
      /\ pc[c] = "fault_copy" /\ pc'[c] = "fault_pte"
      /\ at'[c] = at[c] /\ page'[c] = page[c]
      /\ UNCHANGED <<pte, entry, glock, free, pin, view, new>>
  BY FaultCopyFacts
<1>2. /\ \A u \in Spaces \ T : SameSpace(u)
      /\ \A d \in CPUs \ {c} : SameCPU(d)
  BY <1>1, StepFrame
<1>3. HandsApart /\ HandsApart'
  BY <1>1 DEF Structure
<1>4. SUFFICES ASSUME NEW q \in Pages PROVE Owned(q)' /\ Exact(q)'
  BY DEF Good
<1>5. \A u \in T : /\ On(u, q)' <=> On(u, q)
                   /\ On(u, q) => (Sharing(u)' <=> Sharing(u))
                   /\ Counted(u, q)' <=> Counted(u, q)
  <2> TAKE u \in T
  <2>1. /\ On(u, q) <=> pte[u].page = q /\ pc[c] \notin CopySteps
        /\ Counted(u, q) <=> On(u, q) /\ pte[u].cow /\ pc[c] # "fault_own"
    BY <1>3, SpaceHeld
  <2>2. /\ On(u, q)' <=> pte'[u].page = q /\ pc'[c] \notin CopySteps
        /\ Counted(u, q)' <=> On(u, q)' /\ pte'[u].cow /\ pc'[c] # "fault_own"
    BY <1>1, <1>3, SpaceHeldNext
  <2> QED
    BY <2>1, <2>2, <1>1 DEF CopySteps
<1>6. /\ Dec(c, q)' <=> Dec(c, q)
      /\ Dying(c, q)' <=> Dying(c, q)
      /\ Under(c, q)' <=> Under(c, q)
      /\ Marks(c, q)' => Marks(c, q) /\ at'[c] = at[c]
  BY <1>1 DEF Dec, Dying, Under, Marks, DeathSteps, MarkSteps
<1>7. entry'[q] = entry[q] \/ (entry[q] = None /\ entry'[q] = 0)
  BY <1>1
<1>8. (new'[c] = q <=> new[c] = q) /\ (pin'[c] = q <=> pin[c] = q)
      /\ (q \in free' <=> q \in free)
  BY <1>1
<1> QED
  BY <1>1, <1>2, <1>5, <1>6, <1>7, <1>8, PageSame

\* The sole owner of a page gets it back writable.
LEMMA FaultOwnGood ==
  ASSUME CountFits, Structure, Good, NEW c \in CPUs, FaultOwn(c)
  PROVE  Good'
<1> DEFINE T == at[c]
           p == page[c]
<1>1. p \in Pages /\ new[c] = None /\ pc[c] = "fault_own"
  BY FaultShape DEF FaultOwn, FaultSteps, Structure, Locals, OtherLocals
<1>2. FaultOwn(c) /\ p = page[c]
  OBVIOUS
<1> HIDE DEF p
<1>3. /\ Structure' /\ Others(c)
      /\ pc'[c] = "idle" /\ at'[c] = {} /\ page'[c] = None /\ new'[c] = None
      /\ \E s \in Spaces : /\ at[c] = {s} /\ pte[s].cow /\ pte[s].page = page[c]
                           /\ pte'[s].page = p /\ ~pte'[s].cow
                           /\ \A u \in Spaces \ {s} : pte'[u] = pte[u]
      /\ UNCHANGED <<entry, glock, content, free, pin, view>>
  BY <1>1, <1>2, FaultPteFacts
<1>4. PICK s \in Spaces : /\ at[c] = {s} /\ pte[s].cow /\ pte[s].page = p
                          /\ pte'[s].page = p /\ ~pte'[s].cow
                          /\ \A u \in Spaces \ {s} : pte'[u] = pte[u]
  BY <1>2, <1>3
<1>5. /\ \A u \in Spaces \ T : SameSpace(u)
      /\ \A d \in CPUs \ {c} : SameCPU(d)
  BY <1>3, <1>4, StepFrame
<1>6. HandsApart
  BY DEF Structure
<1>7. SUFFICES ASSUME NEW q \in Pages PROVE Owned(q)' /\ Exact(q)'
  BY DEF Good
<1>8. /\ On(s, q) <=> pte[s].page = q /\ pc[c] \notin CopySteps
      /\ Counted(s, q) <=> On(s, q) /\ pte[s].cow /\ pc[c] # "fault_own"
      /\ Sharing(s) <=> (pte[s].cow /\ pc[c] # "fault_own") \/ pc[c] \in MarkSteps
  BY <1>4, <1>6, SpaceHeld
<1>9. /\ On(s, q)' <=> pte'[s].page = q
      /\ Counted(s, q)' <=> pte'[s].page = q /\ pte'[s].cow
      /\ Sharing(s)' <=> pte'[s].cow
  BY <1>3, <1>4, <1>6, SpaceRunsNext
<1>10. \A u \in T : /\ On(u, q)' <=> On(u, q)
                    /\ On(u, q) => (Sharing(u)' <=> Sharing(u))
                    /\ Counted(u, q)' <=> Counted(u, q)
  BY <1>1, <1>4, <1>8, <1>9 DEF CopySteps, MarkSteps
<1>11. /\ Dec(c, q)' <=> Dec(c, q)
       /\ Dying(c, q)' <=> Dying(c, q)
       /\ Under(c, q)' <=> Under(c, q)
       /\ Marks(c, q)' => Marks(c, q) /\ at'[c] = at[c]
  BY <1>1, <1>3 DEF Dec, Dying, Under, Marks, DeathSteps, MarkSteps
<1>12. entry'[q] = entry[q] \/ (entry[q] = None /\ entry'[q] = 0)
  BY <1>3
<1>13. (new'[c] = q <=> new[c] = q) /\ (pin'[c] = q <=> pin[c] = q)
       /\ (q \in free' <=> q \in free)
  BY <1>1, <1>3
<1> QED
  BY <1>3, <1>5, <1>10, <1>11, <1>12, <1>13, PageSame

-----------------------------------------------------------------------------
(* Pages whose users change *)

\* Spaces to be marked use their page.
MarkTwo ==
  \A d \in CPUs, p \in Pages : Marks(d, p) =>
    \E u, v \in Spaces : /\ u # v /\ u \in at[d] /\ v \in at[d]
                         /\ On(u, p) /\ On(v, p)

\* That follows from the structure.
LEMMA MarkTwoNow == Structure => MarkTwo
<1> SUFFICES ASSUME Structure, NEW d \in CPUs, NEW p \in Pages, Marks(d, p)
             PROVE  \E u, v \in Spaces : /\ u # v /\ u \in at[d] /\ v \in at[d]
                                         /\ On(u, p) /\ On(v, p)
  BY DEF MarkTwo
<1> DEFINE u == todo[d][1]
           v == todo[d][2]
<1>1. pc[d] \in MarkSteps /\ Len(todo[d]) = 2 /\ pte[u].page = p
  BY DEF Marks
<1>2. /\ u # v /\ at[d] = {u, v} /\ at[d] \subseteq Spaces
      /\ \A s, t \in at[d] : pte[s].page = pte[t].page
  BY <1>1, MarkShape
<1> HIDE DEF u, v
<1>3. u \in at[d] /\ v \in at[d] /\ pte[v].page = p /\ HandsApart
  BY <1>1, <1>2 DEF Structure
<1>4. On(u, p) /\ On(v, p)
  BY <1>1, <1>3, SpaceHeld DEF MarkSteps, CopySteps
<1> QED
  BY <1>2, <1>3, <1>4

\* After a step too.
LEMMA MarkTwoNext == Structure' => MarkTwo'
BY MarkTwoNow, PTL

\* A free page has no users.
LEMMA FreeUnused ==
  ASSUME Structure, NEW p \in Pages, Owned(p), p \in free
  PROVE  /\ \A s \in Spaces : ~On(s, p)
         /\ \A d \in CPUs : /\ ~User(d, p) /\ new[d] # p /\ ~Dying(d, p)
                            /\ ~Marks(d, p)
<1>1. \A s \in Spaces : ~On(s, p)
  BY DEF Owned, UsedNotFree
<1>2. \A d \in CPUs : ~User(d, p) /\ new[d] # p /\ ~Dying(d, p)
  BY DEF Owned, UsedNotFree, NewAlone, DyingAlone
<1>3. \A d \in CPUs : ~Marks(d, p)
  BY <1>1, MarkTwoNow DEF MarkTwo
<1> QED
  BY <1>1, <1>2, <1>3

\* After a step one space, and nobody else, has the page.
LEMMA SoleOwned ==
  ASSUME Structure', NEW p \in Pages, NEW s \in Spaces,
         \A u \in Spaces : On(u, p)' <=> u = s,
         \A d \in CPUs : ~User(d, p)' /\ new'[d] # p /\ ~Dying(d, p)',
         p \notin free'
  PROVE  Owned(p)'
<1>1. \A d \in CPUs : ~Marks(d, p)'
  BY MarkTwoNext DEF MarkTwo
<1> QED
  BY <1>1 DEF Owned, SpacesShare, OwnersAlone, UsedNotFree, NewAlone, DyingAlone,
              MarkedFirst, Kept

\* After a step the page is free.
LEMMA FreeOwned ==
  ASSUME Structure', NEW p \in Pages, \A u \in Spaces : ~On(u, p)',
         \A d \in CPUs : ~User(d, p)' /\ new'[d] # p /\ ~Dying(d, p)',
         p \in free'
  PROVE  Owned(p)'
<1>1. \A d \in CPUs : ~Marks(d, p)'
  BY MarkTwoNext DEF MarkTwo
<1> QED
  BY <1>1 DEF Owned, SpacesShare, OwnersAlone, UsedNotFree, NewAlone, DyingAlone,
              MarkedFirst, Kept

\* After a step one CPU has the page, for a copy or to free it.
LEMMA HeldOwned ==
  ASSUME Structure', NEW p \in Pages, NEW c \in CPUs, \A u \in Spaces : ~On(u, p)',
         \A d \in CPUs : ~User(d, p)', p \notin free',
         \A d \in CPUs : d # c => new'[d] # p /\ ~Dying(d, p)',
         (new'[c] = p /\ ~Dying(c, p)') \/ (new'[c] # p /\ Dying(c, p)')
  PROVE  Owned(p)'
<1>1. \A d \in CPUs : ~Marks(d, p)'
  BY MarkTwoNext DEF MarkTwo
<1> QED
  BY <1>1 DEF Owned, SpacesShare, OwnersAlone, UsedNotFree, NewAlone, DyingAlone,
              MarkedFirst, Kept

\* A page in use stays in use, and its spaces share it.
LEMMA SharedOwned ==
  ASSUME NEW p \in Pages, Owned(p),
         (\E s \in Spaces : On(s, p)) \/ (\E c \in CPUs : User(c, p)),
         (\E s \in Spaces : On(s, p)') \/ (\E c \in CPUs : User(c, p)'),
         \A u \in Spaces : On(u, p)' => Sharing(u)',
         \A d \in CPUs : /\ new'[d] = p => new[d] = p
                         /\ Dying(d, p)' => Dying(d, p)
                         /\ ~Marks(d, p)',
         p \in free' => p \in free
  PROVE  Owned(p)'
<1>1. p \notin free' /\ \A d \in CPUs : new'[d] # p /\ ~Dying(d, p)'
  BY DEF Owned, UsedNotFree
<1> QED
  BY <1>1 DEF Owned, SpacesShare, OwnersAlone, UsedNotFree, NewAlone, DyingAlone,
              MarkedFirst, Kept

\* A step of a space that runs leaves the other spaces and the CPUs alone.
LEMMA RunFrame ==
  ASSUME Structure, NEW s \in Spaces, ~Busy(s),
         UNCHANGED <<pc, at, todo, page, new, pin>>,
         \A u \in Spaces \ {s} : pte'[u] = pte[u]
  PROVE  /\ \A u \in Spaces \ {s} : SameSpace(u)
         /\ \A d \in CPUs : SameCPU(d)
         /\ \A p : On(s, p)' <=> pte'[s].page = p
         /\ \A p : Counted(s, p)' <=> pte'[s].page = p /\ pte'[s].cow
         /\ Sharing(s)' <=> pte'[s].cow
<1>1. ASSUME NEW u \in Spaces \ {s} PROVE SameSpace(u)
  <2>1. \A steps : InHands(u, steps)' <=> InHands(u, steps)
    BY DEF InHands
  <2>2. pte'[u] = pte[u]
    OBVIOUS
  <2> QED
    BY <2>1, <2>2 DEF SameSpace, On, Counted, Sharing
<1>2. ASSUME NEW d \in CPUs PROVE SameCPU(d)
  <2>1. pc[d] \in MarkSteps => pte'[todo[d][1]] = pte[todo[d][1]]
    <3> SUFFICES ASSUME pc[d] \in MarkSteps PROVE pte'[todo[d][1]] = pte[todo[d][1]]
      OBVIOUS
    <3>1. todo[d][1] \in at[d] /\ at[d] \subseteq Spaces
      BY MarkShape
    <3> QED
      BY <3>1 DEF Busy
  <2> QED
    BY <2>1 DEF SameCPU, User, Dec, Dying, Under, Marks
<1>3. \A steps : ~InHands(s, steps)'
  BY DEF Busy, InHands
<1> QED
  BY <1>1, <1>2, <1>3 DEF On, Counted, Sharing

\* A fresh page gets its only user.
LEMMA MapNewGood ==
  ASSUME CountFits, Structure, Good, NEW s \in Spaces, MapNew(s)
  PROVE  Good'
<1>1. /\ Structure' /\ ~Busy(s) /\ pte[s].page = None
      /\ UNCHANGED <<entry, glock, content, pin, pc, at, todo, page, new>>
      /\ \A t \in Spaces \ {s} : pte'[t] = pte[t]
      /\ \E p \in free : /\ free' = free \ {p} /\ p \in Pages
                         /\ pte'[s].page = p /\ ~pte'[s].cow
  BY MapNewFacts
<1>2. PICK p \in free : /\ free' = free \ {p} /\ p \in Pages
                        /\ pte'[s].page = p /\ ~pte'[s].cow
  BY <1>1
<1>3. /\ \A u \in Spaces \ {s} : SameSpace(u)
      /\ \A d \in CPUs : SameCPU(d)
      /\ \A q : On(s, q)' <=> pte'[s].page = q
      /\ \A q : Counted(s, q)' <=> pte'[s].page = q /\ pte'[s].cow
      /\ Sharing(s)' <=> pte'[s].cow
  BY <1>1, RunFrame
<1>4. /\ \A q : On(s, q) <=> pte[s].page = q
      /\ \A q : Counted(s, q) <=> pte[s].page = q /\ pte[s].cow
  BY <1>1, SpaceRuns
<1>5. None \notin Pages
  BY CowAssumption
<1>6. SUFFICES ASSUME NEW q \in Pages PROVE Owned(q)' /\ Exact(q)'
  BY DEF Good
<1>7. Owned(q) /\ Exact(q)
  BY DEF Good
<1>8. SameCount(q)
  BY <1>1, <1>2, <1>3, <1>4, <1>5 DEF SameCount, SameSpace, SameCPU
<1>9. Exact(q)'
  BY <1>1, <1>7, <1>8, ExactSame
<1>10. CASE q # p
  <2>1. Same(q)
    BY <1>1, <1>2, <1>3, <1>4, <1>5, <1>10 DEF Same, SameSpace, SameCPU
  <2> QED
    BY <2>1, <1>7, <1>9, OwnedSame
<1>11. CASE q = p
  <2>1. /\ \A u \in Spaces : ~On(u, q)
        /\ \A d \in CPUs : ~User(d, q) /\ new[d] # q /\ ~Dying(d, q)
    BY <1>2, <1>7, <1>11, FreeUnused
  <2>2. \A u \in Spaces : On(u, q)' <=> u = s
    BY <2>1, <1>2, <1>3, <1>11 DEF SameSpace
  <2>3. \A d \in CPUs : ~User(d, q)' /\ new'[d] # q /\ ~Dying(d, q)'
    BY <2>1, <1>3 DEF SameCPU
  <2>4. q \notin free'
    BY <1>2, <1>11
  <2>5. Owned(q)'
    BY <2>2, <2>3, <2>4, <1>1, SoleOwned
  <2> QED
    BY <2>5, <1>9
<1> QED
  BY <1>10, <1>11

\* A store changes no user of a page.
LEMMA WriteGood ==
  ASSUME CountFits, SpacesApart, Structure, Good, NEW s \in Spaces, Write(s)
  PROVE  Good'
<1>1. /\ Structure' /\ ~Busy(s)
      /\ UNCHANGED <<pte, entry, free, pin, pc, at, todo, page, new>>
  BY WriteFacts
<1>2. /\ \A u \in Spaces \ {s} : SameSpace(u)
      /\ \A d \in CPUs : SameCPU(d)
      /\ \A q : On(s, q)' <=> pte'[s].page = q
      /\ \A q : Counted(s, q)' <=> pte'[s].page = q /\ pte'[s].cow
      /\ Sharing(s)' <=> pte'[s].cow
  BY <1>1, RunFrame
<1>3. /\ \A q : On(s, q) <=> pte[s].page = q
      /\ \A q : Counted(s, q) <=> pte[s].page = q /\ pte[s].cow
      /\ Sharing(s) <=> pte[s].cow
  BY <1>1, SpaceRuns
<1>4. SUFFICES ASSUME NEW q \in Pages PROVE Owned(q)' /\ Exact(q)'
  BY DEF Good
<1>5. Owned(q) /\ Exact(q)
  BY DEF Good
<1>6. Same(q) /\ SameCount(q)
  BY <1>1, <1>2, <1>3 DEF Same, SameCount, SameSpace, SameCPU
<1> QED
  BY <1>1, <1>5, <1>6, OwnedSame, ExactSame

\* A page is mapped a second time: with the mapping it had, unmarked, it now has
\* two to be marked, or it is shared already and has one.
LEMMA ShareGood ==
  ASSUME CountFits, Structure, Good, NEW c \in CPUs, NEW s \in Spaces,
         NEW t \in Spaces, Share(c, s, t)
  PROVE  Good'
<1> DEFINE T == {s, t}
           p == pte[s].page
<1>1. /\ Structure' /\ Others(c) /\ s # t /\ ~Busy(s) /\ ~Busy(t)
      /\ pc[c] = "idle" /\ at[c] = {} /\ pc'[c] = "mark" /\ at'[c] = {s, t}
      /\ todo'[c] = (IF pte[s].cow THEN <<t>> ELSE <<s, t>>)
      /\ UNCHANGED <<entry, glock, content, free, pin, page, new>>
      /\ pte[t].page = None /\ p \in Pages
      /\ pte'[t].page = p /\ ~pte'[t].cow
      /\ \A u \in Spaces \ {t} : pte'[u] = pte[u]
  BY ShareFacts
<1>2. p = pte[s].page
  OBVIOUS
<1> HIDE DEF p
<1>3. /\ \A u \in Spaces \ T : SameSpace(u)
      /\ \A d \in CPUs \ {c} : SameCPU(d)
  BY <1>1, StepFrame
<1>4. /\ \A q : On(s, q) <=> pte[s].page = q
      /\ \A q : Counted(s, q) <=> pte[s].page = q /\ pte[s].cow
      /\ Sharing(s) <=> pte[s].cow
  BY <1>1, SpaceRuns
<1>5. /\ \A q : On(t, q) <=> pte[t].page = q
      /\ \A q : Counted(t, q) <=> pte[t].page = q /\ pte[t].cow
  BY <1>1, SpaceRuns
<1>6. HandsApart' /\ s \in at'[c] /\ t \in at'[c]
  BY <1>1 DEF Structure
<1>7. /\ \A q : On(s, q)' <=> pte'[s].page = q /\ pc'[c] \notin CopySteps
      /\ \A q : Counted(s, q)' <=> On(s, q)' /\ pte'[s].cow /\ pc'[c] # "fault_own"
      /\ Sharing(s)' <=> (pte'[s].cow /\ pc'[c] # "fault_own") \/ pc'[c] \in MarkSteps
  BY <1>6, SpaceHeldNext
<1>8. /\ \A q : On(t, q)' <=> pte'[t].page = q /\ pc'[c] \notin CopySteps
      /\ \A q : Counted(t, q)' <=> On(t, q)' /\ pte'[t].cow /\ pc'[c] # "fault_own"
      /\ Sharing(t)' <=> (pte'[t].cow /\ pc'[c] # "fault_own") \/ pc'[c] \in MarkSteps
  BY <1>6, SpaceHeldNext
<1>9. None \notin Pages /\ pte'[s] = pte[s] /\ pc'[c] \in MarkSteps
      /\ pc'[c] \notin CopySteps
  BY <1>1, CowAssumption DEF MarkSteps, CopySteps
<1>10. SUFFICES ASSUME NEW q \in Pages PROVE Owned(q)' /\ Exact(q)'
  BY DEF Good
<1>11. Owned(q) /\ Exact(q)
  BY DEF Good
<1>12. /\ Dec(c, q)' <=> Dec(c, q)
       /\ Dying(c, q)' <=> Dying(c, q)
       /\ Under(c, q)' <=> Under(c, q)
       /\ User(c, q)' <=> User(c, q)
  BY <1>1 DEF Dec, Dying, Under, User, DeathSteps
<1>13. Exact(q)'
  <2>1. SameCount(q)
    BY <1>1, <1>3, <1>4, <1>5, <1>7, <1>8, <1>9, <1>12
       DEF SameCount, SameSpace, SameCPU
  <2> QED
    BY <2>1, <1>1, <1>11, ExactSame
<1>14. CASE q # p
  <2>1. ~Marks(c, q)'
    <3>1. todo'[c][1] \in {s, t}
      BY <1>1
    <3> QED
      BY <3>1, <1>1, <1>2, <1>9, <1>14 DEF Marks
  <2>2. Same(q)
    BY <2>1, <1>1, <1>2, <1>3, <1>4, <1>5, <1>7, <1>8, <1>9, <1>12, <1>14
       DEF Same, SameSpace, SameCPU
  <2> QED
    BY <2>2, <1>11, <1>13, OwnedSame
<1>15. CASE q = p /\ pte[s].cow
  <2>1. On(s, q) /\ On(s, q)' /\ Sharing(s)' /\ Sharing(t)' /\ Sharing(s)
    BY <1>2, <1>4, <1>7, <1>8, <1>9, <1>15
  <2>2. \A u \in Spaces : On(u, q)' => Sharing(u)'
    <3> TAKE u \in Spaces
    <3>1. CASE u \in T
      BY <3>1, <2>1
    <3>2. CASE u \notin T
      BY <3>2, <2>1, <1>3, <1>11 DEF SameSpace, Owned, SpacesShare
    <3> QED
      BY <3>1, <3>2
  <2>3. \A d \in CPUs : ~Marks(d, q)'
    <3> TAKE d \in CPUs
    <3>1. CASE d = c
      <4>1. todo'[c] = <<t>>
        BY <1>1, <1>15
      <4>2. Len(todo'[c]) = 1
        BY <4>1
      <4> QED
        BY <3>1, <4>2 DEF Marks
    <3>2. CASE d # c
      <4>1. SUFFICES ASSUME Marks(d, q) PROVE FALSE
        BY <3>2, <1>3 DEF SameCPU
      <4>2. s \in at[d]
        BY <4>1, <2>1, <1>11 DEF Owned, MarkedFirst
      <4> QED
        BY <4>2, <1>1 DEF Busy
    <3> QED
      BY <3>1, <3>2
  <2>4. \A d \in CPUs : /\ new'[d] = q => new[d] = q
                        /\ Dying(d, q)' => Dying(d, q)
                        /\ ~Marks(d, q)'
    BY <2>3, <1>1, <1>3, <1>12 DEF SameCPU
  <2>5. Owned(q)'
    <3>1. q \in free' => q \in free
      BY <1>1
    <3>2. \E u \in Spaces : On(u, q)
      BY <2>1
    <3>3. \E u \in Spaces : On(u, q)'
      BY <2>1
    <3> QED
      BY <2>2, <2>4, <3>1, <3>2, <3>3, <1>11, SharedOwned
  <2> QED
    BY <2>5, <1>13
<1>16. CASE q = p /\ ~pte[s].cow
  <2>1. On(s, q) /\ ~Sharing(s) /\ On(s, q)' /\ On(t, q)' /\ Sharing(s)' /\ Sharing(t)'
    BY <1>1, <1>2, <1>4, <1>7, <1>8, <1>9, <1>16
  <2>2. \A u \in Spaces : On(u, q) => u = s
    BY <2>1, <1>11 DEF Owned, SpacesShare
  <2>3. \A d \in CPUs : ~User(d, q)
    BY <2>1, <1>11 DEF Owned, OwnersAlone
  <2>4. q \notin free /\ \A d \in CPUs : new[d] # q /\ ~Dying(d, q)
    BY <2>1, <1>11 DEF Owned, UsedNotFree
  <2>5. \A u \in Spaces : On(u, q)' <=> u \in {s, t}
    BY <2>1, <2>2, <1>3 DEF SameSpace
  <2>6. \A d \in CPUs : ~User(d, q)' /\ new'[d] # q /\ ~Dying(d, q)'
    BY <2>3, <2>4, <1>1, <1>3, <1>12 DEF SameCPU
  <2>7. \A d \in CPUs : d # c => ~Marks(d, q)'
    BY <2>2, <1>3, MarkTwoNow DEF SameCPU, MarkTwo
  <2>8. Owned(q)'
    BY <2>1, <2>4, <2>5, <2>6, <2>7, <1>1
       DEF Owned, SpacesShare, OwnersAlone, UsedNotFree, NewAlone, DyingAlone,
           MarkedFirst, Kept
  <2> QED
    BY <2>8, <1>13
<1> QED
  BY <1>14, <1>15, <1>16

\* A mapping is dropped: a marked one leaves its reference to be given up, an
\* unmarked one was the only user of its page.
LEMMA UnmapGood ==
  ASSUME CountFits, Structure, Good, NEW c \in CPUs, NEW s \in Spaces, Unmap(c, s)
  PROVE  Good'
<1> DEFINE T == {s}
           p == pte[s].page
<1>1. /\ Structure' /\ Others(c) /\ ~Busy(s) /\ pc[c] = "idle"
      /\ p \in Pages /\ pte'[s].page = None /\ ~pte'[s].cow
      /\ \A t \in Spaces \ {s} : pte'[t] = pte[t]
      /\ at'[c] = {} /\ at[c] = {} /\ new'[c] = None
      /\ UNCHANGED <<entry, glock, content, pin, new>>
      /\ \/ pte[s].cow /\ pc'[c] = "dec" /\ page'[c] = p /\ UNCHANGED free
         \/ ~pte[s].cow /\ pc'[c] = "idle" /\ free' = free \cup {p}
  BY UnmapFacts
<1>2. p = pte[s].page /\ None \notin Pages /\ HandsApart
  BY CowAssumption DEF Structure
<1> HIDE DEF p
<1>3. /\ \A u \in Spaces \ T : SameSpace(u)
      /\ \A d \in CPUs \ {c} : SameCPU(d)
  <2>1. /\ \A u \in T : u \in at[c] \/ ~Busy(u)
        /\ at[c] \subseteq T /\ at'[c] \subseteq T
        /\ \A u \in Spaces \ T : pte'[u] = pte[u]
    BY <1>1
  <2>2. Others(c)
    BY <1>1
  <2> HIDE DEF T
  <2> QED
    BY <2>1, <2>2, StepFrame
<1>4. /\ \A q : On(s, q) <=> pte[s].page = q
      /\ \A q : Counted(s, q) <=> pte[s].page = q /\ pte[s].cow
      /\ Sharing(s) <=> pte[s].cow
  BY <1>1, SpaceRuns
<1>5. /\ \A q : On(s, q)' <=> pte'[s].page = q
      /\ \A q : Counted(s, q)' <=> pte'[s].page = q /\ pte'[s].cow
  BY <1>1, <1>2, SpaceRunsNext
<1>6. SUFFICES ASSUME NEW q \in Pages PROVE Owned(q)' /\ Exact(q)'
  BY DEF Good
<1>7. Owned(q) /\ Exact(q)
  BY DEF Good
<1>8. ~On(s, q)' /\ ~Counted(s, q)'
  BY <1>1, <1>2, <1>5
<1>9. ~Dying(c, q) /\ ~Dying(c, q)' /\ ~Dec(c, q) /\ ~Under(c, q) /\ ~Marks(c, q)'
      /\ (Dec(c, q)' <=> q = p /\ pte[s].cow) /\ (Under(c, q)' <=> q = p /\ pte[s].cow)
  BY <1>1 DEF Dying, Dec, Under, Marks, DeathSteps, MarkSteps
<1>10. CASE q # p
  <2>1. /\ \A u \in T : /\ On(u, q)' <=> On(u, q)
                        /\ On(u, q) => (Sharing(u)' <=> Sharing(u))
                        /\ Counted(u, q)' <=> Counted(u, q)
        /\ Dec(c, q)' <=> Dec(c, q)
        /\ Dying(c, q)' <=> Dying(c, q)
        /\ Under(c, q)' <=> Under(c, q)
        /\ Marks(c, q)' => Marks(c, q) /\ at'[c] = at[c]
    BY <1>2, <1>4, <1>8, <1>9, <1>10
  <2>2. (new'[c] = q <=> new[c] = q) /\ (pin'[c] = q <=> pin[c] = q)
        /\ (q \in free' <=> q \in free) 
    BY <1>1, <1>10
  <2>3. entry'[q] = entry[q] \/ (entry[q] = None /\ entry'[q] = 0)
    BY <1>1
  <2>4. Structure'
    BY <1>1
  <2> HIDE DEF T
  <2> QED
    BY <2>1, <2>2, <2>3, <2>4, <1>3, PageSame
<1>11. CASE q = p /\ pte[s].cow
  <2>1. On(s, q) /\ Sharing(s) /\ Counted(s, q) /\ Dec(c, q)' /\ Under(c, q)'
    BY <1>2, <1>4, <1>9, <1>11
  <2>2. Exact(q)'
    <3>1. Refs(q)' = Refs(q) \ {s} /\ s \in Refs(q)
      BY <2>1, <1>3, <1>8 DEF Refs, SameSpace
    <3>2. Pins(q)' = Pins(q)
      BY <1>1 DEF Pins
    <3>3. Unders(q)' = Unders(q) \cup {c} /\ c \notin Unders(q)
      BY <2>1, <1>3, <1>9 DEF Unders, SameCPU
    <3>4. Cardinality(Refs(q)') = Cardinality(Refs(q)) - 1
      BY <3>1, <1>1, Sums, FS_RemoveElement
    <3>5. Cardinality(Unders(q)') = Cardinality(Unders(q)) + 1
      BY <3>3, <1>1, Sums, FS_AddElement
    <3>6. Expected(q)' = Expected(q)
      BY <3>2, <3>4, <3>5, <1>1, Sums
    <3> QED
      BY <3>6, <1>1, <1>7 DEF Exact
  <2>3. \A u \in Spaces : On(u, q)' => Sharing(u)'
    <3> TAKE u \in Spaces
    <3>1. CASE u = s
      BY <3>1, <1>8
    <3>2. CASE u # s
      BY <3>2, <2>1, <1>3, <1>7 DEF SameSpace, Owned, SpacesShare
    <3> QED
      BY <3>1, <3>2
  <2>4. \A d \in CPUs : ~Marks(d, q)'
    <3> TAKE d \in CPUs
    <3>1. CASE d = c
      BY <3>1, <1>9
    <3>2. CASE d # c
      <4>1. SUFFICES ASSUME Marks(d, q) PROVE FALSE
        BY <3>2, <1>3 DEF SameCPU
      <4>2. s \in at[d]
        BY <4>1, <2>1, <1>7 DEF Owned, MarkedFirst
      <4> QED
        BY <4>2, <1>1 DEF Busy
    <3> QED
      BY <3>1, <3>2
  <2>5. \A d \in CPUs : /\ new'[d] = q => new[d] = q
                        /\ Dying(d, q)' => Dying(d, q)
                        /\ ~Marks(d, q)'
    BY <2>4, <1>1, <1>3, <1>9 DEF SameCPU
  <2>6. q \in free' => q \in free
    BY <1>1, <1>11
  <2>7. (\E u \in Spaces : On(u, q)) /\ (\E d \in CPUs : User(d, q)')
    BY <2>1 DEF User
  <2>8. Owned(q)'
    BY <2>3, <2>5, <2>6, <2>7, <1>7, SharedOwned
  <2> QED
    BY <2>2, <2>8
<1>12. CASE q = p /\ ~pte[s].cow
  <2>1. On(s, q) /\ ~Sharing(s) /\ ~Counted(s, q) /\ ~Dec(c, q)' /\ ~Under(c, q)'
    BY <1>2, <1>4, <1>9, <1>12
  <2>2. Exact(q)'
    <3>1. SameCount(q)
      BY <2>1, <1>1, <1>3, <1>8, <1>9 DEF SameCount, SameSpace, SameCPU
    <3> QED
      BY <3>1, <1>1, <1>7, ExactSame
  <2>3. \A u \in Spaces : ~On(u, q)'
    <3>1. \A u \in Spaces : On(u, q) => u = s
      BY <2>1, <1>7 DEF Owned, SpacesShare
    <3> QED
      BY <3>1, <1>3, <1>8 DEF SameSpace
  <2>4. \A d \in CPUs : ~User(d, q) /\ new[d] # q /\ ~Dying(d, q)
    BY <2>1, <1>7 DEF Owned, OwnersAlone, UsedNotFree
  <2>5. \A d \in CPUs : ~User(d, q)' /\ new'[d] # q /\ ~Dying(d, q)'
    <3> TAKE d \in CPUs
    <3>1. CASE d = c
      <4>1. pin[c] # q /\ new[c] # q
        BY <2>4 DEF User
      <4> QED
        BY <3>1, <4>1, <2>1, <1>1, <1>9 DEF User
    <3>2. CASE d # c
      BY <3>2, <2>4, <1>3 DEF SameCPU
    <3> QED
      BY <3>1, <3>2
  <2>6. q \in free'
    BY <1>1, <1>12
  <2>7. Owned(q)'
    BY <2>3, <2>5, <2>6, <1>1, FreeOwned
  <2> QED
    BY <2>2, <2>7
<1> QED
  BY <1>10, <1>11, <1>12

\* cow_mark_page fails and the sharing is undone: the page has the spaces it had
\* before.
LEMMA MarkFailGood ==
  ASSUME CountFits, Structure, Good, NEW c \in CPUs, MarkRef(c), pc'[c] = "idle"
  PROVE  Good'
<1> DEFINE T == at[c]
           p == pte[Head(todo[c])].page
<1>0. PICK t : t = todo[c][Len(todo[c])]
  OBVIOUS
<1>1. /\ Structure' /\ Others(c) /\ p \in Pages /\ pc[c] = "mark"
      /\ UNCHANGED <<glock, content, free, pin, new>>
      /\ \A u \in Spaces \ {t} : pte'[u] = pte[u]
      /\ at'[c] = {} /\ UNCHANGED entry
      /\ pte'[t].page = None /\ ~pte'[t].cow
  BY <1>0, MarkRefFacts
<1>2. /\ Head(todo[c]) \in at[c] /\ t \in at[c] /\ ~pte[t].cow /\ at[c] \subseteq Spaces
      /\ \A u, v \in at[c] : pte[u].page = pte[v].page
      /\ Len(todo[c]) \in {1, 2}
      /\ Len(todo[c]) = 2 => /\ at[c] = {todo[c][1], t} /\ ~pte[todo[c][1]].cow
                             /\ todo[c][1] # t
      /\ Len(todo[c]) = 1 =>
           \E s \in Spaces : s # t /\ at[c] = {s, t} /\ pte[s].cow
      /\ Head(todo[c]) = todo[c][1]
  BY <1>0, <1>1, MarkShape DEF MarkSteps
<1>3. PICK s \in Spaces : s # t /\ at[c] = {s, t}
                          /\ (Len(todo[c]) = 1 => pte[s].cow)
                          /\ (Len(todo[c]) = 2 => ~pte[s].cow /\ s = todo[c][1])
  <2>1. CASE Len(todo[c]) = 1
    BY <2>1, <1>2
  <2>2. CASE Len(todo[c]) = 2
    BY <2>2, <1>2
  <2> QED
    BY <2>1, <2>2, <1>2
<1>4. pte[s].page = p /\ pte[t].page = p
  BY <1>2, <1>3
<1>5. None \notin Pages /\ HandsApart /\ s \in at[c] /\ t \in at[c] /\ t \in Spaces
      /\ pte'[s] = pte[s] /\ pc[c] \in MarkSteps /\ pc[c] \notin CopySteps
      /\ ~pte[t].cow /\ Len(todo[c]) \in {1, 2}
  BY <1>1, <1>2, <1>3, CowAssumption DEF Structure, MarkSteps, CopySteps
<1> HIDE DEF p
<1>6. /\ \A u \in Spaces \ T : SameSpace(u)
      /\ \A d \in CPUs \ {c} : SameCPU(d)
  <2>1. \A u \in Spaces \ T : pte'[u] = pte[u]
    BY <1>1, <1>5
  <2>2. at'[c] \subseteq T
    BY <1>1
  <2> QED
    BY <2>1, <2>2, <1>1, StepFrame
<1>7. /\ \A q : On(s, q) <=> pte[s].page = q /\ pc[c] \notin CopySteps
      /\ \A q : Counted(s, q) <=> On(s, q) /\ pte[s].cow /\ pc[c] # "fault_own"
      /\ Sharing(s) <=> (pte[s].cow /\ pc[c] # "fault_own") \/ pc[c] \in MarkSteps
  BY <1>5, SpaceHeld
<1>8. /\ \A q : On(t, q) <=> pte[t].page = q /\ pc[c] \notin CopySteps
      /\ \A q : Counted(t, q) <=> On(t, q) /\ pte[t].cow /\ pc[c] # "fault_own"
  BY <1>5, SpaceHeld
<1>9. /\ \A q : On(s, q)' <=> pte'[s].page = q
      /\ \A q : Counted(s, q)' <=> pte'[s].page = q /\ pte'[s].cow
      /\ Sharing(s)' <=> pte'[s].cow
  BY <1>1, <1>5, SpaceRunsNext
<1>10. /\ \A q : On(t, q)' <=> pte'[t].page = q
       /\ \A q : Counted(t, q)' <=> pte'[t].page = q /\ pte'[t].cow
  BY <1>1, <1>5, SpaceRunsNext
<1>11. SUFFICES ASSUME NEW q \in Pages PROVE Owned(q)' /\ Exact(q)'
  BY DEF Good
<1>12. Owned(q) /\ Exact(q)
  BY DEF Good
<1>13. ~Dying(c, q) /\ ~Dying(c, q)' /\ ~Dec(c, q) /\ ~Under(c, q) /\ ~Marks(c, q)'
       /\ ~Dec(c, q)' /\ ~Under(c, q)'
  BY <1>1 DEF Dying, Dec, Under, Marks, DeathSteps, MarkSteps
<1>14. User(c, q)' <=> User(c, q)
  BY <1>1, <1>13 DEF User
<1>15. Exact(q)'
  <2>1. \A u \in T : Counted(u, q)' <=> Counted(u, q)
    BY <1>1, <1>3, <1>5, <1>7, <1>8, <1>9, <1>10
  <2>2. SameCount(q)
    BY <2>1, <1>1, <1>6, <1>13 DEF SameCount, SameSpace, SameCPU
  <2> QED
    BY <2>2, <1>1, <1>12, ExactSame
<1>16. CASE q # p
  <2>1. \A u \in T : ~On(u, q)' /\ ~On(u, q)
    BY <1>1, <1>3, <1>4, <1>5, <1>7, <1>8, <1>9, <1>10, <1>16
  <2>2. Same(q)
    BY <2>1, <1>1, <1>6, <1>13, <1>14 DEF Same, SameSpace, SameCPU
  <2> QED
    BY <2>2, <1>12, <1>15, OwnedSame
<1>17. CASE q = p
  <2>1. On(s, q) /\ On(t, q) /\ On(s, q)' /\ ~On(t, q)' /\ Sharing(s)
    BY <1>1, <1>4, <1>5, <1>7, <1>8, <1>9, <1>10, <1>17
  <2>2. CASE Len(todo[c]) = 1
    <3>1. pte[s].cow /\ Sharing(s)'
      BY <2>2, <1>3, <1>5, <1>9
    <3>2. \A u \in Spaces : On(u, q)' => Sharing(u)'
      <4> TAKE u \in Spaces
      <4>1. CASE u = s \/ u = t
        BY <4>1, <3>1, <2>1
      <4>2. CASE u # s /\ u # t
        BY <4>2, <2>1, <1>3, <1>6, <1>12 DEF SameSpace, Owned, SpacesShare
      <4> QED
        BY <4>1, <4>2
    <3>3. \A d \in CPUs : ~Marks(d, q)'
      <4> TAKE d \in CPUs
      <4>1. CASE d = c
        BY <4>1, <1>13
      <4>2. CASE d # c
        <5>1. SUFFICES ASSUME Marks(d, q) PROVE FALSE
          BY <4>2, <1>6 DEF SameCPU
        <5>2. s \in at[d]
          BY <5>1, <2>1, <1>12 DEF Owned, MarkedFirst
        <5> QED
          BY <5>2, <4>2, <1>5 DEF HandsApart
      <4> QED
        BY <4>1, <4>2
    <3>4. \A d \in CPUs : /\ new'[d] = q => new[d] = q
                          /\ Dying(d, q)' => Dying(d, q)
                          /\ ~Marks(d, q)'
      BY <3>3, <1>1, <1>6, <1>13 DEF SameCPU
    <3>5. (q \in free' => q \in free) /\ (\E u \in Spaces : On(u, q))
          /\ (\E u \in Spaces : On(u, q)')
      BY <2>1, <1>1
    <3>6. Owned(q)'
      BY <3>2, <3>4, <3>5, <1>12, SharedOwned
    <3> QED
      BY <3>6, <1>15
  <2>3. CASE Len(todo[c]) = 2
    <3>1. Marks(c, q)
      BY <2>3, <1>3, <1>4, <1>5, <1>17 DEF Marks
    <3>2. (\A u \in Spaces : On(u, q) => u \in at[c]) /\ (\A d \in CPUs : ~User(d, q))
      BY <3>1, <1>12 DEF Owned, MarkedFirst
    <3>3. q \notin free /\ \A d \in CPUs : new[d] # q /\ ~Dying(d, q)
      BY <2>1, <1>12 DEF Owned, UsedNotFree
    <3>4. \A u \in Spaces : On(u, q)' <=> u = s
      BY <3>2, <2>1, <1>3, <1>6 DEF SameSpace
    <3>5. \A d \in CPUs : ~User(d, q)' /\ new'[d] # q /\ ~Dying(d, q)'
      BY <3>2, <3>3, <1>1, <1>6, <1>13, <1>14 DEF SameCPU
    <3>6. q \notin free'
      BY <3>3, <1>1
    <3>7. Owned(q)'
      BY <3>4, <3>5, <3>6, <1>1, SoleOwned
    <3> QED
      BY <3>7, <1>15
  <2> QED
    BY <2>2, <2>3, <1>5
<1> QED
  BY <1>16, <1>17

\* A reference more or less, counted.
LEMMA CountMoves ==
  ASSUME CountFits, Structure, Structure', NEW c \in CPUs, NEW p \in Pages,
         p = page[c], Exact(p), entry[p] # None, NEW d \in {1, -1}, AddCount(c, d),
         Expected(p)' = Expected(p) + d
  PROVE  Exact(p)' /\ entry'[p] # None
<1>1. CallTypes /\ SharedTypes
  BY TypesSplit DEF Structure
<1>2. entry'[p] = (entry[p] + d) % CountMod
  BY <1>1, CountTyped
<1>3. entry[p] = Expected(p)
  BY DEF Exact
<1>4. Expected(p)' \in 0..(CountMod - 1) /\ Expected(p) \in 0..(CountMod - 1)
  BY Sums
<1>5. CountMod \in Nat \ {0} /\ None \notin Nat
  BY CowAssumption
<1> DEFINE n == entry[p] + d
<1>6. n \in Int /\ -CountMod <= n /\ n < 2 * CountMod /\ n = Expected(p)'
      /\ 0 <= n /\ n < CountMod
  BY <1>3, <1>4, <1>5
<1> HIDE DEF n
<1>7. n % CountMod = n
  BY <1>5, <1>6, ModOnce
<1>8. entry'[p] = Expected(p)'
  BY <1>2, <1>6, <1>7 DEF n
<1> QED
  BY <1>4, <1>5, <1>8 DEF Exact

\* The counts of other pages stay.
LEMMA CountElsewhere ==
  ASSUME Structure, NEW c \in CPUs, page[c] \in Pages, NEW d \in {1, -1},
         AddCount(c, d), NEW q \in Pages, q # page[c]
  PROVE  entry'[q] = entry[q]
<1>1. CallTypes /\ SharedTypes
  BY TypesSplit DEF Structure
<1> QED
  BY <1>1, CountTyped

\* A mapping is counted before it is marked.
LEMMA MarkCountGood ==
  ASSUME CountFits, Structure, Good, EntryInv, NEW c \in CPUs, MarkCount(c)
  PROVE  Good'
<1> DEFINE T == at[c]
<1>1. /\ Structure' /\ Others(c) /\ page[c] \in Pages
      /\ pc[c] = "mark_count" /\ pc'[c] = "mark_pte"
      /\ at'[c] = at[c] /\ todo'[c] = todo[c] /\ page'[c] = page[c]
      /\ AddCount(c, 1)
      /\ UNCHANGED <<pte, glock, content, free, pin, view, new>>
  BY MarkCountFacts
<1>2. /\ \A u \in Spaces \ T : SameSpace(u)
      /\ \A d \in CPUs \ {c} : SameCPU(d)
  BY <1>1, StepFrame
<1>3. HandsApart /\ HandsApart'
  BY <1>1 DEF Structure
<1>4. SUFFICES ASSUME NEW q \in Pages PROVE Owned(q)' /\ Exact(q)'
  BY DEF Good
<1>5. \A u \in T : /\ On(u, q)' <=> On(u, q)
                   /\ On(u, q) => (Sharing(u)' <=> Sharing(u))
                   /\ Counted(u, q)' <=> Counted(u, q)
  <2> TAKE u \in T
  <2>1. /\ On(u, q) <=> pte[u].page = q /\ pc[c] \notin CopySteps
        /\ Counted(u, q) <=> On(u, q) /\ pte[u].cow /\ pc[c] # "fault_own"
        /\ Sharing(u) <=> (pte[u].cow /\ pc[c] # "fault_own") \/ pc[c] \in MarkSteps
    BY <1>3, SpaceHeld
  <2>2. /\ On(u, q)' <=> pte'[u].page = q /\ pc'[c] \notin CopySteps
        /\ Counted(u, q)' <=> On(u, q)' /\ pte'[u].cow /\ pc'[c] # "fault_own"
        /\ Sharing(u)' <=> (pte'[u].cow /\ pc'[c] # "fault_own") \/ pc'[c] \in MarkSteps
    BY <1>1, <1>3, SpaceHeldNext
  <2> QED
    BY <2>1, <2>2, <1>1 DEF CopySteps, MarkSteps
<1>6. /\ Dec(c, q)' <=> Dec(c, q)
      /\ Dying(c, q)' <=> Dying(c, q)
      /\ Marks(c, q)' => Marks(c, q) /\ at'[c] = at[c]
      /\ User(c, q)' <=> User(c, q)
  BY <1>1 DEF Dec, Dying, Under, Marks, User, DeathSteps, MarkSteps
<1>7. ~Under(c, q) /\ (Under(c, q)' <=> q = page[c])
  BY <1>1 DEF Under
<1>8. Owned(q) /\ Exact(q)
  BY DEF Good
<1>9. Owned(q)'
  <2>1. Same(q)
    BY <1>1, <1>2, <1>5, <1>6 DEF Same, SameSpace, SameCPU
  <2> QED
    BY <2>1, <1>8, OwnedSame
<1>10. Exact(q)'
  <2>1. CASE q # page[c]
    <3>1. SameCount(q)
      BY <2>1, <1>1, <1>2, <1>5, <1>7 DEF SameCount, SameSpace, SameCPU
    <3>2. entry'[q] = entry[q]
      BY <2>1, <1>1, CountElsewhere
    <3> QED
      BY <3>1, <3>2, <1>1, <1>8, ExactSame
  <2>2. CASE q = page[c]
    <3>1. Refs(q)' = Refs(q) /\ Pins(q)' = Pins(q)
      BY <1>1, <1>2, <1>5 DEF Refs, Pins, SameSpace
    <3>2. Unders(q)' = Unders(q) \cup {c} /\ c \notin Unders(q)
      BY <2>2, <1>2, <1>7 DEF Unders, SameCPU
    <3>3. Cardinality(Unders(q)') = Cardinality(Unders(q)) + 1
      BY <3>2, <1>1, Sums, FS_AddElement
    <3>4. Expected(q)' = Expected(q) + 1
      BY <3>1, <3>3, <1>1, Sums
    <3>5. entry[q] # None
      BY <2>2, <1>1 DEF EntryInv
    <3> QED
      BY <2>2, <3>4, <3>5, <1>1, <1>8, CountMoves
  <2> QED
    BY <2>1, <2>2
<1> QED
  BY <1>9, <1>10

\* A counted mapping is marked: its reference goes from the CPU to the space.
LEMMA MarkPteGood ==
  ASSUME CountFits, Structure, Good, NEW c \in CPUs, MarkPte(c)
  PROVE  Good'
<1> DEFINE T == at[c]
<1>0. PICK s : s = todo[c][1]
  OBVIOUS
<1>1. /\ Structure' /\ Others(c) /\ page[c] \in Pages /\ pc[c] = "mark_pte"
      /\ s \in at[c] /\ s \in Spaces
      /\ pte[s].page = page[c] /\ pte'[s].page = page[c] /\ pte'[s].cow
      /\ \A u \in Spaces \ {s} : pte'[u] = pte[u]
      /\ UNCHANGED <<entry, glock, content, free, pin, view, new>>
      /\ \/ Len(todo[c]) = 1 /\ pc'[c] = "idle" /\ at'[c] = {}
         \/ /\ Len(todo[c]) = 2 /\ pc'[c] = "mark" /\ at'[c] = at[c]
            /\ Len(todo'[c]) = 1
  BY <1>0, MarkPteFacts
<1>2. /\ at[c] \subseteq Spaces /\ ~pte[s].cow
      /\ Len(todo[c]) = 1 => \A u \in at[c] \ {s} : pte[u].cow
  <2>1. pc[c] \in MarkSteps
    BY <1>1 DEF MarkSteps
  <2> QED
    BY <2>1, <1>0, MarkShape
<1>3. /\ \A u \in Spaces \ T : SameSpace(u)
      /\ \A d \in CPUs \ {c} : SameCPU(d)
  <2>1. /\ \A u \in T : u \in at[c] \/ ~Busy(u)
        /\ at[c] \subseteq T /\ at'[c] \subseteq T
        /\ \A u \in Spaces \ T : pte'[u] = pte[u]
    BY <1>1
  <2>2. Others(c)
    BY <1>1
  <2> HIDE DEF T
  <2> QED
    BY <2>1, <2>2, StepFrame
<1>4. HandsApart /\ HandsApart'
  BY <1>1 DEF Structure
<1>5. SUFFICES ASSUME NEW q \in Pages PROVE Owned(q)' /\ Exact(q)'
  BY DEF Good
<1>6. ASSUME NEW u \in T
      PROVE  /\ On(u, q)' <=> On(u, q)
             /\ Sharing(u)' /\ Sharing(u)
             /\ Counted(u, q) <=> pte[u].page = q /\ pte[u].cow
             /\ Counted(u, q)' <=> pte[u].page = q /\ pte'[u].cow
  <2>1. /\ On(u, q) <=> pte[u].page = q /\ pc[c] \notin CopySteps
        /\ Counted(u, q) <=> On(u, q) /\ pte[u].cow /\ pc[c] # "fault_own"
        /\ Sharing(u) <=> (pte[u].cow /\ pc[c] # "fault_own") \/ pc[c] \in MarkSteps
    BY <1>4, SpaceHeld
  <2>2. pte'[u].page = pte[u].page /\ u \in Spaces
    BY <1>1, <1>2
  <2>3. CASE at'[c] = {} /\ Len(todo[c]) = 1
    <3>1. /\ On(u, q)' <=> pte'[u].page = q
          /\ Counted(u, q)' <=> pte'[u].page = q /\ pte'[u].cow
          /\ Sharing(u)' <=> pte'[u].cow
      BY <2>3, <1>1, <1>4, SpaceRunsNext
    <3>2. pte'[u].cow
      BY <2>2, <2>3, <1>1, <1>2
    <3> QED
      BY <2>1, <2>2, <3>1, <3>2, <1>1 DEF MarkSteps, CopySteps
  <2>4. CASE pc'[c] = "mark" /\ at'[c] = at[c]
    <3>1. /\ On(u, q)' <=> pte'[u].page = q /\ pc'[c] \notin CopySteps
          /\ Counted(u, q)' <=> On(u, q)' /\ pte'[u].cow /\ pc'[c] # "fault_own"
          /\ Sharing(u)' <=> (pte'[u].cow /\ pc'[c] # "fault_own") \/ pc'[c] \in MarkSteps
      BY <2>4, <1>4, SpaceHeldNext
    <3> QED
      BY <2>1, <2>2, <2>4, <3>1, <1>1 DEF MarkSteps, CopySteps
  <2> QED
    BY <2>3, <2>4, <1>1
<1>7. /\ ~Dec(c, q)' /\ ~Dec(c, q) /\ ~Dying(c, q)' /\ ~Dying(c, q)
      /\ ~Under(c, q)' /\ (Under(c, q) <=> q = page[c]) /\ ~Marks(c, q)'
      /\ User(c, q)' <=> User(c, q)
  BY <1>1 DEF Dec, Dying, Under, Marks, User, DeathSteps, MarkSteps
<1>8. Owned(q) /\ Exact(q)
  BY DEF Good
<1>9. Owned(q)'
  <2>1. Same(q)
    BY <1>1, <1>3, <1>6, <1>7 DEF Same, SameSpace, SameCPU
  <2> QED
    BY <2>1, <1>8, OwnedSame
<1>10. \A u \in T \ {s} : Counted(u, q)' <=> Counted(u, q)
  BY <1>1, <1>2, <1>6
<1>11. Exact(q)'
  <2>1. CASE q # page[c]
    <3>1. ~Counted(s, q)' /\ ~Counted(s, q)
      BY <2>1, <1>1, <1>6
    <3>2. SameCount(q)
      BY <2>1, <3>1, <1>1, <1>3, <1>7, <1>10 DEF SameCount, SameSpace, SameCPU
    <3> QED
      BY <3>2, <1>1, <1>8, ExactSame
  <2>2. CASE q = page[c]
    <3>1. ~Counted(s, q) /\ Counted(s, q)'
      BY <2>2, <1>1, <1>2, <1>6
    <3>2. Refs(q)' = Refs(q) \cup {s} /\ s \notin Refs(q)
      BY <3>1, <1>1, <1>3, <1>10 DEF Refs, SameSpace
    <3>3. Pins(q)' = Pins(q)
      BY <1>1 DEF Pins
    <3>4. Unders(q)' = Unders(q) \ {c} /\ c \in Unders(q)
      BY <2>2, <1>3, <1>7 DEF Unders, SameCPU
    <3>5. Cardinality(Refs(q)') = Cardinality(Refs(q)) + 1
      <4>1. IsFiniteSet(Refs(q))
        BY <1>1, Sums
      <4> QED
        BY <4>1, <3>2, FS_AddElement
    <3>6. Cardinality(Unders(q)') = Cardinality(Unders(q)) - 1
      BY <3>4, <1>1, Sums, FS_RemoveElement
    <3>7. Expected(q)' = Expected(q)
      BY <3>3, <3>5, <3>6, <1>1, Sums
    <3> QED
      BY <3>7, <1>1, <1>8 DEF Exact
  <2> QED
    BY <2>1, <2>2
<1> QED
  BY <1>9, <1>11

-----------------------------------------------------------------------------
(* The last reference and the others *)

\* One element among three sets.
LEMMA OnlyOne ==
  ASSUME NEW R, NEW P, NEW U, IsFiniteSet(R), IsFiniteSet(P), IsFiniteSet(U),
         NEW x \in R, NEW n, n = Cardinality(R) + Cardinality(P) + Cardinality(U)
  PROVE  n \in Nat /\ n >= 1 /\ (n = 1 <=> R = {x} /\ P = {} /\ U = {})
<1>1. Cardinality(R) \in Nat /\ Cardinality(P) \in Nat /\ Cardinality(U) \in Nat
  BY FS_CardinalityType
<1>2. Cardinality(R) # 0 /\ (Cardinality(P) = 0 <=> P = {})
      /\ (Cardinality(U) = 0 <=> U = {})
  BY FS_EmptySet
<1>3. IsFiniteSet(R \ {x}) /\ Cardinality(R \ {x}) = Cardinality(R) - 1
  BY FS_RemoveElement
<1>4. Cardinality(R \ {x}) = 0 <=> R \ {x} = {}
  BY <1>3, FS_EmptySet
<1>5. R \ {x} = {} <=> R = {x}
  OBVIOUS
<1>6. Cardinality(R) = 1 <=> R = {x}
  BY <1>1, <1>3, <1>4, <1>5
<1>7. n \in Nat /\ n >= 1
      /\ (n = 1 <=> Cardinality(R) = 1 /\ Cardinality(P) = 0 /\ Cardinality(U) = 0)
  BY <1>1, <1>2
<1> QED
  BY <1>2, <1>6, <1>7, Zenon

\* A space that is counted, and whether it is the only one.
LEMMA CountedOne ==
  ASSUME CountFits, Structure, NEW p \in Pages, Exact(p), NEW s \in Spaces,
         Counted(s, p)
  PROVE  /\ entry[p] # None /\ entry[p] = Expected(p)
         /\ entry[p] = 1 <=> Refs(p) = {s} /\ Pins(p) = {} /\ Unders(p) = {}
<1> DEFINE R == Refs(p)
           P == Pins(p)
           U == Unders(p)
           n == Expected(p)
<1>1. n = Cardinality(R) + Cardinality(P) + Cardinality(U) /\ s \in R
  BY PartsNow DEF Parts, Refs
<1>2. R \in SUBSET Spaces /\ P \in SUBSET CPUs /\ U \in SUBSET CPUs
  BY DEF Refs, Pins, Unders
<1> HIDE DEF R, P, U, n
<1>3. IsFiniteSet(R) /\ IsFiniteSet(P) /\ IsFiniteSet(U)
  BY <1>1, <1>2, SmallSets
<1>4. n \in Nat /\ n >= 1 /\ (n = 1 <=> R = {s} /\ P = {} /\ U = {})
  BY <1>1, <1>3, OnlyOne
<1>5. IF entry[p] = None THEN n = 0 ELSE entry[p] = n
  BY DEF Exact, n
<1>6. entry[p] # None /\ entry[p] = n
  BY <1>4, <1>5
<1> QED
  BY <1>4, <1>6 DEF R, P, U, n

\* The same for a CPU.
LEMMA UnderOne ==
  ASSUME CountFits, Structure, NEW p \in Pages, Exact(p), NEW c \in CPUs,
         Under(c, p)
  PROVE  /\ entry[p] # None /\ entry[p] = Expected(p)
         /\ entry[p] = 1 <=> Unders(p) = {c} /\ Pins(p) = {} /\ Refs(p) = {}
<1> DEFINE R == Refs(p)
           P == Pins(p)
           U == Unders(p)
           n == Expected(p)
<1>1. n = Cardinality(R) + Cardinality(P) + Cardinality(U) /\ c \in U
  BY PartsNow DEF Parts, Unders
<1>2. R \in SUBSET Spaces /\ P \in SUBSET CPUs /\ U \in SUBSET CPUs
  BY DEF Refs, Pins, Unders
<1> HIDE DEF R, P, U, n
<1>3. IsFiniteSet(R) /\ IsFiniteSet(P) /\ IsFiniteSet(U)
      /\ Cardinality(R) \in Nat /\ Cardinality(P) \in Nat /\ Cardinality(U) \in Nat
  BY <1>1, <1>2, SmallSets
<1>4. n = Cardinality(U) + Cardinality(P) + Cardinality(R)
  BY <1>1, <1>3
<1>5. n \in Nat /\ n >= 1 /\ (n = 1 <=> U = {c} /\ P = {} /\ R = {})
  BY <1>1, <1>3, <1>4, OnlyOne
<1>6. IF entry[p] = None THEN n = 0 ELSE entry[p] = n
  BY DEF Exact, n
<1>7. entry[p] # None /\ entry[p] = n
  BY <1>5, <1>6
<1> QED
  BY <1>5, <1>7 DEF R, P, U, n

\* A space that shares a page is counted, or it is to be marked together with
\* one that is or with the only other user.
LEMMA SharersCounted ==
  ASSUME Structure, NEW u \in Spaces, NEW p \in Pages, On(u, p), Sharing(u)
  PROVE  \/ Counted(u, p)
         \/ \E d \in CPUs : /\ u \in at[d] /\ pc[d] \in MarkSteps
                            /\ \/ Marks(d, p)
                               \/ \E v \in Spaces : v \in at[d] /\ Counted(v, p)
<1>1. CASE InHands(u, MarkSteps)
  <2>1. PICK d \in CPUs : u \in at[d] /\ pc[d] \in MarkSteps
    BY <1>1 DEF InHands
  <2>2. /\ Len(todo[d]) \in {1, 2}
        /\ Len(todo[d]) = 1 =>
             \E s \in Spaces : s # todo[d][1] /\ at[d] = {s, todo[d][1]} /\ pte[s].cow
        /\ todo[d][1] \in at[d]
        /\ \A s, t \in at[d] : pte[s].page = pte[t].page
    BY <2>1, MarkShape
  <2>3. \A s \in at[d] : pte[s].page = p
    BY <2>1, <2>2 DEF On
  <2>4. CASE Len(todo[d]) = 2
    BY <2>1, <2>2, <2>3, <2>4 DEF Marks
  <2>5. CASE Len(todo[d]) = 1
    <3>1. PICK v \in Spaces : v \in at[d] /\ pte[v].cow
      BY <2>2, <2>5
    <3>2. HandsApart /\ pc[d] \notin CopySteps /\ pc[d] # "fault_own"
      BY <2>1 DEF Structure, MarkSteps, CopySteps
    <3>3. Counted(v, p)
      BY <3>1, <3>2, <2>3, SpaceHeld
    <3> QED
      BY <3>1, <3>3, <2>1
  <2> QED
    BY <2>2, <2>4, <2>5
<1>2. CASE pte[u].cow /\ ~InHands(u, {"fault_own"})
  BY <1>2 DEF Counted
<1> QED
  BY <1>1, <1>2 DEF Sharing

\* A mark or a decrement under way has a user.
LEMMA UnderUses ==
  ASSUME Structure, NEW d \in CPUs, NEW p \in Pages, Under(d, p)
  PROVE  User(d, p) \/ \E v \in Spaces : v \in at[d] /\ On(v, p)
<1>1. CASE pc[d] = "dec"
  BY <1>1 DEF Under, User, Dec
<1>2. CASE pc[d] = "mark_pte"
  <2>1. pc[d] \in MarkSteps /\ pc[d] # "mark" /\ pc[d] \notin CopySteps
    BY <1>2 DEF MarkSteps, CopySteps
  <2>2. /\ todo[d][1] \in at[d] /\ at[d] \subseteq Spaces
        /\ \A s \in at[d] : pte[s].page = page[d]
    BY <2>1, MarkShape
  <2>3. HandsApart /\ page[d] = p
    BY DEF Structure, Under
  <2>4. On(todo[d][1], p)
    BY <2>1, <2>2, <2>3, SpaceHeld
  <2> QED
    BY <2>2, <2>4
<1> QED
  BY <1>1, <1>2 DEF Under

\* A fault gives up the reference of its space.  If it was the only one the
\* space is the only user and keeps the page; otherwise the page keeps users,
\* and its spaces share it.
LEMMA FaultCountGood ==
  ASSUME CountFits, Structure, Good, NEW c \in CPUs, FaultCount(c), NEW p,
         p = page[c]
  PROVE  /\ Good' /\ p \in Pages /\ p \notin free /\ entry'[p] # None
         /\ pc'[c] = "fault_alloc" =>
              \A u \in Spaces : On(u, p)' => Sharing(u)'
<1>1. /\ Structure' /\ Others(c) /\ p \in Pages /\ AddCount(c, -1)
      /\ pc[c] = "fault_count" /\ at'[c] = at[c] /\ page'[c] = p
      /\ \/ entry[p] = 1 /\ pc'[c] = "fault_own"
         \/ entry[p] # 1 /\ pc'[c] = "fault_alloc"
      /\ UNCHANGED <<pte, glock, content, free, pin, view, new>>
  BY FaultCountFacts
<1>2. PICK s \in Spaces : at[c] = {s} /\ pte[s].cow /\ pte[s].page = p
  BY <1>1, FaultShape DEF FaultSteps
<1>3. HandsApart /\ HandsApart' /\ s \in at[c] /\ s \in at'[c]
  BY <1>1, <1>2 DEF Structure
<1> DEFINE T == {s}
<1>4. /\ \A u \in Spaces \ T : SameSpace(u)
      /\ \A d \in CPUs \ {c} : SameCPU(d)
  <2>1. /\ \A u \in T : u \in at[c] \/ ~Busy(u)
        /\ at[c] \subseteq T /\ at'[c] \subseteq T
        /\ \A u \in Spaces \ T : pte'[u] = pte[u]
    BY <1>1, <1>2
  <2>2. Others(c)
    BY <1>1
  <2> HIDE DEF T
  <2> QED
    BY <2>1, <2>2, StepFrame
<1>5. /\ \A q : On(s, q) <=> q = p
      /\ \A q : Counted(s, q) <=> q = p
      /\ Sharing(s)
  <2>1. /\ \A q : On(s, q) <=> pte[s].page = q /\ pc[c] \notin CopySteps
        /\ \A q : Counted(s, q) <=> On(s, q) /\ pte[s].cow /\ pc[c] # "fault_own"
        /\ Sharing(s) <=> (pte[s].cow /\ pc[c] # "fault_own") \/ pc[c] \in MarkSteps
    BY <1>3, SpaceHeld
  <2> QED
    BY <2>1, <1>1, <1>2 DEF CopySteps
<1>6. /\ \A q : On(s, q)' <=> q = p /\ pc'[c] = "fault_own"
      /\ \A q : ~Counted(s, q)'
      /\ ~Sharing(s)' \/ pc'[c] = "fault_alloc"
  <2>1. /\ \A q : On(s, q)' <=> pte'[s].page = q /\ pc'[c] \notin CopySteps
        /\ \A q : Counted(s, q)' <=> On(s, q)' /\ pte'[s].cow /\ pc'[c] # "fault_own"
        /\ Sharing(s)' <=> (pte'[s].cow /\ pc'[c] # "fault_own") \/ pc'[c] \in MarkSteps
    BY <1>3, SpaceHeldNext
  <2> QED
    BY <2>1, <1>1, <1>2 DEF CopySteps, MarkSteps
<1>7. \A q : /\ ~Dec(c, q)' /\ ~Dec(c, q) /\ ~Dying(c, q)' /\ ~Dying(c, q)
             /\ ~Under(c, q)' /\ ~Under(c, q) /\ ~Marks(c, q)'
             /\ User(c, q)' <=> User(c, q)
  BY <1>1 DEF Dec, Dying, Under, Marks, User, DeathSteps, MarkSteps
<1>8. Owned(p) /\ Exact(p)
  BY <1>1 DEF Good
<1>9. p \notin free /\ \A d \in CPUs : new[d] # p /\ ~Dying(d, p)
  BY <1>5, <1>8 DEF Owned, UsedNotFree
<1>10. /\ entry[p] # None /\ entry[p] = Expected(p)
       /\ entry[p] = 1 <=> Refs(p) = {s} /\ Pins(p) = {} /\ Unders(p) = {}
  BY <1>1, <1>5, <1>8, CountedOne
<1>11. Exact(p)' /\ entry'[p] # None
  <2>1. Refs(p)' = Refs(p) \ {s} /\ s \in Refs(p)
    BY <1>4, <1>5, <1>6 DEF Refs, SameSpace
  <2>2. Pins(p)' = Pins(p)
    BY <1>1 DEF Pins
  <2>3. Unders(p)' = Unders(p)
    BY <1>4, <1>7 DEF Unders, SameCPU
  <2>4. Structure'
    BY <1>1
  <2>5. Cardinality(Refs(p)') = Cardinality(Refs(p)) - 1
    BY <2>1, <2>4, <1>1, Sums, FS_RemoveElement
  <2>6. Expected(p)' = Expected(p) + (-1)
    BY <2>2, <2>3, <2>4, <2>5, <1>1, Sums
  <2> QED
    BY <2>4, <2>6, <1>1, <1>8, <1>10, CountMoves
<1>12. \A d \in CPUs : d # c => s \notin at[d]
  BY <1>3 DEF HandsApart
<1>13. \A d \in CPUs : ~Marks(d, p)'
  <2> TAKE d \in CPUs
  <2>1. CASE d = c
    BY <2>1, <1>7
  <2>2. CASE d # c
    BY <2>2, <1>4, <1>5, <1>8, <1>12 DEF SameCPU, Owned, MarkedFirst
  <2> QED
    BY <2>1, <2>2
<1>14. ASSUME entry[p] = 1, pc'[c] = "fault_own" PROVE Owned(p)'
  <2>1. Refs(p) = {s} /\ Pins(p) = {} /\ Unders(p) = {}
    BY <1>10, <1>14
  <2>2. \A v \in Spaces : Counted(v, p) => v = s
    BY <2>1 DEF Refs
  <2>3. \A d \in CPUs : ~User(d, p)
    BY <2>1 DEF Pins, Unders, Under, User, Dec
  <2>4. \A u \in Spaces : On(u, p) => u = s
    <3> SUFFICES ASSUME NEW u \in Spaces, On(u, p), u # s PROVE FALSE
      OBVIOUS
    <3>1. Sharing(u)
      BY <1>5, <1>8 DEF Owned, SpacesShare
    <3>2. PICK d \in CPUs : /\ u \in at[d] /\ pc[d] \in MarkSteps
                            /\ \/ Marks(d, p)
                               \/ \E v \in Spaces : v \in at[d] /\ Counted(v, p)
      BY <3>1, <2>2, <1>1, SharersCounted
    <3>3. s \in at[d]
      BY <3>2, <2>2, <1>5, <1>8 DEF Owned, MarkedFirst
    <3> QED
      BY <3>2, <3>3, <1>1, <1>12 DEF MarkSteps
  <2>5. \A u \in Spaces : On(u, p)' <=> u = s
    BY <2>4, <1>4, <1>6, <1>14 DEF SameSpace
  <2>6. \A d \in CPUs : ~User(d, p)' /\ new'[d] # p /\ ~Dying(d, p)'
    BY <2>3, <1>1, <1>4, <1>7, <1>9 DEF SameCPU
  <2>7. p \notin free' /\ Structure' /\ p \in Pages
    BY <1>1, <1>9
  <2> QED
    BY <2>5, <2>6, <2>7, SoleOwned
<1>15. ASSUME entry[p] # 1, pc'[c] = "fault_alloc" PROVE Owned(p)'
  <2>1. \A u \in Spaces : On(u, p)' => Sharing(u)'
    BY <1>4, <1>5, <1>6, <1>8, <1>15 DEF SameSpace, Owned, SpacesShare
  <2>2. (\E u \in Spaces : On(u, p)') \/ (\E d \in CPUs : User(d, p)')
    <3>1. ~(Refs(p) = {s} /\ Pins(p) = {} /\ Unders(p) = {})
      BY <1>10, <1>15
    <3>2. CASE Refs(p) # {s}
      <4>1. s \in Refs(p)
        BY <1>5 DEF Refs
      <4>2. PICK v \in Refs(p) : v # s
        BY <3>2, <4>1
      <4>3. v \in Spaces /\ On(v, p)
        BY <4>2 DEF Refs, Counted
      <4> QED
        BY <4>2, <4>3, <1>4 DEF SameSpace
    <3>3. CASE Pins(p) # {}
      <4>1. PICK d \in CPUs : pin[d] = p
        BY <3>3 DEF Pins
      <4> QED
        BY <4>1, <1>1 DEF User
    <3>4. CASE Unders(p) # {}
      <4>1. PICK d \in CPUs : Under(d, p)
        BY <3>4 DEF Unders
      <4>2. d # c
        BY <4>1, <1>7
      <4>3. User(d, p) \/ \E v \in Spaces : v \in at[d] /\ On(v, p)
        BY <4>1, <1>1, UnderUses
      <4>4. CASE User(d, p)
        BY <4>2, <4>4, <1>4 DEF SameCPU
      <4>5. ASSUME NEW v \in Spaces, v \in at[d], On(v, p) PROVE On(v, p)'
        BY <4>2, <4>5, <1>4, <1>12 DEF SameSpace
      <4> QED
        BY <4>3, <4>4, <4>5
    <3> QED
      BY <3>1, <3>2, <3>3, <3>4
  <2>3. \A d \in CPUs : /\ new'[d] = p => new[d] = p
                        /\ Dying(d, p)' => Dying(d, p)
                        /\ ~Marks(d, p)'
    BY <1>1, <1>4, <1>7, <1>13 DEF SameCPU
  <2>4. (p \in free' => p \in free) /\ p \in Pages
    BY <1>1
  <2>5. \E u \in Spaces : On(u, p)
    BY <1>5
  <2> QED
    BY <2>1, <2>2, <2>3, <2>4, <2>5, <1>8, SharedOwned
<1>16. Owned(p)'
  BY <1>1, <1>14, <1>15
<1>17. ASSUME NEW q \in Pages, q # p PROVE Owned(q)' /\ Exact(q)'
  <2>1. \A u \in T : /\ On(u, q)' <=> On(u, q)
                     /\ On(u, q) => (Sharing(u)' <=> Sharing(u))
                     /\ Counted(u, q)' <=> Counted(u, q)
    BY <1>5, <1>6, <1>17
  <2>2. /\ Dec(c, q)' <=> Dec(c, q)
        /\ Dying(c, q)' <=> Dying(c, q)
        /\ Under(c, q)' <=> Under(c, q)
        /\ Marks(c, q)' => Marks(c, q) /\ at'[c] = at[c]
    BY <1>7
  <2>3. entry'[q] = entry[q]
    BY <1>1, <1>17, CountElsewhere
  <2>4. (new'[c] = q <=> new[c] = q) /\ (pin'[c] = q <=> pin[c] = q)
        /\ (q \in free' <=> q \in free) /\ Structure'
    BY <1>1
  <2> HIDE DEF T
  <2> QED
    BY <2>1, <2>2, <2>3, <2>4, <1>4, PageSame
<1>18. Good'
  BY <1>11, <1>16, <1>17 DEF Good
<1>19. pc'[c] = "fault_alloc" => \A u \in Spaces : On(u, p)' => Sharing(u)'
  BY <1>4, <1>5, <1>6, <1>8 DEF SameSpace, Owned, SpacesShare
<1> QED
  BY <1>1, <1>9, <1>11, <1>18, <1>19

\* A caller counts one more reference to a page that a space shares.
LEMMA IncrementGood ==
  ASSUME CountFits, Structure, Good, NEW c \in CPUs, Increment(c)
  PROVE  Good'
<1>0. PICK p : p = page[c]
  OBVIOUS
<1>1. /\ Structure' /\ Others(c) /\ p \in Pages /\ AddCount(c, 1)
      /\ pc[c] = "inc" /\ pc'[c] = "idle" /\ at'[c] = {}
      /\ new'[c] = None /\ new[c] = None
      /\ pin[c] = None /\ pin'[c] = p
      /\ UNCHANGED <<pte, glock, content, free, view>>
  BY <1>0, IncrementFacts
<1>2. PICK s \in Spaces : at[c] = {s} /\ pte[s].cow /\ pte[s].page = p
  BY <1>0, <1>1, FaultShape
<1>3. HandsApart /\ s \in at[c] /\ s \notin at'[c] /\ None \notin Pages
  BY <1>1, <1>2, CowAssumption DEF Structure
<1> DEFINE T == {s}
<1>4. /\ \A u \in Spaces \ T : SameSpace(u)
      /\ \A d \in CPUs \ {c} : SameCPU(d)
  <2>1. /\ \A u \in T : u \in at[c] \/ ~Busy(u)
        /\ at[c] \subseteq T /\ at'[c] \subseteq T
        /\ \A u \in Spaces \ T : pte'[u] = pte[u]
    BY <1>1, <1>2
  <2>2. Others(c)
    BY <1>1
  <2> HIDE DEF T
  <2> QED
    BY <2>1, <2>2, StepFrame
<1>5. /\ \A q : On(s, q) <=> q = p
      /\ \A q : Counted(s, q) <=> q = p
      /\ Sharing(s)
  <2>1. /\ \A q : On(s, q) <=> pte[s].page = q /\ pc[c] \notin CopySteps
        /\ \A q : Counted(s, q) <=> On(s, q) /\ pte[s].cow /\ pc[c] # "fault_own"
        /\ Sharing(s) <=> (pte[s].cow /\ pc[c] # "fault_own") \/ pc[c] \in MarkSteps
    BY <1>3, SpaceHeld
  <2> QED
    BY <2>1, <1>1, <1>2 DEF CopySteps
<1>6. /\ \A q : On(s, q)' <=> q = p
      /\ \A q : Counted(s, q)' <=> q = p
      /\ Sharing(s)'
  <2>1. /\ \A q : On(s, q)' <=> pte'[s].page = q
        /\ \A q : Counted(s, q)' <=> pte'[s].page = q /\ pte'[s].cow
        /\ Sharing(s)' <=> pte'[s].cow
    BY <1>1, <1>3, SpaceRunsNext
  <2> QED
    BY <2>1, <1>1, <1>2
<1>7. \A q : /\ ~Dec(c, q)' /\ ~Dec(c, q) /\ ~Dying(c, q)' /\ ~Dying(c, q)
             /\ ~Under(c, q)' /\ ~Under(c, q) /\ ~Marks(c, q)'
             /\ User(c, q)' <=> q = p
  BY <1>1 DEF Dec, Dying, Under, Marks, User, DeathSteps, MarkSteps
<1>8. Owned(p) /\ Exact(p)
  BY <1>1 DEF Good
<1>9. Exact(p)'
  <2>1. Refs(p)' = Refs(p) /\ Unders(p)' = Unders(p)
    BY <1>4, <1>5, <1>6, <1>7 DEF Refs, Unders, SameSpace, SameCPU
  <2>2. Pins(p)' = Pins(p) \cup {c} /\ c \notin Pins(p)
    BY <1>1, <1>3, <1>4 DEF Pins, SameCPU
  <2>3. Structure'
    BY <1>1
  <2>4. Cardinality(Pins(p)') = Cardinality(Pins(p)) + 1
    BY <2>2, <2>3, <1>1, Sums, FS_AddElement
  <2>5. Expected(p)' = Expected(p) + 1
    BY <2>1, <2>3, <2>4, <1>1, Sums
  <2>6. entry[p] # None
    BY <1>1, <1>5, <1>8, CountedOne
  <2> QED
    BY <2>3, <2>5, <2>6, <1>0, <1>1, <1>8, CountMoves
<1>10. Owned(p)'
  <2>1. \A u \in Spaces : On(u, p)' => Sharing(u)'
    BY <1>4, <1>5, <1>6, <1>8 DEF SameSpace, Owned, SpacesShare
  <2>2. \A d \in CPUs : ~Marks(d, p)'
    <3> TAKE d \in CPUs
    <3>1. CASE d = c
      BY <3>1, <1>7
    <3>2. CASE d # c
      <4>1. s \notin at[d]
        BY <3>2, <1>3 DEF HandsApart
      <4> QED
        BY <3>2, <4>1, <1>4, <1>5, <1>8 DEF SameCPU, Owned, MarkedFirst
    <3> QED
      BY <3>1, <3>2
  <2>3. \A d \in CPUs : /\ new'[d] = p => new[d] = p
                        /\ Dying(d, p)' => Dying(d, p)
                        /\ ~Marks(d, p)'
    BY <2>2, <1>1, <1>4, <1>7 DEF SameCPU
  <2>4. (p \in free' => p \in free) /\ p \in Pages
    BY <1>1
  <2>5. (\E u \in Spaces : On(u, p)) /\ (\E u \in Spaces : On(u, p)')
    BY <1>5, <1>6
  <2> QED
    BY <2>1, <2>3, <2>4, <2>5, <1>8, SharedOwned
<1>11. ASSUME NEW q \in Pages, q # p PROVE Owned(q)' /\ Exact(q)'
  <2>1. \A u \in T : /\ On(u, q)' <=> On(u, q)
                     /\ On(u, q) => (Sharing(u)' <=> Sharing(u))
                     /\ Counted(u, q)' <=> Counted(u, q)
    BY <1>5, <1>6, <1>11
  <2>2. /\ Dec(c, q)' <=> Dec(c, q)
        /\ Dying(c, q)' <=> Dying(c, q)
        /\ Under(c, q)' <=> Under(c, q)
        /\ Marks(c, q)' => Marks(c, q) /\ at'[c] = at[c]
    BY <1>7
  <2>3. entry'[q] = entry[q]
    BY <1>0, <1>1, <1>11, CountElsewhere
  <2>4. (new'[c] = q <=> new[c] = q) /\ (pin'[c] = q <=> pin[c] = q)
        /\ (q \in free' <=> q \in free) /\ Structure'
    BY <1>1, <1>3, <1>11
  <2> HIDE DEF T
  <2> QED
    BY <2>1, <2>2, <2>3, <2>4, <1>4, PageSame
<1> QED
  BY <1>9, <1>10, <1>11 DEF Good

\* A caller is about to give that reference up.
LEMMA UnpinGood ==
  ASSUME CountFits, Structure, Good, NEW c \in CPUs, Unpin(c)
  PROVE  Good'
<1>0. PICK p : p = pin[c]
  OBVIOUS
<1>1. /\ Structure' /\ Others(c) /\ p \in Pages /\ pin'[c] = None
      /\ pc[c] = "idle" /\ pc'[c] = "dec" /\ at[c] = {} /\ at'[c] = {}
      /\ page'[c] = p
      /\ UNCHANGED <<pte, entry, glock, content, free, view, new>>
  BY <1>0, UnpinFacts
<1> DEFINE T == {}
<1>2. /\ \A u \in Spaces \ T : SameSpace(u)
      /\ \A d \in CPUs \ {c} : SameCPU(d)
  <2>1. /\ \A u \in T : u \in at[c] \/ ~Busy(u)
        /\ at[c] \subseteq T /\ at'[c] \subseteq T
        /\ \A u \in Spaces \ T : pte'[u] = pte[u]
    BY <1>1
  <2>2. Others(c)
    BY <1>1
  <2> HIDE DEF T
  <2> QED
    BY <2>1, <2>2, StepFrame
<1>3. SUFFICES ASSUME NEW q \in Pages PROVE Owned(q)' /\ Exact(q)'
  BY DEF Good
<1>4. Owned(q) /\ Exact(q) /\ None \notin Pages
  BY CowAssumption DEF Good
<1>5. /\ User(c, q)' <=> q = p
      /\ User(c, q) <=> q = p
      /\ ~Dying(c, q)' /\ ~Dying(c, q) /\ ~Marks(c, q)'
      /\ Under(c, q)' <=> q = p
      /\ ~Under(c, q)
      /\ pin[c] = q <=> q = p
      /\ pin'[c] # q
  BY <1>0, <1>1, <1>4 DEF User, Dec, Dying, Under, Marks, DeathSteps, MarkSteps
<1>6. Owned(q)'
  <2>1. Same(q)
    BY <1>1, <1>2, <1>5 DEF Same, SameSpace, SameCPU
  <2> QED
    BY <2>1, <1>4, OwnedSame
<1>7. CASE q # p
  <2>1. SameCount(q)
    BY <1>2, <1>5, <1>7 DEF SameCount, SameSpace, SameCPU
  <2> QED
    BY <2>1, <1>1, <1>4, <1>6, ExactSame
<1>8. CASE q = p
  <2>1. Refs(q)' = Refs(q)
    BY <1>2 DEF Refs, SameSpace
  <2>2. Pins(q)' = Pins(q) \ {c} /\ c \in Pins(q)
    BY <1>2, <1>5, <1>8 DEF Pins, SameCPU
  <2>3. Unders(q)' = Unders(q) \cup {c} /\ c \notin Unders(q)
    BY <1>2, <1>5, <1>8 DEF Unders, SameCPU
  <2>4. Structure'
    BY <1>1
  <2>5. Cardinality(Pins(q)') = Cardinality(Pins(q)) - 1
    BY <2>2, <2>4, Sums, FS_RemoveElement
  <2>6. Cardinality(Unders(q)') = Cardinality(Unders(q)) + 1
    BY <2>3, <2>4, Sums, FS_AddElement
  <2>7. Expected(q)' = Expected(q)
    BY <2>1, <2>4, <2>5, <2>6, Sums
  <2> QED
    BY <2>7, <1>1, <1>4, <1>6 DEF Exact
<1> QED
  BY <1>7, <1>8

\* cow_decrement_ref takes a reference off the count.  After the last one the
\* page has no user but the CPU that frees it.
LEMMA DecCountGood ==
  ASSUME CountFits, Structure, Good, NEW c \in CPUs, DecCount(c)
  PROVE  Good'
<1>0. PICK p : p = page[c]
  OBVIOUS
<1> DEFINE n == (entry[p] - 1) % CountMod
<1>1. /\ Structure' /\ Others(c) /\ p \in Pages
      /\ pc[c] = "dec" /\ at[c] = {} /\ at'[c] = {} /\ new[c] = None
      /\ UNCHANGED <<pte, free, pin, new>>
      /\ \A q \in Pages \ {p} : entry'[q] = entry[q]
      /\ \/ entry[p] = None /\ entry'[p] = None /\ pc'[c] = "idle"
         \/ /\ entry[p] # None /\ entry'[p] = n
            /\ \/ n = 0 /\ pc'[c] = "dec_unlink" /\ page'[c] = p
               \/ n # 0 /\ pc'[c] = "idle"
  BY <1>0, DecCountFacts
<1>2. n = (entry[p] - 1) % CountMod
  OBVIOUS
<1> HIDE DEF n
<1> DEFINE T == {}
<1>3. /\ \A u \in Spaces \ T : SameSpace(u)
      /\ \A d \in CPUs \ {c} : SameCPU(d)
  <2>1. /\ \A u \in T : u \in at[c] \/ ~Busy(u)
        /\ at[c] \subseteq T /\ at'[c] \subseteq T
        /\ \A u \in Spaces \ T : pte'[u] = pte[u]
    BY <1>1
  <2>2. Others(c)
    BY <1>1
  <2> HIDE DEF T
  <2> QED
    BY <2>1, <2>2, StepFrame
<1>4. Owned(p) /\ Exact(p) /\ Structure' /\ None \notin Pages
  BY <1>1, CowAssumption DEF Good
<1>5. /\ \A q : Dec(c, q) <=> q = p
      /\ \A q : Under(c, q) <=> q = p
      /\ \A q : ~Dec(c, q)' /\ ~Under(c, q)' /\ ~Marks(c, q)' /\ ~Dying(c, q)
      /\ \A q : Dying(c, q)' <=> pc'[c] = "dec_unlink" /\ q = p
  BY <1>0, <1>1 DEF Dec, Under, Dying, Marks, DeathSteps, MarkSteps
<1>6. User(c, p) /\ Under(c, p)
  BY <1>5 DEF User
<1>7. /\ entry[p] # None /\ entry[p] = Expected(p)
      /\ entry[p] = 1 <=> Unders(p) = {c} /\ Pins(p) = {} /\ Refs(p) = {}
  BY <1>1, <1>4, <1>6, UnderOne
<1>8. Expected(p)' = Expected(p) - 1
  <2>1. Refs(p)' = Refs(p)
    BY <1>3 DEF Refs, SameSpace
  <2>2. Pins(p)' = Pins(p)
    BY <1>1 DEF Pins
  <2>3. Unders(p)' = Unders(p) \ {c} /\ c \in Unders(p)
    BY <1>3, <1>5 DEF Unders, SameCPU
  <2>4. Cardinality(Unders(p)') = Cardinality(Unders(p)) - 1
    BY <2>3, <1>1, <1>4, Sums, FS_RemoveElement
  <2> QED
    BY <2>1, <2>2, <2>4, <1>1, <1>4, Sums
<1>9. n = Expected(p)' /\ n \in Nat /\ (n = 0 <=> entry[p] = 1)
  <2>1. Expected(p)' \in 0..(CountMod - 1) /\ Expected(p) \in 0..(CountMod - 1)
    BY <1>1, <1>4, Sums
  <2>2. CountMod \in Nat \ {0}
    BY CowAssumption
  <2> DEFINE y == entry[p] - 1
  <2>3. y \in Int /\ -CountMod <= y /\ y < 2 * CountMod /\ y = Expected(p)'
        /\ 0 <= y /\ y < CountMod
    BY <2>1, <2>2, <1>7, <1>8
  <2> HIDE DEF y
  <2>4. y % CountMod = y
    BY <2>2, <2>3, ModOnce
  <2>5. n = y
    BY <2>4, <1>2 DEF y
  <2> QED
    BY <2>1, <2>3, <2>5, <1>7, <1>8
<1>10. Exact(p)'
  <2>1. None \notin Nat /\ entry'[p] = n
    BY <1>1, <1>7, CowAssumption
  <2> QED
    BY <2>1, <1>9 DEF Exact
<1>11. \A u \in Spaces : On(u, p) => Sharing(u)
  BY <1>4, <1>6 DEF Owned, OwnersAlone
<1>12. \A d \in CPUs : ~Marks(d, p)
  BY <1>4, <1>6 DEF Owned, MarkedFirst
<1>13. p \notin free /\ \A d \in CPUs : new[d] # p /\ ~Dying(d, p)
  BY <1>4, <1>6 DEF Owned, UsedNotFree
<1>14. CASE n = 0
  <2>1. Unders(p) = {c} /\ Pins(p) = {} /\ Refs(p) = {}
    BY <1>7, <1>9, <1>14
  <2>2. \A u \in Spaces : ~On(u, p)
    <3> SUFFICES ASSUME NEW u \in Spaces, On(u, p) PROVE FALSE
      OBVIOUS
    <3>1. \A v \in Spaces : ~Counted(v, p)
      BY <2>1 DEF Refs
    <3> QED
      BY <3>1, <1>1, <1>11, <1>12, SharersCounted
  <2>3. \A d \in CPUs : User(d, p) => d = c /\ pin[d] # p
    BY <2>1 DEF Pins, Unders, Under, User, Dec
  <2>4. \A d \in CPUs : ~User(d, p)'
    <3>1. pin'[c] # p
      BY <2>3, <1>1, <1>6
    <3> QED
      BY <3>1, <2>3, <1>3, <1>5 DEF SameCPU, User
  <2>5. \A u \in Spaces : ~On(u, p)'
    BY <2>2, <1>3 DEF SameSpace
  <2>6. \A d \in CPUs : d # c => new'[d] # p /\ ~Dying(d, p)'
    BY <1>3, <1>13 DEF SameCPU
  <2>7. new'[c] # p /\ Dying(c, p)' /\ p \notin free'
    BY <1>1, <1>4, <1>5, <1>7, <1>13, <1>14
  <2>8. Owned(p)'
    BY <2>4, <2>5, <2>6, <2>7, <1>1, <1>4, HeldOwned
  <2>9. ASSUME NEW q \in Pages, q # p PROVE Owned(q)' /\ Exact(q)'
    <3>1. Same(q) /\ SameCount(q)
      BY <2>9, <1>1, <1>3, <1>5 DEF Same, SameCount, SameSpace, SameCPU, User
    <3>2. Owned(q) /\ Exact(q) /\ entry'[q] = entry[q]
      BY <2>9, <1>1 DEF Good
    <3> QED
      BY <3>1, <3>2, <1>4, OwnedSame, ExactSame
  <2> QED
    BY <2>8, <2>9, <1>10 DEF Good
<1>15. CASE n # 0
  <2>1. pc'[c] = "idle" /\ \A q : ~Dying(c, q)'
    BY <1>1, <1>5, <1>7, <1>15
  <2>2. \A u \in Spaces : On(u, p)' => Sharing(u)'
    BY <1>3, <1>11 DEF SameSpace
  <2>3. (\E u \in Spaces : On(u, p)') \/ (\E d \in CPUs : User(d, p)')
    <3>1. ~(Unders(p) = {c} /\ Pins(p) = {} /\ Refs(p) = {})
      BY <1>7, <1>9, <1>15
    <3>2. CASE Refs(p) # {}
      <4>1. PICK v \in Spaces : On(v, p)
        BY <3>2 DEF Refs, Counted
      <4> QED
        BY <4>1, <1>3 DEF SameSpace
    <3>3. CASE Pins(p) # {}
      <4>1. PICK d \in CPUs : pin[d] = p
        BY <3>3 DEF Pins
      <4> QED
        BY <4>1, <1>1 DEF User
    <3>4. CASE Unders(p) # {c}
      <4>1. c \in Unders(p)
        BY <1>6 DEF Unders
      <4>2. PICK d \in Unders(p) : d # c
        BY <3>4, <4>1
      <4>3. d \in CPUs /\ Under(d, p)
        BY <4>2 DEF Unders
      <4>4. User(d, p) \/ \E v \in Spaces : v \in at[d] /\ On(v, p)
        BY <4>3, <1>1, UnderUses
      <4> QED
        BY <4>2, <4>3, <4>4, <1>3 DEF SameCPU, SameSpace
    <3> QED
      BY <3>1, <3>2, <3>3, <3>4
  <2>4. \A d \in CPUs : /\ new'[d] = p => new[d] = p
                        /\ Dying(d, p)' => Dying(d, p)
                        /\ ~Marks(d, p)'
    BY <2>1, <1>1, <1>3, <1>5, <1>12 DEF SameCPU
  <2>5. (p \in free' => p \in free) /\ p \in Pages
    BY <1>1
  <2>6. \E d \in CPUs : User(d, p)
    BY <1>6
  <2>7. Owned(p)'
    BY <2>2, <2>3, <2>4, <2>5, <2>6, <1>4, SharedOwned
  <2>8. ASSUME NEW q \in Pages, q # p PROVE Owned(q)' /\ Exact(q)'
    <3>1. Same(q) /\ SameCount(q)
      BY <2>1, <2>8, <1>1, <1>3, <1>5 DEF Same, SameCount, SameSpace, SameCPU, User
    <3>2. Owned(q) /\ Exact(q) /\ entry'[q] = entry[q]
      BY <2>8, <1>1 DEF Good
    <3> QED
      BY <3>1, <3>2, <1>4, OwnedSame, ExactSame
  <2> QED
    BY <2>7, <2>8, <1>10 DEF Good
<1> QED
  BY <1>14, <1>15

\* The entry of a page without users is unlinked.
LEMMA DecUnlinkGood ==
  ASSUME CountFits, Structure, Good, NEW c \in CPUs, DecUnlink(c), NEW p,
         p = page[c]
  PROVE  Good' /\ \A u \in Spaces : ~On(u, p)
<1>1. /\ Structure' /\ Others(c) /\ p \in Pages
      /\ pc[c] = "dec_unlink" /\ pc'[c] = "dec_free" /\ page'[c] = p
      /\ at[c] = {} /\ at'[c] = {}
      /\ UNCHANGED <<pte, free, pin, new>>
      /\ entry'[p] = None /\ \A q \in Pages \ {p} : entry'[q] = entry[q]
  BY DecUnlinkFacts
<1> DEFINE T == {}
<1>2. /\ \A u \in Spaces \ T : SameSpace(u)
      /\ \A d \in CPUs \ {c} : SameCPU(d)
  <2>1. /\ \A u \in T : u \in at[c] \/ ~Busy(u)
        /\ at[c] \subseteq T /\ at'[c] \subseteq T
        /\ \A u \in Spaces \ T : pte'[u] = pte[u]
    BY <1>1
  <2>2. Others(c)
    BY <1>1
  <2> HIDE DEF T
  <2> QED
    BY <2>1, <2>2, StepFrame
<1>3. \A q : /\ User(c, q)' <=> User(c, q)
             /\ Dying(c, q)' <=> Dying(c, q)
             /\ ~Under(c, q)' /\ ~Under(c, q) /\ ~Marks(c, q)'
  BY <1>1 DEF User, Dec, Dying, Under, Marks, DeathSteps, MarkSteps
<1>4. ASSUME NEW q \in Pages PROVE Owned(q)' /\ SameCount(q) /\ Owned(q) /\ Exact(q)
  <2>1. Same(q) /\ SameCount(q)
    BY <1>1, <1>2, <1>3 DEF Same, SameCount, SameSpace, SameCPU
  <2>2. Owned(q) /\ Exact(q)
    BY DEF Good
  <2> QED
    BY <2>1, <2>2, OwnedSame
<1>5. Owned(p) /\ Dying(c, p) /\ SameCount(p) /\ Structure'
  BY <1>1, <1>4 DEF Dying, DeathSteps
<1>6. (\A u \in Spaces : ~On(u, p)) /\ (\A d \in CPUs : ~User(d, p))
  BY <1>5 DEF Owned, UsedNotFree
<1>7. Exact(p)'
  <2>1. \A d \in CPUs : ~Under(d, p)
    BY <1>1, <1>6, UnderUses
  <2>2. Refs(p)' = {} /\ Pins(p)' = {} /\ Unders(p)' = {}
    BY <2>1, <1>5, <1>6 DEF Refs, Pins, Unders, SameCount, Counted, User
  <2>3. Expected(p)' = 0
    <3>1. Expected(p)' = Cardinality(Refs(p)') + Cardinality(Pins(p)')
                         + Cardinality(Unders(p)')
      BY <1>1, <1>5, PartsNext DEF Parts
    <3>2. Cardinality({}) = 0
      BY FS_EmptySet
    <3> QED
      BY <3>1, <3>2, <2>2
  <2> QED
    BY <2>3, <1>1 DEF Exact
<1>8. ASSUME NEW q \in Pages, q # p PROVE Exact(q)'
  BY <1>1, <1>4, <1>5, <1>8, ExactSame
<1> QED
  BY <1>4, <1>6, <1>7, <1>8 DEF Good

\* The page is freed.
LEMMA DecFreeGood ==
  ASSUME CountFits, Structure, Good, NEW c \in CPUs, DecFree(c)
  PROVE  Good'
<1>0. PICK p : p = page[c]
  OBVIOUS
<1>1. /\ Structure' /\ Others(c) /\ p \in Pages
      /\ pc[c] = "dec_free" /\ pc'[c] = "idle" /\ at[c] = {} /\ at'[c] = {}
      /\ free' = free \cup {p} /\ new[c] = None /\ new'[c] = None
      /\ UNCHANGED <<pte, entry, pin>>
  BY <1>0, DecFreeFacts
<1> DEFINE T == {}
<1>2. /\ \A u \in Spaces \ T : SameSpace(u)
      /\ \A d \in CPUs \ {c} : SameCPU(d)
  <2>1. /\ \A u \in T : u \in at[c] \/ ~Busy(u)
        /\ at[c] \subseteq T /\ at'[c] \subseteq T
        /\ \A u \in Spaces \ T : pte'[u] = pte[u]
    BY <1>1
  <2>2. Others(c)
    BY <1>1
  <2> HIDE DEF T
  <2> QED
    BY <2>1, <2>2, StepFrame
<1>3. \A q : /\ User(c, q)' <=> User(c, q)
             /\ Dying(c, q) <=> q = p
             /\ ~Dying(c, q)' /\ ~Under(c, q)' /\ ~Under(c, q) /\ ~Marks(c, q)'
  BY <1>0, <1>1 DEF User, Dec, Dying, Under, Marks, DeathSteps, MarkSteps
<1>4. SUFFICES ASSUME NEW q \in Pages PROVE Owned(q)' /\ Exact(q)'
  BY DEF Good
<1>5. Owned(q) /\ Exact(q) /\ None \notin Pages
  BY CowAssumption DEF Good
<1>6. Exact(q)'
  <2>1. SameCount(q)
    BY <1>1, <1>2, <1>3 DEF SameCount, SameSpace, SameCPU
  <2> QED
    BY <2>1, <1>1, <1>5, ExactSame
<1>7. CASE q # p
  <2>1. Same(q)
    BY <1>1, <1>2, <1>3, <1>7 DEF Same, SameSpace, SameCPU
  <2> QED
    BY <2>1, <1>5, <1>6, OwnedSame
<1>8. CASE q = p
  <2>1. Dying(c, q)
    BY <1>3, <1>8
  <2>2. /\ \A u \in Spaces : ~On(u, q)
        /\ \A d \in CPUs : ~User(d, q) /\ new[d] # q /\ (d # c => ~Dying(d, q))
    BY <2>1, <1>5 DEF Owned, UsedNotFree, NewAlone, DyingAlone
  <2>3. \A u \in Spaces : ~On(u, q)'
    BY <2>2, <1>2 DEF SameSpace
  <2>4. \A d \in CPUs : ~User(d, q)' /\ new'[d] # q /\ ~Dying(d, q)'
    BY <2>2, <1>1, <1>2, <1>3, <1>5 DEF SameCPU
  <2>5. q \in free' /\ Structure'
    BY <1>1, <1>8
  <2>6. Owned(q)'
    BY <2>3, <2>4, <2>5, FreeOwned
  <2> QED
    BY <2>6, <1>6
<1> QED
  BY <1>7, <1>8

\* A fault gets a page for its copy, or does not.
LEMMA FaultAllocGood ==
  ASSUME CountFits, Structure, Good, NEW c \in CPUs, FaultAlloc(c)
  PROVE  Good'
<1>1. /\ Structure' /\ Others(c)
      /\ pc[c] = "fault_alloc" /\ at'[c] = at[c] /\ page'[c] = page[c]
      /\ \/ \E p \in free : /\ p \in Pages /\ free' = free \ {p}
                            /\ new'[c] = p /\ pc'[c] = "fault_copy"
         \/ NoMemory /\ UNCHANGED free /\ new'[c] = None
            /\ pc'[c] = "fault_restore"
      /\ UNCHANGED <<pte, entry, pin>>
  BY FaultAllocFacts
<1>2. HandsApart /\ HandsApart' /\ new[c] = None /\ None \notin Pages
      /\ pc[c] \in CopySteps /\ pc'[c] \in CopySteps
  BY <1>1, CowAssumption DEF Structure, Locals, OtherLocals, CopySteps
<1> DEFINE T == at[c]
<1>3. /\ \A u \in Spaces \ T : SameSpace(u)
      /\ \A d \in CPUs \ {c} : SameCPU(d)
  <2>1. /\ \A u \in T : u \in at[c] \/ ~Busy(u)
        /\ at[c] \subseteq T /\ at'[c] \subseteq T
        /\ \A u \in Spaces \ T : pte'[u] = pte[u]
    BY <1>1
  <2>2. Others(c)
    BY <1>1
  <2> HIDE DEF T
  <2> QED
    BY <2>1, <2>2, StepFrame
<1>4. \A q : /\ User(c, q)' <=> User(c, q)
             /\ ~Dying(c, q)' /\ ~Dying(c, q) /\ ~Under(c, q)' /\ ~Under(c, q)
             /\ ~Marks(c, q)'
  BY <1>1 DEF User, Dec, Dying, Under, Marks, DeathSteps, MarkSteps
<1>5. SUFFICES ASSUME NEW q \in Pages PROVE Owned(q)' /\ Exact(q)'
  BY DEF Good
<1>6. Owned(q) /\ Exact(q)
  BY DEF Good
<1>7. \A u \in T : ~On(u, q) /\ ~On(u, q)' /\ ~Counted(u, q) /\ ~Counted(u, q)'
  <2> TAKE u \in T
  <2>1. ~On(u, q) /\ (Counted(u, q) => On(u, q))
    BY <1>2, SpaceHeld
  <2>2. ~On(u, q)' /\ (Counted(u, q)' => On(u, q)')
    BY <1>1, <1>2, SpaceHeldNext
  <2> QED
    BY <2>1, <2>2
<1>8. Exact(q)'
  <2>1. SameCount(q)
    BY <1>1, <1>3, <1>4, <1>7 DEF SameCount, SameSpace, SameCPU
  <2> QED
    BY <2>1, <1>1, <1>6, ExactSame
<1>9. CASE (q \in free' <=> q \in free) /\ new'[c] # q
  <2>1. Same(q)
    BY <1>1, <1>2, <1>3, <1>4, <1>7, <1>9 DEF Same, SameSpace, SameCPU
  <2> QED
    BY <2>1, <1>6, <1>8, OwnedSame
<1>10. CASE q \in free /\ q \notin free' /\ new'[c] = q
  <2>1. /\ \A u \in Spaces : ~On(u, q)
        /\ \A d \in CPUs : ~User(d, q) /\ new[d] # q /\ ~Dying(d, q)
    BY <1>6, <1>10, FreeUnused
  <2>2. \A u \in Spaces : ~On(u, q)'
    BY <2>1, <1>3, <1>7 DEF SameSpace
  <2>3. /\ \A d \in CPUs : ~User(d, q)'
        /\ \A d \in CPUs : d # c => new'[d] # q /\ ~Dying(d, q)'
        /\ new'[c] = q /\ ~Dying(c, q)' /\ q \notin free' /\ Structure'
    BY <2>1, <1>1, <1>3, <1>4, <1>10 DEF SameCPU
  <2>4. Owned(q)'
    BY <2>2, <2>3, HeldOwned
  <2> QED
    BY <2>4, <1>8
<1> QED
  BY <1>1, <1>2, <1>9, <1>10

\* A fault is undone, on one CPU: the space is a user of its page again.
LEMMA FaultRestoreGood ==
  ASSUME CountFits, OneCPU, Structure, Good, CopyInv, NEW c \in CPUs, FaultRestore(c)
  PROVE  Good'
<1>0. PICK p : p = page[c]
  OBVIOUS
<1>1. /\ Structure' /\ Others(c) /\ p \in Pages /\ AddCount(c, 1)
      /\ pc[c] = "fault_restore" /\ pc'[c] = "idle" /\ at'[c] = {}
      /\ new'[c] = None /\ new[c] = None
      /\ UNCHANGED <<pte, free, pin>>
  BY <1>0, FaultRestoreFacts
<1>2. /\ pc[c] \in CopySteps /\ p \notin free /\ entry[p] # None
      /\ \A u \in Spaces : On(u, p) => pte[u].cow
  BY <1>0, <1>1 DEF CopyInv, CopySteps
<1>3. PICK s \in Spaces : at[c] = {s} /\ pte[s].cow /\ pte[s].page = p
  BY <1>0, <1>1, FaultShape DEF FaultSteps, CopySteps
<1>4. HandsApart /\ s \in at[c] /\ s \notin at'[c] /\ None \notin Pages
      /\ \A d \in CPUs : d = c
  BY <1>1, <1>3, CowAssumption DEF Structure, OneCPU
<1> DEFINE T == {s}
<1>5. /\ \A u \in Spaces \ T : SameSpace(u)
      /\ \A d \in CPUs \ {c} : SameCPU(d)
  <2>1. /\ \A u \in T : u \in at[c] \/ ~Busy(u)
        /\ at[c] \subseteq T /\ at'[c] \subseteq T
        /\ \A u \in Spaces \ T : pte'[u] = pte[u]
    BY <1>1, <1>3
  <2>2. Others(c)
    BY <1>1
  <2> HIDE DEF T
  <2> QED
    BY <2>1, <2>2, StepFrame
<1>6. \A q : ~On(s, q) /\ ~Counted(s, q)
  <2>1. /\ \A q : On(s, q) <=> pte[s].page = q /\ pc[c] \notin CopySteps
        /\ \A q : Counted(s, q) <=> On(s, q) /\ pte[s].cow /\ pc[c] # "fault_own"
    BY <1>4, SpaceHeld
  <2> QED
    BY <2>1, <1>2
<1>7. /\ \A q : On(s, q)' <=> q = p
      /\ \A q : Counted(s, q)' <=> q = p
      /\ Sharing(s)'
  <2>1. /\ \A q : On(s, q)' <=> pte'[s].page = q
        /\ \A q : Counted(s, q)' <=> pte'[s].page = q /\ pte'[s].cow
        /\ Sharing(s)' <=> pte'[s].cow
    BY <1>1, <1>4, SpaceRunsNext
  <2> QED
    BY <2>1, <1>1, <1>3
<1>8. \A q : /\ User(c, q)' <=> User(c, q)
             /\ ~Dying(c, q)' /\ ~Dying(c, q) /\ ~Under(c, q)' /\ ~Under(c, q)
             /\ ~Marks(c, q)'
  BY <1>1 DEF User, Dec, Dying, Under, Marks, DeathSteps, MarkSteps
<1>9. Owned(p) /\ Exact(p)
  BY <1>1 DEF Good
<1>10. Exact(p)'
  <2>1. Refs(p)' = Refs(p) \cup {s} /\ s \notin Refs(p)
    BY <1>5, <1>6, <1>7 DEF Refs, SameSpace
  <2>2. Pins(p)' = Pins(p)
    BY <1>1 DEF Pins
  <2>3. Unders(p)' = Unders(p)
    BY <1>5, <1>8 DEF Unders, SameCPU
  <2>4. Structure'
    BY <1>1
  <2>5. Cardinality(Refs(p)') = Cardinality(Refs(p)) + 1
    <3>1. IsFiniteSet(Refs(p))
      BY <2>4, <1>1, Sums
    <3> QED
      BY <3>1, <2>1, FS_AddElement
  <2>6. Expected(p)' = Expected(p) + 1
    BY <2>2, <2>3, <2>4, <2>5, <1>1, Sums
  <2> QED
    BY <2>4, <2>6, <1>0, <1>1, <1>2, <1>9, CountMoves
<1>11. Owned(p)'
  <2>1. \A u \in Spaces : On(u, p)' => Sharing(u)'
    <3> SUFFICES ASSUME NEW u \in Spaces, u # s, On(u, p)' PROVE Sharing(u)'
      BY <1>7
    <3>1. On(u, p) /\ pte[u].cow /\ SameSpace(u)
      BY <1>2, <1>5 DEF SameSpace
    <3>2. ~InHands(u, {"fault_own"})
      BY <1>1, <1>4 DEF InHands
    <3>3. Sharing(u)
      BY <3>1, <3>2 DEF Sharing
    <3> QED
      BY <3>1, <3>3 DEF SameSpace
  <2>2. (\E u \in Spaces : On(u, p)) \/ (\E d \in CPUs : User(d, p))
    BY <1>1, <1>2, <1>4, <1>8, <1>9 DEF Owned, Kept
  <2>3. \E u \in Spaces : On(u, p)'
    BY <1>7
  <2>4. \A d \in CPUs : /\ new'[d] = p => new[d] = p
                        /\ Dying(d, p)' => Dying(d, p)
                        /\ ~Marks(d, p)'
    BY <1>1, <1>4, <1>8
  <2>5. (p \in free' => p \in free) /\ p \in Pages
    BY <1>1
  <2> QED
    BY <2>1, <2>2, <2>3, <2>4, <2>5, <1>9, SharedOwned
<1>12. ASSUME NEW q \in Pages, q # p PROVE Owned(q)' /\ Exact(q)'
  <2>1. Same(q) /\ SameCount(q)
    BY <1>1, <1>5, <1>6, <1>7, <1>8, <1>12
       DEF Same, SameCount, SameSpace, SameCPU
  <2>2. entry'[q] = entry[q] /\ Owned(q) /\ Exact(q) /\ Structure'
    BY <1>0, <1>1, <1>12, CountElsewhere DEF Good
  <2> QED
    BY <2>1, <2>2, OwnedSame, ExactSame
<1> QED
  BY <1>10, <1>11, <1>12 DEF Good

\* The space of a fault gets its copy, and is its only user.
LEMMA FaultDoneGood ==
  ASSUME CountFits, Structure, Good, NEW c \in CPUs, FaultDone(c)
  PROVE  Good'
<1>0. PICK p : p = new[c]
  OBVIOUS
<1>1. p \in Pages /\ None \notin Pages
  BY <1>0, CowAssumption DEF FaultDone, Structure, TypeOK, Locals, OtherLocals
<1>2. /\ Structure' /\ Others(c)
      /\ pc'[c] = "idle" /\ at'[c] = {} /\ new'[c] = None
      /\ \E s \in Spaces : /\ at[c] = {s} /\ pte[s].cow /\ pte[s].page = page[c]
                           /\ pte'[s].page = p /\ ~pte'[s].cow
                           /\ \A u \in Spaces \ {s} : pte'[u] = pte[u]
      /\ UNCHANGED <<entry, free, pin>>
  BY <1>0, <1>1, FaultPteFacts
<1>3. PICK s \in Spaces : /\ at[c] = {s} /\ pte'[s].page = p /\ ~pte'[s].cow
                          /\ \A u \in Spaces \ {s} : pte'[u] = pte[u]
  BY <1>2
<1>4. HandsApart /\ s \in at[c] /\ s \notin at'[c] /\ pc[c] = "fault_pte"
      /\ pc[c] \in CopySteps
  BY <1>2, <1>3 DEF Structure, FaultDone, CopySteps
<1> DEFINE T == {s}
<1>5. /\ \A u \in Spaces \ T : SameSpace(u)
      /\ \A d \in CPUs \ {c} : SameCPU(d)
  <2>1. /\ \A u \in T : u \in at[c] \/ ~Busy(u)
        /\ at[c] \subseteq T /\ at'[c] \subseteq T
        /\ \A u \in Spaces \ T : pte'[u] = pte[u]
    BY <1>2, <1>3
  <2>2. Others(c)
    BY <1>2
  <2> HIDE DEF T
  <2> QED
    BY <2>1, <2>2, StepFrame
<1>6. \A q : ~On(s, q) /\ ~Counted(s, q)
  <2>1. /\ \A q : On(s, q) <=> pte[s].page = q /\ pc[c] \notin CopySteps
        /\ \A q : Counted(s, q) <=> On(s, q) /\ pte[s].cow /\ pc[c] # "fault_own"
    BY <1>4, SpaceHeld
  <2> QED
    BY <2>1, <1>4
<1>7. \A q : (On(s, q)' <=> q = p) /\ ~Counted(s, q)'
  <2>1. /\ \A q : On(s, q)' <=> pte'[s].page = q
        /\ \A q : Counted(s, q)' <=> pte'[s].page = q /\ pte'[s].cow
    BY <1>2, <1>4, SpaceRunsNext
  <2> QED
    BY <2>1, <1>3
<1>8. \A q : /\ User(c, q)' <=> User(c, q)
             /\ ~Dying(c, q)' /\ ~Dying(c, q) /\ ~Under(c, q)' /\ ~Under(c, q)
             /\ ~Marks(c, q)'
  BY <1>2, <1>4 DEF User, Dec, Dying, Under, Marks, DeathSteps, MarkSteps
<1>9. SUFFICES ASSUME NEW q \in Pages PROVE Owned(q)' /\ Exact(q)'
  BY DEF Good
<1>10. Owned(q) /\ Exact(q)
  BY DEF Good
<1>11. Exact(q)'
  <2>1. SameCount(q)
    BY <1>2, <1>5, <1>6, <1>7, <1>8 DEF SameCount, SameSpace, SameCPU
  <2> QED
    BY <2>1, <1>2, <1>10, ExactSame
<1>12. CASE q # p
  <2>1. Same(q)
    BY <1>0, <1>1, <1>2, <1>5, <1>6, <1>7, <1>8, <1>12 DEF Same, SameSpace, SameCPU
  <2> QED
    BY <2>1, <1>10, <1>11, OwnedSame
<1>13. CASE q = p
  <2>1. new[c] = q
    BY <1>0, <1>13
  <2>2. /\ \A u \in Spaces : ~On(u, q)
        /\ \A d \in CPUs : ~User(d, q) /\ ~Dying(d, q) /\ (d # c => new[d] # q)
        /\ q \notin free
    BY <2>1, <1>10 DEF Owned, UsedNotFree, NewAlone
  <2>3. \A u \in Spaces : On(u, q)' <=> u = s
    BY <2>2, <1>5, <1>7, <1>13 DEF SameSpace
  <2>4. \A d \in CPUs : ~User(d, q)' /\ new'[d] # q /\ ~Dying(d, q)'
    BY <2>2, <1>1, <1>2, <1>5, <1>8 DEF SameCPU
  <2>5. q \notin free' /\ Structure'
    BY <2>2, <1>2
  <2>6. Owned(q)'
    BY <2>3, <2>4, <2>5, SoleOwned
  <2> QED
    BY <2>6, <1>11
<1> QED
  BY <1>12, <1>13

-----------------------------------------------------------------------------
(* Memory, entries and copies *)

\* A function has no more values than arguments.
LEMMA FewValues ==
  ASSUME NEW S, IsFiniteSet(S), NEW f, NEW T, T = {f[x] : x \in S}
  PROVE  IsFiniteSet(T) /\ Cardinality(T) <= Cardinality(S)
<1> DEFINE g == [x \in S |-> f[x]]
<1>1. g \in Surjection(S, T)
  BY DEF Surjection
<1> HIDE DEF g
<1> QED
  BY <1>1, FS_Surjection

\* Two sets have no more elements than both.
LEMMA FewTogether ==
  ASSUME NEW A, NEW B, IsFiniteSet(A), IsFiniteSet(B)
  PROVE  /\ IsFiniteSet(A \cup B)
         /\ Cardinality(A \cup B) <= Cardinality(A) + Cardinality(B)
         /\ Cardinality(A) \in Nat /\ Cardinality(B) \in Nat
         /\ Cardinality(A \cup B) \in Nat
<1>1. IsFiniteSet(A \cup B)
      /\ Cardinality(A \cup B) = Cardinality(A) + Cardinality(B) - Cardinality(A \cap B)
  BY FS_Union
<1>2. A \cap B \in SUBSET A
  OBVIOUS
<1>3. IsFiniteSet(A \cap B)
  BY <1>2, FS_Subset
<1>4. Cardinality(A) \in Nat /\ Cardinality(B) \in Nat /\ Cardinality(A \cap B) \in Nat
      /\ Cardinality(A \cup B) \in Nat
  BY <1>1, <1>3, FS_CardinalityType
<1> QED
  BY <1>1, <1>4

\* With memory for all, a page is left for a copy: every page that is not free is
\* a space's, a caller's, or the one page that a call has in its hands.
LEMMA PageLeft ==
  ASSUME CountFits, MemoryPlenty, Structure, Good
  PROVE  free # {}
<1> SUFFICES ASSUME free = {} PROVE FALSE
  OBVIOUS
<1> DEFINE f == [s \in Spaces |-> pte[s].page]
           h == [c \in CPUs |-> IF new[c] # None THEN new[c] ELSE page[c]]
           A == {f[s] : s \in Spaces}
           B == {pin[c] : c \in CPUs}
           D == {h[c] : c \in CPUs}
<1>1. IsFiniteSet(Spaces) /\ IsFiniteSet(CPUs) /\ IsFiniteSet(Pages)
      /\ Cardinality(Pages) > Cardinality(Spaces) + 2 * Cardinality(CPUs)
  BY DEF CountFits, MemoryPlenty
<1>2. Pages \subseteq (A \cup B) \cup D
  <2> SUFFICES ASSUME NEW p \in Pages PROVE p \in A \/ p \in B \/ p \in D
    OBVIOUS
  <2>1. Kept(p) /\ p # None
    BY CowAssumption DEF Good, Owned
  <2>2. CASE \E s \in Spaces : On(s, p)
    BY <2>2 DEF On
  <2>3. ASSUME NEW c \in CPUs, User(c, p) \/ new[c] = p \/ Dying(c, p)
        PROVE  p \in B \/ p \in D
    <3>1. CASE pin[c] = p
      BY <3>1
    <3>2. CASE new[c] = p
      <4>1. h[c] = p
        BY <2>1, <3>2
      <4> QED
        BY <4>1
    <3>3. CASE Dec(c, p) \/ Dying(c, p)
      <4>1. new[c] = None /\ page[c] = p
        BY <3>3 DEF Dec, Dying, DeathSteps, Structure, Locals, OtherLocals
      <4>2. h[c] = p
        BY <4>1
      <4> QED
        BY <4>2
    <3> QED
      BY <2>3, <3>1, <3>2, <3>3 DEF User
  <2> QED
    BY <2>1, <2>2, <2>3 DEF Kept
<1>3. A = {f[s] : s \in Spaces} /\ B = {pin[c] : c \in CPUs} /\ D = {h[c] : c \in CPUs}
  OBVIOUS
<1> HIDE DEF f, h, A, B, D
<1>4. IsFiniteSet(A) /\ Cardinality(A) <= Cardinality(Spaces)
  BY <1>1, <1>3, FewValues
<1>5. IsFiniteSet(B) /\ Cardinality(B) <= Cardinality(CPUs)
  BY <1>1, <1>3, FewValues
<1>6. IsFiniteSet(D) /\ Cardinality(D) <= Cardinality(CPUs)
  BY <1>1, <1>3, FewValues
<1> DEFINE E == A \cup B
<1>7. /\ IsFiniteSet(E) /\ Cardinality(E) <= Cardinality(A) + Cardinality(B)
      /\ Cardinality(A) \in Nat /\ Cardinality(B) \in Nat /\ Cardinality(E) \in Nat
  BY <1>4, <1>5, FewTogether
<1>8. Pages \subseteq E \cup D
  BY <1>2
<1> HIDE DEF E
<1>9. /\ IsFiniteSet(E \cup D) /\ Cardinality(E \cup D) <= Cardinality(E) + Cardinality(D)
      /\ Cardinality(D) \in Nat /\ Cardinality(E \cup D) \in Nat
  BY <1>6, <1>7, FewTogether
<1>10. Cardinality(Pages) <= Cardinality(E \cup D)
  BY <1>8, <1>9, FS_Subset
<1>11. /\ Cardinality(Pages) \in Nat /\ Cardinality(Spaces) \in Nat
       /\ Cardinality(CPUs) \in Nat
  BY <1>1, FS_CardinalityType
<1> QED
  BY <1>1, <1>4, <1>5, <1>6, <1>7, <1>9, <1>10, <1>11

\* An entry that is counted in stays.
LEMMA EntryFrame ==
  ASSUME Structure, EntryInv, NEW c \in CPUs, Others(c), pc'[c] # "mark_count",
         \A d \in CPUs \ {c} : pc[d] = "mark_count" =>
           (entry[page[d]] # None => entry'[page[d]] # None)
  PROVE  EntryInv'
BY DEF EntryInv, Others

\* On one CPU nothing happens while a page is copied but the fault's own steps.
LEMMA CopyIdle ==
  ASSUME NEW c \in CPUs, pc'[c] \notin CopySteps
  PROVE  CopyInv'
BY DEF CopyInv, OneCPU

\* No other step needs a fault to be undone.
LEMMA RestoreFrame ==
  ASSUME NoRestore, NEW c \in CPUs, Others(c), pc'[c] # "fault_restore"
  PROVE  NoRestore'
BY DEF NoRestore, Others, MemoryPlenty

\* Steps of spaces keep the three.
LEMMA RunRest ==
  ASSUME CountFits, SpacesApart, Structure, Good, EntryInv, NoRestore, CopyInv,
         NEW s \in Spaces, MapNew(s) \/ Write(s)
  PROVE  EntryInv' /\ NoRestore' /\ CopyInv'
<1>1. /\ ~Busy(s) /\ UNCHANGED <<entry, pin, pc, at, todo, page, new>>
      /\ \A u \in Spaces \ {s} : pte'[u] = pte[u]
      /\ \/ pte[s].page = None /\ \E p \in free : pte'[s].page = p /\ free' = free \ {p}
         \/ UNCHANGED <<pte, free>>
  BY MapNewFacts, WriteFacts
<1>2. EntryInv' /\ NoRestore'
  BY <1>1 DEF EntryInv, NoRestore, MemoryPlenty
<1>3. CopyInv'
  <2> SUFFICES ASSUME OneCPU, NEW c \in CPUs, pc'[c] \in CopySteps
               PROVE  /\ page'[c] \notin free' /\ new'[c] # page'[c]
                      /\ entry'[page'[c]] # None
                      /\ \A u \in Spaces : On(u, page[c])' => pte'[u].cow
    BY DEF CopyInv
  <2>1. /\ page[c] \notin free /\ new[c] # page[c] /\ entry[page[c]] # None
        /\ \A u \in Spaces : On(u, page[c]) => pte[u].cow
    BY <1>1 DEF CopyInv
  <2>2. page'[c] \notin free' /\ new'[c] # page'[c] /\ entry'[page'[c]] # None
    BY <2>1, <1>1
  <2>3. ASSUME NEW u \in Spaces, On(u, page[c])' PROVE pte'[u].cow
    <3>1. \A q : On(s, q)' <=> pte'[s].page = q
      BY <1>1, RunFrame
    <3>2. \A q : On(s, q) <=> pte[s].page = q
      BY <1>1, SpaceRuns
    <3>3. PICK p : p = page[c]
      OBVIOUS
    <3>4. On(u, p)' /\ (\A v \in Spaces : On(v, p) => pte[v].cow) /\ p \notin free
      BY <2>1, <2>3, <3>3, <1>1
    <3>5. CASE u = s
      BY <3>1, <3>2, <3>4, <3>5, <1>1
    <3>6. CASE u # s
      <4>1. SameSpace(u)
        BY <3>6, <1>1, RunFrame
      <4> QED
        BY <3>4, <3>6, <4>1, <1>1 DEF SameSpace
    <3> QED
      BY <3>5, <3>6
  <2> QED
    BY <2>2, <2>3
<1> QED
  BY <1>2, <1>3

\* A CPU that counts in an entry does it for a page that its space is on.
LEMMA MarkPage ==
  ASSUME Structure, NEW d \in CPUs, pc[d] = "mark_count"
  PROVE  page[d] \in Pages /\ \E u \in Spaces : On(u, page[d])
<1>1. pc[d] \in MarkSteps /\ pc[d] # "mark" /\ pc[d] \notin CopySteps
  BY DEF MarkSteps, CopySteps
<1>2. /\ todo[d][1] \in at[d] /\ at[d] \subseteq Spaces
      /\ \A s \in at[d] : pte[s].page \in Pages
      /\ \A s \in at[d] : pte[s].page = page[d]
  BY <1>1, MarkShape
<1>3. PICK u \in Spaces : u \in at[d] /\ pte[u].page = page[d] /\ page[d] \in Pages
  BY <1>2
<1>4. HandsApart
  BY DEF Structure
<1>5. \A p : On(u, p) <=> pte[u].page = p /\ pc[d] \notin CopySteps
  BY <1>3, <1>4, SpaceHeld
<1> QED
  BY <1>1, <1>3, <1>5

\* The three parts of the invariant that are about entries, memory and copies.
Rest == EntryInv /\ NoRestore /\ CopyInv

\* Steps that unlink no entry and go to no copy keep them.
LEMMA RestFrame ==
  ASSUME Structure, Rest, NEW c \in CPUs, Others(c), pc'[c] # "mark_count",
         pc'[c] \notin CopySteps,
         \A q \in Pages : entry[q] # None => entry'[q] # None
  PROVE  Rest'
<1>1. \A d \in CPUs \ {c} : pc[d] = "mark_count" =>
        (entry[page[d]] # None => entry'[page[d]] # None)
  BY MarkPage
<1>2. EntryInv'
  BY <1>1, EntryFrame DEF Rest
<1>3. pc'[c] # "fault_restore"
  BY DEF CopySteps
<1>4. NoRestore'
  BY <1>3, RestoreFrame DEF Rest
<1>5. CopyInv'
  BY CopyIdle
<1> QED
  BY <1>2, <1>4, <1>5 DEF Rest

\* Adding to a count unlinks no entry.
LEMMA AddKeeps ==
  ASSUME Structure, NEW c \in CPUs, page[c] \in Pages, NEW d \in {1, -1},
         AddCount(c, d)
  PROVE  \A q \in Pages : entry[q] # None => entry'[q] # None
<1> SUFFICES ASSUME NEW q \in Pages, entry[q] # None PROVE entry'[q] # None
  OBVIOUS
<1>1. SharedTypes /\ CallTypes
  BY TypesSplit DEF Structure
<1>2. /\ \A r \in Pages \ {page[c]} : entry'[r] = entry[r]
      /\ entry'[page[c]] = IF entry[page[c]] = None THEN None
                           ELSE (entry[page[c]] + d) % CountMod
  BY <1>1, CountTyped
<1>3. entry[q] \in Nat /\ CountMod \in Nat \ {0, 1} /\ None \notin Nat
  BY CowAssumption DEF Structure, TypeOK
<1>4. (entry[q] + d) % CountMod \in Nat
  BY <1>3
<1> QED
  BY <1>2, <1>3, <1>4

\* A caller gives up the reference that it took.
LEMMA UnpinRest ==
  ASSUME Structure, Rest, NEW c \in CPUs, Unpin(c)
  PROVE  Rest'
<1>1. Others(c) /\ pc'[c] = "dec" /\ UNCHANGED entry
  BY UnpinFacts
<1> QED
  BY <1>1, RestFrame DEF CopySteps

\* The calls of a caller that are about a space.
LEMMA CallRest ==
  ASSUME SpacesApart, Structure, Rest, NEW c \in CPUs, NEW s \in Spaces, NEW t \in Spaces,
         Share(c, s, t) \/ Unmap(c, s) \/ FaultRef(c, s) \/ IncrementRef(c, s)
  PROVE  Rest'
<1> DEFINE Keeps == /\ Others(c) /\ pc'[c] # "mark_count" /\ pc'[c] \notin CopySteps
                    /\ \A q \in Pages : entry[q] # None => entry'[q] # None
<1>1. CASE Share(c, s, t)
  <2>1. Others(c) /\ pc'[c] = "mark" /\ UNCHANGED entry
    BY <1>1, ShareFacts
  <2>2. Keeps
    BY <2>1 DEF CopySteps
  <2> QED
    BY <2>2, RestFrame
<1>2. CASE Unmap(c, s)
  <2>1. Others(c) /\ pc'[c] \in {"dec", "idle"} /\ UNCHANGED entry
    BY <1>2, UnmapFacts
  <2>2. Keeps
    BY <2>1 DEF CopySteps
  <2> QED
    BY <2>2, RestFrame
<1>3. CASE FaultRef(c, s) \/ IncrementRef(c, s)
  <2>0. PICK p : p = pte[s].page
    OBVIOUS
  <2>1. /\ Others(c) /\ p \in Pages /\ pc'[c] \in {"fault_count", "inc"}
        /\ entry'[p] = entry[p] \/ (entry[p] = None /\ entry'[p] = 0)
        /\ \A q \in Pages \ {p} : entry'[q] = entry[q]
    BY <1>3, <2>0, RefFacts
  <2>2. None \notin Nat
    BY CowAssumption
  <2>3. Keeps
    BY <2>1, <2>2 DEF CopySteps
  <2> QED
    BY <2>3, RestFrame
<1> QED
  BY <1>1, <1>2, <1>3

\* The steps of cow_mark_page.
LEMMA MarkRest ==
  ASSUME Structure, Rest, NEW c \in CPUs, MarkRef(c) \/ MarkCount(c) \/ MarkPte(c)
  PROVE  Rest'
<1>1. CASE MarkRef(c)
  <2>0. PICK p, t : p = pte[Head(todo[c])].page /\ t = todo[c][Len(todo[c])]
    OBVIOUS
  <2>1. /\ Others(c) /\ p \in Pages
        /\ \/ /\ pc'[c] = "mark_count" /\ page'[c] = p
              /\ entry'[p] = (IF entry[p] = None THEN 0 ELSE entry[p])
              /\ \A q \in Pages \ {p} : entry'[q] = entry[q]
           \/ pc'[c] = "idle" /\ UNCHANGED entry
    BY <1>1, <2>0, MarkRefFacts
  <2>2. None \notin Nat
    BY CowAssumption
  <2>3. \A q \in Pages : entry[q] # None => entry'[q] # None
    BY <2>1, <2>2
  <2>4. CASE pc'[c] = "idle"
    BY <2>1, <2>3, <2>4, RestFrame DEF CopySteps
  <2>5. CASE pc'[c] = "mark_count"
    <3>1. pc'[c] \notin CopySteps /\ pc'[c] # "fault_restore" /\ Others(c)
      BY <2>1, <2>5 DEF CopySteps
    <3>2. NoRestore' /\ CopyInv'
      BY <3>1, RestoreFrame, CopyIdle DEF Rest
    <3>3. entry'[page'[c]] # None
      BY <2>1, <2>2, <2>5
    <3>4. ASSUME NEW d \in CPUs \ {c}, pc[d] = "mark_count"
          PROVE  entry'[page[d]] # None
      BY <2>3, <3>4, MarkPage DEF Rest, EntryInv
    <3>5. EntryInv'
      BY <3>1, <3>3, <3>4 DEF EntryInv, Others
    <3> QED
      BY <3>2, <3>5 DEF Rest
  <2> QED
    BY <2>1, <2>4, <2>5
<1>2. CASE MarkCount(c)
  <2>1. Others(c) /\ pc'[c] = "mark_pte" /\ page[c] \in Pages /\ AddCount(c, 1)
    BY <1>2, MarkCountFacts
  <2>2. \A q \in Pages : entry[q] # None => entry'[q] # None
    BY <2>1, AddKeeps
  <2> QED
    BY <2>1, <2>2, RestFrame DEF CopySteps
<1>3. CASE MarkPte(c)
  <2>0. PICK s : s = todo[c][1]
    OBVIOUS
  <2>1. Others(c) /\ pc'[c] \in {"idle", "mark"} /\ UNCHANGED entry
    BY <1>3, <2>0, MarkPteFacts
  <2> QED
    BY <2>1, RestFrame DEF CopySteps
<1> QED
  BY <1>1, <1>2, <1>3

\* A step from copy to copy, on one CPU.
LEMMA CopyFrame ==
  ASSUME CopyInv, NEW c \in CPUs, Others(c), pc[c] \in CopySteps,
         pc'[c] \in CopySteps, at'[c] = at[c], page'[c] = page[c],
         new'[c] # page[c], free' \subseteq free, UNCHANGED <<pte, entry>>
  PROVE  CopyInv'
<1> SUFFICES ASSUME OneCPU
             PROVE  /\ page[c] \notin free' /\ entry'[page[c]] # None
                    /\ \A u \in Spaces : On(u, page[c])' => pte'[u].cow
  BY DEF CopyInv, OneCPU
<1>1. /\ page[c] \notin free /\ entry[page[c]] # None
      /\ \A u \in Spaces : On(u, page[c]) => pte[u].cow
  BY DEF CopyInv
<1>2. \A u : InHands(u, CopySteps)' <=> InHands(u, CopySteps)
  BY DEF InHands, Others
<1>3. ASSUME NEW u \in Spaces, On(u, page[c])' PROVE pte'[u].cow
  <2>1. On(u, page[c])
    BY <1>2, <1>3 DEF On
  <2> QED
    BY <2>1, <1>1
<1> QED
  BY <1>1, <1>3

\* The reference of the faulting space is given up, and the page stays.
LEMMA FaultCountRest ==
  ASSUME CountFits, Structure, Good, Rest, NEW c \in CPUs, FaultCount(c)
  PROVE  Rest'
<1>0. PICK p : p = page[c]
  OBVIOUS
<1>1. /\ Others(c) /\ p \in Pages /\ AddCount(c, -1) /\ page'[c] = p
      /\ pc[c] = "fault_count" /\ pc'[c] \in {"fault_own", "fault_alloc"}
      /\ UNCHANGED <<pte, free, new>>
  BY <1>0, FaultCountFacts
<1>2. \A q \in Pages : entry[q] # None => entry'[q] # None
  BY <1>0, <1>1, AddKeeps
<1>3. CASE pc'[c] = "fault_own"
  BY <1>1, <1>2, <1>3, RestFrame DEF CopySteps
<1>4. CASE pc'[c] = "fault_alloc"
  <2>1. \A d \in CPUs \ {c} : pc[d] = "mark_count" =>
          (entry[page[d]] # None => entry'[page[d]] # None)
    BY <1>2, MarkPage
  <2>2. pc'[c] # "mark_count" /\ pc'[c] # "fault_restore"
    BY <1>4
  <2>3. EntryInv'
    BY <1>1, <2>1, <2>2, EntryFrame DEF Rest
  <2>4. NoRestore'
    BY <1>1, <2>2, RestoreFrame DEF Rest
  <2>5. /\ p \notin free /\ entry'[p] # None
        /\ \A u \in Spaces : On(u, p)' => Sharing(u)'
    BY <1>0, <1>4, FaultCountGood
  <2>6. new[c] = None /\ p # None
    BY <1>1, CowAssumption DEF Structure, Locals, OtherLocals
  <2>7. ASSUME OneCPU, NEW u \in Spaces, On(u, p)' PROVE pte'[u].cow
    <3>1. Sharing(u)'
      BY <2>5, <2>7
    <3>2. ~InHands(u, MarkSteps)'
      BY <2>7, <1>4 DEF InHands, OneCPU, MarkSteps
    <3> QED
      BY <3>1, <3>2 DEF Sharing
  <2>8. ASSUME OneCPU, NEW d \in CPUs
        PROVE  /\ page'[d] \notin free' /\ new'[d] # page'[d] /\ entry'[page'[d]] # None
               /\ \A u \in Spaces : On(u, page[d])' => pte'[u].cow
    <3>1. d = c
      BY <2>8 DEF OneCPU
    <3>2. page'[d] = p
      BY <3>1, <1>1
    <3>3. \A u \in Spaces : On(u, p)' => pte'[u].cow
      BY <2>7, <2>8
    <3>4. \A u \in Spaces : On(u, page[d])' => On(u, p)'
      BY <3>2 DEF On
    <3> QED
      BY <3>1, <3>2, <3>3, <3>4, <2>5, <2>6, <1>1
  <2>9. CopyInv'
    BY <2>8 DEF CopyInv
  <2> QED
    BY <2>3, <2>4, <2>9 DEF Rest
<1> QED
  BY <1>1, <1>3, <1>4

\* A page for the copy, which is there when memory is plenty.
LEMMA FaultAllocRest ==
  ASSUME CountFits, Structure, Good, Rest, NEW c \in CPUs, FaultAlloc(c)
  PROVE  Rest'
<1>1. /\ Others(c) /\ page[c] \in Pages /\ pc[c] = "fault_alloc"
      /\ at'[c] = at[c] /\ page'[c] = page[c]
      /\ \/ \E p \in free : /\ p \in Pages /\ free' = free \ {p}
                            /\ new'[c] = p /\ pc'[c] = "fault_copy"
         \/ NoMemory /\ UNCHANGED free /\ new'[c] = None /\ pc'[c] = "fault_restore"
      /\ UNCHANGED <<pte, entry>>
  BY FaultAllocFacts
<1>2. EntryInv'
  <2>1. pc'[c] # "mark_count"
    BY <1>1
  <2> QED
    BY <1>1, <2>1, EntryFrame DEF Rest
<1>3. NoRestore'
  <2> SUFFICES ASSUME MemoryPlenty, NEW d \in CPUs PROVE pc'[d] # "fault_restore"
    BY DEF NoRestore, MemoryPlenty
  <2>1. ~NoMemory
    BY PageLeft DEF NoMemory, MemoryPlenty
  <2> QED
    BY <1>1, <2>1 DEF Rest, NoRestore, Others
<1>4. CopyInv'
  <2>1. CASE ~OneCPU
    BY <2>1 DEF CopyInv, OneCPU
  <2>2. CASE OneCPU
    <3>1. page[c] \notin free /\ None \notin Pages /\ CopyInv
      BY <1>1, <2>2, CowAssumption DEF Rest, CopyInv, CopySteps
    <3>2. /\ pc[c] \in CopySteps /\ pc'[c] \in CopySteps /\ free' \subseteq free
          /\ new'[c] # page[c]
      BY <1>1, <3>1 DEF CopySteps
    <3> QED
      BY <1>1, <3>1, <3>2, CopyFrame
  <2> QED
    BY <2>1, <2>2
<1> QED
  BY <1>2, <1>3, <1>4 DEF Rest

\* The other steps of cow_handle_fault.
LEMMA FaultRest ==
  ASSUME Structure, Rest, NEW c \in CPUs,
         FaultOwn(c) \/ FaultRestore(c) \/ FaultCopy(c) \/ FaultDone(c)
  PROVE  Rest'
<1>1. CASE FaultOwn(c)
  <2>0. PICK p : p = page[c]
    OBVIOUS
  <2>1. p \in Pages
    BY <1>1, <2>0, FaultShape DEF FaultOwn, FaultSteps
  <2>2. Others(c) /\ pc'[c] = "idle" /\ UNCHANGED entry
    BY <1>1, <2>0, <2>1, FaultPteFacts
  <2> QED
    BY <2>2, RestFrame DEF CopySteps
<1>2. CASE FaultRestore(c)
  <2>1. Others(c) /\ page[c] \in Pages /\ AddCount(c, 1) /\ pc'[c] = "idle"
    BY <1>2, FaultRestoreFacts
  <2>2. \A q \in Pages : entry[q] # None => entry'[q] # None
    BY <2>1, AddKeeps
  <2> QED
    BY <2>1, <2>2, RestFrame DEF CopySteps
<1>3. CASE FaultCopy(c)
  <2>1. /\ Others(c) /\ pc[c] = "fault_copy" /\ pc'[c] = "fault_pte"
        /\ at'[c] = at[c] /\ page'[c] = page[c] /\ new'[c] = new[c]
        /\ UNCHANGED <<pte, entry, free>>
    BY <1>3, FaultCopyFacts
  <2>2. pc'[c] # "mark_count" /\ pc'[c] # "fault_restore"
    BY <2>1
  <2>3. EntryInv' /\ NoRestore'
    BY <2>1, <2>2, EntryFrame, RestoreFrame DEF Rest
  <2>4. CopyInv'
    <3>1. CASE ~OneCPU
      BY <3>1 DEF CopyInv, OneCPU
    <3>2. CASE OneCPU
      <4>1. CopyInv /\ new'[c] # page[c]
        BY <3>2, <2>1 DEF Rest, CopyInv, CopySteps
      <4>2. pc[c] \in CopySteps /\ pc'[c] \in CopySteps /\ free' \subseteq free
        BY <2>1 DEF CopySteps
      <4> QED
        BY <2>1, <4>1, <4>2, CopyFrame
    <3> QED
      BY <3>1, <3>2
  <2> QED
    BY <2>3, <2>4 DEF Rest
<1>4. CASE FaultDone(c)
  <2>0. PICK p : p = new[c]
    OBVIOUS
  <2>1. p \in Pages
    BY <1>4, <2>0, CowAssumption DEF FaultDone, Structure, TypeOK, Locals, OtherLocals
  <2>2. Others(c) /\ pc'[c] = "idle" /\ UNCHANGED entry
    BY <1>4, <2>0, <2>1, FaultPteFacts
  <2> QED
    BY <2>2, RestFrame DEF CopySteps
<1> QED
  BY <1>1, <1>2, <1>3, <1>4

\* The steps of cow_increment_ref and cow_decrement_ref; no CPU is about to
\* count in an entry that is unlinked.
LEMMA DecRest ==
  ASSUME CountFits, Structure, Good, Rest, NEW c \in CPUs,
         Increment(c) \/ DecCount(c) \/ DecUnlink(c) \/ DecFree(c)
  PROVE  Rest'
<1>0. PICK p, n : p = page[c] /\ n = (entry[p] - 1) % CountMod
  OBVIOUS
<1>1. CASE Increment(c)
  <2>1. Others(c) /\ page[c] \in Pages /\ AddCount(c, 1) /\ pc'[c] = "idle"
    BY <1>1, IncrementFacts
  <2>2. \A q \in Pages : entry[q] # None => entry'[q] # None
    BY <2>1, AddKeeps
  <2> QED
    BY <2>1, <2>2, RestFrame DEF CopySteps
<1>2. CASE DecCount(c)
  <2>1. /\ Others(c) /\ p \in Pages /\ pc'[c] \in {"idle", "dec_unlink"}
        /\ \A q \in Pages \ {p} : entry'[q] = entry[q]
        /\ entry[p] # None => entry'[p] = n
    BY <1>0, <1>2, DecCountFacts
  <2>2. entry[p] # None => entry[p] \in Nat
    BY <2>1 DEF Structure, TypeOK
  <2>3. entry[p] # None => n \in Nat
    BY <1>0, <2>2, CowAssumption
  <2>4. \A q \in Pages : entry[q] # None => entry'[q] # None
    BY <2>1, <2>3, CowAssumption
  <2> QED
    BY <2>1, <2>4, RestFrame DEF CopySteps
<1>3. CASE DecUnlink(c)
  <2>1. /\ Others(c) /\ p \in Pages /\ pc'[c] = "dec_free"
        /\ \A q \in Pages \ {p} : entry'[q] = entry[q]
    BY <1>0, <1>3, DecUnlinkFacts
  <2>2. \A u \in Spaces : ~On(u, p)
    BY <1>0, <1>3, DecUnlinkGood
  <2>3. \A d \in CPUs \ {c} : pc[d] = "mark_count" =>
          (entry[page[d]] # None => entry'[page[d]] # None)
    BY <2>1, <2>2, MarkPage
  <2>4. /\ pc'[c] # "mark_count" /\ pc'[c] # "fault_restore"
        /\ pc'[c] \notin CopySteps
    BY <2>1 DEF CopySteps
  <2>5. EntryInv' /\ NoRestore'
    BY <2>1, <2>3, <2>4, EntryFrame, RestoreFrame DEF Rest
  <2>6. CopyInv'
    BY <2>4, CopyIdle
  <2> QED
    BY <2>5, <2>6 DEF Rest
<1>4. CASE DecFree(c)
  <2>1. Others(c) /\ pc'[c] = "idle" /\ UNCHANGED entry
    BY <1>0, <1>4, DecFreeFacts
  <2> QED
    BY <2>1, RestFrame DEF CopySteps
<1> QED
  BY <1>1, <1>2, <1>3, <1>4

-----------------------------------------------------------------------------
(* The invariant *)

\* The counts of all pages are right.
LEMMA CountsRight ==
  /\ RefCountExact <=> \A p \in Pages : Exact(p)
  /\ RefCountExact' <=> \A p \in Pages : Exact(p)'
BY DEF RefCountExact, Exact

\* The invariant in the form the steps use.
LEMMA WInvParts ==
  /\ WInv <=> Structure /\ Good /\ Rest
  /\ WInv' <=> Structure' /\ Good' /\ Rest'
BY CountsRight DEF WInv, Good, Rest

\* It holds at the start: all pages are free and uncounted.
LEMMA InitWInv ==
  ASSUME Init
  PROVE  WInv
<1>1. Structure
  BY InitStructure
<1>2. None \notin Pages /\ free = Pages /\ Unmapped.page = None
  BY CowAssumption, PteKinds DEF Init
<1>3. \A s \in Spaces : pte[s].page = None
  BY <1>2 DEF Init
<1>4. \A c \in CPUs : /\ pc[c] = "idle" /\ pin[c] = None /\ new[c] = None
                      /\ page[c] = None
  BY DEF Init
<1>5. ASSUME NEW p \in Pages PROVE Owned(p) /\ Exact(p)
  <2>1. p # None /\ p \in free
    BY <1>2
  <2>2. \A s \in Spaces : ~On(s, p) /\ ~Counted(s, p)
    BY <2>1, <1>3 DEF On, Counted
  <2>3. \A c \in CPUs : /\ ~User(c, p) /\ new[c] # p /\ ~Dying(c, p) /\ ~Marks(c, p)
                        /\ pin[c] # p /\ ~Under(c, p)
    BY <2>1, <1>4 DEF User, Dec, Dying, Marks, Under, DeathSteps, MarkSteps
  <2>4. Owned(p)
    BY <2>1, <2>2, <2>3 DEF Owned, SpacesShare, OwnersAlone, UsedNotFree, NewAlone,
                            DyingAlone, MarkedFirst, Kept
  <2>5. Refs(p) = {} /\ Pins(p) = {} /\ Unders(p) = {}
    BY <2>2, <2>3 DEF Refs, Pins, Unders
  <2>6. Expected(p) = Cardinality(Refs(p)) + Cardinality(Pins(p)) + Cardinality(Unders(p))
    BY <1>1, PartsNow DEF Parts
  <2>7. Expected(p) = 0
    BY <2>5, <2>6, FS_EmptySet
  <2>8. entry[p] = None
    BY DEF Init
  <2> QED
    BY <2>4, <2>7, <2>8 DEF Exact
<1>6. Rest
  BY <1>4 DEF Rest, EntryInv, NoRestore, CopyInv, CopySteps
<1> QED
  BY <1>1, <1>5, <1>6, WInvParts DEF Good

\* Users and counts, for all steps of a call.
LEMMA StepGood ==
  ASSUME CountFits, OneCPU \/ MemoryPlenty, Structure, Good, Rest, NEW c \in CPUs,
         Step(c)
  PROVE  Good' /\ Rest'
<1>0. EntryInv
  BY DEF Rest
<1>1. CASE MarkRef(c)
  BY <1>1, MarkRefGood, MarkFailGood, MarkRest
<1>2. CASE MarkCount(c)
  BY <1>0, <1>2, MarkCountGood, MarkRest
<1>3. CASE MarkPte(c)
  BY <1>3, MarkPteGood, MarkRest
<1>4. CASE FaultCount(c)
  <2>0. PICK p : p = page[c]
    OBVIOUS
  <2>1. Good'
    BY <1>4, <2>0, FaultCountGood
  <2> QED
    BY <1>4, <2>1, FaultCountRest
<1>5. CASE FaultOwn(c)
  BY <1>5, FaultOwnGood, FaultRest
<1>6. CASE FaultAlloc(c)
  BY <1>6, FaultAllocGood, FaultAllocRest
<1>7. CASE FaultRestore(c)
  <2>1. pc[c] = "fault_restore"
    BY <1>7 DEF FaultRestore
  <2>2. OneCPU /\ CopyInv
    BY <2>1 DEF Rest, NoRestore
  <2> QED
    BY <1>7, <2>2, FaultRestoreGood, FaultRest
<1>8. CASE FaultCopy(c)
  BY <1>8, FaultCopyGood, FaultRest
<1>9. CASE FaultDone(c)
  BY <1>9, FaultDoneGood, FaultRest
<1>10. CASE Increment(c)
  BY <1>10, IncrementGood, DecRest
<1>11. CASE DecCount(c)
  BY <1>11, DecCountGood, DecRest
<1>12. CASE DecUnlink(c)
  <2>0. PICK p : p = page[c]
    OBVIOUS
  <2>1. Good'
    BY <1>12, <2>0, DecUnlinkGood
  <2> QED
    BY <1>12, <2>1, DecRest
<1>13. CASE DecFree(c)
  BY <1>13, DecFreeGood, DecRest
<1> QED
  BY <1>1, <1>2, <1>3, <1>4, <1>5, <1>6, <1>7, <1>8, <1>9, <1>10, <1>11, <1>12, <1>13
     DEF Step

\* When nothing changes, nothing changes for the users of a page.
LEMMA StutterWInv ==
  ASSUME WInv, UNCHANGED vars
  PROVE  WInv'
<1>1. /\ pte' = pte /\ entry' = entry /\ glock' = glock /\ content' = content
      /\ free' = free /\ pin' = pin /\ pc' = pc /\ at' = at /\ todo' = todo
      /\ page' = page /\ new' = new /\ view' = view
  BY DEF vars
<1>2. Structure' <=> Structure
  BY <1>1 DEF Structure, TypeOK, PteInv, HandsApart, GlockInv, Locals, MarkLocals,
              FaultLocals, OtherLocals, TwoToMark, OneToMark
<1>3. \A s : /\ \A p : On(s, p)' <=> On(s, p)
             /\ Sharing(s)' <=> Sharing(s)
  <2>1. \A s, steps : InHands(s, steps)' <=> InHands(s, steps)
    BY <1>1 DEF InHands
  <2> QED
    BY <1>1, <2>1 DEF On, Sharing
<1>4. \A d, p : /\ User(d, p)' <=> User(d, p)
                /\ Dying(d, p)' <=> Dying(d, p)
                /\ Marks(d, p)' <=> Marks(d, p)
  BY <1>1 DEF User, Dec, Dying, Marks
<1>5. ASSUME NEW p \in Pages PROVE Owned(p)'
  <2>1. Same(p) /\ Owned(p)
    BY <1>1, <1>3, <1>4 DEF Same, WInv
  <2> QED
    BY <2>1, OwnedSame
<1>6. \A p : Expected(p)' = Expected(p)
  BY <1>1 DEF Expected, Mapped, GaveUp
<1>7. RefCountExact'
  BY <1>1, <1>6 DEF WInv, RefCountExact
<1>8. EntryInv' /\ NoRestore'
  BY <1>1 DEF WInv, EntryInv, NoRestore, MemoryPlenty
<1>9. CopyInv'
  BY <1>1 DEF WInv, CopyInv, OneCPU, On, InHands
<1> QED
  BY <1>2, <1>5, <1>7, <1>8, <1>9 DEF WInv

\* Every step preserves the invariant.
LEMMA WInvNext ==
  ASSUME CountFits, SpacesApart, OneCPU \/ MemoryPlenty, WInv, [Next]_vars
  PROVE  WInv'
<1>1. Structure /\ Good /\ Rest
  BY WInvParts
<1>2. Structure'
  BY <1>1, StructureNext
<1>3. ASSUME NEW s \in Spaces, MapNew(s) \/ Write(s) PROVE Good' /\ Rest'
  BY <1>1, <1>3, MapNewGood, WriteGood, RunRest DEF Rest
<1>4. ASSUME NEW c \in CPUs, Call(c), ~UNCHANGED vars PROVE Good' /\ Rest'
  <2>1. CASE \E s, t \in Spaces : Share(c, s, t)
    BY <1>1, <2>1, ShareGood, CallRest
  <2>2. ASSUME NEW s \in Spaces,
               Unmap(c, s) \/ FaultRefused(c, s) \/ FaultRef(c, s) \/ IncrementRef(c, s)
        PROVE  Good' /\ Rest'
    <3>1. CASE Unmap(c, s)
      BY <1>1, <3>1, UnmapGood, CallRest
    <3>2. CASE FaultRef(c, s) \/ IncrementRef(c, s)
      BY <1>1, <3>2, RefGood, CallRest
    <3>3. CASE FaultRefused(c, s)
      BY <1>4, <3>3 DEF FaultRefused
    <3> QED
      BY <2>2, <3>1, <3>2, <3>3
  <2>3. CASE Unpin(c)
    BY <1>1, <2>3, UnpinGood, UnpinRest
  <2> QED
    BY <1>4, <2>1, <2>2, <2>3 DEF Call
<1>5. ASSUME NEW c \in CPUs, Step(c) PROVE Good' /\ Rest'
  BY <1>1, <1>5, StepGood
<1>6. CASE UNCHANGED vars
  BY <1>6, StutterWInv
<1>7. CASE Next /\ ~UNCHANGED vars
  BY <1>2, <1>3, <1>4, <1>5, <1>7, WInvParts DEF Next
<1> QED
  BY <1>6, <1>7

-----------------------------------------------------------------------------
(* What spaces find in their pages, on one CPU *)

\* A space that is not on its page waits for a copy of it, which is not for
\* one that could write.
LEMMA MappedUsers ==
  ASSUME OneCPU, Structure, CopyInv, NEW s \in Spaces, NEW p \in Pages,
         pte[s].page = p
  PROVE  \/ On(s, p)
         \/ \E c \in CPUs : /\ pc[c] \in CopySteps /\ page[c] = p /\ p \notin free
                            /\ \A u \in Spaces : On(u, p) => pte[u].cow
<1> SUFFICES ASSUME ~On(s, p)
             PROVE  \E c \in CPUs : /\ pc[c] \in CopySteps /\ page[c] = p /\ p \notin free
                                    /\ \A u \in Spaces : On(u, p) => pte[u].cow
  OBVIOUS
<1>1. PICK c \in CPUs : s \in at[c] /\ pc[c] \in CopySteps
  BY DEF On, InHands
<1>2. page[c] = p
  BY <1>1, FaultShape DEF FaultSteps
<1> QED
  BY <1>1, <1>2 DEF CopyInv

\* Nothing has been written, and what spaces should find is there.
LEMMA ViewFrame ==
  ASSUME OneCPU, Structure', NEW c \in CPUs, pc'[c] # "fault_pte",
         \A u \in Spaces : pte'[u].page # None => content'[pte'[u].page] = view'[u]
  PROVE  ViewInv'
<1>1. \A u \in Mapped' : u \in Spaces /\ pte'[u].page # None
  BY DEF Structure, PteInv, Mapped
<1>2. \A d \in CPUs : pc'[d] # "fault_pte"
  BY DEF OneCPU
<1> QED
  BY <1>1, <1>2 DEF ViewInv

\* What spaces should find is there, for entries that hold a page.
LEMMA ViewNow ==
  ASSUME Structure, ViewInv, NEW u \in Spaces, pte[u].page # None
  PROVE  pte[u].page \in Pages /\ content[pte[u].page] = view[u]
BY PteFields DEF Structure, ViewInv

\* A store is seen by the space that makes it, and by no other.
LEMMA WriteView ==
  ASSUME OneCPU, WInv, ViewInv, NEW s \in Spaces, Write(s)
  PROVE  ViewInv'
<1> USE DEF SpacesApart
<1>0. PICK p : p = pte[s].page
  OBVIOUS
<1>1. Structure /\ CopyInv /\ \A q \in Pages : Owned(q)
  BY DEF WInv
<1>2. /\ Structure' /\ ~Busy(s) /\ pte[s].writable /\ p \in Pages
      /\ UNCHANGED <<pte, pc, page, new>>
      /\ \A t \in Spaces \ {s} : view'[t] = view[t]
      /\ \A q \in Pages \ {p} : content'[q] = content[q]
      /\ content'[p] = view'[s]
  BY <1>0, <1>1, WriteFacts
<1>3. On(s, p) /\ ~Sharing(s) /\ ~pte[s].cow
  <2>1. ~pte[s].cow
    BY <1>1, <1>2 DEF Structure, PteInv
  <2>2. (\A q : On(s, q) <=> pte[s].page = q) /\ (Sharing(s) <=> pte[s].cow)
    BY <1>2, SpaceRuns
  <2> QED
    BY <2>1, <2>2, <1>0
<1>4. ASSUME NEW u \in Spaces, u # s PROVE pte[u].page # p
  <2>1. SUFFICES ASSUME pte[u].page = p PROVE FALSE
    OBVIOUS
  <2>2. ~On(u, p)
    BY <1>1, <1>2, <1>3, <1>4 DEF Owned, SpacesShare
  <2> QED
    BY <1>1, <1>2, <1>3, <2>1, <2>2, MappedUsers
<1>5. ASSUME NEW u \in Mapped PROVE content'[pte[u].page] = view'[u]
  <2>1. u \in Spaces /\ pte[u].page # None
    BY <1>1 DEF Structure, PteInv, Mapped
  <2>2. pte[u].page \in Pages /\ content[pte[u].page] = view[u]
    BY <1>1, <2>1, ViewNow
  <2> QED
    BY <2>1, <2>2, <1>0, <1>2, <1>4
<1>6. ASSUME NEW c \in CPUs, pc[c] = "fault_pte"
      PROVE  content'[new[c]] = content'[page[c]]
  <2>1. page[c] \in Pages /\ new[c] \in Pages
    BY <1>1, <1>6, FaultShape, CowAssumption
       DEF FaultSteps, CopySteps, Structure, TypeOK, Locals, OtherLocals
  <2>2. page[c] # p
    BY <1>1, <1>3, <1>6 DEF CopyInv, CopySteps
  <2>3. new[c] # p
    BY <1>1, <1>2, <1>3 DEF Owned, UsedNotFree
  <2> QED
    BY <1>2, <1>6, <2>1, <2>2, <2>3 DEF ViewInv
<1>7. Mapped' = Mapped
  BY <1>2 DEF Mapped
<1> QED
  BY <1>2, <1>5, <1>6, <1>7 DEF ViewInv

\* The copy holds what the page holds, and the page it is made in is no space's.
LEMMA FaultCopyView ==
  ASSUME OneCPU, WInv, ViewInv, NEW c \in CPUs, FaultCopy(c)
  PROVE  ViewInv'
<1>0. PICK p, q : p = page[c] /\ q = new[c]
  OBVIOUS
<1>1. Structure /\ CopyInv /\ \A r \in Pages : Owned(r)
  BY DEF WInv
<1>2. /\ p \in Pages /\ q \in Pages /\ pc[c] = "fault_copy"
      /\ page'[c] = p /\ new'[c] = q /\ content'[q] = content[p]
      /\ \A r \in Pages \ {q} : content'[r] = content[r]
      /\ UNCHANGED <<pte, view>>
  BY <1>0, <1>1, FaultCopyFacts
<1>3. p # q
  BY <1>0, <1>1, <1>2 DEF CopyInv, CopySteps
<1>4. ASSUME NEW u \in Spaces PROVE pte[u].page # q
  <2>1. SUFFICES ASSUME pte[u].page = q PROVE FALSE
    OBVIOUS
  <2>2. ~On(u, q)
    BY <1>0, <1>1, <1>2 DEF Owned, UsedNotFree
  <2>3. PICK d \in CPUs : page[d] = q
    BY <1>1, <1>2, <2>1, <2>2, MappedUsers
  <2> QED
    BY <1>0, <1>3, <2>3 DEF OneCPU
<1>5. ASSUME NEW u \in Mapped PROVE content'[pte[u].page] = view'[u]
  <2>1. u \in Spaces /\ pte[u].page # None
    BY <1>1 DEF Structure, PteInv, Mapped
  <2>2. pte[u].page \in Pages /\ content[pte[u].page] = view[u]
    BY <1>1, <2>1, ViewNow
  <2> QED
    BY <2>1, <2>2, <1>2, <1>4
<1>6. \A d \in CPUs : content'[new'[d]] = content'[page'[d]]
  BY <1>2, <1>3 DEF OneCPU
<1>7. Mapped' = Mapped
  BY <1>2 DEF Mapped
<1> QED
  BY <1>2, <1>5, <1>6, <1>7 DEF ViewInv

\* The space gets its copy.
LEMMA FaultPteView ==
  ASSUME OneCPU, WInv, ViewInv, NEW c \in CPUs, FaultOwn(c) \/ FaultDone(c)
  PROVE  ViewInv'
<1>1. Structure
  BY DEF WInv
<1>2. PICK p \in Pages : \/ FaultOwn(c) /\ p = page[c]
                         \/ FaultDone(c) /\ p = new[c]
  BY <1>1, FaultShape, CowAssumption
     DEF FaultOwn, FaultDone, FaultSteps, Structure, TypeOK, Locals, OtherLocals
<1>3. /\ Structure' /\ pc'[c] = "idle" /\ page[c] \in Pages
      /\ \/ pc[c] = "fault_own" /\ p = page[c]
         \/ pc[c] = "fault_pte" /\ p = new[c]
      /\ \E s \in Spaces : /\ at[c] = {s} /\ pte[s].cow /\ pte[s].page = page[c]
                           /\ pte'[s].page = p /\ ~pte'[s].cow
                           /\ \A u \in Spaces \ {s} : pte'[u] = pte[u]
      /\ UNCHANGED <<content, view>>
  BY <1>1, <1>2, FaultPteFacts
<1>4. PICK s \in Spaces : /\ pte[s].page = page[c] /\ pte'[s].page = p
                          /\ \A u \in Spaces \ {s} : pte'[u] = pte[u]
  BY <1>3
<1>5. content[p] = content[page[c]]
  BY <1>3 DEF ViewInv
<1>6. content[page[c]] = view[s]
  BY <1>1, <1>3, <1>4, CowAssumption, ViewNow
<1>7. ASSUME NEW u \in Spaces, pte'[u].page # None
      PROVE  content'[pte'[u].page] = view'[u]
  BY <1>1, <1>3, <1>4, <1>5, <1>6, <1>7, ViewNow
<1> QED
  BY <1>3, <1>7, ViewFrame

\* Steps that write nothing and leave every page where it was, or that unmap it.
LEMMA ViewKept ==
  ASSUME OneCPU, Structure, Structure', ViewInv, NEW c \in CPUs, pc'[c] # "fault_pte",
         UNCHANGED content,
         \A u \in Spaces : \/ pte'[u].page = None
                           \/ pte'[u].page = pte[u].page /\ view'[u] = view[u]
  PROVE  ViewInv'
<1>1. \A u \in Spaces : pte'[u].page # None => content'[pte'[u].page] = view'[u]
  BY ViewNow
<1> QED
  BY <1>1, ViewFrame

\* A fresh page holds what its space should find.
LEMMA MapView ==
  ASSUME OneCPU, WInv, ViewInv, Structure', NEW s \in Spaces, MapNew(s)
  PROVE  ViewInv'
<1>1. Structure
  BY DEF WInv
<1>2. /\ UNCHANGED <<content, pc, page, new>>
      /\ \A t \in Spaces \ {s} : pte'[t] = pte[t] /\ view'[t] = view[t]
      /\ content[pte'[s].page] = view'[s]
  BY <1>1, MapNewFacts
<1>3. \A u \in Mapped' : u \in Spaces /\ pte'[u].page # None
  BY DEF Structure, PteInv, Mapped
<1>4. \A u \in Mapped' : content'[pte'[u].page] = view'[u]
  BY <1>1, <1>2, <1>3, ViewNow
<1>5. \A d \in CPUs : pc'[d] = "fault_pte" => content'[new'[d]] = content'[page'[d]]
  BY <1>2 DEF ViewInv
<1> QED
  BY <1>4, <1>5 DEF ViewInv

\* A space that is given a page in use should find what the other one does.
LEMMA ShareView ==
  ASSUME OneCPU, Structure, ViewInv, Structure', NEW c \in CPUs, NEW s \in Spaces,
         NEW t \in Spaces, Share(c, s, t)
  PROVE  ViewInv'
<1>1. /\ Structure' /\ Others(c) /\ s # t /\ ~Busy(s) /\ ~Busy(t)
      /\ pc[c] = "idle" /\ at[c] = {} /\ pc'[c] = "mark" /\ at'[c] = {s, t}
      /\ todo'[c] = (IF pte[s].cow THEN <<t>> ELSE <<s, t>>)
      /\ UNCHANGED <<entry, glock, content, free, pin, page, new>>
      /\ pte[t].page = None /\ pte[s].page \in Pages
      /\ pte'[t].page = pte[s].page /\ ~pte'[t].cow
      /\ view'[t] = view[s]
      /\ \A u \in Spaces \ {t} : pte'[u] = pte[u] /\ view'[u] = view[u]
  BY ShareFacts
<1>2. pte[s].page # None
  BY <1>1, CowAssumption
<1>3. \A u \in Spaces : pte'[u].page # None => content'[pte'[u].page] = view'[u]
  BY <1>1, <1>2, ViewNow
<1>4. pc'[c] # "fault_pte"
  BY <1>1
<1> QED
  BY <1>3, <1>4, ViewFrame

\* The calls.
LEMMA CallView ==
  ASSUME OneCPU, WInv, ViewInv, Structure', NEW c \in CPUs, Call(c), ~UNCHANGED vars
  PROVE  ViewInv'
<1> USE DEF SpacesApart
<1>1. Structure
  BY DEF WInv
<1>2. ASSUME NEW s \in Spaces, NEW t \in Spaces, Share(c, s, t) PROVE ViewInv'
  BY <1>1, <1>2, ShareView
<1>3. ASSUME NEW s \in Spaces, Unmap(c, s) PROVE ViewInv'
  <2>1. /\ pc'[c] # "fault_pte" /\ UNCHANGED content /\ pte'[s].page = None
        /\ \A u \in Spaces \ {s} : pte'[u] = pte[u] /\ view'[u] = view[u]
    BY <1>1, <1>3, UnmapFacts
  <2> QED
    BY <1>1, <2>1, ViewKept
<1>4. ASSUME NEW s \in Spaces, FaultRef(c, s) \/ IncrementRef(c, s) PROVE ViewInv'
  <2>0. PICK p : p = pte[s].page
    OBVIOUS
  <2>1. pc'[c] # "fault_pte" /\ UNCHANGED <<pte, content, view>>
    BY <1>1, <1>4, <2>0, RefFacts
  <2> QED
    BY <1>1, <2>1, ViewKept
<1>5. CASE Unpin(c)
  <2>1. pc'[c] # "fault_pte" /\ UNCHANGED <<pte, content, view>>
    BY <1>1, <1>5, UnpinFacts
  <2> QED
    BY <1>1, <2>1, ViewKept
<1> QED
  BY <1>2, <1>3, <1>4, <1>5 DEF Call, FaultRefused

\* The steps of a call.
LEMMA StepView ==
  ASSUME OneCPU, WInv, ViewInv, Structure', NEW c \in CPUs, Step(c)
  PROVE  ViewInv'
<1>1. Structure
  BY DEF WInv
<1> DEFINE Kept1 == /\ pc'[c] # "fault_pte" /\ UNCHANGED content
                    /\ \A u \in Spaces :
                         \/ pte'[u].page = None
                         \/ pte'[u].page = pte[u].page /\ view'[u] = view[u]
<1>2. Kept1 => ViewInv'
  BY <1>1, ViewKept
<1>3. CASE MarkRef(c)
  <2>0. PICK p, t : p = pte[Head(todo[c])].page /\ t = todo[c][Len(todo[c])]
    OBVIOUS
  <2>1. /\ UNCHANGED content /\ pc'[c] # "fault_pte"
        /\ \A u \in Spaces \ {t} : pte'[u] = pte[u] /\ view'[u] = view[u]
        /\ UNCHANGED <<pte, view>> \/ pte'[t].page = None
    BY <1>1, <1>3, <2>0, MarkRefFacts
  <2> QED
    BY <1>2, <2>1
<1>4. CASE MarkCount(c)
  <2>1. pc'[c] = "mark_pte" /\ UNCHANGED <<pte, content, view>>
    BY <1>1, <1>4, MarkCountFacts
  <2> QED
    BY <1>2, <2>1
<1>5. CASE MarkPte(c)
  <2>0. PICK s : s = todo[c][1]
    OBVIOUS
  <2>1. /\ pc'[c] # "fault_pte" /\ UNCHANGED <<content, view>>
        /\ pte'[s].page = pte[s].page /\ \A u \in Spaces \ {s} : pte'[u] = pte[u]
    BY <1>1, <1>5, <2>0, MarkPteFacts
  <2> QED
    BY <1>2, <2>1
<1>6. CASE FaultCount(c)
  <2>1. pc'[c] # "fault_pte" /\ UNCHANGED <<pte, content, view>>
    BY <1>1, <1>6, FaultCountFacts
  <2> QED
    BY <1>2, <2>1
<1>7. CASE FaultAlloc(c)
  <2>1. pc'[c] # "fault_pte" /\ UNCHANGED <<pte, content, view>>
    BY <1>1, <1>7, FaultAllocFacts
  <2> QED
    BY <1>2, <2>1
<1>8. CASE FaultRestore(c)
  <2>1. pc'[c] = "idle" /\ UNCHANGED <<pte, content, view>>
    BY <1>1, <1>8, FaultRestoreFacts
  <2> QED
    BY <1>2, <2>1
<1>9. CASE Increment(c)
  <2>1. pc'[c] = "idle" /\ UNCHANGED <<pte, content, view>>
    BY <1>1, <1>9, IncrementFacts
  <2> QED
    BY <1>2, <2>1
<1>10. CASE DecCount(c) \/ DecUnlink(c) \/ DecFree(c)
  <2>0. PICK p, n : p = page[c] /\ n = (entry[p] - 1) % CountMod
    OBVIOUS
  <2>1. pc'[c] # "fault_pte" /\ UNCHANGED <<pte, content, view>>
    BY <1>1, <1>10, <2>0, DecCountFacts, DecUnlinkFacts, DecFreeFacts
  <2> QED
    BY <1>2, <2>1
<1> QED
  BY <1>3, <1>4, <1>5, <1>6, <1>7, <1>8, <1>9, <1>10, FaultCopyView, FaultPteView
     DEF Step

\* Every step preserves what spaces find.
LEMMA ViewNext ==
  ASSUME OneCPU, WInv, ViewInv, [Next]_vars
  PROVE  ViewInv'
<1>1. Structure'
  BY StructureNext DEF WInv, SpacesApart
<1>2. CASE UNCHANGED vars
  BY <1>2 DEF vars, ViewInv, Mapped
<1>3. CASE Next /\ ~UNCHANGED vars
  BY <1>1, <1>3, MapView, WriteView, CallView, StepView DEF Next
<1> QED
  BY <1>2, <1>3

-----------------------------------------------------------------------------
(* The theorems *)

\* The invariant is one of the specification.
LEMMA WInvAlways ==
  ASSUME CountFits, SpacesApart, OneCPU \/ MemoryPlenty
  PROVE  Spec => []WInv
<1>1. Init => WInv
  BY InitWInv
<1>2. WInv /\ [Next]_vars => WInv'
  BY WInvNext
<1> QED
  BY <1>1, <1>2, PTL DEF Spec

\* A reference count of cow.c is the number of references at every step of
\* every interleaving: on one CPU, whether or not memory runs out in
\* cow_handle_fault, and, when it does not, on any number of CPUs of which no
\* two run the same space.
THEOREM CountsExact ==
  ASSUME CountFits, SpacesApart, OneCPU \/ MemoryPlenty
  PROVE  Spec => []RefCountExact
<1>1. WInv => RefCountExact
  BY DEF WInv
<1> QED
  BY <1>1, WInvAlways, PTL

\* No page is lost on the way through marks, faults and decrements.
THEOREM PagesKept ==
  ASSUME CountFits, SpacesApart, OneCPU \/ MemoryPlenty
  PROVE  Spec => []NoPageLost
<1>1. ASSUME WInv PROVE NoPageLost
  <2> SUFFICES ASSUME NEW p \in Pages
               PROVE  \/ p \in free
                      \/ \E s \in Mapped : pte[s].page = p
                      \/ \E c \in CPUs : p \in {pin[c], new[c]}
                      \/ \E c \in CPUs :
                           page[c] = p /\ pc[c] \in {"dec", "dec_unlink", "dec_free"}
    BY DEF NoPageLost
  <2>1. Kept(p) /\ Structure
    BY <1>1 DEF WInv, Owned
  <2>2. ASSUME NEW s \in Spaces, On(s, p) PROVE s \in Mapped /\ pte[s].page = p
    BY <2>1, <2>2, PteFields DEF On, Structure
  <2> QED
    BY <2>1, <2>2 DEF Kept, User, Dec, Dying, DeathSteps
<1> QED
  BY <1>1, WInvAlways, PTL

\* Of the spaces that map a page and are free to run one at most can write it.
THEOREM WriterAlone ==
  ASSUME CountFits, SpacesApart, OneCPU \/ MemoryPlenty
  PROVE  Spec => []OneWriter
<1>1. ASSUME WInv PROVE OneWriter
  <2> SUFFICES ASSUME NEW s \in Mapped, NEW t \in Mapped, s # t,
                      pte[s].page = pte[t].page, ~Busy(s), ~Busy(t)
               PROVE  ~pte[s].writable
    BY DEF OneWriter
  <2>0. PICK p : p = pte[s].page
    OBVIOUS
  <2>1. Structure /\ s \in Spaces /\ t \in Spaces
    BY <1>1 DEF WInv, Mapped
  <2>2. p \in Pages
    BY <2>0, <2>1, PteFields DEF Structure
  <2>3. On(s, p) /\ On(t, p) /\ (Sharing(s) <=> pte[s].cow)
    BY <2>0, SpaceRuns
  <2>4. pte[s].cow
    BY <1>1, <2>1, <2>2, <2>3 DEF WInv, Owned, SpacesShare
  <2> QED
    BY <2>1, <2>4 DEF Structure, PteInv
<1> QED
  BY <1>1, WInvAlways, PTL

\* On one CPU cow_decrement_ref frees no page that is still used.
THEOREM FreedLast ==
  ASSUME CountFits, OneCPU
  PROVE  Spec => []NoEarlyFree
<1>1. ASSUME WInv PROVE NoEarlyFree
  <2>1. Structure /\ CopyInv /\ (\A p \in Pages : Owned(p)) /\ free \subseteq Pages
    BY <1>1 DEF WInv, Structure, TypeOK
  <2>2. ASSUME NEW s \in Mapped PROVE pte[s].page \notin free
    <3>0. PICK p : p = pte[s].page
      OBVIOUS
    <3>1. s \in Spaces /\ p \in Pages
      BY <2>1, <3>0, PteFields DEF Mapped, Structure
    <3>2. CASE On(s, p)
      BY <2>1, <3>0, <3>1, <3>2 DEF Owned, UsedNotFree
    <3>3. CASE ~On(s, p)
      BY <2>1, <3>0, <3>1, <3>3, MappedUsers
    <3> QED
      BY <3>2, <3>3
  <2>3. ASSUME NEW c \in CPUs PROVE pin[c] \notin free /\ new[c] \notin free
    BY <2>1 DEF Owned, UsedNotFree, NewAlone, User
  <2> QED
    BY <2>2, <2>3 DEF NoEarlyFree
<1>2. Spec => []WInv
  BY WInvAlways DEF SpacesApart
<1> QED
  BY <1>1, <1>2, PTL

\* On one CPU spaces that share pages do not see each other's writes.
THEOREM SpacesIsolated ==
  ASSUME CountFits, OneCPU
  PROVE  Spec => []Isolation
<1>1. Init => WInv /\ ViewInv
  <2> SUFFICES ASSUME Init PROVE WInv /\ ViewInv
    OBVIOUS
  <2>1. Mapped = {} /\ \A c \in CPUs : pc[c] # "fault_pte"
    BY DEF Init, Mapped
  <2> QED
    BY <2>1, InitWInv DEF ViewInv
<1>2. WInv /\ ViewInv /\ [Next]_vars => WInv' /\ ViewInv'
  BY WInvNext, ViewNext DEF SpacesApart
<1>3. ViewInv => Isolation
  BY DEF ViewInv, Isolation
<1> QED
  BY <1>1, <1>2, <1>3, PTL DEF Spec
=============================================================================
