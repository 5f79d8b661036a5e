--------------------------- MODULE KeyboardProofs ---------------------------
(***************************************************************************)
(* The keyboard ring implements a bounded queue, for a ring of any size.    *)
(***************************************************************************)
EXTENDS Keyboard, MathLemmas, SequenceTheorems

-----------------------------------------------------------------------------
(* The inductive invariant *)

\* What keyboard_get_char relies on between its steps although the handler
\* may run there: a ring it found not empty stays so until it advances the
\* tail, and the character it has read is still the oldest one.
ReaderInv ==
  /\ pc \in {"read", "advance"} => g_kbd_head # g_kbd_tail
  /\ pc = "advance" => c = g_kbd_buf[g_kbd_tail]

KInv == TypeOK /\ ReaderInv

\* What a slot may hold.
Cells == Chars \cup {Zero}
IsBuf(buf) == buf \in [Slots -> Cells]
Writes(buf, h, x, new) == new = [buf EXCEPT ![h] = x]
Succ(h) == (h + 1) % BufSize

\* With the head at h and the tail at t: the number of characters that wait,
\* the slot of the i-th of them, and the characters.
Fill(h, t) == (h - t) % BufSize
SlotOf(t, i) == (t + i - 1) % BufSize
Ring(buf, h, t) == [i \in 1..Fill(h, t) |-> buf[SlotOf(t, i)]]

-----------------------------------------------------------------------------
(* The ring *)

\* Indices advance by one and wrap at the end of the buffer.
LEMMA NextSlot ==
  ASSUME NEW h \in Slots
  PROVE  /\ (h + 1) % BufSize \in Slots
         /\ (h + 1) % BufSize = IF h + 1 = BufSize THEN 0 ELSE h + 1
<1>1. BufSize \in Nat \ {0} /\ h \in Nat /\ h < BufSize
  BY KeyboardAssumption DEF Slots
<1> DEFINE a == h + 1
<1>2. a \in Int /\ -BufSize <= a /\ a < 2 * BufSize /\ 0 <= a /\ a <= BufSize
  BY <1>1
<1>3. a % BufSize = IF a < 0 THEN a + BufSize ELSE IF a < BufSize THEN a ELSE a - BufSize
  <2> HIDE DEF a
  <2> QED
    BY <1>1, <1>2, ModOnce
<1> QED
  BY <1>1, <1>2, <1>3 DEF Slots

\* The distance from tail to head along the ring.
LEMMA FillValue ==
  ASSUME NEW h \in Slots, NEW t \in Slots
  PROVE  /\ Fill(h, t) \in 0..(BufSize - 1)
         /\ Fill(h, t) = IF h >= t THEN h - t ELSE h - t + BufSize
<1>1. /\ BufSize \in Nat \ {0}
      /\ h \in Nat /\ h < BufSize /\ t \in Nat /\ t < BufSize
  BY KeyboardAssumption DEF Slots
<1> DEFINE d == h - t
<1>2. d \in Int /\ -BufSize <= d /\ d < 2 * BufSize /\ d < BufSize
  BY <1>1
<1>3. d % BufSize = IF d < 0 THEN d + BufSize ELSE IF d < BufSize THEN d ELSE d - BufSize
  <2> HIDE DEF d
  <2> QED
    BY <1>1, <1>2, ModOnce
<1> QED
  BY <1>1, <1>2, <1>3 DEF Fill

\* The slots of the characters that wait.
LEMMA SlotValue ==
  ASSUME NEW t \in Slots, NEW i \in 1..BufSize
  PROVE  /\ SlotOf(t, i) \in Slots
         /\ SlotOf(t, i) = IF t + i - 1 < BufSize THEN t + i - 1
                           ELSE t + i - 1 - BufSize
<1>1. /\ BufSize \in Nat \ {0} /\ i \in Nat /\ 1 <= i /\ i <= BufSize
      /\ t \in Nat /\ t < BufSize
  BY KeyboardAssumption DEF Slots
<1> DEFINE a == t + i - 1
<1>2. a \in Int /\ -BufSize <= a /\ a < 2 * BufSize /\ a >= 0
  BY <1>1
<1>3. a % BufSize = IF a < 0 THEN a + BufSize ELSE IF a < BufSize THEN a ELSE a - BufSize
  <2> HIDE DEF a
  <2> QED
    BY <1>1, <1>2, ModOnce
<1> QED
  BY <1>1, <1>2, <1>3 DEF SlotOf, Slots

\* The waiting characters are a sequence.
LEMMA RingSeq ==
  ASSUME NEW buf, IsBuf(buf), NEW h \in Slots, NEW t \in Slots
  PROVE  /\ Ring(buf, h, t) \in Seq(Cells)
         /\ Len(Ring(buf, h, t)) = Fill(h, t)
         /\ \A i \in 1..Fill(h, t) : Ring(buf, h, t)[i] = buf[SlotOf(t, i)]
         /\ Ring(buf, h, t) = <<>> <=> h = t
<1>1. Fill(h, t) \in 0..(BufSize - 1) /\ BufSize \in Nat \ {0}
  BY FillValue, KeyboardAssumption
<1>2. Ring(buf, h, t) = [i \in 1..Fill(h, t) |-> buf[SlotOf(t, i)]]
  BY DEF Ring
<1>3. \A i \in 1..Fill(h, t) : buf[SlotOf(t, i)] \in Cells
  <2> SUFFICES ASSUME NEW i \in 1..Fill(h, t)
               PROVE  buf[SlotOf(t, i)] \in Cells
    OBVIOUS
  <2>1. i \in 1..BufSize
    BY <1>1
  <2> QED
    BY <2>1, SlotValue DEF IsBuf
<1>4. h = t <=> Fill(h, t) = 0
  <2>1. Fill(h, t) = IF h >= t THEN h - t ELSE h - t + BufSize
    BY FillValue
  <2> QED
    BY <1>1, <2>1 DEF Slots
<1>5. Ring(buf, h, t) \in Seq(Cells) /\ Len(Ring(buf, h, t)) = Fill(h, t)
  BY <1>1, <1>2, <1>3
<1> QED
  BY <1>1, <1>2, <1>4, <1>5

\* Waiting is that sequence.
LEMMA WaitingIsRing == Waiting = Ring(g_kbd_buf, g_kbd_head, g_kbd_tail)
BY DEF Waiting, Ring, Fill, SlotOf

\* Writing at the head and advancing it appends one character: the slot is none
\* of those that wait.  The one ring this is not allowed in is the full one.
LEMMA RingPush ==
  ASSUME NEW buf, IsBuf(buf), NEW h \in Slots, NEW t \in Slots,
         NEW x \in Cells, NEW g, g = Succ(h),
         NEW new, Writes(buf, h, x, new)
  PROVE  /\ g = t <=> Len(Ring(buf, h, t)) = BufSize - 1
         /\ g # t => Ring(new, g, t) = Append(Ring(buf, h, t), x)
<1> DEFINE n == Fill(h, t)
           w == Ring(buf, h, t)
           v == Ring(new, g, t)
<1>1. BufSize \in Nat \ {0}
  BY KeyboardAssumption
<1>2. g \in Slots /\ g = IF h + 1 = BufSize THEN 0 ELSE h + 1
  BY NextSlot DEF Succ
<1>3. n \in 0..(BufSize - 1) /\ n = IF h >= t THEN h - t ELSE h - t + BufSize
  BY FillValue
<1>4. w \in Seq(Cells) /\ Len(w) = n /\ \A i \in 1..n : w[i] = buf[SlotOf(t, i)]
  BY RingSeq
<1>5. g = t <=> n = BufSize - 1
  <2> HIDE DEF n
  <2> QED
    BY <1>1, <1>2, <1>3 DEF Slots
<1>6. ASSUME g # t
      PROVE  v = Append(w, x)
  <2>1. IsBuf(new)
    BY DEF IsBuf, Writes
  <2>2. Fill(g, t) \in 0..(BufSize - 1)
        /\ Fill(g, t) = IF g >= t THEN g - t ELSE g - t + BufSize
    BY <1>2, FillValue
  <2>3. Fill(g, t) = n + 1
    <3> HIDE DEF n
    <3> QED
      BY <1>1, <1>2, <1>3, <1>5, <1>6, <2>2 DEF Slots
  <2>4. /\ v \in Seq(Cells) /\ Len(v) = n + 1
        /\ \A i \in 1..(n + 1) : v[i] = new[SlotOf(t, i)]
    <3>1. g \in Slots
      BY <1>2
    <3>2. /\ v \in Seq(Cells) /\ Len(v) = Fill(g, t)
          /\ \A i \in 1..Fill(g, t) : v[i] = new[SlotOf(t, i)]
      BY <3>1, <2>1, RingSeq
    <3> HIDE DEF n, v
    <3> QED
      BY <3>2, <2>3
  <2>5. \A i \in 1..(n + 1) :
          SlotOf(t, i) \in Slots /\ (SlotOf(t, i) = h <=> i = n + 1)
    <3> TAKE i \in 1..(n + 1)
    <3> HIDE DEF n
    <3>1. i \in 1..BufSize
      BY <1>1, <1>3
    <3>2. /\ SlotOf(t, i) \in Slots
          /\ SlotOf(t, i) = IF t + i - 1 < BufSize THEN t + i - 1
                            ELSE t + i - 1 - BufSize
      BY <3>1, SlotValue
    <3> QED
      BY <1>1, <1>3, <3>1, <3>2 DEF Slots
  <2> HIDE DEF n, w, v
  <2>6. \A i \in 1..(n + 1) : v[i] = IF i = n + 1 THEN x ELSE w[i]
    <3> TAKE i \in 1..(n + 1)
    <3>1. i # n + 1 => i \in 1..n
      BY <1>3
    <3>2. v[i] = IF i = n + 1 THEN x ELSE buf[SlotOf(t, i)]
      BY <2>4, <2>5 DEF IsBuf, Writes
    <3> QED
      BY <1>4, <3>1, <3>2
  <2>7. /\ Append(w, x) \in Seq(Cells) /\ Len(Append(w, x)) = n + 1
        /\ \A i \in 1..(n + 1) : Append(w, x)[i] = IF i = n + 1 THEN x ELSE w[i]
    BY <1>3, <1>4, AppendProperties
  <2> QED
    BY <2>4, <2>6, <2>7, <1>3, SeqEqual
<1> QED
  BY <1>4, <1>5, <1>6

\* Advancing the tail of a ring that is not empty removes the oldest character.
LEMMA RingPop ==
  ASSUME NEW buf, IsBuf(buf), NEW h \in Slots, NEW t \in Slots,
         h # t, NEW u, u = Succ(t)
  PROVE  /\ Ring(buf, h, t) # <<>> /\ Head(Ring(buf, h, t)) = buf[t]
         /\ Ring(buf, h, u) = Tail(Ring(buf, h, t))
<1> DEFINE n == Fill(h, t)
           w == Ring(buf, h, t)
           v == Ring(buf, h, u)
<1>1. BufSize \in Nat \ {0}
  BY KeyboardAssumption
<1>2. u \in Slots /\ u = IF t + 1 = BufSize THEN 0 ELSE t + 1
  BY NextSlot DEF Succ
<1>3. n \in 0..(BufSize - 1) /\ n = IF h >= t THEN h - t ELSE h - t + BufSize
  BY FillValue
<1>4. /\ w \in Seq(Cells) /\ Len(w) = n /\ w # <<>>
      /\ \A i \in 1..n : w[i] = buf[SlotOf(t, i)]
  BY RingSeq
<1>5. Fill(h, u) = IF h >= u THEN h - u ELSE h - u + BufSize
  BY <1>2, FillValue
<1>6. Fill(h, u) = n - 1 /\ n >= 1
  <2> HIDE DEF n
  <2> QED
    BY <1>1, <1>2, <1>3, <1>5 DEF Slots
<1>7. /\ v \in Seq(Cells) /\ Len(v) = n - 1
      /\ \A i \in 1..(n - 1) : v[i] = buf[SlotOf(u, i)]
  <2>1. u \in Slots
    BY <1>2
  <2>2. /\ v \in Seq(Cells) /\ Len(v) = Fill(h, u)
        /\ \A i \in 1..Fill(h, u) : v[i] = buf[SlotOf(u, i)]
    BY <2>1, RingSeq
  <2> HIDE DEF n, v
  <2> QED
    BY <2>2, <1>6
<1>8. \A i \in 1..(n - 1) : SlotOf(u, i) = SlotOf(t, i + 1)
  <2> TAKE i \in 1..(n - 1)
  <2> HIDE DEF n
  <2>1. i \in 1..BufSize /\ i + 1 \in 1..BufSize /\ i + 1 < BufSize
    BY <1>1, <1>3
  <2>2. SlotOf(u, i) = IF u + i - 1 < BufSize THEN u + i - 1 ELSE u + i - 1 - BufSize
    BY <1>2, <2>1, SlotValue
  <2> DEFINE j == i + 1
  <2>3. SlotOf(t, j) = IF t + j - 1 < BufSize THEN t + j - 1 ELSE t + j - 1 - BufSize
    <3>1. j \in 1..BufSize
      BY <2>1
    <3> HIDE DEF j
    <3> QED
      BY <3>1, SlotValue
  <2> QED
    BY <1>1, <1>2, <2>1, <2>2, <2>3 DEF Slots
<1>9. SlotOf(t, 1) = t
  <2>1. SlotOf(t, 1) = IF t + 1 - 1 < BufSize THEN t + 1 - 1 ELSE t + 1 - 1 - BufSize
    BY <1>1, SlotValue
  <2> QED
    BY <1>1, <2>1 DEF Slots
<1> HIDE DEF n, w, v
<1>10. Head(w) = buf[t]
  <2>1. w[1] = buf[SlotOf(t, 1)]
    BY <1>3, <1>4, <1>6
  <2>2. Head(w) = w[1]
    BY <1>4
  <2> QED
    BY <2>1, <2>2, <1>9
<1>11. v = Tail(w)
  <2>1. /\ Tail(w) \in Seq(Cells) /\ Len(Tail(w)) = n - 1
        /\ \A i \in 1..(n - 1) : Tail(w)[i] = w[i + 1]
    BY <1>4, HeadTailProperties
  <2>2. \A i \in 1..(n - 1) : v[i] = w[i + 1]
    <3> TAKE i \in 1..(n - 1)
    <3>1. i + 1 \in 1..n
      BY <1>3
    <3> QED
      BY <3>1, <1>4, <1>7, <1>8
  <2> QED
    BY <2>1, <2>2, <1>7, SeqEqual
<1> QED
  BY <1>4, <1>10, <1>11 DEF w, v

-----------------------------------------------------------------------------
(* The steps *)

\* The invariant holds at the start, and no character waits.
LEMMA InitStep == Init => KInv /\ Queue!Init
<1> SUFFICES ASSUME Init PROVE KInv /\ Queue!Init
  OBVIOUS
<1>1. KInv
  <2>1. 0 \in Slots
    BY KeyboardAssumption DEF Slots
  <2>2. g_kbd_buf \in [Slots -> Chars \cup {Zero}]
    BY DEF Init
  <2> QED
    BY <2>1, <2>2 DEF Init, KInv, TypeOK, ReaderInv
<1>2. Waiting = <<>>
  BY <1>1, WaitingIsRing, RingSeq DEF KInv, TypeOK, Init, Cells, IsBuf
<1> QED
  BY <1>1, <1>2 DEF Queue!Init, Init

\* A key with a character: it is appended, or the ring is full and drops it.
\* Where the reader has got to, its character is still the oldest one.
LEMMA CharKeyStep ==
  ASSUME KInv, NEW key, CharKey(key)
  PROVE  KInv' /\ \E x \in Chars : Queue!Put(x)
<1> DEFINE x == Decode(key)
<1>1. x \in Chars
  BY DEF CharKey, Decode, Chars, KInv, TypeOK
<1>2. /\ TypeOK /\ ReaderInv /\ BufSize \in Nat \ {0}
      /\ IsBuf(g_kbd_buf) /\ g_kbd_head \in Slots /\ g_kbd_tail \in Slots
  BY KeyboardAssumption DEF KInv, TypeOK, Cells, IsBuf
<1>3. /\ kbd_push(x)
      /\ UNCHANGED <<g_kbd_tail, g_shift, g_caps, pc, c, got>>
  BY DEF CharKey
<1>4. x \in Cells
  BY <1>1 DEF Cells
<1> HIDE DEF x
<1> DEFINE g == (g_kbd_head + 1) % BufSize
           new == [g_kbd_buf EXCEPT ![g_kbd_head] = x]
<1>10. g \in Slots
  BY <1>2, NextSlot
<1>5. /\ g = g_kbd_tail <=> Len(Waiting) = BufSize - 1
      /\ g # g_kbd_tail => Ring(new, g, g_kbd_tail) = Append(Waiting, x)
  <2>1. g = Succ(g_kbd_head) /\ Writes(g_kbd_buf, g_kbd_head, x, new)
    BY DEF Succ, Writes
  <2> HIDE DEF g, new
  <2> QED
    BY <2>1, <1>2, <1>4, RingPush, WaitingIsRing
<1>6. Waiting' = Ring(g_kbd_buf', g_kbd_head', g_kbd_tail')
  BY DEF Waiting, Ring, Fill, SlotOf
<1>7. Len(Waiting) \in 0..(BufSize - 1)
  <2>1. Len(Waiting) = Fill(g_kbd_head, g_kbd_tail)
    <3>1. Len(Ring(g_kbd_buf, g_kbd_head, g_kbd_tail)) = Fill(g_kbd_head, g_kbd_tail)
      BY <1>2, RingSeq
    <3> QED
      BY <3>1, WaitingIsRing
  <2> QED
    BY <2>1, <1>2, FillValue
<1>8. CASE g = g_kbd_tail
  <2>1. UNCHANGED <<g_kbd_buf, g_kbd_head>>
    BY <1>3, <1>8 DEF kbd_push
  <2>2. KInv' /\ Waiting' = Waiting
    BY <2>1, <1>2, <1>3 DEF KInv, TypeOK, ReaderInv, Waiting
  <2>3. Queue!Put(x)
    BY <2>2, <1>2, <1>3, <1>5, <1>7, <1>8 DEF Queue!Put
  <2> QED
    BY <2>2, <2>3, <1>1
<1>9. CASE g # g_kbd_tail
  <2>1. /\ g_kbd_buf' = [g_kbd_buf EXCEPT ![g_kbd_head] = x]
        /\ g_kbd_head' = g /\ g_kbd_tail' = g_kbd_tail
    BY <1>3, <1>9 DEF kbd_push
  <2>2. TypeOK'
    BY <2>1, <1>1, <1>2, <1>3, <1>10 DEF TypeOK, Cells, IsBuf
  <2>3. ReaderInv'
    <3>1. pc \in {"read", "advance"} => g_kbd_buf'[g_kbd_tail] = g_kbd_buf[g_kbd_tail]
      BY <2>1, <1>2 DEF ReaderInv
    <3> QED
      BY <3>1, <2>1, <1>2, <1>3, <1>9 DEF ReaderInv
  <2>4. Waiting' = Append(Waiting, x)
    BY <2>1, <1>5, <1>6, <1>9
  <2>5. Queue!Put(x)
    BY <2>4, <1>2, <1>3, <1>5, <1>7, <1>9 DEF Queue!Put
  <2> QED
    BY <2>2, <2>3, <2>5, <1>1 DEF KInv
<1> QED
  BY <1>8, <1>9

\* The reader advances the tail: what it returns is the oldest character, and
\* that one alone leaves the ring.
LEMMA AdvanceStep ==
  ASSUME KInv, GetAdvance
  PROVE  KInv' /\ Queue!Get
<1>1. /\ TypeOK /\ ReaderInv
      /\ IsBuf(g_kbd_buf) /\ g_kbd_head \in Slots /\ g_kbd_tail \in Slots
  BY DEF KInv, TypeOK, Cells, IsBuf
<1>2. /\ g_kbd_buf' = g_kbd_buf /\ g_kbd_head' = g_kbd_head
      /\ g_kbd_tail' = (g_kbd_tail + 1) % BufSize
      /\ pc' = "idle" /\ got' = c
      /\ c = g_kbd_buf[g_kbd_tail] /\ g_kbd_head # g_kbd_tail
  BY <1>1 DEF GetAdvance, ReaderInv
<1>3. g_kbd_tail' \in Slots
  BY <1>1, <1>2, NextSlot
<1>4. KInv'
  BY <1>1, <1>2, <1>3 DEF KInv, TypeOK, ReaderInv, GetAdvance
<1>5. Waiting' = Ring(g_kbd_buf', g_kbd_head', g_kbd_tail')
  BY DEF Waiting, Ring, Fill, SlotOf
<1>6. /\ Waiting # <<>> /\ Head(Waiting) = g_kbd_buf[g_kbd_tail]
      /\ Ring(g_kbd_buf, g_kbd_head, g_kbd_tail') = Tail(Waiting)
  <2>1. g_kbd_tail' = Succ(g_kbd_tail)
    BY <1>2 DEF Succ
  <2> QED
    BY <2>1, <1>1, <1>2, RingPop, WaitingIsRing
<1> QED
  BY <1>2, <1>4, <1>5, <1>6 DEF Queue!Get

\* Every other step keeps the invariant and leaves the ring alone; the one that
\* reports an empty ring finds no character waiting.
LEMMA OtherSteps ==
  ASSUME KInv,
         \/ ShiftKey \/ CapsKey \/ (\E key \in Dead : DeadKey(key))
         \/ GetEmpty \/ GetCheck \/ GetRead \/ UNCHANGED vars
  PROVE  /\ KInv' /\ Waiting' = Waiting
         /\ UNCHANGED got \/ Queue!GetNothing
<1>1. UNCHANGED <<g_kbd_buf, g_kbd_head, g_kbd_tail>>
  BY DEF ShiftKey, CapsKey, DeadKey, GetEmpty, GetCheck, GetRead, vars
<1>2. KInv'
  <2>1. CASE GetRead
    BY <2>1 DEF GetRead, KInv, TypeOK, ReaderInv
  <2>2. CASE ~GetRead
    BY <2>2, <1>1 DEF KInv, TypeOK, ReaderInv, ShiftKey, CapsKey, DeadKey,
                      GetEmpty, GetCheck, vars
  <2> QED
    BY <2>1, <2>2
<1>3. Waiting' = Waiting
  BY <1>1 DEF Waiting
<1>4. UNCHANGED got \/ Queue!GetNothing
  <2>1. CASE GetEmpty
    <3>1. Waiting = <<>>
      <4>1. /\ IsBuf(g_kbd_buf)
            /\ g_kbd_head \in Slots /\ g_kbd_tail \in Slots
        BY DEF KInv, TypeOK, Cells, IsBuf
      <4>2. Ring(g_kbd_buf, g_kbd_head, g_kbd_tail) = <<>> <=> g_kbd_head = g_kbd_tail
        BY <4>1, RingSeq
      <4> QED
        BY <4>2, <2>1, WaitingIsRing DEF GetEmpty
    <3> QED
      BY <3>1, <2>1, <1>3 DEF GetEmpty, Queue!GetNothing
  <2>2. CASE ~GetEmpty
    BY <2>2 DEF ShiftKey, CapsKey, DeadKey, GetCheck, GetRead, vars
  <2> QED
    BY <2>1, <2>2
<1> QED
  BY <1>2, <1>3, <1>4

\* One step of the driver: the invariant is kept, and the step is one of the
\* queue or leaves it alone.
LEMMA NextStep ==
  ASSUME KInv, [Next]_vars
  PROVE  KInv' /\ [Queue!Next]_<<Waiting, got>>
<1>1. CASE \E key : CharKey(key)
  BY <1>1, CharKeyStep DEF Queue!Next
<1>2. CASE GetAdvance
  BY <1>2, AdvanceStep DEF Queue!Next
<1>3. CASE \/ ShiftKey \/ CapsKey \/ (\E key \in Dead : DeadKey(key))
           \/ GetEmpty \/ GetCheck \/ GetRead \/ UNCHANGED vars
  BY <1>3, OtherSteps DEF Queue!Next
<1>4. \/ ShiftKey \/ CapsKey \/ (\E key \in Dead : DeadKey(key))
      \/ (\E key : CharKey(key))
      \/ GetEmpty \/ GetCheck \/ GetRead \/ GetAdvance \/ UNCHANGED vars
  BY DEF Next, keyboard_irq_handler, keyboard_get_char, DeadKey
<1> QED
  BY <1>1, <1>2, <1>3, <1>4

-----------------------------------------------------------------------------
(* The theorems *)

\* While keyboard_get_char is between two of its accesses to the ring, the ring
\* it found not empty stays so and the character it read stays the oldest one,
\* whatever interrupts arrive.
THEOREM ReaderUndisturbed == Spec => []KInv
<1>1. Init => KInv
  BY InitStep
<1>2. KInv /\ [Next]_vars => KInv'
  BY NextStep
<1> QED
  BY <1>1, <1>2, PTL DEF Spec

\* The ring of keyboard.c, of any size, is a queue of BufSize - 1 characters.
THEOREM RingIsQueue == Spec => ImplementsQueue
<1>1. Init => Queue!Init
  BY InitStep
<1>2. KInv /\ [Next]_vars => [Queue!Next]_<<Waiting, got>>
  BY NextStep
<1> QED
  BY <1>1, <1>2, ReaderUndisturbed, PTL DEF Spec, ImplementsQueue, Queue!Spec
=============================================================================
