------------------------------- MODULE Keyboard -------------------------------
(***************************************************************************)
(* The PS/2 keyboard driver, kernel/drivers/keyboard.c: an interrupt       *)
(* handler that decodes scan codes into a ring buffer, and the reader it   *)
(* interrupts.                                                             *)
(*                                                                         *)
(* The handler runs with interrupts disabled on the one CPU, so it is one  *)
(* step; keyboard_get_char can be interrupted between any two of its       *)
(* accesses to the ring, so it is three.  A key is a letter, another key   *)
(* with a character, or one without; a character is the key with the level *)
(* it was typed at.                                                        *)
(***************************************************************************)
EXTENDS Integers, Sequences, Functions

CONSTANTS
  Letters, Others, Dead,   \* the keys
  BufSize,                 \* size of g_kbd_buf, 256 in the code
  Zero                     \* the character 0

ASSUME KeyboardAssumption == BufSize \in Nat \ {0}

VARIABLES
  g_kbd_buf, g_kbd_head, g_kbd_tail,
  g_shift, g_caps,
  pc,    \* where keyboard_get_char is
  c,     \* its local variable
  got    \* what it last returned

vars == <<g_kbd_buf, g_kbd_head, g_kbd_tail, g_shift, g_caps, pc, c, got>>

Slots == 0..(BufSize - 1)
Chars == (Letters \cup Others) \X BOOLEAN

Init ==
  /\ g_kbd_buf = [i \in Slots |-> Zero]
  /\ g_kbd_head = 0 /\ g_kbd_tail = 0
  /\ g_shift = FALSE /\ g_caps = FALSE
  /\ pc = "idle" /\ c = Zero /\ got = Zero

-----------------------------------------------------------------------------
(* The interrupt handler *)

\* Mutant: the slot before the tail is not kept empty.
PushOverrun(x) ==
  /\ g_kbd_buf' = [g_kbd_buf EXCEPT ![g_kbd_head] = x]
  /\ g_kbd_head' = (g_kbd_head + 1) % BufSize

\* A full ring drops the character.
kbd_push(x) ==
  LET next == (g_kbd_head + 1) % BufSize IN
  \/ /\ next # g_kbd_tail
     /\ g_kbd_buf' = [g_kbd_buf EXCEPT ![g_kbd_head] = x]
     /\ g_kbd_head' = next
  \/ next = g_kbd_tail /\ UNCHANGED <<g_kbd_buf, g_kbd_head>>

\* The character of a key: map_shift with the shift key down, else map_norm;
\* caps lock raises lower-case letters only.
Decode(key) == <<key, g_shift \/ (key \in Letters /\ g_caps)>>

ShiftKey ==
  /\ g_shift' \in BOOLEAN      \* press and release codes
  /\ UNCHANGED <<g_kbd_buf, g_kbd_head, g_kbd_tail, g_caps, pc, c, got>>

CapsKey ==
  /\ g_caps' = ~g_caps
  /\ UNCHANGED <<g_kbd_buf, g_kbd_head, g_kbd_tail, g_shift, pc, c, got>>

\* Release codes of other keys and keys without a character are ignored.
DeadKey(key) == key \in Dead /\ UNCHANGED vars

CharKey(key) ==
  /\ key \in Letters \cup Others
  /\ kbd_push(Decode(key))
  /\ UNCHANGED <<g_kbd_tail, g_shift, g_caps, pc, c, got>>

keyboard_irq_handler ==
  \/ ShiftKey \/ CapsKey
  \/ \E key \in Letters \cup Others \cup Dead : DeadKey(key) \/ CharKey(key)

-----------------------------------------------------------------------------
(* keyboard_get_char *)

GetEmpty ==
  /\ pc = "idle" /\ g_kbd_head = g_kbd_tail
  /\ got' = Zero
  /\ UNCHANGED <<g_kbd_buf, g_kbd_head, g_kbd_tail, g_shift, g_caps, pc, c>>

GetCheck ==
  /\ pc = "idle" /\ g_kbd_head # g_kbd_tail
  /\ pc' = "read"
  /\ UNCHANGED <<g_kbd_buf, g_kbd_head, g_kbd_tail, g_shift, g_caps, c, got>>

GetRead ==
  /\ pc = "read"
  /\ c' = g_kbd_buf[g_kbd_tail]
  /\ pc' = "advance"
  /\ UNCHANGED <<g_kbd_buf, g_kbd_head, g_kbd_tail, g_shift, g_caps, got>>

GetAdvance ==
  /\ pc = "advance"
  /\ g_kbd_tail' = (g_kbd_tail + 1) % BufSize
  /\ got' = c /\ pc' = "idle"
  /\ UNCHANGED <<g_kbd_buf, g_kbd_head, g_shift, g_caps, c>>

keyboard_get_char == GetEmpty \/ GetCheck \/ GetRead \/ GetAdvance

Next == keyboard_irq_handler \/ keyboard_get_char

Spec == Init /\ [][Next]_vars

-----------------------------------------------------------------------------
(* Properties *)

TypeOK ==
  /\ g_kbd_buf \in [Slots -> Chars \cup {Zero}]
  /\ g_kbd_head \in Slots /\ g_kbd_tail \in Slots
  /\ g_shift \in BOOLEAN /\ g_caps \in BOOLEAN
  /\ pc \in {"idle", "read", "advance"}
  /\ c \in Chars \cup {Zero} /\ got \in Chars \cup {Zero}

\* The characters between tail and head, oldest first.
Waiting ==
  [i \in 1..((g_kbd_head - g_kbd_tail) % BufSize) |->
     g_kbd_buf[(g_kbd_tail + i - 1) % BufSize]]

Queue == INSTANCE BoundedQueue
           WITH q <- Waiting, Items <- Chars, Capacity <- BufSize - 1,
                Nothing <- Zero

\* The ring is a queue of BufSize - 1 characters although the handler may
\* interrupt the reader anywhere: characters come out once, in the order they
\* were typed, and none that waits is overwritten or skipped.
ImplementsQueue == Queue!Spec
=============================================================================
