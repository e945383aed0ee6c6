-------------------------------- MODULE Typing --------------------------------
(***************************************************************************)
(* A person at the keyboard, the i8042 controller between the keyboard and *)
(* the kernel, and kbd_proc_data() decoding what arrives.  The person and  *)
(* the two hardware queues are external; the decoder is Keyboard's.        *)
(*                                                                         *)
(* A key is what is printed on its cap, not a row of the kernel's tables:  *)
(* [e0, code]  the bytes it sends (an optional 0xE0 prefix, a scan code),  *)
(* mod         the modifier or lock it is, "none" otherwise,               *)
(* plain, shifted, ctl  what it types alone, with Shift and with Ctrl      *)
(*             (0 for nothing).                                            *)
(***************************************************************************)
EXTENDS Keyboard, SequencesExt

CONSTANTS
  Keys,       \* the keys the person uses
  MaxEvents   \* bound on presses and releases in a behaviour

VARIABLES
  held,       \* keys that are down
  caps,       \* whether CapsLock was pressed an odd number of times
  kbdq,       \* bytes in the keyboard, not yet in the controller
  events,     \* presses and releases so far
  twins,      \* history: two keys of one modifier were down together
  typed,      \* history: what the keys pressed so far should have typed
  decoded,    \* history: what kbd_proc_data made of them
  up          \* FALSE once the machine has been reset

typingVars == <<kbdVars, held, caps, kbdq, events, twins, typed, decoded, up>>

Modifiers == {"SHIFT", "CTL", "ALT"}
RESET == 256   \* what Ctrl-Alt-Del "types"

(* The code's tables have for each key what is printed on it, and on a letter the
   two cases of one letter.  No key sends 0x60: going up it would send the prefix. *)
Locks == {"CAPSLOCK", "NUMLOCK", "SCROLLLOCK"}
Letters == (65..90) \union (97..122)

ASSUME KeysAssumption ==
  \A k \in Keys :
    LET d == IF k.e0 THEN k.code + 128 ELSE k.code
    IN  /\ k.e0 \in BOOLEAN /\ k.code \in (0..127) \ {96}
        /\ k.mod \in Modifiers \union Locks \union {"none"}
        /\ shiftcode[d] = {k.mod} \intersect Modifiers /\ togglecode[d] = {k.mod} \intersect Locks
        /\ {k.plain, k.shifted, k.ctl} \subseteq Byte
        /\ normalmap[d] = k.plain /\ shiftmap[d] = k.shifted /\ ctlmap[d] = k.ctl
        /\ IF k.plain \in 97..122 THEN k.shifted = k.plain - 32
           ELSE {k.plain, k.shifted} \intersect Letters = {}
        /\ k.ctl \notin Letters

-----------------------------------------------------------------------------
(* The bytes of a key: its scan code, with bit 7 set when it goes up. *)
KeyBytes(k, bit7) == (IF k.e0 THEN <<224>> ELSE << >>) \o <<k.code + bit7>>

(* What pressing k means to the person, with the keys of h down. *)
Meaning(k, h, cp) ==
  LET mods   == {m.mod : m \in h}
      letter == k.plain \in 97..122
      shown  == IF "CTL" \in mods THEN k.ctl
                ELSE IF ("SHIFT" \in mods) # (cp /\ letter) THEN k.shifted
                ELSE k.plain
  IN  IF shown = 0 THEN << >>
      ELSE IF shown = KEY_DEL /\ {"CTL", "ALT"} \subseteq mods THEN <<RESET>>
      ELSE <<shown>>

(* A key goes down, or repeats while it is down (locks do not repeat). *)
Press(k) ==
  /\ up /\ events < MaxEvents
  /\ k.mod = "CAPSLOCK" => k \notin held
  /\ held' = held \union {k}
  /\ caps' = (caps # (k.mod = "CAPSLOCK"))
  /\ kbdq' = kbdq \o KeyBytes(k, 0)
  /\ events' = events + 1
  /\ twins' = (twins \/ (k.mod \in Modifiers /\ \E m \in held \ {k} : m.mod = k.mod))
  /\ typed' = typed \o Meaning(k, held', caps')
  /\ UNCHANGED <<kbdVars, decoded, up>>

Release(k) ==
  /\ up /\ events < MaxEvents
  /\ k \in held
  /\ held' = held \ {k}
  /\ kbdq' = kbdq \o KeyBytes(k, 128)
  /\ events' = events + 1
  /\ UNCHANGED <<kbdVars, caps, twins, typed, decoded, up>>

(* The controller holds one byte; the next one moves in once it is read. *)
ControllerLoad ==
  /\ up /\ obf = << >> /\ kbdq # << >>
  /\ obf' = <<[aux |-> FALSE, data |-> Head(kbdq)]>>
  /\ kbdq' = Tail(kbdq)
  /\ UNCHANGED <<shift, held, caps, events, twins, typed, decoded, up>>

(* One call of kbd_proc_data that finds a byte. *)
KbdProcData ==
  /\ up
  /\ KbdReadByte
  /\ LET c == KbdDecoded.c
         reset == Reboots(shift', c)
     IN  /\ decoded' = decoded \o (IF c = 0 THEN << >>
                                   ELSE IF reset THEN <<RESET>> ELSE <<c>>)
         /\ up' = ~reset
  /\ UNCHANGED <<held, caps, kbdq, events, twins, typed>>

TypingInit ==
  /\ obf = << >> /\ shift = {}
  /\ held = {} /\ caps = FALSE /\ kbdq = << >> /\ events = 0
  /\ twins = FALSE /\ typed = << >> /\ decoded = << >> /\ up = TRUE

TypingNext ==
  \/ \E k \in Keys : Press(k) \/ Release(k)
  \/ ControllerLoad
  \/ KbdProcData

TypingSpec == TypingInit /\ [][TypingNext]_typingVars

-----------------------------------------------------------------------------
Drained == kbdq = << >> /\ obf = << >>

(* Once every byte is read, the shift word is what the keyboard looks like: no E0
   prefix is pending, CapsLock is as often pressed, no modifier is on without a key
   that is down, and each one that is down is on unless its twin was down with it
   (console.c:243 gives both one bit: releasing one of them turns it off). *)
ModifiersFollow ==
  Drained =>
    LET down == {k.mod : k \in held} \intersect Modifiers
    IN  /\ "E0ESC" \notin shift /\ caps = ("CAPSLOCK" \in shift)
        /\ shift \intersect Modifiers \subseteq down
        /\ ~twins => down \subseteq shift

(* kbd_proc_data hands over what was typed, in order, and nothing else,
   Ctrl-Alt-Del included, as long as no twins are down together. *)
CharsAsTyped ==
  ~twins => /\ IsPrefix(decoded, typed)
            /\ Drained /\ up => decoded = typed
===============================================================================
