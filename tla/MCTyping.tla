------------------------------- MODULE MCTyping -------------------------------
(* A letter, both kinds of modifier keys (plain and 0xE0-prefixed), CapsLock  *)
(* and the grey Delete key.                                                   *)
EXTENDS Typing

Key(e0, code, mod, plain, shifted, ctl) ==
  [e0 |-> e0, code |-> code, mod |-> mod,
   plain |-> plain, shifted |-> shifted, ctl |-> ctl]

MCKeys == { Key(FALSE, 30, "none", 97, 65, 1),
            Key(TRUE, 83, "none", 233, 233, 233),
            Key(FALSE, 42, "SHIFT", 0, 0, 0),
            Key(FALSE, 29, "CTL", 0, 0, 0),
            Key(TRUE, 29, "CTL", 0, 0, 0),
            Key(TRUE, 56, "ALT", 0, 0, 0),
            Key(FALSE, 58, "CAPSLOCK", 0, 0, 0) }
===============================================================================
