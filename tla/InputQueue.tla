------------------------------ MODULE InputQueue ------------------------------
(***************************************************************************)
(* What the console input buffer of kern/console.c amounts to for its      *)
(* callers: a first-in first-out queue of characters with room for         *)
(* Capacity - 1 of them.  There is no back pressure: the character that    *)
(* would fill the last place empties the queue instead.                    *)
(***************************************************************************)
EXTENDS Integers, Sequences

CONSTANTS
  Capacity,   \* places in the queue, one of which is never used
  Char        \* the characters that may be accepted

VARIABLES
  q,      \* characters accepted and not yet returned
  out     \* what the last cons_getc() returned, 0 for "none waiting"

Init == q = << >> /\ out = 0

Accept(c) ==
  /\ q' = IF Len(q) = Capacity - 1 THEN << >> ELSE Append(q, c)
  /\ UNCHANGED out

GetNone == q = << >> /\ out' = 0 /\ UNCHANGED q

GetFirst == q # << >> /\ out' = Head(q) /\ q' = Tail(q)

Next == (\E c \in Char : Accept(c)) \/ GetNone \/ GetFirst

Spec == Init /\ [][Next]_<<q, out>>
===============================================================================
