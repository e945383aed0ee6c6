------------------------------- MODULE LineEditor -----------------------------
(***************************************************************************)
(* What readline() of lib/readline.c promises the monitor: the line the    *)
(* user edited, of at most Max characters, valid until the caller cuts it  *)
(* up or calls again.                                                      *)
(***************************************************************************)
EXTENDS Integers, Sequences

CONSTANTS Max, Printable

VARIABLES
  editing,    \* a call is in progress
  line,       \* what the user has typed and not rubbed out
  result      \* the string the last call returned

vars == <<editing, line, result>>

Init == editing = FALSE /\ line = << >> /\ result = << >>

Start == ~editing /\ editing' = TRUE /\ line' = << >> /\ result' = << >>

Insert(c) ==
  /\ editing /\ Len(line) < Max
  /\ line' = Append(line, c)
  /\ UNCHANGED <<editing, result>>

Delete ==
  /\ editing /\ line # << >>
  /\ line' = SubSeq(line, 1, Len(line) - 1)
  /\ UNCHANGED <<editing, result>>

Enter == editing /\ editing' = FALSE /\ line' = << >> /\ result' = line

Use == ~editing /\ result' = << >> /\ UNCHANGED <<editing, line>>

Next == Start \/ (\E c \in Printable : Insert(c)) \/ Delete \/ Enter \/ Use

Spec == Init /\ [][Next]_vars
===============================================================================
