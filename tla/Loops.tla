--------------------------------- MODULE Loops --------------------------------
(***************************************************************************)
(* The loops of lib/string.c and lib/printfmt.c, as functions of the       *)
(* number of turns.                                                        *)
(***************************************************************************)
EXTENDS Integers

Within(n) == 0..(n - 1)

(* How many turns a loop makes that goes on while go[i], i the turns made so far,
   and makes n turns at most. *)
Turns(n, go) ==
  LET from[i \in 0..n] == IF i < n /\ go[i] THEN from[i + 1] ELSE i
  IN  from[0]

(* A loop as it is after each of its turns: step maps what its variables are before
   a turn to what they are after it. *)
Iterated(step, x) ==
  LET after[i \in Nat] == IF i = 0 THEN x ELSE step[after[i - 1]]
  IN  after
===============================================================================
