-------------------------------- MODULE Readline ------------------------------
(***************************************************************************)
(* lib/readline.c, with the characters getchar() returns as input and the  *)
(* display of Cga as output.  Between two calls its caller (Monitor) uses  *)
(* the buffer and prints, so a line may be read anywhere on the screen.    *)
(*                                                                         *)
(* buf holds byte values; iscons() always says 1, so echoing is on, and    *)
(* getchar() never returns a negative number, so "read error" is dead.     *)
(***************************************************************************)
EXTENDS Cga, Sequences

CONSTANTS
  BUFLEN,     \* 1024 in the source
  Prompt,     \* a sequence of characters without control characters
  Inputs      \* the characters getchar() may return

ASSUME BufAssumption == BUFLEN \in Nat \ {0}
ASSUME InputAssumption == Inputs \subseteq 1..255
ASSUME PromptAssumption == Prompt \in Seq(32..255)

(* A full line with its prompt stays on the screen when it scrolls. *)
ASSUME FitsAssumption == Len(Prompt) + BUFLEN - 1 <= CRT_SIZE - CRT_COLS

VARIABLES
  scr,    \* crt_buf and crt_pos
  colours, \* [bg, fg]: cga_bg and cga_fg
  buf,    \* the static buffer
  i,      \* characters in it
  pc      \* "idle", "prompt" or "getchar"

readlineVars == <<scr, colours, buf, i, pc>>

DEL == 127
Default == 7    \* the attribute while no colour is set
Echo(c) == scr' = CgaPutc(scr, c, Attribute(colours.bg, colours.fg, c)) /\ UNCHANGED colours

-----------------------------------------------------------------------------
(* readline(prompt) is called.  While it prints the prompt, i counts the
   characters printed: the code's i is not set yet. *)
Call ==
  /\ pc = "idle"
  /\ pc' = "prompt" /\ i' = 0
  /\ UNCHANGED <<scr, colours, buf>>

PrintPrompt ==
  /\ pc = "prompt"
  /\ \/ i < Len(Prompt) /\ Echo(Prompt[i + 1]) /\ i' = i + 1 /\ UNCHANGED pc
     \/ i = Len(Prompt) /\ pc' = "getchar" /\ i' = 0 /\ UNCHANGED <<scr, colours>>
  /\ UNCHANGED buf

(* The branches of the loop, in the order of the code. *)
IsRubout(c) == c \in {BS, DEL} /\ i > 0

(* Mutant of IsStored: the last place is not kept for the NUL. *)
IsStoredFull(c) == ~IsRubout(c) /\ c >= SPACE /\ i < BUFLEN

IsStored(c) == ~IsRubout(c) /\ c >= SPACE /\ i < BUFLEN - 1

(* Mutant of Erase: the character is erased only from the buffer. *)
EraseSilently == UNCHANGED <<scr, colours>>

Erase == Echo(BS)

Rubout(c) ==
  /\ pc = "getchar" /\ IsRubout(c)
  /\ Erase
  /\ i' = i - 1
  /\ UNCHANGED <<buf, pc>>

Store(c) ==
  /\ pc = "getchar" /\ IsStored(c)
  /\ Echo(c)
  /\ buf' = [buf EXCEPT ![i] = c]
  /\ i' = i + 1
  /\ UNCHANGED pc

(* Mutant of Terminated: the line has no end. *)
Unterminated == buf

Terminated == [buf EXCEPT ![i] = 0]

(* The line is returned; i is dead from here on. *)
Finish(c) ==
  /\ pc = "getchar" /\ ~IsRubout(c) /\ ~IsStored(c) /\ c \in {NL, CR}
  /\ Echo(NL)
  /\ buf' = Terminated
  /\ pc' = "idle" /\ i' = 0

(* A key that is neither of these, or one too many, does nothing: the loop goes
   round, which is a stuttering step. *)

ReadlineInit ==
  /\ scr \in {[buf |-> [p \in Positions |-> Blank], pos |-> at] : at \in Positions}
  /\ colours = [bg |-> 0, fg |-> 0]
  /\ buf = [n \in 0..(BUFLEN - 1) |-> 0] /\ i = 0
  /\ pc = "idle"

-----------------------------------------------------------------------------
(* Types; in particular i indexes buf, so the NUL always has a place. *)
ReadlineTypeOK ==
  /\ scr \in Screens
  /\ buf \in [0..(BUFLEN - 1) -> 0..255]
  /\ pc \in {"idle", "prompt", "getchar"}
  /\ IF pc = "prompt" THEN i \in 0..Len(Prompt) ELSE i \in 0..(BUFLEN - 1)

(* The cells just before the cursor show the sequence of characters s. *)
Shows(s) ==
  /\ Len(s) <= scr.pos
  /\ \A k \in 1..Len(s) : scr.buf[scr.pos - Len(s) + k - 1] = Cell(s[k], Default)

Line == [k \in 1..i |-> buf[k - 1]]

(* What the user sees is what the caller will get: up to the cursor the
   display shows the prompt and then buf[0..i), however the line wraps,
   scrolls and is rubbed out. *)
LineOnScreen ==
  /\ pc = "prompt" => Shows(SubSeq(Prompt, 1, i))
  /\ pc = "getchar" => Shows(Prompt \o Line)

(* The string at buf[n], up to its first NUL or to the end of the buffer. *)
StringAt(n) ==
  LET end == CHOOSE e \in n..BUFLEN :
               /\ e = BUFLEN \/ buf[e] = 0
               /\ \A m \in n..(e - 1) : buf[m] # 0
  IN  [k \in 1..(end - n) |-> buf[n + k - 1]]
===============================================================================
