-------------------------------- MODULE Printfmt ------------------------------
(***************************************************************************)
(* lib/printfmt.c and strtol() of lib/string.c: text as sequences of       *)
(* characters, with an int of INTBITS and a long long of LLBITS bits.      *)
(***************************************************************************)
EXTENDS Loops, Sequences

CONSTANTS
  INTBITS, LLBITS, MAXERROR,
  Chars   \* the characters of a text, where a message counts as one

(* A message is named by its number, in one digit. *)
ASSUME BitsAssumption ==
  INTBITS \in Nat \ {0} /\ LLBITS \in Nat /\ LLBITS >= INTBITS /\ MAXERROR \in 0..16

NUL == "NUL"
Space == " "
Blanks == {Space, "\t"}
NullString == <<"NULL">>   \* a null pointer for %s
Digits == <<"0", "1", "2", "3", "4", "5", "6", "7", "8", "9", "a", "b", "c", "d", "e", "f">>
DigitChars == {Digits[k] : k \in 1..16}
Digit(c) == (CHOOSE k \in 1..16 : Digits[k] = c) - 1

ASSUME CharsAssumption ==
  /\ NUL \notin Chars
  /\ DigitChars \union {Space, "-", "?", "%", "(", "n", "u", "l", ")", "x", "z", "error", "message"}
       \subseteq Chars

CharAt(s, i) == IF i <= Len(s) THEN s[i] ELSE NUL
Repeat(c, n) == IF n <= 0 THEN <<>> ELSE [k \in 1..n |-> c]

Signed(x, bits) == LET r == x % 2^bits IN IF r >= 2^(bits - 1) THEN r - 2^bits ELSE r

-----------------------------------------------------------------------------
(* Mutant of printnum: the width is not passed on reduced. *)
printnumWide(num, base, width, padc) ==
  LET call == Iterated([c \in [num : Nat, width : Int, text : Seq(DigitChars)] |->
                          [num |-> c.num \div base, width |-> c.width,
                           text |-> <<Digits[(c.num % base) + 1]>> \o c.text]],
                       [num |-> num, width |-> width, text |-> <<>>])
      last == call[Turns(num, [k \in Within(num) |-> call[k].num >= base])]
  IN  Repeat(padc, last.width - 1) \o <<Digits[last.num + 1]>> \o last.text

(* Each call prints its digit behind what the call for the digits before it prints:
   text is what is still to come when the last of them is made. *)
printnum(num, base, width, padc) ==
  LET call == Iterated([c \in [num : Nat, width : Int, text : Seq(DigitChars)] |->
                          [num |-> c.num \div base, width |-> c.width - 1,
                           text |-> <<Digits[(c.num % base) + 1]>> \o c.text]],
                       [num |-> num, width |-> width, text |-> <<>>])
      last == call[Turns(num, [k \in Within(num) |-> call[k].num >= base])]
  IN  Repeat(padc, last.width - 1) \o <<Digits[last.num + 1]>> \o last.text

Bits(e) == IF e.lflag >= 2 THEN LLBITS ELSE INTBITS

(* The argument as the unsigned or signed type that the flags say, widened to a
   long long. *)
getuint(e, a) == a % 2^Bits(e)
getint(e, a) == Signed(a, Bits(e))

Decimal(e, a) ==
  LET v == getint(e, a)
  IN  IF v < 0 THEN <<"-">> \o printnum((-v) % 2^LLBITS, 10, e.width, e.padc)
      ELSE printnum(v, 10, e.width, e.padc)

Printable(c) == c \in DigitChars \union {"z", Space}

(* %s: strnlen() takes the precision as unsigned, so -1 is no bound. *)
String(e, a) ==
  LET p == IF a = NullString THEN <<"(", "n", "u", "l", "l", ")">> ELSE a
      n == IF e.precision < 0 \/ Len(p) < e.precision THEN Len(p) ELSE e.precision
      shown == [k \in 1..n |-> IF e.altflag /\ ~Printable(p[k]) THEN "?" ELSE p[k]]
  IN  IF e.width > 0 /\ e.padc # "-" THEN Repeat(e.padc, e.width - n) \o shown
      ELSE shown \o Repeat(Space, e.width - n)

(* %e: a message, or "error" and the number. *)
Error(a) ==
  LET v == Signed(a, INTBITS)
      err == IF v < 0 THEN Signed(-v, INTBITS) ELSE v
  IN  IF err = 0 \/ err >= MAXERROR THEN <<"error">> \o printnum(err, 10, -1, Space)
      ELSE <<"message", Digits[err + 1]>>

Conversions == {"c", "e", "s", "d", "u", "o", "p", "x", "%"}

Convert(ch, e, a) ==
  CASE ch = "c" -> <<a>>
    [] ch = "e" -> Error(a)
    [] ch = "s" -> String(e, a)
    [] ch = "d" -> Decimal(e, a)
    [] ch = "u" -> printnum(getuint(e, a), 10, e.width, e.padc)
    [] ch = "o" -> printnum(getuint(e, a), 8, e.width, e.padc)
    [] ch = "p" -> <<"0", "x">> \o printnum(a % 2^INTBITS, 16, e.width, e.padc)
    [] ch = "x" -> printnum(getuint(e, a), 16, e.width, e.padc)
    [] ch = "%" -> <<"%">>

(* process_precision: the first number is the width, the next one the precision. *)
Number(e, n) ==
  IF e.width < 0 THEN [e EXCEPT !.width = n, !.precision = -1] ELSE [e EXCEPT !.precision = n]

Decimals == {Digits[k] : k \in 1..10}

(* The digits from i on: their value, and where they end. *)
Field(fmt, i) ==
  LET after == Iterated([f \in [value : Nat, end : Nat] |->
                           [value |-> f.value * 10 + Digit(fmt[f.end]), end |-> f.end + 1]],
                        [value |-> 0, end |-> i])
  IN  after[Turns(Len(fmt), [k \in Within(Len(fmt)) |-> CharAt(fmt, after[k].end) \in Decimals])]

(* The flags and numbers that are taken before the switch goes round again, with
   where the pointer and the list of arguments are. *)
Flags == Decimals \union {"-", "*", ".", "#", "l"}
Directives == [at : Nat, arg : Nat, padc : {Space, "-", "0"}, width : Int, precision : Int,
               lflag : Nat, altflag : BOOLEAN]

Flag(fmt, args, e) ==
  LET ch == CharAt(fmt, e.at)
      f == Field(fmt, e.at)
      next == [e EXCEPT !.at = @ + 1]
  IN  CASE ch = "-" -> [next EXCEPT !.padc = "-"]
        [] ch = "0" -> [next EXCEPT !.padc = "0"]
        [] ch \in Decimals \ {"0"} -> Number([e EXCEPT !.at = f.end], f.value)
        [] ch = "*" -> Number([next EXCEPT !.arg = @ + 1], args[e.arg])
        [] ch = "." -> [next EXCEPT !.width = IF @ < 0 THEN 0 ELSE @]
        [] ch = "#" -> [next EXCEPT !.altflag = TRUE]
        [] ch = "l" -> [next EXCEPT !.lflag = @ + 1]

(* An escape sequence that is not known is printed literally: a '%', then what
   follows it, from the start. *)
Unknown(start, e) == [text |-> <<"%">>, at |-> start, arg |-> e.arg]

(* The switch, for the escape that starts at start. *)
Escape(fmt, args, start, arg) ==
  LET after == Iterated([e \in Directives |-> Flag(fmt, args, e)],
                        [at |-> start, arg |-> arg, padc |-> Space, width |-> -1, precision |-> -1,
                         lflag |-> 0, altflag |-> FALSE])
      e == after[Turns(Len(fmt), [k \in Within(Len(fmt)) |-> CharAt(fmt, after[k].at) \in Flags])]
      ch == CharAt(fmt, e.at)
  IN  IF ch \in Conversions
      THEN [text |-> Convert(ch, e, args[e.arg]), at |-> e.at + 1,
            arg |-> IF ch = "%" THEN e.arg ELSE e.arg + 1]
      ELSE Unknown(start, e)

(* What is passed to putch(). *)
vprintfmt(fmt, args) ==
  LET after == Iterated([b \in [at : Nat, arg : Nat, text : Seq(Chars)] |->
                           LET x == Escape(fmt, args, b.at + 1, b.arg)
                           IN  IF CharAt(fmt, b.at) = "%" THEN [x EXCEPT !.text = b.text \o @]
                               ELSE [b EXCEPT !.text = Append(@, fmt[b.at]), !.at = @ + 1]],
                        [at |-> 1, arg |-> 1, text |-> <<>>])
  IN  after[Turns(Len(fmt), [k \in Within(Len(fmt)) |-> CharAt(fmt, after[k].at) # NUL])].text

(* cputchar() prints a character; the count stays 0: *cnt++ moves the pointer. *)
putch(con, ch) == [con EXCEPT !.printed = Append(@, ch)]

Put(con, text) ==
  LET after[k \in 0..Len(text)] == IF k = 0 THEN con ELSE putch(after[k - 1], text[k])
  IN  after[Len(text)]

cprintf(fmt, args) == Put([printed |-> <<>>, cnt |-> 0], vprintfmt(fmt, args))

-----------------------------------------------------------------------------
E_INVAL == 3

(* Mutant of sprintputch: the last byte is used too. *)
sprintputchAll(b, n, ch) ==
  [buf |-> IF b.at < n THEN [b.buf EXCEPT ![b.at] = ch] ELSE b.buf,
   at |-> IF b.at < n THEN b.at + 1 ELSE b.at, cnt |-> b.cnt + 1]

(* A character is counted, and stored while there is room for it and the end. *)
sprintputch(b, n, ch) ==
  [buf |-> IF b.at < n - 1 THEN [b.buf EXCEPT ![b.at] = ch] ELSE b.buf,
   at |-> IF b.at < n - 1 THEN b.at + 1 ELSE b.at, cnt |-> b.cnt + 1]

Store(b, n, text) ==
  LET after[k \in 0..Len(text)] == IF k = 0 THEN b ELSE sprintputch(after[k - 1], n, text[k])
  IN  after[Len(text)]

vsnprintf(buf, n, fmt, args) ==
  IF n < 1 THEN [buf |-> buf, ret |-> -E_INVAL]
  ELSE LET b == Store([buf |-> buf, at |-> 0, cnt |-> 0], n, vprintfmt(fmt, args))
       IN  [buf |-> [b.buf EXCEPT ![b.at] = NUL], ret |-> b.cnt]

-----------------------------------------------------------------------------
Gobble(s, i) == i + Turns(Len(s), [k \in Within(Len(s)) |-> CharAt(s, i + k) \in Blanks])

IsDigit(c, base) == c \in DigitChars /\ Digit(c) < base

(* Mutant of NextValue: the value stops at the greatest int. *)
NextValueClamped(val, base, c) ==
  LET next == val * base + Digit(c) IN IF next >= 2^(INTBITS - 1) THEN 2^(INTBITS - 1) - 1 ELSE next

(* A long is an int wide; overflow wraps, as the build's multiplication does. *)
NextValue(val, base, c) == Signed(val * base + Digit(c), INTBITS)

Accumulate(s, i, base) ==
  LET after == Iterated([n \in [val : Int, end : Nat] |->
                           [val |-> NextValue(n.val, base, s[n.end]), end |-> n.end + 1]],
                        [val |-> 0, end |-> i])
  IN  after[Turns(Len(s), [k \in Within(Len(s)) |-> IsDigit(CharAt(s, after[k].end), base)])]

strtol(s, base) ==
  LET i == Gobble(s, 1)
      j == IF CharAt(s, i) \in {"+", "-"} THEN i + 1 ELSE i
      hex == base \in {0, 16} /\ CharAt(s, j) = "0" /\ CharAt(s, j + 1) = "x"
      oct == ~hex /\ base = 0 /\ CharAt(s, j) = "0"
      b == IF hex THEN 16 ELSE IF oct THEN 8 ELSE IF base = 0 THEN 10 ELSE base
      r == Accumulate(s, IF hex THEN j + 2 ELSE IF oct THEN j + 1 ELSE j, b)
  IN  [val |-> IF CharAt(s, i) = "-" THEN Signed(-r.val, INTBITS) ELSE r.val, end |-> r.end]
===============================================================================
