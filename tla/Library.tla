-------------------------------- MODULE Library -------------------------------
(***************************************************************************)
(* One call of a function of lib/printfmt.c or lib/string.c, and what each *)
(* of them promises, stated without the loops that compute it.             *)
(***************************************************************************)
EXTENDS Printfmt, StringLib

CONSTANT Calls   \* [op, ...] with the arguments of the function

(* What string.c asks of its callers: pointers to as many bytes of
   memory as they are given, to strings that end, to characters, and for a copy of
   a string room behind the destination, which is not where the source is. *)
Memory(m) == DOMAIN m \subseteq Int /\ m \in [DOMAIN m -> Int]
Holds(m, p, n) == p \in Int /\ n \in Nat /\ p..(p + n - 1) \subseteq DOMAIN m
HoldsString(m, p) == p \in Int /\ \E n \in Within(Unbounded) : Holds(m, p, n + 1) /\ m[p + n] = 0

CopyLegal(m, dst, src, n) ==
  LET room == strlen(m, dst) + strlen(m, src) + 1
  IN  /\ HoldsString(m, src) /\ HoldsString(m, dst) /\ Holds(m, dst, n) /\ Holds(m, dst, room)
      /\ \A k \in 0..strlen(m, src) :
           src + k \notin dst..(dst + n - 1) /\ src + k \notin dst..(dst + room - 1)

(* What printfmt.c asks: an argument of the type that the directive names, but for %e the
   least int, which has no error's number.  Numbers in a directive have one digit here, a
   zero is a flag, and flags that pad numbers are space and zero (printfmt.c:12). *)
Ints(bits) == (-(2^(bits - 1)))..(2^(bits - 1) - 1)
Numeric == {"d", "u", "o", "x"}

DirectiveLegal(d, a) ==
  /\ d.width \in {-1} \union 1..9 /\ d.precision \in {-1} \union 1..9 /\ d.long \in Nat
  /\ d.flags \in {<<>>, <<"0">>, <<"-">>} /\ d.conv \in Conversions
  /\ d.conv \in Numeric => d.flags # <<"-">> /\ a \in Int
  /\ d.conv = "p" => d.flags = <<>> /\ a \in Int
  /\ d.conv = "s" => a \in Seq(Chars) \union {NullString}
  /\ d.conv = "e" => a \in Ints(INTBITS) \ {-(2^(INTBITS - 1))}
  /\ d.conv = "c" => a \in Chars

Legal(c) ==
  /\ c.op = "printf" => DirectiveLegal(c.d, c.a) /\ c.star \in BOOLEAN
  /\ c.op = "malformed" => c.text \in Seq(Chars \ Conversions) /\ Len(c.text) <= 3
  /\ c.op = "snprintf" => /\ c.n \in Int /\ Within(c.n) \subseteq DOMAIN c.buf /\ DOMAIN c.buf \subseteq Int
                          /\ c.buf \in [DOMAIN c.buf -> Chars \union {NUL}]
                          /\ c.a \in Seq(Chars) \ {NullString}
  /\ c.op = "strtol" => c.conv \in {"d", "o", "x"} /\ c.v \in Ints(INTBITS)
  /\ c.op = "memmove" => Memory(c.m) /\ Holds(c.m, c.dst, c.n) /\ Holds(c.m, c.src, c.n)
  /\ c.op = "memset" => Memory(c.m) /\ Holds(c.m, c.dst, c.n) /\ c.c \in Int
  /\ c.op = "copy" => Memory(c.m) /\ CopyLegal(c.m, c.dst, c.src, c.n)
  /\ c.op = "compare" => /\ Memory(c.m) /\ HoldsString(c.m, c.p) /\ HoldsString(c.m, c.q)
                         /\ Holds(c.m, c.p, c.n) /\ Holds(c.m, c.q, c.n)
  /\ c.op = "find" => /\ Memory(c.m) /\ HoldsString(c.m, c.s) /\ Holds(c.m, c.s, c.n)
                      /\ c.c \in Within(BYTE)

ASSUME CallsAssumption == \A c \in Calls : Legal(c)

VARIABLES call, done, result

(* A directive [flags, width, precision, long, conv] as it is written, its numbers
   in the text or as stars; -1 is a number that is left out. *)
Written(d, star) ==
  LET number(n) == IF star THEN <<"*">> ELSE <<Digits[n + 1]>>
  IN  <<"%">> \o d.flags \o (IF d.width = -1 THEN <<>> ELSE number(d.width))
      \o (IF d.precision = -1 THEN <<>> ELSE <<".">> \o number(d.precision))
      \o Repeat("l", d.long) \o <<d.conv>>

Passed(d, star, a) ==
  (IF star /\ d.width # -1 THEN <<d.width>> ELSE <<>>)
  \o (IF star /\ d.precision # -1 THEN <<d.precision>> ELSE <<>>) \o <<a>>

Base(conv) == CASE conv \in {"d", "u"} -> 10 [] conv = "o" -> 8 [] OTHER -> 16

(* The text that strtol() is given: printed by vprintfmt(), with a space in front
   of it and a 'z' behind it. *)
Numeral(conv, v) ==
  <<Space>> \o (IF conv = "x" THEN <<"0", "x">> ELSE <<>>) \o vprintfmt(<<"%", conv, "z">>, <<v>>)

Do(c) ==
  CASE c.op = "printf" -> cprintf(Written(c.d, c.star) \o <<"z">>, Passed(c.d, c.star, c.a)).printed
    [] c.op = "malformed" -> cprintf(<<"%">> \o c.text, <<1, 2, 3>>).printed
    [] c.op = "snprintf" -> vsnprintf(c.buf, c.n, <<"z", "%", "s">>, <<c.a>>)
    [] c.op = "strtol" ->
         strtol(Numeral(c.conv, c.v), IF c.conv = "x" THEN 0 ELSE Base(c.conv))
    [] c.op = "memmove" -> memcpy(c.m, c.dst, c.src, c.n)
    [] c.op = "memset" -> memset(c.m, c.dst, c.c, c.n)
    [] c.op = "copy" -> [lcpy |-> strlcpy(c.m, c.dst, c.src, c.n), ncpy |-> strncpy(c.m, c.dst, c.src, c.n),
                         cpy |-> strcpy(c.m, c.dst, c.src), cat |-> strcat(c.m, c.dst, c.src)]
    [] c.op = "compare" -> [str |-> strcmp(c.m, c.p, c.q), strn |-> strncmp(c.m, c.p, c.q, c.n),
                            mem |-> memcmp(c.m, c.p, c.q, c.n)]
    [] c.op = "find" -> [len |-> strnlen(c.m, c.s, c.n), chr |-> strchr(c.m, c.s, c.c),
                         find |-> strfind(c.m, c.s, c.c), mem |-> memfind(c.m, c.s, c.c, c.n)]

Init == call \in Calls /\ done = FALSE /\ result = <<>>
Return == ~done /\ done' = TRUE /\ result' = Do(call) /\ UNCHANGED call
Spec == Init /\ [][Return]_<<call, done, result>>

Did(op) == done /\ call.op = op

-----------------------------------------------------------------------------
Value(s, base) ==
  LET value[k \in 0..Len(s)] == IF k = 0 THEN 0 ELSE base * value[k - 1] + Digit(s[k])
  IN  value[Len(s)]

Max2(a, b) == IF a < b THEN b ELSE a

(* s is n >= 0 in that base without leading zeros, behind padding to the width. *)
IsField(s, n, base, width, pad) ==
  \E k \in 0..(Len(s) - 1) :
    LET digits == SubSeq(s, k + 1, Len(s))
    IN  /\ SubSeq(s, 1, k) = Repeat(pad, k)
        /\ \A j \in 1..Len(digits) : digits[j] \in DigitChars
        /\ Value(digits, base) = n /\ (digits[1] = "0" => Len(digits) = 1)
        /\ Len(s) = Max2(width, Len(digits))

IsNumber(s, c) ==
  LET bits == IF c.d.long >= 2 THEN LLBITS ELSE INTBITS
      v == IF c.d.conv = "d" THEN Signed(c.a, bits) ELSE c.a % 2^bits
      pad == IF c.d.flags = <<"0">> THEN "0" ELSE Space
  IN  IF v < 0 THEN s # <<>> /\ s[1] = "-" /\ IsField(Tail(s), -v, 10, c.d.width, pad)
      ELSE IsField(s, v, Base(c.d.conv), c.d.width, pad)

(* A string is cut to the precision and fills the width, at its end or, with a
   '-', at its start. *)
IsString(s, c) ==
  LET a == IF c.a = NullString THEN <<"(", "n", "u", "l", "l", ")">> ELSE c.a
      n == IF c.d.precision = -1 \/ Len(a) < c.d.precision THEN Len(a) ELSE c.d.precision
      k == Max2(c.d.width - n, 0)
      text == SubSeq(a, 1, n)
  IN  s = IF c.d.flags = <<"-">> THEN text \o Repeat(Space, k)
          ELSE Repeat(IF c.d.flags = <<"0">> THEN "0" ELSE Space, k) \o text

(* %e is the same for n and -n (printfmt.c:15-18). *)
IsError(s, a) ==
  LET n == IF a < 0 THEN -a ELSE a
  IN  IF n \in 1..(MAXERROR - 1) THEN s = <<"message", Digits[n + 1]>>
      ELSE s # <<>> /\ s[1] = "error" /\ IsField(Tail(s), n, 10, -1, Space)

IsOther(s, c) ==
  CASE c.d.conv = "e" -> IsError(s, c.a)
    [] c.d.conv = "p" -> /\ SubSeq(s, 1, 2) = <<"0", "x">>
                         /\ IsField(SubSeq(s, 3, Len(s)), c.a % 2^INTBITS, 16, c.d.width, Space)
    [] c.d.conv = "c" -> s = <<c.a>>
    [] c.d.conv = "%" -> s = <<"%">>

(* cprintf() prints what the directive says for every argument of the type it
   names, also the least one, and goes on behind it: the 'z' follows.  An
   unrecognized escape is printed literally (printfmt.c:235), wherever the flags
   and numbers in front of the unknown character end. *)
Formatted ==
  /\ Did("malformed") => result = <<"%">> \o call.text
  /\ Did("printf") =>
       LET s == SubSeq(result, 1, Len(result) - 1)
       IN  /\ result[Len(result)] = "z"
           /\ IF call.d.conv = "s" THEN IsString(s, call)
              ELSE IF call.d.conv \in {"d", "u", "o", "x"} THEN IsNumber(s, call)
              ELSE IsOther(s, call)

(* vsnprintf() stores what fits in n bytes with its end, leaves all other bytes
   alone, and returns the length of the whole text. *)
BufferBounded ==
  Did("snprintf") =>
    LET text == <<"z">> \o call.a
        fits == IF Len(text) < call.n THEN Len(text) ELSE call.n - 1
    IN  IF call.n < 1 THEN result = [buf |-> call.buf, ret |-> -E_INVAL]
        ELSE /\ result.ret = Len(text)
             /\ \A a \in DOMAIN call.buf :
                  result.buf[a] = IF a \in Within(fits) THEN text[a + 1]
                                  ELSE IF a = fits THEN NUL ELSE call.buf[a]

(* strtol() reads back what printf() writes, for every int: %d, and %o and 0x%x
   whose values wrap to negative ones; it stops in front of the 'z'. *)
ReadsBack ==
  Did("strtol") =>
    result.val = call.v /\ result.end = Len(Numeral(call.conv, call.v))

(* memmove(), and memcpy() through it: n bytes arrive as they were before the call, however source and
   destination overlap and are aligned, and all others stay. *)
MovesExact(c, r) ==
  r = [a \in DOMAIN c.m |-> IF a \in c.dst..(c.dst + c.n - 1) THEN c.m[c.src + a - c.dst] ELSE c.m[a]]

(* memset(): n bytes become the low byte of c, whatever the rest of c and the
   alignment, and all others stay. *)
FillsExact(c, r) ==
  r = [a \in DOMAIN c.m |-> IF a \in c.dst..(c.dst + c.n - 1) THEN c.c % BYTE ELSE c.m[a]]

(* strlcpy() and strncpy() write size bytes at most; strlcpy() ends the string if
   there is any room and returns its length, strncpy() fills up with zeros. *)
CopiesBounded(c, r) ==
  LET n == strlen(c.m, c.src)
      fits == IF n < c.n THEN n ELSE Max2(c.n - 1, 0)
      old == strlen(c.m, c.dst)
      copy(k) == IF k < n THEN c.m[c.src + k] ELSE 0
      (* the string and zeros, size bytes at dst, and what was there elsewhere *)
      written(m, dst, size) ==
        m = [a \in DOMAIN c.m |-> IF a \in dst..(dst + size - 1) THEN copy(a - dst) ELSE c.m[a]]
  IN  /\ written(r.ncpy, c.dst, c.n)
      /\ written(r.cpy, c.dst, n + 1)
      /\ written(r.cat, c.dst + old, n + 1)
      /\ r.lcpy.end = c.dst + fits
      /\ r.lcpy.mem = [a \in DOMAIN c.m |->
                         IF a \in c.dst..(c.dst + fits - 1) THEN c.m[c.src + a - c.dst]
                         ELSE IF a = c.dst + fits /\ c.n > 0 THEN 0 ELSE c.m[a]]

(* The order is that of the first byte in which the two differ, within n bytes and,
   but for memcmp(), before the end of the strings. *)
Sign(x) == IF x < 0 THEN -1 ELSE IF x > 0 THEN 1 ELSE 0
LeastOf(S) == CHOOSE k \in S : \A j \in S : k <= j

OrderOf(m, p, q, n) ==
  LET D == {k \in 0..(n - 1) : m[p + k] # m[q + k]}
  IN  IF D = {} THEN 0 ELSE Sign(m[p + LeastOf(D)] - m[q + LeastOf(D)])

OrderAgrees(c, r) ==
  LET common == LeastOf({strlen(c.m, c.p), strlen(c.m, c.q)}) + 1
  IN  /\ Sign(r.mem) = OrderOf(c.m, c.p, c.q, c.n)
      /\ Sign(r.str) = OrderOf(c.m, c.p, c.q, common)
      /\ Sign(r.strn) = OrderOf(c.m, c.p, c.q, LeastOf({c.n, common}))

(* What is found is the first, and the end of the string or of the block if there
   is none; strnlen() looks at no byte beyond its bound. *)
FindsFirst(c, r) ==
  LET end == LeastOf({a \in DOMAIN c.m : a >= c.s /\ c.m[a] = 0})
      in(lo, hi) == {a \in lo..hi : c.m[a] = c.c}
      first(S, none) == IF S = {} THEN none ELSE LeastOf(S)
  IN  /\ r.len = LeastOf({end - c.s, c.n})
      /\ r.find = first(in(c.s, end - 1), end)
      /\ r.chr = first(in(c.s, end - 1), NULL)
      /\ r.mem = first(in(c.s, c.s + c.n - 1), c.s + c.n)

(* The functions of string.c agree with definitions without loops: what they write
   and what they leave alone, how they order, and what they find. *)
StringLibExact ==
  /\ Did("memmove") => MovesExact(call, result)
  /\ Did("memset") => FillsExact(call, result)
  /\ Did("copy") => CopiesBounded(call, result)
  /\ Did("compare") => OrderAgrees(call, result)
  /\ Did("find") => FindsFirst(call, result)
===============================================================================
