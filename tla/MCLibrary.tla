-------------------------------- MODULE MCLibrary -----------------------------
(* Every directive with every argument of small integers, every text of up to
   three characters that is no escape, and the functions of lib/string.c on
   every small memory, with pointers and sizes at and beyond every boundary. *)
EXTENDS Library

MCChars == DigitChars \union Flags
             \union {Space, "?", "%", "(", "n", "u", ")", "x", "z", "error", "message"}

Directive(flags, convs, long) ==
  [flags : flags, width : {-1, 1, 4}, precision : {-1, 2}, long : long, conv : convs]

IntArgs(long) == IF long >= 2 THEN (-(2^(LLBITS - 1)))..(2^(LLBITS - 1) - 1)
                 ELSE (-(2^(INTBITS - 1)))..(2^(INTBITS - 1) - 1)
Strings == {NullString, <<>>, <<"z">>, <<"z", "1">>, <<"1", "z", "2">>, <<"z", "z", "z", "z", "2">>}

Printfs ==
  UNION {[op : {"printf"}, d : {d}, star : BOOLEAN, a : IntArgs(d.long)] :
           d \in Directive({<<>>, <<"0">>}, {"d", "u", "o", "x"}, {0, 2})}
  \union [op : {"printf"}, d : Directive({<<>>, <<"0">>, <<"-">>}, {"s"}, {0}), star : BOOLEAN, a : Strings]
  \union [op : {"printf"}, d : Directive({<<>>}, {"e", "p"}, {0}), star : BOOLEAN, a : 1..15]
  \union [op : {"printf"}, d : Directive({<<>>}, {"e"}, {0}), star : BOOLEAN, a : -15..0]
  \union [op : {"printf"}, d : Directive({<<>>}, {"c", "%"}, {0}), star : BOOLEAN, a : {"z", "2"}]

Marks == {"-", "0", "3", "*", ".", "#", "l", "z"}
Texts == UNION {[1..k -> Marks] : k \in 0..3}

Buffer == [a \in -1..5 |-> "x"]
Snprintfs == [op : {"snprintf"}, buf : {Buffer}, n : -1..6, a : {Repeat("1", k) : k \in 0..6}]

Strtols == [op : {"strtol"}, conv : {"d", "o", "x"}, v : IntArgs(0)]

Numbered == [a \in 0..8 |-> a]
Block == {r \in [dst : 0..8, src : 0..8, n : 0..8] : r.dst + r.n <= 9 /\ r.src + r.n <= 9}
Memmoves == {[op |-> "memmove", m |-> Numbered, dst |-> r.dst, src |-> r.src, n |-> r.n] : r \in Block}
Memsets == {[op |-> "memset", m |-> Numbered, dst |-> r.dst, c |-> c, n |-> r.n] :
              r \in {b \in Block : b.src = 0}, c \in {-1, 0, 1, BYTE, BYTE + 2}}

(* Two strings of up to three characters, each with room behind it. *)
Ended(k) == {s \in [0..k -> 0..(BYTE - 1)] : s[k] = 0}
Pair == {[a \in 0..11 |-> IF a < 4 THEN p[a] ELSE IF a < 8 THEN q[a - 4] ELSE 0] : p, q \in Ended(3)}
Copies == [op : {"copy"}, m : Pair, dst : {4, 5}, src : {0, 1}, n : 0..3]
Compares == [op : {"compare"}, m : Pair, p : {0, 2}, q : {4, 5}, n : 0..3]
Finds == [op : {"find"}, m : Pair, s : {0, 2, 5}, c : 0..(BYTE - 1), n : 0..3]

MCCalls ==
  Printfs \union {[op |-> "malformed", text |-> t] : t \in Texts} \union Snprintfs \union Strtols
  \union Memmoves \union Memsets \union Copies \union Compares \union Finds
===============================================================================
