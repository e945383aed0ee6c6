----------------------------- MODULE MonitorProofs -----------------------------
(***************************************************************************)
(* Proofs about Readline and Monitor, for every size of the screen, of the *)
(* line buffer and of argv, every prompt that fits, every set of keys and  *)
(* of white space, and every depth of test_backtrace().                    *)
(***************************************************************************)
EXTENDS Monitor, CgaProofs, SequenceTheorems, FiniteSetTheorems

-----------------------------------------------------------------------------
(* Colours.  Statements are executed in order; Hues is what the two variables hold
   before the first of them and after each, if each line is printed in its own. *)
Hue(bg, fg) == [bg |-> bg, fg |-> fg]
Hues == [bg : 0..15, fg : 0..15]
Own(text) == CASE text \in {"entering", "leaving"} -> Hue(GRAY, RED)
               [] text = "frame" -> Hue(BLUE, WHITE)
               [] text \in Functions -> Hue(0, YELLOW)
               [] OTHER -> Hue(0, 0)
Messages == {"6828", "Stack backtrace", "Welcome", "Type 'help'", "Too many arguments", "help",
             "Special kernel symbols", "symbol", "footprint", "Unknown command"}
Texts == Messages \union {"entering", "leaving", "frame"} \union Functions
Shades == {Keep} \union 0..15
Statements == [op : {"colour"}, bg : Shades, fg : Shades]
              \union [op : {"print"}, text : Texts, arg : Nat]
After(from, st) == IF st.op = "colour" THEN Painted(from, st) ELSE from
MayPrint(from, st) == st.op = "print" => from = Own(st.text)
Passes(h, from, s) ==
  /\ h \in [0..Len(s) -> Hues] /\ h[0] = from /\ h[Len(s)] = Hue(0, 0)
  /\ \A k \in 1..Len(s) : h[k] = After(h[k - 1], s[k]) /\ MayPrint(h[k - 1], s[k])
Coloured(from, s) == s \in Seq(Statements) /\ \E h : Passes(h, from, s)

(* Statements that are executed after others which end without a colour. *)
LEMMA ColouredConcat ==
  ASSUME NEW from, NEW s, NEW t, Coloured(from, s), Coloured(Hue(0, 0), t)
  PROVE  Coloured(from, s \o t)
<1> DEFINE st == s \o t
<1>1. /\ s \in Seq(Statements) /\ t \in Seq(Statements)
      /\ Len(s) \in Nat /\ Len(t) \in Nat
  BY DEF Coloured
<1>2. /\ st \in Seq(Statements) /\ Len(st) = Len(s) + Len(t)
      /\ \A k \in 1..Len(s) : st[k] = s[k]
      /\ \A k \in (Len(s) + 1)..(Len(s) + Len(t)) : st[k] = t[k - Len(s)]
  BY <1>1
<1> HIDE DEF st
<1>3. PICK h : Passes(h, from, s)
  BY DEF Coloured
<1>4. PICK g : Passes(g, Hue(0, 0), t)
  BY DEF Coloured
<1> DEFINE f == [k \in 0..(Len(s) + Len(t)) |-> IF k <= Len(s) THEN h[k] ELSE g[k - Len(s)]]
<1>5. /\ \A k \in 0..Len(s) : f[k] = h[k]
      /\ \A k \in 0..Len(t) : f[Len(s) + k] = g[k]
  <2>1. ASSUME NEW k \in 0..Len(s) PROVE f[k] = h[k]
    BY <1>1
  <2>2. ASSUME NEW k \in 0..Len(t) PROVE f[Len(s) + k] = g[k]
    <3>1. Len(s) + k \in 0..(Len(s) + Len(t)) /\ (Len(s) + k) - Len(s) = k
      BY <1>1
    <3>2. CASE k = 0
      <4>1. f[Len(s)] = h[Len(s)] /\ Len(s) + 0 = Len(s)
        BY <1>1, <2>1
      <4> QED
        BY <1>3, <1>4, <3>2, <4>1 DEF Passes
    <3>3. CASE k # 0
      <4>1. ~(Len(s) + k <= Len(s))
        BY <1>1, <3>3
      <4> QED
        BY <3>1, <4>1
    <3> QED
      BY <3>2, <3>3
  <2> QED
    BY <2>1, <2>2
<1>6. f \in [0..Len(st) -> Hues]
  <2>1. ASSUME NEW k \in 0..(Len(s) + Len(t)) PROVE f[k] \in Hues
    <3>1. CASE k <= Len(s)
      BY <1>1, <1>3, <1>5, <3>1 DEF Passes
    <3>2. CASE ~(k <= Len(s))
      <4>1. k - Len(s) \in 0..Len(t) /\ Len(s) + (k - Len(s)) = k
        BY <1>1, <3>2
      <4>2. f[k] = g[k - Len(s)]
        BY <1>5, <4>1
      <4> QED
        BY <1>4, <4>1, <4>2 DEF Passes
    <3> QED
      BY <3>1, <3>2
  <2> QED
    BY <1>2, <2>1
<1> HIDE DEF f
<1>7. ASSUME NEW k \in 1..Len(st) PROVE f[k] = After(f[k - 1], st[k]) /\ MayPrint(f[k - 1], st[k])
  <2>1. CASE k <= Len(s)
    <3>1. k \in 1..Len(s) /\ k \in 0..Len(s) /\ k - 1 \in 0..Len(s)
      BY <1>1, <2>1
    <3>2. f[k] = h[k] /\ f[k - 1] = h[k - 1] /\ st[k] = s[k]
      BY <1>2, <1>5, <3>1
    <3> QED
      BY <1>3, <3>1, <3>2 DEF Passes
  <2>2. CASE ~(k <= Len(s))
    <3> DEFINE m == k - Len(s)
    <3>1. /\ m \in 1..Len(t) /\ m \in 0..Len(t) /\ m - 1 \in 0..Len(t)
          /\ Len(s) + m = k /\ Len(s) + (m - 1) = k - 1 /\ k \in (Len(s) + 1)..(Len(s) + Len(t))
      BY <1>1, <1>2, <2>2
    <3>2. st[k] = t[m]
      BY <1>2, <3>1
    <3> HIDE DEF m
    <3>3. f[k] = g[m] /\ f[k - 1] = g[m - 1]
      BY <1>5, <3>1
    <3> QED
      BY <1>4, <3>1, <3>2, <3>3 DEF Passes
  <2> QED
    BY <2>1, <2>2
<1>8. f[0] = from /\ f[Len(st)] = Hue(0, 0)
  <2>1. 0 \in 0..Len(s) /\ Len(t) \in 0..Len(t)
    BY <1>1
  <2>2. f[0] = h[0] /\ f[Len(st)] = g[Len(t)]
    BY <1>2, <1>5, <2>1
  <2> QED
    BY <1>3, <1>4, <2>2 DEF Passes
<1>9. Passes(f, from, st)
  BY <1>6, <1>7, <1>8 DEF Passes
<1> QED
  BY <1>2, <1>9 DEF Coloured, st

(* What is left when one statement has been executed. *)
LEMMA ColouredTail ==
  ASSUME NEW from, NEW s, Coloured(from, s), s # << >>
  PROVE  /\ Coloured(After(from, Head(s)), Tail(s)) /\ from \in Hues
         /\ Head(s) = s[1] /\ s[1] \in Statements
         /\ s[1].op = "print" => from = Own(s[1].text)
<1> DEFINE t == Tail(s)
<1>1. s \in Seq(Statements) /\ Len(s) \in Nat /\ Len(s) > 0
  BY DEF Coloured
<1>2. /\ t \in Seq(Statements) /\ Len(t) = Len(s) - 1 /\ Len(t) \in Nat
      /\ \A k \in 1..Len(t) : t[k] = s[k + 1]
      /\ Head(s) = s[1] /\ s[1] \in Statements
  BY <1>1
<1> HIDE DEF t
<1>3. PICK h : Passes(h, from, s)
  BY DEF Coloured
<1>4. /\ h \in [0..Len(s) -> Hues] /\ h[0] = from /\ h[Len(s)] = Hue(0, 0)
      /\ \A k \in 1..Len(s) : h[k] = After(h[k - 1], s[k]) /\ MayPrint(h[k - 1], s[k])
  BY <1>3 DEF Passes
<1>5. h[1] = After(from, s[1]) /\ MayPrint(from, s[1]) /\ from \in Hues
  <2>1. 1 \in 1..Len(s) /\ 0 \in 0..Len(s) /\ 1 - 1 = 0
    BY <1>1
  <2> QED
    BY <1>4, <2>1
<1> DEFINE g == [k \in 0..Len(t) |-> h[k + 1]]
<1>6. ASSUME NEW k \in 0..Len(t) PROVE g[k] = h[k + 1] /\ g[k] \in Hues
  <2>1. k + 1 \in 0..Len(s)
    BY <1>1, <1>2
  <2> QED
    BY <1>4, <2>1
<1>7. g \in [0..Len(t) -> Hues]
  BY <1>6
<1> HIDE DEF g
<1>8. ASSUME NEW k \in 1..Len(t) PROVE g[k] = After(g[k - 1], t[k]) /\ MayPrint(g[k - 1], t[k])
  <2>1. /\ k \in 0..Len(t) /\ k - 1 \in 0..Len(t) /\ k + 1 \in 1..Len(s)
        /\ (k - 1) + 1 = k /\ (k + 1) - 1 = k
    BY <1>1, <1>2
  <2>2. g[k] = h[k + 1] /\ g[k - 1] = h[k] /\ t[k] = s[k + 1]
    BY <1>2, <1>6, <2>1
  <2>3. h[k + 1] = After(h[(k + 1) - 1], s[k + 1]) /\ MayPrint(h[(k + 1) - 1], s[k + 1])
    BY <1>4, <2>1
  <2> QED
    BY <2>1, <2>2, <2>3
<1>9. g[0] = h[1] /\ g[Len(t)] = Hue(0, 0)
  <2>1. 0 \in 0..Len(t) /\ Len(t) \in 0..Len(t) /\ 0 + 1 = 1 /\ Len(t) + 1 = Len(s)
    BY <1>1, <1>2
  <2> QED
    BY <1>4, <1>6, <2>1
<1>10. Passes(g, After(from, s[1]), t)
  BY <1>5, <1>7, <1>8, <1>9 DEF Passes
<1> QED
  BY <1>2, <1>5, <1>10 DEF Coloured, MayPrint, t

(* Nothing is left to print only if no colour is set. *)
LEMMA ColouredEmpty ==
  ASSUME NEW from
  PROVE  Coloured(from, << >>) <=> from = Hue(0, 0)
<1>1. << >> \in Seq(Statements) /\ Len(<< >>) = 0 /\ Hue(0, 0) \in Hues
  BY DEF Hue, Hues
<1>2. Coloured(from, << >>) => from = Hue(0, 0)
  BY <1>1 DEF Coloured, Passes
<1>3. ASSUME from = Hue(0, 0) PROVE Passes([k \in 0..0 |-> Hue(0, 0)], from, << >>)
  BY <1>1, <1>3 DEF Passes
<1> QED
  BY <1>1, <1>2, <1>3 DEF Coloured

(* The statements of one line, as it is, in a foreground of its own, and in two
   colours of its own. *)
IsLine(s, text, arg) == s \in Seq(Statements) /\ Len(s) = 1 /\ s[1] = cprintf(text, arg)
IsColour(s, fg, text, arg) ==
  /\ s \in Seq(Statements) /\ Len(s) = 3
  /\ s[1] = cga_set_fg(fg) /\ s[2] = cprintf(text, arg) /\ s[3] = cga_reset
IsColours(s, bg, fg, text, arg) ==
  /\ s \in Seq(Statements) /\ Len(s) = 4
  /\ s[1] = cga_set_bg(bg) /\ s[2] = cga_set_fg(fg) /\ s[3] = cprintf(text, arg) /\ s[4] = cga_reset

LEMMA LineStatements ==
  ASSUME NEW bg \in 0..15, NEW fg \in 0..15, NEW text \in Texts, NEW arg \in Nat
  PROVE  /\ IsLine(Say(text, arg), text, arg)
         /\ IsColour(InColour(fg, text, arg), fg, text, arg)
         /\ IsColours(InColours(bg, fg, text, arg), bg, fg, text, arg)
<1> DEFINE a == cga_set_bg(bg)
           b == cga_set_fg(fg)
           c == cprintf(text, arg)
           d == cga_reset
<1>1. a \in Statements /\ b \in Statements /\ c \in Statements /\ d \in Statements
  BY DEF Statements, Shades, cga_set_bg, cga_set_fg, cprintf, cga_reset
<1> HIDE DEF a, b, c, d
<1>2. <<c>> \in Seq(Statements) /\ Len(<<c>>) = 1 /\ <<c>>[1] = c
  BY <1>1
<1>3. /\ <<b, c, d>> \in Seq(Statements) /\ Len(<<b, c, d>>) = 3
      /\ <<b, c, d>>[1] = b /\ <<b, c, d>>[2] = c /\ <<b, c, d>>[3] = d
  BY <1>1
<1>4. /\ <<a, b, c, d>> \in Seq(Statements) /\ Len(<<a, b, c, d>>) = 4
      /\ <<a, b, c, d>>[1] = a /\ <<a, b, c, d>>[2] = b /\ <<a, b, c, d>>[3] = c /\ <<a, b, c, d>>[4] = d
  BY <1>1
<1>5. Say(text, arg) = <<c>> /\ InColour(fg, text, arg) = <<b, c, d>> /\ InColours(bg, fg, text, arg) = <<a, b, c, d>>
  BY DEF Say, InColour, InColours, a, b, c, d
<1>6. IsLine(<<c>>, text, arg)
  BY <1>2, Zenon DEF IsLine, c
<1>7. IsColour(<<b, c, d>>, fg, text, arg)
  BY <1>3, Zenon DEF IsColour, b, c, d
<1>8. IsColours(<<a, b, c, d>>, bg, fg, text, arg)
  BY <1>4, Zenon DEF IsColours, a, b, c, d
<1> QED
  BY <1>5, <1>6, <1>7, <1>8, Zenon

LEMMA ColouredLine ==
  ASSUME NEW bg \in 0..15, NEW fg \in 0..15, NEW text \in Texts, NEW arg \in Nat,
         Own(text) = Hue(bg, fg)
  PROVE  /\ bg = 0 /\ fg = 0 => Coloured(Hue(0, 0), Say(text, arg))
         /\ bg = 0 => Coloured(Hue(0, 0), InColour(fg, text, arg))
         /\ Coloured(Hue(0, 0), InColours(bg, fg, text, arg))
<1> DEFINE none == Hue(0, 0)
           own == Hue(bg, fg)
           half == Hue(bg, 0)
<1>1. none \in Hues /\ own \in Hues /\ half \in Hues
  BY DEF Hue, Hues
<1>2. /\ After(none, cga_set_bg(bg)) = half /\ After(half, cga_set_fg(fg)) = own
      /\ After(own, cga_reset) = none /\ After(own, cprintf(text, arg)) = own
      /\ MayPrint(own, cprintf(text, arg)) /\ MayPrint(none, cga_set_bg(bg))
      /\ MayPrint(half, cga_set_fg(fg)) /\ MayPrint(own, cga_reset)
  <2>1. /\ Painted(none, cga_set_bg(bg)) = half /\ Painted(half, cga_set_fg(fg)) = own
        /\ Painted(own, cga_reset) = none
    BY DEF Painted, cga_set_bg, cga_set_fg, cga_reset, Keep, Hue
  <2>2. /\ cga_set_bg(bg).op = "colour" /\ cga_set_fg(fg).op = "colour" /\ cga_reset.op = "colour"
        /\ cprintf(text, arg).op = "print" /\ cprintf(text, arg).text = text
    BY DEF cga_set_bg, cga_set_fg, cga_reset, cprintf
  <2> HIDE DEF none, own, half
  <2>3. own = Own(text)
    BY DEF own
  <2> QED
    BY <2>1, <2>2, <2>3 DEF After, MayPrint
<1>3. (bg = 0 => half = none) /\ (bg = 0 /\ fg = 0 => own = none) /\ none = Hue(0, 0)
  OBVIOUS
<1> HIDE DEF none, own, half
<1>4. ASSUME bg = 0, fg = 0 PROVE Coloured(none, Say(text, arg))
  <2> DEFINE s == Say(text, arg)
             h == [k \in 0..1 |-> none]
  <2>0. IsLine(s, text, arg)
    BY LineStatements
  <2> HIDE DEF s
  <2>1. s \in Seq(Statements) /\ Len(s) = 1 /\ s[1] = cprintf(text, arg)
    BY <2>0 DEF IsLine
  <2>2. h \in [0..1 -> Hues] /\ h[0] = none /\ h[1] = none
    BY <1>1
  <2> HIDE DEF h
  <2>3. Passes(h, none, s)
    BY <1>2, <1>3, <1>4, <2>1, <2>2 DEF Passes
  <2> QED
    BY <2>1, <2>3 DEF Coloured, s
<1>5. ASSUME bg = 0 PROVE Coloured(none, InColour(fg, text, arg))
  <2> DEFINE s == InColour(fg, text, arg)
             h == [k \in 0..3 |-> IF k \in {1, 2} THEN own ELSE none]
  <2>0. IsColour(s, fg, text, arg)
    BY LineStatements
  <2> HIDE DEF s
  <2>1. /\ s \in Seq(Statements) /\ Len(s) = 3
        /\ s[1] = cga_set_fg(fg) /\ s[2] = cprintf(text, arg) /\ s[3] = cga_reset
    BY <2>0 DEF IsColour
  <2>2. h \in [0..3 -> Hues] /\ h[0] = none /\ h[1] = own /\ h[2] = own /\ h[3] = none
    BY <1>1
  <2> HIDE DEF h
  <2>3. ASSUME NEW k \in 1..3 PROVE h[k] = After(h[k - 1], s[k]) /\ MayPrint(h[k - 1], s[k])
    <3>1. CASE k = 1
      BY <1>2, <1>3, <1>5, <2>1, <2>2, <3>1
    <3>2. CASE k = 2
      BY <1>2, <2>1, <2>2, <3>2
    <3>3. CASE k = 3
      BY <1>2, <2>1, <2>2, <3>3
    <3> QED
      BY <3>1, <3>2, <3>3
  <2>4. Passes(h, none, s)
    BY <1>3, <2>1, <2>2, <2>3 DEF Passes
  <2> QED
    BY <2>1, <2>4 DEF Coloured, s
<1>6. Coloured(none, InColours(bg, fg, text, arg))
  <2> DEFINE s == InColours(bg, fg, text, arg)
             h == [k \in 0..4 |-> IF k = 1 THEN half ELSE IF k \in {2, 3} THEN own ELSE none]
  <2>0. IsColours(s, bg, fg, text, arg)
    BY LineStatements
  <2> HIDE DEF s
  <2>1. /\ s \in Seq(Statements) /\ Len(s) = 4
        /\ s[1] = cga_set_bg(bg) /\ s[2] = cga_set_fg(fg) /\ s[3] = cprintf(text, arg) /\ s[4] = cga_reset
    BY <2>0 DEF IsColours
  <2>2. h \in [0..4 -> Hues] /\ h[0] = none /\ h[1] = half /\ h[2] = own /\ h[3] = own /\ h[4] = none
    BY <1>1
  <2> HIDE DEF h
  <2>3. ASSUME NEW k \in 1..4 PROVE h[k] = After(h[k - 1], s[k]) /\ MayPrint(h[k - 1], s[k])
    <3>1. CASE k = 1
      BY <1>2, <2>1, <2>2, <3>1
    <3>2. CASE k = 2
      BY <1>2, <2>1, <2>2, <3>2
    <3>3. CASE k = 3
      BY <1>2, <2>1, <2>2, <3>3
    <3>4. CASE k = 4
      BY <1>2, <2>1, <2>2, <3>4
    <3> QED
      BY <3>1, <3>2, <3>3, <3>4
  <2>4. Passes(h, none, s)
    BY <1>3, <2>1, <2>2, <2>3 DEF Passes
  <2> QED
    BY <2>1, <2>4 DEF Coloured, s
<1> QED
  BY <1>3, <1>4, <1>5, <1>6
-----------------------------------------------------------------------------
(* The invariant.  Nothing is printed but in its own colours, and when all is
   printed no colour is set. *)
Printed == [text : Texts, arg : Nat, attr : 0..255]
ColourInv ==
  /\ Coloured(colours, todo)
  /\ printed \in Seq(Printed)
  /\ InOwnColours

-----------------------------------------------------------------------------
(* The frames are those of the functions that are active, and how many there are
   and which ones depends on where the kernel is. *)
AtDepth(d) == calls[ebp - d + 1]
Frames == [saved : 0..Deepest, ret : Functions, arg : Nat]
StackInv ==
  /\ frames \in [0..Deepest -> Frames] /\ ebp \in 1..Deepest /\ walk \in 0..Deepest
  /\ calls \in Seq(Functions \X Nat) /\ Len(calls) = ebp
  /\ \A d \in 1..ebp : /\ frames[d].saved = d - 1
                       /\ frames[d].ret = IF d = 1 THEN "entry" ELSE AtDepth(d - 1)[1]
                       /\ frames[d].arg = AtDepth(d)[2]

Boot(n) ==
  /\ AtDepth(1)[1] = "i386_init"
  /\ \A d \in 2..n : AtDepth(d) = <<"test_backtrace", TestDepth + 2 - d>>

PlaceInv ==
  /\ at \in Places
  /\ at = "init" => ebp = 1 /\ Boot(1)
  /\ at = "test" => ebp \in 1..(TestDepth + 1) /\ Boot(ebp)
  /\ at = "leaf" => ebp = TestDepth + 2 /\ Boot(ebp)
  /\ at = "leave" => ebp \in 2..(TestDepth + 2) /\ Boot(ebp)
  /\ at \in {"walk", "walked"} =>
       (ebp = TestDepth + 3 /\ Boot(ebp - 1)) \/ (ebp = 4 /\ AtDepth(3)[1] = "runcmd")
  /\ at = "welcome" => ebp = 1
  /\ at \in {"prompt", "readline"} => ebp = 2
  /\ at \in {"gobble", "scan", "lookup", "done"} => ebp = 3 /\ AtDepth(3)[1] = "runcmd"

-----------------------------------------------------------------------------
(* Reading a line. *)
ReadInv ==
  /\ ReadlineTypeOK
  /\ pc # "idle" => at = "readline"
  /\ at \in {"readline", "scan", "lookup", "walked"} => todo = << >>
  /\ pc = "getchar" => \A k \in 0..(i - 1) : buf[k] # 0
  /\ Returned => \E e \in 0..(BUFLEN - 1) : buf[e] = 0 /\ \A k \in 0..(e - 1) : buf[k] # 0

-----------------------------------------------------------------------------
(* Cutting a line s into words: up to q the white space of the copy of s in b is
   overwritten, and the first n entries of av are the words that start in the
   first `upto` characters of s. *)
Buffers == [0..(BUFLEN - 1) -> 0..255]
CutUp(s, b, q) ==
  /\ s \in Seq(1..255) /\ Len(s) < BUFLEN /\ q \in 0..Len(s)
  /\ b[Len(s)] = 0
  /\ \A k \in 0..(q - 1) : b[k] = IF s[k + 1] \in WHITESPACE THEN 0 ELSE s[k + 1]
  /\ \A k \in q..(Len(s) - 1) : b[k] = s[k + 1]

Starts(s, m) == s[m] \notin WHITESPACE /\ (m = 1 \/ s[m - 1] \in WHITESPACE)
Between(s, q) == q = 0 \/ q = Len(s) \/ s[q] \in WHITESPACE \/ s[q + 1] \in WHITESPACE
Found(s, av, n, upto) ==
  /\ \A k \in 0..(n - 1) : /\ av[k] \in 0..(upto - 1)
                           /\ \E e \in (av[k] + 1)..upto : IsWord(s, av[k] + 1, e)
                           /\ k > 0 => av[k - 1] < av[k]
  /\ \A m \in 1..upto : Starts(s, m) => \E k \in 0..(n - 1) : av[k] + 1 = m
Inside(s, av, n, q) ==
  /\ n > 0 /\ av[n - 1] \in 0..q /\ av[n - 1] < Len(s)
  /\ Found(s, av, n - 1, av[n - 1]) /\ Starts(s, av[n - 1] + 1)
  /\ \A m \in (av[n - 1] + 1)..q : s[m] \notin WHITESPACE

(* What a place of argv may hold. *)
Pointers == Leftovers \union {NULL} \union 0..(BUFLEN - 1)

ParseInv ==
  /\ p \in 0..(BUFLEN - 1) /\ argc \in 0..(MAXARGS - 1)
  /\ argv \in [0..(MAXARGS - 1) -> Pointers]
  /\ \A k \in 0..(argc - 1) : argv[k] \in 0..(BUFLEN - 1)
  /\ at \in {"gobble", "scan", "lookup"} => CutUp(line, buf, p)
  /\ at \in {"gobble", "lookup"} => Found(line, argv, argc, p) /\ Between(line, p)
  /\ at = "scan" => Inside(line, argv, argc, p)
  /\ at = "lookup" => p = Len(line) /\ argv[argc] = NULL

-----------------------------------------------------------------------------
(* A backtrace: the lines that pr ends with are those of the n innermost calls,
   and if h = 1 the first line of the next one; the statements that are left
   are all but the first k of a frame's seven. *)
Caller(cs, n) == IF n < Len(cs) THEN cs[n + 1][1] ELSE "entry"
Listed(pr, cs, n, h) ==
  LET title == Len(pr) - 2 * n - h
  IN  /\ title > 0 /\ pr[title].text = "Stack backtrace"
      /\ \A k \in 1..n : /\ pr[title + 2 * k - 1].text = "frame" /\ pr[title + 2 * k - 1].arg = cs[k][2]
                         /\ pr[title + 2 * k].text = Caller(cs, k)
      /\ h = 1 => pr[title + 2 * n + 1].text = "frame" /\ pr[title + 2 * n + 1].arg = cs[n + 1][2]
Rest(s, k, arg, text) ==
  /\ s \in Seq(Statements) /\ Len(s) = 7 - k
  /\ \A j \in 1..(7 - k) :
       /\ j + k = 3 => s[j] = cprintf("frame", arg)
       /\ j + k = 6 => s[j] = cprintf(text, 0)
       /\ j + k \notin {3, 6} => s[j].op = "colour"

ListedUpTo(pr, cs, n, k) ==
  /\ k < 3 => Listed(pr, cs, n - 1, 0)
  /\ k \in 3..5 => Listed(pr, cs, n - 1, 1)
  /\ k > 5 => Listed(pr, cs, n, 0)

WalkInv ==
  /\ at = "walk" =>
       /\ walk \in 0..ebp
       /\ \/ walk = ebp /\ todo = Say("Stack backtrace", 0)
          \/ walk = ebp /\ todo = << >> /\ Listed(printed, calls, 0, 0)
          \/ \E k \in 0..7 :
               /\ walk < ebp
               /\ Rest(todo, k, calls[ebp - walk][2], Caller(calls, ebp - walk))
               /\ ListedUpTo(printed, calls, ebp - walk, k)
  /\ at = "walked" => Listed(printed, calls, ebp, 0)

-----------------------------------------------------------------------------
(* A line printed in its own colours has its own attribute. *)
LEMMA OwnAttr ==
  ASSUME NEW text
  PROVE  /\ Attribute(Own(text).bg, Own(text).fg, Glyph) = AttrOf(text)
         /\ AttrOf(text) \in 0..255
<1>1. Glyph \in 33..126
  BY ArgsAssumption
<1>2. CASE text \in {"entering", "leaving"}
  <2>1. Own(text) = Hue(GRAY, RED) /\ AttrOf(text) = GRAY * 16 + RED
    BY <1>2 DEF Own, AttrOf, Functions
  <2> QED
    BY <1>1, <2>1 DEF Hue, Attribute, GRAY, RED
<1>3. CASE text = "frame"
  <2>1. Own(text) = Hue(BLUE, WHITE) /\ AttrOf(text) = BLUE * 16 + WHITE
    BY <1>3 DEF Own, AttrOf, Functions
  <2> QED
    BY <1>1, <2>1 DEF Hue, Attribute, BLUE, WHITE
<1>4. CASE text \in Functions
  <2>1. Own(text) = Hue(0, YELLOW) /\ AttrOf(text) = YELLOW
    BY <1>4 DEF Own, AttrOf, Functions
  <2> QED
    BY <1>1, <2>1 DEF Hue, Attribute, YELLOW
<1>5. CASE text \notin {"entering", "leaving"} /\ text # "frame" /\ text \notin Functions
  <2>1. Own(text) = Hue(0, 0) /\ AttrOf(text) = Default
    BY <1>5 DEF Own, AttrOf, Functions
  <2> QED
    BY <1>1, <2>1 DEF Hue, Attribute, Default
<1> QED
  BY <1>2, <1>3, <1>4, <1>5

(* What each place of the kernel prints. *)
LEMMA Plain ==
  ASSUME NEW text \in Messages,
         NEW arg \in Nat
  PROVE  Coloured(Hue(0, 0), Say(text, arg))
<1>1. Own(text) = Hue(0, 0)
  BY DEF Own, Functions, Messages
<1>2. text \in Texts /\ 0 \in 0..15
  BY DEF Texts
<1> QED
  BY <1>1, <1>2, ColouredLine

LEMMA Outputs ==
  /\ \A text \in {"entering", "leaving"} : \A arg \in Nat :
       Coloured(Hue(0, 0), InColours(GRAY, RED, text, arg))
  /\ \A arg \in Nat : Coloured(Hue(0, 0), InColours(BLUE, WHITE, "frame", arg))
  /\ \A text \in Functions : Coloured(Hue(0, 0), InColour(YELLOW, text, 0))
  /\ Coloured(Hue(0, 0), Say("Welcome", 0) \o Say("Type 'help'", 0))
  /\ Coloured(Hue(0, 0), mon_help) /\ Coloured(Hue(0, 0), mon_kerninfo)
<1>1. ASSUME NEW text \in {"entering", "leaving"}, NEW arg \in Nat
      PROVE  Coloured(Hue(0, 0), InColours(GRAY, RED, text, arg))
  <2>1. Own(text) = Hue(GRAY, RED)
    BY DEF Own, Functions
  <2>2. text \in Texts /\ GRAY \in 0..15 /\ RED \in 0..15
    BY DEF GRAY, RED, Texts
  <2> QED
    BY <2>1, <2>2, ColouredLine
<1>2. ASSUME NEW arg \in Nat PROVE Coloured(Hue(0, 0), InColours(BLUE, WHITE, "frame", arg))
  <2>1. Own("frame") = Hue(BLUE, WHITE)
    BY DEF Own, Functions
  <2>2. "frame" \in Texts /\ BLUE \in 0..15 /\ WHITE \in 0..15
    BY DEF BLUE, WHITE, Texts
  <2> QED
    BY <2>1, <2>2, ColouredLine
<1>3. ASSUME NEW text \in Functions PROVE Coloured(Hue(0, 0), InColour(YELLOW, text, 0))
  <2>1. Own(text) = Hue(0, YELLOW)
    BY DEF Own, Functions
  <2>2. text \in Texts /\ YELLOW \in 0..15 /\ 0 \in 0..15 /\ 0 \in Nat
    BY DEF YELLOW, Texts
  <2> QED
    BY <2>1, <2>2, ColouredLine
<1>4. Coloured(Hue(0, 0), Say("Welcome", 0) \o Say("Type 'help'", 0))
  <2>1. Coloured(Hue(0, 0), Say("Welcome", 0)) /\ Coloured(Hue(0, 0), Say("Type 'help'", 0))
    BY Plain DEF Messages
  <2> QED
    BY <2>1, ColouredConcat
<1>5. Coloured(Hue(0, 0), mon_help)
  <2>1. Coloured(Hue(0, 0), Say("help", 0))
    BY Plain DEF Messages
  <2> QED
    BY <2>1, ColouredConcat DEF mon_help
<1>6. Coloured(Hue(0, 0), mon_kerninfo)
  <2>1. /\ Coloured(Hue(0, 0), Say("Special kernel symbols", 0))
        /\ Coloured(Hue(0, 0), Say("symbol", 1)) /\ Coloured(Hue(0, 0), Say("symbol", 2))
        /\ Coloured(Hue(0, 0), Say("symbol", 3)) /\ Coloured(Hue(0, 0), Say("symbol", 4))
        /\ Coloured(Hue(0, 0), Say("symbol", 5)) /\ Coloured(Hue(0, 0), Say("footprint", 0))
    BY Plain DEF Messages
  <2> QED
    BY <2>1, ColouredConcat, Zenon DEF mon_kerninfo
<1> QED
  BY <1>1, <1>2, <1>3, <1>4, <1>5, <1>6
-----------------------------------------------------------------------------
(* A call: the frames below stay. *)
Kept(n) == \A d \in 1..n : AtDepth(d)' = AtDepth(d)

LEMMA PushKeeps ==
  ASSUME StackInv, NEW fn \in Functions, NEW arg \in Nat, Push(fn, arg), ebp < Deepest, walk' \in 0..Deepest
  PROVE  StackInv' /\ ebp' = ebp + 1 /\ calls'[1] = <<fn, arg>> /\ Kept(ebp)
<1> DEFINE C == Functions \X Nat
           new == <<<<fn, arg>>>>
           top == [saved |-> ebp, ret |-> calls[1][1], arg |-> arg]
<1>1. /\ frames \in [0..Deepest -> Frames] /\ ebp \in Nat /\ 1 <= ebp /\ Deepest \in Nat
      /\ calls \in Seq(C) /\ Len(calls) = ebp
  BY DepthAssumption DEF StackInv, Deepest
<1>2. ebp' = ebp + 1 /\ calls' = new \o calls /\ frames' = [frames EXCEPT ![ebp + 1] = top]
  BY DEF Push
<1>3. new \in Seq(C) /\ Len(new) = 1 /\ new[1] = <<fn, arg>>
  OBVIOUS
<1>4. calls[1] \in C
  BY <1>1
<1>5. top \in Frames /\ top.saved = ebp /\ top.ret = calls[1][1] /\ top.arg = arg
  BY <1>1, <1>4 DEF Frames
<1> HIDE DEF C, new, top
<1>6. /\ calls' \in Seq(C) /\ Len(calls') = ebp + 1
      /\ calls'[1] = <<fn, arg>> /\ \A k \in 1..ebp : calls'[k + 1] = calls[k]
  <2>1. /\ calls' \in Seq(C) /\ Len(calls') = Len(new) + Len(calls)
        /\ \A k \in 1..(Len(new) + Len(calls)) :
             calls'[k] = IF k <= Len(new) THEN new[k] ELSE calls[k - Len(new)]
    BY <1>1, <1>2, <1>3, ConcatProperties, Zenon
  <2> QED
    BY <1>1, <1>3, <2>1
<1>7. Kept(ebp)
  <2>1. ASSUME NEW d \in 1..ebp PROVE AtDepth(d)' = AtDepth(d)
    <3>1. ebp - d + 1 \in 1..ebp /\ ebp' - d + 1 = (ebp - d + 1) + 1
      BY <1>1, <1>2
    <3>2. calls'[(ebp - d + 1) + 1] = calls[ebp - d + 1]
      BY <1>6, <3>1
    <3> QED
      BY <3>1, <3>2 DEF AtDepth
  <2> QED
    BY <2>1 DEF Kept
<1>8. /\ frames' \in [0..Deepest -> Frames] /\ frames'[ebp + 1] = top
      /\ \A d \in 1..ebp : frames'[d] = frames[d]
  BY <1>1, <1>2, <1>5
<1>9. AtDepth(ebp) = calls[1]
  BY <1>1 DEF AtDepth
<1>10. ASSUME NEW d \in 1..ebp'
       PROVE  /\ frames'[d].saved = d - 1
              /\ frames'[d].ret = IF d = 1 THEN "entry" ELSE AtDepth(d - 1)'[1]
              /\ frames'[d].arg = AtDepth(d)'[2]
  <2>1. CASE d = ebp + 1
    <3>1. AtDepth(d - 1)' = AtDepth(ebp) /\ d # 1
      BY <1>1, <1>7, <2>1 DEF Kept
    <3>2. AtDepth(d)' = <<fn, arg>>
      <4>1. ebp' - d + 1 = 1
        BY <1>1, <1>2, <2>1
      <4> QED
        BY <1>6, <4>1 DEF AtDepth
    <3> QED
      BY <1>1, <1>5, <1>8, <1>9, <2>1, <3>1, <3>2
  <2>2. CASE d # ebp + 1
    <3>1. d \in 1..ebp /\ (d # 1 => d - 1 \in 1..ebp)
      BY <1>1, <1>2, <2>2
    <3> QED
      BY <1>7, <1>8, <3>1 DEF StackInv, Kept
  <2> QED
    BY <2>1, <2>2
<1>11. ebp' \in 1..Deepest
  BY <1>1, <1>2
<1> QED
  BY <1>2, <1>6, <1>7, <1>8, <1>10, <1>11 DEF StackInv, C

LEMMA PopKeeps ==
  ASSUME StackInv, Pop, ebp > 1, walk' \in 0..Deepest
  PROVE  StackInv' /\ ebp' = ebp - 1 /\ Kept(ebp - 1)
<1> DEFINE C == Functions \X Nat
<1>1. /\ frames \in [0..Deepest -> Frames] /\ ebp \in Nat /\ 1 < ebp /\ ebp <= Deepest /\ Deepest \in Nat
      /\ calls \in Seq(C) /\ Len(calls) = ebp
  BY DepthAssumption DEF StackInv, Deepest
<1>2. ebp' = ebp - 1 /\ calls' = Tail(calls) /\ frames' = frames
  BY <1>1 DEF Pop, StackInv
<1> HIDE DEF C
<1>3. /\ calls' \in Seq(C) /\ Len(calls') = ebp - 1
      /\ \A k \in 1..(ebp - 1) : calls'[k] = calls[k + 1]
  BY <1>1, <1>2
<1>4. Kept(ebp - 1)
  BY <1>1, <1>2, <1>3 DEF Kept, AtDepth
<1>5. ASSUME NEW d \in 1..ebp'
      PROVE  /\ frames'[d].saved = d - 1
             /\ frames'[d].ret = IF d = 1 THEN "entry" ELSE AtDepth(d - 1)'[1]
             /\ frames'[d].arg = AtDepth(d)'[2]
  <2>1. d \in 1..ebp /\ d \in 1..(ebp - 1) /\ (d # 1 => d - 1 \in 1..(ebp - 1))
    BY <1>1, <1>2
  <2> QED
    BY <1>2, <1>4, <2>1 DEF StackInv, Kept
<1>6. frames' \in [0..Deepest -> Frames] /\ ebp' \in 1..Deepest /\ Len(calls') = ebp'
  BY <1>1, <1>2, <1>3
<1>7. calls' \in Seq(Functions \X Nat)
  BY <1>3 DEF C
<1> QED
  BY <1>2, <1>4, <1>5, <1>6, <1>7, Zenon DEF StackInv

(* The stack as it was: another place of the kernel with the same frames. *)
LEMMA StackStays ==
  ASSUME StackInv, UNCHANGED stack, walk' \in 0..Deepest
  PROVE  StackInv' /\ ebp' = ebp /\ Kept(ebp)
  BY DEF StackInv, stack, AtDepth, Kept

(* Every step of the kernel leaves the frames that its place asks for. *)
LEMMA StackStep == StackInv /\ PlaceInv /\ argc \in Nat /\ [Next]_vars => StackInv' /\ PlaceInv'
<1> SUFFICES ASSUME StackInv, PlaceInv, argc \in Nat, [Next]_vars PROVE StackInv' /\ PlaceInv'
  OBVIOUS
<1>1. /\ ebp \in 1..Deepest /\ walk \in 0..Deepest /\ TestDepth \in Nat /\ Deepest = TestDepth + 4
      /\ frames \in [0..Deepest -> Frames]
  BY DepthAssumption DEF StackInv, Deepest
<1>2. frames[walk].saved \in 0..Deepest
  BY <1>1 DEF Frames
<1>3. {"test_backtrace", "mon_backtrace", "monitor", "runcmd", "i386_init"} \subseteq Functions
  BY DEF Functions
<1>4. ASSUME UNCHANGED <<stack, at>>, walk' \in 0..Deepest PROVE StackInv' /\ PlaceInv'
  <2>1. StackInv' /\ ebp' = ebp
    BY <1>4, StackStays
  <2>2. \A d \in 1..ebp : AtDepth(d)' = AtDepth(d)
    BY <1>4 DEF AtDepth, stack
  <2>3. PlaceInv'
    BY <1>4 DEF PlaceInv, Boot, AtDepth, stack
  <2> QED
    BY <2>1, <2>3
<1>5. CASE FirstLine
  <2>1. at = "init" /\ at' = "test" /\ UNCHANGED <<stack, walk>>
    BY <1>5 DEF FirstLine, Step
  <2>2. StackInv' /\ ebp' = ebp /\ Kept(ebp)
    BY <1>1, <2>1, StackStays
  <2>3. ebp = 1 /\ AtDepth(1)[1] = "i386_init"
    BY <2>1 DEF PlaceInv, Boot
  <2>4. AtDepth(1)' = AtDepth(1)
    BY <2>2, <2>3 DEF Kept
  <2>5. PlaceInv'
    BY <1>1, <2>1, <2>2, <2>3, <2>4 DEF PlaceInv, Places, Boot
  <2> QED
    BY <2>2, <2>5
<1>6. CASE Entering
  <2>1. /\ at = "test" /\ at' = (IF Arg > 0 THEN "test" ELSE "leaf")
        /\ Push("test_backtrace", Arg) /\ UNCHANGED walk
    BY <1>6 DEF Entering, Step
  <2>2. ebp \in 1..(TestDepth + 1) /\ Boot(ebp)
    BY <2>1 DEF PlaceInv
  <2>3. Arg = TestDepth + 1 - ebp
    <3>1. CASE ebp = 1
      BY <1>1, <3>1 DEF Arg
    <3>2. CASE ebp # 1
      <4>1. ebp \in 2..ebp /\ ebp \in 1..ebp
        BY <1>1, <3>2
      <4>2. frames[ebp].arg = AtDepth(ebp)[2] /\ AtDepth(ebp) = <<"test_backtrace", TestDepth + 2 - ebp>>
        BY <2>2, <4>1 DEF StackInv, Boot
      <4>3. frames[ebp].arg = TestDepth + 2 - ebp
        BY <4>2
      <4> QED
        BY <1>1, <3>2, <4>3 DEF Arg
    <3> QED
      BY <3>1, <3>2
  <2>4. Arg \in Nat /\ ebp < Deepest
    BY <1>1, <2>2, <2>3
  <2>5. StackInv' /\ ebp' = ebp + 1 /\ calls'[1] = <<"test_backtrace", Arg>> /\ Kept(ebp)
    BY <1>1, <1>3, <2>1, <2>4, PushKeeps
  <2>6. ASSUME NEW d \in 2..ebp' PROVE AtDepth(d)' = <<"test_backtrace", TestDepth + 2 - d>>
    <3>1. CASE d = ebp + 1
      <4>1. ebp' - d + 1 = 1 /\ Arg = TestDepth + 2 - d
        BY <1>1, <2>3, <2>5, <3>1
      <4> QED
        BY <2>5, <4>1 DEF AtDepth
    <3>2. CASE d # ebp + 1
      <4>1. d \in 2..ebp /\ d \in 1..ebp
        BY <1>1, <2>5, <3>2
      <4> QED
        BY <2>2, <2>5, <4>1 DEF Kept, Boot
    <3> QED
      BY <3>1, <3>2
  <2>7. AtDepth(1)'[1] = "i386_init"
    BY <1>1, <2>2, <2>5 DEF Kept, Boot
  <2>8. Boot(ebp)'
    BY <2>6, <2>7 DEF Boot
  <2>9. CASE Arg > 0
    <3>1. at' = "test" /\ ebp' \in 1..(TestDepth + 1)
      BY <1>1, <2>1, <2>2, <2>3, <2>5, <2>9
    <3>2. PlaceInv'
      BY <2>8, <3>1 DEF PlaceInv, Places
    <3> QED
      BY <2>5, <3>2
  <2>10. CASE ~(Arg > 0)
    <3>1. at' = "leaf" /\ ebp' = TestDepth + 2
      BY <1>1, <2>1, <2>2, <2>3, <2>5, <2>10
    <3>2. PlaceInv'
      BY <2>8, <3>1 DEF PlaceInv, Places
    <3> QED
      BY <2>5, <3>2
  <2> QED
    BY <2>9, <2>10
<1>7. CASE CallBacktrace
  <2>1. at = "leaf" /\ at' = "walk" /\ Push("mon_backtrace", 0) /\ walk' = ebp'
    BY <1>7 DEF CallBacktrace, Step
  <2>2. ebp = TestDepth + 2 /\ Boot(ebp)
    BY <2>1 DEF PlaceInv
  <2>3. ebp < Deepest /\ ebp' = ebp + 1 /\ ebp' \in 0..Deepest
    BY <1>1, <2>1, <2>2 DEF Push
  <2>4. StackInv' /\ Kept(ebp)
    BY <1>3, <2>1, <2>3, PushKeeps
  <2>5. Boot(ebp - 1)'
    <3>1. \A d \in 1..ebp : AtDepth(d)' = AtDepth(d)
      BY <2>4 DEF Kept
    <3>2. ebp' - 1 = ebp /\ 1 \in 1..ebp /\ \A d \in 2..ebp : d \in 1..ebp
      BY <1>1, <2>3
    <3> QED
      BY <2>2, <3>1, <3>2 DEF Boot
  <2>6. PlaceInv'
    BY <1>1, <2>1, <2>2, <2>3, <2>5 DEF PlaceInv, Places
  <2> QED
    BY <2>4, <2>6
<1>8. CASE Leaving
  <2>1. /\ at = "leave" /\ Pop /\ at' = (IF frames[ebp].ret = "test_backtrace" THEN "leave" ELSE "welcome")
        /\ UNCHANGED walk
    BY <1>8 DEF Leaving
  <2>2. ebp \in 2..(TestDepth + 2) /\ Boot(ebp)
    BY <2>1 DEF PlaceInv
  <2>3. StackInv' /\ ebp' = ebp - 1 /\ Kept(ebp - 1)
    BY <1>1, <2>1, <2>2, PopKeeps
  <2>4. frames[ebp].ret = AtDepth(ebp - 1)[1]
    BY <1>1, <2>2 DEF StackInv
  <2>5. CASE ebp = 2
    <3>1. at' = "welcome" /\ ebp' = 1
      BY <2>1, <2>2, <2>3, <2>4, <2>5 DEF Boot
    <3>2. PlaceInv'
      BY <3>1 DEF PlaceInv, Places
    <3> QED
      BY <2>3, <3>2
  <2>6. CASE ebp # 2
    <3>1. ebp - 1 \in 2..ebp /\ ebp' \in 2..(TestDepth + 2)
      BY <1>1, <2>2, <2>3, <2>6
    <3>2. at' = "leave"
      BY <2>1, <2>2, <2>4, <3>1 DEF Boot
    <3>3. AtDepth(1)' = AtDepth(1) /\ \A d \in 2..ebp' : d \in 2..ebp /\ AtDepth(d)' = AtDepth(d)
      BY <1>1, <2>2, <2>3, <2>6 DEF Kept
    <3>4. Boot(ebp)'
      BY <2>2, <3>3 DEF Boot
    <3>5. PlaceInv'
      BY <3>1, <3>2, <3>4 DEF PlaceInv, Places
    <3> QED
      BY <2>3, <3>5
  <2> QED
    BY <2>5, <2>6
<1>9. CASE BacktraceFrame
  <2>1. /\ at = "walk" /\ at' \in {"walk", "walked"} /\ UNCHANGED stack
        /\ walk' \in 0..Deepest
    BY <1>1, <1>2, <1>9 DEF BacktraceFrame
  <2>2. StackInv' /\ ebp' = ebp /\ Kept(ebp)
    BY <2>1, StackStays
  <2>3. (ebp = TestDepth + 3 /\ Boot(ebp - 1)) \/ (ebp = 4 /\ AtDepth(3)[1] = "runcmd")
    BY <2>1 DEF PlaceInv
  <2>4. (ebp = TestDepth + 3 /\ Boot(ebp - 1))' \/ (ebp = 4 /\ AtDepth(3)[1] = "runcmd")'
    BY <2>1, <2>2, <2>3 DEF Boot, AtDepth, stack
  <2>5. PlaceInv'
    BY <2>1, <2>4 DEF PlaceInv, Places
  <2> QED
    BY <2>2, <2>5
<1>10. CASE BacktraceReturns
  <2>1. /\ at = "walked" /\ Pop /\ UNCHANGED walk
        /\ at' = (IF frames[ebp].ret = "test_backtrace" THEN "leave" ELSE "done")
    BY <1>10 DEF BacktraceReturns
  <2>2. (ebp = TestDepth + 3 /\ Boot(ebp - 1)) \/ (ebp = 4 /\ AtDepth(3)[1] = "runcmd")
    BY <2>1 DEF PlaceInv
  <2>3. ebp > 1
    BY <1>1, <2>2
  <2>4. StackInv' /\ ebp' = ebp - 1 /\ Kept(ebp - 1)
    BY <1>1, <2>1, <2>3, PopKeeps
  <2>5. frames[ebp].ret = AtDepth(ebp - 1)[1]
    BY <1>1, <2>3 DEF StackInv
  <2>6. CASE ebp = TestDepth + 3 /\ Boot(ebp - 1)
    <3>1. CASE ebp = 3
      <4>1. ebp' = 2 /\ ebp - 1 = 2 /\ TestDepth = 0
        BY <1>1, <2>4, <2>6, <3>1
      <4>2. Boot(2)
        BY <2>6, <4>1
      <4>3. AtDepth(2) = <<"test_backtrace", 0>> /\ AtDepth(1)[1] = "i386_init"
        BY <4>1, <4>2 DEF Boot
      <4>4. AtDepth(2)' = AtDepth(2) /\ AtDepth(1)' = AtDepth(1)
        BY <2>4, <4>1 DEF Kept
      <4>5. at' = "leave"
        BY <2>1, <2>5, <4>1, <4>3
      <4>6. Boot(ebp)'
        BY <4>1, <4>3, <4>4 DEF Boot
      <4>7. PlaceInv'
        BY <4>1, <4>5, <4>6 DEF PlaceInv, Places
      <4> QED
        BY <2>4, <4>7
    <3>2. CASE ebp # 3
      <4>1. ebp - 1 \in 2..(ebp - 1) /\ ebp' = ebp - 1 /\ ebp' \in 2..(TestDepth + 2)
        BY <1>1, <2>4, <2>6, <3>2
      <4>2. AtDepth(ebp - 1)[1] = "test_backtrace"
        BY <2>6, <4>1 DEF Boot
      <4>3. AtDepth(1)' = AtDepth(1) /\ \A d \in 2..ebp' : AtDepth(d)' = AtDepth(d)
        BY <1>1, <2>4, <4>1 DEF Kept
      <4>4. Boot(ebp)'
        BY <2>6, <4>1, <4>3 DEF Boot
      <4>5. at' = "leave"
        BY <2>1, <2>5, <4>2
      <4>6. PlaceInv'
        BY <4>1, <4>4, <4>5 DEF PlaceInv, Places
      <4> QED
        BY <2>4, <4>6
    <3> QED
      BY <3>1, <3>2
  <2>7. CASE ebp = 4 /\ AtDepth(3)[1] = "runcmd"
    <3>1. at' = "done" /\ ebp' = 3 /\ AtDepth(3)' = AtDepth(3)
      BY <2>1, <2>4, <2>5, <2>7 DEF Kept
    <3>2. PlaceInv'
      BY <2>7, <3>1 DEF PlaceInv, Places
    <3> QED
      BY <2>4, <3>2
  <2> QED
    BY <2>2, <2>6, <2>7
<1>11. CASE Welcome
  <2>1. at = "welcome" /\ at' = "prompt" /\ Push("monitor", 0) /\ UNCHANGED walk
    BY <1>11 DEF Welcome, Step
  <2>2. ebp = 1 /\ ebp < Deepest
    BY <1>1, <2>1 DEF PlaceInv
  <2>3. StackInv' /\ ebp' = 2
    BY <1>1, <1>3, <2>1, <2>2, PushKeeps
  <2>4. PlaceInv'
    BY <2>1, <2>3 DEF PlaceInv, Places
  <2> QED
    BY <2>3, <2>4
<1>12. CASE CallReadline
  <2>1. at = "prompt" /\ at' = "readline" /\ UNCHANGED <<stack, walk>>
    BY <1>12 DEF CallReadline
  <2>2. StackInv' /\ ebp' = ebp
    BY <1>1, <2>1, StackStays
  <2>3. PlaceInv'
    BY <2>1, <2>2 DEF PlaceInv, Places
  <2> QED
    BY <2>2, <2>3
<1>13. CASE RunCmd
  <2>1. at = "readline" /\ at' = "gobble" /\ Push("runcmd", 0) /\ UNCHANGED walk
    BY <1>13 DEF RunCmd
  <2>2. ebp = 2 /\ ebp < Deepest
    BY <1>1, <2>1 DEF PlaceInv
  <2>3. StackInv' /\ ebp' = 3 /\ calls'[1] = <<"runcmd", 0>>
    BY <1>1, <1>3, <2>1, <2>2, PushKeeps
  <2>4. AtDepth(3)'[1] = "runcmd"
    BY <2>3 DEF AtDepth
  <2>5. PlaceInv'
    BY <2>1, <2>3, <2>4 DEF PlaceInv, Places
  <2> QED
    BY <2>3, <2>5
<1>14. ASSUME at \in {"gobble", "scan", "lookup"}, at' \in {"gobble", "scan", "lookup", "done"},
              UNCHANGED <<stack, walk>>
       PROVE  StackInv' /\ PlaceInv'
  <2>1. StackInv' /\ ebp' = ebp /\ AtDepth(3)' = AtDepth(3)
    BY <1>1, <1>14, StackStays DEF AtDepth, stack
  <2>2. PlaceInv'
    BY <1>14, <2>1 DEF PlaceInv, Places
  <2> QED
    BY <2>1, <2>2
<1>15. CASE Gobble
  <2>1. at = "gobble" /\ UNCHANGED <<stack, walk>>
    BY <1>15 DEF Gobble
  <2>2. at' \in {"gobble", "lookup", "done", "scan"}
    BY <1>15 DEF Gobble
  <2> QED
    BY <1>14, <2>1, <2>2
<1>16. CASE Scan
  <2>1. at = "scan" /\ at' \in {"gobble", "scan"} /\ UNCHANGED <<stack, walk>>
    BY <1>16 DEF Scan
  <2> QED
    BY <1>14, <2>1
<1>17. CASE Lookup
  <2>1. at = "lookup" /\ ebp = 3 /\ AtDepth(3)[1] = "runcmd"
    BY <1>17 DEF Lookup, PlaceInv
  <2>2. CASE at' = "done" /\ UNCHANGED <<stack, walk>>
    BY <1>14, <2>1, <2>2
  <2>3. CASE at' = "walk" /\ Push("mon_backtrace", argc) /\ walk' = ebp'
    <3>1. ebp < Deepest /\ ebp' = ebp + 1 /\ ebp' \in 0..Deepest
      BY <1>1, <2>1, <2>3 DEF Push
    <3>2. StackInv' /\ Kept(ebp)
      BY <1>3, <2>3, <3>1, PushKeeps
    <3>3. AtDepth(3)' = AtDepth(3) /\ ebp' = 4
      BY <2>1, <3>1, <3>2 DEF Kept
    <3>4. PlaceInv'
      BY <2>1, <2>3, <3>3 DEF PlaceInv, Places
    <3> QED
      BY <3>2, <3>4
  <2> QED
    BY <1>17, <2>2, <2>3 DEF Lookup
<1>18. CASE RunCmdReturns
  <2>1. at = "done" /\ at' = "prompt" /\ Pop /\ UNCHANGED walk
    BY <1>18 DEF RunCmdReturns, Step
  <2>2. ebp = 3
    BY <2>1 DEF PlaceInv
  <2>3. StackInv' /\ ebp' = 2
    BY <1>1, <2>1, <2>2, PopKeeps
  <2>4. PlaceInv'
    BY <2>1, <2>3 DEF PlaceInv, Places
  <2> QED
    BY <2>3, <2>4
<1>19. CASE Output \/ Reading \/ UNCHANGED vars
  BY <1>1, <1>4, <1>19 DEF Output, Reading, vars
<1> QED
  BY <1>5, <1>6, <1>7, <1>8, <1>9, <1>10, <1>11, <1>12, <1>13, <1>15, <1>16, <1>17, <1>18, <1>19
     DEF Next, Kernel

-----------------------------------------------------------------------------
(* Statements are only written down when there are none left, and then those
   of whole lines. *)
LEMMA ColourStep ==
  ColourInv /\ StackInv /\ PlaceInv /\ ReadInv /\ argc \in Nat /\ [Next]_vars => ColourInv'
<1> SUFFICES ASSUME ColourInv, StackInv, PlaceInv, ReadInv, argc \in Nat, [Next]_vars PROVE ColourInv'
  OBVIOUS
<1>1. /\ Coloured(colours, todo) /\ printed \in Seq(Printed)
      /\ \A k \in 1..Len(printed) : printed[k].attr = AttrOf(printed[k].text)
  BY DEF ColourInv, InOwnColours
<1>2. todo = << >> => colours = Hue(0, 0)
  BY <1>1, ColouredEmpty
<1>3. ASSUME UNCHANGED <<colours, todo, printed>> PROVE ColourInv'
  BY <1>3 DEF ColourInv, InOwnColours
<1>4. ASSUME todo = << >>, UNCHANGED <<colours, printed>>, Coloured(Hue(0, 0), todo') PROVE ColourInv'
  BY <1>1, <1>2, <1>4 DEF ColourInv, InOwnColours
<1>5. ASSUME NEW d \in 0..Deepest PROVE frames[d].ret \in Functions /\ frames[d].arg \in Nat
  BY DEF StackInv, Frames
<1>6. ebp \in 0..Deepest /\ walk \in 0..Deepest
  BY DEF StackInv, Deepest
<1>7. CASE Output
  <2> DEFINE st == Head(todo)
             attr == Attribute(colours.bg, colours.fg, Glyph)
             new == [text |-> st.text, arg |-> st.arg, attr |-> attr]
  <2>1. todo # << >> /\ todo' = Tail(todo)
    BY <1>7 DEF Output
  <2>2. /\ Coloured(After(colours, st), todo')
        /\ st = todo[1] /\ st \in Statements
        /\ st.op = "print" => colours = Own(st.text) /\ After(colours, st) = colours
        /\ st.op = "colour" => After(colours, st) = Painted(colours, st)
    BY <1>1, <2>1, ColouredTail DEF After
  <2>3. CASE st.op = "colour"
    <3>1. colours' = Painted(colours, st) /\ UNCHANGED printed
      BY <1>7, <2>3 DEF Output
    <3> QED
      BY <1>1, <2>2, <2>3, <3>1 DEF ColourInv, InOwnColours
  <2>4. CASE st.op = "print"
    <3>1. UNCHANGED colours /\ printed' = Append(printed, new)
      BY <1>7, <2>4 DEF Output
    <3>2. Coloured(colours', todo')
      BY <2>2, <2>4, <3>1
    <3>3. attr = AttrOf(st.text) /\ attr \in 0..255
      BY <2>2, <2>4, OwnAttr
    <3>4. st.text \in Texts /\ st.arg \in Nat
      BY <2>2, <2>4 DEF Statements
    <3>5. new \in Printed /\ new.attr = AttrOf(new.text)
      <4> HIDE DEF st, attr
      <4> QED
        BY <3>3, <3>4 DEF Printed
    <3> HIDE DEF new
    <3>6. /\ printed' \in Seq(Printed) /\ Len(printed') = Len(printed) + 1
          /\ printed'[Len(printed) + 1] = new
          /\ \A k \in 1..Len(printed) : printed'[k] = printed[k]
      BY <1>1, <3>1, <3>5
    <3>7. \A k \in 1..Len(printed') : printed'[k].attr = AttrOf(printed'[k].text)
      <4>1. ASSUME NEW k \in 1..Len(printed') PROVE printed'[k].attr = AttrOf(printed'[k].text)
        <5>1. CASE k = Len(printed) + 1
          BY <3>5, <3>6, <5>1
        <5>2. CASE k # Len(printed) + 1
          <6>1. k \in 1..Len(printed)
            BY <1>1, <3>6, <5>2
          <6> QED
            BY <1>1, <3>6, <6>1
        <5> QED
          BY <5>1, <5>2
      <4> QED
        BY <4>1
    <3> QED
      BY <3>2, <3>6, <3>7 DEF ColourInv, InOwnColours
  <2> QED
    BY <2>2, <2>3, <2>4 DEF Statements
<1>8. CASE FirstLine
  BY <1>4, <1>8, Plain DEF FirstLine, Step, Messages, readlineVars
<1>9. CASE Entering
  <2>1. Arg \in Nat
    <3>1. at = "test" /\ ebp \in 1..(TestDepth + 1) /\ Boot(ebp) /\ TestDepth \in Nat
      BY <1>9, DepthAssumption DEF Entering, Step, PlaceInv
    <3>2. CASE ebp = 1
      BY <3>1, <3>2 DEF Arg
    <3>3. CASE ebp # 1
      <4>1. ebp \in 2..ebp /\ ebp \in 1..ebp /\ ebp <= TestDepth + 1
        BY <3>1, <3>3
      <4>2. frames[ebp].arg = AtDepth(ebp)[2] /\ AtDepth(ebp) = <<"test_backtrace", TestDepth + 2 - ebp>>
        BY <3>1, <4>1 DEF StackInv, Boot
      <4>3. frames[ebp].arg = TestDepth + 2 - ebp
        BY <4>2
      <4> QED
        BY <3>1, <3>3, <4>1, <4>3 DEF Arg
    <3> QED
      BY <3>2, <3>3
  <2> QED
    BY <1>4, <1>9, <2>1, Outputs DEF Entering, Step, readlineVars
<1>10. CASE CallBacktrace
  BY <1>4, <1>10, Plain DEF CallBacktrace, Step, readlineVars, Messages
<1>11. CASE Leaving
  <2>1. todo = << >> /\ UNCHANGED <<colours, printed>>
        /\ todo' = InColours(GRAY, RED, "leaving", frames[ebp].arg)
    BY <1>11 DEF Leaving, readlineVars
  <2>2. frames[ebp].arg \in Nat
    BY <1>5, <1>6
  <2> QED
    BY <1>4, <2>1, <2>2, Outputs
<1>12. CASE BacktraceFrame
  <2>1. todo = << >> /\ UNCHANGED <<colours, printed>>
    BY <1>12 DEF BacktraceFrame, readlineVars
  <2>2. CASE UNCHANGED todo
    BY <1>3, <2>1, <2>2
  <2>3. CASE todo' = ShowFrame \o ShowCaller
    <3>1. frames[walk].ret \in Functions /\ frames[walk].arg \in Nat
      BY <1>5, <1>6
    <3>2. Coloured(Hue(0, 0), ShowFrame) /\ Coloured(Hue(0, 0), ShowCaller)
      BY <3>1, Outputs DEF ShowFrame, ShowCaller
    <3> QED
      BY <1>4, <2>1, <2>3, <3>2, ColouredConcat
  <2> QED
    BY <1>12, <2>2, <2>3 DEF BacktraceFrame
<1>13. CASE BacktraceReturns \/ RunCmd \/ Scan \/ RunCmdReturns \/ Reading \/ UNCHANGED vars
  <2>1. Reading => UNCHANGED <<colours, todo, printed>>
    BY DEF Reading, PrintPrompt, Rubout, Store, Finish, Echo, Erase
  <2> QED
    BY <1>3, <1>13, <2>1 DEF BacktraceReturns, RunCmd, Scan, RunCmdReturns, Step, readlineVars, vars
<1>14. CASE Welcome
  BY <1>4, <1>14, Outputs DEF Welcome, Step, readlineVars
<1>15. CASE CallReadline
  <2>1. UNCHANGED <<colours, todo>> /\ printed' = << >>
    BY <1>15 DEF CallReadline, Call
  <2>2. << >> \in Seq(Printed) /\ Len(<< >>) = 0
    OBVIOUS
  <2> QED
    BY <1>1, <2>1, <2>2 DEF ColourInv, InOwnColours
<1>16. CASE Gobble
  <2>1. todo = << >> /\ UNCHANGED <<colours, printed>>
    BY <1>16 DEF Gobble
  <2>2. UNCHANGED todo \/ todo' = Say("Too many arguments", 0)
    BY <1>16 DEF Gobble
  <2> QED
    BY <1>3, <1>4, <2>1, <2>2, Plain DEF Messages
<1>17. CASE Lookup
  <2>1. todo = << >> /\ UNCHANGED <<colours, printed>>
    BY <1>17 DEF Lookup, readlineVars, ReadInv
  <2>2. \/ UNCHANGED todo \/ todo' = Say("Stack backtrace", 0) \/ todo' = mon_help
        \/ todo' = mon_kerninfo \/ todo' = Say("Unknown command", 0)
    BY <1>17 DEF Lookup
  <2>3. Coloured(Hue(0, 0), Say("Stack backtrace", 0)) /\ Coloured(Hue(0, 0), Say("Unknown command", 0))
    BY Plain DEF Messages
  <2> QED
    BY <1>3, <1>4, <2>1, <2>2, <2>3, Outputs
<1> QED
  BY <1>7, <1>8, <1>9, <1>10, <1>11, <1>12, <1>13, <1>14, <1>15, <1>16, <1>17 DEF Next, Kernel

-----------------------------------------------------------------------------
(* While a line is read nothing else happens. *)
LEMMA OnlyReading ==
  ASSUME ReadInv, Kernel
  PROVE  pc = "idle" /\ (pc' = "idle" \/ CallReadline)
<1>1. pc # "idle" => at = "readline" /\ todo = << >>
  BY DEF ReadInv
<1> QED
  BY <1>1 DEF Kernel, Output, FirstLine, Entering, CallBacktrace, Leaving, BacktraceFrame, BacktraceReturns,
              Welcome, CallReadline, Call, RunCmd, Gobble, Scan, Lookup, RunCmdReturns, Step, readlineVars

LEMMA Numbers ==
  /\ BUFLEN \in Nat /\ 0 < BUFLEN /\ MAXARGS \in Nat /\ 1 < MAXARGS
  /\ Prompt \in Seq(32..255) /\ Len(Prompt) \in Nat
  /\ CRT_SIZE \in Nat /\ CRT_COLS \in Nat /\ Len(Prompt) + BUFLEN - 1 <= CRT_SIZE - CRT_COLS
<1>1. BUFLEN \in Nat /\ 0 < BUFLEN
  BY BufAssumption
<1>2. MAXARGS \in Nat /\ 1 < MAXARGS
  BY ArgsAssumption
<1>3. Prompt \in Seq(32..255) /\ Len(Prompt) \in Nat
  BY PromptAssumption
<1> QED
  BY <1>1, <1>2, <1>3, SizeFacts, FitsAssumption

(* The screen, the line buffer and its index keep their types. *)
LEMMA ReadlineStep ==
  ASSUME ReadInv, ColourInv, p \in 0..(BUFLEN - 1), [Next]_vars
  PROVE  ReadlineTypeOK'
<1>1. /\ scr \in Screens /\ buf \in [0..(BUFLEN - 1) -> 0..255]
      /\ pc \in {"idle", "prompt", "getchar"} /\ i \in Nat
      /\ (pc = "prompt" => i \in 0..Len(Prompt)) /\ (pc # "prompt" => i \in 0..(BUFLEN - 1))
  BY Numbers DEF ReadInv, ReadlineTypeOK
<1>2. ASSUME NEW c \in 0..255, pc # "idle" PROVE Attribute(colours.bg, colours.fg, c) \in 0..255
  <2>1. colours = Hue(0, 0)
    BY <1>2, ColouredEmpty DEF ReadInv, ColourInv
  <2> QED
    BY <2>1 DEF Attribute, Hue
<1>3. ASSUME UNCHANGED <<scr, i, pc>>, buf' \in [0..(BUFLEN - 1) -> 0..255] PROVE ReadlineTypeOK'
  BY <1>3 DEF ReadInv, ReadlineTypeOK
<1>4. CASE Output
  <2> DEFINE attr == Attribute(colours.bg, colours.fg, Glyph)
  <2>1. todo # << >> /\ Coloured(colours, todo)
    BY <1>4 DEF Output, ColourInv
  <2>2. Head(todo) = todo[1] /\ (todo[1].op = "print" => colours = Own(todo[1].text))
    BY <2>1, ColouredTail
  <2>3. CASE Head(todo).op = "colour"
    BY <1>1, <1>3, <1>4, <2>3 DEF Output
  <2>4. CASE Head(todo).op # "colour"
    <3>1. todo[1] \in Statements
      BY <2>1, ColouredTail
    <3>2. attr \in 0..255
      BY <2>2, <2>4, <3>1, OwnAttr DEF Statements
    <3>3. Glyph \in -128..255 /\ NL \in -128..255
      BY ArgsAssumption DEF NL
    <3>4. scr' = CgaPutc(CgaPutc(scr, Glyph, attr), NL, attr) /\ UNCHANGED <<buf, i, pc>>
      BY <1>4, <2>4 DEF Output
    <3> HIDE DEF attr
    <3>5. scr' \in Screens
      BY <1>1, <3>2, <3>3, <3>4, CgaPutcType
    <3> QED
      BY <3>4, <3>5 DEF ReadInv, ReadlineTypeOK
  <2> QED
    BY <2>3, <2>4
<1>5. CASE Reading
  <2>1. CASE PrintPrompt
    <3>1. CASE i < Len(Prompt) /\ Echo(Prompt[i + 1]) /\ i' = i + 1 /\ UNCHANGED pc
      <4>1. pc = "prompt" /\ i + 1 \in 1..Len(Prompt) /\ i' \in 0..Len(Prompt) /\ UNCHANGED buf
        BY <1>1, <2>1, <3>1, Numbers DEF PrintPrompt
      <4>2. Prompt[i + 1] \in 32..255
        BY <4>1, Numbers, ElementOfSeq
      <4>3. Prompt[i + 1] \in 0..255 /\ Prompt[i + 1] \in -128..255
        BY <4>2
      <4>4. scr' \in Screens
        BY <1>1, <1>2, <3>1, <4>1, <4>3, CgaPutcType DEF Echo
      <4> QED
        BY <1>1, <3>1, <4>1, <4>4 DEF ReadlineTypeOK
    <3>2. CASE i = Len(Prompt) /\ pc' = "getchar" /\ i' = 0 /\ UNCHANGED <<scr, colours>>
      BY <1>1, <2>1, <3>2, Numbers DEF PrintPrompt, ReadlineTypeOK
    <3> QED
      BY <2>1, <3>1, <3>2 DEF PrintPrompt
  <2>2. ASSUME NEW c \in Inputs, Rubout(c) \/ Store(c) \/ Finish(c) PROVE ReadlineTypeOK'
    <3>1. pc = "getchar" /\ i \in 0..(BUFLEN - 1)
      BY <1>1, <2>2 DEF Rubout, Store, Finish
    <3>2. c \in 1..255
      BY InputAssumption
    <3>3. ASSUME NEW ch \in {c, BS, NL}, Echo(ch) PROVE scr' \in Screens
      <4>1. ch \in 0..255 /\ ch \in -128..255
        BY <3>2 DEF BS, NL
      <4> QED
        BY <1>1, <1>2, <3>1, <3>3, <4>1, CgaPutcType DEF Echo
    <3>4. CASE Rubout(c)
      <4>1. i' \in 0..(BUFLEN - 1) /\ UNCHANGED <<buf, pc>>
        BY <3>1, <3>4, Numbers DEF Rubout, IsRubout
      <4> QED
        BY <1>1, <3>1, <3>3, <3>4, <4>1 DEF Rubout, Erase, ReadlineTypeOK
    <3>5. CASE Store(c)
      <4>1. i' \in 0..(BUFLEN - 1) /\ UNCHANGED pc
        BY <3>1, <3>5, Numbers DEF Store, IsStored
      <4>2. buf' \in [0..(BUFLEN - 1) -> 0..255]
        BY <1>1, <3>1, <3>2, <3>5 DEF Store
      <4> QED
        BY <1>1, <3>1, <3>3, <3>5, <4>1, <4>2 DEF Store, ReadlineTypeOK
    <3>6. CASE Finish(c)
      <4>1. i' \in 0..(BUFLEN - 1) /\ pc' = "idle"
        BY <3>6, Numbers DEF Finish
      <4>2. buf' \in [0..(BUFLEN - 1) -> 0..255]
        BY <1>1, <3>1, <3>6 DEF Finish, Terminated
      <4> QED
        BY <3>3, <3>6, <4>1, <4>2 DEF Finish, ReadlineTypeOK
    <3> QED
      BY <2>2, <3>4, <3>5, <3>6
  <2> QED
    BY <1>5, <2>1, <2>2 DEF Reading
<1>6. CASE CallReadline
  <2>1. pc' = "prompt" /\ i' = 0 /\ UNCHANGED <<scr, buf>>
    BY <1>6 DEF CallReadline, Call
  <2> QED
    BY <1>1, <2>1, Numbers DEF ReadlineTypeOK
<1>7. CASE Gobble
  <2>1. UNCHANGED <<scr, i, pc>>
    BY <1>7 DEF Gobble
  <2>2. buf' \in [0..(BUFLEN - 1) -> 0..255]
    <3>1. buf' = Cut \/ UNCHANGED buf
      BY <1>7 DEF Gobble
    <3>2. Cut \in [0..(BUFLEN - 1) -> 0..255]
      BY <1>1 DEF Cut
    <3> QED
      BY <1>1, <3>1, <3>2
  <2> QED
    BY <1>3, <2>1, <2>2
<1>8. CASE UNCHANGED readlineVars
  BY <1>1, <1>3, <1>8 DEF readlineVars
<1> QED
  BY <1>4, <1>5, <1>6, <1>7, <1>8
     DEF Next, Kernel, vars, FirstLine, Entering, CallBacktrace, Leaving, BacktraceFrame, BacktraceReturns,
         Welcome, RunCmd, Scan, Lookup, RunCmdReturns, Step

(* The line has its end when readline() returns, and no NUL before it. *)
LEMMA ReadStep ==
  ReadInv /\ ColourInv /\ p \in 0..(BUFLEN - 1) /\ [Next]_vars => ReadInv'
<1> SUFFICES ASSUME ReadInv, ColourInv, p \in 0..(BUFLEN - 1), [Next]_vars PROVE ReadInv'
  OBVIOUS
<1>1. ReadlineTypeOK'
  BY ReadlineStep
<1>2. /\ buf \in [0..(BUFLEN - 1) -> 0..255] /\ (pc # "prompt" => i \in 0..(BUFLEN - 1))
      /\ pc # "idle" => at = "readline" /\ todo = << >>
  BY DEF ReadInv, ReadlineTypeOK
<1>3. CASE Kernel
  <2>1. pc = "idle" /\ (pc' = "idle" \/ CallReadline)
    BY <1>3, OnlyReading
  <2>2. CASE CallReadline
    <3>1. pc' = "prompt" /\ at' = "readline" /\ todo' = << >>
      BY <2>2 DEF CallReadline, Call
    <3> QED
      BY <1>1, <3>1 DEF ReadInv, Returned
  <2>3. CASE pc' = "idle"
    <3>1. at' \in {"readline", "scan", "lookup", "walked"} => todo' = << >> /\ (at' = "readline" => UNCHANGED <<at, buf>>)
      <4>1. CASE Output
        BY <4>1 DEF Output, ReadInv
      <4>2. CASE FirstLine \/ Entering \/ CallBacktrace \/ Leaving \/ Welcome \/ RunCmd \/ RunCmdReturns \/ BacktraceReturns
        BY <4>2 DEF FirstLine, Entering, CallBacktrace, Leaving, Welcome, RunCmd, RunCmdReturns, BacktraceReturns, Step
      <4>3. CASE BacktraceFrame
        BY <4>3 DEF BacktraceFrame
      <4>4. CASE Gobble
        BY <4>4 DEF Gobble
      <4>5. CASE Scan
        BY <4>5 DEF Scan, ReadInv
      <4>6. CASE Lookup
        BY <4>6 DEF Lookup
      <4>7. CASE CallReadline
        BY <2>3, <4>7 DEF CallReadline, Call
      <4> QED
        BY <1>3, <4>1, <4>2, <4>3, <4>4, <4>5, <4>6, <4>7 DEF Kernel
    <3> QED
      BY <1>1, <2>1, <2>3, <3>1 DEF ReadInv, Returned
  <2> QED
    BY <2>1, <2>2, <2>3
<1>4. CASE Reading
  <2>1. at = "readline" /\ UNCHANGED <<at, todo>> /\ todo = << >>
    BY <1>4 DEF Reading, ReadInv
  <2>2. CASE PrintPrompt
    <3>1. pc' \in {"prompt", "getchar"} /\ (pc' = "getchar" => i' = 0)
      BY <2>2 DEF PrintPrompt
    <3> QED
      BY <1>1, <2>1, <3>1 DEF ReadInv, Returned
  <2>3. ASSUME NEW c \in Inputs, Rubout(c) \/ Store(c) PROVE ReadInv'
    <3>1. pc = "getchar" /\ pc' = "getchar" /\ i \in 0..(BUFLEN - 1) /\ \A k \in 0..(i - 1) : buf[k] # 0
      BY <1>2, <2>3 DEF Rubout, Store, ReadInv
    <3>2. \A k \in 0..(i' - 1) : buf'[k] # 0
      <4>1. CASE Rubout(c)
        BY <3>1, <4>1 DEF Rubout
      <4>2. CASE Store(c)
        <5>1. i' = i + 1 /\ buf' = [buf EXCEPT ![i] = c] /\ c # 0
          BY <4>2, InputAssumption DEF Store
        <5>2. ASSUME NEW k \in 0..(BUFLEN - 1) PROVE buf'[k] = IF k = i THEN c ELSE buf[k]
          BY <1>2, <5>1
        <5> QED
          BY <3>1, <5>1, <5>2
      <4> QED
        BY <2>3, <4>1, <4>2
    <3> QED
      BY <1>1, <2>1, <3>1, <3>2 DEF ReadInv, Returned
  <2>4. ASSUME NEW c \in Inputs, Finish(c) PROVE ReadInv'
    <3>1. /\ pc = "getchar" /\ pc' = "idle" /\ i \in 0..(BUFLEN - 1) /\ \A k \in 0..(i - 1) : buf[k] # 0
          /\ buf' = [buf EXCEPT ![i] = 0]
      BY <1>2, <2>4 DEF Finish, ReadInv, Terminated
    <3>2. buf'[i] = 0 /\ \A k \in 0..(i - 1) : buf'[k] # 0
      BY <1>2, <3>1
    <3> QED
      BY <1>1, <2>1, <3>1, <3>2 DEF ReadInv, Returned
  <2> QED
    BY <1>4, <2>2, <2>3, <2>4 DEF Reading
<1>5. CASE UNCHANGED vars
  BY <1>1, <1>5 DEF vars, readlineVars, ReadInv, Returned
<1> QED
  BY <1>3, <1>4, <1>5 DEF Next

-----------------------------------------------------------------------------
(* The first characters of the prompt, and with it a line of n characters in b. *)
Begun(n) == SubSeq(Prompt, 1, n)
LineOf(b, n) == [k \in 1..n |-> b[k - 1]]
Text(b, n) == Prompt \o LineOf(b, n)

LEMMA PromptIsText == Prompt \in Seq(0..255) /\ Len(Prompt) \in Nat /\ \A k \in 1..Len(Prompt) : Prompt[k] \in 32..255
<1>1. Prompt \in Seq(32..255) /\ Len(Prompt) \in Nat /\ 32..255 \subseteq 0..255
  BY Numbers
<1> QED
  BY <1>1, SeqMonotonic, ElementOfSeq

LEMMA BegunParts ==
  ASSUME NEW n \in 0..Len(Prompt)
  PROVE  Begun(n) \in Seq(0..255) /\ Len(Begun(n)) = n /\ \A k \in 1..n : Begun(n)[k] = Prompt[k]
<1>1. n \in Int /\ 0 <= n /\ n <= Len(Prompt) /\ Len(Prompt) \in Nat
  BY PromptIsText
<1>2. \A k \in 1..n : Prompt[k] \in 0..255
  BY <1>1, PromptIsText
<1>3. /\ SubSeq(Prompt, 1, n) \in Seq(0..255) /\ Len(SubSeq(Prompt, 1, n)) = IF 1 <= n THEN n - 1 + 1 ELSE 0
      /\ \A k \in 1..(n - 1 + 1) : SubSeq(Prompt, 1, n)[k] = Prompt[1 + k - 1]
  BY <1>1, <1>2, SubSeqProperties
<1> QED
  BY <1>1, <1>3 DEF Begun

LEMMA TextParts ==
  ASSUME NEW b \in Buffers, NEW n \in 0..BUFLEN
  PROVE  /\ Text(b, n) \in Seq(0..255) /\ Len(Text(b, n)) = Len(Prompt) + n
         /\ \A k \in 1..(Len(Prompt) + n) :
              Text(b, n)[k] = IF k <= Len(Prompt) THEN Prompt[k] ELSE b[k - Len(Prompt) - 1]
<1> DEFINE ln == LineOf(b, n)
<1>1. \A k \in 1..n : b[k - 1] \in 0..255
  BY Numbers DEF Buffers
<1>2. ln \in Seq(0..255) /\ Len(ln) = n /\ \A k \in 1..n : ln[k] = b[k - 1]
  BY <1>1, Numbers DEF LineOf
<1> HIDE DEF ln
<1> DEFINE tx == Prompt \o ln
<1>3. /\ tx \in Seq(0..255) /\ Len(tx) = Len(Prompt) + Len(ln)
      /\ \A k \in 1..(Len(Prompt) + Len(ln)) : tx[k] = IF k <= Len(Prompt) THEN Prompt[k] ELSE ln[k - Len(Prompt)]
  <2>1. Prompt \in Seq(0..255)
    BY PromptIsText
  <2> QED
    BY <1>2, <2>1, ConcatProperties, ZenonT(60)
<1> HIDE DEF tx
<1>4. ASSUME NEW k \in 1..(Len(Prompt) + n)
      PROVE  tx[k] = IF k <= Len(Prompt) THEN Prompt[k] ELSE b[k - Len(Prompt) - 1]
  <2>1. k > Len(Prompt) => k - Len(Prompt) \in 1..n
    BY PromptIsText, Numbers
  <2> QED
    BY <1>2, <1>3, <2>1
<1>5. Text(b, n) = tx
  BY DEF Text, tx, ln
<1> QED
  BY <1>2, <1>3, <1>4, <1>5

(* One character more of the prompt, one more of the line, and one less. *)
LEMMA PromptGrows ==
  ASSUME NEW sc \in Screens, NEW n \in 0..(Len(Prompt) - 1), ShownAt(sc, Begun(n), Default)
  PROVE  ShownAt(CgaPutc(sc, Prompt[n + 1], Default), Begun(n + 1), Default)
<1> DEFINE ch == Prompt[n + 1]
<1>1. n \in 0..Len(Prompt) /\ n + 1 \in 0..Len(Prompt) /\ n + 1 \in 1..Len(Prompt) /\ n \in Nat
  BY PromptIsText
<1>2. ch \in 32..255 /\ ch \in 0..255
  BY <1>1, PromptIsText
<1>3. Default \in 0..255 /\ n + 1 <= CRT_SIZE - CRT_COLS
  BY <1>1, Numbers DEF Default
<1>4. /\ Begun(n) \in Seq(0..255) /\ Len(Begun(n)) = n /\ \A k \in 1..n : Begun(n)[k] = Prompt[k]
      /\ Begun(n + 1) \in Seq(0..255) /\ Len(Begun(n + 1)) = n + 1
      /\ \A k \in 1..(n + 1) : Begun(n + 1)[k] = Prompt[k]
  BY <1>1, BegunParts
<1> HIDE DEF ch
<1>5. ShownAt(CgaPutc(sc, ch, Default), Append(Begun(n), ch), Default)
  BY <1>2, <1>3, <1>4, PutShown
<1>6. Append(Begun(n), ch) = Begun(n + 1)
  <2> DEFINE s == Append(Begun(n), ch)
  <2>1. /\ s \in Seq(0..255) /\ Len(s) = n + 1 /\ s[n + 1] = ch
        /\ \A k \in 1..n : s[k] = Begun(n)[k]
    BY <1>2, <1>4
  <2> HIDE DEF s
  <2>2. \A k \in 1..Len(s) : s[k] = Begun(n + 1)[k]
    BY <1>1, <1>4, <2>1 DEF ch
  <2>3. s = Begun(n + 1)
    BY <1>4, <2>1, <2>2, SeqEqual
  <2> QED
    BY <2>3 DEF s
<1> QED
  BY <1>5, <1>6 DEF ch

LEMMA TextGrows ==
  ASSUME NEW sc \in Screens, NEW b \in Buffers, NEW n \in 0..(BUFLEN - 2), NEW ch \in 32..255,
         ShownAt(sc, Text(b, n), Default)
  PROVE  ShownAt(CgaPutc(sc, ch, Default), Text([b EXCEPT ![n] = ch], n + 1), Default)
<1> DEFINE d == [b EXCEPT ![n] = ch]
           s == Append(Text(b, n), ch)
<1>1. n \in 0..BUFLEN /\ n + 1 \in 0..BUFLEN /\ n \in 0..(BUFLEN - 1) /\ n \in Nat /\ Len(Prompt) \in Nat
  BY Numbers
<1>2. ch \in 0..255 /\ Default \in 0..255 /\ Len(Prompt) + n + 1 <= CRT_SIZE - CRT_COLS
  BY Numbers DEF Default
<1>3. d \in Buffers /\ d[n] = ch /\ \A k \in 0..(n - 1) : d[k] = b[k]
  <2>1. b \in [0..(BUFLEN - 1) -> 0..255]
    BY DEF Buffers
  <2>2. d \in [0..(BUFLEN - 1) -> 0..255] /\ \A k \in 0..(BUFLEN - 1) : d[k] = IF k = n THEN ch ELSE b[k]
    BY <1>1, <1>2, <2>1
  <2>3. \A k \in 0..(n - 1) : k \in 0..(BUFLEN - 1) /\ k # n
    BY <1>1, Numbers
  <2> HIDE DEF d
  <2> QED
    BY <1>1, <2>2, <2>3 DEF Buffers
<1> HIDE DEF d
<1>4. /\ Text(b, n) \in Seq(0..255) /\ Len(Text(b, n)) = Len(Prompt) + n
      /\ \A k \in 1..(Len(Prompt) + n) :
           Text(b, n)[k] = IF k <= Len(Prompt) THEN Prompt[k] ELSE b[k - Len(Prompt) - 1]
  BY <1>1, TextParts
<1>5. /\ Text(d, n + 1) \in Seq(0..255) /\ Len(Text(d, n + 1)) = Len(Prompt) + (n + 1)
      /\ \A k \in 1..(Len(Prompt) + (n + 1)) :
           Text(d, n + 1)[k] = IF k <= Len(Prompt) THEN Prompt[k] ELSE d[k - Len(Prompt) - 1]
  BY <1>1, <1>3, TextParts
<1>6. ShownAt(CgaPutc(sc, ch, Default), s, Default)
  BY <1>2, <1>4, PutShown
<1>7. /\ s \in Seq(0..255) /\ Len(s) = Len(Prompt) + n + 1 /\ s[Len(Prompt) + n + 1] = ch
      /\ \A k \in 1..(Len(Prompt) + n) : s[k] = Text(b, n)[k]
  BY <1>1, <1>2, <1>4
<1> HIDE DEF s
<1>8. ASSUME NEW k \in 1..Len(s) PROVE s[k] = Text(d, n + 1)[k]
  <2>1. CASE k = Len(Prompt) + n + 1
    <3>1. k \in 1..(Len(Prompt) + (n + 1)) /\ ~(k <= Len(Prompt)) /\ k - Len(Prompt) - 1 = n
      BY <1>1, <2>1
    <3> QED
      BY <1>3, <1>5, <1>7, <2>1, <3>1
  <2>2. CASE k # Len(Prompt) + n + 1
    <3>1. /\ k \in 1..(Len(Prompt) + n) /\ k \in 1..(Len(Prompt) + (n + 1))
          /\ (~(k <= Len(Prompt)) => k - Len(Prompt) - 1 \in 0..(n - 1))
      BY <1>1, <1>7, <2>2
    <3> QED
      BY <1>3, <1>4, <1>5, <1>7, <3>1
  <2> QED
    BY <2>1, <2>2
<1>9. s = Text(d, n + 1)
  <2>1. Len(s) = Len(Text(d, n + 1))
    BY <1>1, <1>5, <1>7
  <2> QED
    BY <1>5, <1>7, <1>8, <2>1, SeqEqual
<1> QED
  BY <1>6, <1>9 DEF d

LEMMA TextShrinks ==
  ASSUME NEW sc \in Screens, NEW b \in Buffers, NEW n \in 1..(BUFLEN - 1), ShownAt(sc, Text(b, n), Default)
  PROVE  ShownAt(CgaPutc(sc, BS, Default), Text(b, n - 1), Default)
<1> DEFINE ch == b[n - 1]
           s == Append(Text(b, n - 1), ch)
<1>1. n \in 0..BUFLEN /\ n - 1 \in 0..BUFLEN /\ n - 1 \in 0..(BUFLEN - 1) /\ n \in Nat /\ Len(Prompt) \in Nat
  BY Numbers
<1>2. ch \in 0..255 /\ Default \in 0..255
  <2>1. b \in [0..(BUFLEN - 1) -> 0..255]
    BY DEF Buffers
  <2>2. b[n - 1] \in 0..255
    BY <1>1, <2>1
  <2> QED
    BY <2>2 DEF Default
<1> HIDE DEF ch
<1>3. /\ Text(b, n) \in Seq(0..255) /\ Len(Text(b, n)) = Len(Prompt) + n
      /\ \A k \in 1..(Len(Prompt) + n) :
           Text(b, n)[k] = IF k <= Len(Prompt) THEN Prompt[k] ELSE b[k - Len(Prompt) - 1]
  BY <1>1, TextParts
<1>4. /\ Text(b, n - 1) \in Seq(0..255) /\ Len(Text(b, n - 1)) = Len(Prompt) + (n - 1)
      /\ \A k \in 1..(Len(Prompt) + (n - 1)) :
           Text(b, n - 1)[k] = IF k <= Len(Prompt) THEN Prompt[k] ELSE b[k - Len(Prompt) - 1]
  BY <1>1, TextParts
<1>5. /\ s \in Seq(0..255) /\ Len(s) = Len(Prompt) + n /\ s[Len(Prompt) + n] = ch
      /\ \A k \in 1..(Len(Prompt) + (n - 1)) : s[k] = Text(b, n - 1)[k]
  BY <1>1, <1>2, <1>4
<1> HIDE DEF s
<1>6. ASSUME NEW k \in 1..Len(s) PROVE s[k] = Text(b, n)[k]
  <2>1. CASE k = Len(Prompt) + n
    <3>1. k \in 1..(Len(Prompt) + n) /\ ~(k <= Len(Prompt)) /\ k - Len(Prompt) - 1 = n - 1
      BY <1>1, <2>1
    <3> QED
      BY <1>3, <1>5, <2>1, <3>1 DEF ch
  <2>2. CASE k # Len(Prompt) + n
    <3>2. k \in 1..(Len(Prompt) + n)
      BY <1>5
    <3>1. k \in 1..(Len(Prompt) + (n - 1)) /\ k \in 1..(Len(Prompt) + n)
      BY <1>1, <2>2, <3>2
    <3> QED
      BY <1>3, <1>4, <1>5, <3>1
  <2> QED
    BY <2>1, <2>2
<1>7. s = Text(b, n)
  BY <1>3, <1>5, <1>6, SeqEqual
<1>8. ShownAt(sc, Append(Text(b, n - 1), ch), Default)
  BY <1>7 DEF s
<1> QED
  BY <1>2, <1>4, <1>8, RuboutShown

(* Every character that is read or rubbed out is on the screen or gone from it
   before the next one is read. *)
LEMMA DisplayStep == LineOnScreen /\ ReadInv /\ ColourInv /\ [Next]_vars => LineOnScreen'
<1> SUFFICES ASSUME LineOnScreen, ReadInv, ColourInv, [Next]_vars PROVE LineOnScreen'
  OBVIOUS
<1>1. /\ scr \in Screens /\ buf \in [0..(BUFLEN - 1) -> 0..255] /\ i \in Nat
      /\ (pc = "prompt" => i \in 0..Len(Prompt)) /\ (pc = "getchar" => i \in 0..(BUFLEN - 1))
  BY Numbers DEF ReadInv, ReadlineTypeOK
<1>2. pc # "idle" => \A ch \in Nat : Attribute(colours.bg, colours.fg, ch) = Default
  <2>1. pc # "idle" => colours = Hue(0, 0)
    BY ColouredEmpty DEF ReadInv, ColourInv
  <2> QED
    BY <2>1 DEF Attribute, Hue, Default
<1>3. Default \in 0..255
  BY DEF Default
<1>4. CASE Kernel
  <2>1. pc' = "idle" \/ CallReadline
    BY <1>4, OnlyReading
  <2>2. CASE CallReadline
    <3>1. pc' = "prompt" /\ i' = 0 /\ scr' = scr
      BY <2>2 DEF CallReadline, Call
    <3>2. Len(SubSeq(Prompt, 1, 0)) = 0 /\ 0 <= scr.pos
      BY <1>1, Numbers DEF Screens, Positions
    <3> QED
      BY <3>1, <3>2 DEF LineOnScreen, Shows
  <2> QED
    BY <2>1, <2>2 DEF LineOnScreen
<1>5. CASE PrintPrompt
  <2>1. pc = "prompt" /\ ShownAt(scr, Begun(i), Default) /\ i \in 0..Len(Prompt) /\ UNCHANGED buf
    BY <1>1, <1>5 DEF PrintPrompt, LineOnScreen, Shows, ShownAt, Begun
  <2>2. CASE i < Len(Prompt) /\ Echo(Prompt[i + 1]) /\ i' = i + 1 /\ UNCHANGED pc
    <3>1. i \in 0..(Len(Prompt) - 1) /\ i + 1 \in 1..Len(Prompt)
      BY <2>1, <2>2, PromptIsText
    <3>2. Prompt[i + 1] \in Nat
      <4>1. Prompt[i + 1] \in 32..255
        BY <3>1, PromptIsText
      <4> QED
        BY <4>1
    <3>3. scr' = CgaPutc(scr, Prompt[i + 1], Default)
      BY <1>2, <2>1, <2>2, <3>2 DEF Echo
    <3>4. ShownAt(scr', Begun(i'), Default)
      BY <1>1, <2>1, <2>2, <3>1, <3>3, PromptGrows
    <3> QED
      BY <2>1, <2>2, <3>4 DEF LineOnScreen, Shows, ShownAt, Begun
  <2>3. CASE i = Len(Prompt) /\ pc' = "getchar" /\ i' = 0 /\ UNCHANGED <<scr, colours>>
    <3>1. /\ Len(Begun(i)) = Len(Prompt) /\ \A k \in 1..Len(Prompt) : Begun(i)[k] = Prompt[k]
      BY <2>1, <2>3, BegunParts
    <3>2. /\ Len(Text(buf, 0)) = Len(Prompt) /\ \A k \in 1..Len(Prompt) : Text(buf, 0)[k] = Prompt[k]
      <4>1. buf \in Buffers /\ 0 \in 0..BUFLEN /\ Len(Prompt) + 0 = Len(Prompt)
        BY <1>1, Numbers DEF Buffers
      <4> QED
        BY <4>1, TextParts
    <3>3. ShownAt(scr, Text(buf, 0), Default)
      BY <2>1, <3>1, <3>2 DEF ShownAt
    <3>4. ShownAt(scr', Text(buf', i'), Default)
      BY <2>1, <2>3, <3>3
    <3> QED
      BY <2>3, <3>4 DEF LineOnScreen, Shows, ShownAt, Text, LineOf, Line
  <2> QED
    BY <1>5, <2>2, <2>3 DEF PrintPrompt
<1>6. ASSUME pc = "getchar"
      PROVE  buf \in Buffers /\ i \in 0..(BUFLEN - 1) /\ ShownAt(scr, Text(buf, i), Default)
  BY <1>1, <1>6 DEF Buffers, LineOnScreen, Shows, ShownAt, Text, LineOf, Line
<1>7. ASSUME NEW c \in Inputs, Rubout(c) PROVE LineOnScreen'
  <2>1. pc = "getchar" /\ pc' = "getchar" /\ i > 0 /\ Echo(BS) /\ i' = i - 1 /\ buf' = buf
    BY <1>7 DEF Rubout, IsRubout, Erase
  <2>2. i \in 1..(BUFLEN - 1) /\ BS \in Nat
    BY <1>6, <2>1, Numbers DEF BS
  <2>3. scr' = CgaPutc(scr, BS, Default)
    BY <1>2, <2>1, <2>2 DEF Echo
  <2>4. ShownAt(scr', Text(buf', i'), Default)
    BY <1>1, <1>6, <2>1, <2>2, <2>3, TextShrinks
  <2> QED
    BY <2>1, <2>4 DEF LineOnScreen, Shows, ShownAt, Text, LineOf, Line
<1>8. ASSUME NEW c \in Inputs, Store(c) PROVE LineOnScreen'
  <2>1. /\ pc = "getchar" /\ pc' = "getchar" /\ Echo(c) /\ i' = i + 1 /\ buf' = [buf EXCEPT ![i] = c]
        /\ c >= SPACE /\ i < BUFLEN - 1
    BY <1>8 DEF Store, IsStored
  <2>2. c \in 32..255 /\ c \in Nat /\ i \in 0..(BUFLEN - 2)
    <3>1. c \in 1..255
      BY InputAssumption
    <3> QED
      BY <1>6, <2>1, <3>1, Numbers DEF SPACE
  <2>3. scr' = CgaPutc(scr, c, Default)
    BY <1>2, <2>1, <2>2 DEF Echo
  <2>4. ShownAt(scr', Text(buf', i'), Default)
    BY <1>1, <1>6, <2>1, <2>2, <2>3, TextGrows
  <2> QED
    BY <2>1, <2>4 DEF LineOnScreen, Shows, ShownAt, Text, LineOf, Line
<1>9. ASSUME NEW c \in Inputs, Finish(c) PROVE LineOnScreen'
  BY <1>9 DEF Finish, LineOnScreen
<1>10. CASE UNCHANGED vars
  BY <1>10 DEF vars, readlineVars, LineOnScreen, Shows, Line
<1> QED
  BY <1>4, <1>5, <1>7, <1>8, <1>9, <1>10 DEF Next, Reading

-----------------------------------------------------------------------------
(* A string ends at its first NUL. *)
LEMMA StringFound ==
  ASSUME NEW n \in 0..(BUFLEN - 1), NEW e \in n..(BUFLEN - 1), buf[e] = 0, \A k \in n..(e - 1) : buf[k] # 0
  PROVE  StringAt(n) = [k \in 1..(e - n) |-> buf[n + k - 1]]
<1> DEFINE IsEnd(x) == (x = BUFLEN \/ buf[x] = 0) /\ \A m \in n..(x - 1) : buf[m] # 0
           end == CHOOSE x \in n..BUFLEN : IsEnd(x)
<1>1. e \in n..BUFLEN /\ IsEnd(e)
  BY Numbers
<1>2. end \in n..BUFLEN /\ IsEnd(end)
  BY <1>1
<1> HIDE DEF end
<1>3. end = e
  <2>1. CASE end < e
    <3>1. end \in n..(e - 1) /\ end # BUFLEN
      BY <1>2, <2>1, Numbers
    <3> QED
      BY <1>2, <3>1
  <2>2. CASE e < end
    <3>1. e \in n..(end - 1)
      BY <1>2, <2>2, Numbers
    <3> QED
      BY <1>2, <3>1
  <2> QED
    BY <1>2, <2>1, <2>2, Numbers
<1> QED
  BY <1>3 DEF StringAt, end

(* runcmd() starts with the line that readline() returned. *)
LEMMA ReturnedLine ==
  ASSUME ReadInv, Returned
  PROVE  \E e \in 0..(BUFLEN - 1) :
           /\ StringAt(0) = [k \in 1..e |-> buf[k - 1]]
           /\ buf[e] = 0 /\ \A k \in 0..(e - 1) : buf[k] # 0
<1>1. PICK e \in 0..(BUFLEN - 1) : buf[e] = 0 /\ \A k \in 0..(e - 1) : buf[k] # 0
  BY DEF ReadInv
<1>2. 0 \in 0..(BUFLEN - 1)
  BY Numbers
<1>3. StringAt(0) = [k \in 1..(e - 0) |-> buf[0 + k - 1]]
  BY <1>1, <1>2, StringFound
<1>4. e - 0 = e /\ \A k \in 1..e : 0 + k - 1 = k - 1
  BY Numbers
<1>5. StringAt(0) = [k \in 1..e |-> buf[k - 1]]
  BY <1>3, <1>4
<1> QED
  BY <1>1, <1>5

-----------------------------------------------------------------------------
(* What the character at q of a line that is cut up is. *)
LEMMA CutFacts ==
  ASSUME NEW s, NEW b, NEW q, CutUp(s, b, q)
  PROVE  /\ q \in Nat /\ Len(s) \in Nat /\ q <= Len(s) /\ q \in 0..(BUFLEN - 1)
         /\ b[q] = 0 <=> q = Len(s)
         /\ q < Len(s) => b[q] = s[q + 1]
         /\ b[q] \in WHITESPACE => q < Len(s)
<1>1. /\ s \in Seq(1..255) /\ Len(s) \in Nat /\ q \in Nat /\ q <= Len(s) /\ Len(s) < BUFLEN /\ BUFLEN \in Nat
      /\ b[Len(s)] = 0 /\ \A k \in q..(Len(s) - 1) : b[k] = s[k + 1]
  BY Numbers DEF CutUp
<1>2. CASE q < Len(s)
  <2>1. q \in q..(Len(s) - 1) /\ q + 1 \in 1..Len(s)
    BY <1>1, <1>2
  <2>2. b[q] = s[q + 1] /\ s[q + 1] \in 1..255
    BY <1>1, <2>1, ElementOfSeq
  <2>3. b[q] # 0
    BY <2>2
  <2>4. q # Len(s) /\ q \in 0..(BUFLEN - 1)
    BY <1>1, <1>2
  <2> QED
    BY <1>1, <1>2, <2>2, <2>3, <2>4
<1>3. CASE q = Len(s)
  <2>1. b[q] = 0 /\ b[q] \notin WHITESPACE /\ q \in 0..(BUFLEN - 1)
    BY <1>1, <1>3, ArgsAssumption
  <2> QED
    BY <1>1, <1>3, <2>1
<1> QED
  BY <1>1, <1>2, <1>3

LEMMA CutWhite ==
  ASSUME NEW s, NEW b \in Buffers, NEW q, CutUp(s, b, q), b[q] \in WHITESPACE
  PROVE  CutUp(s, [b EXCEPT ![q] = 0], q + 1)
<1> DEFINE d == [b EXCEPT ![q] = 0]
<1>1. /\ q \in Nat /\ Len(s) \in Nat /\ q < Len(s) /\ Len(s) < BUFLEN /\ BUFLEN \in Nat
      /\ q \in 0..(BUFLEN - 1) /\ s[q + 1] \in WHITESPACE
  <2>1. q \in Nat /\ Len(s) \in Nat /\ q < Len(s) /\ b[q] = s[q + 1] /\ q \in 0..(BUFLEN - 1)
    BY CutFacts
  <2> QED
    BY <2>1, Numbers DEF CutUp
<1>2. \A k \in 0..(BUFLEN - 1) : d[k] = IF k = q THEN 0 ELSE b[k]
  BY <1>1 DEF Buffers
<1> HIDE DEF d
<1>3. d[Len(s)] = 0
  <2>1. Len(s) \in 0..(BUFLEN - 1) /\ Len(s) # q
    BY <1>1
  <2> QED
    BY <1>2, <2>1 DEF CutUp
<1>4. ASSUME NEW k \in 0..((q + 1) - 1) PROVE d[k] = IF s[k + 1] \in WHITESPACE THEN 0 ELSE s[k + 1]
  <2>1. k \in 0..(BUFLEN - 1) /\ (k # q => k \in 0..(q - 1))
    BY <1>1
  <2> QED
    BY <1>1, <1>2, <2>1 DEF CutUp
<1>5. ASSUME NEW k \in (q + 1)..(Len(s) - 1) PROVE d[k] = s[k + 1]
  <2>1. k \in 0..(BUFLEN - 1) /\ k # q /\ k \in q..(Len(s) - 1)
    BY <1>1
  <2> QED
    BY <1>2, <2>1 DEF CutUp
<1>6. q + 1 \in 0..Len(s)
  BY <1>1
<1> QED
  BY <1>3, <1>4, <1>5, <1>6 DEF CutUp, d

LEMMA CutBlack ==
  ASSUME NEW s, NEW b, NEW q, CutUp(s, b, q), b[q] # 0, b[q] \notin WHITESPACE
  PROVE  CutUp(s, b, q + 1) /\ s[q + 1] \notin WHITESPACE
<1>1. q \in Nat /\ Len(s) \in Nat /\ q < Len(s) /\ b[q] = s[q + 1]
  BY CutFacts
<1>2. ASSUME NEW k \in 0..((q + 1) - 1) PROVE b[k] = IF s[k + 1] \in WHITESPACE THEN 0 ELSE s[k + 1]
  <2>1. k # q => k \in 0..(q - 1)
    BY <1>1
  <2> QED
    BY <1>1, <2>1 DEF CutUp
<1>3. ASSUME NEW k \in (q + 1)..(Len(s) - 1) PROVE b[k] = s[k + 1]
  <2>1. k \in q..(Len(s) - 1)
    BY <1>1
  <2> QED
    BY <2>1 DEF CutUp
<1>4. q + 1 \in 0..Len(s)
  BY <1>1
<1> QED
  BY <1>1, <1>2, <1>3, <1>4 DEF CutUp

(* White space: no word starts there. *)
LEMMA FoundWhite ==
  ASSUME NEW s, NEW av, NEW n \in Nat, NEW q \in Nat, Found(s, av, n, q), s[q + 1] \in WHITESPACE
  PROVE  Found(s, av, n, q + 1) /\ Between(s, q + 1)
<1>1. ASSUME NEW k \in 0..(n - 1)
      PROVE  /\ av[k] \in 0..((q + 1) - 1) /\ \E e \in (av[k] + 1)..(q + 1) : IsWord(s, av[k] + 1, e)
             /\ k > 0 => av[k - 1] < av[k]
  <2>1. av[k] \in 0..(q - 1) /\ (k > 0 => av[k - 1] < av[k])
    BY DEF Found
  <2>2. PICK e \in (av[k] + 1)..q : IsWord(s, av[k] + 1, e)
    BY DEF Found
  <2>3. e \in (av[k] + 1)..(q + 1)
    BY <2>1, <2>2
  <2> QED
    BY <2>1, <2>2, <2>3
<1>2. ASSUME NEW m \in 1..(q + 1), Starts(s, m) PROVE \E k \in 0..(n - 1) : av[k] + 1 = m
  <2>1. m # q + 1
    BY <1>2 DEF Starts
  <2>2. m \in 1..q
    BY <2>1
  <2> QED
    BY <1>2, <2>2 DEF Found
<1> QED
  BY <1>1, <1>2 DEF Found, Between

(* The start of a word, and its end. *)
LEMMA FoundStart ==
  ASSUME NEW s, NEW av, NEW n \in Nat, NEW q \in Nat, Found(s, av, n, q), Between(s, q),
         q < Len(s), s[q + 1] \notin WHITESPACE, Len(s) \in Nat,
         NEW bv, bv[n] = q, \A k \in 0..(n - 1) : bv[k] = av[k]
  PROVE  Inside(s, bv, n + 1, q)
<1>1. (n + 1) - 1 = n /\ n + 1 > 0 /\ bv[n] \in 0..q /\ bv[n] < Len(s)
  OBVIOUS
<1>2. Found(s, bv, n, bv[n])
  <2>1. \A k \in 0..(n - 1) : k > 0 => k - 1 \in 0..(n - 1)
    OBVIOUS
  <2> QED
    BY <2>1 DEF Found
<1>3. Starts(s, bv[n] + 1)
  <2>1. q # Len(s) /\ (q # 0 => q + 1 # 1) /\ (q + 1) - 1 = q
    OBVIOUS
  <2> QED
    BY <2>1 DEF Starts, Between
<1>4. \A m \in (bv[n] + 1)..q : s[m] \notin WHITESPACE
  OBVIOUS
<1> QED
  BY <1>1, <1>2, <1>3, <1>4 DEF Inside

LEMMA InsideOn ==
  ASSUME NEW s, NEW av, NEW n \in Nat, NEW q \in Nat, Inside(s, av, n, q), s[q + 1] \notin WHITESPACE
  PROVE  Inside(s, av, n, q + 1)
<1>1. /\ n > 0 /\ av[n - 1] \in 0..(q + 1) /\ av[n - 1] < Len(s) /\ av[n - 1] \in Nat
      /\ Found(s, av, n - 1, av[n - 1]) /\ Starts(s, av[n - 1] + 1)
  BY DEF Inside
<1>2. ASSUME NEW m \in (av[n - 1] + 1)..(q + 1) PROVE s[m] \notin WHITESPACE
  <2>1. m = q + 1 \/ m \in (av[n - 1] + 1)..q
    BY <1>1
  <2> QED
    BY <2>1 DEF Inside
<1> QED
  BY <1>1, <1>2 DEF Inside

LEMMA InsideEnd ==
  ASSUME NEW s, NEW av, NEW n \in Nat, NEW q \in Nat, Inside(s, av, n, q), Len(s) \in Nat, q <= Len(s),
         q = Len(s) \/ s[q + 1] \in WHITESPACE
  PROVE  Found(s, av, n, q) /\ Between(s, q)
<1> DEFINE a == av[n - 1]
<1>1. /\ n > 0 /\ a \in Nat /\ a <= q /\ a < Len(s) /\ Found(s, av, n - 1, a) /\ Starts(s, a + 1)
      /\ \A m \in (a + 1)..q : s[m] \notin WHITESPACE
  BY DEF Inside
<1>2. a < q
  BY <1>1 DEF Starts
<1>3. IsWord(s, a + 1, q)
  <2>1. (a + 1 = 1 \/ s[(a + 1) - 1] \in WHITESPACE) /\ a + 1 <= q
    BY <1>1, <1>2 DEF Starts
  <2> QED
    BY <1>1, <2>1 DEF IsWord
<1>4. ASSUME NEW k \in 0..(n - 1)
      PROVE  /\ av[k] \in 0..(q - 1) /\ \E e \in (av[k] + 1)..q : IsWord(s, av[k] + 1, e)
             /\ k > 0 => av[k - 1] < av[k]
  <2>1. CASE k = n - 1
    <3>1. av[k] = a /\ a \in 0..(q - 1) /\ q \in (a + 1)..q
      BY <1>1, <1>2, <2>1
    <3>2. k > 0 => av[k - 1] < a
      <4>1. k > 0 => k - 1 \in 0..((n - 1) - 1)
        BY <2>1
      <4>2. \A j \in 0..((n - 1) - 1) : av[j] \in 0..(a - 1)
        BY <1>1 DEF Found
      <4> QED
        BY <1>1, <4>1, <4>2
    <3> QED
      BY <1>3, <3>1, <3>2
  <2>2. CASE k # n - 1
    <3>1. k \in 0..((n - 1) - 1)
      BY <2>2
    <3>2. av[k] \in 0..(a - 1) /\ (k > 0 => av[k - 1] < av[k])
      BY <1>1, <3>1 DEF Found
    <3>3. PICK e \in (av[k] + 1)..a : IsWord(s, av[k] + 1, e)
      BY <1>1, <3>1 DEF Found
    <3>4. e \in (av[k] + 1)..q /\ av[k] \in 0..(q - 1)
      BY <1>1, <1>2, <3>2, <3>3
    <3> QED
      BY <3>2, <3>3, <3>4
  <2> QED
    BY <2>1, <2>2
<1>5. ASSUME NEW m \in 1..q, Starts(s, m) PROVE \E k \in 0..(n - 1) : av[k] + 1 = m
  <2>1. CASE m <= a
    <3>1. m \in 1..a
      BY <1>1, <2>1
    <3>2. PICK k \in 0..((n - 1) - 1) : av[k] + 1 = m
      BY <1>1, <1>5, <3>1 DEF Found
    <3> QED
      BY <3>2
  <2>2. CASE m = a + 1
    <3>1. n - 1 \in 0..(n - 1)
      BY <1>1
    <3> QED
      BY <2>2, <3>1
  <2>3. CASE m > a + 1
    <3>1. m # 1 /\ m - 1 \in (a + 1)..q
      BY <1>1, <2>3
    <3> QED
      BY <1>1, <1>5, <3>1 DEF Starts
  <2> QED
    BY <1>1, <2>1, <2>2, <2>3
<1> QED
  BY <1>4, <1>5 DEF Found, Between

(* Every turn of runcmd()'s loops cuts the line up further. *)
LEMMA ParseStep == ParseInv /\ ReadInv /\ [Next]_vars => ParseInv'
<1> SUFFICES ASSUME ParseInv, ReadInv, [Next]_vars PROVE ParseInv'
  OBVIOUS
<1>1. /\ p \in 0..(BUFLEN - 1) /\ argc \in 0..(MAXARGS - 1)
      /\ argv \in [0..(MAXARGS - 1) -> Pointers]
      /\ \A k \in 0..(argc - 1) : argv[k] \in 0..(BUFLEN - 1)
      /\ buf \in Buffers
  BY DEF ParseInv, ReadInv, ReadlineTypeOK, Buffers
<1>2. ASSUME UNCHANGED parser, at' \notin {"gobble", "scan", "lookup"} PROVE ParseInv'
  BY <1>1, <1>2 DEF ParseInv, parser
<1>3. ASSUME UNCHANGED <<parser, line, buf, at>> PROVE ParseInv'
  BY <1>3 DEF ParseInv, parser
<1>0. NULL \in Pointers /\ Leftovers \subseteq Pointers /\ 0..(BUFLEN - 1) \subseteq Pointers
  BY DEF Pointers
<1>4. CASE RunCmd
  <2>1. /\ Returned /\ at' = "gobble" /\ line' = StringAt(0) /\ p' = 0 /\ argc' = 0 /\ UNCHANGED buf
    BY <1>4 DEF RunCmd, Returned, readlineVars
  <2>2. argv' \in [0..(MAXARGS - 1) -> Pointers] /\ \A k \in 0..(argc' - 1) : argv'[k] \in 0..(BUFLEN - 1)
    <3>1. PICK left \in [0..(MAXARGS - 1) -> Leftovers] : argv' = [left EXCEPT ![0] = NULL]
      BY <1>4 DEF RunCmd
    <3>2. argv' \in [0..(MAXARGS - 1) -> Pointers]
      BY <1>0, <3>1
    <3>3. \A k \in 0..(argc' - 1) : FALSE
      <4>1. argc' = 0
        BY <2>1
      <4> QED
        BY <4>1
    <3> QED
      BY <3>2, <3>3
  <2>3. p' \in 0..(BUFLEN - 1) /\ argc' \in 0..(MAXARGS - 1)
    BY <2>1, Numbers
  <2>4. PICK e \in 0..(BUFLEN - 1) : /\ StringAt(0) = [k \in 1..e |-> buf[k - 1]]
                                     /\ buf[e] = 0 /\ \A k \in 0..(e - 1) : buf[k] # 0
    BY <2>1, ReturnedLine
  <2>5. \A k \in 1..e : buf[k - 1] \in 1..255
    <3>1. ASSUME NEW k \in 1..e PROVE buf[k - 1] \in 1..255
      <4>1. k - 1 \in 0..(e - 1) /\ k - 1 \in 0..(BUFLEN - 1)
        BY <2>4, Numbers
      <4>2. buf[k - 1] # 0 /\ buf[k - 1] \in 0..255
        BY <1>1, <2>4, <4>1 DEF Buffers
      <4> QED
        BY <4>2
    <3> QED
      BY <3>1
  <2>6. line' \in Seq(1..255) /\ Len(line') = e /\ \A k \in 1..e : line'[k] = buf[k - 1]
    <3> DEFINE ln == [k \in 1..e |-> buf[k - 1]]
    <3>1. e \in Nat /\ line' = ln
      BY <2>1, <2>4, Numbers
    <3>2. ln \in Seq(1..255) /\ Len(ln) = e /\ \A k \in 1..e : ln[k] = buf[k - 1]
      BY <2>5, <3>1
    <3> QED
      BY <3>1, <3>2
  <2>7. CutUp(line', buf', p')
    <3>1. \A k \in 0..(e - 1) : k + 1 \in 1..e /\ (k + 1) - 1 = k
      BY <2>4
    <3>2. \A k \in 0..(e - 1) : buf[k] = line'[k + 1]
      BY <2>6, <3>1
    <3>3. e < BUFLEN /\ 0 \in 0..e
      BY <2>4, Numbers
    <3> QED
      BY <2>1, <2>4, <2>6, <3>2, <3>3 DEF CutUp
  <2>8. Found(line', argv', argc', p') /\ Between(line', p')
    BY <2>1 DEF Found, Between
  <2> QED
    BY <2>1, <2>2, <2>3, <2>7, <2>8 DEF ParseInv
<1>5. CASE Gobble
  <2>1. /\ at = "gobble" /\ UNCHANGED line /\ CutUp(line, buf, p) /\ Found(line, argv, argc, p)
        /\ Between(line, p)
    BY <1>5 DEF Gobble, ParseInv
  <2>2. /\ p \in Nat /\ Len(line) \in Nat /\ p <= Len(line) /\ argc \in Nat
        /\ (buf[p] = 0 <=> p = Len(line)) /\ (p < Len(line) => buf[p] = line[p + 1])
        /\ (buf[p] \in WHITESPACE => p < Len(line))
    BY <1>1, <2>1, CutFacts, Numbers
  <2>3. CASE buf[p] \in WHITESPACE
    <3>1. buf' = [buf EXCEPT ![p] = 0] /\ p' = p + 1 /\ UNCHANGED <<argc, argv, at>>
      BY <1>5, <2>3, ArgsAssumption DEF Gobble, Cut
    <3>2. CutUp(line', buf', p')
      BY <1>1, <2>1, <2>3, <3>1, CutWhite
    <3>3. Found(line', argv', argc', p') /\ Between(line', p')
      BY <2>1, <2>2, <2>3, <3>1, FoundWhite
    <3>4. p' \in 0..(BUFLEN - 1)
      BY <3>2, CutFacts
    <3> QED
      BY <1>1, <2>1, <3>1, <3>2, <3>3, <3>4 DEF ParseInv
  <2>4. CASE buf[p] = 0
    <3>1. argv' = [argv EXCEPT ![argc] = NULL] /\ at' = "lookup" /\ UNCHANGED <<buf, p, argc>>
      BY <1>5, <2>4, ArgsAssumption DEF Gobble, Ended
    <3>2. /\ argv' \in [0..(MAXARGS - 1) -> Pointers] /\ argv'[argc] = NULL
          /\ \A k \in 0..(argc - 1) : argv'[k] = argv[k]
      BY <1>0, <1>1, <3>1
    <3>3. Found(line, argv', argc, p)
      <4>1. \A k \in 0..(argc - 1) : k > 0 => k - 1 \in 0..(argc - 1)
        BY <1>1
      <4> QED
        BY <2>1, <3>2, <4>1 DEF Found
    <3> QED
      BY <1>1, <2>1, <2>2, <2>4, <3>1, <3>2, <3>3 DEF ParseInv
  <2>5. CASE buf[p] \notin WHITESPACE /\ buf[p] # 0 /\ TooMany
    <3>1. at' = "done" /\ UNCHANGED parser
      BY <1>5, <2>5 DEF Gobble
    <3> QED
      BY <1>2, <3>1
  <2>6. CASE buf[p] \notin WHITESPACE /\ buf[p] # 0 /\ ~TooMany
    <3>1. /\ argv' = [argv EXCEPT ![argc] = p] /\ argc' = argc + 1 /\ at' = "scan"
          /\ UNCHANGED <<buf, p>>
      BY <1>5, <2>6 DEF Gobble
    <3>2. argc + 1 \in 0..(MAXARGS - 1)
      BY <1>1, <2>6, Numbers DEF TooMany
    <3>3. /\ argv' \in [0..(MAXARGS - 1) -> Pointers] /\ argv'[argc] = p
          /\ \A k \in 0..(argc - 1) : argv'[k] = argv[k]
      BY <1>0, <1>1, <3>1
    <3>6. \A k \in 0..(argc' - 1) : argv'[k] \in 0..(BUFLEN - 1)
      <4>1. \A k \in 0..(argc' - 1) : k = argc \/ k \in 0..(argc - 1)
        BY <1>1, <3>1
      <4> QED
        BY <1>1, <3>3, <4>1
    <3>4. p < Len(line) /\ line[p + 1] \notin WHITESPACE
      BY <2>2, <2>6
    <3>5. Inside(line, argv', argc + 1, p)
      BY <2>1, <2>2, <3>3, <3>4, FoundStart
    <3> QED
      BY <1>1, <2>1, <3>1, <3>2, <3>3, <3>5, <3>6 DEF ParseInv
  <2> QED
    BY <2>3, <2>4, <2>5, <2>6
<1>6. CASE Scan
  <2>1. /\ at = "scan" /\ UNCHANGED <<line, buf, argc, argv>>
        /\ CutUp(line, buf, p) /\ Inside(line, argv, argc, p)
    BY <1>6 DEF Scan, ParseInv, readlineVars
  <2>2. /\ p \in Nat /\ Len(line) \in Nat /\ p <= Len(line) /\ argc \in Nat
        /\ (buf[p] = 0 <=> p = Len(line)) /\ (p < Len(line) => buf[p] = line[p + 1])
    BY <1>1, <2>1, CutFacts, Numbers
  <2>3. CASE buf[p] # 0 /\ buf[p] \notin WHITESPACE
    <3>1. p' = p + 1 /\ at' = at
      BY <1>6, <2>3 DEF Scan, Onward
    <3>2. CutUp(line', buf', p') /\ line[p + 1] \notin WHITESPACE
      BY <2>1, <2>3, <3>1, CutBlack
    <3>3. Inside(line', argv', argc', p')
      BY <2>1, <2>2, <3>1, <3>2, InsideOn
    <3>4. p' \in 0..(BUFLEN - 1)
      BY <3>2, CutFacts
    <3> QED
      BY <1>1, <2>1, <3>1, <3>2, <3>3, <3>4 DEF ParseInv
  <2>4. CASE ~(buf[p] # 0 /\ buf[p] \notin WHITESPACE)
    <3>1. p' = p /\ at' = "gobble"
      BY <1>6, <2>4 DEF Scan
    <3>2. p = Len(line) \/ line[p + 1] \in WHITESPACE
      BY <2>2, <2>4
    <3>3. Found(line, argv, argc, p) /\ Between(line, p)
      BY <2>1, <2>2, <3>2, InsideEnd
    <3> QED
      BY <1>1, <2>1, <3>1, <3>3 DEF ParseInv
  <2> QED
    BY <2>3, <2>4
<1>7. CASE CallReadline
  <2>1. /\ at' = "readline" /\ p' = 0 /\ argc' = 0 /\ argv' = [k \in 0..(MAXARGS - 1) |-> NULL]
    BY <1>7 DEF CallReadline, NoParser
  <2>2. argv' \in [0..(MAXARGS - 1) -> Pointers]
    BY <1>0, <2>1
  <2>3. p' \in 0..(BUFLEN - 1) /\ argc' \in 0..(MAXARGS - 1)
    BY <2>1, Numbers
  <2>4. \A k \in 0..(argc' - 1) : FALSE
    <3>1. argc' = 0
      BY <2>1
    <3> QED
      BY <3>1
  <2> QED
    BY <2>1, <2>2, <2>3, <2>4 DEF ParseInv
<1>8. CASE Lookup
  <2>1. at' \in {"done", "walk"} /\ UNCHANGED parser
    BY <1>8 DEF Lookup
  <2> QED
    BY <1>2, <2>1
<1>9. CASE Reading
  <2>1. at = "readline" /\ UNCHANGED <<at, parser>>
    BY <1>9 DEF Reading
  <2> QED
    BY <1>2, <2>1
<1>10. CASE FirstLine \/ Entering \/ CallBacktrace \/ Leaving \/ BacktraceFrame \/ BacktraceReturns \/ Welcome \/ RunCmdReturns
  BY <1>2, <1>10 DEF FirstLine, Entering, CallBacktrace, Leaving, BacktraceFrame, BacktraceReturns,
                     Welcome, RunCmdReturns, Step
<1>11. CASE Output \/ UNCHANGED vars
  BY <1>3, <1>11 DEF Output, vars, readlineVars
<1> QED
  BY <1>4, <1>5, <1>6, <1>7, <1>8, <1>9, <1>10, <1>11 DEF Next, Kernel

-----------------------------------------------------------------------------
(* The words of a line, and how many there are. *)
NumWords(s) == Cardinality(WordStarts(s))

(* Numbers have a least one. *)
LEMMA LeastNumber ==
  ASSUME NEW S \in SUBSET Nat, S # {}
  PROVE  \E m \in S : \A k \in S : m <= k
<1>1. \E m \in S : \A k \in S : <<k, m>> \notin OpToRel(<, Nat)
  BY NatLessThanWellFounded, WFMin
<1>2. \A k, m \in Nat : k < m => <<k, m>> \in OpToRel(<, Nat)
  BY DEF OpToRel
<1>3. \A k, m \in Nat : ~(k < m) => m <= k
  OBVIOUS
<1> QED
  BY <1>1, <1>2, <1>3

(* Every word has an end, and only one. *)
LEMMA WordEnds ==
  ASSUME NEW s, Len(s) \in Nat, NEW m \in 1..Len(s), Starts(s, m)
  PROVE  \E n \in m..Len(s) : IsWord(s, m, n)
<1> DEFINE Stops == {n \in m..Len(s) : n = Len(s) \/ s[n + 1] \in WHITESPACE}
<1>1. Stops \in SUBSET Nat /\ Stops # {}
  BY Len(s) \in Stops
<1>2. PICK n \in Stops : \A k \in Stops : n <= k
  <2> HIDE DEF Stops
  <2> QED
    BY <1>1, LeastNumber
<1>3. n \in m..Len(s) /\ (n = Len(s) \/ s[n + 1] \in WHITESPACE)
  BY <1>2
<1>4. ASSUME NEW k \in m..n PROVE s[k] \notin WHITESPACE
  <2>1. CASE k = m
    BY <2>1 DEF Starts
  <2>2. CASE k # m
    <3> SUFFICES ASSUME s[k] \in WHITESPACE PROVE FALSE
      OBVIOUS
    <3>1. k - 1 \in m..Len(s) /\ (k - 1) + 1 = k /\ ~(n <= k - 1)
      BY <1>3, <2>2
    <3>2. k - 1 \in Stops
      BY <3>1
    <3> HIDE DEF Stops
    <3> QED
      BY <1>2, <3>1, <3>2
  <2> QED
    BY <2>1, <2>2
<1>5. m <= n
  BY <1>3
<1>6. IsWord(s, m, n)
  BY <1>3, <1>4, <1>5 DEF IsWord, Starts
<1> QED
  BY <1>3, <1>6

LEMMA OneEnd ==
  ASSUME NEW s, Len(s) \in Nat, NEW m \in 1..Len(s), NEW n \in m..Len(s), NEW e \in m..Len(s),
         IsWord(s, m, n), IsWord(s, m, e)
  PROVE  n = e
<1>1. ASSUME NEW a \in m..Len(s), NEW b \in m..Len(s), IsWord(s, m, a), IsWord(s, m, b), a < b PROVE FALSE
  <2>1. a + 1 \in m..b /\ a # Len(s)
    BY <1>1
  <2> QED
    BY <1>1, <2>1 DEF IsWord
<1> QED
  BY <1>1

(* The words that are found are in order, not only each behind the last one. *)
LEMMA InOrder ==
  ASSUME NEW s, NEW av, NEW n \in Nat, NEW q \in Nat, Found(s, av, n, q)
  PROVE  \A j, k \in 0..(n - 1) : j < k => av[j] < av[k]
<1> DEFINE Bad == {k \in 0..(n - 1) : \E j \in 0..(n - 1) : j < k /\ ~(av[j] < av[k])}
<1>1. \A k \in 0..(n - 1) : av[k] \in Nat /\ (k > 0 => av[k - 1] < av[k])
  BY DEF Found
<1>2. SUFFICES ASSUME Bad # {} PROVE FALSE
  OBVIOUS
<1>3. PICK k \in Bad : \A m \in Bad : k <= m
  <2>1. Bad \in SUBSET Nat
    OBVIOUS
  <2> HIDE DEF Bad
  <2> QED
    BY <1>2, <2>1, LeastNumber
<1>4. k \in 0..(n - 1)
  OBVIOUS
<1>5. PICK j \in 0..(n - 1) : j < k /\ ~(av[j] < av[k])
  OBVIOUS
<1>6. k - 1 \in 0..(n - 1) /\ k > 0 /\ ~(k <= k - 1)
  BY <1>4, <1>5
<1>7. k - 1 \notin Bad
  BY <1>3, <1>6
<1>8. av[k - 1] < av[k] /\ av[k - 1] \in Nat /\ av[k] \in Nat /\ av[j] \in Nat
  BY <1>1, <1>4, <1>5, <1>6
<1>9. CASE j = k - 1
  BY <1>5, <1>8, <1>9
<1>10. CASE j # k - 1
  <2>1. j < k - 1
    BY <1>4, <1>5, <1>10
  <2>2. av[j] < av[k - 1]
    BY <1>5, <1>6, <1>7, <2>1
  <2> QED
    BY <1>5, <1>8, <2>2
<1> QED
  BY <1>9, <1>10

(* The words of a line are where they start. *)
LEMMA StartsAreWords ==
  ASSUME NEW s, Len(s) \in Nat
  PROVE  WordStarts(s) = {m \in 1..Len(s) : Starts(s, m)} /\ IsFiniteSet(WordStarts(s))
<1>1. ASSUME NEW m \in 1..Len(s), NEW e \in m..Len(s), IsWord(s, m, e) PROVE Starts(s, m)
  BY <1>1 DEF IsWord, Starts
<1>2. ASSUME NEW m \in 1..Len(s), Starts(s, m) PROVE \E e \in m..Len(s) : IsWord(s, m, e)
  BY <1>2, WordEnds
<1>3. WordStarts(s) = {m \in 1..Len(s) : Starts(s, m)}
  BY <1>1, <1>2 DEF WordStarts
<1>4. IsFiniteSet(1..Len(s)) /\ WordStarts(s) \subseteq 1..Len(s)
  BY <1>3, FS_Interval
<1> QED
  BY <1>3, <1>4, FS_Subset

(* Words that are numbered in their order are counted. *)
LEMMA WordsCounted ==
  ASSUME NEW S, IsFiniteSet(S), NEW n \in Nat, NEW g \in [0..(n - 1) -> S],
         \A k \in 0..(n - 1) : g[k] \in Nat,
         \A j, k \in 0..(n - 1) : j < k => g[j] < g[k]
  PROVE  /\ Cardinality(S) \in Nat /\ n <= Cardinality(S)
         /\ (\A m \in S : \E k \in 0..(n - 1) : g[k] = m) => Cardinality(S) = n
<1>1. g \in Injection(0..(n - 1), S)
  <2>1. ASSUME NEW j \in 0..(n - 1), NEW k \in 0..(n - 1), g[j] = g[k] PROVE j = k
    <3>1. ~(g[j] < g[k]) /\ ~(g[k] < g[j])
      BY <2>1
    <3>2. ~(j < k) /\ ~(k < j)
      BY <3>1
    <3> QED
      BY <3>2
  <2> QED
    BY <2>1 DEF Injection, IsInjective
<1>2. Cardinality(0..(n - 1)) = n /\ IsFiniteSet(0..(n - 1))
  <2>1. 0 \in Int /\ n - 1 \in Int
    OBVIOUS
  <2>2. /\ IsFiniteSet(0..(n - 1))
        /\ Cardinality(0..(n - 1)) = IF 0 > n - 1 THEN 0 ELSE (n - 1) - 0 + 1
    BY <2>1, FS_Interval
  <2> QED
    BY <2>2
<1>3. Cardinality(S) \in Nat
  BY FS_CardinalityType
<1>4. /\ Cardinality(0..(n - 1)) <= Cardinality(S)
      /\ Cardinality(0..(n - 1)) = Cardinality(S) <=> g \in Surjection(0..(n - 1), S)
  BY <1>1, FS_Injection
<1>5. ASSUME \A m \in S : \E k \in 0..(n - 1) : g[k] = m PROVE g \in Surjection(0..(n - 1), S)
  BY <1>5 DEF Surjection
<1> QED
  BY <1>2, <1>3, <1>4, <1>5

(* All the words of a line have been found, or there is one more. *)
LEMMA AllWords ==
  ASSUME NEW s, Len(s) \in Nat, NEW av, NEW n \in Nat, Found(s, av, n, Len(s))
  PROVE  Cardinality(WordStarts(s)) = n
<1> DEFINE S == WordStarts(s)
           g == [k \in 0..(n - 1) |-> av[k] + 1]
<1>1. IsFiniteSet(S) /\ S = {m \in 1..Len(s) : Starts(s, m)}
  BY StartsAreWords
<1>2. ASSUME NEW k \in 0..(n - 1) PROVE av[k] \in Nat /\ av[k] + 1 \in S
  <2>1. av[k] \in 0..(Len(s) - 1)
    BY DEF Found
  <2>2. PICK e \in (av[k] + 1)..Len(s) : IsWord(s, av[k] + 1, e)
    BY DEF Found
  <2>3. av[k] + 1 \in 1..Len(s)
    BY <2>1
  <2> QED
    BY <2>1, <2>2, <2>3 DEF WordStarts
<1>3. \A j, k \in 0..(n - 1) : j < k => av[j] < av[k]
  BY InOrder
<1>4. ASSUME NEW m \in S PROVE \E k \in 0..(n - 1) : g[k] = m
  <2>1. m \in 1..Len(s) /\ Starts(s, m)
    BY <1>1
  <2>2. PICK k \in 0..(n - 1) : av[k] + 1 = m
    BY <2>1 DEF Found
  <2> QED
    BY <2>2
<1> HIDE DEF S
<1>5. g \in [0..(n - 1) -> S] /\ \A k \in 0..(n - 1) : g[k] \in Nat
  BY <1>2
<1>6. \A j, k \in 0..(n - 1) : j < k => g[j] < g[k]
  BY <1>2, <1>3
<1> HIDE DEF g
<1>7. Cardinality(S) = n
  BY <1>1, <1>4, <1>5, <1>6, WordsCounted
<1> QED
  BY <1>7 DEF S

LEMMA OneWordMore ==
  ASSUME NEW s, Len(s) \in Nat, NEW av, NEW n \in Nat, NEW q \in Nat, Found(s, av, n, q), Between(s, q),
         q < Len(s), s[q + 1] \notin WHITESPACE
  PROVE  Cardinality(WordStarts(s)) \in Nat /\ n + 1 <= Cardinality(WordStarts(s))
<1> DEFINE S == WordStarts(s)
           g == [k \in 0..n |-> IF k = n THEN q + 1 ELSE av[k] + 1]
<1>1. IsFiniteSet(S) /\ S = {m \in 1..Len(s) : Starts(s, m)}
  BY StartsAreWords
<1>2. ASSUME NEW k \in 0..(n - 1) PROVE av[k] \in Nat /\ av[k] < q /\ av[k] + 1 \in S
  <2>1. av[k] \in 0..(q - 1)
    BY DEF Found
  <2>2. PICK e \in (av[k] + 1)..q : IsWord(s, av[k] + 1, e)
    BY DEF Found
  <2>3. av[k] + 1 \in 1..Len(s) /\ e \in (av[k] + 1)..Len(s)
    BY <2>1, <2>2
  <2> QED
    BY <2>1, <2>2, <2>3 DEF WordStarts
<1>3. \A j, k \in 0..(n - 1) : j < k => av[j] < av[k]
  BY InOrder
<1>4. q + 1 \in S
  <2>1. q + 1 \in 1..Len(s) /\ q # Len(s) /\ (q # 0 => q + 1 # 1) /\ (q + 1) - 1 = q
    OBVIOUS
  <2>2. Starts(s, q + 1)
    BY <2>1 DEF Starts, Between
  <2> QED
    BY <1>1, <2>1, <2>2
<1> HIDE DEF S
<1>5. \A k \in 0..n : k = n \/ k \in 0..(n - 1)
  OBVIOUS
<1>6. g \in [0..n -> S] /\ \A k \in 0..n : g[k] \in Nat
  BY <1>2, <1>4, <1>5
<1>7. ASSUME NEW j \in 0..n, NEW k \in 0..n, j < k PROVE g[j] < g[k]
  <2>1. j \in 0..(n - 1) /\ g[j] = av[j] + 1
    BY <1>7
  <2>2. CASE k = n
    BY <1>2, <2>1, <2>2
  <2>3. CASE k # n
    <3>1. k \in 0..(n - 1) /\ g[k] = av[k] + 1
      BY <2>3
    <3> QED
      BY <1>2, <1>3, <1>7, <2>1, <3>1
  <2> QED
    BY <2>2, <2>3
<1> HIDE DEF g
<1>8. n + 1 \in Nat /\ (n + 1) - 1 = n
  OBVIOUS
<1>9. Cardinality(S) \in Nat /\ n + 1 <= Cardinality(S)
  BY <1>1, <1>6, <1>7, <1>8, WordsCounted
<1> QED
  BY <1>9 DEF S

(* The first word of a line is the one that starts at m and ends at e. *)
LEMMA FirstWordFound ==
  ASSUME NEW s, Len(s) \in Nat, NEW m \in 1..Len(s), NEW e \in m..Len(s), IsWord(s, m, e),
         \A other \in WordStarts(s) : m <= other
  PROVE  FirstWord(s) = SubSeq(s, m, e)
<1> DEFINE w1 == SubSeq(s, m, e)
           First(w) == \E a \in WordStarts(s) : \E n \in a..Len(s) :
                         IsWord(s, a, n) /\ w = SubSeq(s, a, n) /\ \A other \in WordStarts(s) : a <= other
<1>1. m \in WordStarts(s)
  BY DEF WordStarts
<1>2. First(w1)
  BY <1>1
<1>3. w1 \in Words(s)
  <2>1. m \in 1..Len(s) /\ e \in 1..Len(s)
    OBVIOUS
  <2>2. <<m, e>> \in {b \in (1..Len(s)) \X (1..Len(s)) : IsWord(s, b[1], b[2])}
    BY <2>1
  <2>3. SubSeq(s, <<m, e>>[1], <<m, e>>[2]) \in Words(s)
    BY <2>2, Zenon DEF Words
  <2> QED
    BY <2>3
<1>4. ASSUME NEW w, First(w) PROVE w = w1
  <2>1. PICK a \in WordStarts(s) : \E n \in a..Len(s) :
          IsWord(s, a, n) /\ w = SubSeq(s, a, n) /\ \A other \in WordStarts(s) : a <= other
    BY <1>4
  <2>2. PICK n \in a..Len(s) : IsWord(s, a, n) /\ w = SubSeq(s, a, n)
    BY <2>1
  <2>3. a \in 1..Len(s) /\ a <= m /\ m <= a
    BY <1>1, <2>1 DEF WordStarts
  <2>4. a = m
    BY <2>3
  <2>5. n = e
    BY <2>2, <2>4, OneEnd
  <2> QED
    BY <2>2, <2>4, <2>5
<1>5. FirstWord(s) = CHOOSE w \in Words(s) : First(w)
  BY DEF FirstWord
<1> HIDE DEF First, w1
<1>6. FirstWord(s) = w1
  BY <1>2, <1>3, <1>4, <1>5
<1> QED
  BY <1>6 DEF w1

(* The string that argv[k] points to is the word that starts there. *)
LEMMA ArgvString ==
  ASSUME ParseInv, at = "lookup", NEW k \in 0..(argc - 1)
  PROVE  /\ argv[k] \in 0..(Len(line) - 1)
         /\ \E e \in (argv[k] + 1)..Len(line) :
              /\ IsWord(line, argv[k] + 1, e)
              /\ StringAt(argv[k]) = [j \in 1..(e - argv[k]) |-> line[argv[k] + j]]
<1> DEFINE n == argv[k]
<1>1. /\ CutUp(line, buf, p) /\ Found(line, argv, argc, p) /\ p = Len(line)
      /\ Len(line) \in Nat /\ Len(line) < BUFLEN /\ line \in Seq(1..255)
  BY DEF ParseInv, CutUp
<1>2. n \in 0..(Len(line) - 1)
  BY <1>1 DEF Found
<1>3. PICK e \in (n + 1)..Len(line) : IsWord(line, n + 1, e)
  BY <1>1 DEF Found
<1> HIDE DEF n
<1>4. n \in 0..(BUFLEN - 1) /\ e \in n..(BUFLEN - 1) /\ e \in Nat /\ n \in Nat /\ n < e
  BY <1>1, <1>2, <1>3, Numbers
<1>5. buf[e] = 0
  <2>1. CASE e = Len(line)
    BY <1>1, <2>1 DEF CutUp
  <2>2. CASE e # Len(line)
    <3>1. line[e + 1] \in WHITESPACE /\ e \in 0..(p - 1)
      BY <1>1, <1>3, <1>4, <2>2 DEF IsWord
    <3> QED
      BY <1>1, <3>1 DEF CutUp
  <2> QED
    BY <2>1, <2>2
<1>6. ASSUME NEW x \in n..(e - 1) PROVE buf[x] # 0 /\ buf[x] = line[x + 1]
  <2>1. x + 1 \in (n + 1)..e /\ x \in 0..(p - 1) /\ x + 1 \in 1..Len(line)
    BY <1>1, <1>3, <1>4
  <2>2. line[x + 1] \notin WHITESPACE
    BY <1>3, <2>1 DEF IsWord
  <2>3. buf[x] = line[x + 1]
    BY <1>1, <2>1, <2>2 DEF CutUp
  <2>4. line[x + 1] \in 1..255
    BY <1>1, <2>1, ElementOfSeq
  <2>5. \A c \in 1..255 : c # 0
    OBVIOUS
  <2>6. line[x + 1] # 0
    BY <2>4, <2>5
  <2> QED
    BY <2>3, <2>6, Zenon
<1>7. StringAt(n) = [j \in 1..(e - n) |-> buf[n + j - 1]]
  BY <1>4, <1>5, <1>6, StringFound
<1>8. ASSUME NEW j \in 1..(e - n) PROVE buf[n + j - 1] = line[n + j]
  <2>1. n + j - 1 \in n..(e - 1) /\ (n + j - 1) + 1 = n + j
    BY <1>4
  <2>2. buf[n + j - 1] = line[(n + j - 1) + 1]
    BY <1>6, <2>1
  <2> QED
    BY <2>1, <2>2
<1>9. StringAt(n) = [j \in 1..(e - n) |-> line[n + j]]
  BY <1>7, <1>8
<1> QED
  BY <1>2, <1>3, <1>9 DEF n


(* What the commands get in argv. *)
LEMMA ArgvFollows == ParseInv => ArgvIsWords
<1> SUFFICES ASSUME ParseInv, at = "lookup"
             PROVE  /\ argv[argc] = NULL
                    /\ {argv[k] + 1 : k \in 0..(argc - 1)} = WordStarts(line)
                    /\ \A k \in 0..(argc - 1) :
                         /\ IsWord(line, argv[k] + 1, argv[k] + Len(StringAt(argv[k])))
                         /\ k > 0 => argv[k - 1] < argv[k]
  BY DEF ArgvIsWords
<1>1. Found(line, argv, argc, Len(line)) /\ argv[argc] = NULL /\ Len(line) \in Nat
  BY DEF ParseInv, CutUp
<1>2. WordStarts(line) = {m \in 1..Len(line) : Starts(line, m)}
  BY <1>1, StartsAreWords
<1>3. ASSUME NEW k \in 0..(argc - 1)
      PROVE  /\ argv[k] + 1 \in WordStarts(line)
             /\ IsWord(line, argv[k] + 1, argv[k] + Len(StringAt(argv[k])))
             /\ k > 0 => argv[k - 1] < argv[k]
  <2> DEFINE n == argv[k]
  <2>1. n \in 0..(Len(line) - 1)
    BY ArgvString
  <2>2. PICK e \in (n + 1)..Len(line) :
          IsWord(line, n + 1, e) /\ StringAt(n) = [j \in 1..(e - n) |-> line[n + j]]
    BY ArgvString
  <2>3. k > 0 => argv[k - 1] < n
    BY <1>1 DEF Found
  <2> HIDE DEF n
  <2>4. n + 1 \in WordStarts(line)
    BY <1>1, <2>1, <2>2 DEF WordStarts
  <2>5. n + Len(StringAt(n)) = e
    <3> DEFINE str == [j \in 1..(e - n) |-> line[n + j]]
    <3>1. e - n \in Nat
      BY <1>1, <2>1, <2>2
    <3>2. Len(str) = e - n
      BY <3>1
    <3> QED
      BY <2>1, <2>2, <3>2
  <2> QED
    BY <2>2, <2>3, <2>4, <2>5 DEF n
<1>4. ASSUME NEW m \in WordStarts(line) PROVE m \in {argv[k] + 1 : k \in 0..(argc - 1)}
  <2>1. m \in 1..Len(line) /\ Starts(line, m)
    BY <1>2
  <2>2. PICK k \in 0..(argc - 1) : argv[k] + 1 = m
    BY <1>1, <2>1 DEF Found
  <2> QED
    BY <2>2
<1>5. {argv[k] + 1 : k \in 0..(argc - 1)} = WordStarts(line)
  BY <1>3, <1>4
<1> QED
  BY <1>1, <1>3, <1>5

(* The command is looked up by the first word of the line. *)
LEMMA LookupWord ==
  ASSUME ParseInv, at = "lookup"
  PROVE  /\ NumWords(line) = argc
         /\ argc # 0 => FirstWord(line) = StringAt(argv[0])
<1>1. /\ Found(line, argv, argc, Len(line)) /\ Len(line) \in Nat /\ line \in Seq(1..255)
      /\ argc \in Nat /\ argc \in 0..(MAXARGS - 1)
  BY Numbers DEF ParseInv, CutUp
<1>2. NumWords(line) = argc
  BY <1>1, AllWords DEF NumWords
<1>3. ASSUME argc # 0 PROVE FirstWord(line) = StringAt(argv[0])
  <2> DEFINE n == argv[0]
  <2>1. 0 \in 0..(argc - 1)
    BY <1>1, <1>3
  <2>2. n \in 0..(Len(line) - 1)
    BY <2>1, ArgvString
  <2>3. PICK e \in (n + 1)..Len(line) :
          IsWord(line, n + 1, e) /\ StringAt(n) = [j \in 1..(e - n) |-> line[n + j]]
    BY <2>1, ArgvString
  <2>4. ASSUME NEW other \in WordStarts(line) PROVE n + 1 <= other
    <3>1. other \in 1..Len(line) /\ Starts(line, other)
      BY <1>1, StartsAreWords
    <3>2. PICK k \in 0..(argc - 1) : argv[k] + 1 = other
      BY <1>1, <3>1 DEF Found
    <3>3. 0 < k => n < argv[k]
      BY <1>1, <2>1, InOrder
    <3>4. argv[k] \in Nat
      BY <1>1 DEF Found
    <3> QED
      BY <2>2, <3>2, <3>3, <3>4
  <2>5. n + 1 \in 1..Len(line)
    BY <1>1, <2>2
  <2> HIDE DEF n
  <2>6. FirstWord(line) = SubSeq(line, n + 1, e)
    BY <1>1, <2>3, <2>4, <2>5, FirstWordFound
  <2>7. SubSeq(line, n + 1, e) = [j \in 1..(e - n) |-> line[n + j]]
    <3>1. e - (n + 1) + 1 = e - n /\ \A j \in 1..(e - n) : j + (n + 1) - 1 = n + j
      BY <2>2, <2>3
    <3> DEFINE a == SubSeq(line, n + 1, e)
               b == [j \in 1..(e - n) |-> line[n + j]]
    <3>2. \A j \in (n + 1)..e : line[j] \in 1..255
      <4>1. \A j \in (n + 1)..e : j \in 1..Len(line)
        BY <1>1, <2>2, <2>3
      <4> QED
        BY <1>1, <4>1, ElementOfSeq
    <3>3. /\ a \in Seq(1..255) /\ Len(a) = (IF n + 1 <= e THEN e - (n + 1) + 1 ELSE 0)
          /\ \A j \in 1..(e - (n + 1) + 1) : a[j] = line[(n + 1) + j - 1]
      BY <2>2, <2>3, <3>2, SubSeqProperties
    <3> HIDE DEF a
    <3>4. e - n \in Nat /\ n + 1 <= e /\ \A j \in 1..(e - n) : n + j \in (n + 1)..e /\ (n + 1) + j - 1 = n + j
      BY <2>2, <2>3
    <3>5. b \in Seq(1..255) /\ Len(b) = e - n /\ \A j \in 1..(e - n) : b[j] = line[n + j]
      <4>1. \A j \in 1..(e - n) : line[n + j] \in 1..255
        BY <3>2, <3>4
      <4>2. \A c \in Nat : (\A j \in 1..c : line[n + j] \in 1..255)
                 => LET f == [j \in 1..c |-> line[n + j]]
                    IN  f \in Seq(1..255) /\ Len(f) = c /\ \A j \in 1..c : f[j] = line[n + j]
        OBVIOUS
      <4> QED
        BY <3>4, <4>1, <4>2, Zenon
    <3> HIDE DEF b
    <3>6. Len(a) = e - n /\ \A j \in 1..(e - n) : a[j] = b[j]
      BY <3>1, <3>3, <3>4, <3>5
    <3>7. a = b
      BY <3>3, <3>5, <3>6, SeqEqual
    <3> QED
      BY <3>7 DEF a, b
  <2> QED
    BY <2>3, <2>6, <2>7 DEF n
<1> QED
  BY <1>2, <1>3

-----------------------------------------------------------------------------
(* A line more at the end of those that a backtrace has printed. *)
LEMMA OneMore ==
  ASSUME NEW S, NEW pr \in Seq(S), NEW e, NEW more, more = Append(pr, e)
  PROVE  /\ Len(pr) \in Nat /\ Len(more) = Len(pr) + 1
         /\ more[Len(pr) + 1] = e /\ \A k \in 1..Len(pr) : more[k] = pr[k]
<1> DEFINE T == S \union {e}
<1>1. pr \in Seq(T) /\ e \in T
  BY SeqMonotonic
<1> HIDE DEF T
<1> QED
  BY <1>1

(* What a line says. *)
Title == "Stack backtrace"
Says(e, text) == e.text = text
SaysOf(e, arg) == e.arg = arg
LinesOf(pr, title, cs, n) ==
  /\ Says(pr[title], Title)
  /\ \A k \in 1..n : /\ Says(pr[title + 2 * k - 1], "frame") /\ SaysOf(pr[title + 2 * k - 1], cs[k][2])
                     /\ Says(pr[title + 2 * k], Caller(cs, k))

LEMMA ListedLines ==
  ASSUME NEW pr, NEW cs, NEW n
  PROVE  /\ Listed(pr, cs, n, 0) <=> LET title == Len(pr) - 2 * n - 0
                                    IN  title > 0 /\ LinesOf(pr, title, cs, n)
         /\ Listed(pr, cs, n, 1) <=> LET title == Len(pr) - 2 * n - 1
                                    IN  /\ title > 0 /\ LinesOf(pr, title, cs, n)
                                        /\ Says(pr[title + 2 * n + 1], "frame")
                                        /\ SaysOf(pr[title + 2 * n + 1], cs[n + 1][2])
<1>1. 0 # 1
  OBVIOUS
<1> QED
  BY <1>1, Zenon DEF Listed, LinesOf, Says, SaysOf, Title

(* Where the lines of n frames are among L lines. *)
LEMMA LinePlaces ==
  ASSUME NEW L \in Nat, NEW n \in Nat
  PROVE  /\ L + 1 > 0 /\ (L + 1) - 2 * 0 - 0 = L + 1
         /\ L - 2 * n - 0 > 0 =>
              LET title == L - 2 * n - 0
              IN  /\ title \in 1..L /\ (L + 1) - 2 * n - 1 = title /\ title + 2 * n + 1 = L + 1
                  /\ \A k \in 1..n : title + 2 * k - 1 \in 1..L /\ title + 2 * k \in 1..L
         /\ L - 2 * n - 1 > 0 =>
              LET title == L - 2 * n - 1
              IN  /\ title \in 1..L /\ (L + 1) - 2 * (n + 1) - 0 = title
                  /\ \A k \in 1..n : title + 2 * k - 1 \in 1..L /\ title + 2 * k \in 1..L
                  /\ title + 2 * (n + 1) - 1 = L /\ title + 2 * n + 1 = L
                  /\ L \in 1..L /\ title + 2 * (n + 1) = L + 1
  OBVIOUS

LEMMA ListedTitle ==
  ASSUME NEW S, NEW pr \in Seq(S), NEW cs, NEW e, Says(e, Title)
  PROVE  Listed(Append(pr, e), cs, 0, 0)
<1> DEFINE more == Append(pr, e)
           L == Len(pr)
<1>1. L \in Nat /\ Len(more) = L + 1 /\ more[L + 1] = e
  BY OneMore
<1> HIDE DEF more, L
<1>2. Len(more) - 2 * 0 - 0 = L + 1 /\ L + 1 > 0
  BY <1>1
<1>3. LinesOf(more, L + 1, cs, 0)
  <2>1. \A k \in 1..0 : FALSE
    OBVIOUS
  <2> QED
    BY <1>1, <2>1, Zenon DEF LinesOf
<1>4. Listed(more, cs, 0, 0)
  BY <1>2, <1>3, ListedLines, Zenon
<1> QED
  BY <1>4 DEF more

LEMMA ListedFrame ==
  ASSUME NEW S, NEW pr \in Seq(S), NEW cs, NEW n \in Nat, Listed(pr, cs, n, 0),
         NEW e, Says(e, "frame"), SaysOf(e, cs[n + 1][2])
  PROVE  Listed(Append(pr, e), cs, n, 1)
<1> DEFINE more == Append(pr, e)
           L == Len(pr)
           title == L - 2 * n - 0
<1>1. /\ L \in Nat /\ Len(more) = L + 1
      /\ more[L + 1] = e /\ \A k \in 1..L : more[k] = pr[k]
  BY OneMore
<1> HIDE DEF more
<1>2. title > 0 /\ LinesOf(pr, title, cs, n)
  BY ListedLines, Zenon
<1> HIDE DEF L
<1>3. /\ title \in 1..L /\ (L + 1) - 2 * n - 1 = title /\ title + 2 * n + 1 = L + 1
      /\ \A k \in 1..n : title + 2 * k - 1 \in 1..L /\ title + 2 * k \in 1..L
  BY <1>1, <1>2, LinePlaces
<1> HIDE DEF title
<1>4. LinesOf(more, title, cs, n)
  BY <1>1, <1>2, <1>3, Zenon DEF LinesOf
<1>5. Says(more[title + 2 * n + 1], "frame") /\ SaysOf(more[title + 2 * n + 1], cs[n + 1][2])
  BY <1>1, <1>3, Zenon
<1>6. Len(more) - 2 * n - 1 = title
  BY <1>1, <1>3
<1>7. Listed(more, cs, n, 1)
  BY <1>2, <1>4, <1>5, <1>6, ListedLines, Zenon
<1> QED
  BY <1>7 DEF more

LEMMA ListedCaller ==
  ASSUME NEW S, NEW pr \in Seq(S), NEW cs, NEW n \in Nat, Listed(pr, cs, n, 1),
         NEW e, Says(e, Caller(cs, n + 1))
  PROVE  Listed(Append(pr, e), cs, n + 1, 0)
<1> DEFINE more == Append(pr, e)
           L == Len(pr)
           title == L - 2 * n - 1
<1>1. /\ L \in Nat /\ Len(more) = L + 1
      /\ more[L + 1] = e /\ \A k \in 1..L : more[k] = pr[k]
  BY OneMore
<1> HIDE DEF more
<1>2. /\ title > 0 /\ LinesOf(pr, title, cs, n)
      /\ Says(pr[title + 2 * n + 1], "frame") /\ SaysOf(pr[title + 2 * n + 1], cs[n + 1][2])
  BY ListedLines, Zenon
<1> HIDE DEF L
<1>3. /\ title \in 1..L /\ (L + 1) - 2 * (n + 1) - 0 = title
      /\ \A k \in 1..n : title + 2 * k - 1 \in 1..L /\ title + 2 * k \in 1..L
      /\ title + 2 * (n + 1) - 1 = L /\ title + 2 * n + 1 = L
      /\ L \in 1..L /\ title + 2 * (n + 1) = L + 1
  BY <1>1, <1>2, LinePlaces
<1> HIDE DEF title
<1>4. Says(more[title], Title)
  BY <1>1, <1>2, <1>3, Zenon DEF LinesOf
<1>5. ASSUME NEW k \in 1..(n + 1)
      PROVE  /\ Says(more[title + 2 * k - 1], "frame") /\ SaysOf(more[title + 2 * k - 1], cs[k][2])
             /\ Says(more[title + 2 * k], Caller(cs, k))
  <2>1. CASE k = n + 1
    <3>1. more[L] = pr[L] /\ more[L + 1] = e
      BY <1>1, <1>3
    <3>2. Says(more[L], "frame") /\ SaysOf(more[L], cs[n + 1][2]) /\ Says(more[L + 1], Caller(cs, n + 1))
      BY <1>2, <1>3, <3>1, Zenon
    <3> QED
      BY <1>3, <2>1, <3>2, Zenon
  <2>2. CASE k # n + 1
    <3>1. k \in 1..n
      BY <2>2
    <3> QED
      BY <1>1, <1>2, <1>3, <3>1, Zenon DEF LinesOf
  <2> QED
    BY <2>1, <2>2
<1>6. LinesOf(more, title, cs, n + 1)
  BY <1>4, <1>5, Zenon DEF LinesOf
<1>7. Len(more) - 2 * (n + 1) - 0 = title
  BY <1>1, <1>3
<1>8. Listed(more, cs, n + 1, 0)
  BY <1>2, <1>6, <1>7, ListedLines, Zenon
<1> QED
  BY <1>8 DEF more

(* The statements of a frame, all of them and without the first. *)
Puts(st, text, arg) == st = cprintf(text, arg)
Begins(s, k, arg, text) ==
  /\ k = 2 => Puts(Head(s), "frame", arg)
  /\ k = 5 => Puts(Head(s), text, 0)
  /\ k \notin {2, 5} => Head(s).op = "colour"

LEMMA RestStart ==
  ASSUME NEW arg \in Nat, NEW text \in Functions
  PROVE  Rest(InColours(BLUE, WHITE, "frame", arg) \o InColour(YELLOW, text, 0), 0, arg, text)
<1> DEFINE s == InColours(BLUE, WHITE, "frame", arg)
           t == InColour(YELLOW, text, 0)
           st == s \o t
<1>1. /\ BLUE \in 0..15 /\ WHITE \in 0..15 /\ YELLOW \in 0..15 /\ 0 \in 0..15 /\ 0 \in Nat
      /\ "frame" \in Texts /\ text \in Texts
  BY DEF BLUE, WHITE, YELLOW, Texts
<1>2. IsColours(s, BLUE, WHITE, "frame", arg) /\ IsColour(t, YELLOW, text, 0)
  BY <1>1, LineStatements
<1> HIDE DEF s, t
<1>3. \A c : cga_set_bg(c).op = "colour" /\ cga_set_fg(c).op = "colour" /\ cga_reset.op = "colour"
  BY DEF cga_set_bg, cga_set_fg, cga_reset
<1>4. /\ s \in Seq(Statements) /\ Len(s) = 4 /\ t \in Seq(Statements) /\ Len(t) = 3
      /\ s[1].op = "colour" /\ s[2].op = "colour" /\ s[4].op = "colour" /\ t[1].op = "colour" /\ t[3].op = "colour"
      /\ s[3] = cprintf("frame", arg)
      /\ t[2] = cprintf(text, 0)
  BY <1>2, <1>3 DEF IsColour, IsColours
<1>5. /\ st \in Seq(Statements) /\ Len(st) = 7
      /\ st[1] = s[1] /\ st[2] = s[2] /\ st[3] = s[3] /\ st[4] = s[4] /\ st[5] = t[1] /\ st[6] = t[2] /\ st[7] = t[3]
  <2>1. /\ st \in Seq(Statements) /\ Len(st) = Len(s) + Len(t)
        /\ \A j \in 1..(Len(s) + Len(t)) : st[j] = IF j <= Len(s) THEN s[j] ELSE t[j - Len(s)]
    BY <1>4, ConcatProperties, Zenon
  <2> HIDE DEF st
  <2> QED
    BY <1>4, <2>1
<1> HIDE DEF st
<1>6. ASSUME NEW j \in 1..7
      PROVE  /\ j = 3 => st[j] = cprintf("frame", arg)
             /\ j = 6 => st[j] = cprintf(text, 0)
             /\ j \notin {3, 6} => st[j].op = "colour"
  <2>1. j = 1 \/ j = 2 \/ j = 3 \/ j = 4 \/ j = 5 \/ j = 6 \/ j = 7
    OBVIOUS
  <2> QED
    BY <1>4, <1>5, <2>1
<1>7. 7 - 0 = 7 /\ \A j \in 1..7 : j + 0 = j
  OBVIOUS
<1>8. Rest(st, 0, arg, text)
  BY <1>5, <1>6, <1>7, Zenon DEF Rest
<1> QED
  BY <1>8 DEF s, st, t

LEMMA RestTail ==
  ASSUME NEW s, NEW k \in 0..7, NEW arg, NEW text, Rest(s, k, arg, text), s # << >>
  PROVE  k \in 0..6 /\ Rest(Tail(s), k + 1, arg, text) /\ Begins(s, k, arg, text)
<1> DEFINE t == Tail(s)
           A(st) == st = cprintf("frame", arg)
           B(st) == st = cprintf(text, 0)
           C(st) == st.op = "colour"
<1>1. /\ s \in Seq(Statements) /\ Len(s) = 7 - k
      /\ \A j \in 1..(7 - k) : /\ j + k = 3 => A(s[j])
                               /\ j + k = 6 => B(s[j])
                               /\ j + k \notin {3, 6} => C(s[j])
  BY DEF Rest
<1> HIDE DEF A, B, C
<1>2. k \in 0..6
  BY <1>1
<1>3. /\ t \in Seq(Statements) /\ Len(t) = 7 - (k + 1)
      /\ Head(s) = s[1] /\ \A j \in 1..Len(t) : t[j] = s[j + 1]
  BY <1>1, <1>2
<1> HIDE DEF t
<1>4. ASSUME NEW j \in 1..(7 - (k + 1))
      PROVE  /\ j + (k + 1) = 3 => A(t[j])
             /\ j + (k + 1) = 6 => B(t[j])
             /\ j + (k + 1) \notin {3, 6} => C(t[j])
  <2>1. /\ j + 1 \in 1..(7 - k) /\ j \in 1..Len(t) /\ j + (k + 1) = (j + 1) + k
    BY <1>2, <1>3
  <2>2. t[j] = s[j + 1]
    BY <1>3, <2>1
  <2> QED
    BY <1>1, <2>1, <2>2, Zenon
<1>5. Rest(t, k + 1, arg, text)
  BY <1>3, <1>4, Zenon DEF Rest, A, B, C
<1>6. Begins(s, k, arg, text)
  <2>1. 1 \in 1..(7 - k) /\ (1 + k = 3 <=> k = 2) /\ (1 + k = 6 <=> k = 5) /\ (1 + k \in {3, 6} <=> k \in {2, 5})
    BY <1>2
  <2> QED
    BY <1>1, <1>3, <2>1, Zenon DEF Begins, Puts, A, B, C
<1> QED
  BY <1>2, <1>5, <1>6 DEF t

LEMMA ListedOn ==
  ASSUME NEW S, NEW pr \in Seq(S), NEW cs, NEW n \in Nat \ {0}, NEW k \in 0..6, ListedUpTo(pr, cs, n, k)
  PROVE  /\ k \notin {2, 5} => ListedUpTo(pr, cs, n, k + 1)
         /\ k = 2 => \A e : Says(e, "frame") /\ SaysOf(e, cs[n][2]) => ListedUpTo(Append(pr, e), cs, n, k + 1)
         /\ k = 5 => \A e : Says(e, Caller(cs, n)) => ListedUpTo(Append(pr, e), cs, n, k + 1)
<1>1. n - 1 \in Nat /\ (n - 1) + 1 = n
  OBVIOUS
<1>2. k \notin {2, 5} => ListedUpTo(pr, cs, n, k + 1)
  BY DEF ListedUpTo
<1>3. ASSUME k = 2, NEW e, Says(e, "frame"), SaysOf(e, cs[n][2])
      PROVE  ListedUpTo(Append(pr, e), cs, n, k + 1)
  <2>1. Listed(pr, cs, n - 1, 0)
    BY <1>3 DEF ListedUpTo
  <2>2. Listed(Append(pr, e), cs, n - 1, 1)
    BY <1>1, <1>3, <2>1, ListedFrame
  <2> QED
    BY <1>3, <2>2 DEF ListedUpTo
<1>4. ASSUME k = 5, NEW e, Says(e, Caller(cs, n)) PROVE ListedUpTo(Append(pr, e), cs, n, k + 1)
  <2>1. Listed(pr, cs, n - 1, 1)
    BY <1>4 DEF ListedUpTo
  <2>2. Listed(Append(pr, e), cs, n, 0)
    BY <1>1, <1>4, <2>1, ListedCaller
  <2> QED
    BY <1>4, <2>2 DEF ListedUpTo
<1> QED
  BY <1>2, <1>3, <1>4

(* One statement of a backtrace is executed. *)
LEMMA WalkOutput == WalkInv /\ StackInv /\ ColourInv /\ ReadInv /\ Output => WalkInv'
<1> SUFFICES ASSUME WalkInv, StackInv, ColourInv, ReadInv, Output PROVE WalkInv'
  OBVIOUS
<1> DEFINE st == Head(todo)
           new == [text |-> st.text, arg |-> st.arg, attr |-> Attribute(colours.bg, colours.fg, Glyph)]
<1>1. /\ todo # << >> /\ todo' = Tail(todo) /\ UNCHANGED <<at, ebp, calls, walk>>
      /\ st.op = "colour" => UNCHANGED printed
      /\ st.op # "colour" => printed' = Append(printed, new)
  BY DEF Output, stack
<1>2. at # "walked"
  BY <1>1 DEF ReadInv
<1>3. printed \in Seq(Printed) /\ ebp \in Nat /\ walk \in 0..Deepest
  BY DEF ColourInv, StackInv
<1>4. Says(new, st.text) /\ SaysOf(new, st.arg)
  BY DEF Says, SaysOf
<1> HIDE DEF new
<1> SUFFICES ASSUME at = "walk" PROVE WalkInv'
  BY <1>1, <1>2 DEF WalkInv
<1>5. CASE walk = ebp /\ todo = Say(Title, 0)
  <2>1. todo = <<cprintf(Title, 0)>>
    BY <1>5 DEF Say
  <2>2. st.op = "print" /\ st.text = Title /\ todo' = << >>
    BY <1>1, <2>1 DEF cprintf
  <2>3. printed' = Append(printed, new) /\ Says(new, Title)
    BY <1>1, <1>4, <2>2
  <2>4. Listed(printed', calls, 0, 0)
    BY <1>3, <2>3, ListedTitle
  <2>5. walk' \in 0..ebp'
    BY <1>1, <1>3, <1>5
  <2> QED
    BY <1>1, <1>2, <1>5, <2>2, <2>4, <2>5 DEF WalkInv
<1>6. ASSUME NEW k \in 0..7, walk < ebp, walk \in 0..ebp,
             Rest(todo, k, calls[ebp - walk][2], Caller(calls, ebp - walk)),
             ListedUpTo(printed, calls, ebp - walk, k)
      PROVE  WalkInv'
  <2> DEFINE n == ebp - walk
             arg1 == calls[n][2]
             text1 == Caller(calls, n)
  <2>1. k \in 0..6 /\ Rest(todo', k + 1, arg1, text1) /\ Begins(todo, k, arg1, text1)
    BY <1>1, <1>6, RestTail
  <2>2. n \in Nat \ {0}
    BY <1>3, <1>6
  <2> HIDE DEF n
  <2>3. ListedUpTo(printed', calls, n, k + 1)
    <3>1. ListedUpTo(printed, calls, n, k)
      BY <1>6 DEF n
    <3>2. CASE k = 2
      <4>1. st.text = "frame" /\ st.arg = arg1 /\ st.op = "print"
        BY <2>1, <3>2 DEF Begins, Puts, cprintf
      <4>2. printed' = Append(printed, new) /\ Says(new, "frame") /\ SaysOf(new, arg1)
        BY <1>1, <1>4, <4>1
      <4> QED
        BY <1>3, <2>1, <2>2, <3>1, <3>2, <4>2, ListedOn
    <3>3. CASE k = 5
      <4>1. st.text = text1 /\ st.op = "print"
        BY <2>1, <3>3 DEF Begins, Puts, cprintf
      <4>2. printed' = Append(printed, new) /\ Says(new, text1)
        BY <1>1, <1>4, <4>1
      <4> QED
        BY <1>3, <2>1, <2>2, <3>1, <3>3, <4>2, ListedOn
    <3>4. CASE k \notin {2, 5}
      <4>1. UNCHANGED printed
        BY <1>1, <2>1, <3>4 DEF Begins
      <4> QED
        BY <1>3, <2>1, <2>2, <3>1, <3>4, <4>1, ListedOn
    <3> QED
      BY <3>2, <3>3, <3>4
  <2>4. k + 1 \in 0..7 /\ walk' < ebp' /\ walk' \in 0..ebp' /\ ebp' - walk' = n /\ calls' = calls
    BY <1>1, <1>6, <2>1 DEF n
  <2>5. at' = "walk"
    BY <1>1
  <2>6. Rest(todo', k + 1, calls'[ebp' - walk'][2], Caller(calls', ebp' - walk'))
        /\ ListedUpTo(printed', calls', ebp' - walk', k + 1)
    BY <2>1, <2>3, <2>4
  <2> QED
    BY <2>4, <2>5, <2>6 DEF WalkInv
<1> QED
  BY <1>1, <1>5, <1>6 DEF WalkInv, Title

(* The backtrace comes to the next frame, or to its end. *)
LEMMA WalkFrame == WalkInv /\ StackInv /\ BacktraceFrame => WalkInv'
<1> SUFFICES ASSUME WalkInv, StackInv, BacktraceFrame PROVE WalkInv'
  OBVIOUS
<1> DEFINE n == ebp - walk
<1>1. todo = << >> /\ at = "walk" /\ UNCHANGED <<ebp, calls, frames, printed>>
  BY DEF BacktraceFrame, stack
<1>2. /\ ebp \in 1..Deepest /\ ebp \in Nat /\ walk \in 0..Deepest /\ Len(calls) = ebp
      /\ calls \in Seq(Functions \X Nat) /\ Deepest \in Nat
  BY DepthAssumption DEF StackInv, Deepest
<1>3. walk \in 0..ebp /\ Listed(printed, calls, n, 0)
  <2>1. walk \in 0..ebp
    BY <1>1 DEF WalkInv
  <2>2. todo # Say(Title, 0)
    <3>1. << >> # <<cprintf(Title, 0)>>
      OBVIOUS
    <3> QED
      BY <1>1, <3>1 DEF Say
  <2>3. CASE walk = ebp /\ Listed(printed, calls, 0, 0)
    <3>1. n = 0
      BY <1>2, <2>3
    <3> QED
      BY <2>1, <2>3, <3>1
  <2>4. ASSUME NEW k \in 0..7, Rest(todo, k, calls[n][2], Caller(calls, n)), ListedUpTo(printed, calls, n, k)
        PROVE  Listed(printed, calls, n, 0)
    <3>1. Len(todo) = 7 - k /\ Len(todo) = 0
      BY <1>1, <2>4 DEF Rest
    <3>2. k > 5
      BY <3>1
    <3> QED
      BY <2>4, <3>2 DEF ListedUpTo
  <2> QED
    BY <1>1, <2>1, <2>2, <2>3, <2>4 DEF WalkInv, Title
<1>4. CASE walk = 0
  <2>1. at' = "walked" /\ n = ebp
    BY <1>2, <1>4 DEF BacktraceFrame, Bottom
  <2> QED
    BY <1>1, <1>3, <2>1 DEF WalkInv
<1>5. CASE walk # 0
  <2>1. walk \in 1..ebp
    BY <1>2, <1>3, <1>5
  <2>2. at' = "walk" /\ walk' = frames[walk].saved /\ todo' = ShowFrame \o ShowCaller
    BY <1>1, <1>5 DEF BacktraceFrame, Bottom
  <2>3. /\ frames[walk].saved = walk - 1
        /\ frames[walk].ret = IF walk = 1 THEN "entry" ELSE AtDepth(walk - 1)[1]
        /\ frames[walk].arg = AtDepth(walk)[2]
    BY <2>1 DEF StackInv
  <2>4. /\ walk' \in 0..ebp' /\ walk' < ebp' /\ ebp' - walk' = n + 1 /\ n \in Nat
        /\ ebp - walk + 1 = n + 1 /\ ebp - (walk - 1) + 1 = (n + 1) + 1
        /\ (n + 1 < ebp <=> walk # 1) /\ n + 1 \in 1..ebp /\ (walk # 1 => (n + 1) + 1 \in 1..ebp)
    BY <1>1, <1>2, <2>1, <2>2, <2>3
  <2>5. frames[walk].arg = calls[n + 1][2]
    BY <2>3, <2>4 DEF AtDepth
  <2>6. frames[walk].ret = Caller(calls, n + 1)
    <3>1. CASE walk = 1
      BY <1>2, <2>3, <2>4, <3>1 DEF Caller
    <3>2. CASE walk # 1
      <4>1. AtDepth(walk - 1) = calls[(n + 1) + 1]
        BY <2>4, Zenon DEF AtDepth
      <4>2. Caller(calls, n + 1) = calls[(n + 1) + 1][1]
        BY <1>2, <2>4, <3>2, Zenon DEF Caller
      <4> QED
        BY <2>3, <3>2, <4>1, <4>2
    <3> QED
      BY <3>1, <3>2
  <2>7. frames[walk].arg \in Nat /\ frames[walk].ret \in Functions
    BY <1>2 DEF StackInv, Frames
  <2> DEFINE arg1 == frames[walk].arg
             text1 == frames[walk].ret
  <2>8. Rest(todo', 0, arg1, text1)
    <3>1. todo' = InColours(BLUE, WHITE, "frame", arg1) \o InColour(YELLOW, text1, 0)
      BY <2>2 DEF ShowFrame, ShowCaller
    <3> HIDE DEF arg1, text1
    <3>2. arg1 \in Nat /\ text1 \in Functions
      BY <2>7 DEF arg1, text1
    <3> QED
      BY <3>1, <3>2, RestStart
  <2>9. ListedUpTo(printed', calls', n + 1, 0)
    <3>1. (n + 1) - 1 = n
      BY <2>4
    <3>2. printed' = printed /\ calls' = calls
      BY <1>1
    <3> HIDE DEF n
    <3> QED
      BY <1>3, <3>1, <3>2 DEF ListedUpTo
  <2>10. Rest(todo', 0, calls'[ebp' - walk'][2], Caller(calls', ebp' - walk'))
         /\ ListedUpTo(printed', calls', ebp' - walk', 0)
    <3>1. calls' = calls /\ ebp' - walk' = n + 1
      BY <1>1, <2>4
    <3> HIDE DEF n
    <3> QED
      BY <2>5, <2>6, <2>8, <2>9, <3>1
  <2>11. \E k \in 0..7 : /\ walk' < ebp'
                         /\ Rest(todo', k, calls'[ebp' - walk'][2], Caller(calls', ebp' - walk'))
                         /\ ListedUpTo(printed', calls', ebp' - walk', k)
    <3>1. 0 \in 0..7
      OBVIOUS
    <3> QED
      BY <2>4, <2>10, <3>1, Zenon
  <2>12. at' # "walked"
    BY <2>2
  <2> QED
    BY <2>4, <2>11, <2>12, Zenon DEF WalkInv
<1> QED
  BY <1>4, <1>5

LEMMA WalkStep == WalkInv /\ StackInv /\ ColourInv /\ ReadInv /\ [Next]_vars => WalkInv'
<1> SUFFICES ASSUME WalkInv, StackInv, ColourInv, ReadInv, [Next]_vars PROVE WalkInv'
  OBVIOUS
<1>1. ASSUME at' \notin {"walk", "walked"} PROVE WalkInv'
  BY <1>1 DEF WalkInv
<1>2. CASE Output
  BY <1>2, WalkOutput
<1>3. CASE BacktraceFrame
  BY <1>3, WalkFrame
<1>4. ASSUME at' = "walk", walk' = ebp', ebp' = ebp + 1, todo' = Say(Title, 0) PROVE WalkInv'
  <2>1. ebp \in Nat
    BY DEF StackInv
  <2>2. walk' \in 0..ebp' /\ at' # "walked"
    BY <1>4, <2>1
  <2> QED
    BY <1>4, <2>2, Zenon DEF WalkInv, Title
<1>5. CASE CallBacktrace
  <2>1. at' = "walk" /\ walk' = ebp' /\ ebp' = ebp + 1 /\ todo' = Say(Title, 0)
    BY <1>5 DEF CallBacktrace, Step, Push, Title
  <2> QED
    BY <1>4, <2>1
<1>6. CASE Lookup
  <2>1. CASE at' = "done"
    BY <1>1, <2>1
  <2>2. CASE at' # "done"
    <3>1. at' = "walk" /\ walk' = ebp' /\ ebp' = ebp + 1 /\ todo' = Say(Title, 0)
      BY <1>6, <2>2 DEF Lookup, Push, Title
    <3> QED
      BY <1>4, <3>1
  <2> QED
    BY <2>1, <2>2
<1>7. CASE FirstLine \/ Entering \/ Leaving \/ BacktraceReturns \/ Welcome \/ CallReadline \/ RunCmd
           \/ Gobble \/ Scan \/ RunCmdReturns \/ Reading
  <2>1. at' \notin {"walk", "walked"}
    BY <1>7 DEF FirstLine, Entering, Leaving, BacktraceReturns, Welcome, CallReadline, RunCmd, Gobble, Scan,
                RunCmdReturns, Reading, Step
  <2> QED
    BY <1>1, <2>1
<1>8. CASE UNCHANGED vars
  BY <1>8 DEF WalkInv, vars, stack
<1> QED
  BY <1>2, <1>3, <1>5, <1>6, <1>7, <1>8 DEF Next, Kernel

LEMMA WalkFollows == WalkInv /\ StackInv /\ ColourInv => BacktraceLists
<1> SUFFICES ASSUME WalkInv, StackInv, ColourInv, at = "walked" PROVE BacktraceLists
  BY DEF BacktraceLists
<1>1. Listed(printed, calls, ebp, 0) /\ ebp = Len(calls) /\ Len(calls) \in Nat /\ ebp \in Nat
  BY DEF WalkInv, StackInv
<1>2. Len(printed) - 2 * Len(calls) > 0 /\ LinesOf(printed, Len(printed) - 2 * Len(calls), calls, Len(calls))
  <2>1. Len(printed) - 2 * ebp - 0 > 0 /\ LinesOf(printed, Len(printed) - 2 * ebp - 0, calls, ebp)
    BY <1>1, ListedLines, Zenon
  <2>2. Len(printed) - 2 * ebp - 0 = Len(printed) - 2 * Len(calls)
    <3>1. Len(printed) \in Nat
      BY DEF ColourInv
    <3> QED
      BY <1>1, <3>1
  <2> QED
    BY <1>1, <2>1, <2>2
<1> QED
  BY <1>2, Zenon DEF BacktraceLists, LinesOf, Says, SaysOf, Title, CallerText, Caller

-----------------------------------------------------------------------------
(* What the monitor answers.  The answer to the line s is made of the lines pr that
   have been printed and of those that the statements td, which are left, will
   print.  While a backtrace is printed, d frames up and n statements from its next
   frame, the number of its lines is LinesAt(d, n). *)
LookedUp(s) == NumWords(s) \in 1..(MAXARGS - 1)
Names(s, f) == LookedUp(s) /\ FirstWord(s) = commands[f]
NamesNone(s) == LookedUp(s) /\ \A f \in DOMAIN commands : FirstWord(s) # commands[f]
OnlySays(pr, td, text) ==
  \/ pr = << >> /\ Len(td) = 1 /\ Says(td[1], text)
  \/ td = << >> /\ Len(pr) = 1 /\ Says(pr[1], text)
Lines(pr, td) == Len(pr) + Len(td)
Replies(s, pr, td) ==
  \/ NumWords(s) = 0 /\ pr = << >> /\ td = << >>
  \/ NumWords(s) \in Nat /\ NumWords(s) >= MAXARGS /\ OnlySays(pr, td, "Too many arguments")
  \/ Names(s, "mon_help") /\ Lines(pr, td) = 3
  \/ Names(s, "mon_kerninfo") /\ Lines(pr, td) = 7
  \/ Names(s, "mon_backtrace") /\ Lines(pr, td) = 9
  \/ NamesNone(s) /\ OnlySays(pr, td, "Unknown command")
AllLines(td) == \A k \in 1..Len(td) : td[k].op = "print"
Answered(s, pr, td) == AllLines(td) /\ Replies(s, pr, td)

Quiet == argc = 0 /\ line = << >>
LinesAt(d, n) ==
  IF d = 0 THEN 1 - n ELSE 2 * d - 1 + (IF n <= 4 THEN 1 ELSE 0) + (IF n <= 1 THEN 1 ELSE 0)
Backtraces ==
  /\ ebp = 4 /\ frames[4].ret = "runcmd" /\ Names(line, "mon_backtrace")
  /\ at = "walk" => Len(printed) = LinesAt(4 - walk, Len(todo))
  /\ at = "walked" => Len(printed) = 9
AnswerInv ==
  /\ at \in {"init", "test", "leaf", "leave", "welcome"} => Quiet
  /\ at \in {"readline", "gobble", "scan", "lookup"} => printed = << >> /\ todo = << >>
  /\ at \in {"done", "prompt"} => Quiet \/ Answered(line, printed, todo)
  /\ at \in {"walk", "walked"} => Quiet \/ Backtraces

(* A statement of an answer is executed. *)
LEMMA OnlySaysOn ==
  ASSUME NEW pr \in Seq(Printed), NEW td \in Seq(Statements), td # << >>, NEW e, Says(e, Head(td).text),
         NEW text, OnlySays(pr, td, text)
  PROVE  OnlySays(Append(pr, e), Tail(td), text)
<1> DEFINE more == Append(pr, e)
           left == Tail(td)
<1>1. pr = << >> /\ Len(td) = 1 /\ Says(td[1], text)
  BY DEF OnlySays
<1>2. Len(pr) = 0 /\ Head(td) = td[1]
  BY <1>1
<1>3. Len(more) = 1 /\ more[1] = e
  <2>1. /\ Len(pr) \in Nat /\ Len(more) = Len(pr) + 1 /\ more[Len(pr) + 1] = e
    BY OneMore
  <2> HIDE DEF more
  <2> QED
    BY <1>2, <2>1
<1>4. left = << >>
  <2>1. left \in Seq(Statements) /\ Len(left) = 0
    BY <1>1
  <2> HIDE DEF left
  <2> QED
    BY <2>1, EmptySeq
<1>5. Says(e, text)
  BY <1>1, <1>2 DEF Says
<1> HIDE DEF more, left
<1>6. OnlySays(more, left, text)
  BY <1>3, <1>4, <1>5 DEF OnlySays
<1> QED
  BY <1>6 DEF more, left

LEMMA AnsweredOn ==
  ASSUME NEW s, NEW pr \in Seq(Printed), NEW td \in Seq(Statements), td # << >>, Answered(s, pr, td)
  PROVE  /\ Head(td).op = "print"
         /\ \A e : Says(e, Head(td).text) => Answered(s, Append(pr, e), Tail(td))
<1>1. Len(td) \in Nat /\ Len(td) > 0 /\ Len(Tail(td)) = Len(td) - 1 /\ Head(td) = td[1]
      /\ \A k \in 1..Len(Tail(td)) : Tail(td)[k] = td[k + 1]
  OBVIOUS
<1>2. Head(td).op = "print" /\ AllLines(Tail(td))
  <2>1. 1 \in 1..Len(td) /\ \A k \in 1..Len(Tail(td)) : k + 1 \in 1..Len(td)
    BY <1>1
  <2>2. \A k \in 1..Len(td) : td[k].op = "print"
    BY DEF Answered, AllLines
  <2> QED
    BY <1>1, <2>1, <2>2, Zenon DEF AllLines
<1>3. ASSUME NEW e, Says(e, Head(td).text) PROVE Replies(s, Append(pr, e), Tail(td))
  <2>1. Lines(Append(pr, e), Tail(td)) = Lines(pr, td)
    <3> DEFINE more == Append(pr, e)
    <3>1. Len(pr) \in Nat /\ Len(more) = Len(pr) + 1
      BY OneMore
    <3> HIDE DEF more
    <3>2. Lines(more, Tail(td)) = Lines(pr, td)
      BY <1>1, <3>1 DEF Lines
    <3> QED
      BY <3>2 DEF more
  <2>2. \A text : OnlySays(pr, td, text) => OnlySays(Append(pr, e), Tail(td), text)
    BY <1>3, OnlySaysOn
  <2>3. Replies(s, pr, td)
    BY DEF Answered
  <2> QED
    BY <2>1, <2>2, <2>3, Zenon DEF Replies
<1> QED
  BY <1>2, <1>3 DEF Answered

(* What the commands say. *)
LEMMA SayIsLine ==
  ASSUME NEW text \in Texts, NEW arg \in Nat
  PROVE  Say(text, arg) \in Seq(Statements) /\ Len(Say(text, arg)) = 1 /\ AllLines(Say(text, arg))
         /\ Says(Say(text, arg)[1], text)
<1>1. IsLine(Say(text, arg), text, arg)
  BY LineStatements
<1> DEFINE s == Say(text, arg)
           e == cprintf(text, arg)
<1>2. s \in Seq(Statements) /\ Len(s) = 1 /\ s[1] = e
  BY <1>1 DEF IsLine
<1>3. e.op = "print" /\ Says(e, text)
  BY DEF Says, cprintf
<1> HIDE DEF s, e
<1>4. AllLines(s)
  BY <1>2, <1>3 DEF AllLines
<1> QED
  BY <1>2, <1>3, <1>4 DEF s

LEMMA LinesJoined ==
  ASSUME NEW s \in Seq(Statements), NEW t \in Seq(Statements), AllLines(s), AllLines(t)
  PROVE  s \o t \in Seq(Statements) /\ Len(s \o t) = Len(s) + Len(t) /\ AllLines(s \o t)
<1> DEFINE st == s \o t
<1>1. /\ st \in Seq(Statements) /\ Len(st) = Len(s) + Len(t) /\ Len(s) \in Nat /\ Len(t) \in Nat
      /\ \A k \in 1..(Len(s) + Len(t)) : st[k] = IF k <= Len(s) THEN s[k] ELSE t[k - Len(s)]
  BY ConcatProperties
<1> HIDE DEF st
<1>2. ASSUME NEW k \in 1..Len(st) PROVE st[k].op = "print"
  <2>1. CASE k <= Len(s)
    <3>1. k \in 1..Len(s) /\ st[k] = s[k]
      BY <1>1, <2>1
    <3> QED
      BY <3>1 DEF AllLines
  <2>2. CASE ~(k <= Len(s))
    <3>1. k - Len(s) \in 1..Len(t) /\ st[k] = t[k - Len(s)]
      BY <1>1, <2>2
    <3> QED
      BY <3>1 DEF AllLines
  <2> QED
    BY <2>1, <2>2
<1>3. AllLines(st)
  BY <1>2 DEF AllLines
<1> QED
  BY <1>1, <1>3 DEF st

IsLines(s, n) == s \in Seq(Statements) /\ Len(s) = n /\ AllLines(s)

LEMMA CommandLines == IsLines(mon_help, 3) /\ IsLines(mon_kerninfo, 7)
<1>1. ASSUME NEW s, NEW t, NEW n \in Nat, IsLines(s, n), IsLines(t, 1) PROVE IsLines(s \o t, n + 1)
  BY <1>1, LinesJoined DEF IsLines
<1>2. \A text \in Messages : \A arg \in Nat : IsLines(Say(text, arg), 1)
  BY SayIsLine DEF IsLines, Texts
<1>3. IsLines(mon_help, 3)
  <2>1. IsLines(Say("help", 0), 1)
    BY <1>2 DEF Messages
  <2>2. IsLines(Say("help", 0) \o Say("help", 0), 2)
    BY <1>1, <2>1
  <2>3. IsLines((Say("help", 0) \o Say("help", 0)) \o Say("help", 0), 3)
    BY <1>1, <2>1, <2>2
  <2> QED
    BY <2>3 DEF mon_help
<1>4. IsLines(mon_kerninfo, 7)
  <2> DEFINE a == Say("Special kernel symbols", 0)
             b(k) == Say("symbol", k)
             c == Say("footprint", 0)
  <2>1. IsLines(a, 1) /\ IsLines(c, 1)
    BY <1>2 DEF Messages
  <2>2. ASSUME NEW k \in Nat PROVE IsLines(b(k), 1)
    BY <1>2 DEF Messages
  <2>3. mon_kerninfo = a \o b(1) \o b(2) \o b(3) \o b(4) \o b(5) \o c
    BY DEF mon_kerninfo
  <2> HIDE DEF a, b, c
  <2>4. IsLines(a \o b(1), 2)
    BY <1>1, <2>1, <2>2
  <2>5. IsLines(a \o b(1) \o b(2), 3)
    BY <1>1, <2>4, <2>2
  <2>6. IsLines(a \o b(1) \o b(2) \o b(3), 4)
    BY <1>1, <2>5, <2>2
  <2>7. IsLines(a \o b(1) \o b(2) \o b(3) \o b(4), 5)
    BY <1>1, <2>6, <2>2
  <2>8. IsLines(a \o b(1) \o b(2) \o b(3) \o b(4) \o b(5), 6)
    BY <1>1, <2>7, <2>2
  <2>9. IsLines(a \o b(1) \o b(2) \o b(3) \o b(4) \o b(5) \o c, 7)
    BY <1>1, <2>8, <2>1
  <2> QED
    BY <2>3, <2>9
<1> QED
  BY <1>3, <1>4

(* What runcmd() does with the first word. *)
LEMMA LookupAnswers ==
  ParseInv /\ AnswerInv /\ StackInv /\ PlaceInv /\ Lookup => AnswerInv'
<1> SUFFICES ASSUME ParseInv, AnswerInv, StackInv, PlaceInv, Lookup PROVE AnswerInv'
  OBVIOUS
<1>1. /\ at = "lookup" /\ UNCHANGED <<printed, line, argc>> /\ printed = << >> /\ todo = << >>
      /\ at' \in {"done", "walk"}
  BY DEF Lookup, AnswerInv, parser
<1>2. /\ NumWords(line) = argc /\ (argc # 0 => FirstWord(line) = StringAt(argv[0]))
      /\ argc \in Nat /\ argc < MAXARGS
  <2>1. argc \in 0..(MAXARGS - 1)
    BY DEF ParseInv
  <2> QED
    BY <1>1, <2>1, LookupWord, Numbers
<1> DEFINE w == FirstWord(line)
<1>3. CASE argc = 0
  <2>1. at' = "done" /\ todo' = << >>
    BY <1>1, <1>3 DEF Lookup
  <2>2. Answered(line, << >>, << >>)
    BY <1>2, <1>3 DEF Answered, AllLines, Replies
  <2>3. Answered(line', printed', todo')
    BY <1>1, <2>1, <2>2
  <2> QED
    BY <1>1, <2>1, <2>3 DEF AnswerInv
<1>4. CASE argc # 0
  <2>1. LookedUp(line) /\ StringAt(argv[0]) = w
    BY <1>2, <1>4, Numbers DEF LookedUp
  <2> HIDE DEF w
  <2>2. CASE "mon_backtrace" \in Named(w)
    <3>1. at' = "walk" /\ Push("mon_backtrace", argc) /\ walk' = ebp' /\ todo' = Say(Title, 0)
      BY <1>4, <2>1, <2>2 DEF Lookup, Title
    <3>2. Names(line, "mon_backtrace")
      BY <2>1, <2>2 DEF Names, Named, w
    <3>3. ebp = 3 /\ calls[1][1] = "runcmd"
      BY <1>1 DEF PlaceInv, AtDepth
    <3>4. ebp' = 4 /\ frames'[4].ret = "runcmd"
      <4>1. 4 \in 0..Deepest /\ frames \in [0..Deepest -> Frames]
        BY DepthAssumption DEF Deepest, StackInv
      <4>2. ebp' = ebp + 1 /\ frames' = [frames EXCEPT ![ebp + 1] = [saved |-> ebp, ret |-> calls[1][1], arg |-> argc]]
        BY <3>1 DEF Push
      <4> QED
        BY <3>3, <4>1, <4>2
    <3>5. Len(todo') = 1 /\ Len(printed') = 0 /\ 4 - walk' = 0
      <4>1. Len(Say(Title, 0)) = 1
        BY SayIsLine DEF Texts, Messages, Title
      <4> QED
        BY <1>1, <3>1, <3>4, <4>1
    <3>6. Len(printed') = LinesAt(4 - walk', Len(todo'))
      BY <3>5 DEF LinesAt
    <3>7. Names(line', "mon_backtrace")
      BY <1>1, <3>2
    <3>8. Backtraces'
      BY <3>1, <3>4, <3>6, <3>7 DEF Backtraces
    <3> QED
      BY <3>1, <3>8 DEF AnswerInv
  <2>3. CASE "mon_backtrace" \notin Named(w)
    <3>1. /\ at' = "done"
          /\ "mon_help" \in Named(w) => todo' = mon_help
          /\ "mon_help" \notin Named(w) /\ "mon_kerninfo" \in Named(w) => todo' = mon_kerninfo
          /\ "mon_help" \notin Named(w) /\ "mon_kerninfo" \notin Named(w) => todo' = Say("Unknown command", 0)
      BY <1>4, <2>1, <2>3 DEF Lookup
    <3>2. Len(<< >>) = 0
      OBVIOUS
    <3>3. Answered(line, << >>, todo')
      <4>1. CASE "mon_help" \in Named(w)
        <5>1. Names(line, "mon_help")
          BY <2>1, <4>1 DEF Names, Named, w
        <5>2. AllLines(todo') /\ Lines(<< >>, todo') = 3
          <6>1. todo' = mon_help
            BY <3>1, <4>1, Zenon
          <6>2. AllLines(mon_help) /\ Len(mon_help) = 3
            BY CommandLines, Zenon DEF IsLines
          <6>3. AllLines(todo') /\ Len(todo') = 3
            BY <6>1, <6>2, Zenon
          <6> QED
            BY <3>2, <6>3 DEF Lines
        <5> QED
          BY <5>1, <5>2 DEF Answered, Replies
      <4>2. CASE "mon_help" \notin Named(w) /\ "mon_kerninfo" \in Named(w)
        <5>1. Names(line, "mon_kerninfo")
          BY <2>1, <4>2 DEF Names, Named, w
        <5>2. AllLines(todo') /\ Lines(<< >>, todo') = 7
          <6>1. todo' = mon_kerninfo
            BY <3>1, <4>2, Zenon
          <6>2. AllLines(mon_kerninfo) /\ Len(mon_kerninfo) = 7
            BY CommandLines, Zenon DEF IsLines
          <6>3. AllLines(todo') /\ Len(todo') = 7
            BY <6>1, <6>2, Zenon
          <6> QED
            BY <3>2, <6>3 DEF Lines
        <5> QED
          BY <5>1, <5>2 DEF Answered, Replies
      <4>3. CASE "mon_help" \notin Named(w) /\ "mon_kerninfo" \notin Named(w)
        <5>1. NamesNone(line)
          BY <2>1, <2>3, <4>3, CommandsAssumption DEF NamesNone, Named, w
        <5>2. AllLines(todo') /\ Len(todo') = 1 /\ Says(todo'[1], "Unknown command")
          BY <3>1, <4>3, SayIsLine DEF Texts, Messages
        <5>3. OnlySays(<< >>, todo', "Unknown command")
          BY <5>2, Zenon DEF OnlySays
        <5> QED
          BY <5>1, <5>2, <5>3, Zenon DEF Answered, Replies
      <4> QED
        BY <4>1, <4>2, <4>3
    <3>4. Answered(line', printed', todo')
      BY <1>1, <3>3
    <3> QED
      BY <3>1, <3>4 DEF AnswerInv
  <2> QED
    BY <2>2, <2>3
<1> QED
  BY <1>3, <1>4

(* A word too many. *)
LEMMA GobbleAnswers == ParseInv /\ AnswerInv /\ Gobble => AnswerInv'
<1> SUFFICES ASSUME ParseInv, AnswerInv, Gobble PROVE AnswerInv'
  OBVIOUS
<1>1. at = "gobble" /\ printed = << >> /\ todo = << >> /\ UNCHANGED <<printed, line>>
  BY DEF Gobble, AnswerInv
<1>2. /\ CutUp(line, buf, p) /\ Found(line, argv, argc, p) /\ Between(line, p)
      /\ argc \in Nat /\ Len(line) \in Nat /\ p \in Nat
  <2>1. argc \in 0..(MAXARGS - 1) /\ p \in 0..(BUFLEN - 1)
    BY DEF ParseInv
  <2> QED
    BY <1>1, <2>1, Numbers DEF ParseInv, CutUp
<1>3. CASE at' = "done"
  <2>1. buf[p] \notin WHITESPACE /\ buf[p] # 0 /\ argc = MAXARGS - 1 /\ todo' = Say("Too many arguments", 0)
    <3>1. CASE buf[p] \in WHITESPACE
      BY <1>1, <1>3, <3>1 DEF Gobble
    <3>2. CASE buf[p] \notin WHITESPACE /\ buf[p] = 0
      BY <1>3, <3>2 DEF Gobble
    <3>3. CASE buf[p] \notin WHITESPACE /\ buf[p] # 0
      BY <1>3, <3>3 DEF Gobble, TooMany
    <3> QED
      BY <3>1, <3>2, <3>3
  <2>2. p < Len(line) /\ line[p + 1] \notin WHITESPACE
    <3>1. (buf[p] = 0 <=> p = Len(line)) /\ p <= Len(line) /\ (p < Len(line) => buf[p] = line[p + 1])
      BY <1>2, CutFacts
    <3>2. buf[p] \notin WHITESPACE /\ buf[p] # 0
      BY <2>1
    <3>3. p < Len(line)
      BY <1>2, <3>1, <3>2
    <3> QED
      BY <3>1, <3>2, <3>3
  <2>3. NumWords(line) \in Nat /\ NumWords(line) >= MAXARGS
    <3>1. Cardinality(WordStarts(line)) \in Nat /\ argc + 1 <= Cardinality(WordStarts(line))
      BY <1>2, <2>2, OneWordMore
    <3>2. argc = MAXARGS - 1 /\ MAXARGS \in Nat
      BY <2>1, Numbers
    <3>3. Cardinality(WordStarts(line)) >= MAXARGS
      BY <1>2, <3>1, <3>2
    <3> QED
      BY <3>1, <3>3 DEF NumWords
  <2>4. AllLines(todo') /\ Len(todo') = 1 /\ Says(todo'[1], "Too many arguments")
    BY <2>1, SayIsLine DEF Texts, Messages
  <2>5. OnlySays(<< >>, todo', "Too many arguments")
    BY <2>4, Zenon DEF OnlySays
  <2>6. Answered(line, << >>, todo')
    BY <2>3, <2>4, <2>5, Zenon DEF Answered, Replies
  <2>7. Answered(line', printed', todo')
    BY <1>1, <2>6
  <2> QED
    BY <1>3, <2>7 DEF AnswerInv
<1>4. CASE at' # "done"
  <2>1. at' \in {"gobble", "lookup", "scan"} /\ todo' = todo
    <3>1. CASE buf[p] \in WHITESPACE
      BY <1>1, <3>1, ArgsAssumption DEF Gobble
    <3>2. CASE buf[p] \notin WHITESPACE /\ buf[p] = 0
      BY <3>2 DEF Gobble
    <3>3. CASE buf[p] \notin WHITESPACE /\ buf[p] # 0
      BY <1>4, <3>3 DEF Gobble
    <3> QED
      BY <3>1, <3>2, <3>3
  <2> QED
    BY <1>1, <2>1 DEF AnswerInv
<1> QED
  BY <1>3, <1>4

(* One statement is executed. *)
LEMMA OutputAnswers ==
  ColourInv /\ WalkInv /\ ReadInv /\ StackInv /\ AnswerInv /\ Output => AnswerInv'
<1> SUFFICES ASSUME ColourInv, WalkInv, ReadInv, StackInv, AnswerInv, Output PROVE AnswerInv'
  OBVIOUS
<1> DEFINE st == Head(todo)
           new == [text |-> st.text, arg |-> st.arg, attr |-> Attribute(colours.bg, colours.fg, Glyph)]
<1>1. /\ todo # << >> /\ todo' = Tail(todo) /\ UNCHANGED <<at, ebp, calls, frames, walk, line, argc>>
      /\ st.op = "colour" => UNCHANGED printed
      /\ st.op # "colour" => printed' = Append(printed, new)
  BY DEF Output, stack, parser
<1>2. printed \in Seq(Printed) /\ todo \in Seq(Statements)
  BY DEF ColourInv, Coloured
<1>3. Says(new, st.text)
  BY DEF Says
<1> HIDE DEF new
<1>4. at \notin {"readline", "gobble", "scan", "lookup", "walked"}
  BY <1>1 DEF AnswerInv, ReadInv
<1>5. Quiet' <=> Quiet
  BY <1>1 DEF Quiet
<1>6. CASE Quiet
  BY <1>1, <1>4, <1>5, <1>6 DEF AnswerInv
<1>7. CASE ~Quiet /\ at \in {"done", "prompt"}
  <2>1. Answered(line, printed, todo)
    BY <1>7 DEF AnswerInv
  <2>2. st.op = "print" /\ Answered(line, Append(printed, new), Tail(todo))
    BY <1>1, <1>2, <1>3, <2>1, AnsweredOn
  <2>3. Answered(line', printed', todo')
    BY <1>1, <2>2
  <2> QED
    BY <1>1, <1>4, <1>7, <2>3 DEF AnswerInv
<1>8. CASE ~Quiet /\ at = "walk"
  <2>1. Backtraces
    BY <1>8 DEF AnswerInv
  <2>2. /\ Len(printed) \in Nat /\ Len(Append(printed, new)) = Len(printed) + 1
        /\ Len(todo) \in Nat /\ Len(todo') = Len(todo) - 1
    BY <1>1, <1>2, OneMore
  <2>3. Len(printed') = LinesAt(4 - walk, Len(todo'))
    <3>1. Len(printed) = LinesAt(4 - walk, Len(todo)) /\ ebp = 4 /\ walk \in 0..4
      BY <1>8, <2>1 DEF Backtraces, WalkInv
    <3>2. CASE walk = ebp /\ todo = Say(Title, 0)
      <4>1. todo = <<cprintf(Title, 0)>>
        BY <3>2 DEF Say
      <4>2. st.op = "print" /\ Len(todo) = 1 /\ 4 - walk = 0
        BY <3>1, <3>2, <4>1 DEF cprintf
      <4>3. Len(printed') = Len(printed) + 1
        BY <1>1, <2>2, <4>2
      <4>4. Len(printed) = 0
        BY <3>1, <4>2 DEF LinesAt
      <4>5. Len(printed') = 1 /\ Len(todo') = 0
        BY <2>2, <4>2, <4>3, <4>4
      <4> QED
        BY <4>2, <4>5 DEF LinesAt
    <3>3. ASSUME NEW k \in 0..7, walk < ebp, Rest(todo, k, calls[ebp - walk][2], Caller(calls, ebp - walk))
          PROVE  Len(printed') = LinesAt(4 - walk, Len(todo'))
      <4>1. k \in 0..6 /\ Begins(todo, k, calls[ebp - walk][2], Caller(calls, ebp - walk)) /\ Len(todo) = 7 - k
        <5>1. Len(todo) = 7 - k
          BY <3>3 DEF Rest
        <5> QED
          BY <1>1, <3>3, <5>1, RestTail
      <4>2. /\ k \in {2, 5} => Len(printed') = Len(printed) + 1
            /\ k \notin {2, 5} => Len(printed') = Len(printed)
        BY <1>1, <2>2, <4>1 DEF Begins, Puts, cprintf
      <4>3. 4 - walk \in Nat /\ 4 - walk # 0
        BY <3>1, <3>3
      <4>4. /\ k \in {2, 5} => LinesAt(4 - walk, 6 - k) = LinesAt(4 - walk, 7 - k) + 1
            /\ k \notin {2, 5} => LinesAt(4 - walk, 6 - k) = LinesAt(4 - walk, 7 - k)
        BY <4>1, <4>3 DEF LinesAt
      <4> QED
        BY <2>2, <3>1, <4>1, <4>2, <4>4
    <3> QED
      BY <1>1, <1>8, <3>2, <3>3 DEF WalkInv, Title
  <2>4. Backtraces'
    BY <1>1, <1>8, <2>1, <2>3 DEF Backtraces
  <2> QED
    BY <1>1, <1>8, <2>4 DEF AnswerInv
<1>9. CASE ~Quiet /\ at \notin {"done", "prompt", "walk"}
  BY <1>1, <1>4, <1>9 DEF AnswerInv
<1> QED
  BY <1>6, <1>7, <1>8, <1>9

(* A backtrace comes to a frame, to its end, or returns. *)
LEMMA FrameAnswers == WalkInv /\ StackInv /\ AnswerInv /\ BacktraceFrame => AnswerInv'
<1> SUFFICES ASSUME WalkInv, StackInv, AnswerInv, BacktraceFrame PROVE AnswerInv'
  OBVIOUS
<1>1. /\ at = "walk" /\ at' \in {"walk", "walked"} /\ todo = << >> /\ UNCHANGED <<ebp, frames, printed, line, argc>>
      /\ walk \in 0..ebp
  BY DEF BacktraceFrame, stack, parser, WalkInv
<1>2. CASE Quiet
  <2>1. Quiet'
    BY <1>1, <1>2 DEF Quiet
  <2> QED
    BY <1>1, <2>1 DEF AnswerInv
<1>3. CASE ~Quiet
  <2>1. Backtraces
    BY <1>1, <1>3 DEF AnswerInv
  <2>2. Len(printed) = LinesAt(4 - walk, 0) /\ ebp = 4 /\ walk \in 0..4
    <3>1. Len(todo) = 0
      BY <1>1
    <3> QED
      BY <1>1, <2>1, <3>1 DEF Backtraces
  <2>3. CASE walk = 0
    <3>1. at' = "walked"
      BY <2>3 DEF BacktraceFrame, Bottom
    <3>2. Len(printed') = 9
      <4>1. LinesAt(4 - 0, 0) = 9
        BY DEF LinesAt
      <4> QED
        BY <1>1, <2>2, <2>3, <4>1
    <3>3. Backtraces'
      BY <1>1, <2>1, <3>1, <3>2 DEF Backtraces
    <3> QED
      BY <3>1, <3>3 DEF AnswerInv
  <2>4. CASE walk # 0
    <3>1. at' = "walk" /\ walk' = frames[walk].saved /\ todo' = ShowFrame \o ShowCaller
      BY <2>4 DEF BacktraceFrame, Bottom
    <3>2. frames[walk].saved = walk - 1 /\ frames[walk].arg \in Nat /\ frames[walk].ret \in Functions
      <4>1. walk \in 1..ebp /\ walk \in 0..Deepest /\ frames \in [0..Deepest -> Frames]
        BY <2>2, <2>4 DEF StackInv
      <4>2. frames[walk].saved = walk - 1
        BY <4>1 DEF StackInv
      <4> QED
        BY <4>1, <4>2 DEF Frames
    <3>3. Len(todo') = 7
      <4>1. Rest(InColours(BLUE, WHITE, "frame", frames[walk].arg)
                 \o InColour(YELLOW, frames[walk].ret, 0), 0, frames[walk].arg, frames[walk].ret)
        BY <3>2, RestStart, Zenon
      <4>2. Rest(todo', 0, frames[walk].arg, frames[walk].ret)
        BY <3>1, <4>1 DEF ShowFrame, ShowCaller
      <4> QED
        BY <4>2 DEF Rest
    <3>4. LinesAt(4 - walk', 7) = LinesAt(4 - walk, 0)
      <4>1. 4 - walk' = (4 - walk) + 1 /\ 4 - walk \in Nat
        BY <2>2, <3>1, <3>2
      <4>2. \A d \in Nat : LinesAt(d + 1, 7) = LinesAt(d, 0)
        BY DEF LinesAt
      <4> QED
        BY <4>1, <4>2
    <3>5. Len(printed') = LinesAt(4 - walk', Len(todo'))
      BY <1>1, <2>2, <3>3, <3>4
    <3>6. Backtraces'
      BY <1>1, <2>1, <3>1, <3>5 DEF Backtraces
    <3> QED
      BY <3>1, <3>6 DEF AnswerInv
  <2> QED
    BY <2>3, <2>4
<1> QED
  BY <1>2, <1>3

LEMMA ReturnAnswers == ReadInv /\ AnswerInv /\ BacktraceReturns => AnswerInv'
<1> SUFFICES ASSUME ReadInv, AnswerInv, BacktraceReturns PROVE AnswerInv'
  OBVIOUS
<1>1. /\ at = "walked" /\ todo = << >> /\ UNCHANGED <<todo, printed, line, argc>>
      /\ at' = IF frames[ebp].ret = "test_backtrace" THEN "leave" ELSE "done"
  BY DEF BacktraceReturns, parser
<1>2. CASE Quiet
  <2>1. Quiet'
    BY <1>1, <1>2 DEF Quiet
  <2> QED
    BY <1>1, <2>1 DEF AnswerInv
<1>3. CASE ~Quiet
  <2>1. ebp = 4 /\ frames[4].ret = "runcmd" /\ Names(line, "mon_backtrace") /\ Len(printed) = 9
    BY <1>1, <1>3 DEF AnswerInv, Backtraces
  <2>2. at' = "done"
    BY <1>1, <2>1
  <2>3. Answered(line, printed, << >>)
    <3>1. AllLines(<< >>) /\ Lines(printed, << >>) = 9
      <4>1. Len(<< >>) = 0
        OBVIOUS
      <4> QED
        BY <2>1, <4>1 DEF AllLines, Lines
    <3> QED
      BY <2>1, <3>1 DEF Answered, Replies
  <2>4. Answered(line', printed', todo')
    BY <1>1, <2>3
  <2> QED
    BY <2>2, <2>4 DEF AnswerInv
<1> QED
  BY <1>2, <1>3

(* No other step gives an answer or takes one back. *)
LEMMA AnswerStep ==
  ColourInv /\ StackInv /\ PlaceInv /\ ReadInv /\ ParseInv /\ WalkInv /\ AnswerInv /\ [Next]_vars => AnswerInv'
<1> SUFFICES ASSUME ColourInv, StackInv, PlaceInv, ReadInv, ParseInv, WalkInv, AnswerInv, [Next]_vars
             PROVE  AnswerInv'
  OBVIOUS
<1>1. CASE Output
  BY <1>1, OutputAnswers
<1>2. CASE FirstLine \/ Entering \/ CallBacktrace \/ Leaving \/ Welcome
  <2>1. /\ at \in {"init", "test", "leaf", "leave", "welcome"} /\ UNCHANGED <<argc, line>>
        /\ at' \notin {"readline", "gobble", "scan", "lookup"}
    BY <1>2 DEF FirstLine, Entering, CallBacktrace, Leaving, Welcome, Step, parser
  <2>2. Quiet'
    BY <2>1 DEF AnswerInv, Quiet
  <2> QED
    BY <2>1, <2>2 DEF AnswerInv
<1>3. CASE BacktraceFrame
  BY <1>3, FrameAnswers
<1>4. CASE BacktraceReturns
  BY <1>4, ReturnAnswers
<1>5. CASE CallReadline
  BY <1>5 DEF CallReadline, AnswerInv
<1>6. CASE RunCmd \/ Scan \/ Reading
  <2>1. /\ at \in {"readline", "scan"} /\ at' \in {"readline", "gobble", "scan"} /\ UNCHANGED <<printed, todo>>
    BY <1>6 DEF RunCmd, Scan, Reading
  <2> QED
    BY <2>1 DEF AnswerInv
<1>7. CASE Gobble
  BY <1>7, GobbleAnswers
<1>8. CASE Lookup
  BY <1>8, LookupAnswers
<1>9. CASE RunCmdReturns
  <2>1. at = "done" /\ at' = "prompt" /\ UNCHANGED <<todo, printed, line, argc>>
    BY <1>9 DEF RunCmdReturns, Step, parser
  <2>2. Quiet \/ Answered(line, printed, todo)
    BY <2>1 DEF AnswerInv
  <2>3. Quiet' \/ Answered(line', printed', todo')
    BY <2>1, <2>2 DEF Quiet
  <2> QED
    BY <2>1, <2>3 DEF AnswerInv
<1>10. CASE UNCHANGED vars
  <2>1. UNCHANGED <<at, todo, printed, line, argc, ebp, frames, walk>>
    BY <1>10 DEF vars, stack, parser
  <2>2. (Quiet' <=> Quiet) /\ (Backtraces' <=> Backtraces)
        /\ (Answered(line', printed', todo') <=> Answered(line, printed, todo))
    BY <2>1 DEF Quiet, Backtraces
  <2> QED
    BY <2>1, <2>2 DEF AnswerInv
<1> QED
  BY <1>1, <1>2, <1>3, <1>4, <1>5, <1>6, <1>7, <1>8, <1>9, <1>10 DEF Next, Kernel

(* Between two lines all of the answer is on the screen. *)
LEMMA OnlyText ==
  ASSUME NEW pr, NEW text, OnlySays(pr, << >>, text)
  PROVE  {pr[k].text : k \in 1..Len(pr)} = {text}
<1>1. Len(<< >>) = 0
  OBVIOUS
<1>2. Len(pr) = 1 /\ Says(pr[1], text)
  BY <1>1 DEF OnlySays
<1>3. 1..Len(pr) = {1}
  BY <1>2
<1>4. {pr[k].text : k \in 1..Len(pr)} = {pr[1].text}
  BY <1>3
<1> QED
  BY <1>2, <1>4 DEF Says

LEMMA AnswerFollows == AnswerInv /\ ColourInv => Responds
<1> SUFFICES ASSUME AnswerInv, ColourInv, at = "prompt", todo = << >>, argc + Len(line) > 0
             PROVE  LET n == Cardinality(WordStarts(line))
                        texts == {printed[k].text : k \in 1..Len(printed)}
                    IN  CASE n = 0 -> printed = << >>
                          [] n >= MAXARGS -> texts = {"Too many arguments"}
                          [] n \in 1..(MAXARGS - 1) /\ FirstWord(line) = commands["mon_help"] -> Len(printed) = 3
                          [] n \in 1..(MAXARGS - 1) /\ FirstWord(line) = commands["mon_kerninfo"] -> Len(printed) = 7
                          [] n \in 1..(MAXARGS - 1) /\ FirstWord(line) = commands["mon_backtrace"] -> Len(printed) = 9
                          [] OTHER -> texts = {"Unknown command"}
  BY DEF Responds
<1> DEFINE n == NumWords(line)
           w == FirstWord(line)
           texts == {printed[k].text : k \in 1..Len(printed)}
           h == commands["mon_help"]
           i1 == commands["mon_kerninfo"]
           b == commands["mon_backtrace"]
           many == texts = {"Too many arguments"}
           none == texts = {"Unknown command"}
<1>1. ~Quiet
  <2>1. SUFFICES ASSUME argc = 0, line = << >> PROVE FALSE
    BY DEF Quiet
  <2>2. Len(line) = 0
    BY <2>1
  <2> QED
    BY <2>1, <2>2
<1>2. Replies(line, printed, << >>)
  BY <1>1 DEF AnswerInv, Answered
<1>3. h # i1 /\ h # b /\ i1 # b
  BY CommandsAssumption
<1>4. Len(<< >>) = 0 /\ MAXARGS \in Nat /\ MAXARGS > 1
  BY Numbers
<1>5. \/ n = 0 /\ printed = << >>
      \/ n \in Nat /\ n >= MAXARGS /\ many
      \/ n \in 1..(MAXARGS - 1) /\ w = h /\ Len(printed) = 3
      \/ n \in 1..(MAXARGS - 1) /\ w = i1 /\ Len(printed) = 7
      \/ n \in 1..(MAXARGS - 1) /\ w = b /\ Len(printed) = 9
      \/ n \in 1..(MAXARGS - 1) /\ w # h /\ w # i1 /\ w # b /\ none
  <2>1. OnlySays(printed, << >>, "Too many arguments") => many
    BY OnlyText
  <2>2. OnlySays(printed, << >>, "Unknown command") => none
    BY OnlyText
  <2>3. Lines(printed, << >>) = Len(printed)
    <3>1. Len(printed) \in Nat
      BY DEF ColourInv
    <3> QED
      BY <1>4, <3>1 DEF Lines
  <2>4. \A f \in {"mon_help", "mon_kerninfo", "mon_backtrace"} : f \in DOMAIN commands
    BY CommandsAssumption
  <2> QED
    BY <1>2, <2>1, <2>2, <2>3, <2>4 DEF Replies, Names, NamesNone, LookedUp
<1>6. n = Cardinality(WordStarts(line))
  BY DEF NumWords
<1> HIDE DEF n, w, texts, h, i1, b, many, none
<1>7. (CASE n = 0 -> printed = << >>
        [] n >= MAXARGS -> many
        [] n \in 1..(MAXARGS - 1) /\ w = h -> Len(printed) = 3
        [] n \in 1..(MAXARGS - 1) /\ w = i1 -> Len(printed) = 7
        [] n \in 1..(MAXARGS - 1) /\ w = b -> Len(printed) = 9
        [] OTHER -> none)
  <2>1. CASE n = 0 /\ printed = << >>
    <3>1. ~(n >= MAXARGS) /\ n \notin 1..(MAXARGS - 1)
      BY <1>4, <2>1
    <3> QED
      BY <2>1, <3>1
  <2>2. CASE n \in Nat /\ n >= MAXARGS /\ many
    <3>1. n # 0 /\ n \notin 1..(MAXARGS - 1)
      BY <1>4, <2>2
    <3> QED
      BY <2>2, <3>1
  <2>3. ASSUME n \in 1..(MAXARGS - 1) PROVE n # 0 /\ ~(n >= MAXARGS)
    BY <1>4, <2>3
  <2>4. CASE n \in 1..(MAXARGS - 1) /\ w = h /\ Len(printed) = 3
    BY <1>3, <2>3, <2>4
  <2>5. CASE n \in 1..(MAXARGS - 1) /\ w = i1 /\ Len(printed) = 7
    BY <1>3, <2>3, <2>5
  <2>6. CASE n \in 1..(MAXARGS - 1) /\ w = b /\ Len(printed) = 9
    BY <1>3, <2>3, <2>6
  <2>7. CASE n \in 1..(MAXARGS - 1) /\ w # h /\ w # i1 /\ w # b /\ none
    BY <2>3, <2>7
  <2> QED
    BY <1>5, <2>1, <2>2, <2>4, <2>5, <2>6, <2>7
<1> QED
  BY <1>6, <1>7 DEF w, texts, h, i1, b, many, none

-----------------------------------------------------------------------------
(* All of it together is inductive. *)
Inv == ColourInv /\ StackInv /\ PlaceInv /\ ReadInv /\ ParseInv /\ WalkInv /\ AnswerInv /\ LineOnScreen

LEMMA InvInit == Init => Inv
<1> SUFFICES ASSUME Init PROVE Inv
  OBVIOUS
<1>1. /\ at = "init" /\ pc = "idle" /\ todo = << >> /\ walk = 0 /\ printed = << >>
      /\ ebp = 1 /\ p = 0 /\ argc = 0 /\ i = 0 /\ colours = [bg |-> 0, fg |-> 0]
      /\ argv = [k \in 0..(MAXARGS - 1) |-> NULL]
  BY DEF Init, ReadlineInit
<1>2. ColourInv
  <2>1. << >> \in Seq(Printed) /\ Len(<< >>) = 0
    OBVIOUS
  <2>2. Coloured(colours, todo)
    BY <1>1, ColouredEmpty DEF Hue
  <2> QED
    BY <1>1, <2>1, <2>2 DEF ColourInv, InOwnColours
<1>3. calls = <<<<"i386_init", 0>>>>
  BY DEF Init
<1>4. StackInv
  <2>1. Deepest \in Nat /\ 1 \in 0..Deepest /\ 1 \in 1..Deepest /\ 0 \in 0..Deepest
    BY DepthAssumption DEF Deepest
  <2>2. "entry" \in Functions /\ "i386_init" \in Functions
    BY DEF Functions
  <2>3. frames = [d \in 0..Deepest |-> [saved |-> 0, ret |-> "entry", arg |-> 0]]
    BY DEF Init
  <2>4. frames \in [0..Deepest -> Frames]
    <3>1. [saved |-> 0, ret |-> "entry", arg |-> 0] \in Frames
      BY <2>1, <2>2 DEF Frames
    <3> QED
      BY <2>3, <3>1
  <2>5. calls \in Seq(Functions \X Nat) /\ Len(calls) = 1 /\ calls[1] = <<"i386_init", 0>>
    <3>1. <<"i386_init", 0>> \in Functions \X Nat
      BY <2>2
    <3> QED
      BY <1>3, <3>1
  <2>6. frames[1] = [saved |-> 0, ret |-> "entry", arg |-> 0]
    BY <2>1, <2>3
  <2>7. AtDepth(1) = <<"i386_init", 0>>
    BY <1>1, <2>5 DEF AtDepth
  <2>8. ASSUME NEW d \in 1..ebp
        PROVE  /\ frames[d].saved = d - 1
               /\ frames[d].ret = IF d = 1 THEN "entry" ELSE AtDepth(d - 1)[1]
               /\ frames[d].arg = AtDepth(d)[2]
    <3>1. d = 1
      BY <1>1
    <3> QED
      BY <2>6, <2>7, <3>1
  <2> QED
    BY <1>1, <2>1, <2>4, <2>5, <2>8 DEF StackInv
<1>5. PlaceInv
  <2>1. AtDepth(1) = <<"i386_init", 0>>
    BY <1>1, <1>3 DEF AtDepth
  <2> QED
    BY <1>1, <2>1 DEF PlaceInv, Places, Boot
<1>6. ReadInv
  <2>1. scr \in Screens
    BY DEF Init, ReadlineInit, Screens, Cells, Blank, Cell, SPACE
  <2>2. buf \in [0..(BUFLEN - 1) -> 0..255] /\ 0 \in 0..(BUFLEN - 1)
    BY Numbers DEF Init, ReadlineInit
  <2>3. ReadlineTypeOK
    BY <1>1, <2>1, <2>2 DEF ReadlineTypeOK
  <2> QED
    BY <1>1, <2>3 DEF ReadInv, Returned
<1>7. ParseInv
  <2>1. argv \in [0..(MAXARGS - 1) -> Pointers]
    BY <1>1 DEF Pointers
  <2>2. p \in 0..(BUFLEN - 1) /\ argc \in 0..(MAXARGS - 1) /\ at = "init"
    BY <1>1, Numbers
  <2>3. \A k \in 0..(argc - 1) : FALSE
    <3>1. argc = 0
      BY <1>1
    <3> QED
      BY <3>1
  <2> QED
    BY <2>1, <2>2, <2>3 DEF ParseInv
<1>8. WalkInv /\ LineOnScreen
  BY <1>1 DEF WalkInv, LineOnScreen
<1>9. AnswerInv
  BY <1>1 DEF AnswerInv, Quiet, Init
<1> QED
  BY <1>2, <1>4, <1>5, <1>6, <1>7, <1>8, <1>9 DEF Inv

LEMMA InvStep == Inv /\ [Next]_vars => Inv'
<1> SUFFICES ASSUME Inv, [Next]_vars PROVE Inv'
  OBVIOUS
<1>1. ColourInv /\ StackInv /\ PlaceInv /\ ReadInv /\ ParseInv /\ WalkInv /\ AnswerInv /\ LineOnScreen
  BY DEF Inv
<1>2. argc \in Nat /\ p \in 0..(BUFLEN - 1)
  BY <1>1, Numbers DEF ParseInv
<1>3. StackInv' /\ PlaceInv' /\ ColourInv' /\ ReadInv' /\ ParseInv' /\ WalkInv' /\ LineOnScreen'
  BY <1>1, <1>2, StackStep, ColourStep, ReadStep, ParseStep, WalkStep, DisplayStep
<1>4. AnswerInv'
  BY <1>1, AnswerStep
<1> QED
  BY <1>3, <1>4 DEF Inv

LEMMA Invariance == Spec => []Inv
  BY InvInit, InvStep, PTL DEF Spec

(* Types; in particular i and p never leave the line buffer, argc stays below
   MAXARGS, and the stack is never deeper than its deepest chain of calls. *)
THEOREM TypeCorrect == Spec => []TypeOK
<1>1. Inv => TypeOK
  BY DEF Inv, TypeOK, ReadInv, StackInv, PlaceInv, ParseInv, Pointers
<1> QED
  BY <1>1, Invariance, PTL

(* The prompt and the line in the buffer are what the cells before the cursor
   show, for every screen, every prompt that fits and every sequence of keys. *)
THEOREM LineIsOnScreen == Spec => []LineOnScreen
<1>1. Inv => LineOnScreen
  BY DEF Inv
<1> QED
  BY <1>1, Invariance, PTL

(* The pointers that runcmd() hands to a command are to the words of the line
   that readline() returned, each ended by a NUL, in order, and a NULL behind. *)
THEOREM ArgvAreWords == Spec => []ArgvIsWords
<1>1. Inv => ArgvIsWords
  BY ArgvFollows DEF Inv
<1> QED
  BY <1>1, Invariance, PTL

(* mon_backtrace() lists every active function once, innermost first, with its
   argument and its caller, whatever the depth of the stack. *)
THEOREM BacktraceIsComplete == Spec => []BacktraceLists
<1>1. Inv => BacktraceLists
  BY WalkFollows DEF Inv
<1> QED
  BY <1>1, Invariance, PTL

(* The monitor answers every line, whatever its words: a blank one with nothing,
   one of too many words and one whose first word names no command with one line
   each, and any other with all that the command has to say, and nothing else. *)
THEOREM EveryLineIsAnswered == Spec => []Responds
<1>1. Inv => Responds
  BY AnswerFollows DEF Inv
<1> QED
  BY <1>1, Invariance, PTL

(* No line is printed in the colours that another function has left behind. *)
THEOREM ColoursAreOwn == Spec => []InOwnColours
<1>1. Inv => InOwnColours
  BY DEF Inv, ColourInv
<1> QED
  BY <1>1, Invariance, PTL

-----------------------------------------------------------------------------
(* readline() implements LineEditor.  The line of n characters in b, with one
   more, with one less, and none. *)
LEMMA LineParts ==
  ASSUME NEW b \in Buffers, NEW n \in 0..BUFLEN
  PROVE  LineOf(b, n) \in Seq(0..255) /\ Len(LineOf(b, n)) = n /\ \A k \in 1..n : LineOf(b, n)[k] = b[k - 1]
<1>1. \A k \in 1..n : b[k - 1] \in 0..255
  BY Numbers DEF Buffers
<1> QED
  BY <1>1, Numbers DEF LineOf

LEMMA NoLine ==
  ASSUME NEW b \in Buffers
  PROVE  LineOf(b, 0) = << >>
<1>1. 0 \in 0..BUFLEN
  BY Numbers
<1>2. LineOf(b, 0) \in Seq(0..255) /\ Len(LineOf(b, 0)) = 0
  BY <1>1, LineParts
<1> QED
  BY <1>2, EmptySeq

LEMMA LineGrows ==
  ASSUME NEW b \in Buffers, NEW n \in 0..(BUFLEN - 2), NEW ch \in 0..255
  PROVE  LineOf([b EXCEPT ![n] = ch], n + 1) = Append(LineOf(b, n), ch)
<1> DEFINE d == [b EXCEPT ![n] = ch]
           s == LineOf(b, n)
           t == LineOf(d, n + 1)
           u == Append(s, ch)
<1>1. n \in 0..BUFLEN /\ n + 1 \in 0..BUFLEN /\ n \in 0..(BUFLEN - 1) /\ n \in Nat
  BY Numbers
<1>2. d \in Buffers /\ d[n] = ch /\ \A k \in 0..(n - 1) : d[k] = b[k]
  <2>1. b \in [0..(BUFLEN - 1) -> 0..255]
    BY DEF Buffers
  <2>2. d \in [0..(BUFLEN - 1) -> 0..255] /\ \A k \in 0..(BUFLEN - 1) : d[k] = IF k = n THEN ch ELSE b[k]
    BY <1>1, <2>1
  <2>3. \A k \in 0..(n - 1) : k \in 0..(BUFLEN - 1) /\ k # n
    BY <1>1, Numbers
  <2> HIDE DEF d
  <2> QED
    BY <1>1, <2>2, <2>3 DEF Buffers
<1> HIDE DEF d
<1>3. s \in Seq(0..255) /\ Len(s) = n /\ \A k \in 1..n : s[k] = b[k - 1]
  BY <1>1, LineParts
<1>4. t \in Seq(0..255) /\ Len(t) = n + 1 /\ \A k \in 1..(n + 1) : t[k] = d[k - 1]
  BY <1>1, <1>2, LineParts
<1> HIDE DEF s, t
<1>5. u \in Seq(0..255) /\ Len(u) = n + 1 /\ u[n + 1] = ch /\ \A k \in 1..n : u[k] = s[k]
  BY <1>3
<1> HIDE DEF u
<1>6. ASSUME NEW k \in 1..(n + 1) PROVE t[k] = u[k]
  <2>1. CASE k = n + 1
    <3>1. k - 1 = n
      BY <1>1, <2>1
    <3> QED
      BY <1>2, <1>4, <1>5, <2>1, <3>1
  <2>2. CASE k # n + 1
    <3>1. k \in 1..n /\ k - 1 \in 0..(n - 1)
      BY <1>1, <2>2
    <3> QED
      BY <1>2, <1>3, <1>4, <1>5, <3>1
  <2> QED
    BY <2>1, <2>2
<1>7. t = u
  BY <1>4, <1>5, <1>6, SeqEqual
<1> QED
  BY <1>7 DEF d, s, t, u

LEMMA LineShrinks ==
  ASSUME NEW b \in Buffers, NEW n \in 1..(BUFLEN - 1)
  PROVE  LineOf(b, n - 1) = SubSeq(LineOf(b, n), 1, n - 1)
<1> DEFINE s == LineOf(b, n)
           t == LineOf(b, n - 1)
           u == SubSeq(s, 1, n - 1)
<1>1. n \in 0..BUFLEN /\ n - 1 \in 0..BUFLEN /\ n - 1 \in Int /\ n \in Nat
  BY Numbers
<1>2. s \in Seq(0..255) /\ Len(s) = n /\ \A k \in 1..n : s[k] = b[k - 1]
  BY <1>1, LineParts
<1>3. t \in Seq(0..255) /\ Len(t) = n - 1 /\ \A k \in 1..(n - 1) : t[k] = b[k - 1]
  BY <1>1, LineParts
<1> HIDE DEF s, t
<1>4. ASSUME NEW k \in 1..(n - 1) PROVE s[k] \in 0..255 /\ s[k] = b[k - 1]
  <2>1. k \in 1..n /\ k \in 1..Len(s)
    BY <1>1, <1>2
  <2> QED
    BY <1>2, <2>1, ElementOfSeq
<1>5. /\ u \in Seq(0..255) /\ Len(u) = (IF 1 <= n - 1 THEN (n - 1) - 1 + 1 ELSE 0)
      /\ \A k \in 1..((n - 1) - 1 + 1) : u[k] = s[1 + k - 1]
  BY <1>1, <1>4, SubSeqProperties
<1> HIDE DEF u
<1>6. Len(u) = n - 1 /\ \A k \in 1..(n - 1) : u[k] = s[k]
  BY <1>1, <1>5
<1>7. \A k \in 1..(n - 1) : t[k] = u[k]
  BY <1>3, <1>4, <1>6
<1>8. t = u
  BY <1>3, <1>5, <1>6, <1>7, SeqEqual
<1> QED
  BY <1>8 DEF s, t, u

(* The string that ends at e. *)
EndsAt(e) == e \in 0..(BUFLEN - 1) /\ buf[e] = 0 /\ \A k \in 0..(e - 1) : buf[k] # 0

LEMMA StringEnds ==
  ASSUME NEW e
  PROVE  EndsAt(e) => StringAt(0) = LineOf(buf, e)
<1> SUFFICES ASSUME EndsAt(e) PROVE StringAt(0) = LineOf(buf, e)
  OBVIOUS
<1>1. 0 \in 0..(BUFLEN - 1) /\ e \in 0..(BUFLEN - 1) /\ buf[e] = 0 /\ \A k \in 0..(e - 1) : buf[k] # 0
  BY Numbers DEF EndsAt
<1>2. StringAt(0) = [k \in 1..(e - 0) |-> buf[0 + k - 1]]
  BY <1>1, StringFound
<1>3. e - 0 = e /\ \A k \in 1..e : 0 + k - 1 = k - 1
  BY <1>1, Numbers
<1> QED
  BY <1>2, <1>3 DEF LineOf

LEMMA StringEndsNext ==
  ASSUME NEW e
  PROVE  EndsAt(e)' => StringAt(0)' = LineOf(buf', e)
<1>1. EndsAt(e) => StringAt(0) = LineOf(buf, e)
  BY StringEnds
<1>2. (StringAt(0) = LineOf(buf, e))' <=> StringAt(0)' = LineOf(buf', e)
  BY DEF LineOf
<1> QED
  BY <1>1, <1>2, PTL

(* What the editor's variables stand for. *)
EdEditing == pc # "idle"
EdLine == IF pc = "getchar" THEN LineOf(buf, i) ELSE << >>
EdResult == IF Returned THEN StringAt(0) ELSE << >>
EdStays == UNCHANGED <<EdEditing, EdLine, EdResult>>

LEMMA EditorInit == Init => Editor!Init
  BY DEF Init, ReadlineInit, Editor!Init, Returned

(* One step of the kernel or of readline() as a step of the editor. *)
LEMMA EditorKernel == Inv /\ Kernel => EdStays \/ Editor!Start \/ Editor!Use
<1> SUFFICES ASSUME Inv, Kernel PROVE EdStays \/ Editor!Start \/ Editor!Use
  OBVIOUS
<1>1. ReadInv /\ pc = "idle" /\ (pc' = "idle" \/ CallReadline)
  BY OnlyReading DEF Inv
<1>2. CASE CallReadline
  <2>1. pc' = "prompt"
    BY <1>2 DEF CallReadline, Call
  <2> QED
    BY <1>1, <2>1 DEF Editor!Start, Returned
<1>3. CASE RunCmd
  <2>1. pc' = "idle" /\ at' = "gobble"
    BY <1>1, <1>3 DEF RunCmd, readlineVars
  <2> QED
    BY <1>1, <2>1 DEF Editor!Use, Returned
<1>4. CASE ~CallReadline /\ ~RunCmd
  <2>1. at # "readline" /\ at' # "readline"
    <3>1. CASE Output
      BY <1>1, <3>1 DEF Output, ReadInv
    <3>2. CASE FirstLine \/ Entering \/ CallBacktrace \/ Leaving \/ BacktraceReturns \/ Welcome \/ RunCmdReturns
      BY <3>2 DEF FirstLine, Entering, CallBacktrace, Leaving, BacktraceReturns, Welcome, RunCmdReturns, Step
    <3>3. CASE BacktraceFrame \/ Gobble \/ Scan \/ Lookup
      BY <3>3 DEF BacktraceFrame, Gobble, Scan, Lookup
    <3> QED
      BY <1>4, <3>1, <3>2, <3>3 DEF Kernel
  <2>2. pc' = "idle"
    BY <1>1, <1>4
  <2> QED
    BY <1>1, <2>1, <2>2 DEF EdStays, EdEditing, EdLine, EdResult, Returned
<1> QED
  BY <1>2, <1>3, <1>4

LEMMA EditorReading ==
  Inv /\ Reading =>
    EdStays \/ (\E c \in {c \in Inputs : c >= SPACE} : Editor!Insert(c)) \/ Editor!Delete \/ Editor!Enter
<1> SUFFICES ASSUME Inv, Reading
             PROVE  \/ EdStays \/ (\E c \in {c \in Inputs : c >= SPACE} : Editor!Insert(c))
                    \/ Editor!Delete \/ Editor!Enter
  OBVIOUS
<1>1. ReadInv /\ ReadInv' /\ at = "readline" /\ at' = "readline" /\ pc # "idle"
  <2>1. Inv'
    BY InvStep DEF Next
  <2> QED
    BY <2>1 DEF Inv, Reading
<1>2. buf \in Buffers /\ buf' \in Buffers /\ (pc = "getchar" => i \in 0..(BUFLEN - 1) /\ i \in 0..BUFLEN)
  <2>1. \A k \in 0..(BUFLEN - 1) : k \in 0..BUFLEN
    BY Numbers
  <2>2. buf \in Buffers /\ (pc = "getchar" => i \in 0..(BUFLEN - 1))
    BY <1>1 DEF ReadInv, ReadlineTypeOK, Buffers
  <2>3. buf' \in Buffers
    BY <1>1 DEF ReadInv, ReadlineTypeOK, Buffers
  <2> QED
    BY <2>1, <2>2, <2>3
<1>3. CASE PrintPrompt
  <2>1. pc = "prompt" /\ (pc' = "prompt" \/ (pc' = "getchar" /\ i' = 0))
    BY <1>3 DEF PrintPrompt
  <2>2. EdLine' = << >>
    BY <1>2, <2>1, NoLine DEF EdLine, LineOf
  <2> QED
    BY <2>1, <2>2 DEF EdStays, EdEditing, EdLine, EdResult, Returned
<1>4. ASSUME NEW c \in Inputs, Rubout(c) PROVE Editor!Delete
  <2>1. pc = "getchar" /\ pc' = "getchar" /\ i > 0 /\ i' = i - 1 /\ buf' = buf
    BY <1>4 DEF Rubout, IsRubout
  <2>2. i \in 1..(BUFLEN - 1)
    BY <1>2, <2>1, Numbers
  <2>3. LineOf(buf, i - 1) = SubSeq(LineOf(buf, i), 1, i - 1) /\ Len(LineOf(buf, i)) = i
    BY <1>2, <2>1, <2>2, LineShrinks, LineParts
  <2>4. Line = LineOf(buf, i) /\ Line' = LineOf(buf, i - 1)
    BY <2>1 DEF Line, LineOf
  <2>5. LineOf(buf, i) # << >>
    BY <2>1, <2>3, EmptySeq
  <2> QED
    BY <2>1, <2>3, <2>4, <2>5, Zenon DEF Editor!Delete, Returned
<1>5. ASSUME NEW c \in Inputs, Store(c) PROVE c >= SPACE /\ Editor!Insert(c)
  <2>1. /\ pc = "getchar" /\ pc' = "getchar" /\ c >= SPACE /\ i < BUFLEN - 1 /\ i' = i + 1
        /\ buf' = [buf EXCEPT ![i] = c]
    BY <1>5 DEF Store, IsStored
  <2>2. i \in 0..(BUFLEN - 2) /\ c \in 0..255
    BY <1>2, <2>1, Numbers, InputAssumption
  <2>3. LineOf(buf', i + 1) = Append(LineOf(buf, i), c) /\ Len(LineOf(buf, i)) = i
    BY <1>2, <2>1, <2>2, LineGrows, LineParts
  <2>4. Line = LineOf(buf, i) /\ Line' = LineOf(buf', i + 1)
    BY <2>1 DEF Line, LineOf
  <2> QED
    BY <2>1, <2>3, <2>4, Zenon DEF Editor!Insert, Returned
<1>6. ASSUME NEW c \in Inputs, Finish(c) PROVE Editor!Enter
  <2>1. pc = "getchar" /\ pc' = "idle" /\ buf' = [buf EXCEPT ![i] = 0]
    BY <1>6 DEF Finish, Terminated
  <2>2. i \in 0..(BUFLEN - 1) /\ \A k \in 0..(i - 1) : buf[k] # 0
    BY <1>1, <1>2, <2>1 DEF ReadInv
  <2>3. buf'[i] = 0 /\ \A k \in 0..(i - 1) : buf'[k] = buf[k]
    BY <1>2, <2>1, <2>2 DEF Buffers
  <2>4. ASSUME NEW e, e = i PROVE StringAt(0)' = LineOf(buf, e)
    <3>1. EndsAt(e)'
      BY <2>2, <2>3, <2>4 DEF EndsAt
    <3>2. StringAt(0)' = LineOf(buf', e)
      BY <3>1, StringEndsNext
    <3>3. \A k \in 1..e : k - 1 \in 0..(i - 1)
      BY <2>2, <2>4
    <3> QED
      BY <2>3, <3>2, <3>3 DEF LineOf
  <2>5. StringAt(0)' = Line
    BY <2>4 DEF Line, LineOf
  <2> QED
    BY <1>1, <2>1, <2>5, Zenon DEF Editor!Enter, Returned
<1> QED
  BY <1>3, <1>4, <1>5, <1>6 DEF Reading

LEMMA EditorStep == Inv /\ [Next]_vars => [Editor!Next]_(Editor!vars)
<1> SUFFICES ASSUME Inv, [Next]_vars PROVE [Editor!Next]_(Editor!vars)
  OBVIOUS
<1>1. EdStays \/ UNCHANGED vars => UNCHANGED Editor!vars
  BY DEF EdStays, EdEditing, EdLine, EdResult, LineOf, Line, Returned, StringAt, Editor!vars, vars, readlineVars
<1>2. CASE Kernel
  BY <1>1, <1>2, EditorKernel DEF Editor!Next
<1>3. CASE Reading
  BY <1>1, <1>3, EditorReading DEF Editor!Next
<1> QED
  BY <1>1, <1>2, <1>3 DEF Next

(* readline() returns the line as it was edited: every step of the program is a
   step of LineEditor or one that it does not see. *)
THEOREM EditorRefinement == Spec => ImplementsEditor
  BY Invariance, EditorInit, EditorStep, PTL DEF Spec, ImplementsEditor, Editor!Spec
===============================================================================
