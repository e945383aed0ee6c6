----------------------------- MODULE CgaProofs -------------------------------
(***************************************************************************)
(* Lemmas about the display of Cga that hold for every screen size: what   *)
(* cga_putc() keeps, and what a printed or a rubbed out character does to  *)
(* the text before the cursor.                                             *)
(***************************************************************************)
EXTENDS Cga, Sequences, TLAPS

(* Sizes: a row is not longer than the screen, and the offset of a position
   within its row is less than a row. *)
LEMMA SizeFacts ==
  /\ CRT_SIZE \in Nat /\ CRT_COLS \in Nat /\ 0 < CRT_COLS /\ CRT_COLS <= CRT_SIZE
  /\ \A p \in Nat : p % CRT_COLS \in Nat /\ p % CRT_COLS < CRT_COLS /\ p % CRT_COLS <= p
<1>1. CRT_COLS \in Nat /\ 0 < CRT_COLS /\ CRT_ROWS \in Nat /\ 0 < CRT_ROWS
  BY ScreenAssumption
<1>2. CRT_ROWS * CRT_COLS \in Nat /\ CRT_COLS <= CRT_ROWS * CRT_COLS
  BY <1>1
<1>3. ASSUME NEW p \in Nat
      PROVE  p % CRT_COLS \in Nat /\ p % CRT_COLS < CRT_COLS /\ p % CRT_COLS <= p
  BY <1>1
<1> QED
  BY <1>1, <1>2, <1>3 DEF CRT_SIZE

(* The screen after the switch of cga_putc and before the scroll test: the
   cells are cells, and the position is at most one row past the screen. *)
LEMMA WrittenType ==
  ASSUME NEW s \in Screens, NEW ch \in -128..255, NEW attr \in 0..255
  PROVE  /\ Written(s, ch, attr) \in [buf : [Positions -> Cells], pos : Nat]
         /\ Written(s, ch, attr).pos < CRT_SIZE + CRT_COLS
<1> DEFINE b == ch % 256
<1>1. b \in 0..255
  OBVIOUS
<1>2. /\ s.buf \in [Positions -> Cells] /\ s.pos \in Nat /\ s.pos < CRT_SIZE
      /\ s = [buf |-> s.buf, pos |-> s.pos]
  BY SizeFacts DEF Screens, Positions
<1>3. Cell(b, attr) \in Cells /\ Cell(SPACE, attr) \in Cells
  BY <1>1 DEF Cell, Cells, SPACE
<1> HIDE DEF b
<1>4. CASE b = BS
  <2>1. CASE s.pos = 0
    <3>1. Written(s, ch, attr) = s
      BY <1>4, <2>1 DEF Written, b, BS, NL, CR
    <3> QED
      BY <1>2, <3>1, SizeFacts
  <2>2. CASE s.pos # 0
    <3>1. Written(s, ch, attr) =
            [buf |-> [s.buf EXCEPT ![s.pos - 1] = Cell(SPACE, attr)], pos |-> s.pos - 1]
      BY <1>4, <2>2 DEF Written, b, BS, NL, CR
    <3>2. [s.buf EXCEPT ![s.pos - 1] = Cell(SPACE, attr)] \in [Positions -> Cells]
      BY <1>2, <1>3
    <3> QED
      BY <1>2, <2>2, <3>1, <3>2, SizeFacts
  <2> QED
    BY <2>1, <2>2
<1>5. CASE b = NL
  <2>1. Written(s, ch, attr) =
          [s EXCEPT !.pos = StartOfLine(s.pos + CRT_COLS)]
    BY <1>5 DEF Written, b, BS, NL, CR
  <2>2. s.pos + CRT_COLS \in Nat
    BY <1>2, SizeFacts
  <2>3. /\ StartOfLine(s.pos + CRT_COLS) \in Nat
        /\ StartOfLine(s.pos + CRT_COLS) < CRT_SIZE + CRT_COLS
    BY <1>2, <2>2, SizeFacts DEF StartOfLine
  <2> QED
    BY <1>2, <2>1, <2>3
<1>6. CASE b = CR
  <2>1. Written(s, ch, attr) = [s EXCEPT !.pos = StartOfLine(s.pos)]
    BY <1>6 DEF Written, b, BS, NL, CR
  <2>2. /\ StartOfLine(s.pos) \in Nat
        /\ StartOfLine(s.pos) < CRT_SIZE + CRT_COLS
    BY <1>2, SizeFacts DEF StartOfLine
  <2> QED
    BY <1>2, <2>1, <2>2
<1>7. CASE b \notin {BS, NL, CR}
  <2>1. Written(s, ch, attr) =
          [buf |-> [s.buf EXCEPT ![s.pos] = Cell(b, attr)], pos |-> s.pos + 1]
    BY <1>7 DEF Written, b
  <2>2. [s.buf EXCEPT ![s.pos] = Cell(b, attr)] \in [Positions -> Cells]
    BY <1>2, <1>3
  <2> QED
    BY <1>2, <2>1, <2>2, SizeFacts
<1> QED
  BY <1>4, <1>5, <1>6, <1>7

(* The scroll brings a position at most one row past the screen back into it. *)
LEMMA ScrolledType ==
  ASSUME NEW s \in [buf : [Positions -> Cells], pos : Nat],
         s.pos < CRT_SIZE + CRT_COLS
  PROVE  Scrolled(s) \in Screens
<1>1. CASE s.pos < CRT_SIZE
  BY <1>1, SizeFacts DEF Scrolled, OnScreen, Screens, Positions
<1>2. CASE ~(s.pos < CRT_SIZE)
  <2> DEFINE moved == [p \in Positions |-> IF p < CRT_SIZE - CRT_COLS
                                           THEN s.buf[p + CRT_COLS] ELSE Blank]
  <2>1. moved \in [Positions -> Cells]
    <3>1. ASSUME NEW p \in Positions, p < CRT_SIZE - CRT_COLS
          PROVE  s.buf[p + CRT_COLS] \in Cells
      BY <3>1, SizeFacts DEF Positions
    <3>2. Blank \in Cells
      BY DEF Blank, Cell, Cells, SPACE
    <3> QED
      BY <3>1, <3>2
  <2>2. s.pos - CRT_COLS \in Positions
    BY <1>2, SizeFacts DEF Positions
  <2>3. Scrolled(s) = [buf |-> moved, pos |-> s.pos - CRT_COLS]
    BY <1>2 DEF Scrolled, OnScreen, MovedUp
  <2> QED
    BY <2>1, <2>2, <2>3 DEF Screens
<1> QED
  BY <1>1, <1>2

LEMMA CgaPutcType ==
  ASSUME NEW s \in Screens, NEW ch \in -128..255, NEW attr \in 0..255
  PROVE  CgaPutc(s, ch, attr) \in Screens
  BY WrittenType, ScrolledType DEF CgaPutc

-----------------------------------------------------------------------------
(* The cells just before the cursor of sc hold the characters of s. *)
ShownAt(sc, s, attr) ==
  /\ Len(s) <= sc.pos
  /\ \A k \in 1..Len(s) : sc.buf[sc.pos - Len(s) + k - 1] = Cell(s[k], attr)

(* The text before the cursor scrolls with it. *)
LEMMA ScrolledShown ==
  ASSUME NEW w, w.pos = CRT_SIZE, NEW t \in Seq(0..255), NEW attr,
         ShownAt(w, t, attr), Len(t) <= CRT_SIZE - CRT_COLS
  PROVE  ShownAt(Scrolled(w), t, attr)
<1> DEFINE n == Len(t)
           top == CRT_SIZE - CRT_COLS
<1>1. n \in Nat /\ CRT_SIZE \in Nat /\ CRT_COLS \in Nat /\ 0 < CRT_COLS /\ n <= top
  BY SizeFacts
<1>2. Scrolled(w) = [buf |-> MovedUp(w), pos |-> top]
  BY <1>1 DEF Scrolled, OnScreen
<1>3. ASSUME NEW k \in 1..n PROVE MovedUp(w)[top - n + k - 1] = Cell(t[k], attr)
  <2> DEFINE q == top - n + k - 1
  <2>1. q \in 0..(CRT_SIZE - 1) /\ q < top /\ q + CRT_COLS = w.pos - n + k - 1
    <3> HIDE DEF n
    <3> QED
      BY <1>1
  <2>2. w.buf[w.pos - n + k - 1] = Cell(t[k], attr)
    BY DEF ShownAt
  <2> HIDE DEF q, top
  <2>3. MovedUp(w)[q] = w.buf[q + CRT_COLS]
    BY <2>1 DEF MovedUp, Positions, top
  <2>4. MovedUp(w)[q] = Cell(t[k], attr)
    BY <2>1, <2>2, <2>3
  <2> QED
    BY <2>4 DEF q
<1> HIDE DEF top
<1> QED
  BY <1>1, <1>2, <1>3 DEF ShownAt

(* A printed character follows the text, even if the screen scrolls, as long
   as the text is not longer than the rows that scrolling keeps. *)
LEMMA PutShown ==
  ASSUME NEW sc \in Screens, NEW s \in Seq(0..255), NEW ch \in 32..255, NEW attr \in 0..255,
         ShownAt(sc, s, attr), Len(s) + 1 <= CRT_SIZE - CRT_COLS
  PROVE  ShownAt(CgaPutc(sc, ch, attr), Append(s, ch), attr)
<1> DEFINE n == Len(s)
           wr == [sc.buf EXCEPT ![sc.pos] = Cell(ch, attr)]
<1>1. /\ n \in Nat /\ sc.pos \in Nat /\ sc.pos < CRT_SIZE /\ n <= sc.pos
      /\ sc.buf \in [Positions -> Cells]
      /\ CRT_SIZE \in Nat /\ CRT_COLS \in Nat /\ 0 < CRT_COLS
  BY SizeFacts DEF Screens, Positions, ShownAt
<1>2. ch % 256 = ch /\ ch # BS /\ ch # NL /\ ch # CR
  BY DEF BS, NL, CR
<1>3. Written(sc, ch, attr) = [buf |-> wr, pos |-> sc.pos + 1]
  BY <1>2 DEF Written
<1>4. \A q \in Positions : wr[q] = IF q = sc.pos THEN Cell(ch, attr) ELSE sc.buf[q]
  BY <1>1
<1>5. /\ Append(s, ch) \in Seq(0..255) /\ Len(Append(s, ch)) = n + 1
      /\ Append(s, ch)[n + 1] = ch
      /\ \A k \in 1..n : Append(s, ch)[k] = s[k]
  OBVIOUS
<1>6. \A k \in 1..n : sc.buf[sc.pos - n + k - 1] = Cell(s[k], attr)
  BY DEF ShownAt
<1> DEFINE t == Append(s, ch)
<1> HIDE DEF wr, t
<1>7. \A k \in 1..(n + 1) : wr[sc.pos - n + k - 1] = Cell(t[k], attr)
  <2> SUFFICES ASSUME NEW k \in 1..(n + 1) PROVE wr[sc.pos - n + k - 1] = Cell(t[k], attr)
    OBVIOUS
  <2>1. sc.pos - n + k - 1 \in Positions
    BY <1>1 DEF Positions
  <2>2. CASE k = n + 1
    BY <1>1, <1>4, <1>5, <2>1, <2>2 DEF t
  <2>3. CASE k # n + 1
    <3>1. k \in 1..n /\ sc.pos - n + k - 1 # sc.pos
      BY <1>1, <2>3
    <3> QED
      BY <1>4, <1>5, <1>6, <2>1, <3>1 DEF t
  <2> QED
    BY <2>2, <2>3
<1>8. ShownAt([buf |-> wr, pos |-> sc.pos + 1], t, attr)
  <2>1. Len(t) = n + 1 /\ n + 1 <= sc.pos + 1
    BY <1>1, <1>5 DEF t
  <2>2. \A k \in 1..(n + 1) : wr[(sc.pos + 1) - (n + 1) + k - 1] = Cell(t[k], attr)
    <3>1. \A k \in 1..(n + 1) : (sc.pos + 1) - (n + 1) + k - 1 = sc.pos - n + k - 1
      BY <1>1
    <3> HIDE DEF n
    <3> QED
      BY <1>7, <3>1
  <2> HIDE DEF n
  <2> QED
    BY <2>1, <2>2 DEF ShownAt
<1>9. CgaPutc(sc, ch, attr) = Scrolled([buf |-> wr, pos |-> sc.pos + 1])
  BY <1>3 DEF CgaPutc
<1>10. CASE sc.pos + 1 < CRT_SIZE
  <2>1. CgaPutc(sc, ch, attr) = [buf |-> wr, pos |-> sc.pos + 1]
    BY <1>9, <1>10 DEF Scrolled, OnScreen
  <2> QED
    BY <1>8, <2>1 DEF t
<1>11. CASE sc.pos + 1 = CRT_SIZE
  <2>1. t \in Seq(0..255) /\ Len(t) <= CRT_SIZE - CRT_COLS
    BY <1>5 DEF t
  <2> DEFINE w == [buf |-> wr, pos |-> sc.pos + 1]
  <2>2. ShownAt(w, t, attr) /\ w.pos = CRT_SIZE
    BY <1>8, <1>11
  <2> HIDE DEF w
  <2>3. ShownAt(Scrolled(w), t, attr)
    BY <2>1, <2>2, ScrolledShown
  <2> QED
    BY <1>9, <2>3 DEF t, w
<1> QED
  BY <1>1, <1>10, <1>11

(* Backspace takes the last character of the text away. *)
LEMMA RuboutShown ==
  ASSUME NEW sc \in Screens, NEW s \in Seq(0..255), NEW ch \in 0..255, NEW attr \in 0..255,
         NEW with \in 0..255, ShownAt(sc, Append(s, ch), attr)
  PROVE  ShownAt(CgaPutc(sc, BS, with), s, attr)
<1> DEFINE n == Len(s)
           t == Append(s, ch)
           wr == [sc.buf EXCEPT ![sc.pos - 1] = Cell(SPACE, with)]
<1>1. /\ n \in Nat /\ Len(t) = n + 1 /\ \A k \in 1..n : t[k] = s[k]
  OBVIOUS
<1> HIDE DEF t
<1>2. /\ sc.pos \in Nat /\ sc.pos < CRT_SIZE /\ n + 1 <= sc.pos
      /\ sc.buf \in [Positions -> Cells] /\ CRT_SIZE \in Nat
      /\ \A k \in 1..(n + 1) : sc.buf[sc.pos - (n + 1) + k - 1] = Cell(t[k], attr)
  BY <1>1, SizeFacts DEF Screens, Positions, ShownAt, t
<1>3. Written(sc, BS, with) = [buf |-> wr, pos |-> sc.pos - 1]
  <2>1. BS % 256 = BS /\ sc.pos # 0
    BY <1>1, <1>2 DEF BS
  <2>2. ASSUME NEW c, c % 256 = BS PROVE Written(sc, c, with) = [buf |-> wr, pos |-> sc.pos - 1]
    BY <2>1, <2>2 DEF Written, BS, NL, CR
  <2> QED
    BY <2>1, <2>2
<1>4. CgaPutc(sc, BS, with) = [buf |-> wr, pos |-> sc.pos - 1]
  BY <1>2, <1>3 DEF CgaPutc, Scrolled, OnScreen
<1>6. \A q \in Positions : q # sc.pos - 1 => wr[q] = sc.buf[q]
  BY <1>2
<1> HIDE DEF wr
<1>5. ASSUME NEW k \in 1..n PROVE wr[(sc.pos - 1) - n + k - 1] = Cell(s[k], attr)
  <2>1. /\ (sc.pos - 1) - n + k - 1 \in Positions /\ (sc.pos - 1) - n + k - 1 # sc.pos - 1
        /\ (sc.pos - 1) - n + k - 1 = sc.pos - (n + 1) + k - 1
    BY <1>1, <1>2 DEF Positions
  <2>2. k \in 1..(n + 1)
    BY <1>1
  <2> QED
    BY <1>1, <1>2, <1>6, <2>1, <2>2
<1> QED
  BY <1>1, <1>2, <1>4, <1>5 DEF ShownAt
===============================================================================
