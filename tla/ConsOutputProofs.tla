--------------------------- MODULE ConsOutputProofs ---------------------------
(***************************************************************************)
(* Proofs about ConsOutput, for every screen size, every number of polls   *)
(* and every character and colour.                                         *)
(***************************************************************************)
EXTENDS ConsOutput, CgaProofs, SequenceTheorems

(* A port's register is full or empty, whatever is written to it or sent. *)
LEMMA RegisterType ==
  ASSUME NEW t \in Registers, NEW d \in Ports, NEW byte \in 0..255
  PROVE  [t EXCEPT ![d] = << >>] \in Registers /\ [t EXCEPT ![d] = <<byte>>] \in Registers
<1> DEFINE R == {<< >>} \union {<<b>> : b \in 0..255}
<1>1. << >> \in R /\ <<byte>> \in R
  OBVIOUS
<1> HIDE DEF R
<1>2. ASSUME NEW f \in [Ports -> R], NEW r \in R PROVE [f EXCEPT ![d] = r] \in [Ports -> R]
  OBVIOUS
<1> QED
  BY <1>1, <1>2 DEF Registers, R

LEMMA AttributeType ==
  ASSUME NEW bg \in Colors, NEW fg \in Colors, NEW ch \in -128..255
  PROVE  Attribute(bg, fg, ch) \in 0..255
  BY ColorAssumption DEF Attribute

LEMMA OnWireType ==
  ASSUME NEW ch \in -128..255
  PROVE  OnWire(ch) \in Seq(0..255)
<1> DEFINE b == ch % 256
           B == 0..255
<1>1. b \in B /\ TAB \in B /\ SPACE \in B
  BY DEF TAB, SPACE
<1> HIDE DEF b, B, TAB, SPACE
<1>2. <<b>> \in Seq(B) /\ <<TAB, SPACE, SPACE, SPACE, SPACE, SPACE>> \in Seq(B)
  BY <1>1
<1>3. OnWire(ch) \in Seq(B)
  BY <1>2 DEF OnWire, b
<1> QED
  BY <1>3 DEF B

(* Every step of cons_putc(), its callers and the ports keeps the types. *)
LEMMA TypeStep == TypeOK /\ [Next]_vars => TypeOK'
<1> SUFFICES ASSUME TypeOK, [Next]_vars PROVE TypeOK'
  OBVIOUS
<1> USE WaitAssumption
<1>1. ASSUME NEW d \in Ports, PortSends(d) PROVE TypeOK'
  <2>1. tx' \in Registers
    <3>1. tx \in Registers /\ 0 \in 0..255
      BY DEF TypeOK
    <3> QED
      BY <1>1, <3>1, RegisterType DEF PortSends
  <2> QED
    BY <1>1, <2>1 DEF PortSends, TypeOK, colours, call, calls
<1>2. ASSUME NEW b \in Colors, SetBg(b) \/ SetFg(b) PROVE TypeOK'
  BY <1>2 DEF SetBg, SetFg, TypeOK, ports, call, calls
<1>3. CASE CgaReset
  BY <1>3, ColorAssumption DEF CgaReset, TypeOK, ports, call, calls
<1>4. ASSUME NEW ch \in PutChars, Cputchar(ch) PROVE TypeOK'
  <2>1. due' \in Seq(0..255) /\ puts' \in Nat
    <3>1. OnWire(ch) \in Seq(0..255)
      BY CharAssumption, OnWireType
    <3> QED
      BY <1>4, <3>1, ConcatProperties DEF Cputchar, TypeOK
  <2> QED
    BY <1>4, <2>1, CharAssumption DEF Cputchar, TypeOK, ports, colours, Ports
<1>5. ASSUME NEW d \in Ports, Poll(d) PROVE TypeOK'
  BY <1>5 DEF Poll, Polled, Waiting, TypeOK, ports, colours, calls
<1>6. ASSUME NEW d \in Ports, PortWrite(d) PROVE TypeOK'
  <2>1. c % 256 \in 0..255
    BY DEF TypeOK
  <2>2. tx' \in Registers
    <3>1. tx \in Registers
      BY DEF TypeOK
    <3>2. [tx EXCEPT ![d] = <<c % 256>>] \in Registers
      BY <2>1, <3>1, RegisterType
    <3> QED
      BY <1>6, <3>1, <3>2 DEF PortWrite, Outb
  <2>3. overrun' \subseteq Ports
    BY <1>6 DEF PortWrite, Outb, TypeOK
  <2>4. pc' \in {"lpt", "cga"} /\ i' \in 0..WAITMAX
    BY <1>6 DEF PortWrite, Outb
  <2> QED
    BY <1>6, <2>2, <2>3, <2>4 DEF PortWrite, Outb, TypeOK, colours, Ports, calls
<1>7. CASE CgaChar
  <2>1. scr' \in Screens
    BY <1>7, CgaPutcType, AttributeType DEF CgaChar, TypeOK
  <2>2. cursor' \in Positions
    BY <1>7, <2>1 DEF CgaChar, Screens
  <2>3. pc' \in {"space", "tabend", "idle"} /\ (pc' = "space" => spaces > 0)
    BY <1>7 DEF CgaChar, AfterCga
  <2> QED
    BY <1>7, <2>1, <2>2, <2>3 DEF CgaChar, TypeOK, ports, colours, calls
<1>8. CASE CgaTab
  BY <1>8 DEF CgaTab, TypeOK, ports, colours, calls
<1>9. CASE TabSpace
  BY <1>9 DEF TabSpace, TypeOK, ports, colours, Ports, SPACE, calls
<1>10. CASE TabEnd
  <2>1. scr \in [buf : [Positions -> Cells], pos : Nat] /\ scr.pos < CRT_SIZE + CRT_COLS
    BY SizeFacts DEF TypeOK, Screens, Positions
  <2>2. scr' \in Screens
    BY <1>10, <2>1, ScrolledType DEF TabEnd
  <2>3. cursor' \in Positions
    BY <1>10, <2>2 DEF TabEnd, Screens
  <2> QED
    BY <1>10, <2>2, <2>3 DEF TabEnd, TypeOK, ports, colours, calls
<1>11. CASE UNCHANGED vars
  BY <1>11 DEF vars, TypeOK, ports, colours, call, calls
<1> QED
  BY <1>1, <1>2, <1>3, <1>4, <1>5, <1>6, <1>7, <1>8, <1>9, <1>10, <1>11
     DEF Next, ConsPutc, Callers

LEMMA TypeInit == Init => TypeOK
<1> SUFFICES ASSUME Init PROVE TypeOK
  OBVIOUS
<1>1. scr \in Screens /\ cursor \in Positions
  BY DEF Init, Screens, Cells, Blank, Cell, SPACE
<1>2. tx \in Registers
  BY DEF Init, Registers
<1>3. puts \in Nat /\ due \in Seq(0..255)
  BY DEF Init
<1>4. /\ cga_bg \in Colors /\ cga_fg \in Colors
      /\ pc = "idle" /\ i \in 0..WAITMAX /\ c \in -128..255 /\ spaces \in 0..5
  BY WaitAssumption, ColorAssumption DEF Init
<1> QED
  BY <1>1, <1>2, <1>3, <1>4 DEF Init, TypeOK

(* Whatever is printed in whatever colours, crt_pos is inside crt_buf each time
   cga_putc() starts, ends, or uses it as an index, on a screen of any size. *)
THEOREM TypeCorrect == Spec => []TypeOK
  BY TypeInit, TypeStep, PTL DEF Spec

-----------------------------------------------------------------------------
(* The cursor is only ever out of step inside cga_putc() itself, so the
   invariant needs no condition on pc. *)
CursorInv == cursor = scr.pos

LEMMA CursorStep == CursorInv /\ [Next]_vars => CursorInv'
  BY DEF CursorInv, Next, ConsPutc, Callers, vars, PortSends, SetBg, SetFg, CgaReset,
         Cputchar, Poll, PortWrite, CgaChar, CgaTab, TabSpace, TabEnd

(* Between two calls of cputchar() the 6845 shows the cursor at crt_pos. *)
THEOREM CursorCorrect == Spec => []CursorFollows
<1>1. Init => CursorInv
  BY DEF Init, CursorInv
<1>2. CursorInv => CursorFollows
  BY DEF CursorInv, CursorFollows
<1> QED
  BY <1>1, <1>2, CursorStep, PTL DEF Spec

-----------------------------------------------------------------------------
(* The rows of the terminal: the buffer cut into lines of CRT_COLS cells. *)
ScreenOf(b) == [r \in 1..CRT_ROWS |-> [k \in 1..CRT_COLS |-> b[(r - 1) * CRT_COLS + k - 1]]]

(* The arithmetic of a linear buffer: position r * CRT_COLS + k is the cell of
   row r and column k, and no other row and column. *)
LEMMA Times ==
  ASSUME NEW a \in Nat, NEW b \in Nat, NEW n \in Nat, a <= b
  PROVE  a * n \in Nat /\ a * n <= b * n /\ (a + 1) * n = a * n + n
<1>1. PICK d \in Nat : b = a + d
  <2>1. b - a \in Nat /\ b = a + (b - a)
    OBVIOUS
  <2> QED
    BY <2>1
<1>2. b * n = a * n + d * n /\ d * n \in Nat /\ a * n \in Nat
  BY <1>1
<1> QED
  BY <1>2

LEMMA Division ==
  ASSUME NEW r \in Nat, NEW k \in 0..(CRT_COLS - 1)
  PROVE  /\ r * CRT_COLS \in Nat /\ (r + 1) * CRT_COLS = r * CRT_COLS + CRT_COLS
         /\ (r * CRT_COLS + k) \div CRT_COLS = r /\ (r * CRT_COLS + k) % CRT_COLS = k
<1>1. CRT_COLS \in Nat /\ 0 < CRT_COLS /\ k \in Nat
  BY ScreenAssumption
<1>2. r * CRT_COLS \in Nat /\ (r + 1) * CRT_COLS = r * CRT_COLS + CRT_COLS
  BY <1>1, Times
<1>3. (r * CRT_COLS + k) \div CRT_COLS = r
  BY <1>1, <1>2
<1>4. (r * CRT_COLS + k) % CRT_COLS = k
  BY <1>1, <1>2
<1> QED
  BY <1>2, <1>3, <1>4

LEMMA Grid ==
  ASSUME NEW r \in 0..(CRT_ROWS - 1), NEW k \in 0..(CRT_COLS - 1)
  PROVE  /\ r * CRT_COLS + k \in Positions
         /\ (r * CRT_COLS + k) \div CRT_COLS = r /\ (r * CRT_COLS + k) % CRT_COLS = k
<1>1. /\ CRT_ROWS \in Nat /\ CRT_COLS \in Nat /\ r \in Nat /\ k \in Nat /\ k < CRT_COLS /\ r + 1 <= CRT_ROWS
  BY ScreenAssumption
<1>2. r * CRT_COLS \in Nat /\ (r + 1) * CRT_COLS <= CRT_ROWS * CRT_COLS /\ (r + 1) * CRT_COLS = r * CRT_COLS + CRT_COLS
  BY <1>1, Times
<1>3. r * CRT_COLS + k \in Positions
  BY <1>1, <1>2 DEF Positions, CRT_SIZE
<1> QED
  BY <1>1, <1>3, Division

LEMMA Coordinates ==
  ASSUME NEW x \in Nat, x < CRT_SIZE
  PROVE  /\ x \div CRT_COLS \in 0..(CRT_ROWS - 1) /\ x % CRT_COLS \in 0..(CRT_COLS - 1)
         /\ x = (x \div CRT_COLS) * CRT_COLS + (x % CRT_COLS)
<1>1. /\ CRT_ROWS \in Nat /\ CRT_COLS \in Nat /\ 0 < CRT_COLS
  BY ScreenAssumption
<1> DEFINE q == x \div CRT_COLS
           m == x % CRT_COLS
<1>2. q \in Nat /\ m \in Nat /\ m < CRT_COLS /\ x = CRT_COLS * q + m
  BY <1>1
<1> HIDE DEF q, m
<1>3. q < CRT_ROWS
  <2>1. CASE CRT_ROWS <= q
    <3>1. CRT_ROWS * CRT_COLS <= q * CRT_COLS
      BY <1>1, <1>2, <2>1, Times
    <3>2. q * CRT_COLS = CRT_COLS * q
      BY <1>1, <1>2
    <3> QED
      BY <1>1, <1>2, <3>1, <3>2 DEF CRT_SIZE
  <2> QED
    BY <1>1, <1>2, <2>1
<1>4. x = q * CRT_COLS + m
  BY <1>1, <1>2
<1> QED
  BY <1>1, <1>2, <1>3, <1>4 DEF q, m

(* One cell is written. *)
At(rows, x, g) == [rows EXCEPT ![(x \div CRT_COLS) + 1][(x % CRT_COLS) + 1] = g]

LEMMA CellDrawn ==
  ASSUME NEW b \in [Positions -> Cells], NEW x \in Positions, NEW g \in Cells
  PROVE  ScreenOf([b EXCEPT ![x] = g]) = At(ScreenOf(b), x, g)
<1> DEFINE d == [b EXCEPT ![x] = g]
           q == x \div CRT_COLS
           m == x % CRT_COLS
           old == ScreenOf(b)
           new == ScreenOf(d)
<1>1. /\ CRT_ROWS \in Nat /\ CRT_COLS \in Nat /\ x \in Nat /\ x < CRT_SIZE
  BY ScreenAssumption, SizeFacts DEF Positions
<1>2. q \in 0..(CRT_ROWS - 1) /\ m \in 0..(CRT_COLS - 1) /\ x = q * CRT_COLS + m
  BY <1>1, Coordinates
<1>3. \A y \in Positions : d[y] = IF y = x THEN g ELSE b[y]
  OBVIOUS
<1> HIDE DEF d, q, m
<1>4. ASSUME NEW r \in 1..CRT_ROWS, NEW k \in 1..CRT_COLS
      PROVE  /\ (r - 1) * CRT_COLS + k - 1 \in Positions
             /\ (r - 1) * CRT_COLS + k - 1 = x <=> r = q + 1 /\ k = m + 1
  <2>1. r - 1 \in 0..(CRT_ROWS - 1) /\ k - 1 \in 0..(CRT_COLS - 1)
    BY <1>1
  <2>2. (r - 1) * CRT_COLS \in Nat
    BY <1>1, <2>1
  <2> DEFINE y == (r - 1) * CRT_COLS + (k - 1)
  <2>3. y \in Positions /\ y \div CRT_COLS = r - 1 /\ y % CRT_COLS = k - 1
    BY <2>1, Grid
  <2>4. (r - 1) * CRT_COLS + k - 1 = y
    BY <1>1, <2>2
  <2> HIDE DEF y
  <2>5. ASSUME y = x PROVE r = q + 1 /\ k = m + 1
    <3>1. q = r - 1 /\ m = k - 1
      BY <2>3, <2>5 DEF q, m
    <3> QED
      BY <1>1, <3>1
  <2>6. ASSUME r = q + 1, k = m + 1 PROVE y = x
    <3>1. r - 1 = q /\ k - 1 = m
      BY <1>1, <1>2, <2>6
    <3> QED
      BY <1>2, <3>1 DEF y
  <2> QED
    BY <2>3, <2>4, <2>5, <2>6
<1>5. ASSUME NEW r \in 1..CRT_ROWS, NEW k \in 1..CRT_COLS
      PROVE  new[r][k] = IF r = q + 1 /\ k = m + 1 THEN g ELSE old[r][k]
  <2>1. new[r][k] = d[(r - 1) * CRT_COLS + k - 1] /\ old[r][k] = b[(r - 1) * CRT_COLS + k - 1]
    BY DEF ScreenOf
  <2> QED
    BY <1>3, <1>4, <2>1
<1>6. /\ new = [r \in 1..CRT_ROWS |-> [k \in 1..CRT_COLS |-> new[r][k]]]
      /\ old = [r \in 1..CRT_ROWS |-> [k \in 1..CRT_COLS |-> old[r][k]]]
  BY DEF ScreenOf
<1> HIDE DEF old, new
<1>7. q + 1 \in 1..CRT_ROWS /\ m + 1 \in 1..CRT_COLS
  BY <1>1, <1>2
<1>8. new = [old EXCEPT ![q + 1][m + 1] = g]
  <2> DEFINE ex == [old EXCEPT ![q + 1][m + 1] = g]
  <2>1. ex = [old EXCEPT ![q + 1] = [old[q + 1] EXCEPT ![m + 1] = g]]
    OBVIOUS
  <2>2. DOMAIN old = 1..CRT_ROWS /\ \A r \in 1..CRT_ROWS : old[r] = [k \in 1..CRT_COLS |-> old[r][k]]
    BY <1>6
  <2>3. ex = [r \in 1..CRT_ROWS |-> IF r = q + 1 THEN [old[q + 1] EXCEPT ![m + 1] = g] ELSE old[r]]
    BY <1>6, <2>1
  <2>4. [old[q + 1] EXCEPT ![m + 1] = g] = [k \in 1..CRT_COLS |-> IF k = m + 1 THEN g ELSE old[q + 1][k]]
    BY <1>7, <2>2
  <2>5. ASSUME NEW r \in 1..CRT_ROWS
        PROVE  [k \in 1..CRT_COLS |-> new[r][k]] =
                 IF r = q + 1 THEN [old[q + 1] EXCEPT ![m + 1] = g] ELSE old[r]
    <3>1. CASE r = q + 1
      <4>1. \A k \in 1..CRT_COLS : new[r][k] = IF k = m + 1 THEN g ELSE old[q + 1][k]
        BY <1>5, <3>1
      <4> QED
        BY <2>4, <3>1, <4>1
    <3>2. CASE r # q + 1
      <4>1. \A k \in 1..CRT_COLS : new[r][k] = old[r][k]
        BY <1>5, <3>2
      <4>2. [k \in 1..CRT_COLS |-> new[r][k]] = [k \in 1..CRT_COLS |-> old[r][k]]
        BY <4>1
      <4> QED
        BY <2>2, <3>2, <4>2
    <3> QED
      BY <3>1, <3>2
  <2> QED
    BY <1>6, <2>3, <2>5
<1> QED
  BY <1>8 DEF old, new, d, q, m, At

(* All rows move up by one and a fresh one comes in. *)
LEMMA RowsMoved ==
  ASSUME NEW sc, NEW b \in [Positions -> Cells], sc.buf = b, CRT_ROWS \in Nat
  PROVE  ScreenOf(MovedUp(sc)) = Append(Tail(ScreenOf(b)), [k \in 1..CRT_COLS |-> Blank])
<1> DEFINE old == ScreenOf(b)
           new == ScreenOf(MovedUp(sc))
           row1 == [k \in 1..CRT_COLS |-> Blank]
           Rows1 == [1..CRT_COLS -> Cells]
           ap == Append(Tail(old), row1)
<1>1. /\ CRT_ROWS \in Nat /\ CRT_COLS \in Nat /\ 0 < CRT_ROWS /\ 0 < CRT_COLS
      /\ CRT_SIZE = CRT_ROWS * CRT_COLS /\ CRT_SIZE \in Nat
  BY ScreenAssumption, SizeFacts DEF CRT_SIZE
<1>2. ASSUME NEW r \in 1..CRT_ROWS, NEW k \in 1..CRT_COLS
      PROVE  (r - 1) * CRT_COLS + k - 1 \in Positions
  <2>1. r - 1 \in 0..(CRT_ROWS - 1) /\ k - 1 \in 0..(CRT_COLS - 1) /\ (r - 1) * CRT_COLS \in Nat
    BY <1>1
  <2>2. (r - 1) * CRT_COLS + (k - 1) \in Positions
    BY <2>1, Grid
  <2>3. (r - 1) * CRT_COLS + k - 1 = (r - 1) * CRT_COLS + (k - 1)
    BY <1>1, <2>1
  <2> QED
    BY <2>2, <2>3
<1>3. Blank \in Cells /\ row1 \in Rows1
  BY DEF Blank, Cell, Cells, SPACE
<1>4. ASSUME NEW r \in 1..CRT_ROWS PROVE old[r] \in Rows1
  BY <1>2 DEF ScreenOf
<1>5. old \in Seq(Rows1) /\ Len(old) = CRT_ROWS
  <2>1. old = [r \in 1..CRT_ROWS |-> old[r]]
    BY DEF ScreenOf
  <2> HIDE DEF old, Rows1
  <2> QED
    BY <1>1, <1>4, <2>1
<1>6. ASSUME NEW r \in 1..CRT_ROWS
      PROVE  new[r] = IF r < CRT_ROWS THEN old[r + 1] ELSE row1
  <2> DEFINE y(k) == (r - 1) * CRT_COLS + k - 1
  <2>1. new[r] = [k \in 1..CRT_COLS |-> MovedUp(sc)[y(k)]]
    BY DEF ScreenOf
  <2>2. \A k \in 1..CRT_COLS : MovedUp(sc)[y(k)] = IF y(k) < CRT_SIZE - CRT_COLS THEN b[y(k) + CRT_COLS] ELSE Blank
    BY <1>2 DEF MovedUp
  <2>3. (r - 1) * CRT_COLS \in Nat /\ r * CRT_COLS = (r - 1) * CRT_COLS + CRT_COLS
    BY <1>1
  <2> HIDE DEF y
  <2>4. CASE r < CRT_ROWS
    <3>1. r * CRT_COLS <= (CRT_ROWS - 1) * CRT_COLS /\ (CRT_ROWS - 1) * CRT_COLS = CRT_SIZE - CRT_COLS
      <4>1. r \in Nat /\ CRT_ROWS - 1 \in Nat /\ r <= CRT_ROWS - 1
        BY <1>1, <2>4
      <4> QED
        BY <1>1, <4>1, Times
    <3>2. ASSUME NEW k \in 1..CRT_COLS
          PROVE  y(k) < CRT_SIZE - CRT_COLS /\ y(k) + CRT_COLS = ((r + 1) - 1) * CRT_COLS + k - 1
      <4>1. y(k) + CRT_COLS = r * CRT_COLS + k - 1 /\ (r + 1) - 1 = r
        BY <1>1, <2>3 DEF y
      <4>2. y(k) < r * CRT_COLS
        BY <1>1, <2>3 DEF y
      <4> QED
        BY <1>1, <2>3, <3>1, <4>1, <4>2 DEF y
    <3>3. \A k \in 1..CRT_COLS : MovedUp(sc)[y(k)] = b[((r + 1) - 1) * CRT_COLS + k - 1]
      BY <2>2, <3>2
    <3>4. r + 1 \in 1..CRT_ROWS
      BY <1>1, <2>4
    <3>5. old[r + 1] = [k \in 1..CRT_COLS |-> b[((r + 1) - 1) * CRT_COLS + k - 1]]
      BY <3>4 DEF ScreenOf
    <3> HIDE DEF old, new
    <3> QED
      BY <2>1, <2>4, <3>3, <3>5
  <2>5. CASE ~(r < CRT_ROWS)
    <3>1. r * CRT_COLS = CRT_SIZE
      BY <1>1, <2>5
    <3>2. ASSUME NEW k \in 1..CRT_COLS PROVE ~(y(k) < CRT_SIZE - CRT_COLS)
      BY <1>1, <2>3, <3>1 DEF y
    <3>3. \A k \in 1..CRT_COLS : MovedUp(sc)[y(k)] = Blank
      BY <2>2, <3>2
    <3> HIDE DEF old, new
    <3> QED
      BY <2>1, <2>5, <3>3
  <2> QED
    BY <2>4, <2>5
<1>7. new \in Seq(Rows1) /\ Len(new) = CRT_ROWS
  <2>1. new = [r \in 1..CRT_ROWS |-> new[r]]
    BY DEF ScreenOf
  <2> HIDE DEF old, new, Rows1, row1
  <2>2. ASSUME NEW r \in 1..CRT_ROWS PROVE new[r] \in Rows1
    <3>1. r < CRT_ROWS => r + 1 \in 1..CRT_ROWS
      BY <1>1
    <3> QED
      BY <1>3, <1>4, <1>6, <3>1
  <2> QED
    BY <1>1, <2>1, <2>2
<1> HIDE DEF old, new, Rows1, row1
<1>8. /\ ap \in Seq(Rows1) /\ Len(ap) = CRT_ROWS
      /\ \A r \in 1..CRT_ROWS : ap[r] = IF r < CRT_ROWS THEN old[r + 1] ELSE row1
  <2> DEFINE tl == Tail(old)
  <2>1. tl \in Seq(Rows1) /\ Len(tl) = CRT_ROWS - 1 /\ \A r \in 1..(CRT_ROWS - 1) : tl[r] = old[r + 1]
    BY <1>1, <1>5
  <2> HIDE DEF tl
  <2> DEFINE at1 == Append(tl, row1)
  <2>2. at1 \in Seq(Rows1) /\ Len(at1) = CRT_ROWS /\ at1[CRT_ROWS] = row1
        /\ \A r \in 1..(CRT_ROWS - 1) : at1[r] = tl[r]
    BY <1>1, <1>3, <2>1
  <2>3. ap = at1
    BY DEF tl
  <2> HIDE DEF ap, at1
  <2>4. ASSUME NEW r \in 1..CRT_ROWS PROVE at1[r] = IF r < CRT_ROWS THEN old[r + 1] ELSE row1
    <3>1. CASE r < CRT_ROWS
      <4>1. r \in 1..(CRT_ROWS - 1)
        BY <1>1, <3>1
      <4> QED
        BY <2>1, <2>2, <3>1, <4>1
    <3>2. CASE ~(r < CRT_ROWS)
      <4>1. r = CRT_ROWS
        BY <1>1, <3>2
      <4> QED
        BY <2>2, <3>2, <4>1
    <3> QED
      BY <3>1, <3>2
  <2> QED
    BY <2>2, <2>3, <2>4
<1> HIDE DEF ap
<1>9. \A r \in 1..Len(new) : new[r] = ap[r]
  BY <1>6, <1>7, <1>8
<1>10. new = ap
  BY <1>7, <1>8, <1>9, SeqEqual
<1> QED
  BY <1>10 DEF new, ap, old, row1

(* Where the screen sc has become new: the cursor is at column k of the next row
   of rows, which have moved up if there was none. *)
Fresh == [k \in 1..CRT_COLS |-> Blank]
Row(sc) == sc.pos \div CRT_COLS
Column(sc) == sc.pos % CRT_COLS
Down(sc, new, rows, k) ==
  /\ Column(new) = k
  /\ IF Row(sc) < CRT_ROWS - 1 THEN Row(new) = Row(sc) + 1 /\ ScreenOf(new.buf) = rows
     ELSE Row(new) = Row(sc) /\ ScreenOf(new.buf) = Append(Tail(rows), Fresh)

(* The scroll test after a position on the next row. *)
LEMMA ScrolledDown ==
  ASSUME NEW sc \in Screens, NEW b \in [Positions -> Cells], NEW w,
         w = [buf |-> b, pos |-> (Row(sc) + 1) * CRT_COLS]
  PROVE  Down(sc, Scrolled(w), ScreenOf(b), 0)
<1> DEFINE q == Row(sc)
<1>1. /\ CRT_ROWS \in Nat /\ CRT_COLS \in Nat /\ 0 < CRT_ROWS /\ 0 < CRT_COLS
      /\ CRT_SIZE = CRT_ROWS * CRT_COLS /\ CRT_SIZE \in Nat
  BY ScreenAssumption, SizeFacts DEF CRT_SIZE
<1>2. q \in 0..(CRT_ROWS - 1) /\ q \in Nat /\ q + 1 \in Nat
  <2>1. sc.pos \in Nat /\ sc.pos < CRT_SIZE
    BY <1>1 DEF Screens, Positions
  <2> QED
    BY <1>1, <2>1, Coordinates DEF Row
<1> HIDE DEF q
<1>3. w.buf = b /\ w.pos = (q + 1) * CRT_COLS
  BY DEF q
<1>4. /\ (q + 1) * CRT_COLS = q * CRT_COLS + CRT_COLS /\ q * CRT_COLS \in Nat /\ (q + 1) * CRT_COLS \in Nat
      /\ (q * CRT_COLS) \div CRT_COLS = q /\ (q * CRT_COLS) % CRT_COLS = 0
      /\ ((q + 1) * CRT_COLS) \div CRT_COLS = q + 1 /\ ((q + 1) * CRT_COLS) % CRT_COLS = 0
  <2>1. 0 \in 0..(CRT_COLS - 1)
    BY <1>1
  <2>2. /\ q * CRT_COLS \in Nat /\ (q + 1) * CRT_COLS = q * CRT_COLS + CRT_COLS
        /\ (q * CRT_COLS + 0) \div CRT_COLS = q /\ (q * CRT_COLS + 0) % CRT_COLS = 0
    BY <1>2, <2>1, Division
  <2>3. /\ (q + 1) * CRT_COLS \in Nat
        /\ ((q + 1) * CRT_COLS + 0) \div CRT_COLS = q + 1 /\ ((q + 1) * CRT_COLS + 0) % CRT_COLS = 0
    BY <1>2, <2>1, Division
  <2>4. q * CRT_COLS + 0 = q * CRT_COLS /\ (q + 1) * CRT_COLS + 0 = (q + 1) * CRT_COLS
    BY <2>2, <2>3
  <2> QED
    BY <2>2, <2>3, <2>4
<1>5. CASE q < CRT_ROWS - 1
  <2>1. (q + 1) * CRT_COLS < CRT_SIZE
    <3>1. (q + 1) + 1 <= CRT_ROWS /\ (q + 1) + 1 \in Nat
      BY <1>1, <1>2, <1>5
    <3>2. ((q + 1) + 1) * CRT_COLS <= CRT_ROWS * CRT_COLS /\ ((q + 1) + 1) * CRT_COLS = (q + 1) * CRT_COLS + CRT_COLS
      BY <1>1, <1>2, <3>1, Times
    <3> QED
      BY <1>1, <1>4, <3>2
  <2>2. Scrolled(w) = w
    BY <1>3, <2>1 DEF Scrolled, OnScreen
  <2> QED
    BY <1>3, <1>4, <1>5, <2>2 DEF Down, Row, Column, q
<1>6. CASE ~(q < CRT_ROWS - 1)
  <2>1. q + 1 = CRT_ROWS
    BY <1>1, <1>2, <1>6
  <2>2. (q + 1) * CRT_COLS = CRT_SIZE /\ CRT_SIZE - CRT_COLS = q * CRT_COLS
    BY <1>1, <1>4, <2>1
  <2>3. Scrolled(w) = [buf |-> MovedUp(w), pos |-> q * CRT_COLS]
    BY <1>1, <1>3, <2>2 DEF Scrolled, OnScreen
  <2>4. ScreenOf(MovedUp(w)) = Append(Tail(ScreenOf(b)), Fresh)
    BY <1>1, <1>3, RowsMoved DEF Fresh
  <2>5. Scrolled(w).buf = MovedUp(w) /\ Scrolled(w).pos = q * CRT_COLS
    BY <2>3
  <2>6. Column(Scrolled(w)) = 0 /\ Row(Scrolled(w)) = q
    BY <1>4, <2>5 DEF Row, Column
  <2>7. ~(Row(sc) < CRT_ROWS - 1) /\ Row(Scrolled(w)) = Row(sc)
    BY <1>6, <2>6 DEF q
  <2> QED
    BY <2>4, <2>5, <2>6, <2>7, Zenon DEF Down
<1> QED
  BY <1>5, <1>6

(* What cga_putc() does to the rows, the row and the column. *)
PutDraws(sc, new, g) ==
  IF Column(sc) < CRT_COLS - 1
  THEN ScreenOf(new.buf) = At(ScreenOf(sc.buf), sc.pos, g) /\ Column(new) = Column(sc) + 1 /\ Row(new) = Row(sc)
  ELSE Down(sc, new, At(ScreenOf(sc.buf), sc.pos, g), 0)
PutGoesBack(sc, new) == Column(new) = 0 /\ Row(new) = Row(sc) /\ ScreenOf(new.buf) = ScreenOf(sc.buf)
PutErases(sc, new, blank) ==
  /\ ~(Row(sc) = 0 /\ Column(sc) = 0)
  /\ IF Column(sc) > 0 THEN Column(new) = Column(sc) - 1 /\ Row(new) = Row(sc)
     ELSE Column(new) = CRT_COLS - 1 /\ Row(new) = Row(sc) - 1
  /\ ScreenOf(new.buf) = At(ScreenOf(sc.buf), new.pos, blank)

(* A screen as the lemmas below use it. *)
LEMMA ScreenFacts ==
  ASSUME NEW sc \in Screens
  PROVE  /\ sc = [buf |-> sc.buf, pos |-> sc.pos] /\ sc.buf \in [Positions -> Cells]
         /\ sc.pos \in Positions /\ sc.pos \in Nat /\ sc.pos < CRT_SIZE
         /\ Row(sc) \in 0..(CRT_ROWS - 1) /\ Column(sc) \in 0..(CRT_COLS - 1)
         /\ sc.pos = Row(sc) * CRT_COLS + Column(sc)
         /\ Row(sc) * CRT_COLS \in Nat /\ (Row(sc) + 1) * CRT_COLS = Row(sc) * CRT_COLS + CRT_COLS
         /\ CRT_ROWS \in Nat /\ CRT_COLS \in Nat /\ 0 < CRT_ROWS /\ 0 < CRT_COLS /\ CRT_SIZE \in Nat
<1>1. CRT_ROWS \in Nat /\ CRT_COLS \in Nat /\ 0 < CRT_ROWS /\ 0 < CRT_COLS /\ CRT_SIZE \in Nat
  BY ScreenAssumption, SizeFacts
<1>2. sc = [buf |-> sc.buf, pos |-> sc.pos] /\ sc.buf \in [Positions -> Cells] /\ sc.pos \in Positions
  BY DEF Screens
<1>3. sc.pos \in Nat /\ sc.pos < CRT_SIZE
  BY <1>1, <1>2 DEF Positions
<1>4. /\ Row(sc) \in 0..(CRT_ROWS - 1) /\ Column(sc) \in 0..(CRT_COLS - 1)
      /\ sc.pos = Row(sc) * CRT_COLS + Column(sc)
  BY <1>3, Coordinates DEF Row, Column
<1>5. Row(sc) * CRT_COLS \in Nat /\ (Row(sc) + 1) * CRT_COLS = Row(sc) * CRT_COLS + CRT_COLS
  <2>1. Row(sc) \in Nat
    BY <1>1, <1>4
  <2> QED
    BY <1>4, <2>1, Division
<1> QED
  BY <1>1, <1>2, <1>3, <1>4, <1>5

(* A character in a cell, at the end of a row or before it. *)
LEMMA DrawnCell ==
  ASSUME NEW sc \in Screens, NEW g \in Cells, NEW w,
         w = [buf |-> [sc.buf EXCEPT ![sc.pos] = g], pos |-> sc.pos + 1]
  PROVE  PutDraws(sc, Scrolled(w), g)
<1> DEFINE b == [sc.buf EXCEPT ![sc.pos] = g]
           q == Row(sc)
           m == Column(sc)
<1>1. /\ sc.buf \in [Positions -> Cells]
      /\ sc.pos \in Positions /\ sc.pos \in Nat /\ sc.pos < CRT_SIZE
      /\ q \in 0..(CRT_ROWS - 1) /\ m \in 0..(CRT_COLS - 1)
      /\ sc.pos = q * CRT_COLS + m
      /\ q * CRT_COLS \in Nat /\ (q + 1) * CRT_COLS = q * CRT_COLS + CRT_COLS
      /\ CRT_ROWS \in Nat /\ CRT_COLS \in Nat /\ 0 < CRT_ROWS /\ 0 < CRT_COLS /\ CRT_SIZE \in Nat
  BY ScreenFacts
<1>2. b \in [Positions -> Cells]
  BY <1>1
<1>3. ScreenOf(b) = At(ScreenOf(sc.buf), sc.pos, g)
  BY <1>1, CellDrawn, Zenon
<1>6. w = [buf |-> b, pos |-> sc.pos + 1] /\ w.buf = b /\ w.pos = sc.pos + 1
  OBVIOUS
<1> HIDE DEF b, q, m
<1>4. CASE m < CRT_COLS - 1
  <2>1. m + 1 \in 0..(CRT_COLS - 1) /\ sc.pos + 1 = q * CRT_COLS + (m + 1)
    BY <1>1, <1>4
  <2>2. sc.pos + 1 \in Positions /\ (sc.pos + 1) \div CRT_COLS = q /\ (sc.pos + 1) % CRT_COLS = m + 1
    BY <1>1, <2>1, Grid
  <2>3. Scrolled(w) = w
    BY <1>1, <1>6, <2>2 DEF Scrolled, OnScreen, Positions
  <2>4. Column(w) = m + 1 /\ Row(w) = q
    BY <1>6, <2>2 DEF Row, Column
  <2>5. PutDraws(sc, w, g)
    BY <1>3, <1>4, <1>6, <2>4, Zenon DEF PutDraws, q, m
  <2> QED
    BY <2>3, <2>5
<1>5. CASE ~(m < CRT_COLS - 1)
  <2>1. sc.pos + 1 = (q + 1) * CRT_COLS
    BY <1>1, <1>5
  <2>2. w = [buf |-> b, pos |-> (Row(sc) + 1) * CRT_COLS]
    BY <1>6, <2>1 DEF q
  <2>3. Down(sc, Scrolled(w), ScreenOf(b), 0)
    BY <1>2, <2>2, ScrolledDown
  <2> QED
    BY <1>3, <1>5, <2>3, Zenon DEF PutDraws, m
<1> QED
  BY <1>4, <1>5

(* A newline, and a carriage return. *)
LEMMA LineStarts ==
  ASSUME NEW sc \in Screens
  PROVE  /\ StartOfLine(sc.pos) = Row(sc) * CRT_COLS
         /\ StartOfLine(sc.pos + CRT_COLS) = (Row(sc) + 1) * CRT_COLS
<1> DEFINE q == Row(sc)
           m == Column(sc)
<1>1. /\ sc.pos \in Nat /\ q \in 0..(CRT_ROWS - 1) /\ m \in 0..(CRT_COLS - 1)
      /\ sc.pos = q * CRT_COLS + m
      /\ q * CRT_COLS \in Nat /\ (q + 1) * CRT_COLS = q * CRT_COLS + CRT_COLS
      /\ CRT_ROWS \in Nat /\ CRT_COLS \in Nat /\ 0 < CRT_COLS
  BY ScreenFacts
<1>2. sc.pos % CRT_COLS = m
  BY DEF Column
<1> HIDE DEF q, m
<1>3. (sc.pos + CRT_COLS) % CRT_COLS = m
  <2>1. q + 1 \in Nat /\ sc.pos + CRT_COLS = (q + 1) * CRT_COLS + m
    BY <1>1
  <2>2. ((q + 1) * CRT_COLS + m) % CRT_COLS = m
    BY <1>1, <2>1, Division
  <2> QED
    BY <2>1, <2>2
<1>4. StartOfLine(sc.pos) = q * CRT_COLS /\ StartOfLine(sc.pos + CRT_COLS) = (q + 1) * CRT_COLS
  BY <1>1, <1>2, <1>3 DEF StartOfLine
<1> QED
  BY <1>4 DEF q

LEMMA NewlineMoves ==
  ASSUME NEW sc \in Screens
  PROVE  Down(sc, Scrolled([sc EXCEPT !.pos = StartOfLine(sc.pos + CRT_COLS)]), ScreenOf(sc.buf), 0)
<1> DEFINE w == [sc EXCEPT !.pos = StartOfLine(sc.pos + CRT_COLS)]
<1>1. w = [buf |-> sc.buf, pos |-> (Row(sc) + 1) * CRT_COLS] /\ sc.buf \in [Positions -> Cells]
  BY LineStarts DEF Screens
<1> HIDE DEF w
<1>2. Down(sc, Scrolled(w), ScreenOf(sc.buf), 0)
  BY <1>1, ScrolledDown
<1> QED
  BY <1>2 DEF w

LEMMA ReturnMoves ==
  ASSUME NEW sc \in Screens
  PROVE  PutGoesBack(sc, Scrolled([sc EXCEPT !.pos = StartOfLine(sc.pos)]))
<1> DEFINE w == [sc EXCEPT !.pos = StartOfLine(sc.pos)]
           q == Row(sc)
<1>1. w = [buf |-> sc.buf, pos |-> q * CRT_COLS]
  BY LineStarts DEF Screens
<1>2. q \in 0..(CRT_ROWS - 1) /\ 0 \in 0..(CRT_COLS - 1) /\ q * CRT_COLS \in Nat /\ CRT_SIZE \in Nat
  BY ScreenFacts
<1> HIDE DEF w, q
<1>3. q * CRT_COLS + 0 \in Positions /\ (q * CRT_COLS + 0) \div CRT_COLS = q /\ (q * CRT_COLS + 0) % CRT_COLS = 0
  BY <1>2, Grid
<1>4. q * CRT_COLS \in Positions /\ (q * CRT_COLS) \div CRT_COLS = q /\ (q * CRT_COLS) % CRT_COLS = 0
  <2>1. q * CRT_COLS + 0 = q * CRT_COLS
    BY <1>2
  <2> QED
    BY <1>3, <2>1
<1>5. Scrolled(w) = w
  BY <1>1, <1>2, <1>4 DEF Scrolled, OnScreen, Positions
<1>6. PutGoesBack(sc, w)
  BY <1>1, <1>4 DEF PutGoesBack, Row, Column, q
<1> QED
  BY <1>5, <1>6 DEF w

(* A backspace, except in the first cell. *)
LEMMA RuboutMoves ==
  ASSUME NEW sc \in Screens, NEW g \in Cells, sc.pos # 0, NEW w,
         w = [buf |-> [sc.buf EXCEPT ![sc.pos - 1] = g], pos |-> sc.pos - 1]
  PROVE  PutErases(sc, Scrolled(w), g)
<1> DEFINE b == [sc.buf EXCEPT ![sc.pos - 1] = g]
           q == Row(sc)
           m == Column(sc)
<1>1. /\ sc.buf \in [Positions -> Cells]
      /\ sc.pos \in Positions /\ sc.pos \in Nat /\ sc.pos < CRT_SIZE
      /\ q \in 0..(CRT_ROWS - 1) /\ m \in 0..(CRT_COLS - 1)
      /\ sc.pos = q * CRT_COLS + m
      /\ q * CRT_COLS \in Nat
      /\ CRT_ROWS \in Nat /\ CRT_COLS \in Nat /\ 0 < CRT_ROWS /\ 0 < CRT_COLS /\ CRT_SIZE \in Nat
  BY ScreenFacts
<1>2. sc.pos - 1 \in Positions /\ Scrolled(w) = w
  BY <1>1 DEF Scrolled, OnScreen, Positions
<1>3. ScreenOf(b) = At(ScreenOf(sc.buf), w.pos, g)
  <2>1. w.pos = sc.pos - 1
    OBVIOUS
  <2>2. ScreenOf(b) = At(ScreenOf(sc.buf), sc.pos - 1, g)
    BY <1>1, <1>2, CellDrawn, Zenon
  <2> QED
    BY <2>1, <2>2, Zenon
<1>7. w.buf = b /\ w.pos = sc.pos - 1
  OBVIOUS
<1> HIDE DEF b, q, m
<1>4. ~(q = 0 /\ m = 0)
  <2>1. CASE q = 0 /\ m = 0
    <3>1. 0 * CRT_COLS = 0
      BY <1>1
    <3> QED
      BY <1>1, <2>1, <3>1
  <2> QED
    BY <2>1
<1>5. CASE m > 0
  <2>1. m - 1 \in 0..(CRT_COLS - 1) /\ sc.pos - 1 = q * CRT_COLS + (m - 1)
    BY <1>1, <1>5
  <2>2. (sc.pos - 1) \div CRT_COLS = q /\ (sc.pos - 1) % CRT_COLS = m - 1
    BY <1>1, <2>1, Grid
  <2>3. PutErases(sc, w, g)
    <3>1. Column(w) = m - 1 /\ Row(w) = q
      BY <1>7, <2>2 DEF Row, Column
    <3> QED
      BY <1>3, <1>4, <1>5, <1>7, <3>1, Zenon DEF PutErases, q, m
  <2> QED
    BY <1>2, <2>3
<1>6. CASE ~(m > 0)
  <2>1. q - 1 \in 0..(CRT_ROWS - 1) /\ q - 1 \in Nat /\ m = 0 /\ (q - 1) + 1 = q
    BY <1>1, <1>4, <1>6
  <2>2. q * CRT_COLS = (q - 1) * CRT_COLS + CRT_COLS /\ (q - 1) * CRT_COLS \in Nat
    BY <1>1, <2>1, Times
  <2>3. CRT_COLS - 1 \in 0..(CRT_COLS - 1) /\ sc.pos - 1 = (q - 1) * CRT_COLS + (CRT_COLS - 1)
    BY <1>1, <2>1, <2>2
  <2>4. (sc.pos - 1) \div CRT_COLS = q - 1 /\ (sc.pos - 1) % CRT_COLS = CRT_COLS - 1
    BY <1>1, <2>1, <2>3, Grid
  <2>5. PutErases(sc, w, g)
    <3>1. Column(w) = CRT_COLS - 1 /\ Row(w) = q - 1
      BY <1>7, <2>4 DEF Row, Column
    <3> QED
      BY <1>3, <1>4, <1>6, <1>7, <3>1, Zenon DEF PutErases, q, m
  <2> QED
    BY <1>2, <2>5
<1> QED
  BY <1>5, <1>6

-----------------------------------------------------------------------------
(* The four things the display does, in the terms of the terminal. *)
LEMMA DrawStep ==
  ASSUME NEW g \in DrawnCells, PutDraws(scr, scr', g)
  PROVE  Display!Next
<1>1. Display!Draw(g)
  BY DEF PutDraws, Down, At, ScreenOf, Row, Column, Fresh, Display!Draw, Display!DownTo, Display!FreshRow
<1> QED
  BY <1>1 DEF Display!Next

LEMMA NewlineStep ==
  ASSUME Down(scr, scr', ScreenOf(scr.buf), 0)
  PROVE  Display!Next
<1>1. Display!Newline
  BY DEF Down, ScreenOf, Row, Column, Fresh, Display!Newline, Display!DownTo, Display!FreshRow
<1> QED
  BY <1>1 DEF Display!Next

LEMMA ReturnStep ==
  ASSUME PutGoesBack(scr, scr')
  PROVE  Display!Next
<1>1. Display!Return
  BY DEF PutGoesBack, ScreenOf, Row, Column, Display!Return
<1> QED
  BY <1>1 DEF Display!Next

LEMMA BackspaceStep ==
  ASSUME NEW g \in DrawnCells, PutErases(scr, scr', Erased(g))
  PROVE  Display!Next
<1>1. Display!Backspace(g)
  BY DEF PutErases, At, ScreenOf, Row, Column, Display!Backspace
<1> QED
  BY <1>1 DEF Display!Next

(* What the switch of cga_putc() does for the byte b, erasing with blank or drawing g. *)
Writes(sc, new, b, blank, g) ==
  /\ b = BS /\ sc.pos = 0 => new = sc
  /\ b = BS /\ sc.pos # 0 =>
       new = [buf |-> [sc.buf EXCEPT ![sc.pos - 1] = blank], pos |-> sc.pos - 1]
  /\ b = NL => new = [sc EXCEPT !.pos = StartOfLine(sc.pos + CRT_COLS)]
  /\ b = CR => new = [sc EXCEPT !.pos = StartOfLine(sc.pos)]
  /\ b \notin {BS, NL, CR} => new = [buf |-> [sc.buf EXCEPT ![sc.pos] = g], pos |-> sc.pos + 1]

(* It is what Written() is, by cases of the byte. *)
LEMMA WrittenCases ==
  ASSUME NEW sc, NEW ch, NEW a
  PROVE  Writes(sc, Written(sc, ch, a), ch % 256, Cell(SPACE, a), Cell(ch % 256, a))
<1> DEFINE b == ch % 256
<1>1. ch % 256 = b
  OBVIOUS
<1> HIDE DEF b
<1> QED
  BY <1>1 DEF Writes, Written, BS, NL, CR

(* While a character is put it is one a caller gave, or a space of a tab. *)
DrawnInv == pc # "idle" => c \in PutChars \union {SPACE}

LEMMA DrawnStep == DrawnInv /\ [Next]_vars => DrawnInv'
<1> SUFFICES ASSUME DrawnInv, [Next]_vars PROVE DrawnInv'
  OBVIOUS
<1>1. \/ pc' # "idle" => pc # "idle" /\ c' = c
      \/ c' \in PutChars \union {SPACE}
  BY DEF Next, ConsPutc, Callers, vars, PortSends, SetBg, SetFg, CgaReset, Cputchar, Poll,
         PortWrite, CgaChar, CgaTab, TabSpace, TabEnd, call, Ports
<1> QED
  BY <1>1 DEF DrawnInv

LEMMA CellDrawable ==
  ASSUME NEW ch \in PutChars \union {SPACE}, NEW attr \in DrawnAttrs
  PROVE  Cell(ch % 256, attr) \in DrawnCells
  BY DEF DrawnCells

(* A character shown is a step of the terminal, or a backspace at the top left. *)
LEMMA CharStep == TypeOK /\ DrawnInv /\ CgaChar => Display!Next \/ UNCHANGED scr
<1> SUFFICES ASSUME TypeOK, DrawnInv, CgaChar PROVE Display!Next \/ UNCHANGED scr
  OBVIOUS
<1> DEFINE a == Attribute(cga_bg, cga_fg, c)
           g == Cell(c % 256, a)
           w == Written(scr, c, a)
<1>1. scr \in Screens /\ c \in -128..255 /\ c \in PutChars \union {SPACE} /\ cga_bg \in Colors /\ cga_fg \in Colors
  BY DEF TypeOK, DrawnInv, CgaChar
<1>2. a \in 0..255 /\ c % 256 \in 0..255
  <2>1. Attribute(cga_bg, cga_fg, c) \in 0..255
    BY <1>1, AttributeType
  <2>2. c % 256 \in 0..255
    BY <1>1
  <2> QED
    BY <2>1, <2>2
<1>3. g \in Cells /\ g \in DrawnCells
  <2>1. a \in DrawnAttrs
    BY <1>1 DEF DrawnAttrs
  <2> HIDE DEF a
  <2> QED
    <3>1. Cell(c % 256, a) \in Cells
      BY <1>2 DEF Cells, Cell
    <3>2. Cell(c % 256, a) \in DrawnCells
      BY <1>1, <2>1, CellDrawable
    <3> QED
      BY <3>1, <3>2
<1>4. Erased(g) = Cell(SPACE, a) /\ Erased(g) \in Cells
  BY <1>2 DEF Erased, Cell, Cells, SPACE
<1>5. scr' = Scrolled(w)
  BY DEF CgaChar, CgaPutc
<1>6. Writes(scr, w, c % 256, Erased(g), g)
  BY <1>4, WrittenCases
<1> HIDE DEF a, g, w
<1>7. CASE c % 256 = BS /\ scr.pos = 0
  <2>1. 0 < CRT_SIZE
    BY SizeFacts
  <2>2. Scrolled(scr) = scr
    BY <1>7, <2>1 DEF Scrolled, OnScreen
  <2> QED
    BY <1>5, <1>6, <1>7, <2>2, Zenon DEF Writes
<1>8. CASE c % 256 = BS /\ scr.pos # 0
  <2>1. PutErases(scr, Scrolled(w), Erased(g))
    BY <1>1, <1>4, <1>6, <1>8, RuboutMoves, Zenon DEF Writes
  <2>2. PutErases(scr, scr', Erased(g))
    BY <1>5, <2>1, Zenon
  <2> QED
    BY <1>3, <2>2, BackspaceStep
<1>9. CASE c % 256 = NL
  <2>1. Down(scr, Scrolled(w), ScreenOf(scr.buf), 0)
    BY <1>1, <1>6, <1>9, NewlineMoves, Zenon DEF Writes
  <2>2. Down(scr, scr', ScreenOf(scr.buf), 0)
    BY <1>5, <2>1, Zenon
  <2> QED
    BY <2>2, NewlineStep
<1>10. CASE c % 256 = CR
  <2>1. PutGoesBack(scr, Scrolled(w))
    BY <1>1, <1>6, <1>10, ReturnMoves, Zenon DEF Writes
  <2>2. PutGoesBack(scr, scr')
    BY <1>5, <2>1, Zenon
  <2> QED
    BY <2>2, ReturnStep
<1>11. CASE c % 256 \notin {BS, NL, CR}
  <2>1. PutDraws(scr, Scrolled(w), g)
    BY <1>1, <1>3, <1>6, <1>11, DrawnCell, Zenon DEF Writes
  <2>2. PutDraws(scr, scr', g)
    BY <1>5, <2>1, Zenon
  <2> QED
    BY <1>3, <2>2, DrawStep
<1> QED
  BY <1>7, <1>8, <1>9, <1>10, <1>11, Zenon

(* Every other step leaves the display alone, the last one of a tab included. *)
LEMMA DisplayStep == TypeOK /\ DrawnInv /\ [Next]_vars => [Display!Next]_(Display!vars)
<1> SUFFICES ASSUME TypeOK, DrawnInv, [Next]_vars PROVE Display!Next \/ UNCHANGED scr
  BY DEF Display!vars
<1>1. CASE CgaChar
  BY <1>1, CharStep
<1>2. CASE TabEnd
  <2>1. scr.pos < CRT_SIZE
    BY SizeFacts DEF TypeOK, Screens, Positions
  <2> QED
    BY <1>2, <2>1 DEF TabEnd, Scrolled, OnScreen
<1>3. CASE ~CgaChar /\ ~TabEnd
  BY <1>3 DEF Next, ConsPutc, Callers, vars, PortSends, SetBg, SetFg, CgaReset,
              Cputchar, Poll, PortWrite, CgaTab, TabSpace
<1> QED
  BY <1>1, <1>2, <1>3

LEMMA DisplayInit == Init => Display!Init
<1> SUFFICES ASSUME Init PROVE Display!Init
  OBVIOUS
<1>1. scr \in Screens /\ \A x \in Positions : scr.buf[x] = Blank
  BY TypeInit DEF TypeOK, Init
<1>2. Row(scr) \in 0..(CRT_ROWS - 1) /\ Column(scr) \in 0..(CRT_COLS - 1)
  BY <1>1, ScreenFacts
<1>3. ScreenOf(scr.buf) = [r \in 1..CRT_ROWS |-> Fresh]
  <2>1. ASSUME NEW r \in 1..CRT_ROWS, NEW k \in 1..CRT_COLS
        PROVE  scr.buf[(r - 1) * CRT_COLS + k - 1] = Blank
    <3>1. /\ CRT_ROWS \in Nat /\ CRT_COLS \in Nat /\ r - 1 \in 0..(CRT_ROWS - 1) /\ r - 1 \in Nat
          /\ k - 1 \in 0..(CRT_COLS - 1)
      BY ScreenAssumption
    <3>2. (r - 1) * CRT_COLS + (k - 1) \in Positions
      BY <3>1, Grid
    <3>4. (r - 1) * CRT_COLS \in Nat
      BY <3>1, Times
    <3>3. (r - 1) * CRT_COLS + k - 1 = (r - 1) * CRT_COLS + (k - 1)
      BY <3>1, <3>4
    <3> QED
      BY <1>1, <3>2, <3>3
  <2>2. ASSUME NEW r \in 1..CRT_ROWS
        PROVE  [k \in 1..CRT_COLS |-> scr.buf[(r - 1) * CRT_COLS + k - 1]] = Fresh
    BY <2>1, <2>2 DEF Fresh
  <2> QED
    BY <2>2 DEF ScreenOf
<1>4. ScreenOf(scr.buf) \in [1..CRT_ROWS -> [1..CRT_COLS -> DrawnCells \union {Blank}]]
  <2>1. Fresh \in [1..CRT_COLS -> DrawnCells \union {Blank}]
    BY DEF Fresh
  <2> QED
    BY <1>3, <2>1
<1> QED
  BY <1>2, <1>4 DEF Display!Init, ScreenOf, Row, Column

(* What cga_putc() makes of its linear buffer and crt_pos is the terminal of rows
   and columns a user expects, for every size of the screen and every sequence of
   characters and colours: a full line goes on on the next, a backspace at the
   left edge goes back to the line above, and only the first row is ever lost. *)
THEOREM TerminalRefinement == Spec => ImplementsTerminal
<1>1. Init => DrawnInv
  BY DEF Init, DrawnInv
<1> QED
  BY <1>1, TypeInit, TypeStep, DrawnStep, DisplayInit, DisplayStep, PTL
     DEF Spec, ImplementsTerminal, Display!Spec

-----------------------------------------------------------------------------
(* Of the bytes owed to a port, s is sent; ch is next if one is pending, and the
   rest are spaces. *)
Bytes == 0..255
Carried(s, owed, pending, ch, rest) ==
  LET n == Len(s) + pending
  IN  /\ s \in Seq(Bytes) /\ owed \in Seq(Bytes)
      /\ Len(owed) = n + rest
      /\ \A k \in 1..Len(s) : owed[k] = s[k]
      /\ pending = 1 => owed[n] = ch
      /\ \A k \in 1..Len(owed) : k > n => owed[k] = SPACE

(* The pending character is written. *)
LEMMA CharCarried ==
  ASSUME NEW s, NEW owed, NEW ch \in Bytes, NEW rest \in Nat, Carried(s, owed, 1, ch, rest), NEW any
  PROVE  Carried(Append(s, ch), owed, 0, any, rest)
<1>1. /\ s \in Seq(Bytes) /\ owed \in Seq(Bytes) /\ Len(owed) = (Len(s) + 1) + rest
      /\ \A k \in 1..Len(s) : owed[k] = s[k]
      /\ owed[Len(s) + 1] = ch
      /\ \A k \in 1..Len(owed) : k > Len(s) + 1 => owed[k] = SPACE
  BY DEF Carried
<1> DEFINE t == Append(s, ch)
<1>2. /\ t \in Seq(Bytes) /\ Len(t) = Len(s) + 1
      /\ \A k \in 1..Len(s) : t[k] = s[k]
      /\ t[Len(s) + 1] = ch
  BY <1>1, AppendProperties
<1> HIDE DEF t, Bytes
<1>3. Len(s) \in Nat
  BY <1>1
<1>4. ASSUME NEW k \in 1..Len(t) PROVE owed[k] = t[k]
  <2>1. CASE k = Len(s) + 1
    BY <1>1, <1>2, <2>1
  <2>2. CASE k # Len(s) + 1
    <3>1. k \in 1..Len(s)
      BY <1>2, <1>3, <2>2
    <3> QED
      BY <1>1, <1>2, <3>1
  <2> QED
    BY <2>1, <2>2
<1>5. Len(t) + 0 = Len(s) + 1
  BY <1>2, <1>3
<1>6. Carried(t, owed, 0, any, rest)
  BY <1>1, <1>2, <1>4, <1>5 DEF Carried
<1> QED
  BY <1>6 DEF t

(* A tab's cons_putc(' ') begins. *)
LEMMA SpaceCarried ==
  ASSUME NEW s, NEW owed, NEW any, NEW rest \in Nat, rest > 0, Carried(s, owed, 0, any, rest)
  PROVE  Carried(s, owed, 1, SPACE, rest - 1)
<1>1. /\ s \in Seq(Bytes) /\ owed \in Seq(Bytes) /\ Len(owed) = Len(s) + rest
      /\ \A k \in 1..Len(s) : owed[k] = s[k]
      /\ \A k \in 1..Len(owed) : k > Len(s) => owed[k] = SPACE
      /\ Len(s) \in Nat
  <2>1. \A k \in 1..Len(owed) : k > Len(s) + 0 => owed[k] = SPACE
    BY DEF Carried
  <2>2. s \in Seq(Bytes) /\ owed \in Seq(Bytes) /\ Len(owed) = (Len(s) + 0) + rest
        /\ \A k \in 1..Len(s) : owed[k] = s[k]
    BY DEF Carried
  <2>3. Len(s) \in Nat
    BY <2>2
  <2>4. Len(s) + 0 = Len(s)
    BY <2>3
  <2> QED
    BY <2>1, <2>2, <2>3, <2>4
<1>2. Len(s) + 1 \in 1..Len(owed) /\ Len(s) + 1 > Len(s) /\ Len(owed) = (Len(s) + 1) + (rest - 1)
  BY <1>1
<1>3. owed[Len(s) + 1] = SPACE
  BY <1>1, <1>2
<1>4. ASSUME NEW k \in 1..Len(owed), k > Len(s) + 1 PROVE owed[k] = SPACE
  BY <1>1, <1>4
<1> HIDE DEF SPACE
<1> QED
  BY <1>1, <1>2, <1>3, <1>4 DEF Carried

(* A call of cputchar() adds to what is owed. *)
LEMMA CallCarried ==
  ASSUME NEW s, NEW owed, NEW any, Carried(s, owed, 0, any, 0), NEW ch \in -128..255
  PROVE  Carried(s, owed \o OnWire(ch), 1, ch % 256, IF ch % 256 = TAB THEN 5 ELSE 0)
<1> DEFINE b == ch % 256
           more == OnWire(ch)
           n == IF b = TAB THEN 5 ELSE 0
           all == owed \o more
<1>1. b \in Bytes /\ TAB \in Bytes /\ SPACE \in Bytes
  BY DEF Bytes, TAB, SPACE
<1>2. /\ more \in Seq(Bytes) /\ Len(more) = 1 + n /\ more[1] = b
      /\ \A k \in 2..Len(more) : more[k] = SPACE
  <2> HIDE DEF b, Bytes
  <2>1. CASE b = TAB
    <3>1. more = <<TAB, SPACE, SPACE, SPACE, SPACE, SPACE>>
      BY <2>1 DEF OnWire, b
    <3> HIDE DEF TAB, SPACE, more
    <3>2. more \in Seq(Bytes) /\ Len(more) = 6
      BY <1>1, <3>1
    <3>3. \A k \in 2..6 : more[k] = SPACE
      BY <3>1
    <3>4. more[1] = TAB
      BY <3>1
    <3> QED
      BY <2>1, <3>2, <3>3, <3>4
  <2>2. CASE b # TAB
    <3>1. more = <<b>>
      BY <2>2 DEF OnWire, b
    <3> HIDE DEF more
    <3>2. more \in Seq(Bytes) /\ Len(more) = 1 /\ more[1] = b
      BY <1>1, <3>1
    <3>3. \A k \in 2..1 : FALSE
      OBVIOUS
    <3> QED
      BY <2>2, <3>2, <3>3
  <2> QED
    BY <2>1, <2>2
<1>3. /\ s \in Seq(Bytes) /\ owed \in Seq(Bytes) /\ Len(owed) = Len(s) /\ Len(s) \in Nat
      /\ \A k \in 1..Len(s) : owed[k] = s[k]
  <2>1. s \in Seq(Bytes) /\ owed \in Seq(Bytes) /\ Len(owed) = (Len(s) + 0) + 0
        /\ \A k \in 1..Len(s) : owed[k] = s[k]
    BY DEF Carried
  <2>2. Len(s) \in Nat
    BY <2>1
  <2>3. Len(owed) = Len(s)
    BY <2>1, <2>2
  <2> QED
    BY <2>1, <2>2, <2>3
<1>4. n \in Nat
  OBVIOUS
<1> HIDE DEF b, more, n, Bytes
<1>5. /\ all \in Seq(Bytes) /\ Len(all) = Len(s) + Len(more)
      /\ \A k \in 1..Len(s) + Len(more) : all[k] = IF k <= Len(s) THEN owed[k] ELSE more[k - Len(s)]
  <2>1. /\ all \in Seq(Bytes) /\ Len(all) = Len(owed) + Len(more)
        /\ \A k \in 1..Len(owed) + Len(more) : all[k] = IF k <= Len(owed) THEN owed[k] ELSE more[k - Len(owed)]
    BY <1>2, <1>3, ConcatProperties, Zenon
  <2> QED
    BY <1>3, <2>1
<1> HIDE DEF all
<1>6. Len(all) = (Len(s) + 1) + n
  BY <1>2, <1>3, <1>4, <1>5
<1>7. \A k \in 1..Len(s) : all[k] = s[k]
  BY <1>2, <1>3, <1>4, <1>5
<1>8. all[Len(s) + 1] = b
  BY <1>2, <1>3, <1>4, <1>5
<1>9. ASSUME NEW k \in 1..Len(all), k > Len(s) + 1 PROVE all[k] = SPACE
  <2>1. k - Len(s) \in 2..Len(more) /\ ~(k <= Len(s)) /\ k \in 1..Len(s) + Len(more)
    BY <1>2, <1>3, <1>4, <1>5, <1>9
  <2> QED
    BY <1>2, <1>5, <2>1
<1> HIDE DEF SPACE
<1>10. Carried(s, all, 1, b, n)
  BY <1>3, <1>5, <1>6, <1>7, <1>8, <1>9 DEF Carried
<1> QED
  BY <1>10 DEF all, more, b, n

(* What is sent comes first, and is everything when nothing is left. *)
LEMMA CarriedPrefix ==
  ASSUME NEW s, NEW owed, NEW pending \in 0..1, NEW ch, NEW rest \in Nat, Carried(s, owed, pending, ch, rest)
  PROVE  IsPrefix(s, owed) /\ (pending = 0 /\ rest = 0 => s = owed)
<1> DEFINE t == SubSeq(s, 1, Len(s))
           u == SubSeq(owed, 1, Len(s))
<1>2. /\ s \in Seq(Bytes) /\ owed \in Seq(Bytes) /\ Len(owed) = (Len(s) + pending) + rest
      /\ \A k \in 1..Len(s) : owed[k] = s[k]
      /\ Len(s) \in Nat /\ Len(owed) \in Nat
  BY DEF Carried
<1> HIDE DEF Bytes
<1>4. Len(s) <= Len(owed)
  BY <1>2
<1>5. \A k \in 1..Len(s) : s[k] \in Bytes /\ owed[k] \in Bytes
  BY <1>2, <1>4, ElementOfSeq
<1>6. \A k \in 1..Len(s) : k = 1 + k - 1
  BY <1>2
<1>7. IsPrefix(s, owed)
  <2>1. /\ t \in Seq(Bytes) /\ Len(t) = IF 1 <= Len(s) THEN Len(s) - 1 + 1 ELSE 0
        /\ \A k \in 1..(Len(s) - 1 + 1) : t[k] = s[1 + k - 1]
    BY <1>2, <1>5, SubSeqProperties, 1 \in Int, Len(s) \in Int
  <2>2. /\ u \in Seq(Bytes) /\ Len(u) = IF 1 <= Len(s) THEN Len(s) - 1 + 1 ELSE 0
        /\ \A k \in 1..(Len(s) - 1 + 1) : u[k] = owed[1 + k - 1]
    BY <1>2, <1>5, SubSeqProperties, 1 \in Int, Len(s) \in Int
  <2> HIDE DEF t, u
  <2>3. Len(t) = Len(s) /\ Len(u) = Len(s) /\ Len(s) - 1 + 1 = Len(s)
    BY <1>2, <2>1, <2>2
  <2>4. \A k \in 1..Len(t) : t[k] = u[k]
    BY <1>2, <1>6, <2>1, <2>2, <2>3
  <2>5. t = u
    BY <2>1, <2>2, <2>3, <2>4, SeqEqual
  <2> QED
    BY <1>4, <2>5 DEF IsPrefix, t, u
<1>8. ASSUME pending = 0, rest = 0 PROVE s = owed
  <2>1. Len(s) = Len(owed)
    BY <1>2, <1>8
  <2>2. \A k \in 1..Len(s) : s[k] = owed[k]
    BY <1>2
  <2> QED
    BY <1>2, <2>1, <2>2, SeqEqual
<1> QED
  BY <1>7, <1>8

(* The writes a call still owes: port d gets c unless it has had it, and then
   come the spaces of a tab. *)
Putting == {"serial", "lpt", "cga"}
Unwritten(d) == IF pc \in {"serial", d} THEN 1 ELSE 0
Rest == IF pc \in Putting /\ c % 256 = TAB THEN 5 ELSE spaces

(* No tab begins inside a tab, and none is unfinished between two calls. *)
TabInv ==
  /\ pc \in Putting /\ c % 256 = TAB => spaces = 0
  /\ pc \in {"idle", "tabend"} => spaces = 0

PortsInv ==
  /\ wire \in [Ports -> Seq(Bytes)]
  /\ \A d \in present \ overrun : Carried(Stream(d), due, Unwritten(d), c % 256, Rest)

LEMMA Pending ==
  ASSUME NEW d \in Ports
  PROVE  /\ pc = "serial" => Unwritten(d) = 1
         /\ pc = "lpt" => Unwritten(d) = IF d = "lpt" THEN 1 ELSE 0
         /\ pc \notin Ports => Unwritten(d) = 0
  BY DEF Unwritten, Ports

LEMMA PendingNext ==
  ASSUME NEW d \in Ports
  PROVE  /\ pc' = "serial" => Unwritten(d)' = 1
         /\ pc' = "lpt" => Unwritten(d)' = IF d = "lpt" THEN 1 ELSE 0
         /\ pc' \notin Ports => Unwritten(d)' = 0
  BY DEF Unwritten, Ports

LEMMA TabStep == TypeOK /\ TabInv /\ [Next]_vars => TabInv'
<1> SUFFICES ASSUME TypeOK, TabInv, [Next]_vars PROVE TabInv'
  OBVIOUS
<1>1. CASE TabSpace
  <2>1. SPACE % 256 # TAB
    BY DEF SPACE, TAB
  <2> QED
    BY <1>1, <2>1 DEF TabSpace, TabInv, Putting
<1>2. CASE CgaTab
  BY <1>2 DEF CgaTab, TabInv, Putting
<1>3. CASE CgaChar
  BY <1>3 DEF CgaChar, TabInv, AfterCga, Putting, TypeOK
<1>4. CASE TabEnd
  BY <1>4 DEF TabEnd, TabInv, Putting
<1>5. ASSUME NEW ch \in PutChars, Cputchar(ch) PROVE TabInv'
  BY <1>5 DEF Cputchar, TabInv, Putting
<1>6. ASSUME NEW d \in Ports, Poll(d) \/ PortWrite(d) PROVE TabInv'
  BY <1>6 DEF Poll, PortWrite, TabInv, Putting, Ports
<1>7. ASSUME NEW d \in Ports, PortSends(d) PROVE TabInv'
  BY <1>7 DEF PortSends, TabInv, call
<1>8. ASSUME NEW b \in Colors, SetBg(b) \/ SetFg(b) PROVE TabInv'
  BY <1>8 DEF SetBg, SetFg, TabInv, call
<1>9. CASE CgaReset \/ UNCHANGED vars
  BY <1>9 DEF CgaReset, vars, TabInv, call
<1> QED
  BY <1>1, <1>2, <1>3, <1>4, <1>5, <1>6, <1>7, <1>8, <1>9 DEF Next, ConsPutc, Callers

(* A port that sends keeps its stream; one that is written gets one byte more. *)
LEMMA StreamSends ==
  ASSUME wire \in [Ports -> Seq(Bytes)], tx \in Registers, NEW d \in Ports, PortSends(d)
  PROVE  /\ wire' \in [Ports -> Seq(Bytes)]
         /\ \A e \in Ports : e \notin overrun => Stream(e)' = Stream(e)
<1>1. tx \in [Ports -> Seq(Bytes)]
  <2>1. ASSUME NEW e \in Ports PROVE tx[e] \in Seq(Bytes)
    <3>1. tx[e] = << >> \/ \E b \in Bytes : tx[e] = <<b>>
      BY DEF Registers, Bytes
    <3> HIDE DEF Bytes
    <3>2. << >> \in Seq(Bytes) /\ \A b \in Bytes : <<b>> \in Seq(Bytes)
      OBVIOUS
    <3> QED
      BY <3>1, <3>2
  <2> QED
    BY <2>1 DEF Registers
<1> HIDE DEF Bytes
<1>2. wire[d] \o tx[d] \in Seq(Bytes)
  BY <1>1, ConcatProperties
<1>3. wire' \in [Ports -> Seq(Bytes)]
  BY <1>2 DEF PortSends
<1>4. ASSUME NEW e \in Ports, e \notin overrun PROVE Stream(e)' = Stream(e)
  <2>1. CASE e = d
    <3>1. wire'[e] = wire[e] \o tx[e] /\ tx'[e] = << >>
      BY <1>1, <1>4, <2>1 DEF PortSends, Registers
    <3>2. (wire[e] \o tx[e]) \o << >> = wire[e] \o tx[e]
      BY <1>2, <2>1, ConcatEmptySeq
    <3> QED
      BY <3>1, <3>2 DEF Stream
  <2>2. CASE e # d
    <3>1. wire'[e] = wire[e] /\ tx'[e] = tx[e]
      BY <1>1, <2>2 DEF PortSends, Registers
    <3> QED
      BY <3>1 DEF Stream
  <2> QED
    BY <2>1, <2>2
<1> QED
  BY <1>3, <1>4

LEMMA StreamWritten ==
  ASSUME wire \in [Ports -> Seq(Bytes)], tx \in Registers, c % 256 \in Bytes,
         NEW d \in Ports, PortWrite(d)
  PROVE  /\ wire' \in [Ports -> Seq(Bytes)] /\ overrun \subseteq overrun'
         /\ \A e \in present \ overrun' : e \in Ports =>
              Stream(e)' = IF e = d THEN Append(Stream(e), c % 256) ELSE Stream(e)
<1> DEFINE b == c % 256
<1>1. << >> \in Seq(Bytes)
  OBVIOUS
<1> HIDE DEF Bytes, b
<1>2. wire' \in [Ports -> Seq(Bytes)] /\ overrun \subseteq overrun'
  BY <1>1 DEF PortWrite
<1>3. ASSUME NEW e \in present \ overrun', e \in Ports
      PROVE  Stream(e)' = IF e = d THEN Append(Stream(e), b) ELSE Stream(e)
  <2>1. tx' = IF d \in present THEN [tx EXCEPT ![d] = <<b>>] ELSE tx
    BY DEF PortWrite, Outb, b
  <2>2. CASE e = d
    <3>1. tx[e] = << >> /\ wire' = wire
      BY <1>3, <2>2 DEF PortWrite
    <3>2. tx'[e] = <<b>>
      BY <1>3, <2>1, <2>2 DEF Registers
    <3>3. wire[e] \o << >> = wire[e]
      BY <1>3, ConcatEmptySeq
    <3>4. Append(wire[e], b) = wire[e] \o <<b>>
      BY <1>3, b \in Bytes, AppendIsConcat DEF b
    <3> QED
      BY <2>2, <3>1, <3>2, <3>3, <3>4 DEF Stream
  <2>3. CASE e # d
    <3>1. wire'[e] = wire[e] /\ tx'[e] = tx[e]
      BY <1>3, <2>1, <2>3 DEF PortWrite, Registers
    <3> QED
      BY <2>3, <3>1 DEF Stream
  <2> QED
    BY <2>2, <2>3
<1> QED
  BY <1>2, <1>3 DEF b

(* One step of any part of the system keeps every port on its way. *)
LEMMA PortsStep == TypeOK /\ TabInv /\ PortsInv /\ [Next]_vars => PortsInv'
<1> SUFFICES ASSUME TypeOK, TabInv, PortsInv, [Next]_vars PROVE PortsInv'
  OBVIOUS
<1>1. /\ present \in SUBSET Ports /\ tx \in Registers /\ wire \in [Ports -> Seq(Bytes)]
      /\ c \in -128..255 /\ spaces \in 0..5 /\ (pc = "space" => spaces > 0)
  BY MachineAssumption DEF TypeOK, PortsInv
<1>2. c % 256 \in Bytes
  BY <1>1 DEF Bytes
<1>3. Rest \in Nat
  BY <1>1 DEF Rest
<1>4. ASSUME UNCHANGED <<ports, due>>,
             \A d \in Ports : Unwritten(d)' = Unwritten(d), c' = c, Rest' = Rest
      PROVE  PortsInv'
  BY <1>1, <1>4 DEF PortsInv, ports, Stream
<1>5. ASSUME NEW d \in Ports, PortSends(d) PROVE PortsInv'
  <2>1. /\ wire' \in [Ports -> Seq(Bytes)]
        /\ \A e \in Ports : e \notin overrun => Stream(e)' = Stream(e)
    BY <1>1, <1>5, StreamSends
  <2>2. present' = present /\ overrun' = overrun /\ due' = due /\ c' = c
    BY <1>5 DEF PortSends, calls, call
  <2>3. Rest' = Rest /\ \A e \in Ports : Unwritten(e)' = Unwritten(e)
    BY <1>5 DEF PortSends, call, Rest, Unwritten
  <2> QED
    BY <1>1, <2>1, <2>2, <2>3 DEF PortsInv
<1>6. ASSUME NEW d \in Ports, PortWrite(d) PROVE PortsInv'
  <2>1. /\ wire' \in [Ports -> Seq(Bytes)] /\ overrun \subseteq overrun'
        /\ \A e \in present \ overrun' : e \in Ports =>
             Stream(e)' = IF e = d THEN Append(Stream(e), c % 256) ELSE Stream(e)
    BY <1>1, <1>2, <1>6, StreamWritten
  <2>2. present' = present /\ due' = due /\ c' = c /\ spaces' = spaces /\ pc = d
    BY <1>6 DEF PortWrite, calls
  <2>3. Rest' = Rest /\ Unwritten(d) = 1 /\ Unwritten(d)' = 0
    <3>1. \/ pc = "serial" /\ d = "serial" /\ pc' = "lpt"
          \/ pc = "lpt" /\ d = "lpt" /\ pc' = "cga"
      BY <1>6 DEF PortWrite, Ports
    <3>2. Rest' = Rest
      BY <2>2, <3>1 DEF Rest, Putting
    <3>4. Unwritten(d) = 1
      BY <3>1, Pending
    <3>5. Unwritten(d)' = 0
      BY <3>1, PendingNext DEF Ports
    <3> QED
      BY <3>2, <3>4, <3>5
  <2>4. \A e \in Ports : e # d => Unwritten(e)' = Unwritten(e)
    BY <1>6 DEF PortWrite, Unwritten, Ports
  <2>5. ASSUME NEW e \in present \ overrun'
        PROVE  Carried(Stream(e)', due, Unwritten(e)', c % 256, Rest)
    <3>1. e \in Ports /\ Carried(Stream(e), due, Unwritten(e), c % 256, Rest)
      BY <1>1, <2>1 DEF PortsInv
    <3>2. CASE e = d
      <4>1. Carried(Stream(e), due, 1, c % 256, Rest)
        BY <2>3, <3>1, <3>2
      <4>2. Carried(Append(Stream(e), c % 256), due, 0, c % 256, Rest)
        BY <1>2, <1>3, <4>1, CharCarried
      <4> QED
        BY <2>1, <2>3, <3>1, <3>2, <4>2
    <3>3. CASE e # d
      BY <2>1, <2>4, <3>1, <3>3
    <3> QED
      BY <3>2, <3>3
  <2> QED
    BY <2>1, <2>2, <2>3, <2>5 DEF PortsInv
<1>7. ASSUME NEW ch \in PutChars, Cputchar(ch) PROVE PortsInv'
  <2>1. ch \in -128..255 /\ spaces = 0 /\ pc = "idle"
    BY <1>7, CharAssumption DEF Cputchar, TabInv
  <2>2. /\ UNCHANGED ports /\ due' = due \o OnWire(ch) /\ c' = ch /\ pc' = "serial" /\ spaces' = spaces
    BY <1>7 DEF Cputchar
  <2>3. Rest = 0 /\ Rest' = (IF ch % 256 = TAB THEN 5 ELSE 0)
    BY <2>1, <2>2 DEF Rest, Putting
  <2>4. ASSUME NEW e \in present \ overrun
        PROVE  Carried(Stream(e), due', Unwritten(e)', ch % 256, Rest')
    <3>1. Unwritten(e) = 0 /\ Unwritten(e)' = 1
      <4>1. e \in Ports /\ pc \notin Ports /\ pc' = "serial"
        BY <1>1, <2>1, <2>2 DEF Ports
      <4> QED
        BY <4>1, Pending, PendingNext
    <3>2. Carried(Stream(e), due, 0, c % 256, 0)
      BY <2>3, <3>1 DEF PortsInv
    <3>3. Carried(Stream(e), due \o OnWire(ch), 1, ch % 256, IF ch % 256 = TAB THEN 5 ELSE 0)
      BY <2>1, <3>2, CallCarried
    <3> QED
      BY <2>2, <2>3, <3>1, <3>3
  <2> QED
    BY <2>2, <2>4 DEF PortsInv, ports, Stream
<1>8. CASE TabSpace
  <2>1. UNCHANGED <<ports, due>> /\ c' = SPACE /\ pc = "space" /\ pc' = "serial" /\ spaces' = spaces - 1
    BY <1>8 DEF TabSpace, calls
  <2>2. Rest = spaces /\ Rest' = spaces - 1 /\ SPACE % 256 = SPACE /\ spaces \in Nat /\ spaces > 0
    BY <1>1, <2>1 DEF Rest, Putting, SPACE, TAB
  <2>3. ASSUME NEW e \in present \ overrun
        PROVE  Carried(Stream(e), due, Unwritten(e)', SPACE % 256, Rest')
    <3>1. Unwritten(e) = 0 /\ Unwritten(e)' = 1
      <4>1. e \in Ports /\ pc \notin Ports /\ pc' = "serial"
        BY <1>1, <2>1 DEF Ports
      <4> QED
        BY <4>1, Pending, PendingNext
    <3>2. Carried(Stream(e), due, 0, c % 256, spaces)
      BY <2>2, <3>1 DEF PortsInv
    <3>3. Carried(Stream(e), due, 1, SPACE, spaces - 1)
      BY <2>2, <3>2, SpaceCarried
    <3> QED
      BY <2>2, <3>1, <3>3
  <2> QED
    BY <2>1, <2>3 DEF PortsInv, ports, Stream
<1>9. CASE CgaChar
  <2>1. UNCHANGED <<ports, due>> /\ c' = c /\ spaces' = spaces /\ pc = "cga" /\ pc' \in {"space", "tabend", "idle"}
    BY <1>9 DEF CgaChar, AfterCga, calls
  <2>2. Rest' = Rest /\ \A e \in Ports : Unwritten(e)' = Unwritten(e)
    BY <1>9, <2>1 DEF CgaChar, Rest, Putting, Unwritten, Ports
  <2> QED
    BY <1>4, <2>1, <2>2
<1>10. CASE CgaTab
  <2>1. UNCHANGED <<ports, due>> /\ c' = c /\ spaces' = 5 /\ pc = "cga" /\ pc' = "space" /\ c % 256 = TAB
    BY <1>10 DEF CgaTab, calls
  <2>2. Rest' = Rest /\ \A e \in Ports : Unwritten(e)' = Unwritten(e)
    BY <2>1 DEF Rest, Putting, Unwritten, Ports
  <2> QED
    BY <1>4, <2>1, <2>2
<1>11. CASE TabEnd
  <2>1. UNCHANGED <<ports, due>> /\ c' = c /\ spaces' = spaces /\ pc = "tabend" /\ pc' = "idle"
    BY <1>11 DEF TabEnd, calls
  <2>2. Rest' = Rest /\ \A e \in Ports : Unwritten(e)' = Unwritten(e)
    BY <2>1 DEF Rest, Putting, Unwritten, Ports
  <2> QED
    BY <1>4, <2>1, <2>2
<1>12. ASSUME \/ \E d \in Ports : Poll(d)
              \/ \E colour \in Colors : SetBg(colour) \/ SetFg(colour)
              \/ CgaReset \/ UNCHANGED vars
       PROVE  PortsInv'
  <2>1. UNCHANGED <<ports, due>> /\ c' = c /\ spaces' = spaces /\ pc' = pc
    BY <1>12 DEF Poll, SetBg, SetFg, CgaReset, vars, calls, call
  <2>2. Rest' = Rest /\ \A e \in Ports : Unwritten(e)' = Unwritten(e)
    BY <2>1 DEF Rest, Putting, Unwritten, Ports
  <2> QED
    BY <1>4, <2>1, <2>2
<1> QED
  BY <1>5, <1>6, <1>7, <1>8, <1>9, <1>10, <1>11, <1>12 DEF Next, ConsPutc, Callers

LEMMA PortsInit == Init => TabInv /\ PortsInv
<1> SUFFICES ASSUME Init PROVE TabInv /\ PortsInv
  OBVIOUS
<1>1. pc = "idle" /\ spaces = 0 /\ due = << >> /\ present \subseteq Ports
  BY MachineAssumption DEF Init
<1>2. wire \in [Ports -> Seq(Bytes)] /\ \A d \in Ports : wire[d] = << >> /\ tx[d] = << >>
  BY DEF Init
<1>3. ASSUME NEW d \in present PROVE Carried(Stream(d), due, Unwritten(d), c % 256, Rest)
  <2>1. Stream(d) = << >>
    <3>1. << >> \o << >> = << >>
      BY ConcatEmptySeq, << >> \in Seq(Bytes)
    <3> QED
      BY <1>1, <1>2, <3>1 DEF Stream
  <2>2. Unwritten(d) = 0 /\ Rest = 0
    BY <1>1 DEF Unwritten, Rest, Putting, Ports
  <2>3. Carried(<< >>, << >>, 0, c % 256, 0)
    <3>1. << >> \in Seq(Bytes) /\ Len(<< >>) = 0 /\ \A k \in 1..0 : FALSE
      OBVIOUS
    <3> QED
      BY <3>1 DEF Carried
  <2> QED
    BY <1>1, <2>1, <2>2, <2>3
<1> QED
  BY <1>1, <1>2, <1>3 DEF TabInv, PortsInv, Putting

LEMMA PortsShow == TypeOK /\ TabInv /\ PortsInv => PortsCarryPuts
<1> SUFFICES ASSUME TypeOK, TabInv, PortsInv, NEW d \in present \ overrun
             PROVE  IsPrefix(Stream(d), due) /\ (pc = "idle" => Stream(d) = due)
  BY DEF PortsCarryPuts
<1>1. Rest \in Nat /\ Unwritten(d) \in 0..1 /\ (pc = "idle" => Rest = 0 /\ Unwritten(d) = 0)
  <2>1. spaces \in 0..5 /\ present \subseteq Ports /\ d \in Ports
    BY MachineAssumption DEF TypeOK
  <2>2. Rest \in Nat /\ Unwritten(d) \in 0..1
    BY <2>1 DEF Rest, Unwritten
  <2>3. ASSUME pc = "idle" PROVE Rest = 0 /\ Unwritten(d) = 0
    BY <2>1, <2>3, Pending DEF TabInv, Rest, Putting, Ports
  <2> QED
    BY <2>2, <2>3
<1>2. Carried(Stream(d), due, Unwritten(d), c % 256, Rest)
  BY DEF PortsInv
<1> QED
  BY <1>1, <1>2, CarriedPrefix

(* Whatever the machine's ports do and however long they take, each of them has
   been given every character once and in the order of the calls, a tab followed by
   its five spaces, unless polling it timed out while its register was full. *)
THEOREM PortsCorrect == Spec => []PortsCarryPuts
  BY TypeInit, TypeStep, TabStep, PortsStep, PortsInit, PortsShow, PTL DEF Spec
===============================================================================
