------------------------------ MODULE KeyboardProofs ---------------------------
(***************************************************************************)
(* Proofs about the two specifications that Keyboard's decoder is part of: *)
(* ConsInput, for every buffer size, every set of bytes and every number   *)
(* of arrivals, and Typing, for every set of keys on which the code's      *)
(* tables and the caps agree, and any number of presses and releases.      *)
(***************************************************************************)
EXTENDS ConsInput, Typing, SequenceTheorems, TLAPS

-----------------------------------------------------------------------------
(* The circular buffer and the queue it implements. *)

(* No scan code names a flag outside the shift word. *)
LEMMA CodesAreFlags ==
  ASSUME NEW d \in Byte
  PROVE  shiftcode[d] \subseteq Flags /\ togglecode[d] \subseteq Flags
  BY DEF shiftcode, togglecode, Flags, Byte

(* kbd_proc_data() keeps the shift word within its flags. *)
LEMMA DecodeShift ==
  ASSUME NEW sh \in SUBSET Flags, NEW b \in Byte
  PROVE  Decode(sh, b).shift \subseteq Flags
<1>1. CASE b = 224
  BY <1>1 DEF Decode, Flags
<1>2. CASE b # 224 /\ b >= 128
  BY <1>2 DEF Decode, Released
<1>3. CASE b # 224 /\ ~(b >= 128)
  <2> DEFINE d == IF "E0ESC" \in sh THEN b + 128 ELSE b
  <2>1. d \in Byte
    BY <1>3 DEF Byte
  <2>2. shiftcode[d] \subseteq Flags /\ togglecode[d] \subseteq Flags
    BY <2>1, CodesAreFlags
  <2>3. Decode(sh, b).shift = Toggled((sh \ {"E0ESC"}) \union shiftcode[d], togglecode[d])
    BY <1>3 DEF Decode, Pressed
  <2> QED
    BY <2>2, <2>3 DEF Toggled
<1> QED
  BY <1>1, <1>2, <1>3

(* What kbd_proc_data() returns is in the set ConsInput calls KbdChars. *)
LEMMA DecodeChar ==
  ASSUME NEW sh \in SUBSET Flags, NEW b \in KbdBytes
  PROVE  Decode(sh, b).c \in KbdChars
  BY DEF KbdChars

LEMMA AdvanceSlot ==
  ASSUME NEW p \in Slots
  PROVE  Advance(p) \in Slots
  BY SizeAssumption DEF Advance, Slots

(* A byte in the controller is the mouse's or one of the keyboard's. *)
LEMMA KbdByteRead ==
  ASSUME TypeOK, KbdReadByte
  PROVE  /\ obf[1].data \in KbdBytes
         /\ shift' \subseteq Flags
         /\ KbdDecoded.c \in KbdChars
         /\ obf' = << >>
<1>1. obf[1].data \in KbdBytes
  BY DEF TypeOK, KbdReadByte, KbdNoData
<1>2. shift \in SUBSET Flags /\ obf[1].data \in Byte
  BY <1>1, BytesAssumption DEF TypeOK
<1> QED
  BY <1>1, <1>2, DecodeShift, DecodeChar DEF KbdReadByte, KbdDecoded

(* cons_intr() keeps the buffer well formed. *)
LEMMA StoreTypes ==
  ASSUME TypeOK, NEW c \in Chars \union {0}, ConsIntrStore(c)
  PROVE  /\ buf' \in [Slots -> Chars \union {0}]
         /\ rpos' \in Slots /\ wpos' \in Slots
         /\ ret' \in Chars \union {0} /\ unread' \in Int
  BY AdvanceSlot DEF TypeOK, ConsIntrStore, NoChar

(* Every step of the devices and of cons_getc() keeps the types: above all,
   both positions stay inside the buffer. *)
LEMMA TypeStep == TypeOK /\ [Next]_vars => TypeOK'
<1> SUFFICES ASSUME TypeOK, [Next]_vars PROVE TypeOK'
  OBVIOUS
<1> USE SizeAssumption, BytesAssumption, BoundAssumption
<1>1. ASSUME NEW b \in SerialBytes, SerialReceive(b) PROVE TypeOK'
  BY <1>1 DEF SerialReceive, TypeOK, kbdVars, cons
<1>2. ASSUME NEW b \in KbdBytes, KeyboardReceive(b) PROVE TypeOK'
  <2>1. obf' \in {<<[aux |-> FALSE, data |-> d]>> : d \in KbdBytes}
    BY <1>2 DEF KeyboardReceive
  <2>2. arrived' \in 0..MaxArrivals
    BY <1>2 DEF KeyboardReceive, TypeOK
  <2> QED
    BY <1>2, <2>1, <2>2, Zenon DEF KeyboardReceive, TypeOK, cons
<1>3. CASE MouseReceive
  BY <1>3 DEF MouseReceive, TypeOK, kbdVars, cons
<1>4. CASE ConsGetc
  BY <1>4 DEF ConsGetc, FirstPoll, TypeOK, kbdVars, cons
<1>5. CASE SerialIntr
  <2>1. CASE uart # << >> /\ ConsIntrStore(uart[1]) /\ uart' = << >> /\ UNCHANGED pc
    <3>1. uart[1] \in Chars \union {0}
      BY <2>1 DEF TypeOK, Chars
    <3> QED
      BY <1>5, <2>1, <3>1, StoreTypes DEF SerialIntr, TypeOK, kbdVars
  <2>2. CASE pc' = "kbd_intr" /\ UNCHANGED <<uart, cons, ret, unread>>
    BY <1>5, <2>2 DEF SerialIntr, TypeOK, kbdVars, cons
  <2> QED
    BY <1>5, <2>1, <2>2 DEF SerialIntr
<1>6. CASE KbdIntr
  <2>1. CASE KbdReadByte /\ ~Reboots(shift', KbdDecoded.c)
    <3>1. KbdDecoded.c \in Chars \union {0} /\ shift' \subseteq Flags /\ obf' = << >>
      BY <2>1, KbdByteRead DEF Chars
    <3>2. ConsIntrStore(KbdDecoded.c) /\ UNCHANGED <<pc, serial_exists, uart, arrived, mouse>>
      BY <1>6, <2>1 DEF KbdIntr, KbdReadByte
    <3> HIDE DEF KbdDecoded
    <3> QED
      BY <3>1, <3>2, StoreTypes DEF TypeOK
  <2>2. CASE KbdReadByte /\ Reboots(shift', KbdDecoded.c)
    <3>1. shift' \subseteq Flags /\ obf' = << >>
      BY <2>2, KbdByteRead
    <3> QED
      BY <1>6, <2>2, <3>1 DEF KbdIntr, KbdReadByte, TypeOK, cons
  <2>3. CASE KbdNoData
    BY <1>6, <2>3 DEF KbdIntr, KbdReadByte, TypeOK, kbdVars, cons
  <2> QED
    BY <1>6, <2>1, <2>2, <2>3 DEF KbdIntr
<1>7. CASE ConsTake
  BY <1>7, AdvanceSlot DEF ConsTake, TypeOK, kbdVars
<1>8. CASE UNCHANGED vars
  BY <1>8 DEF vars, TypeOK, kbdVars, cons
<1> QED
  BY <1>1, <1>2, <1>3, <1>4, <1>5, <1>6, <1>7, <1>8 DEF Next, Devices, Kernel

LEMMA TypeInit == Init => TypeOK
  BY SizeAssumption, BoundAssumption DEF Init, TypeOK, Slots

(* Whatever the devices send and whenever, cons.rpos and cons.wpos stay inside
   cons.buf and the buffer holds only characters a device produced. *)
THEOREM TypeCorrect == Spec => []TypeOK
  BY TypeInit, TypeStep, PTL DEF Spec

-----------------------------------------------------------------------------
(* The positions.  Storing adds one to the occupancy, or wraps it to nothing;
   taking subtracts one. *)
LEMMA PositionRange ==
  ASSUME TypeOK
  PROVE  /\ CONSBUFSIZE \in Nat /\ CONSBUFSIZE >= 2
         /\ rpos \in Int /\ 0 <= rpos /\ rpos < CONSBUFSIZE
         /\ wpos \in Int /\ 0 <= wpos /\ wpos < CONSBUFSIZE
<1>1. rpos \in Slots /\ wpos \in Slots
  BY Zenon DEF TypeOK
<1> QED
  BY <1>1, SizeAssumption DEF Slots

LEMMA OccupancyRange ==
  ASSUME TypeOK
  PROVE  /\ Occupancy \in 0..(CONSBUFSIZE - 1)
         /\ Occupancy = 0 <=> rpos = wpos
  BY PositionRange DEF Occupancy

LEMMA StoreOccupancy ==
  ASSUME TypeOK, wpos' = Advance(wpos), rpos' = rpos
  PROVE  Occupancy' = IF Occupancy = CONSBUFSIZE - 1 THEN 0 ELSE Occupancy + 1
  BY PositionRange DEF Occupancy, Advance

LEMMA TakeOccupancy ==
  ASSUME TypeOK, rpos # wpos, rpos' = Advance(rpos), wpos' = wpos
  PROVE  Occupancy' = Occupancy - 1
  BY PositionRange DEF Occupancy, Advance

(* Every step either leaves buffer, positions, result and history alone, or is
   one of the three things that can happen to the queue. *)
LEMMA QueueStep ==
  ASSUME TypeOK, [Next]_vars
  PROVE  \/ UNCHANGED <<cons, ret, unread>>
         \/ \E c \in Chars : ConsIntrStore(c) /\ c # 0
         \/ ConsTake
<1>0. 0 \notin Chars
  BY DEF Chars
<1>1. CASE SerialIntr
  <2>1. CASE uart # << >> /\ ConsIntrStore(uart[1])
    <3>1. uart[1] \in Chars \union {0}
      BY <2>1 DEF TypeOK, Chars
    <3>2. CASE uart[1] = 0
      BY <2>1, <3>2 DEF ConsIntrStore, NoChar, cons
    <3> QED
      BY <2>1, <3>1, <3>2
  <2> QED
    BY <1>1, <2>1 DEF SerialIntr
<1>2. CASE KbdIntr
  <2>1. CASE KbdReadByte /\ ConsIntrStore(KbdDecoded.c)
    <3>1. KbdDecoded.c \in Chars \union {0}
      BY <2>1, KbdByteRead DEF Chars
    <3>2. CASE KbdDecoded.c = 0
      BY <2>1, <3>2 DEF ConsIntrStore, NoChar, cons
    <3> QED
      BY <2>1, <3>1, <3>2
  <2>2. CASE ~(KbdReadByte /\ ConsIntrStore(KbdDecoded.c))
    BY <1>2, <2>2 DEF KbdIntr
  <2> QED
    BY <2>1, <2>2
<1>3. CASE Devices \/ ConsGetc \/ UNCHANGED vars
  BY <1>3 DEF Devices, SerialReceive, KeyboardReceive, MouseReceive, ConsGetc, FirstPoll, vars
<1> QED
  BY <1>1, <1>2, <1>3 DEF Next, Kernel

LEMMA AccountStep ==
  ASSUME TypeOK, PositionsAccount, [Next]_vars
  PROVE  PositionsAccount'
<1> USE SizeAssumption
<1>0. PICK lost \in 0..unread : unread = Occupancy + lost * CONSBUFSIZE
  BY DEF PositionsAccount
<1>1. unread \in Int /\ lost \in Nat /\ Occupancy \in 0..(CONSBUFSIZE - 1)
  BY <1>0, OccupancyRange DEF TypeOK
<1>2. CASE UNCHANGED <<cons, ret, unread>>
  BY <1>2 DEF PositionsAccount, Occupancy, cons
<1>3. ASSUME NEW c \in Chars, ConsIntrStore(c), c # 0
      PROVE  PositionsAccount'
  <2>1. /\ unread' = unread + 1
        /\ Occupancy' = IF Occupancy = CONSBUFSIZE - 1 THEN 0 ELSE Occupancy + 1
    BY <1>3, StoreOccupancy DEF ConsIntrStore, NoChar
  <2>2. CASE Occupancy = CONSBUFSIZE - 1
    <3>1. unread' = Occupancy' + (lost + 1) * CONSBUFSIZE
      BY <1>0, <1>1, <2>1, <2>2
    <3>2. lost + 1 \in 0..unread'
      BY <1>0, <1>1, <2>1
    <3> QED
      BY <3>1, <3>2 DEF PositionsAccount
  <2>3. CASE Occupancy # CONSBUFSIZE - 1
    <3>1. unread' = Occupancy' + lost * CONSBUFSIZE
      BY <1>0, <1>1, <2>1, <2>3
    <3>2. lost \in 0..unread'
      BY <1>0, <1>1, <2>1
    <3> QED
      BY <3>1, <3>2 DEF PositionsAccount
  <2> QED
    BY <2>2, <2>3
<1>4. CASE ConsTake
  <2>1. CASE rpos = wpos
    BY <1>4, <2>1 DEF ConsTake, PositionsAccount, Occupancy
  <2>2. CASE rpos # wpos
    <3>1. unread' = unread - 1 /\ Occupancy' = Occupancy - 1 /\ Occupancy # 0
      BY <1>4, <2>2, TakeOccupancy, OccupancyRange DEF ConsTake
    <3>2. lost <= lost * CONSBUFSIZE
      BY <1>1
    <3>3. lost \in 0..unread' /\ unread' = Occupancy' + lost * CONSBUFSIZE
      BY <1>0, <1>1, <3>1, <3>2
    <3> QED
      BY <3>3 DEF PositionsAccount
  <2> QED
    BY <2>1, <2>2
<1> QED
  BY <1>2, <1>3, <1>4, QueueStep

LEMMA AccountInit == Init => PositionsAccount
  BY SizeAssumption DEF Init, PositionsAccount, Occupancy

(* For every buffer size: rpos and wpos account for every character stored
   and not returned, up to whole buffers lost to overflow. *)
THEOREM AccountCorrect == Spec => []PositionsAccount
  BY TypeCorrect, AccountInit, AccountStep, PTL DEF Spec

-----------------------------------------------------------------------------
(* Append and Tail, element by element. *)
LEMMA AppendElements ==
  ASSUME NEW S, NEW s \in Seq(S), NEW c \in S
  PROVE  Append(s, c) = [k \in 1..(Len(s) + 1) |-> IF k = Len(s) + 1 THEN c ELSE s[k]]
<1> DEFINE t == [k \in 1..(Len(s) + 1) |-> IF k = Len(s) + 1 THEN c ELSE s[k]]
<1>1. t \in Seq(S) /\ Len(t) = Len(s) + 1
  OBVIOUS
<1>2. Append(s, c) \in Seq(S) /\ Len(Append(s, c)) = Len(t)
  BY <1>1, AppendProperties
<1>3. \A k \in 1..Len(t) : Append(s, c)[k] = t[k]
  BY <1>1, AppendProperties
<1> QED
  BY <1>1, <1>2, <1>3, SeqEqual

LEMMA TailElements ==
  ASSUME NEW S, NEW s \in Seq(S), s # << >>
  PROVE  Tail(s) = [k \in 1..(Len(s) - 1) |-> s[k + 1]]
<1> DEFINE t == [k \in 1..(Len(s) - 1) |-> s[k + 1]]
<1>1. t \in Seq(S) /\ Len(t) = Len(s) - 1
  BY EmptySeq
<1>2. Tail(s) \in Seq(S) /\ Len(Tail(s)) = Len(t)
  BY <1>1, HeadTailProperties
<1>3. \A k \in 1..Len(t) : Tail(s)[k] = t[k]
  BY <1>1, HeadTailProperties
<1> QED
  BY <1>1, <1>2, <1>3, SeqEqual

(* Refinement: the buffer read from rpos up to wpos is the abstract queue. *)
LEMMA PendingSeq ==
  ASSUME TypeOK
  PROVE  /\ Pending \in Seq(Chars \union {0})
         /\ Len(Pending) = Occupancy
         /\ \A k \in 1..Occupancy : At(k) \in Slots /\ At(k) # wpos
         /\ At(Occupancy + 1) = wpos
<1>1. \A k \in 1..Occupancy : At(k) \in Slots /\ At(k) # wpos
  BY PositionRange DEF Occupancy, At, Slots
<1>2. At(Occupancy + 1) = wpos
  BY PositionRange DEF Occupancy, At, Slots
<1>3. Occupancy \in Nat
  BY OccupancyRange, SizeAssumption
<1>4. \A k \in 1..Occupancy : buf[At(k)] \in Chars \union {0}
  BY <1>1 DEF TypeOK
<1> HIDE DEF At, Occupancy
<1> QED
  BY <1>1, <1>2, <1>3, <1>4 DEF Pending

LEMMA EmptyPending ==
  ASSUME TypeOK
  PROVE  Pending = << >> <=> rpos = wpos
  BY PendingSeq, OccupancyRange

LEMMA StoreRefines ==
  ASSUME TypeOK, TypeOK', NEW c \in Chars, ConsIntrStore(c), c # 0
  PROVE  Queue!Accept(c)
<1>1. /\ rpos' = rpos /\ ret' = ret
      /\ wpos' = Advance(wpos)
      /\ buf' = [buf EXCEPT ![wpos] = c]
  BY DEF ConsIntrStore, NoChar
<1>2. Occupancy' = IF Occupancy = CONSBUFSIZE - 1 THEN 0 ELSE Occupancy + 1
  BY <1>1, StoreOccupancy
<1>3. Occupancy \in Nat /\ Len(Pending) = Occupancy
  BY PendingSeq, OccupancyRange, SizeAssumption
<1>4. CASE Occupancy = CONSBUFSIZE - 1
  <2>1. Occupancy' = 0
    BY <1>2, <1>4
  <2>2. Pending' = << >>
    BY <2>1 DEF Pending
  <2> QED
    BY <1>1, <1>3, <1>4, <2>2 DEF Queue!Accept
<1>5. CASE Occupancy # CONSBUFSIZE - 1
  <2>1. Occupancy' = Occupancy + 1
    BY <1>2, <1>5
  <2>2. \A k \in 1..(Occupancy + 1) : At(k)' = At(k)
    BY <1>1 DEF At
  <2>3. \A k \in 1..Occupancy : buf'[At(k)] = Pending[k]
    BY <1>1, PendingSeq DEF Pending, TypeOK
  <2>4. buf'[At(Occupancy + 1)] = c
    BY <1>1, PendingSeq DEF TypeOK
  <2>5. Pending' = [k \in 1..(Occupancy + 1) |-> buf'[At(k)]]
    BY <2>1, <2>2, Zenon DEF Pending
  <2>6. Append(Pending, c) = [k \in 1..(Occupancy + 1) |-> IF k = Occupancy + 1 THEN c ELSE Pending[k]]
    <3>1. Pending \in Seq(Chars \union {0}) /\ c \in Chars \union {0}
      BY PendingSeq
    <3>2. Append(Pending, c) = [k \in 1..(Len(Pending) + 1) |->
                                  IF k = Len(Pending) + 1 THEN c ELSE Pending[k]]
      BY <3>1, AppendElements
    <3> QED
      BY <1>3, <3>2, Zenon
  <2>7. \A k \in 1..(Occupancy + 1) :
           buf'[At(k)] = IF k = Occupancy + 1 THEN c ELSE Pending[k]
    <3> SUFFICES ASSUME NEW k \in 1..(Occupancy + 1)
                 PROVE  buf'[At(k)] = IF k = Occupancy + 1 THEN c ELSE Pending[k]
      OBVIOUS
    <3> HIDE DEF Pending, Occupancy, At
    <3> QED
      BY <1>3, <2>3, <2>4
  <2>8. Pending' = Append(Pending, c)
    BY <2>5, <2>6, <2>7, Zenon
  <2> QED
    BY <1>1, <1>3, <1>5, <2>8 DEF Queue!Accept
<1> QED
  BY <1>4, <1>5

(* The k-th place from the next position is the (k+1)-st from this one. *)
LEMMA NextPlace ==
  ASSUME NEW n \in Int, NEW p \in Int, NEW k \in Int, 0 <= p, p < n, 1 <= k, k < n
  PROVE  LET q == IF p + 1 = n THEN 0 ELSE p + 1
         IN  (IF q + k - 1 < n THEN q + k - 1 ELSE q + k - 1 - n)
               = (IF p + (k + 1) - 1 < n THEN p + (k + 1) - 1 ELSE p + (k + 1) - 1 - n)
<1>1. CASE p + 1 = n
  BY <1>1
<1>2. CASE p + 1 # n
  BY <1>2
<1> QED
  BY <1>1, <1>2

LEMMA TakeRefines ==
  ASSUME TypeOK, TypeOK', ConsTake
  PROVE  Queue!GetNone \/ Queue!GetFirst
<1>1. CASE rpos = wpos
  <2>1. ret' = 0 /\ UNCHANGED <<rpos, wpos, buf>>
    BY <1>1 DEF ConsTake
  <2>2. UNCHANGED Pending
    BY <2>1 DEF Pending, Occupancy, At
  <2> QED
    BY <1>1, <2>1, <2>2, EmptyPending DEF Queue!GetNone
<1>2. CASE rpos # wpos
  <2>1. ret' = buf[rpos] /\ rpos' = Advance(rpos) /\ UNCHANGED <<wpos, buf>>
    BY <1>2 DEF ConsTake
  <2>2. Occupancy' = Occupancy - 1
    BY <1>2, <2>1, TakeOccupancy
  <2>3. Occupancy \in Nat \ {0} /\ Len(Pending) = Occupancy
        /\ Pending \in Seq(Chars \union {0})
    BY <1>2, PendingSeq, OccupancyRange, SizeAssumption
  <2>4. At(1) = rpos
    BY PositionRange DEF At
  <2>5. \A k \in 1..(Occupancy - 1) : At(k)' = At(k + 1)
    <3>1. ASSUME NEW k \in 1..(Occupancy - 1)
          PROVE  k \in Int /\ 1 <= k /\ k < CONSBUFSIZE
      BY OccupancyRange, PositionRange
    <3>2. ASSUME NEW k \in 1..(Occupancy - 1)
          PROVE  At(k)' = At(k + 1)
      <4>1. rpos' = IF rpos + 1 = CONSBUFSIZE THEN 0 ELSE rpos + 1
        BY <2>1 DEF Advance
      <4> HIDE DEF Occupancy
      <4> QED
        BY <3>1, <4>1, NextPlace, PositionRange DEF At
    <3> QED
      BY <3>2, Zenon
  <2>6. ret' = Head(Pending)
    BY <2>1, <2>3, <2>4 DEF Pending
  <2>7. Pending' = [k \in 1..(Occupancy - 1) |-> buf[At(k + 1)]]
    BY <2>1, <2>2, <2>5, Zenon DEF Pending
  <2>8. \A k \in 1..(Occupancy - 1) : buf[At(k + 1)] = Pending[k + 1]
    BY <2>3 DEF Pending
  <2>9. Tail(Pending) = [k \in 1..(Occupancy - 1) |-> Pending[k + 1]]
    <3>1. Pending # << >>
      BY <1>2, EmptyPending
    <3> QED
      BY <2>3, <3>1, TailElements, Zenon
  <2>10. Pending' = Tail(Pending)
    BY <2>7, <2>8, <2>9, Zenon
  <2> QED
    BY <1>2, <2>6, <2>10, EmptyPending DEF Queue!GetFirst
<1> QED
  BY <1>1, <1>2

LEMMA QueueInit == Init => Queue!Init
<1> SUFFICES ASSUME Init PROVE Pending = << >> /\ ret = 0
  BY DEF Queue!Init
<1> QED
  BY TypeInit, EmptyPending DEF Init

LEMMA QueueNext ==
  ASSUME TypeOK, TypeOK', [Next]_vars
  PROVE  [Queue!Next]_<<Pending, ret>>
<1>1. CASE UNCHANGED <<cons, ret, unread>>
  BY <1>1 DEF cons, Pending, Occupancy, At
<1>2. ASSUME NEW c \in Chars, ConsIntrStore(c), c # 0
      PROVE  Queue!Next
  BY <1>2, StoreRefines DEF Queue!Next
<1>3. CASE ConsTake
  BY <1>3, TakeRefines DEF Queue!Next
<1> QED
  BY <1>1, <1>2, <1>3, QueueStep

(* For every buffer size and every timing of the devices, cons_intr() and
   cons_getc() implement a first-in first-out queue of CONSBUFSIZE - 1
   characters that empties itself when one more arrives. *)
THEOREM QueueRefinement == Spec => ImplementsQueue
  BY TypeCorrect, QueueInit, QueueNext, PTL DEF Spec, ImplementsQueue, Queue!Spec

-----------------------------------------------------------------------------
(* The keys a person holds, and what is decoded of the bytes they send. *)

(* What kbd_proc_data() hands over for a byte. *)
Out(sh, b) ==
  LET e == Decode(sh, b)
  IN  IF e.c = 0 THEN << >> ELSE IF Reboots(e.shift, e.c) THEN <<RESET>> ELSE <<e.c>>

(* Decoding the bytes of q one after the other leads from the shift word s and the
   characters o to s2 and o2; st and outs are what is in between. *)
Decodes(st, outs, q, s, o, s2, o2) ==
  /\ st[0] = s /\ outs[0] = o /\ st[Len(q)] = s2 /\ outs[Len(q)] = o2
  /\ \A i \in 0..Len(q) : outs[i] \in Seq(Int) /\ IsPrefix(outs[i], o2)
  /\ \A i \in 1..Len(q) : st[i] = Decode(st[i - 1], q[i]).shift /\ outs[i] = outs[i - 1] \o Out(st[i - 1], q[i])

Leads(q, s, o, s2, o2) == \E st, outs : Decodes(st, outs, q, s, o, s2, o2)

(* Prefixes of sequences, element by element. *)
LEMMA PrefixOf ==
  ASSUME NEW s \in Seq(Int), NEW t \in Seq(Int)
  PROVE  IsPrefix(s, t) <=> Len(s) <= Len(t) /\ \A k \in 1..Len(s) : s[k] = t[k]
<1>1. Len(s) \in Nat /\ Len(t) \in Nat
  OBVIOUS
<1>2. ASSUME Len(s) <= Len(t)
      PROVE  /\ SubSeq(s, 1, Len(s)) = s
             /\ SubSeq(t, 1, Len(s)) \in Seq(Int) /\ Len(SubSeq(t, 1, Len(s))) = Len(s)
             /\ \A k \in 1..Len(s) : SubSeq(t, 1, Len(s))[k] = t[k]
  BY <1>1, <1>2, SubSeqProperties
<1>3. ASSUME Len(s) <= Len(t), \A k \in 1..Len(s) : s[k] = t[k]
      PROVE  s = SubSeq(t, 1, Len(s))
  BY <1>2, <1>3, SeqEqual
<1> QED
  BY <1>1, <1>2, <1>3 DEF IsPrefix

(* A prefix stays one when something is appended. *)
LEMMA PrefixGrows ==
  ASSUME NEW s \in Seq(Int), NEW t \in Seq(Int), NEW u \in Seq(Int), IsPrefix(s, t)
  PROVE  IsPrefix(s, t \o u) /\ t \o u \in Seq(Int)
<1>1. /\ t \o u \in Seq(Int) /\ Len(t \o u) = Len(t) + Len(u) /\ Len(s) \in Nat /\ Len(t) \in Nat /\ Len(u) \in Nat
      /\ \A k \in 1..Len(t) : (t \o u)[k] = t[k]
  BY ConcatProperties, LenProperties
<1>2. Len(s) <= Len(t) /\ \A k \in 1..Len(s) : s[k] = t[k]
  BY PrefixOf
<1>3. Len(s) <= Len(t \o u) /\ \A k \in 1..Len(s) : s[k] = (t \o u)[k]
  BY <1>1, <1>2
<1> QED
  BY <1>1, <1>3, PrefixOf

LEMMA PrefixOfItself ==
  ASSUME NEW s \in Seq(Int)
  PROVE  IsPrefix(s, s)
  BY PrefixOf

(* Nothing to decode. *)
LEMMA LeadsNowhere ==
  ASSUME NEW s, NEW o \in Seq(Int)
  PROVE  Leads(<<>>, s, o, s, o)
<1> DEFINE st == [i \in 0..0 |-> s]
           outs == [i \in 0..0 |-> o]
<1>1. Len(<<>>) = 0 /\ 1..0 = {} /\ \A i \in 0..0 : i = 0
  OBVIOUS
<1>2. st[0] = s /\ outs[0] = o
  OBVIOUS
<1> HIDE DEF st, outs
<1>3. Decodes(st, outs, <<>>, s, o, s, o)
  BY <1>1, <1>2, PrefixOfItself DEF Decodes
<1> QED
  BY <1>3 DEF Leads

LEMMA LeadsFromEmpty ==
  ASSUME NEW s, NEW o, NEW s2, NEW o2, Leads(<<>>, s, o, s2, o2)
  PROVE  s2 = s /\ o2 = o
  BY DEF Leads, Decodes

LEMMA LeadsOn ==
  ASSUME NEW q \in Seq(Byte), NEW s, NEW o, NEW s2, NEW o2, Leads(q, s, o, s2, o2)
  PROVE  o \in Seq(Int) /\ o2 \in Seq(Int) /\ IsPrefix(o, o2)
<1>1. Len(q) \in Nat /\ 0 \in 0..Len(q) /\ Len(q) \in 0..Len(q)
  OBVIOUS
<1> QED
  BY <1>1 DEF Leads, Decodes

(* A byte more at the end. *)
LEMMA LeadsFurther ==
  ASSUME NEW q \in Seq(Byte), NEW b \in Byte, NEW s, NEW o, NEW s2, NEW o2, Leads(q, s, o, s2, o2),
         Out(s2, b) \in Seq(Int)
  PROVE  Leads(Append(q, b), s, o, Decode(s2, b).shift, o2 \o Out(s2, b))
<1>1. PICK st, outs : Decodes(st, outs, q, s, o, s2, o2)
  BY DEF Leads
<1> DEFINE n == Len(q)
           last == o2 \o Out(s2, b)
           st2 == [i \in 0..(n + 1) |-> IF i <= n THEN st[i] ELSE Decode(s2, b).shift]
           outs2 == [i \in 0..(n + 1) |-> IF i <= n THEN outs[i] ELSE last]
<1>2. /\ n \in Nat /\ Len(Append(q, b)) = n + 1 /\ Append(q, b)[n + 1] = b
      /\ \A i \in 1..n : Append(q, b)[i] = q[i]
  BY AppendProperties
<1>3. /\ \A i \in 0..n : st2[i] = st[i] /\ outs2[i] = outs[i]
      /\ st2[n + 1] = Decode(s2, b).shift /\ outs2[n + 1] = last
  BY <1>2
<1>4. o2 \in Seq(Int) /\ last \in Seq(Int) /\ IsPrefix(last, last)
  BY LeadsOn, ConcatProperties, PrefixOfItself
<1>5. \A i \in 0..n : outs[i] \in Seq(Int) /\ IsPrefix(outs[i], o2)
  BY <1>1 DEF Decodes
<1>6. \A i \in 0..n : IsPrefix(outs[i], last)
  BY <1>4, <1>5, PrefixGrows
<1> HIDE DEF st2, outs2
<1>7. \A i \in 0..(n + 1) : outs2[i] \in Seq(Int) /\ IsPrefix(outs2[i], last)
  <2> SUFFICES ASSUME NEW i \in 0..(n + 1) PROVE outs2[i] \in Seq(Int) /\ IsPrefix(outs2[i], last)
    OBVIOUS
  <2>1. CASE i \in 0..n
    BY <1>3, <1>5, <1>6, <2>1
  <2>2. CASE i = n + 1
    BY <1>3, <1>4, <2>2
  <2> QED
    BY <1>2, <2>1, <2>2
<1>8. st[n] = s2 /\ outs[n] = o2
  BY <1>1 DEF Decodes
<1>9. \A i \in 1..(n + 1) : /\ st2[i] = Decode(st2[i - 1], Append(q, b)[i]).shift
                            /\ outs2[i] = outs2[i - 1] \o Out(st2[i - 1], Append(q, b)[i])
  <2> SUFFICES ASSUME NEW i \in 1..(n + 1)
               PROVE  /\ st2[i] = Decode(st2[i - 1], Append(q, b)[i]).shift
                      /\ outs2[i] = outs2[i - 1] \o Out(st2[i - 1], Append(q, b)[i])
    OBVIOUS
  <2>1. CASE i \in 1..n
    <3>1. st[i] = Decode(st[i - 1], q[i]).shift /\ outs[i] = outs[i - 1] \o Out(st[i - 1], q[i])
      BY <1>1, <2>1 DEF Decodes
    <3>2. i \in 0..n /\ i - 1 \in 0..n
      BY <1>2, <2>1
    <3> QED
      BY <1>2, <1>3, <2>1, <3>1, <3>2
  <2>2. CASE i = n + 1
    <3>1. i - 1 = n /\ n \in 0..n
      BY <1>2, <2>2
    <3> QED
      BY <1>2, <1>3, <1>8, <2>2, <3>1
  <2>3. i \in 1..n \/ i = n + 1
    BY <1>2
  <2> QED
    BY <2>1, <2>2, <2>3
<1>10. st2[0] = s /\ outs2[0] = o
  <2>1. 0 \in 0..n
    BY <1>2
  <2> QED
    BY <1>1, <1>3, <2>1 DEF Decodes
<1>11. Decodes(st2, outs2, Append(q, b), s, o, Decode(s2, b).shift, last)
  BY <1>2, <1>3, <1>7, <1>9, <1>10 DEF Decodes
<1> QED
  BY <1>11 DEF Leads

(* A byte less at the front. *)
LEMMA LeadsOnward ==
  ASSUME NEW q \in Seq(Byte), q # <<>>, NEW s, NEW o, NEW s2, NEW o2, Leads(q, s, o, s2, o2)
  PROVE  Leads(Tail(q), Decode(s, Head(q)).shift, o \o Out(s, Head(q)), s2, o2)
<1>1. PICK st, outs : Decodes(st, outs, q, s, o, s2, o2)
  BY DEF Leads
<1> DEFINE n == Len(q) - 1
           st2 == [i \in 0..n |-> st[i + 1]]
           outs2 == [i \in 0..n |-> outs[i + 1]]
<1>2. /\ n \in Nat /\ Len(q) = n + 1 /\ Len(Tail(q)) = n /\ Head(q) = q[1]
      /\ \A i \in 1..n : Tail(q)[i] = q[i + 1]
  BY EmptySeq, HeadTailProperties
<1>3. \A i \in 0..n : st2[i] = st[i + 1] /\ outs2[i] = outs[i + 1]
  OBVIOUS
<1> HIDE DEF st2, outs2, n
<1>4. \A i \in 0..(n + 1) : outs[i] \in Seq(Int) /\ IsPrefix(outs[i], o2)
  BY <1>1, <1>2 DEF Decodes
<1>5. \A i \in 1..(n + 1) : st[i] = Decode(st[i - 1], q[i]).shift /\ outs[i] = outs[i - 1] \o Out(st[i - 1], q[i])
  BY <1>1, <1>2 DEF Decodes
<1>6. \A i \in 0..n : outs2[i] \in Seq(Int) /\ IsPrefix(outs2[i], o2)
  BY <1>2, <1>3, <1>4
<1>7. \A i \in 1..n : /\ st2[i] = Decode(st2[i - 1], Tail(q)[i]).shift
                      /\ outs2[i] = outs2[i - 1] \o Out(st2[i - 1], Tail(q)[i])
  <2> SUFFICES ASSUME NEW i \in 1..n
               PROVE  /\ st2[i] = Decode(st2[i - 1], Tail(q)[i]).shift
                      /\ outs2[i] = outs2[i - 1] \o Out(st2[i - 1], Tail(q)[i])
    OBVIOUS
  <2>1. i \in 0..n /\ i - 1 \in 0..n /\ (i - 1) + 1 = i /\ i + 1 \in 1..(n + 1) /\ (i + 1) - 1 = i
    BY <1>2
  <2>2. st2[i] = st[i + 1] /\ outs2[i] = outs[i + 1] /\ st2[i - 1] = st[i] /\ outs2[i - 1] = outs[i]
    BY <1>3, <2>1
  <2>3. st[i + 1] = Decode(st[i], q[i + 1]).shift /\ outs[i + 1] = outs[i] \o Out(st[i], q[i + 1])
    BY <1>5, <2>1
  <2> QED
    BY <1>2, <2>2, <2>3
<1>8. st2[0] = Decode(s, Head(q)).shift /\ outs2[0] = o \o Out(s, Head(q))
  <2>1. 0 \in 0..n /\ 1 \in 1..(n + 1) /\ 0 + 1 = 1 /\ 1 - 1 = 0
    BY <1>2
  <2>2. st2[0] = st[1] /\ outs2[0] = outs[1]
    BY <1>3, <2>1
  <2>3. st[1] = Decode(st[0], q[1]).shift /\ outs[1] = outs[0] \o Out(st[0], q[1])
    BY <1>5, <2>1
  <2> QED
    BY <1>1, <1>2, <2>2, <2>3 DEF Decodes
<1>9. st2[n] = s2 /\ outs2[n] = o2
  <2>1. n \in 0..n
    BY <1>2
  <2> QED
    BY <1>1, <1>2, <1>3, <2>1 DEF Decodes
<1>10. Decodes(st2, outs2, Tail(q), Decode(s, Head(q)).shift, o \o Out(s, Head(q)), s2, o2)
  BY <1>2, <1>6, <1>7, <1>8, <1>9 DEF Decodes
<1> QED
  BY <1>10 DEF Leads

-----------------------------------------------------------------------------
(* A key goes down: the shift word that its bytes leave, and the character. *)
After(sh, k) == Toggled(sh \union ({k.mod} \intersect Modifiers), {k.mod} \intersect Locks)

Char(sh, k) ==
  CapsFold(sh, IF "CTL" \in sh THEN k.ctl ELSE IF "SHIFT" \in sh THEN k.shifted ELSE k.plain)

(* The shift word with which the scan code of a key is decoded. *)
Prefixed(sh, k) == IF k.e0 THEN sh \union {"E0ESC"} ELSE sh

Code(k) == IF k.e0 THEN k.code + 128 ELSE k.code

LEMMA KeyFacts ==
  ASSUME NEW k \in Keys
  PROVE  /\ k.e0 \in BOOLEAN /\ k.code \in 0..127 /\ k.code # 96 /\ Code(k) \in Byte
         /\ k.mod \in Modifiers \union Locks \union {"none"}
         /\ shiftcode[Code(k)] = {k.mod} \intersect Modifiers /\ togglecode[Code(k)] = {k.mod} \intersect Locks
         /\ normalmap[Code(k)] = k.plain /\ shiftmap[Code(k)] = k.shifted /\ ctlmap[Code(k)] = k.ctl
         /\ k.plain \in Byte /\ k.shifted \in Byte /\ k.ctl \in Byte
         /\ IF k.plain \in 97..122 THEN k.shifted = k.plain - 32
            ELSE {k.plain, k.shifted} \intersect Letters = {}
         /\ k.ctl \notin Letters
<1>1. /\ k.e0 \in BOOLEAN /\ k.code \in 0..127 /\ k.code # 96
      /\ k.mod \in Modifiers \union Locks \union {"none"}
      /\ shiftcode[Code(k)] = {k.mod} \intersect Modifiers /\ togglecode[Code(k)] = {k.mod} \intersect Locks
      /\ normalmap[Code(k)] = k.plain /\ shiftmap[Code(k)] = k.shifted /\ ctlmap[Code(k)] = k.ctl
      /\ k.plain \in Byte /\ k.shifted \in Byte /\ k.ctl \in Byte
      /\ IF k.plain \in 97..122 THEN k.shifted = k.plain - 32
         ELSE {k.plain, k.shifted} \intersect Letters = {}
      /\ k.ctl \notin Letters
  BY KeysAssumption DEF Code
<1>2. Code(k) \in Byte
  BY <1>1 DEF Code, Byte
<1> QED
  BY <1>1, <1>2

(* The prefix. *)
LEMMA EscapeDecoded ==
  ASSUME NEW sh
  PROVE  Decode(sh, 224).shift = sh \union {"E0ESC"} /\ Out(sh, 224) = << >> /\ Out(sh, 224) \in Seq(Int)
<1>1. Decode(sh, 224) = [shift |-> sh \union {"E0ESC"}, c |-> 0]
  BY DEF Decode
<1>2. Out(sh, 224) = << >>
  BY <1>1 DEF Out
<1>3. << >> \in Seq(Int)
  OBVIOUS
<1>4. Out(sh, 224) \in Seq(Int)
  BY <1>2, <1>3
<1> QED
  BY <1>1, <1>2, <1>4

(* What is done with a scan code, when a prefix has been seen if there is one. *)
LEMMA CodePressed ==
  ASSUME NEW k \in Keys, NEW sh, NEW sh1, "E0ESC" \notin sh,
         sh1 = Prefixed(sh, k)
  PROVE  Decode(sh1, k.code) = [shift |-> After(sh, k), c |-> Char(After(sh, k), k)]
<1>1. k.code \in 0..127 /\ k.e0 \in BOOLEAN
  BY KeyFacts
<1>2. Decode(sh1, k.code) = Pressed(sh1, k.code)
  BY <1>1 DEF Decode
<1>3. (IF "E0ESC" \in sh1 THEN k.code + 128 ELSE k.code) = Code(k)
  BY <1>1 DEF Code, Prefixed
<1>4. sh1 \ {"E0ESC"} = sh
  BY <1>1 DEF Prefixed
<1>5. Toggled((sh1 \ {"E0ESC"}) \union shiftcode[Code(k)], togglecode[Code(k)]) = After(sh, k)
  BY <1>4, KeyFacts DEF After
<1>6. CapsFold(After(sh, k), charcode(After(sh, k))[Code(k)]) = Char(After(sh, k), k)
  <2>1. charcode(After(sh, k))[Code(k)]
          = IF "CTL" \in After(sh, k) THEN k.ctl ELSE IF "SHIFT" \in After(sh, k) THEN k.shifted ELSE k.plain
    BY KeyFacts DEF charcode
  <2> QED
    BY <2>1 DEF Char
<1>7. Pressed(sh1, k.code)
        = [shift |-> Toggled((sh1 \ {"E0ESC"}) \union shiftcode[Code(k)], togglecode[Code(k)]),
           c |-> CapsFold(Toggled((sh1 \ {"E0ESC"}) \union shiftcode[Code(k)], togglecode[Code(k)]),
                   charcode(Toggled((sh1 \ {"E0ESC"}) \union shiftcode[Code(k)], togglecode[Code(k)]))[Code(k)])]
  <2>1. ASSUME NEW d, (IF "E0ESC" \in sh1 THEN k.code + 128 ELSE k.code) = d
        PROVE  Pressed(sh1, k.code)
                 = [shift |-> Toggled((sh1 \ {"E0ESC"}) \union shiftcode[d], togglecode[d]),
                    c |-> CapsFold(Toggled((sh1 \ {"E0ESC"}) \union shiftcode[d], togglecode[d]),
                                   charcode(Toggled((sh1 \ {"E0ESC"}) \union shiftcode[d], togglecode[d]))[d])]
    BY <2>1, Zenon DEF Pressed
  <2> QED
    BY <1>3, <2>1
<1> QED
  BY <1>2, <1>5, <1>6, <1>7

LEMMA CodeReleased ==
  ASSUME NEW k \in Keys, NEW sh, NEW sh1, "E0ESC" \notin sh,
         sh1 = Prefixed(sh, k)
  PROVE  /\ Decode(sh1, k.code + 128).shift = sh \ ({k.mod} \intersect Modifiers)
         /\ Out(sh1, k.code + 128) = <<>>
<1>1. k.code \in 0..127 /\ k.e0 \in BOOLEAN /\ k.code # 96
  BY KeyFacts
<1>2. Decode(sh1, k.code + 128) = Released(sh1, k.code + 128)
  BY <1>1 DEF Decode
<1>3. (IF "E0ESC" \in sh1 THEN k.code + 128 ELSE (k.code + 128) - 128) = Code(k)
  BY <1>1 DEF Code, Prefixed
<1>4. Released(sh1, k.code + 128) = [shift |-> sh1 \ (shiftcode[Code(k)] \union {"E0ESC"}), c |-> 0]
  BY <1>3 DEF Released
<1>5. sh1 \ (shiftcode[Code(k)] \union {"E0ESC"}) = sh \ ({k.mod} \intersect Modifiers)
  BY <1>1, KeyFacts DEF Prefixed
<1>6. Decode(sh1, k.code + 128) = [shift |-> sh \ ({k.mod} \intersect Modifiers), c |-> 0]
  BY <1>2, <1>4, <1>5
<1> QED
  BY <1>6 DEF Out

-----------------------------------------------------------------------------
(* The shift word sh is what a keyboard with the keys of h down looks like. *)
Down(h) == {k.mod : k \in h} \intersect Modifiers

Follows(sh, h, cp, tw) ==
  /\ "E0ESC" \notin sh /\ (cp <=> "CAPSLOCK" \in sh)
  /\ sh \intersect Modifiers \subseteq Down(h)
  /\ ~tw => Down(h) \subseteq sh

(* What the bytes of a key that goes down are decoded to is what it means. *)
LEMMA Means ==
  ASSUME NEW k \in Keys, NEW sh, NEW h, NEW cp \in BOOLEAN, Follows(sh, h, cp, FALSE)
  PROVE  (IF Char(sh, k) = 0 THEN << >> ELSE IF Reboots(sh, Char(sh, k)) THEN <<RESET>> ELSE <<Char(sh, k)>>)
           = Meaning(k, h, cp)
<1> DEFINE mods == {m.mod : m \in h}
           letter == k.plain \in 97..122
           shown == IF "CTL" \in mods THEN k.ctl
                    ELSE IF ("SHIFT" \in mods) # (cp /\ letter) THEN k.shifted
                    ELSE k.plain
<1>1. ("CTL" \in mods <=> "CTL" \in sh) /\ ("SHIFT" \in mods <=> "SHIFT" \in sh) /\ ("ALT" \in mods <=> "ALT" \in sh)
  BY DEF Follows, Down, Modifiers
<1>2. cp <=> "CAPSLOCK" \in sh
  BY DEF Follows
<1> HIDE DEF mods
<1>3. Char(sh, k) = shown
  <2>1. /\ k.plain \in Int /\ k.shifted \in Int /\ k.ctl \in Int /\ k.ctl \notin 97..122 /\ k.ctl \notin 65..90
        /\ (letter => k.shifted = k.plain - 32)
        /\ (~letter => /\ k.plain \notin 97..122 /\ k.plain \notin 65..90
                       /\ k.shifted \notin 97..122 /\ k.shifted \notin 65..90)
    <3>1. /\ k.plain \in Byte /\ k.shifted \in Byte /\ k.ctl \in Byte /\ k.ctl \notin Letters
          /\ (letter => k.shifted = k.plain - 32)
          /\ (~letter => {k.plain, k.shifted} \intersect Letters = {})
      BY KeyFacts
    <3>2. ~letter => k.plain \notin Letters /\ k.shifted \notin Letters
      BY <3>1
    <3> QED
      BY <3>1, <3>2 DEF Letters, Byte
  <2>2. CASE "CTL" \in sh
    BY <1>1, <1>2, <2>1, <2>2 DEF Char, CapsFold
  <2>3. CASE "CTL" \notin sh /\ "SHIFT" \in sh
    <3>1. shown = IF cp /\ letter THEN k.plain ELSE k.shifted
      BY <1>1, <2>3
    <3>2. Char(sh, k) = IF cp THEN (IF k.shifted \in 97..122 THEN k.shifted - 32
                                    ELSE IF k.shifted \in 65..90 THEN k.shifted + 32 ELSE k.shifted)
                        ELSE k.shifted
      BY <1>2, <2>3 DEF Char, CapsFold
    <3> QED
      BY <2>1, <3>1, <3>2
  <2>4. CASE "CTL" \notin sh /\ "SHIFT" \notin sh
    <3>1. shown = IF cp /\ letter THEN k.shifted ELSE k.plain
      BY <1>1, <2>4
    <3>2. Char(sh, k) = IF cp THEN (IF k.plain \in 97..122 THEN k.plain - 32
                                    ELSE IF k.plain \in 65..90 THEN k.plain + 32 ELSE k.plain)
                        ELSE k.plain
      BY <1>2, <2>4 DEF Char, CapsFold
    <3> QED
      BY <2>1, <3>1, <3>2
  <2> QED
    BY <2>2, <2>3, <2>4
<1>4. Meaning(k, h, cp) = IF shown = 0 THEN << >>
                          ELSE IF shown = KEY_DEL /\ {"CTL", "ALT"} \subseteq mods THEN <<RESET>>
                          ELSE <<shown>>
  BY DEF Meaning, mods
<1>5. Reboots(sh, shown) <=> shown = KEY_DEL /\ {"CTL", "ALT"} \subseteq mods
  BY <1>1 DEF Reboots
<1> HIDE DEF shown
<1> QED
  BY <1>3, <1>4, <1>5

-----------------------------------------------------------------------------
(* The bytes that are on their way. *)
Bytes == (IF obf = << >> THEN << >> ELSE <<obf[1].data>>) \o kbdq

(* When they are decoded the shift word is what the keyboard looks like, and what was
   typed is handed over. *)
TypingInv ==
  /\ kbdq \in Seq(Byte) /\ held \subseteq Keys /\ caps \in BOOLEAN /\ twins \in BOOLEAN /\ typed \in Seq(Int)
  /\ obf = << >> \/ \E b \in Byte : obf = <<[aux |-> FALSE, data |-> b]>>
  /\ ~twins => \A m, n \in held : m.mod = n.mod /\ m.mod \in Modifiers => m = n
  /\ \E s2, o2 : /\ Leads(Bytes, shift, decoded, s2, o2)
                 /\ Follows(s2, held, caps, twins) /\ (~twins => o2 = typed)

LEMMA BytesType ==
  ASSUME kbdq \in Seq(Byte), obf = << >> \/ \E b \in Byte : obf = <<[aux |-> FALSE, data |-> b]>>
  PROVE  /\ Bytes \in Seq(Byte)
         /\ obf = << >> => Bytes = kbdq
         /\ obf # << >> => obf[1].data \in Byte /\ ~obf[1].aux /\ Bytes = <<obf[1].data>> \o kbdq
<1>1. CASE obf = << >>
  BY <1>1, ConcatEmptySeq DEF Bytes
<1>2. CASE \E b \in Byte : obf = <<[aux |-> FALSE, data |-> b]>>
  <2>1. PICK b \in Byte : obf = <<[aux |-> FALSE, data |-> b]>>
    BY <1>2
  <2>2. obf[1].data = b /\ ~obf[1].aux /\ obf # << >>
    BY <2>1
  <2>3. <<b>> \in Seq(Byte)
    BY <2>1
  <2> QED
    BY <2>2, <2>3, ConcatProperties DEF Bytes
<1> QED
  BY <1>1, <1>2

(* A byte in front. *)
LEMMA FirstOf ==
  ASSUME NEW S, NEW b \in S, NEW q \in Seq(S)
  PROVE  /\ <<b>> \o q \in Seq(S) /\ <<b>> \o q # << >>
         /\ Head(<<b>> \o q) = b /\ Tail(<<b>> \o q) = q
<1>1. <<b>> \in Seq(S) /\ Len(<<b>>) = 1 /\ <<b>>[1] = b
  OBVIOUS
<1> DEFINE t == <<b>> \o q
<1>2. /\ t \in Seq(S) /\ Len(t) = 1 + Len(q) /\ Len(q) \in Nat
      /\ \A i \in 1..(1 + Len(q)) : t[i] = IF i <= 1 THEN <<b>>[i] ELSE q[i - 1]
  BY <1>1, ConcatProperties, LenProperties
<1> HIDE DEF t
<1>3. t # << >> /\ t[1] = b
  BY <1>1, <1>2
<1>4. Head(t) = b
  BY <1>2, <1>3
<1>5. /\ Tail(t) \in Seq(S) /\ Len(Tail(t)) = Len(q)
      /\ \A i \in 1..Len(Tail(t)) : Tail(t)[i] = t[i + 1]
  BY <1>2, <1>3, HeadTailProperties
<1>6. \A i \in 1..Len(q) : Tail(t)[i] = q[i]
  BY <1>2, <1>5
<1>7. Tail(t) = q
  BY <1>5, <1>6, SeqEqual
<1> QED
  BY <1>2, <1>3, <1>4, <1>7 DEF t

(* The bytes of a key at the end. *)
LEMMA LeadsByKey ==
  ASSUME NEW q \in Seq(Byte), NEW s, NEW o, NEW s2, NEW o2, Leads(q, s, o, s2, o2), NEW k \in Keys,
         NEW x \in {0, 128}, NEW b \in Byte, b = k.code + x,
         Out(Prefixed(s2, k), b) \in Seq(Int)
  PROVE  Leads(q \o KeyBytes(k, x), s, o, Decode(Prefixed(s2, k), b).shift, o2 \o Out(Prefixed(s2, k), b))
<1> DEFINE s3 == Prefixed(s2, k)
<1>0. s3 = (IF k.e0 THEN s2 \union {"E0ESC"} ELSE s2) /\ Out(s3, b) \in Seq(Int)
  BY DEF Prefixed
<1> HIDE DEF s3
<1>1. 224 \in Byte /\ k.e0 \in BOOLEAN
  <2>1. k.e0 \in BOOLEAN
    BY KeyFacts
  <2> QED
    BY <2>1 DEF Byte
<1>2. o2 \in Seq(Int)
  BY LeadsOn
<1>3. ASSUME k.e0
      PROVE  Leads(q \o KeyBytes(k, x), s, o, Decode(s3, b).shift, o2 \o Out(s3, b))
  <2>1. KeyBytes(k, x) = <<224>> \o <<b>>
    BY <1>3 DEF KeyBytes
  <2>2. q \o KeyBytes(k, x) = Append(Append(q, 224), b)
    <3>1. <<224>> \in Seq(Byte) /\ <<b>> \in Seq(Byte)
      BY <1>1
    <3>2. Append(q, 224) = q \o <<224>> /\ Append(q, 224) \in Seq(Byte)
      BY <1>1, AppendIsConcat, AppendProperties
    <3>3. Append(Append(q, 224), b) = (q \o <<224>>) \o <<b>>
      BY <1>1, <3>2, AppendIsConcat
    <3> QED
      BY <2>1, <3>1, <3>3, ConcatAssociative
  <2>3. Leads(Append(q, 224), s, o, Decode(s2, 224).shift, o2 \o Out(s2, 224))
    BY <1>1, EscapeDecoded, LeadsFurther
  <2>4. Leads(Append(q, 224), s, o, s3, o2)
    <3>1. Decode(s2, 224).shift = s3
      BY <1>0, <1>3, EscapeDecoded
    <3>2. o2 \o Out(s2, 224) = o2
      BY <1>2, EscapeDecoded, ConcatEmptySeq
    <3> QED
      BY <2>3, <3>1, <3>2
  <2>5. Append(q, 224) \in Seq(Byte)
    BY <1>1, AppendProperties
  <2>6. Leads(Append(Append(q, 224), b), s, o, Decode(s3, b).shift, o2 \o Out(s3, b))
    <3>1. ASSUME NEW p \in Seq(Byte), Leads(p, s, o, s3, o2)
          PROVE  Leads(Append(p, b), s, o, Decode(s3, b).shift, o2 \o Out(s3, b))
      BY <1>0, <3>1, LeadsFurther
    <3> QED
      BY <2>4, <2>5, <3>1
  <2> QED
    BY <2>2, <2>6
<1>4. ASSUME ~k.e0
      PROVE  Leads(q \o KeyBytes(k, x), s, o, Decode(s3, b).shift, o2 \o Out(s3, b))
  <2>1. KeyBytes(k, x) = << >> \o <<b>> /\ <<b>> \in Seq(Byte)
    BY <1>1, <1>4 DEF KeyBytes
  <2>2. KeyBytes(k, x) = <<b>>
    BY <2>1, ConcatEmptySeq
  <2>3. q \o KeyBytes(k, x) = Append(q, b)
    BY <1>1, <2>2, AppendIsConcat
  <2>4. s3 = s2
    BY <1>0, <1>4
  <2>5. Leads(Append(q, b), s, o, Decode(s3, b).shift, o2 \o Out(s3, b))
    BY <1>0, <1>1, <2>4, LeadsFurther
  <2> QED
    BY <2>3, <2>5
<1>5. Leads(q \o KeyBytes(k, x), s, o, Decode(s3, b).shift, o2 \o Out(s3, b))
  BY <1>1, <1>3, <1>4
<1> QED
  BY <1>5 DEF s3

(* Bytes that join the end of the keyboard's queue join the end of what is on its way. *)
LEMMA BytesGrow ==
  ASSUME kbdq \in Seq(Byte), obf = << >> \/ \E b \in Byte : obf = <<[aux |-> FALSE, data |-> b]>>,
         NEW more \in Seq(Byte), kbdq' = kbdq \o more, obf' = obf
  PROVE  Bytes' = Bytes \o more /\ kbdq' \in Seq(Byte)
<1>1. kbdq' \in Seq(Byte)
  BY ConcatProperties
<1>2. CASE obf = << >>
  <2>1. Bytes' = << >> \o kbdq'
    BY <1>2 DEF Bytes
  <2> QED
    BY <1>1, <1>2, <2>1, ConcatEmptySeq, BytesType
<1>3. CASE obf # << >>
  <2>1. Bytes' = <<obf[1].data>> \o (kbdq \o more)
    BY <1>3 DEF Bytes
  <2>2. obf[1].data \in Byte /\ Bytes = <<obf[1].data>> \o kbdq
    BY <1>3, BytesType
  <2>3. <<obf[1].data>> \in Seq(Byte)
    BY <2>2
  <2> QED
    BY <1>1, <2>1, <2>2, <2>3, ConcatAssociative
<1> QED
  BY <1>2, <1>3

LEMMA CodeType ==
  ASSUME NEW k \in Keys, NEW x \in {0, 128}
  PROVE  k.code + x \in Byte /\ 224 \in Byte
<1>1. k.code \in 0..127
  BY KeyFacts
<1> QED
  BY <1>1 DEF Byte

LEMMA KeyBytesType ==
  ASSUME NEW k \in Keys, NEW x \in {0, 128}
  PROVE  KeyBytes(k, x) \in Seq(Byte)
<1>1. k.code + x \in Byte /\ 224 \in Byte
  BY CodeType
<1>2. <<k.code + x>> \in Seq(Byte) /\ <<224>> \in Seq(Byte) /\ << >> \in Seq(Byte)
  BY <1>1
<1> QED
  BY <1>2, ConcatProperties DEF KeyBytes

-----------------------------------------------------------------------------
(* A key goes down. *)
LEMMA PressFollows ==
  ASSUME NEW k \in Keys, k.mod = "CAPSLOCK" => k \notin held, held \subseteq Keys, caps \in BOOLEAN,
         NEW sh, NEW cp, cp = (caps # (k.mod = "CAPSLOCK")), NEW tw \in BOOLEAN, Follows(sh, held, caps, tw)
  PROVE  Follows(After(sh, k), held \union {k}, cp, tw) /\ cp \in BOOLEAN
<1>1. k.mod \in Modifiers \union Locks \union {"none"}
  BY KeyFacts
<1>2. Down(held \union {k}) = Down(held) \union ({k.mod} \intersect Modifiers)
  BY DEF Down
<1>3. "E0ESC" \notin sh /\ (caps <=> "CAPSLOCK" \in sh) /\ sh \intersect Modifiers \subseteq Down(held)
      /\ (~tw => Down(held) \subseteq sh)
  BY DEF Follows
<1>4. Down(held) \subseteq Modifiers
  BY DEF Down
<1>5. CASE k.mod \in Modifiers
  <2>1. k.mod # "CAPSLOCK" /\ {k.mod} \intersect Locks = {} /\ k.mod # "E0ESC"
    BY <1>5 DEF Modifiers, Locks
  <2>2. After(sh, k) = sh \union {k.mod}
    BY <1>5, <2>1 DEF After, Toggled
  <2>3. cp = caps
    BY <2>1
  <2> QED
    BY <1>2, <1>3, <1>5, <2>1, <2>2, <2>3 DEF Follows
<1>6. CASE k.mod \notin Modifiers
  <2>1. After(sh, k) = Toggled(sh, {k.mod} \intersect Locks)
    BY <1>6 DEF After
  <2>2. ({k.mod} \intersect Locks) \intersect Modifiers = {} /\ "E0ESC" \notin Locks
    BY DEF Modifiers, Locks
  <2>3. \A f : f \in Modifiers \union {"E0ESC"} => (f \in After(sh, k) <=> f \in sh)
    BY <2>1, <2>2 DEF Toggled
  <2>4. cp \in BOOLEAN /\ (cp <=> "CAPSLOCK" \in After(sh, k))
    <3>1. CASE k.mod = "CAPSLOCK"
      <4>1. "CAPSLOCK" \in After(sh, k) <=> "CAPSLOCK" \notin sh
        BY <2>1, <3>1 DEF Toggled, Locks
      <4>2. cp = ~caps
        BY <3>1
      <4> QED
        BY <1>3, <4>1, <4>2
    <3>2. CASE k.mod # "CAPSLOCK"
      <4>1. "CAPSLOCK" \in After(sh, k) <=> "CAPSLOCK" \in sh
        BY <2>1, <3>2 DEF Toggled
      <4>2. cp = caps
        BY <3>2
      <4> QED
        BY <1>3, <4>1, <4>2
    <3> QED
      BY <3>1, <3>2
  <2>5. Down(held \union {k}) = Down(held)
    BY <1>2, <1>6
  <2>6. "E0ESC" \notin After(sh, k) /\ After(sh, k) \intersect Modifiers = sh \intersect Modifiers
    BY <1>3, <2>3
  <2>7. ~tw => Down(held) \subseteq After(sh, k)
    BY <1>3, <1>4, <2>3
  <2> QED
    BY <1>3, <2>4, <2>5, <2>6, <2>7 DEF Follows
<1> QED
  BY <1>5, <1>6

-----------------------------------------------------------------------------
(* One lemma per action. *)
LEMMA CharType ==
  ASSUME NEW k \in Keys, NEW sh
  PROVE  Char(sh, k) \in Int
<1>1. k.plain \in Int /\ k.shifted \in Int /\ k.ctl \in Int
  BY KeyFacts DEF Byte
<1> QED
  BY <1>1 DEF Char, CapsFold

LEMMA PressStep ==
  ASSUME TypingInv, NEW k \in Keys, Press(k)
  PROVE  TypingInv'
<1>1. /\ kbdq \in Seq(Byte) /\ held \subseteq Keys /\ caps \in BOOLEAN /\ twins \in BOOLEAN /\ typed \in Seq(Int)
      /\ (obf = << >> \/ \E b \in Byte : obf = <<[aux |-> FALSE, data |-> b]>>)
  BY DEF TypingInv
<1>2. /\ k.mod = "CAPSLOCK" => k \notin held
      /\ held' = held \union {k} /\ caps' = (caps # (k.mod = "CAPSLOCK")) /\ kbdq' = kbdq \o KeyBytes(k, 0)
      /\ typed' = typed \o Meaning(k, held', caps')
      /\ obf' = obf /\ shift' = shift /\ decoded' = decoded
  BY DEF Press, kbdVars
<1>3. /\ twins' \in BOOLEAN /\ (twins => twins')
      /\ ~twins' => ~(k.mod \in Modifiers /\ \E m \in held \ {k} : m.mod = k.mod)
  BY <1>1 DEF Press
<1>4. PICK s2, o2 : /\ Leads(Bytes, shift, decoded, s2, o2)
                    /\ Follows(s2, held, caps, twins) /\ (~twins => o2 = typed)
  BY DEF TypingInv
<1> DEFINE s3 == Prefixed(s2, k)
           s4 == After(s2, k)
           more == Out(s3, k.code)
<1>5. Decode(s3, k.code) = [shift |-> s4, c |-> Char(s4, k)]
  BY <1>4, CodePressed DEF Follows
<1>6. more = IF Char(s4, k) = 0 THEN << >> ELSE IF Reboots(s4, Char(s4, k)) THEN <<RESET>> ELSE <<Char(s4, k)>>
  BY <1>5 DEF Out
<1>7. more \in Seq(Int)
  <2>1. Char(s4, k) \in Int /\ RESET \in Int
    BY CharType DEF RESET
  <2>2. <<Char(s4, k)>> \in Seq(Int) /\ <<RESET>> \in Seq(Int) /\ << >> \in Seq(Int)
    BY <2>1
  <2> QED
    BY <1>6, <2>2
<1>8. Bytes' = Bytes \o KeyBytes(k, 0) /\ kbdq' \in Seq(Byte) /\ Bytes \in Seq(Byte)
  BY <1>1, <1>2, KeyBytesType, BytesGrow, BytesType
<1>9. Leads(Bytes', shift', decoded', s4, o2 \o more)
  <2>1. k.code \in Byte /\ k.code = k.code + 0
    BY KeyFacts DEF Byte
  <2>2. Leads(Bytes \o KeyBytes(k, 0), shift, decoded, Decode(s3, k.code).shift, o2 \o Out(s3, k.code))
    BY <1>4, <1>7, <1>8, <2>1, LeadsByKey
  <2>3. Decode(s3, k.code).shift = s4
    BY <1>5
  <2> QED
    BY <1>2, <1>8, <2>2, <2>3
<1>10. Follows(s4, held', caps', twins) /\ caps' \in BOOLEAN
  BY <1>1, <1>2, <1>4, PressFollows
<1> HIDE DEF s3, s4, more
<1>11. Follows(s4, held', caps', twins')
  BY <1>3, <1>10 DEF Follows
<1>12. Meaning(k, held', caps') \in Seq(Int) /\ (~twins' => more = Meaning(k, held', caps'))
  <2>1. Meaning(k, held', caps') \in Seq(Int)
    <3>1. k.plain \in Int /\ k.shifted \in Int /\ k.ctl \in Int /\ RESET \in Int
      <4>1. k.plain \in Byte /\ k.shifted \in Byte /\ k.ctl \in Byte
        BY KeyFacts
      <4> QED
        BY <4>1 DEF Byte, RESET
    <3>2. /\ <<k.plain>> \in Seq(Int) /\ <<k.shifted>> \in Seq(Int) /\ <<k.ctl>> \in Seq(Int)
          /\ <<RESET>> \in Seq(Int) /\ << >> \in Seq(Int)
      BY <3>1
    <3> QED
      BY <3>2 DEF Meaning
  <2>2. ASSUME ~twins' PROVE more = Meaning(k, held', caps')
    <3>1. Follows(s4, held', caps', FALSE)
      BY <1>11, <2>2 DEF Follows
    <3> QED
      BY <1>6, <1>10, <3>1, Means
  <2> QED
    BY <2>1, <2>2
<1>13. typed' \in Seq(Int) /\ (~twins' => o2 \o more = typed')
  BY <1>1, <1>2, <1>3, <1>4, <1>12, ConcatProperties
<1>14. ~twins' => \A m, n \in held' : m.mod = n.mod /\ m.mod \in Modifiers => m = n
  <2> SUFFICES ASSUME ~twins', NEW m \in held', NEW n \in held', m.mod = n.mod, m.mod \in Modifiers
               PROVE  m = n
    OBVIOUS
  <2>1. \A a, b \in held : a.mod = b.mod /\ a.mod \in Modifiers => a = b
    BY <1>3 DEF TypingInv
  <2>2. ~(k.mod \in Modifiers /\ \E a \in held \ {k} : a.mod = k.mod)
    BY <1>3
  <2> QED
    BY <1>2, <2>1, <2>2
<1> QED
  BY <1>1, <1>2, <1>3, <1>8, <1>9, <1>10, <1>11, <1>13, <1>14 DEF TypingInv

LEMMA ReleaseStep ==
  ASSUME TypingInv, NEW k \in Keys, Release(k)
  PROVE  TypingInv'
<1>1. /\ kbdq \in Seq(Byte) /\ held \subseteq Keys /\ caps \in BOOLEAN /\ twins \in BOOLEAN /\ typed \in Seq(Int)
      /\ (obf = << >> \/ \E b \in Byte : obf = <<[aux |-> FALSE, data |-> b]>>)
      /\ (~twins => \A m, n \in held : m.mod = n.mod /\ m.mod \in Modifiers => m = n)
  BY DEF TypingInv
<1>2. /\ k \in held /\ held' = held \ {k} /\ kbdq' = kbdq \o KeyBytes(k, 128)
      /\ UNCHANGED <<obf, shift, decoded, caps, twins, typed>>
  BY DEF Release, kbdVars
<1>3. PICK s2, o2 : /\ Leads(Bytes, shift, decoded, s2, o2)
                    /\ Follows(s2, held, caps, twins) /\ (~twins => o2 = typed)
  BY DEF TypingInv
<1> DEFINE s3 == Prefixed(s2, k)
           s4 == s2 \ ({k.mod} \intersect Modifiers)
<1>4. Decode(s3, k.code + 128).shift = s4 /\ Out(s3, k.code + 128) = << >>
  BY <1>3, CodeReleased DEF Follows
<1>5. Bytes' = Bytes \o KeyBytes(k, 128) /\ kbdq' \in Seq(Byte) /\ Bytes \in Seq(Byte)
  BY <1>1, <1>2, KeyBytesType, BytesGrow, BytesType
<1>6. Leads(Bytes', shift', decoded', s4, o2)
  <2>1. k.code + 128 \in Byte
    BY CodeType
  <2>2. << >> \in Seq(Int) /\ o2 \in Seq(Int)
    BY <1>3, <1>5, LeadsOn
  <2>3. Out(s3, k.code + 128) \in Seq(Int)
    BY <1>4, <2>2
  <2>4. Leads(Bytes \o KeyBytes(k, 128), shift, decoded, Decode(s3, k.code + 128).shift,
              o2 \o Out(s3, k.code + 128))
    BY <1>3, <1>5, <2>1, <2>3, LeadsByKey
  <2>5. o2 \o Out(s3, k.code + 128) = o2
    BY <1>4, <2>2, ConcatEmptySeq
  <2> QED
    BY <1>2, <1>4, <1>5, <2>4, <2>5
<1> HIDE DEF s3
<1>7. Follows(s4, held', caps', twins')
  <2>1. "E0ESC" \notin s4 /\ (caps' <=> "CAPSLOCK" \in s4)
    <3>1. "E0ESC" \notin s2 /\ (caps <=> "CAPSLOCK" \in s2) /\ "CAPSLOCK" \notin Modifiers
      BY <1>3 DEF Follows, Modifiers
    <3> QED
      BY <1>2, <3>1
  <2>2. s4 \intersect Modifiers \subseteq Down(held')
    <3> SUFFICES ASSUME NEW f \in s4, f \in Modifiers PROVE f \in Down(held')
      OBVIOUS
    <3>1. f \in Down(held) /\ f # k.mod
      BY <1>3 DEF Follows
    <3>2. PICK m \in held : m.mod = f
      BY <3>1 DEF Down
    <3>3. m \in held'
      BY <1>2, <3>1, <3>2
    <3> QED
      BY <3>2, <3>3 DEF Down
  <2>3. ASSUME ~twins' PROVE Down(held') \subseteq s4
    <3> SUFFICES ASSUME NEW f \in Down(held') PROVE f \in s4
      OBVIOUS
    <3>1. PICK m \in held' : m.mod = f /\ f \in Modifiers
      BY DEF Down
    <3>2. m \in held /\ m # k
      BY <1>2, <3>1
    <3>3. f \in s2
      BY <1>2, <1>3, <2>3, <3>1, <3>2 DEF Follows, Down
    <3>4. f # k.mod
      BY <1>1, <1>2, <2>3, <3>1, <3>2
    <3> QED
      BY <3>3, <3>4
  <2> QED
    BY <2>1, <2>2, <2>3 DEF Follows
<1> HIDE DEF s4
<1> QED
  BY <1>1, <1>2, <1>3, <1>5, <1>6, <1>7 DEF TypingInv

LEMMA LoadStep ==
  ASSUME TypingInv, ControllerLoad
  PROVE  TypingInv'
<1>1. kbdq \in Seq(Byte) /\ kbdq # << >> /\ obf = << >>
  BY DEF TypingInv, ControllerLoad
<1>2. /\ obf' = <<[aux |-> FALSE, data |-> Head(kbdq)]>> /\ kbdq' = Tail(kbdq)
      /\ UNCHANGED <<shift, held, caps, twins, typed, decoded>>
  BY DEF ControllerLoad
<1>3. Head(kbdq) \in Byte /\ kbdq' \in Seq(Byte)
  BY <1>1, <1>2, HeadTailProperties
<1>4. obf' # << >> /\ obf'[1].data = Head(kbdq)
  BY <1>2
<1>5. Bytes' = <<Head(kbdq)>> \o Tail(kbdq)
  BY <1>2, <1>4 DEF Bytes
<1>6. <<Head(kbdq)>> \o Tail(kbdq) = kbdq
  <2> DEFINE h == Head(kbdq)
             t == Tail(kbdq)
  <2>1. h = kbdq[1] /\ h \in Byte /\ t \in Seq(Byte) /\ Len(t) = Len(kbdq) - 1 /\ Len(kbdq) \in Nat
        /\ Len(kbdq) > 0 /\ \A i \in 1..Len(t) : t[i] = kbdq[i + 1]
    BY <1>1, EmptySeq, HeadTailProperties, LenProperties
  <2> HIDE DEF h, t
  <2>2. <<h>> \in Seq(Byte) /\ Len(<<h>>) = 1 /\ <<h>>[1] = h
    BY <2>1
  <2>3. /\ <<h>> \o t \in Seq(Byte) /\ Len(<<h>> \o t) = Len(kbdq)
        /\ \A i \in 1..Len(kbdq) : (<<h>> \o t)[i] = IF i <= 1 THEN <<h>>[i] ELSE t[i - 1]
    BY <2>1, <2>2, ConcatProperties
  <2>4. \A i \in 1..Len(kbdq) : (<<h>> \o t)[i] = kbdq[i]
    <3> SUFFICES ASSUME NEW i \in 1..Len(kbdq) PROVE (<<h>> \o t)[i] = kbdq[i]
      OBVIOUS
    <3>1. CASE i = 1
      BY <2>1, <2>2, <2>3, <3>1
    <3>2. CASE i # 1
      <4>1. i - 1 \in 1..Len(t) /\ (i - 1) + 1 = i /\ ~(i <= 1)
        BY <2>1, <3>2
      <4> QED
        BY <2>1, <2>3, <4>1
    <3> QED
      BY <3>1, <3>2
  <2>5. <<h>> \o t = kbdq
    BY <1>1, <2>3, <2>4, SeqEqual
  <2> QED
    BY <2>5 DEF h, t
<1>7. Bytes' = Bytes
  BY <1>1, <1>5, <1>6, BytesType
<1> QED
  BY <1>2, <1>3, <1>7 DEF TypingInv

LEMMA ReadStep ==
  ASSUME TypingInv, KbdProcData
  PROVE  TypingInv'
<1>1. kbdq \in Seq(Byte) /\ (obf = << >> \/ \E b \in Byte : obf = <<[aux |-> FALSE, data |-> b]>>)
  BY DEF TypingInv
<1>2. /\ obf # << >> /\ obf' = << >> /\ shift' = Decode(shift, obf[1].data).shift
      /\ UNCHANGED <<held, caps, kbdq, twins, typed>>
  BY DEF KbdProcData, KbdReadByte, KbdNoData, KbdDecoded
<1>3. decoded' = decoded \o Out(shift, obf[1].data)
  BY <1>2 DEF KbdProcData, KbdDecoded, Out
<1>4. obf[1].data \in Byte /\ Bytes \in Seq(Byte) /\ Bytes = <<obf[1].data>> \o kbdq
  BY <1>1, <1>2, BytesType
<1>5. Bytes # << >> /\ Head(Bytes) = obf[1].data /\ Tail(Bytes) = kbdq
  BY <1>1, <1>4, FirstOf
<1>6. Bytes' = kbdq
  BY <1>1, <1>2, ConcatEmptySeq DEF Bytes
<1>7. PICK s2, o2 : /\ Leads(Bytes, shift, decoded, s2, o2)
                    /\ Follows(s2, held, caps, twins) /\ (~twins => o2 = typed)
  BY DEF TypingInv
<1>8. Leads(Tail(Bytes), Decode(shift, Head(Bytes)).shift, decoded \o Out(shift, Head(Bytes)), s2, o2)
  BY <1>4, <1>5, <1>7, LeadsOnward
<1>9. Leads(Bytes', shift', decoded', s2, o2)
  BY <1>2, <1>3, <1>5, <1>6, <1>8
<1> QED
  BY <1>1, <1>2, <1>7, <1>9 DEF TypingInv

LEMMA TypingStart == TypingInit => TypingInv
<1> SUFFICES ASSUME TypingInit PROVE TypingInv
  OBVIOUS
<1>1. /\ obf = << >> /\ shift = {} /\ held = {} /\ caps = FALSE /\ kbdq = << >> /\ twins = FALSE
      /\ typed = << >> /\ decoded = << >>
  BY DEF TypingInit
<1>2. << >> \in Seq(Byte) /\ << >> \in Seq(Int)
  OBVIOUS
<1>3. Bytes = << >>
  BY <1>1, <1>2, ConcatEmptySeq DEF Bytes
<1>4. Leads(Bytes, shift, decoded, {}, << >>)
  BY <1>1, <1>2, <1>3, LeadsNowhere
<1>5. Follows({}, held, caps, twins)
  BY <1>1 DEF Follows, Down
<1> QED
  BY <1>1, <1>2, <1>4, <1>5 DEF TypingInv

LEMMA TypingStep == TypingInv /\ [TypingNext]_typingVars => TypingInv'
<1> SUFFICES ASSUME TypingInv, [TypingNext]_typingVars PROVE TypingInv'
  OBVIOUS
<1>1. CASE UNCHANGED typingVars
  <2>1. UNCHANGED <<obf, shift, held, caps, kbdq, twins, typed, decoded>>
    BY <1>1 DEF typingVars, kbdVars
  <2>2. Bytes' = Bytes
    BY <2>1 DEF Bytes
  <2> QED
    BY <2>1, <2>2 DEF TypingInv
<1> QED
  BY <1>1, PressStep, ReleaseStep, LoadStep, ReadStep DEF TypingNext

(* Whatever keys go up and down in whatever order, once every byte is read the shift
   word is what the keyboard looks like. *)
THEOREM ShiftFollows == TypingSpec => []ModifiersFollow
<1>1. TypingInv => ModifiersFollow
  <2> SUFFICES ASSUME TypingInv, Drained PROVE ModifiersFollow
    BY DEF ModifiersFollow
  <2>1. Bytes = << >>
    BY ConcatEmptySeq DEF Drained, Bytes, TypingInv
  <2>2. Follows(shift, held, caps, twins) /\ caps \in BOOLEAN
    BY <2>1, LeadsFromEmpty DEF TypingInv
  <2>3. caps = ("CAPSLOCK" \in shift)
    BY <2>2 DEF Follows
  <2> QED
    BY <2>2, <2>3 DEF Follows, Down, ModifiersFollow
<1> QED
  BY TypingStart, TypingStep, <1>1, PTL DEF TypingSpec

(* Whatever keys go up and down, and however late their bytes are read, what is
   decoded is what was typed, in order. *)
THEOREM TypedIsDecoded == TypingSpec => []CharsAsTyped
<1>1. TypingInv => CharsAsTyped
  <2> SUFFICES ASSUME TypingInv, ~twins
               PROVE  IsPrefix(decoded, typed) /\ (Drained => decoded = typed)
    BY DEF CharsAsTyped
  <2>1. PICK s2, o2 : Leads(Bytes, shift, decoded, s2, o2) /\ o2 = typed
    BY DEF TypingInv
  <2>2. IsPrefix(decoded, typed)
    BY <2>1, LeadsOn, BytesType DEF TypingInv
  <2>3. Drained => Bytes = << >>
    BY ConcatEmptySeq DEF Drained, Bytes, TypingInv
  <2> QED
    BY <2>1, <2>2, <2>3, LeadsFromEmpty
<1> QED
  BY TypingStart, TypingStep, <1>1, PTL DEF TypingSpec
=============================================================================
