------------------------------ MODULE LibraryProofs ----------------------------
(***************************************************************************)
(* Proofs about Library: what the functions of lib/string.c and            *)
(* lib/printfmt.c compute, for every legal call, every width of an int and *)
(* of a long long and texts over any characters.  A loop is a function of  *)
(* the number of its turns, so what it computes is proved by induction on  *)
(* that number, without a bound on the size of a block or a text.          *)
(***************************************************************************)
EXTENDS Library, NaturalsInduction, WellFoundedInduction, SequenceTheorems, FiniteSetTheorems,
        TLAPS

-----------------------------------------------------------------------------
(* Loops.  What Iterated() is defined to be exists, and Turns() says when a loop ends. *)

(* A set of numbers that is not empty has a least one. *)
LEMMA LeastNumber ==
  ASSUME NEW S \in SUBSET Nat, S # {}
  PROVE  \E m \in S : \A k \in S : m <= k
<1>1. \E m \in S : \A k \in S : <<k, m>> \notin OpToRel(<, Nat)
  BY NatLessThanWellFounded, WFMin
<1>2. \A k, m \in Nat : k < m => <<k, m>> \in OpToRel(<, Nat)
  BY DEF OpToRel
<1>3. \A k, m \in Nat : ~(k < m) => m <= k
  OBVIOUS
<1> QED
  BY <1>1, <1>2, <1>3

(* A set of numbers with 0 and with each number's successor is all of them. *)
LEMMA AllNumbers ==
  ASSUME NEW S, 0 \in S, \A k \in Nat : k \in S => k + 1 \in S
  PROVE  \A k \in Nat : k \in S
<1> SUFFICES ASSUME NEW j \in Nat, j \notin S PROVE FALSE
  OBVIOUS
<1> DEFINE Bad == {k \in Nat : k \notin S}
<1>1. Bad \in SUBSET Nat /\ Bad # {}
  OBVIOUS
<1>2. PICK k \in Bad : \A i \in Bad : k <= i
  <2> HIDE DEF Bad
  <2> QED BY <1>1, LeastNumber
<1>3. k \in Nat /\ k # 0 /\ k - 1 \in Nat /\ ~(k <= k - 1) /\ (k - 1) + 1 = k
  OBVIOUS
<1>4. k - 1 \notin Bad
  BY <1>2, <1>3
<1> QED
  BY <1>3, <1>4

(* h is what a loop of n turns goes through. *)
IsChain(h, step, x, n) ==
  h = [k \in 0..n |-> IF k = 0 THEN x ELSE step[h[k - 1]]]

(* There is a function that starts at x and takes a step with each turn, up to
   any number of turns. *)
LEMMA ChainExists ==
  ASSUME NEW step, NEW x
  PROVE  \A n \in Nat : \E h : IsChain(h, step, x, n)
<1> DEFINE S == {n \in Nat : \E h : IsChain(h, step, x, n)}
<1>1. 0 \in S
  <2>1. IsChain([k \in 0..0 |-> x], step, x, 0)
    BY DEF IsChain
  <2> QED BY <2>1
<1>2. ASSUME NEW n \in Nat, n \in S PROVE n + 1 \in S
  <2>1. PICK h : IsChain(h, step, x, n)
    BY <1>2
  <2> DEFINE g == [k \in 0..(n + 1) |-> IF k = n + 1 THEN step[h[n]] ELSE h[k]]
  <2>2. ASSUME NEW k \in 0..(n + 1) PROVE g[k] = IF k = 0 THEN x ELSE step[g[k - 1]]
    <3>1. CASE k = n + 1
      <4>1. g[k - 1] = h[n]
        BY <3>1
      <4> QED BY <4>1, <3>1
    <3>2. CASE k # n + 1
      <4>1. /\ k \in 0..n /\ g[k] = h[k]
            /\ (k # 0 => k - 1 \in 0..(n + 1) /\ k - 1 # n + 1 /\ g[k - 1] = h[k - 1])
        BY <3>2
      <4>2. h[k] = IF k = 0 THEN x ELSE step[h[k - 1]]
        BY <2>1, <4>1 DEF IsChain
      <4> QED BY <4>1, <4>2
    <3> QED BY <3>1, <3>2
  <2>3. IsChain(g, step, x, n + 1)
    BY <2>2 DEF IsChain
  <2> QED BY <2>3
<1> HIDE DEF S
<1>3. \A n \in Nat : n \in S
  BY <1>1, <1>2, AllNumbers
<1> QED
  BY <1>3 DEF S

(* There is one such function only. *)
LEMMA ChainUnique ==
  ASSUME NEW step, NEW x, NEW n \in Nat, NEW j \in Nat, NEW g, NEW h,
         IsChain(g, step, x, n), IsChain(h, step, x, j)
  PROVE  \A k \in Nat : k <= n /\ k <= j => g[k] = h[k]
<1> DEFINE S == {k \in Nat : k <= n /\ k <= j => g[k] = h[k]}
<1>1. 0 \in S
  BY DEF IsChain
<1>2. ASSUME NEW k \in Nat, k \in S PROVE k + 1 \in S
  <2> SUFFICES ASSUME k + 1 <= n, k + 1 <= j PROVE g[k + 1] = h[k + 1]
    OBVIOUS
  <2>1. g[k] = h[k] /\ k + 1 \in 0..n /\ k + 1 \in 0..j /\ (k + 1) - 1 = k /\ k + 1 # 0
    BY <1>2
  <2>2. g[k + 1] = step[g[k]]
    BY <2>1 DEF IsChain
  <2>3. h[k + 1] = step[h[k]]
    BY <2>1 DEF IsChain
  <2> QED BY <2>1, <2>2, <2>3
<1> HIDE DEF S
<1>3. \A k \in Nat : k \in S
  BY <1>1, <1>2, AllNumbers
<1> QED
  BY <1>3 DEF S

(* What a loop is after no turn, and after one turn more. *)
LEMMA IteratedDef ==
  ASSUME NEW step, NEW x
  PROVE  /\ Iterated(step, x)[0] = x
         /\ \A k \in Nat : Iterated(step, x)[k + 1] = step[Iterated(step, x)[k]]
<1> DEFINE H(n) == CHOOSE h : IsChain(h, step, x, n)
           g == [n \in Nat |-> H(n)[n]]
           Is(f) == f = [i \in Nat |-> IF i = 0 THEN x ELSE step[f[i - 1]]]
<1>1. \A n \in Nat : IsChain(H(n), step, x, n)
  BY ChainExists
<1>2. ASSUME NEW n \in Nat PROVE g[n] = IF n = 0 THEN x ELSE step[g[n - 1]]
  <2>1. H(n)[n] = IF n = 0 THEN x ELSE step[H(n)[n - 1]]
    <3> HIDE DEF H
    <3> QED BY <1>1 DEF IsChain
  <2>2. CASE n # 0
    <3>1. n - 1 \in Nat
      BY <2>2
    <3>2. H(n)[n - 1] = H(n - 1)[n - 1]
      <4>1. /\ IsChain(H(n), step, x, n) /\ IsChain(H(n - 1), step, x, n - 1) /\ n - 1 <= n
            /\ n - 1 <= n - 1
        BY <1>1, <3>1
      <4> HIDE DEF H
      <4> QED BY <4>1, <3>1, ChainUnique
    <3> QED BY <2>1, <2>2, <3>1, <3>2
  <2> QED BY <2>1, <2>2
<1>3. Is(g)
  <2> HIDE DEF H
  <2> QED BY <1>2
<1>4. Is(CHOOSE f : Is(f))
  <2> HIDE DEF g, Is
  <2> QED BY <1>3
<1>5. Iterated(step, x) = CHOOSE f : Is(f)
  BY DEF Iterated
<1>6. Is(Iterated(step, x))
  BY <1>4, <1>5
<1> HIDE DEF H, g
<1>7. \A k \in Nat : k + 1 # 0 /\ (k + 1) - 1 = k /\ k + 1 \in Nat
  OBVIOUS
<1> QED
  BY <1>6, <1>7

(* A loop makes n turns at most, each because it goes on, and stops where it does
   not go on. *)
LEMMA TurnsDef ==
  ASSUME NEW n \in Nat, NEW go
  PROVE  /\ Turns(n, go) \in 0..n
         /\ \A i \in 0..(Turns(n, go) - 1) : go[i]
         /\ Turns(n, go) = n \/ ~go[Turns(n, go)]
<1> DEFINE Stops(i) == {j \in i..n : j = n \/ ~go[j]}
           First(i) == CHOOSE j \in Stops(i) : \A k \in Stops(i) : j <= k
           g == [i \in 0..n |-> First(i)]
           Is(f) == f = [i \in 0..n |-> IF i < n /\ go[i] THEN f[i + 1] ELSE i]
<1>1. ASSUME NEW i \in 0..n
      PROVE  First(i) \in Stops(i) /\ \A k \in Stops(i) : First(i) <= k
  <2>1. Stops(i) \in SUBSET Nat /\ n \in Stops(i)
    OBVIOUS
  <2>2. \E j \in Stops(i) : \A k \in Stops(i) : j <= k
    <3> HIDE DEF Stops
    <3> QED BY <2>1, LeastNumber
  <2> HIDE DEF Stops
  <2> QED BY <2>2
<1>2. ASSUME NEW i \in 0..n PROVE g[i] = IF i < n /\ go[i] THEN g[i + 1] ELSE i
  <2>1. CASE i < n /\ go[i]
    <3>1. Stops(i) = Stops(i + 1) /\ i + 1 \in 0..n
      BY <2>1
    <3>2. First(i) = First(i + 1)
      <4> HIDE DEF Stops
      <4> QED BY <3>1
    <3> HIDE DEF First
    <3> QED BY <2>1, <3>1, <3>2
  <2>2. CASE ~(i < n /\ go[i])
    <3>1. i \in Stops(i) /\ \A k \in Stops(i) : i <= k
      BY <2>2
    <3>2. First(i) \in Stops(i) /\ First(i) <= i
      BY <1>1, <3>1
    <3>3. First(i) \in Int /\ i <= First(i)
      <4>1. Stops(i) \subseteq Int
        OBVIOUS
      <4> HIDE DEF Stops, First
      <4> QED BY <3>1, <3>2, <4>1
    <3>4. First(i) = i
      <4> HIDE DEF Stops, First
      <4> QED BY <3>2, <3>3
    <3> HIDE DEF Stops, First
    <3> QED BY <2>2, <3>4
  <2> QED BY <2>1, <2>2
<1>3. Is(g)
  <2> HIDE DEF First
  <2> QED BY <1>2
<1>4. Is(CHOOSE f : Is(f))
  <2> HIDE DEF g, Is
  <2> QED BY <1>3
<1> DEFINE t == CHOOSE f : Is(f)
<1>5. Turns(n, go) = t[0]
  BY DEF Turns
<1>6. \A i \in 0..n : t[i] = IF i < n /\ go[i] THEN t[i + 1] ELSE i
  <2> HIDE DEF t
  <2> SUFFICES Is(t) OBVIOUS
  <2> QED BY <1>4 DEF t
<1> HIDE DEF t, Is, g
<1> DEFINE Fits(i) == /\ t[i] \in i..n /\ (t[i] = n \/ ~go[t[i]])
                      /\ \A j \in i..(t[i] - 1) : go[j]
           S == {k \in Nat : k <= n => Fits(n - k)}
<1>7. 0 \in S
  <2>1. t[n] = n
    BY <1>6
  <2> QED BY <2>1
<1>8. ASSUME NEW k \in Nat, k \in S PROVE k + 1 \in S
  <2> SUFFICES ASSUME k + 1 <= n PROVE Fits(n - (k + 1))
    OBVIOUS
  <2> DEFINE i == n - (k + 1)
  <2>1. i \in 0..n /\ i < n /\ i + 1 = n - k /\ i + 1 \in 0..n
    OBVIOUS
  <2>2. Fits(i + 1)
    BY <1>8, <2>1
  <2> HIDE DEF i
  <2>3. ASSUME go[i] PROVE Fits(i)
    <3>1. t[i] = t[i + 1]
      BY <1>6, <2>1, <2>3
    <3>2. t[i] \in i..n /\ (t[i] = n \/ ~go[t[i]])
      BY <2>1, <2>2, <3>1
    <3>3. ASSUME NEW j \in i..(t[i] - 1) PROVE go[j]
      <4>1. j = i \/ j \in (i + 1)..(t[i + 1] - 1)
        BY <2>1, <2>2, <3>1
      <4> QED BY <2>2, <2>3, <4>1
    <3> QED BY <3>2, <3>3
  <2>4. ASSUME ~go[i] PROVE Fits(i)
    <3>1. t[i] = i
      BY <1>6, <2>1, <2>4
    <3> QED BY <2>1, <2>4, <3>1
  <2> QED BY <2>3, <2>4 DEF i
<1>9. n \in S
  <2> HIDE DEF S
  <2> QED BY <1>7, <1>8, AllNumbers
<1>10. Fits(0)
  <2>1. n <= n /\ n - n = 0
    OBVIOUS
  <2> HIDE DEF Fits
  <2> QED BY <1>9, <2>1
<1> QED
  BY <1>5, <1>10

-----------------------------------------------------------------------------
(* memmove(), byte by byte and, where pointers and size are aligned, word by word. *)

(* What n bytes are once they have arrived, and the rest of memory. *)
Moved(m, dst, src, n) ==
  [a \in DOMAIN m |-> IF a \in dst..(dst + n - 1) THEN m[src + a - dst] ELSE m[a]]

(* Memory after n bytes have arrived is memory. *)
LEMMA MovedMemory ==
  ASSUME NEW m, Memory(m), NEW d \in Int, NEW s \in Int, NEW n \in Nat, Holds(m, s, n)
  PROVE  Moved(m, d, s, n) \in [DOMAIN m -> Int]
<1>1. ASSUME NEW a \in DOMAIN m PROVE Moved(m, d, s, n)[a] \in Int
  <2>1. a \in Int /\ m[a] \in Int
    BY DEF Memory
  <2>2. a \in d..(d + n - 1) => s + a - d \in DOMAIN m
    BY <2>1 DEF Holds
  <2>3. a \in d..(d + n - 1) => m[s + a - d] \in Int
    BY <2>2 DEF Memory
  <2> QED BY <2>1, <2>3 DEF Moved
<1> QED BY <1>1 DEF Moved

(* k + 1 of n words of w bytes. *)
LEMMA Multiples ==
  ASSUME NEW w \in Nat, NEW k \in Nat, NEW n \in Nat, k + 1 <= n
  PROVE  /\ k * w \in Nat /\ n * w \in Nat /\ (k + 1) * w \in Nat
         /\ (k + 1) * w = k * w + w /\ (k + 1) * w <= n * w /\ k * w <= n * w
<1>1. PICK j \in Nat : n = (k + 1) + j
  <2>1. n - (k + 1) \in Nat /\ n = (k + 1) + (n - (k + 1))
    OBVIOUS
  <2> QED BY <2>1
<1>2. n * w = (k + 1) * w + j * w /\ j * w \in Nat /\ k * w \in Nat /\ (k + 1) * w = k * w + w
  BY <1>1
<1> QED BY <1>2

(* Forwards: nothing is overwritten that is still to be read, unless the destination
   begins within the source. *)
LEMMA MovsForward ==
  ASSUME NEW m, Memory(m), NEW d \in Int, NEW s \in Int, NEW w \in Nat \ {0}, NEW n \in Nat,
         Holds(m, d, n * w), Holds(m, s, n * w), ~(s < d /\ s + n * w > d)
  PROVE  Movs(m, d, s, n, w) = Moved(m, d, s, n * w)
<1> DEFINE States == [mem : [DOMAIN m -> Int], d : Int, s : Int]
           F == [b \in States |->
                  [mem |-> [a \in DOMAIN m |-> IF a \in b.d..(b.d + (IF w < 0 THEN -w ELSE w) - 1)
                                               THEN b.mem[b.s + a - b.d] ELSE b.mem[a]],
                   d |-> b.d + w, s |-> b.s + w]]
           At(k) == [mem |-> Moved(m, d, s, k * w), d |-> d + k * w, s |-> s + k * w]
           I == Iterated(F, [mem |-> m, d |-> d, s |-> s])
           S == {k \in Nat : k <= n => I[k] = At(k)}
<1>1. Movs(m, d, s, n, w) = I[n].mem
  BY DEF Movs
<1>2. I[0] = [mem |-> m, d |-> d, s |-> s] /\ \A k \in Nat : I[k + 1] = F[I[k]]
  <2> HIDE DEF F
  <2> QED BY IteratedDef
<1>3. 0 \in S
  <2>1. 0 * w = 0 /\ d + 0 = d /\ s + 0 = s
    OBVIOUS
  <2>2. Moved(m, d, s, 0) = m
    BY DEF Moved, Memory
  <2> HIDE DEF F
  <2> QED BY <1>2, <2>1, <2>2
<1>4. ASSUME NEW k \in Nat, k \in S PROVE k + 1 \in S
  <2> SUFFICES ASSUME k + 1 <= n PROVE I[k + 1] = At(k + 1)
    OBVIOUS
  <2>1. /\ k * w \in Nat /\ n * w \in Nat /\ (k + 1) * w \in Nat
        /\ (k + 1) * w = k * w + w /\ (k + 1) * w <= n * w /\ k * w <= n * w
    BY Multiples
  <2>2. PICK p, q \in Nat : p = k * w /\ q = n * w /\ (k + 1) * w = p + w /\ p + w <= q
    BY <2>1
  <2>3. Holds(m, s, p) /\ Holds(m, s, q)
    BY <2>2 DEF Holds
  <2>4. Moved(m, d, s, p) \in [DOMAIN m -> Int]
    BY <2>3, MovedMemory
  <2>5. At(k) \in States /\ At(k) = [mem |-> Moved(m, d, s, p), d |-> d + p, s |-> s + p]
    BY <2>2, <2>4
  <2>6. I[k + 1] = F[At(k)]
    <3>1. I[k] = At(k)
      BY <1>4
    <3> HIDE DEF I, At, F
    <3> QED BY <1>2, <3>1
  <2> DEFINE next == [a \in DOMAIN m |-> IF a \in (d + p)..((d + p) + w - 1)
                                         THEN Moved(m, d, s, p)[(s + p) + a - (d + p)]
                                         ELSE Moved(m, d, s, p)[a]]
  <2>7. F[At(k)] = [mem |-> next, d |-> (d + p) + w, s |-> (s + p) + w]
    <3>1. (IF w < 0 THEN -w ELSE w) = w
      OBVIOUS
    <3> QED BY <2>5, <3>1
  <2>8. ASSUME NEW a \in DOMAIN m PROVE next[a] = Moved(m, d, s, p + w)[a]
    <3>1. a \in Int
      BY DEF Memory
    <3>2. CASE a \in (d + p)..((d + p) + w - 1)
      <4>1. (s + p) + a - (d + p) = s + a - d /\ s + a - d \in s..(s + q - 1)
        BY <2>2, <3>1, <3>2
      <4>2. s + a - d \in DOMAIN m
        BY <2>3, <4>1 DEF Holds
      <4>3. s + a - d \notin d..(d + p - 1)
        BY <2>2, <3>1, <3>2
      <4>4. Moved(m, d, s, p)[s + a - d] = m[s + a - d]
        BY <4>2, <4>3 DEF Moved
      <4>5. a \in d..(d + (p + w) - 1)
        BY <3>1, <3>2
      <4> QED BY <3>2, <4>1, <4>4, <4>5 DEF Moved
    <3>3. CASE a \notin (d + p)..((d + p) + w - 1)
      <4>1. a \in d..(d + p - 1) <=> a \in d..(d + (p + w) - 1)
        BY <3>1, <3>3
      <4> QED BY <3>3, <4>1 DEF Moved
    <3> QED BY <3>2, <3>3
  <2>9. next = Moved(m, d, s, p + w)
    BY <2>8 DEF Moved
  <2>10. (d + p) + w = d + (p + w) /\ (s + p) + w = s + (p + w)
    OBVIOUS
  <2> HIDE DEF F, next, I
  <2> QED BY <2>2, <2>6, <2>7, <2>9, <2>10
<1> HIDE DEF S
<1>5. n \in S
  BY <1>3, <1>4, AllNumbers
<1> QED
  BY <1>1, <1>5 DEF S
(* Backwards: nothing is overwritten that is still to be read if the destination
   is above the source. *)
LEMMA MovsBackward ==
  ASSUME NEW m, Memory(m), NEW d \in Int, NEW s \in Int, NEW w \in Nat \ {0}, NEW n \in Nat,
         Holds(m, d, n * w), Holds(m, s, n * w), s < d
  PROVE  Movs(m, d + n * w - w, s + n * w - w, n, -w) = Moved(m, d, s, n * w)
<1> DEFINE States == [mem : [DOMAIN m -> Int], d : Int, s : Int]
           F == [b \in States |->
                  [mem |-> [a \in DOMAIN m |-> IF a \in b.d..(b.d + (IF -w < 0 THEN -(-w) ELSE -w) - 1)
                                               THEN b.mem[b.s + a - b.d] ELSE b.mem[a]],
                   d |-> b.d + -w, s |-> b.s + -w]]
           At(k) == [mem |-> Moved(m, d + n * w - k * w, s + n * w - k * w, k * w),
                     d |-> d + n * w - w - k * w, s |-> s + n * w - w - k * w]
           I == Iterated(F, [mem |-> m, d |-> d + n * w - w, s |-> s + n * w - w])
           S == {k \in Nat : k <= n => I[k] = At(k)}
<1>1. Movs(m, d + n * w - w, s + n * w - w, n, -w) = I[n].mem
  BY DEF Movs
<1>2. /\ I[0] = [mem |-> m, d |-> d + n * w - w, s |-> s + n * w - w]
      /\ \A k \in Nat : I[k + 1] = F[I[k]]
  <2> HIDE DEF F
  <2> QED BY IteratedDef
<1>3. n * w \in Nat
  OBVIOUS
<1>4. 0 \in S
  <2>1. 0 * w = 0 /\ d + n * w - w - 0 = d + n * w - w /\ s + n * w - w - 0 = s + n * w - w
    BY <1>3
  <2>2. Moved(m, d + n * w - 0, s + n * w - 0, 0) = m
    BY <1>3 DEF Moved, Memory
  <2> HIDE DEF F
  <2> QED BY <1>2, <2>1, <2>2
<1>5. ASSUME NEW k \in Nat, k \in S PROVE k + 1 \in S
  <2> SUFFICES ASSUME k + 1 <= n PROVE I[k + 1] = At(k + 1)
    OBVIOUS
  <2>1. /\ k * w \in Nat /\ n * w \in Nat /\ (k + 1) * w \in Nat
        /\ (k + 1) * w = k * w + w /\ (k + 1) * w <= n * w /\ k * w <= n * w
    BY Multiples
  <2>2. PICK p, q \in Nat : p = k * w /\ q = n * w /\ (k + 1) * w = p + w /\ p + w <= q
    BY <2>1
  <2>3. Holds(m, s + q - p, p) /\ Holds(m, s, q)
    BY <2>2 DEF Holds
  <2> DEFINE part == Moved(m, d + q - p, s + q - p, p)
  <2>4. part \in [DOMAIN m -> Int]
    BY <2>2, <2>3, MovedMemory
  <2>5. At(k) \in States /\ At(k) = [mem |-> part, d |-> d + q - w - p, s |-> s + q - w - p]
    BY <2>2, <2>4
  <2>6. I[k + 1] = F[At(k)]
    <3>1. I[k] = At(k)
      BY <1>5
    <3> HIDE DEF I, At, F
    <3> QED BY <1>2, <3>1
  <2> DEFINE next == [a \in DOMAIN m |-> IF a \in (d + q - w - p)..((d + q - w - p) + w - 1)
                                         THEN part[(s + q - w - p) + a - (d + q - w - p)]
                                         ELSE part[a]]
  <2>7. F[At(k)] = [mem |-> next, d |-> (d + q - w - p) + -w, s |-> (s + q - w - p) + -w]
    <3>1. (IF -w < 0 THEN -(-w) ELSE -w) = w
      OBVIOUS
    <3> HIDE DEF part
    <3> QED BY <2>5, <3>1
  <2>8. ASSUME NEW a \in DOMAIN m PROVE next[a] = Moved(m, d + q - (p + w), s + q - (p + w), p + w)[a]
    <3>1. a \in Int
      BY DEF Memory
    <3>2. CASE a \in (d + q - w - p)..((d + q - w - p) + w - 1)
      <4>1. (s + q - w - p) + a - (d + q - w - p) = s + a - d /\ s + a - d \in s..(s + q - 1)
        BY <2>2, <3>1, <3>2
      <4>2. s + a - d \in DOMAIN m
        BY <2>3, <4>1 DEF Holds
      <4>3. s + a - d \notin (d + q - p)..((d + q - p) + p - 1)
        BY <2>2, <3>1, <3>2
      <4>4. part[s + a - d] = m[s + a - d]
        BY <4>2, <4>3 DEF Moved
      <4>5. a \in (d + q - (p + w))..((d + q - (p + w)) + (p + w) - 1)
        BY <2>2, <3>1, <3>2
      <4>6. (s + q - (p + w)) + a - (d + q - (p + w)) = s + a - d
        BY <2>2, <3>1
      <4>7. Moved(m, d + q - (p + w), s + q - (p + w), p + w)[a] = m[s + a - d]
        BY <4>5, <4>6 DEF Moved
      <4> HIDE DEF part
      <4> QED BY <3>2, <4>1, <4>4, <4>7
    <3>3. CASE a \notin (d + q - w - p)..((d + q - w - p) + w - 1)
      <4>1. a \in (d + q - p)..((d + q - p) + p - 1)
            <=> a \in (d + q - (p + w))..((d + q - (p + w)) + (p + w) - 1)
        BY <2>2, <3>1, <3>3
      <4>2. (s + q - (p + w)) + a - (d + q - (p + w)) = (s + q - p) + a - (d + q - p)
        BY <2>2, <3>1
      <4> QED BY <3>3, <4>1, <4>2 DEF Moved
    <3> QED BY <3>2, <3>3
  <2>9. next = Moved(m, d + q - (p + w), s + q - (p + w), p + w)
    BY <2>8 DEF Moved
  <2>10. (d + q - w - p) + -w = d + q - w - (p + w) /\ (s + q - w - p) + -w = s + q - w - (p + w)
    BY <2>2
  <2> HIDE DEF F, next, I
  <2> QED BY <2>2, <2>6, <2>7, <2>9, <2>10
<1> HIDE DEF S
<1>6. n \in S
  BY <1>4, <1>5, AllNumbers
<1>7. d + n * w - n * w = d /\ s + n * w - n * w = s
  BY <1>3
<1> QED
  BY <1>1, <1>6, <1>7 DEF S

(* n bytes are as many words as n is wide. *)
LEMMA Words ==
  ASSUME NEW w \in Nat \ {0}, NEW n \in Nat, n % w = 0
  PROVE  n \div w \in Nat /\ (n \div w) * w = n
<1>1. n = w * (n \div w) + (n % w) /\ n \div w \in Nat
  OBVIOUS
<1> QED BY <1>1

(* memmove() leaves what MovesExact says, in either direction. *)
LEMMA MemmoveExact ==
  ASSUME NEW m, Memory(m), NEW d \in Int, NEW s \in Int, NEW n \in Nat,
         Holds(m, d, n), Holds(m, s, n)
  PROVE  memmove(m, d, s, n) = Moved(m, d, s, n)
<1>1. WORD \in Nat \ {0}
  BY ByteAssumption
<1> DEFINE w == IF d % WORD = 0 /\ s % WORD = 0 /\ n % WORD = 0 THEN WORD ELSE 1
<1>2. w \in Nat \ {0} /\ n \div w \in Nat /\ (n \div w) * w = n
  <2>1. n % 1 = 0
    OBVIOUS
  <2>2. w \in Nat \ {0} /\ n % w = 0
    BY <1>1, <2>1
  <2> HIDE DEF w
  <2> QED BY <2>2, Words
<1>3. memmove(m, d, s, n) = IF s < d /\ s + n > d THEN Movs(m, d + n - w, s + n - w, n \div w, -w)
                            ELSE Movs(m, d, s, n \div w, w)
  BY DEF memmove, LastOf
<1> HIDE DEF w
<1>4. PICK k \in Nat : k = n \div w /\ k * w = n
  BY <1>2
<1>7. k \in Nat /\ Holds(m, d, k * w) /\ Holds(m, s, k * w)
  BY <1>4
<1>5. CASE s < d /\ s + n > d
  <2>1. Movs(m, d + k * w - w, s + k * w - w, k, -w) = Moved(m, d, s, k * w)
    BY <1>2, <1>4, <1>5, <1>7, MovsBackward
  <2> QED BY <1>3, <1>4, <1>5, <2>1
<1>6. CASE ~(s < d /\ s + n > d)
  <2>1. ~(s < d /\ s + k * w > d)
    BY <1>4, <1>6
  <2>2. Movs(m, d, s, k, w) = Moved(m, d, s, k * w)
    BY <1>2, <1>7, <2>1, MovsForward
  <2> QED BY <1>3, <1>4, <1>6, <2>2
<1> QED BY <1>5, <1>6

-----------------------------------------------------------------------------
(* memset(), which writes words of four equal bytes. *)

(* What a number with a known last digit is when it is divided by the base. *)
LEMMA LastDigit ==
  ASSUME NEW B \in Nat \ {0}, NEW c \in 0..(B - 1), NEW x \in Nat
  PROVE  c + B * x \in Nat /\ (c + B * x) \div B = x /\ (c + B * x) % B = c
<1>1. PICK y \in Nat : y = c + B * x
  OBVIOUS
<1>2. PICK q, r \in Nat : q = y \div B /\ r = y % B /\ y = B * q + r /\ r < B
  <2>1. y \div B \in Nat /\ y % B \in Nat /\ y % B < B /\ y = B * (y \div B) + (y % B)
    OBVIOUS
  <2> QED BY <2>1
<1>3. ~(q < x)
  <2> SUFFICES ASSUME q < x PROVE FALSE
    OBVIOUS
  <2>1. q + 1 <= x /\ B * (q + 1) = B * q + B
    BY <1>2
  <2>2. B * (q + 1) <= B * x
    BY <2>1
  <2> QED BY <1>1, <1>2, <2>1, <2>2
<1>4. ~(x < q)
  <2> SUFFICES ASSUME x < q PROVE FALSE
    OBVIOUS
  <2>1. x + 1 <= q /\ B * (x + 1) = B * x + B
    BY <1>2
  <2>2. B * (x + 1) <= B * q
    BY <2>1
  <2> QED BY <1>1, <1>2, <2>1, <2>2
<1>5. q = x
  BY <1>2, <1>3, <1>4
<1>6. r = c
  BY <1>1, <1>2, <1>5
<1> QED BY <1>1, <1>2, <1>5, <1>6

(* Every byte of a replicated byte is that byte. *)
LEMMA ReplicatedBytes ==
  ASSUME NEW c \in 0..(BYTE - 1), NEW j \in 0..(WORD - 1)
  PROVE  ByteOf(Replicated(c), j) = c
<1> DEFINE R == [word \in Nat |-> c + BYTE * word]
           r == Iterated(R, 0)
           D == [high \in Nat |-> high \div BYTE]
           h == Iterated(D, r[WORD])
<1>1. WORD \in Nat /\ BYTE \in Nat \ {0} /\ j \in Nat /\ j < WORD
  BY ByteAssumption
<1>2. r[0] = 0 /\ \A k \in Nat : r[k + 1] = R[r[k]]
  <2> HIDE DEF R
  <2> QED BY IteratedDef
<1>3. h[0] = r[WORD] /\ \A k \in Nat : h[k + 1] = D[h[k]]
  <2> HIDE DEF D, r
  <2> QED BY IteratedDef
<1>4. ByteOf(Replicated(c), j) = h[j] % BYTE
  BY DEF ByteOf, Replicated
<1> HIDE DEF r, h
<1> DEFINE S == {k \in Nat : r[k] \in Nat}
<1>5. \A k \in Nat : k \in S
  <2>1. 0 \in S
    BY <1>2
  <2>2. ASSUME NEW k \in Nat, k \in S PROVE k + 1 \in S
    <3>1. PICK x \in Nat : x = r[k]
      BY <2>2
    <3>2. c + BYTE * x \in Nat
      BY <1>1, LastDigit
    <3>3. R[x] = c + BYTE * x /\ r[k + 1] = R[x]
      BY <1>2, <3>1
    <3> QED BY <3>2, <3>3
  <2> HIDE DEF S
  <2> QED BY <2>1, <2>2, AllNumbers
<1>6. ASSUME NEW k \in Nat
      PROVE  /\ r[k + 1] \in Nat /\ r[k] \in Nat /\ r[k + 1] \div BYTE = r[k] /\ r[k + 1] % BYTE = c
  <2>1. PICK x \in Nat : x = r[k]
    BY <1>5
  <2>2. r[k + 1] = c + BYTE * x
    BY <1>2, <2>1
  <2>3. c + BYTE * x \in Nat /\ (c + BYTE * x) \div BYTE = x /\ (c + BYTE * x) % BYTE = c
    BY <1>1, LastDigit
  <2> QED BY <2>1, <2>2, <2>3
<1> DEFINE T == {k \in Nat : k <= WORD => h[k] = r[WORD - k]}
<1>7. 0 \in T
  <2>1. WORD - 0 = WORD
    BY <1>1
  <2> QED BY <1>3, <2>1
<1>8. ASSUME NEW k \in Nat, k \in T PROVE k + 1 \in T
  <2> SUFFICES ASSUME k + 1 <= WORD PROVE h[k + 1] = r[WORD - (k + 1)]
    OBVIOUS
  <2>1. PICK i \in Nat : i = WORD - (k + 1) /\ i + 1 = WORD - k
    BY <1>1
  <2>2. h[k] = r[i + 1]
    BY <1>1, <1>8, <2>1
  <2>3. h[k + 1] = r[i + 1] \div BYTE
    BY <1>3, <1>6, <2>2
  <2> QED BY <1>6, <2>1, <2>3
<1>9. h[j] = r[WORD - j]
  <2> HIDE DEF T
  <2>1. j \in T
    BY <1>1, <1>7, <1>8, AllNumbers
  <2> QED BY <1>1, <2>1 DEF T
<1>10. PICK i \in Nat : WORD - j = i + 1
  <2>1. WORD - j - 1 \in Nat /\ WORD - j = (WORD - j - 1) + 1
    BY <1>1
  <2> QED BY <2>1
<1> QED BY <1>4, <1>6, <1>9, <1>10

(* A byte as the low one of any int. *)
LEMMA LowByte ==
  ASSUME NEW c \in Int
  PROVE  c % BYTE \in 0..(BYTE - 1)
<1>1. BYTE \in Nat \ {0}
  BY ByteAssumption
<1> QED BY <1>1

(* What memset() leaves. *)
Filled(m, dst, c, n) ==
  [a \in DOMAIN m |-> IF a \in dst..(dst + n - 1) THEN c % BYTE ELSE m[a]]

(* memset() leaves what FillsExact says. *)
LEMMA MemsetExact ==
  ASSUME NEW m, Memory(m), NEW d \in Int, NEW c \in Int, NEW n \in Nat
  PROVE  memset(m, d, c, n) = Filled(m, d, c, n)
<1>1. WORD \in Nat \ {0}
  BY ByteAssumption
<1>2. CASE d % WORD = 0 /\ n % WORD = 0
  <2>1. (n \div WORD) * WORD = n
    BY <1>1, <1>2, Words
  <2>2. ASSUME NEW a \in DOMAIN m, a \in d..(d + n - 1)
        PROVE  ByteOf(Replicated(c % BYTE), (a - d) % WORD) = c % BYTE
    <3>1. (a - d) % WORD \in 0..(WORD - 1)
      BY <1>1, <2>2
    <3> QED BY <3>1, LowByte, ReplicatedBytes
  <2>3. Stosl(m, d, Replicated(c % BYTE), n \div WORD) =
        [a \in DOMAIN m |-> IF a \in d..(d + n - 1) THEN ByteOf(Replicated(c % BYTE), (a - d) % WORD)
          ELSE m[a]]
    BY <2>1 DEF Stosl
  <2> QED BY <1>2, <2>2, <2>3 DEF memset, Filled
<1>3. CASE ~(d % WORD = 0 /\ n % WORD = 0)
  BY <1>3 DEF memset, Filled
<1> QED BY <1>2, <1>3

-----------------------------------------------------------------------------
(* The least of a set, and the length of a string. *)

(* The least element is the one that LeastOf() chooses. *)
LEMMA LeastOfIs ==
  ASSUME NEW S, S \subseteq Int, NEW a \in S, \A b \in S : a <= b
  PROVE  LeastOf(S) = a
<1> DEFINE Least(k) == k \in S /\ \A j \in S : k <= j
<1>1. LeastOf(S) = CHOOSE k : Least(k)
  BY DEF LeastOf
<1>2. Least(a)
  OBVIOUS
<1>3. \A k : Least(k) => k = a
  OBVIOUS
<1> HIDE DEF Least
<1> QED BY <1>1, <1>2, <1>3

(* The lesser of two numbers. *)
LEMMA LeastOfTwo ==
  ASSUME NEW a \in Int, NEW b \in Int
  PROVE  LeastOf({a, b}) = IF a < b THEN a ELSE b
<1>1. CASE a < b
  <2>1. a \in {a, b} /\ {a, b} \subseteq Int /\ \A k \in {a, b} : a <= k
    BY <1>1
  <2> QED BY <1>1, <2>1, LeastOfIs
<1>2. CASE ~(a < b)
  <2>1. b \in {a, b} /\ {a, b} \subseteq Int /\ \A k \in {a, b} : b <= k
    BY <1>2
  <2> QED BY <1>2, <2>1, LeastOfIs
<1> QED BY <1>1, <1>2

(* The bound that is none is a number. *)
LEMMA UnboundedType == Unbounded \in Nat
  BY SMT DEF Unbounded

(* n is the length of the string at s. *)
IsLength(m, s, n) ==
  /\ n \in Within(Unbounded) /\ Holds(m, s, n + 1) /\ m[s + n] = 0
  /\ \A k \in Within(n) : m[s + k] # 0

(* strnlen() passes over bytes that are not zero, up to the first zero or its bound. *)
LEMMA StrnlenDef ==
  ASSUME NEW m, NEW s \in Int, NEW size \in Nat
  PROVE  /\ strnlen(m, s, size) \in 0..size
         /\ \A k \in Within(strnlen(m, s, size)) : m[s + k] # 0
         /\ strnlen(m, s, size) = size \/ m[s + strnlen(m, s, size)] = 0
<1> DEFINE go == [i \in Within(size) |-> m[s + i] # 0]
           n == Turns(size, go)
<1>1. strnlen(m, s, size) = n
  BY DEF strnlen
<1>2. n \in 0..size /\ (\A i \in 0..(n - 1) : go[i]) /\ (n = size \/ ~go[n])
  <2> HIDE DEF go
  <2> QED BY TurnsDef
<1>3. \A i \in Within(size) : go[i] <=> m[s + i] # 0
  OBVIOUS
<1> HIDE DEF go, n
<1>4. \A i \in 0..(n - 1) : i \in Within(size)
  BY <1>2 DEF Within
<1>5. n = size \/ n \in Within(size)
  BY <1>2 DEF Within
<1> QED BY <1>1, <1>2, <1>3, <1>4, <1>5 DEF Within

(* strlen() is the length of the string. *)
LEMMA StrlenIs ==
  ASSUME NEW m, NEW s, HoldsString(m, s)
  PROVE  IsLength(m, s, strlen(m, s))
<1>1. PICK e \in Within(Unbounded) : Holds(m, s, e + 1) /\ m[s + e] = 0
  BY DEF HoldsString
<1>2. s \in Int /\ Unbounded \in Nat
  BY UnboundedType DEF HoldsString
<1> DEFINE n == strlen(m, s)
<1>3. /\ n \in 0..Unbounded /\ (\A k \in Within(n) : m[s + k] # 0)
      /\ n = Unbounded \/ m[s + n] = 0
  BY <1>2, StrnlenDef DEF strlen
<1> HIDE DEF n
<1>4. n <= e
  <2> SUFFICES ASSUME e < n PROVE FALSE
    BY <1>1, <1>3 DEF Within
  <2>1. e \in Within(n)
    BY <1>1, <1>3 DEF Within
  <2> QED BY <1>1, <1>3, <2>1
<1>5. n \in Within(Unbounded) /\ n # Unbounded
  BY <1>1, <1>2, <1>3, <1>4 DEF Within
<1>6. Holds(m, s, n + 1)
  BY <1>1, <1>3, <1>4, <1>5 DEF Holds, Within
<1>7. IsLength(m, s, n)
  BY <1>3, <1>5, <1>6 DEF IsLength
<1> QED BY <1>7 DEF n

(* A string has one length. *)
LEMMA OneLength ==
  ASSUME NEW m, NEW s \in Int, NEW n, IsLength(m, s, n), NEW k \in Nat,
         \A i \in Within(k) : m[s + i] # 0
  PROVE  k <= n /\ (m[s + k] = 0 => k = n)
<1>1. n \in Nat /\ m[s + n] = 0
  BY UnboundedType DEF IsLength, Within
<1>2. k <= n
  <2> SUFFICES ASSUME n < k PROVE FALSE
    BY <1>1
  <2>1. n \in Within(k)
    BY <1>1 DEF Within
  <2> QED BY <1>1, <2>1
<1>3. ASSUME m[s + k] = 0, k < n PROVE FALSE
  <2>1. k \in Within(n)
    BY <1>1, <1>3 DEF Within
  <2> QED BY <1>3, <2>1 DEF IsLength
<1> QED BY <1>1, <1>2, <1>3

-----------------------------------------------------------------------------
(* strnlen(), strchr(), strfind() and memfind(). *)

(* strfind() stops at c or at the end of the string, whichever comes first. *)
LEMMA StrfindDef ==
  ASSUME NEW m, NEW s, HoldsString(m, s), NEW c
  PROVE  \E k \in 0..strlen(m, s) :
           /\ strfind(m, s, c) = s + k /\ (m[s + k] = 0 \/ m[s + k] = c)
           /\ \A i \in Within(k) : m[s + i] # 0 /\ m[s + i] # c
<1> DEFINE go == [i \in Within(Unbounded) |-> m[s + i] # 0 /\ m[s + i] # c]
           k == Turns(Unbounded, go)
<1>1. strfind(m, s, c) = s + k
  BY DEF strfind
<1>2. k \in 0..Unbounded /\ (\A i \in 0..(k - 1) : go[i]) /\ (k = Unbounded \/ ~go[k])
  <2> HIDE DEF go
  <2> QED BY TurnsDef, UnboundedType
<1>3. \A i \in Within(Unbounded) : go[i] <=> (m[s + i] # 0 /\ m[s + i] # c)
  OBVIOUS
<1> HIDE DEF go, k
<1>4. \A i \in Within(k) : m[s + i] # 0 /\ m[s + i] # c
  BY <1>2, <1>3, UnboundedType DEF Within
<1>5. s \in Int /\ IsLength(m, s, strlen(m, s)) /\ k \in Nat
  BY <1>2, StrlenIs, UnboundedType DEF HoldsString
<1>6. k <= strlen(m, s)
  BY <1>4, <1>5, OneLength
<1>7. strlen(m, s) \in Within(Unbounded)
  BY <1>5 DEF IsLength
<1>8. k \in 0..strlen(m, s) /\ k \in Within(Unbounded)
  BY <1>5, <1>6, <1>7, UnboundedType DEF Within
<1>9. k # Unbounded
  BY <1>8, UnboundedType DEF Within
<1>10. ~go[k]
  BY <1>2, <1>9
<1> QED BY <1>1, <1>3, <1>4, <1>8, <1>10

(* memfind() stops at c or at the end of the block. *)
LEMMA MemfindDef ==
  ASSUME NEW m, NEW s \in Int, NEW c, NEW n \in Nat
  PROVE  \E k \in 0..n :
           /\ memfind(m, s, c, n) = s + k /\ (k = n \/ m[s + k] = c % BYTE)
           /\ \A i \in Within(k) : m[s + i] # c % BYTE
<1> DEFINE go == [i \in Within(n) |-> m[s + i] # c % BYTE]
           k == Turns(n, go)
<1>1. memfind(m, s, c, n) = s + k
  BY DEF memfind
<1>2. k \in 0..n /\ (\A i \in 0..(k - 1) : go[i]) /\ (k = n \/ ~go[k])
  <2> HIDE DEF go
  <2> QED BY TurnsDef
<1>3. \A i \in Within(n) : go[i] <=> m[s + i] # c % BYTE
  OBVIOUS
<1> HIDE DEF go, k
<1>4. \A i \in Within(k) : m[s + i] # c % BYTE
  BY <1>2, <1>3 DEF Within
<1>5. k = n \/ k \in Within(n)
  BY <1>2 DEF Within
<1> QED BY <1>1, <1>2, <1>3, <1>4, <1>5

(* The first address from lo to hi at which memory holds c: there is none below it,
   and it is hi + 1 if there is none at all. *)
LEMMA FirstIs ==
  ASSUME NEW m, NEW c, NEW lo \in Int, NEW hi \in Int, NEW p \in lo..(hi + 1),
         \A a \in lo..(p - 1) : m[a] # c, p = hi + 1 \/ m[p] = c, lo <= hi + 1
  PROVE  LET S == {a \in lo..hi : m[a] = c}
         IN  (S = {} <=> p = hi + 1) /\ (S # {} => LeastOf(S) = p)
<1> DEFINE S == {a \in lo..hi : m[a] = c}
<1>1. CASE p = hi + 1
  <2>1. S = {}
    BY <1>1
  <2> QED BY <1>1, <2>1
<1>2. CASE p # hi + 1
  <2>1. p \in S /\ S \subseteq Int /\ \A b \in S : p <= b
    <3>1. p \in S /\ S \subseteq Int
      BY <1>2
    <3>2. ASSUME NEW b \in S PROVE p <= b
      <4>1. b \in lo..hi /\ m[b] = c
        OBVIOUS
      <4>2. b \notin lo..(p - 1)
        BY <4>1
      <4> QED BY <4>1, <4>2
    <3> HIDE DEF S
    <3> QED BY <3>1, <3>2
  <2>2. LeastOf(S) = p
    <3> HIDE DEF S
    <3> QED BY <2>1, LeastOfIs
  <2> HIDE DEF S
  <2>3. S # {}
    BY <2>1
  <2> QED BY <1>2, <2>2, <2>3 DEF S
<1> QED BY <1>1, <1>2

(* The four functions find what FindsFirst says. *)
LEMMA FindExact ==
  ASSUME NEW c, Memory(c.m), HoldsString(c.m, c.s), Holds(c.m, c.s, c.n), c.c \in Within(BYTE),
         NEW r, r = [len |-> strnlen(c.m, c.s, c.n), chr |-> strchr(c.m, c.s, c.c),
                     find |-> strfind(c.m, c.s, c.c), mem |-> memfind(c.m, c.s, c.c, c.n)]
  PROVE  FindsFirst(c, r)
<1> DEFINE m == c.m
           s == c.s
           b == c.c
           n == c.n
           l == strlen(m, s)
           E == {a \in DOMAIN m : a >= s /\ m[a] = 0}
<1>1. s \in Int /\ n \in Nat /\ b \in Nat /\ b < BYTE /\ BYTE \in Nat /\ b % BYTE = b
  <2>1. s \in Int /\ n \in Nat
    BY DEF Holds
  <2>2. BYTE \in Nat \ {0} /\ b \in Nat /\ b < BYTE
    BY ByteAssumption DEF Within
  <2>3. b % BYTE = b
    BY <2>2
  <2> QED BY <2>1, <2>2, <2>3
<1>2. IsLength(m, s, l)
  BY StrlenIs
<1>3. l \in Nat /\ m[s + l] = 0 /\ s + l \in DOMAIN m /\ \A k \in Within(l) : m[s + k] # 0
  <2>1. l \in Nat
    BY <1>2, UnboundedType DEF IsLength, Within
  <2>2. s..(s + (l + 1) - 1) \subseteq DOMAIN m
    BY <1>2 DEF IsLength, Holds
  <2>3. s + l \in DOMAIN m
    BY <1>1, <2>1, <2>2
  <2> QED BY <1>2, <2>1, <2>3 DEF IsLength
<1>4. DOMAIN m \subseteq Int
  BY DEF Memory
<1>5. /\ r.len = strnlen(m, s, n) /\ r.chr = strchr(m, s, b) /\ r.find = strfind(m, s, b)
      /\ r.mem = memfind(m, s, b, n)
  OBVIOUS
<1> HIDE DEF m, s, b, n, l
<1>6. LeastOf(E) = s + l
  <2>1. s + l \in E
    BY <1>1, <1>3
  <2>2. E \subseteq Int
    BY <1>4
  <2>3. ASSUME NEW a \in E PROVE s + l <= a
    <3>1. a \in Int /\ a >= s /\ m[a] = 0
      BY <1>4
    <3>2. ~(a < s + l)
      <4> SUFFICES ASSUME a < s + l PROVE FALSE
        OBVIOUS
      <4>1. a - s \in Within(l) /\ s + (a - s) = a
        BY <1>1, <1>3, <3>1 DEF Within
      <4> QED BY <1>3, <3>1, <4>1
    <3> QED BY <1>1, <1>3, <3>1, <3>2
  <2> HIDE DEF E
  <2> QED BY <2>1, <2>2, <2>3, LeastOfIs
<1>7. r.len = LeastOf({l, n})
  <2> DEFINE k == strnlen(m, s, n)
  <2>1. k \in 0..n /\ (\A i \in Within(k) : m[s + i] # 0) /\ (k = n \/ m[s + k] = 0)
    BY <1>1, StrnlenDef
  <2>2. k \in Nat
    BY <1>1, <2>1
  <2>3. k <= l /\ (m[s + k] = 0 => k = l)
    BY <1>1, <1>2, <2>1, <2>2, OneLength
  <2>4. k = IF l < n THEN l ELSE n
    BY <1>1, <1>3, <2>1, <2>3
  <2>5. LeastOf({l, n}) = IF l < n THEN l ELSE n
    BY <1>1, <1>3, LeastOfTwo
  <2> QED BY <1>5, <2>4, <2>5
<1>8. PICK f \in 0..l : /\ strfind(m, s, b) = s + f /\ (m[s + f] = 0 \/ m[s + f] = b)
                        /\ \A i \in Within(f) : m[s + i] # 0 /\ m[s + i] # b
  BY StrfindDef DEF l, m, s
<1> DEFINE S == {a \in s..((s + l) - 1) : m[a] = b}
<1>9. (S = {} <=> f = l) /\ (S # {} => LeastOf(S) = s + f)
  <2>1. f = l \/ m[s + f] = b
    BY <1>1, <1>3, <1>8 DEF Within
  <2>2. ASSUME NEW a \in s..((s + f) - 1) PROVE m[a] # b
    <3>1. a - s \in Within(f) /\ s + (a - s) = a
      BY <1>1, <1>8 DEF Within
    <3> QED BY <1>8, <3>1
  <2>3. (s + l) - 1 \in Int /\ s + f \in s..(((s + l) - 1) + 1) /\ s <= ((s + l) - 1) + 1
        /\ (s + f = ((s + l) - 1) + 1 <=> f = l)
    BY <1>1, <1>3
  <2>4. s + f = ((s + l) - 1) + 1 \/ m[s + f] = b
    BY <2>1, <2>3
  <2>5. (S = {} <=> s + f = ((s + l) - 1) + 1) /\ (S # {} => LeastOf(S) = s + f)
    BY <1>1, <2>2, <2>3, <2>4, FirstIs
  <2> HIDE DEF S
  <2> QED BY <2>3, <2>5
<1>10. r.find = IF S = {} THEN s + l ELSE LeastOf(S)
  <2> HIDE DEF S
  <2> QED BY <1>5, <1>8, <1>9
<1>11. r.chr = IF S = {} THEN NULL ELSE LeastOf(S)
  <2>1. strchr(m, s, b) = IF m[s + f] = 0 THEN NULL ELSE s + f
    BY <1>8 DEF strchr
  <2>2. m[s + f] = 0 <=> f = l
    <3>1. f # l => f \in Within(l)
      BY <1>3, <1>8 DEF Within
    <3> QED BY <1>3, <3>1
  <2> HIDE DEF S
  <2> QED BY <1>5, <1>9, <2>1, <2>2
<1>12. PICK g \in 0..n : /\ memfind(m, s, b, n) = s + g /\ (g = n \/ m[s + g] = b % BYTE)
                         /\ \A i \in Within(g) : m[s + i] # b % BYTE
  BY <1>1, MemfindDef
<1> DEFINE T == {a \in s..(s + (n - 1)) : m[a] = b}
<1>13. (T = {} <=> g = n) /\ (T # {} => LeastOf(T) = s + g)
  <2>2. ASSUME NEW a \in s..((s + g) - 1) PROVE m[a] # b
    <3>1. a - s \in Within(g) /\ s + (a - s) = a
      BY <1>1, <1>12 DEF Within
    <3> QED BY <1>1, <1>12, <3>1
  <2>3. PICK hi \in Int : hi = s + (n - 1) /\ hi + 1 = s + n
    BY <1>1
  <2>4. s + g \in s..(hi + 1) /\ s <= hi + 1 /\ (s + g = hi + 1 <=> g = n)
    BY <1>1, <1>12, <2>3
  <2>5. s + g = hi + 1 \/ m[s + g] = b
    BY <1>1, <1>12, <2>4
  <2>6. T = {a \in s..hi : m[a] = b}
    BY <2>3
  <2> HIDE DEF T
  <2> DEFINE U == {a \in s..hi : m[a] = b}
  <2>7. (U = {} <=> s + g = hi + 1) /\ (U # {} => LeastOf(U) = s + g)
    <3>1. PICK p \in s..(hi + 1) : p = s + g
      BY <2>4
    <3>2. \A a \in s..(p - 1) : m[a] # b
      BY <2>2, <3>1
    <3>3. s \in Int /\ s <= hi + 1 /\ (p = hi + 1 \/ m[p] = b)
      BY <1>1, <2>4, <2>5, <3>1
    <3>4. (U = {} <=> p = hi + 1) /\ (U # {} => LeastOf(U) = p)
      BY <3>2, <3>3, FirstIs
    <3> HIDE DEF U
    <3> QED BY <3>1, <3>4
  <2> HIDE DEF U
  <2>8. T = U
    BY <2>6 DEF U
  <2> QED BY <2>4, <2>7, <2>8
<1>14. r.mem = IF T = {} THEN s + n ELSE LeastOf(T)
  <2> HIDE DEF T
  <2> QED BY <1>5, <1>12, <1>13
<1>15. (s + l) - s = l
  BY <1>1, <1>3
<1> DEFINE A(e) == /\ r.len = LeastOf({e - s, n})
                   /\ r.find = (IF {a \in s..(e - 1) : m[a] = b} = {} THEN e
                        ELSE LeastOf({a \in s..(e - 1) : m[a] = b}))
                   /\ r.chr = (IF {a \in s..(e - 1) : m[a] = b} = {} THEN NULL
                        ELSE LeastOf({a \in s..(e - 1) : m[a] = b}))
                   /\ r.mem = (IF T = {} THEN s + n ELSE LeastOf(T))
<1>16. A(s + l)
  BY <1>7, <1>10, <1>11, <1>14, <1>15
<1>17. A(LeastOf(E))
  <2> HIDE DEF A, E
  <2> QED BY <1>6, <1>16
<1> QED BY <1>17 DEF FindsFirst, m, s, b, n

-----------------------------------------------------------------------------
(* strcmp(), strncmp() and memcmp(). *)

(* The order is decided at a byte where the two differ and before which they do not. *)
LEMMA OrderAt ==
  ASSUME NEW m, NEW p \in Int, NEW q \in Int, NEW n \in Nat, NEW k \in Within(n),
         \A i \in Within(k) : m[p + i] = m[q + i], m[p + k] # m[q + k]
  PROVE  OrderOf(m, p, q, n) = Sign(m[p + k] - m[q + k])
<1> DEFINE D == {i \in 0..(n - 1) : m[p + i] # m[q + i]}
<1>1. k \in D /\ D \subseteq Int
  BY DEF Within
<1>2. ASSUME NEW i \in D PROVE k <= i
  <2>1. i \notin Within(k)
    OBVIOUS
  <2> QED BY <2>1 DEF Within
<1>3. OrderOf(m, p, q, n) = IF D = {} THEN 0 ELSE Sign(m[p + LeastOf(D)] - m[q + LeastOf(D)])
  BY DEF OrderOf
<1> HIDE DEF D
<1>4. LeastOf(D) = k
  BY <1>1, <1>2, LeastOfIs
<1> QED BY <1>1, <1>3, <1>4

(* Blocks that do not differ have no order. *)
LEMMA OrderSame ==
  ASSUME NEW m, NEW p \in Int, NEW q \in Int, NEW n \in Nat,
         \A i \in Within(n) : m[p + i] = m[q + i]
  PROVE  OrderOf(m, p, q, n) = 0
<1>1. {i \in 0..(n - 1) : m[p + i] # m[q + i]} = {}
  BY DEF Within
<1> QED BY <1>1 DEF OrderOf

(* The sign of a number. *)
LEMMA SignZero ==
  ASSUME NEW a \in Int, NEW b, a = b
  PROVE  Sign(a - b) = 0
<1>1. a - b = 0
  OBVIOUS
<1> QED BY <1>1 DEF Sign

(* The loop of a comparison goes on while bytes are the same and, but for memcmp(),
   the strings do not end. *)
LEMMA SameDef ==
  ASSUME NEW m, NEW p \in Int, NEW q \in Int, NEW n \in Nat
  PROVE  /\ Same(m, p, q, n) \in 0..n
         /\ \A i \in Within(Same(m, p, q, n)) : m[p + i] # 0 /\ m[p + i] = m[q + i]
         /\ \/ Same(m, p, q, n) = n
            \/ m[p + Same(m, p, q, n)] = 0
            \/ m[p + Same(m, p, q, n)] # m[q + Same(m, p, q, n)]
<1> DEFINE go == [i \in Within(n) |-> m[p + i] # 0 /\ m[p + i] = m[q + i]]
           k == Turns(n, go)
<1>1. Same(m, p, q, n) = k
  BY DEF Same
<1>2. k \in 0..n /\ (\A i \in 0..(k - 1) : go[i]) /\ (k = n \/ ~go[k])
  <2> HIDE DEF go
  <2> QED BY TurnsDef
<1>3. \A i \in Within(n) : go[i] <=> (m[p + i] # 0 /\ m[p + i] = m[q + i])
  OBVIOUS
<1> HIDE DEF go, k
<1>4. \A i \in Within(k) : i \in Within(n) /\ i \in 0..(k - 1)
  BY <1>2 DEF Within
<1>5. k = n \/ k \in Within(n)
  BY <1>2 DEF Within
<1>6. \A i \in Within(k) : m[p + i] # 0 /\ m[p + i] = m[q + i]
  BY <1>2, <1>3, <1>4
<1>7. k = n \/ m[p + k] = 0 \/ m[p + k] # m[q + k]
  BY <1>2, <1>3, <1>5
<1>8. k \in 0..n
  BY <1>2
<1> HIDE DEF Same
<1> QED BY <1>1, <1>6, <1>7, <1>8

(* k bytes are the same and none of them is zero, and then the strings differ, or
   end, at the last of n bytes. *)
Decides(m, p, q, k, n) ==
  /\ k \in Nat /\ n \in Nat /\ k <= n
  /\ \A i \in Within(k) : m[p + i] # 0 /\ m[p + i] = m[q + i]
  /\ k = n \/ m[p + k] = 0 \/ m[p + k] # m[q + k]
  /\ m[p + k] = 0 => n <= k + 1
  /\ m[p + k] \in Int /\ m[q + k] \in Int

(* Where the loop of a string comparison stops is where the order is decided. *)
LEMMA StringOrder ==
  ASSUME NEW m, NEW p \in Int, NEW q \in Int, NEW k, NEW n, Decides(m, p, q, k, n)
  PROVE  /\ k < n => OrderOf(m, p, q, n) = Sign(m[p + k] - m[q + k])
         /\ k = n => OrderOf(m, p, q, n) = 0
<1> USE DEF Decides
<1>1. ASSUME k < n, m[p + k] # m[q + k]
      PROVE  OrderOf(m, p, q, n) = Sign(m[p + k] - m[q + k])
  <2>1. k \in Within(n)
    BY <1>1 DEF Within
  <2> QED BY <1>1, <2>1, OrderAt
<1>2. ASSUME k < n, m[p + k] = m[q + k]
      PROVE  OrderOf(m, p, q, n) = Sign(m[p + k] - m[q + k])
  <2>1. m[p + k] = 0
    BY <1>2
  <2>2. n <= k + 1
    BY <2>1
  <2>3. \A i \in Within(n) : i \in Within(k) \/ i = k
    BY <1>2, <2>2 DEF Within
  <2>4. \A i \in Within(n) : m[p + i] = m[q + i]
    BY <1>2, <2>3
  <2>5. OrderOf(m, p, q, n) = 0
    BY <2>4, OrderSame
  <2>6. Sign(m[p + k] - m[q + k]) = 0
    BY <1>2, SignZero
  <2> QED BY <2>5, <2>6
<1>3. ASSUME k = n PROVE OrderOf(m, p, q, n) = 0
  BY <1>3, OrderSame
<1> QED BY <1>1, <1>2, <1>3

(* memcmp() has the sign of the first difference within n bytes. *)
LEMMA MemcmpOrder ==
  ASSUME NEW m, Memory(m), NEW p, NEW q, NEW n, Holds(m, p, n), Holds(m, q, n)
  PROVE  Sign(memcmp(m, p, q, n)) = OrderOf(m, p, q, n)
<1>0. p \in Int /\ q \in Int /\ n \in Nat
  BY DEF Holds
<1> DEFINE go == [i \in Within(n) |-> m[p + i] = m[q + i]]
           k == Turns(n, go)
<1>1. memcmp(m, p, q, n) = IF k = n THEN 0 ELSE m[p + k] - m[q + k]
  BY DEF memcmp
<1>2. k \in 0..n /\ (\A i \in 0..(k - 1) : go[i]) /\ (k = n \/ ~go[k])
  <2> HIDE DEF go
  <2> QED BY <1>0, TurnsDef
<1>3. \A i \in Within(n) : go[i] <=> m[p + i] = m[q + i]
  OBVIOUS
<1> HIDE DEF go, k
<1>4. \A i \in Within(k) : m[p + i] = m[q + i]
  BY <1>0, <1>2, <1>3 DEF Within
<1>5. CASE k = n
  <2>1. OrderOf(m, p, q, n) = 0
    BY <1>0, <1>4, <1>5, OrderSame
  <2>2. Sign(0) = 0
    BY DEF Sign
  <2> QED BY <1>1, <1>5, <2>1, <2>2
<1>6. CASE k # n
  <2>1. k \in Within(n) /\ m[p + k] # m[q + k]
    BY <1>0, <1>2, <1>3, <1>6 DEF Within
  <2>2. OrderOf(m, p, q, n) = Sign(m[p + k] - m[q + k])
    BY <1>0, <1>4, <2>1, OrderAt
  <2> QED BY <1>1, <1>6, <2>2
<1> QED BY <1>5, <1>6

(* The three comparisons agree with OrderAgrees. *)
LEMMA CompareExact ==
  ASSUME NEW c, Memory(c.m), HoldsString(c.m, c.p), HoldsString(c.m, c.q),
         Holds(c.m, c.p, c.n), Holds(c.m, c.q, c.n),
         NEW r, r = [str |-> strcmp(c.m, c.p, c.q), strn |-> strncmp(c.m, c.p, c.q, c.n),
                     mem |-> memcmp(c.m, c.p, c.q, c.n)]
  PROVE  OrderAgrees(c, r)
<1> DEFINE m == c.m
           p == c.p
           q == c.q
           n == c.n
           a == strlen(m, p)
           b == strlen(m, q)
           common == IF a < b THEN a + 1 ELSE b + 1
           limit == IF n < common THEN n ELSE common
<1>0. IsLength(m, p, a) /\ IsLength(m, q, b)
  BY StrlenIs
<1>1. Memory(m) /\ p \in Int /\ q \in Int /\ n \in Nat /\ Holds(m, p, n) /\ Holds(m, q, n)
  BY DEF Holds
<1>2. r.str = strcmp(m, p, q) /\ r.strn = strncmp(m, p, q, n) /\ r.mem = memcmp(m, p, q, n)
  OBVIOUS
<1> HIDE DEF m, p, q, n, a, b
<1>3. a \in Nat /\ b \in Nat /\ a < Unbounded /\ b < Unbounded
  BY <1>0, UnboundedType DEF IsLength, Within
<1>4. common \in Nat /\ common <= a + 1 /\ common <= b + 1 /\ common <= Unbounded
  BY <1>3, UnboundedType
<1>5. \A k \in 0..(common - 1) : m[p + k] \in Int /\ m[q + k] \in Int
  <2> SUFFICES ASSUME NEW k \in 0..(common - 1) PROVE m[p + k] \in Int /\ m[q + k] \in Int
    OBVIOUS
  <2>1. p + k \in p..(p + (a + 1) - 1) /\ q + k \in q..(q + (b + 1) - 1)
    BY <1>1, <1>3, <1>4
  <2>2. p + k \in DOMAIN m /\ q + k \in DOMAIN m
    BY <1>0, <2>1 DEF IsLength, Holds
  <2> QED BY <1>1, <2>2 DEF Memory
(* The loops of strcmp() and strncmp() stop within the shorter string. *)
<1>6. ASSUME NEW s \in Nat, NEW k, k = Same(m, p, q, s)
      PROVE  /\ k \in 0..s /\ k \in 0..(common - 1)
             /\ \A i \in Within(k) : m[p + i] # 0 /\ m[p + i] = m[q + i]
             /\ k = s \/ m[p + k] = 0 \/ m[p + k] # m[q + k]
             /\ m[p + k] = 0 => k = a
  <2>1. /\ k \in 0..s
        /\ \A i \in Within(k) : m[p + i] # 0 /\ m[p + i] = m[q + i]
        /\ k = s \/ m[p + k] = 0 \/ m[p + k] # m[q + k]
    BY <1>1, <1>6, SameDef
  <2>2. k \in Nat
    BY <2>1
  <2>3. \A i \in Within(k) : m[p + i] # 0 /\ m[q + i] # 0
    BY <2>1
  <2>4. k <= a /\ (m[p + k] = 0 => k = a)
    BY <1>0, <1>1, <2>2, <2>3, OneLength
  <2>5. k <= b
    BY <1>0, <1>1, <2>2, <2>3, OneLength
  <2>6. k \in 0..(common - 1)
    BY <1>3, <2>2, <2>4, <2>5
  <2> QED BY <2>1, <2>4, <2>6
<1>7. Sign(r.str) = OrderOf(m, p, q, common)
  <2>1. PICK k : k = Same(m, p, q, Unbounded)
    OBVIOUS
  <2>2. /\ k \in 0..Unbounded /\ k \in 0..(common - 1)
        /\ \A i \in Within(k) : m[p + i] # 0 /\ m[p + i] = m[q + i]
        /\ k = Unbounded \/ m[p + k] = 0 \/ m[p + k] # m[q + k]
        /\ m[p + k] = 0 => k = a
    BY <1>6, <2>1, UnboundedType
  <2>3. k \in Nat /\ k < common /\ k <= common
    BY <1>4, <2>2
  <2>4. k # Unbounded
    BY <1>4, <2>3, UnboundedType
  <2>5. m[p + k] \in Int /\ m[q + k] \in Int
    BY <1>5, <2>2
  <2>6. k = common \/ m[p + k] = 0 \/ m[p + k] # m[q + k]
    BY <2>2, <2>4
  <2> HIDE DEF common
  <2>7. OrderOf(m, p, q, common) = Sign(m[p + k] - m[q + k])
    <3>1. p \in Int /\ q \in Int /\ common \in Nat
      BY <1>1, <1>4
    <3>2. m[p + k] = 0 => common <= k + 1
      BY <1>3, <1>4, <2>2, <2>3
    <3>3. \A i \in Within(k) : m[p + i] # 0 /\ m[p + i] = m[q + i]
      BY <2>2
    <3>4. Decides(m, p, q, k, common)
      BY <3>1, <3>2, <3>3, <2>3, <2>5, <2>6 DEF Decides
    <3> QED BY <3>1, <3>4, <2>3, StringOrder
  <2>8. r.str = m[p + k] - m[q + k]
    BY <1>2, <2>1 DEF strcmp
  <2> QED BY <2>7, <2>8
<1>8. Sign(r.strn) = OrderOf(m, p, q, limit)
  <2>1. PICK k : k = Same(m, p, q, n)
    OBVIOUS
  <2>2. /\ k \in 0..n /\ k \in 0..(common - 1)
        /\ \A i \in Within(k) : m[p + i] # 0 /\ m[p + i] = m[q + i]
        /\ k = n \/ m[p + k] = 0 \/ m[p + k] # m[q + k]
        /\ m[p + k] = 0 => k = a
    BY <1>1, <1>6, <2>1
  <2> HIDE DEF common
  <2>3. /\ k \in Nat /\ k <= limit /\ limit \in Nat /\ limit <= a + 1 /\ limit <= b + 1
        /\ (k = n <=> k = limit)
    BY <1>1, <1>3, <1>4, <2>2
  <2>5. m[p + k] \in Int /\ m[q + k] \in Int
    BY <1>5, <2>2
  <2>6. k = limit \/ m[p + k] = 0 \/ m[p + k] # m[q + k]
    BY <2>2, <2>3
  <2> HIDE DEF limit
  <2>7. /\ k < limit => OrderOf(m, p, q, limit) = Sign(m[p + k] - m[q + k])
        /\ k = limit => OrderOf(m, p, q, limit) = 0
    <3>1. p \in Int /\ q \in Int
      BY <1>1
    <3>2. m[p + k] = 0 => limit <= k + 1
      BY <1>3, <2>2, <2>3
    <3>3. \A i \in Within(k) : m[p + i] # 0 /\ m[p + i] = m[q + i]
      BY <2>2
    <3>4. Decides(m, p, q, k, limit)
      BY <3>2, <3>3, <2>3, <2>5, <2>6 DEF Decides
    <3> QED BY <3>1, <3>4, StringOrder, ZenonT(60)
  <2>8. r.strn = IF k = n THEN 0 ELSE m[p + k] - m[q + k]
    BY <1>2, <2>1 DEF strncmp
  <2>9. Sign(0) = 0
    BY DEF Sign
  <2> QED BY <2>3, <2>7, <2>8, <2>9
<1>9. Sign(r.mem) = OrderOf(m, p, q, n)
  BY <1>1, <1>2, MemcmpOrder
<1>10. LeastOf({a, b}) + 1 = common /\ LeastOf({n, common}) = limit
  <2>1. LeastOf({a, b}) = IF a < b THEN a ELSE b
    BY <1>3, LeastOfTwo
  <2>2. LeastOf({n, common}) = limit
    <3> HIDE DEF common
    <3> QED BY <1>1, <1>4, LeastOfTwo
  <2> QED BY <2>1, <2>2
<1> HIDE DEF common, limit
<1> DEFINE A(e) == /\ Sign(r.mem) = OrderOf(m, p, q, n)
                   /\ Sign(r.str) = OrderOf(m, p, q, e)
                   /\ Sign(r.strn) = OrderOf(m, p, q, LeastOf({n, e}))
<1>11. A(LeastOf({a, b}) + 1)
  BY <1>7, <1>8, <1>9, <1>10
<1> QED BY <1>11 DEF OrderAgrees, m, p, q, n, a, b

-----------------------------------------------------------------------------
(* strcpy(), strcat(), strncpy() and strlcpy(). *)

(* The first k bytes of a string of n, and zeros behind its end, at d. *)
StringAt(m, d, s, n, k) ==
  [a \in DOMAIN m |-> IF a \in d..(d + k - 1) THEN (IF a - d < n THEN m[s + (a - d)] ELSE 0) ELSE m[a]]

(* Where the loop reads that has made k turns. *)
ReadsAt(s, n, k) == IF k < n THEN s + k ELSE s + n

(* The source is no place that count bytes at d overwrite. *)
Apart(d, count, s, n) == \A i \in 0..n : s + i \notin d..(d + count - 1)

(* Memory with a string written to it is memory. *)
LEMMA WrittenMemory ==
  ASSUME NEW m, Memory(m), NEW d \in Int, NEW s \in Int, NEW n, IsLength(m, s, n), NEW k \in Nat
  PROVE  StringAt(m, d, s, n, k) \in [DOMAIN m -> Int]
<1>1. n \in Nat
  BY UnboundedType DEF IsLength, Within
<1>2. ASSUME NEW a \in DOMAIN m PROVE StringAt(m, d, s, n, k)[a] \in Int
  <2>1. a \in Int /\ m[a] \in Int
    BY DEF Memory
  <2>2. a \in d..(d + k - 1) /\ a - d < n => s + (a - d) \in s..(s + (n + 1) - 1)
    BY <1>1, <2>1
  <2>3. a \in d..(d + k - 1) /\ a - d < n => s + (a - d) \in DOMAIN m
    BY <2>2 DEF IsLength, Holds
  <2>4. a \in d..(d + k - 1) /\ a - d < n => m[s + (a - d)] \in Int
    BY <2>3 DEF Memory
  <2> QED BY <2>1, <2>4 DEF StringAt
<1> QED BY <1>2 DEF StringAt

(* The loop of strncpy() after k turns, if it has not overwritten its source. *)
LEMMA CopyingAt ==
  ASSUME NEW m, Memory(m), NEW d \in Int, NEW s \in Int, NEW n, IsLength(m, s, n),
         NEW count \in Nat, Apart(d, count, s, n)
  PROVE  \A k \in 0..count :
           Copying(m, d, s)[k] = [mem |-> StringAt(m, d, s, n, k), dst |-> d + k,
             src |-> ReadsAt(s, n, k)]
<1> DEFINE States == [mem : [DOMAIN m -> Int], dst : Int, src : Int]
           F == [b \in States |->
                   [mem |-> [b.mem EXCEPT ![b.dst] = b.mem[b.src]], dst |-> b.dst + 1,
                    src |-> IF b.mem[b.src] = 0 THEN b.src ELSE b.src + 1]]
           I == Iterated(F, [mem |-> m, dst |-> d, src |-> s])
           At(k) == [mem |-> StringAt(m, d, s, n, k), dst |-> d + k, src |-> ReadsAt(s, n, k)]
           S == {k \in Nat : k <= count => I[k] = At(k)}
<1>1. Copying(m, d, s) = I
  BY DEF Copying
<1>2. I[0] = [mem |-> m, dst |-> d, src |-> s] /\ \A k \in Nat : I[k + 1] = F[I[k]]
  <2> HIDE DEF F
  <2> QED BY IteratedDef
<1>3. n \in Nat /\ m[s + n] = 0 /\ (\A k \in Within(n) : m[s + k] # 0) /\ DOMAIN m \subseteq Int
  BY UnboundedType DEF IsLength, Within, Memory
<1>4. 0 \in S
  <2>1. StringAt(m, d, s, n, 0) = m
    BY DEF StringAt, Memory
  <2>2. ReadsAt(s, n, 0) = s /\ d + 0 = d
    BY <1>3 DEF ReadsAt
  <2> HIDE DEF F
  <2> QED BY <1>2, <2>1, <2>2
<1>5. ASSUME NEW k \in Nat, k \in S PROVE k + 1 \in S
  <2> SUFFICES ASSUME k + 1 <= count PROVE I[k + 1] = At(k + 1)
    OBVIOUS
  <2> DEFINE part == StringAt(m, d, s, n, k)
             at == ReadsAt(s, n, k)
  <2>1. part \in [DOMAIN m -> Int]
    BY WrittenMemory
  <2>2. at \in Int /\ \E i \in 0..n : at = s + i /\ i = (IF k < n THEN k ELSE n)
    BY <1>3 DEF ReadsAt
  <2>3. PICK i \in 0..n : at = s + i /\ i = (IF k < n THEN k ELSE n)
    BY <2>2
  <2>4. at \in DOMAIN m
    <3>1. at \in s..(s + (n + 1) - 1)
      BY <1>3, <2>3
    <3> QED BY <3>1 DEF IsLength, Holds
  <2>5. part[at] = m[at]
    <3>1. at \notin d..(d + count - 1)
      BY <2>3 DEF Apart
    <3>2. at \notin d..(d + k - 1)
      BY <2>2, <3>1
    <3> QED BY <2>4, <3>2 DEF StringAt
  <2>6. m[at] = (IF k < n THEN m[s + k] ELSE 0) /\ (m[at] = 0 <=> ~(k < n))
    <3>1. k < n => k \in Within(n)
      BY <1>3 DEF Within
    <3> QED BY <1>3, <2>3, <3>1
  <2>7. At(k) \in States
    BY <2>1, <2>2
  <2>8. I[k + 1] = F[At(k)]
    <3>1. I[k] = At(k)
      BY <1>5
    <3> HIDE DEF I, At, F
    <3> QED BY <1>2, <3>1
  <2>9. F[At(k)] = [mem |-> [part EXCEPT ![d + k] = part[at]], dst |-> (d + k) + 1,
                    src |-> IF part[at] = 0 THEN at ELSE at + 1]
    <3>1. At(k).mem = part /\ At(k).dst = d + k /\ At(k).src = at
      OBVIOUS
    <3> HIDE DEF At, part, at
    <3> QED BY <2>7, <3>1
  <2>10. [part EXCEPT ![d + k] = part[at]] = StringAt(m, d, s, n, k + 1)
    <3>1. ASSUME NEW a \in DOMAIN m
          PROVE  [part EXCEPT ![d + k] = part[at]][a] = StringAt(m, d, s, n, k + 1)[a]
      <4>1. a \in Int
        BY <1>3
      <4>2. CASE a = d + k
        <5>1. a \in d..(d + (k + 1) - 1) /\ a - d = k
          BY <4>1, <4>2
        <5>2. StringAt(m, d, s, n, k + 1)[a] = IF k < n THEN m[s + k] ELSE 0
          BY <5>1 DEF StringAt
        <5>3. [part EXCEPT ![d + k] = part[at]][a] = part[at]
          <6> HIDE DEF at, part
          <6> QED BY <2>1, <4>2
        <5> QED BY <2>5, <2>6, <5>2, <5>3
      <4>3. CASE a # d + k
        <5>1. a \in d..(d + k - 1) <=> a \in d..(d + (k + 1) - 1)
          BY <4>1, <4>3
        <5>2. [part EXCEPT ![d + k] = part[at]][a] = part[a]
          <6> HIDE DEF at, part
          <6> QED BY <2>1, <4>3
        <5> QED BY <5>1, <5>2 DEF StringAt
      <4> QED BY <4>2, <4>3
    <3>2. DOMAIN [part EXCEPT ![d + k] = part[at]] = DOMAIN m
      <4> HIDE DEF at, part
      <4> QED BY <2>1
    <3> DEFINE e == [part EXCEPT ![d + k] = part[at]]
    <3>3. e = [a \in DOMAIN e |-> e[a]]
      <4> HIDE DEF part, at
      <4> QED BY <2>1
    <3>4. StringAt(m, d, s, n, k + 1) = [a \in DOMAIN m |-> StringAt(m, d, s, n, k + 1)[a]]
      BY DEF StringAt
    <3>5. \A a \in DOMAIN m : e[a] = StringAt(m, d, s, n, k + 1)[a]
      BY <3>1
    <3> HIDE DEF e
    <3>6. DOMAIN e = DOMAIN m
      BY <3>2 DEF e
    <3>7. e = StringAt(m, d, s, n, k + 1)
      BY <3>3, <3>4, <3>5, <3>6
    <3> QED BY <3>7 DEF e
  <2>11. (IF part[at] = 0 THEN at ELSE at + 1) = ReadsAt(s, n, k + 1) /\ (d + k) + 1 = d + (k + 1)
    BY <1>3, <2>3, <2>5, <2>6 DEF ReadsAt
  <2> HIDE DEF I, F, part, at
  <2> QED BY <2>8, <2>9, <2>10, <2>11
<1> HIDE DEF S
<1>6. \A k \in Nat : k \in S
  BY <1>4, <1>5, AllNumbers
<1>7. \A k \in 0..count : I[k] = At(k)
  BY <1>6 DEF S
<1> HIDE DEF I
<1> QED BY <1>1, <1>7

(* The loops of strcpy() and strlcpy() stop at the end of the string or of the room. *)
LEMMA CopiedIs ==
  ASSUME NEW m, Memory(m), NEW d \in Int, NEW s \in Int, NEW n, IsLength(m, s, n),
         NEW size \in Nat, NEW count \in Nat, Apart(d, count, s, n), n <= count \/ size <= count
  PROVE  Copied(m, d, s, size) = IF n < size THEN n ELSE size
<1> DEFINE at == Copying(m, d, s)
           go == [i \in Within(size) |-> at[i].mem[at[i].src] # 0]
           k == Turns(size, go)
           limit == IF n < size THEN n ELSE size
<1>1. Copied(m, d, s, size) = k
  BY DEF Copied
<1>2. k \in 0..size /\ (\A i \in 0..(k - 1) : go[i]) /\ (k = size \/ ~go[k])
  <2> HIDE DEF go
  <2> QED BY TurnsDef
<1>3. /\ n \in Nat /\ m[s + n] = 0 /\ (\A i \in Within(n) : m[s + i] # 0)
      /\ limit \in Nat /\ limit <= count
      /\ limit <= n /\ limit <= size
  BY UnboundedType DEF IsLength, Within
<1>4. ASSUME NEW i \in 0..limit PROVE at[i].mem[at[i].src] = m[s + i]
  <2>1. at[i] = [mem |-> StringAt(m, d, s, n, i), dst |-> d + i, src |-> ReadsAt(s, n, i)]
    <3>1. i \in 0..count
      BY <1>3
    <3> HIDE DEF at
    <3> QED BY <3>1, CopyingAt DEF at
  <2>2. ReadsAt(s, n, i) = s + i
    BY <1>3 DEF ReadsAt
  <2>3. s + i \in DOMAIN m
    <3>1. s + i \in s..(s + (n + 1) - 1)
      BY <1>3
    <3> QED BY <3>1 DEF IsLength, Holds
  <2>4. s + i \notin d..(d + i - 1)
    <3>1. i \in 0..n /\ i <= count
      BY <1>3
    <3>2. s + i \notin d..(d + count - 1)
      BY <3>1 DEF Apart
    <3> QED BY <3>1, <3>2
  <2>5. StringAt(m, d, s, n, i)[s + i] = m[s + i]
    BY <2>3, <2>4 DEF StringAt
  <2> HIDE DEF at
  <2> QED BY <2>1, <2>2, <2>5
<1>5. \A i \in Within(size) : go[i] <=> at[i].mem[at[i].src] # 0
  OBVIOUS
<1> HIDE DEF go, k, at
<1>6. k <= limit
  <2> SUFFICES ASSUME limit < k PROVE FALSE
    BY <1>2, <1>3
  <2>1. limit < size /\ limit = n /\ limit \in 0..(k - 1) /\ limit \in Within(size)
    BY <1>2, <1>3 DEF Within
  <2>2. at[limit].mem[at[limit].src] # 0
    BY <1>2, <1>5, <2>1
  <2>3. limit \in 0..limit
    BY <1>3
  <2>4. at[limit].mem[at[limit].src] = m[s + limit]
    <3> HIDE DEF limit
    <3> QED BY <1>4, <2>3
  <2> QED BY <1>3, <2>1, <2>2, <2>4
<1>7. ~(k < limit)
  <2> SUFFICES ASSUME k < limit PROVE FALSE
    OBVIOUS
  <2>1. k \in Within(size) /\ k \in Within(n) /\ k # size /\ k \in 0..limit
    BY <1>2, <1>3 DEF Within
  <2>2. at[k].mem[at[k].src] = m[s + k]
    <3> HIDE DEF limit
    <3> QED BY <1>4, <2>1
  <2> HIDE DEF limit
  <2> QED BY <1>2, <1>3, <1>5, <2>1, <2>2
<1> QED BY <1>1, <1>2, <1>3, <1>6, <1>7

(* strcpy() writes the string with its end. *)
LEMMA StrcpyIs ==
  ASSUME NEW m, Memory(m), NEW d \in Int, NEW s \in Int, NEW n, IsLength(m, s, n), Apart(d, n + 1, s, n)
  PROVE  strcpy(m, d, s) = StringAt(m, d, s, n, n + 1)
<1>1. n \in Nat /\ n < Unbounded /\ Unbounded \in Nat /\ n + 1 \in Nat /\ n <= n + 1
  BY UnboundedType DEF IsLength, Within
<1>2. Copied(m, d, s, Unbounded) = n
  <2>1. Copied(m, d, s, Unbounded) = IF n < Unbounded THEN n ELSE Unbounded
    BY <1>1, CopiedIs
  <2> QED BY <1>1, <2>1
<1>3. n + 1 \in 0..(n + 1)
  BY <1>1
<1>4. Copying(m, d, s)[n + 1]
        = [mem |-> StringAt(m, d, s, n, n + 1), dst |-> d + (n + 1), src |-> ReadsAt(s, n, n + 1)]
  BY <1>1, <1>3, CopyingAt
<1> QED BY <1>2, <1>4 DEF strcpy

(* strncpy() writes size bytes: the string, cut or filled up with zeros. *)
LEMMA StrncpyIs ==
  ASSUME NEW m, Memory(m), NEW d \in Int, NEW s \in Int, NEW n, IsLength(m, s, n),
         NEW size \in Nat, Apart(d, size, s, n)
  PROVE  strncpy(m, d, s, size) = StringAt(m, d, s, n, size)
<1>1. size \in 0..size
  OBVIOUS
<1>2. Copying(m, d, s)[size]
        = [mem |-> StringAt(m, d, s, n, size), dst |-> d + size, src |-> ReadsAt(s, n, size)]
  BY <1>1, CopyingAt
<1> QED BY <1>2 DEF strncpy

(* What strlcpy() leaves: fits bytes of the string, and the end behind them if there is
   any room at all. *)
Truncated(m, d, s, fits, size) ==
  [a \in DOMAIN m |-> IF a \in d..(d + fits - 1) THEN m[s + a - d]
                      ELSE IF a = d + fits /\ size > 0 THEN 0 ELSE m[a]]

(* strlcpy() writes what fits, with an end, and says where that is. *)
LEMMA StrlcpyIs ==
  ASSUME NEW m, Memory(m), NEW d \in Int, NEW s \in Int, NEW n, IsLength(m, s, n),
         NEW size \in Nat, Apart(d, size, s, n),
         NEW fits, fits = IF n < size THEN n ELSE IF size - 1 < 0 THEN 0 ELSE size - 1
  PROVE  strlcpy(m, d, s, size) = [mem |-> Truncated(m, d, s, fits, size), end |-> d + fits]
<1>1. n \in Nat /\ fits \in Nat /\ DOMAIN m \subseteq Int
  BY UnboundedType DEF IsLength, Within, Memory
<1>2. CASE size = 0
  <2>1. fits = 0
    BY <1>1, <1>2
  <2>2. Truncated(m, d, s, fits, size) = m
    BY <1>2, <2>1 DEF Truncated, Memory
  <2>3. strlcpy(m, d, s, size) = [mem |-> m, end |-> d]
    BY <1>2 DEF strlcpy
  <2> QED BY <2>1, <2>2, <2>3
<1>3. CASE size # 0
  <2>1. size - 1 \in Nat /\ size - 1 <= size /\ fits \in 0..size /\ fits <= n /\ fits < size
        /\ fits = (IF n < size - 1 THEN n ELSE size - 1)
    BY <1>1, <1>3
  <2>2. Copied(m, d, s, size - 1) = fits
    <3>1. PICK z \in Nat : z = size - 1 /\ z <= size
      BY <2>1
    <3>2. Copied(m, d, s, z) = IF n < z THEN n ELSE z
      BY <3>1, CopiedIs
    <3> QED BY <2>1, <3>1, <3>2
  <2>3. Copying(m, d, s)[fits]
          = [mem |-> StringAt(m, d, s, n, fits), dst |-> d + fits, src |-> ReadsAt(s, n, fits)]
    <3>1. \A k \in 0..size : Copying(m, d, s)[k]
            = [mem |-> StringAt(m, d, s, n, k), dst |-> d + k, src |-> ReadsAt(s, n, k)]
      BY CopyingAt
    <3>2. PICK z \in 0..size : z = fits
      BY <2>1
    <3>3. Copying(m, d, s)[z] = [mem |-> StringAt(m, d, s, n, z), dst |-> d + z,
            src |-> ReadsAt(s, n, z)]
      BY <3>1
    <3> QED BY <3>2, <3>3
  <2> DEFINE w == StringAt(m, d, s, n, fits)
  <2>4. strlcpy(m, d, s, size) = [mem |-> [w EXCEPT ![d + fits] = 0], end |-> d + fits]
    BY <1>3, <2>2, <2>3 DEF strlcpy
  <2>5. w \in [DOMAIN m -> Int]
    BY <1>1, WrittenMemory
  <2>6. ASSUME NEW a \in DOMAIN m
        PROVE  [w EXCEPT ![d + fits] = 0][a] = Truncated(m, d, s, fits, size)[a]
    <3>0. a \in Int
      BY <1>1
    <3>1. [w EXCEPT ![d + fits] = 0][a] = IF a = d + fits THEN 0 ELSE w[a]
      <4> HIDE DEF w
      <4> QED BY <2>5
    <3>2. a \in d..(d + fits - 1) => w[a] = m[s + a - d]
      <4>1. a \in d..(d + fits - 1) => a - d < n /\ s + (a - d) = s + a - d
        BY <1>1, <2>1, <3>0
      <4> QED BY <4>1 DEF StringAt
    <3>3. a \notin d..(d + fits - 1) => w[a] = m[a]
      BY DEF StringAt
    <3>4. a = d + fits => a \notin d..(d + fits - 1)
      BY <1>1
    <3> HIDE DEF w
    <3> QED BY <1>3, <3>1, <3>2, <3>3, <3>4 DEF Truncated
  <2>7. [w EXCEPT ![d + fits] = 0] = Truncated(m, d, s, fits, size)
    <3> DEFINE e == [w EXCEPT ![d + fits] = 0]
    <3>1. e = [a \in DOMAIN m |-> e[a]]
      <4> HIDE DEF w
      <4> QED BY <2>5
    <3>2. Truncated(m, d, s, fits, size) = [a \in DOMAIN m |-> Truncated(m, d, s, fits, size)[a]]
      BY DEF Truncated
    <3>3. \A a \in DOMAIN m : e[a] = Truncated(m, d, s, fits, size)[a]
      BY <2>6
    <3> HIDE DEF e
    <3>4. e = Truncated(m, d, s, fits, size)
      BY <3>1, <3>2, <3>3
    <3> QED BY <3>4 DEF e
  <2> QED BY <2>4, <2>7
<1> QED BY <1>2, <1>3

(* The four copies leave what CopiesBounded says. *)
LEMMA CopyExact ==
  ASSUME NEW c, Memory(c.m), CopyLegal(c.m, c.dst, c.src, c.n),
         NEW r, r = [lcpy |-> strlcpy(c.m, c.dst, c.src, c.n), ncpy |-> strncpy(c.m, c.dst, c.src, c.n),
                     cpy |-> strcpy(c.m, c.dst, c.src), cat |-> strcat(c.m, c.dst, c.src)]
  PROVE  CopiesBounded(c, r)
<1> DEFINE m == c.m
           d == c.dst
           s == c.src
           size == c.n
           n == strlen(m, s)
           old == strlen(m, d)
           fits == IF n < size THEN n ELSE Max2(size - 1, 0)
<1>1. /\ r.lcpy = strlcpy(m, d, s, size) /\ r.ncpy = strncpy(m, d, s, size)
      /\ r.cpy = strcpy(m, d, s) /\ r.cat = strcat(m, d, s)
  OBVIOUS
<1>2. /\ HoldsString(m, s) /\ HoldsString(m, d) /\ Holds(m, d, size)
      /\ \A k \in 0..n : s + k \notin d..(d + size - 1) /\ s + k \notin d..(d + (old + n + 1) - 1)
  BY DEF CopyLegal
<1>3. Memory(m) /\ d \in Int /\ s \in Int /\ size \in Nat
  BY <1>2 DEF HoldsString, Holds
<1> HIDE DEF m, d, s, size
<1>4. IsLength(m, s, n) /\ IsLength(m, d, old)
  BY <1>2, StrlenIs
<1> HIDE DEF n, old
<1>5. n \in Nat /\ old \in Nat
  BY <1>4, UnboundedType DEF IsLength, Within
<1>6. Apart(d, size, s, n)
  BY <1>2 DEF Apart
<1>7. Apart(d, n + 1, s, n)
  <2> SUFFICES ASSUME NEW i \in 0..n PROVE s + i \notin d..(d + (n + 1) - 1)
    BY DEF Apart
  <2>1. s + i \notin d..(d + (old + n + 1) - 1) /\ s + i \in Int
    BY <1>2, <1>3
  <2> QED BY <1>3, <1>5, <2>1
<1>8. Apart(d + old, n + 1, s, n)
  <2> SUFFICES ASSUME NEW i \in 0..n PROVE s + i \notin (d + old)..((d + old) + (n + 1) - 1)
    BY DEF Apart
  <2>1. s + i \notin d..(d + (old + n + 1) - 1) /\ s + i \in Int
    BY <1>2, <1>3
  <2> QED BY <1>3, <1>5, <2>1
<1>9. r.ncpy = StringAt(m, d, s, n, size)
  BY <1>1, <1>3, <1>4, <1>6, StrncpyIs
<1>10. r.cpy = StringAt(m, d, s, n, n + 1)
  BY <1>1, <1>3, <1>4, <1>7, StrcpyIs
<1>11. r.cat = StringAt(m, d + old, s, n, n + 1)
  <2>1. d + old \in Int
    BY <1>3, <1>5
  <2>2. strcpy(m, d + old, s) = StringAt(m, d + old, s, n, n + 1)
    BY <1>3, <1>4, <1>8, <2>1, StrcpyIs
  <2>3. strcat(m, d, s) = strcpy(m, d + old, s)
    BY DEF strcat, old
  <2> QED BY <1>1, <2>2, <2>3
<1>12. r.lcpy = [mem |-> Truncated(m, d, s, fits, size), end |-> d + fits]
  <2>1. fits = IF n < size THEN n ELSE IF size - 1 < 0 THEN 0 ELSE size - 1
    BY DEF Max2
  <2> HIDE DEF fits
  <2> QED BY <1>1, <1>3, <1>4, <1>6, <2>1, StrlcpyIs
<1> HIDE DEF fits
<1>13. r.lcpy.end = d + fits /\ r.lcpy.mem = Truncated(m, d, s, fits, size)
  BY <1>12
<1> DEFINE Is(x, dst, k) == x = [a \in DOMAIN m |-> IF a \in dst..(dst + k - 1)
                                   THEN (IF a - dst < n THEN m[s + (a - dst)] ELSE 0) ELSE m[a]]
<1>14. Is(r.ncpy, d, size) /\ Is(r.cpy, d, n + 1) /\ Is(r.cat, d + old, n + 1)
  BY <1>9, <1>10, <1>11 DEF StringAt
<1>15. r.lcpy.mem = [a \in DOMAIN m |-> IF a \in d..(d + fits - 1) THEN m[s + a - d]
                                        ELSE IF a = d + fits /\ size > 0 THEN 0 ELSE m[a]]
  BY <1>13 DEF Truncated
<1> QED BY <1>13, <1>14, <1>15 DEF CopiesBounded, m, d, s, size, n, old, fits

-----------------------------------------------------------------------------
(* The functions of string.c together. *)

(* What the result is once the call has returned. *)
Returned ==
  /\ call \in Calls
  /\ done \in BOOLEAN
  /\ done => result = Do(call)

(* The inductive invariant: once a call has returned, its result is what the
   function makes of it. *)
LEMMA ReturnedInvariant == Spec => []Returned
<1>1. Init => Returned
  BY DEF Init, Returned
<1>2. Returned /\ [Return]_<<call, done, result>> => Returned'
  <2> SUFFICES ASSUME Returned, [Return]_<<call, done, result>> PROVE Returned'
    OBVIOUS
  <2>1. CASE Return
    BY <2>1 DEF Return, Returned
  <2>2. CASE UNCHANGED <<call, done, result>>
    BY <2>2 DEF Returned
  <2> QED BY <2>1, <2>2
<1> QED BY <1>1, <1>2, PTL DEF Spec

(* With it, each function of string.c has kept its promise. *)
LEMMA StringsExact ==
  ASSUME Returned
  PROVE  StringLibExact
<1> SUFFICES ASSUME done PROVE StringLibExact
  BY DEF StringLibExact, Did
<1> DEFINE c == call
<1>1. Legal(c) /\ result = Do(c)
  BY CallsAssumption DEF Returned
<1>2. ASSUME c.op = "memmove" PROVE MovesExact(c, result)
  <2>1. Memory(c.m) /\ Holds(c.m, c.dst, c.n) /\ Holds(c.m, c.src, c.n)
    BY <1>1, <1>2 DEF Legal
  <2>2. result = memmove(c.m, c.dst, c.src, c.n)
    BY <1>1, <1>2 DEF Do, memcpy
  <2> QED BY <2>1, <2>2, MemmoveExact DEF Holds, Moved, MovesExact
<1>3. ASSUME c.op = "memset" PROVE FillsExact(c, result)
  <2>1. Memory(c.m) /\ Holds(c.m, c.dst, c.n) /\ c.c \in Int
    BY <1>1, <1>3 DEF Legal
  <2>2. result = memset(c.m, c.dst, c.c, c.n)
    BY <1>1, <1>3 DEF Do
  <2> QED BY <2>1, <2>2, MemsetExact DEF Holds, Filled, FillsExact
<1>4. ASSUME c.op = "copy" PROVE CopiesBounded(c, result)
  <2>1. Memory(c.m) /\ CopyLegal(c.m, c.dst, c.src, c.n)
    BY <1>1, <1>4 DEF Legal
  <2>2. result = [lcpy |-> strlcpy(c.m, c.dst, c.src, c.n), ncpy |-> strncpy(c.m, c.dst, c.src, c.n),
                  cpy |-> strcpy(c.m, c.dst, c.src), cat |-> strcat(c.m, c.dst, c.src)]
    BY <1>1, <1>4 DEF Do
  <2> QED BY <2>1, <2>2, CopyExact
<1>5. ASSUME c.op = "compare" PROVE OrderAgrees(c, result)
  <2>1. /\ Memory(c.m) /\ HoldsString(c.m, c.p) /\ HoldsString(c.m, c.q)
        /\ Holds(c.m, c.p, c.n) /\ Holds(c.m, c.q, c.n)
    BY <1>1, <1>5 DEF Legal
  <2>2. result = [str |-> strcmp(c.m, c.p, c.q), strn |-> strncmp(c.m, c.p, c.q, c.n),
                  mem |-> memcmp(c.m, c.p, c.q, c.n)]
    BY <1>1, <1>5 DEF Do
  <2> QED BY <2>1, <2>2, CompareExact
<1>6. ASSUME c.op = "find" PROVE FindsFirst(c, result)
  <2>1. Memory(c.m) /\ HoldsString(c.m, c.s) /\ Holds(c.m, c.s, c.n) /\ c.c \in Within(BYTE)
    BY <1>1, <1>6 DEF Legal
  <2>2. result = [len |-> strnlen(c.m, c.s, c.n), chr |-> strchr(c.m, c.s, c.c),
                  find |-> strfind(c.m, c.s, c.c), mem |-> memfind(c.m, c.s, c.c, c.n)]
    BY <1>1, <1>6 DEF Do
  <2> QED BY <2>1, <2>2, FindExact
<1> QED BY <1>2, <1>3, <1>4, <1>5, <1>6 DEF StringLibExact, Did

(* The functions of string.c agree with definitions without loops, whatever memory
   holds, wherever source and destination are and however long a block or a string
   is: the word-wise moves and fills, the copies with and without a bound, the
   comparisons and the searches. *)
THEOREM StringLibCorrect == Spec => []StringLibExact
BY ReturnedInvariant, StringsExact, PTL

-----------------------------------------------------------------------------
(* Powers of two, signed numbers of so many bits, and digits. *)

(* A loop makes so many turns if it goes on before each of them and not after. *)
LEMMA TurnsIs ==
  ASSUME NEW n \in Nat, NEW go, NEW t \in 0..n, \A i \in 0..(t - 1) : go[i], t = n \/ ~go[t]
  PROVE  Turns(n, go) = t
<1> DEFINE k == Turns(n, go)
<1>1. k \in 0..n /\ (\A i \in 0..(k - 1) : go[i]) /\ (k = n \/ ~go[k])
  BY TurnsDef
<1> HIDE DEF k
<1>2. ~(k < t)
  <2> SUFFICES ASSUME k < t PROVE FALSE
    OBVIOUS
  <2>1. k \in 0..(t - 1) /\ k # n
    BY <1>1
  <2> QED BY <1>1, <2>1
<1>3. ~(t < k)
  <2> SUFFICES ASSUME t < k PROVE FALSE
    OBVIOUS
  <2>1. t \in 0..(k - 1) /\ t # n
    BY <1>1
  <2> QED BY <1>1, <2>1
<1> QED BY <1>1, <1>2, <1>3 DEF k

(* The powers of two, by the number of a set's subsets. *)
LEMMA PowersOfTwo ==
  ASSUME NEW n \in Nat
  PROVE  2^n \in Nat \ {0} /\ 2^(n + 1) = 2 * 2^n
<1> DEFINE S == 1..n
           T == 1..(n + 1)
           f == [A \in SUBSET S |-> A \union {n + 1}]
           More == {A \in SUBSET T : n + 1 \in A}
<1>1. IsFiniteSet(S) /\ Cardinality(S) = n /\ IsFiniteSet(T) /\ Cardinality(T) = n + 1
  BY FS_Interval
<1>2. /\ IsFiniteSet(SUBSET S) /\ Cardinality(SUBSET S) = 2^n
      /\ IsFiniteSet(SUBSET T) /\ Cardinality(SUBSET T) = 2^(n + 1)
  <2> HIDE DEF S, T
  <2> QED BY <1>1, FS_SUBSET
<1>3. Cardinality(SUBSET S) \in Nat /\ Cardinality(SUBSET S) # 0
  <2>1. SUBSET S # {}
    OBVIOUS
  <2> HIDE DEF S
  <2> QED BY <1>2, <2>1, FS_CardinalityType, FS_EmptySet
<1>4. f \in Bijection(SUBSET S, More)
  <2>1. ASSUME NEW A \in SUBSET S PROVE f[A] \in More
    OBVIOUS
  <2>2. ASSUME NEW A \in SUBSET S, NEW B \in SUBSET S, f[A] = f[B] PROVE A = B
    <3>1. n + 1 \notin A /\ n + 1 \notin B
      OBVIOUS
    <3> QED BY <2>2, <3>1
  <2>3. ASSUME NEW B \in More PROVE \E A \in SUBSET S : f[A] = B
    <3>1. T = S \union {n + 1}
      OBVIOUS
    <3>2. B \ {n + 1} \in SUBSET S
      BY <3>1
    <3>3. f[B \ {n + 1}] = B
      BY <3>2
    <3> QED BY <3>2, <3>3
  <2>4. f \in [SUBSET S -> More]
    BY <2>1
  <2>5. PICK g : g = f
    OBVIOUS
  <2>6. g \in Injection(SUBSET S, More)
    <3> HIDE DEF f, More, S
    <3> QED BY <2>2, <2>4, <2>5 DEF Injection, IsInjective
  <2>7. g \in Surjection(SUBSET S, More)
    <3> HIDE DEF f, More, S
    <3> QED BY <2>3, <2>4, <2>5 DEF Surjection
  <2> HIDE DEF f, More, S
  <2> QED BY <2>5, <2>6, <2>7 DEF Bijection
<1>5. IsFiniteSet(More) /\ Cardinality(More) = 2^n
  <2> HIDE DEF S, More, f
  <2> QED BY <1>2, <1>4, FS_Bijection DEF ExistsBijection
<1>6. SUBSET T = (SUBSET S) \union More /\ (SUBSET S) \cap More = {}
  <2>1. T = S \union {n + 1} /\ n + 1 \notin S
    OBVIOUS
  <2> HIDE DEF S, T
  <2> QED BY <2>1
<1>7. Cardinality(SUBSET T) = 2^n + 2^n - 0
  <2>1. Cardinality((SUBSET S) \union More)
          = Cardinality(SUBSET S) + Cardinality(More) - Cardinality((SUBSET S) \cap More)
    <3> HIDE DEF S, More
    <3> QED BY <1>2, <1>5, FS_Union
  <2> HIDE DEF S, T, More
  <2> QED BY <1>2, <1>5, <1>6, <2>1, FS_EmptySet
<1>8. PICK p \in Nat : p = 2^n
  BY <1>2, <1>3
<1>9. p # 0 /\ 2^(n + 1) = p + p - 0
  BY <1>2, <1>3, <1>7, <1>8
<1> QED BY <1>8, <1>9

(* Half of the values of so many bits are not negative ones. *)
LEMMA Halves ==
  ASSUME NEW bits \in Nat \ {0}
  PROVE  \E h \in Nat \ {0} : h = 2^(bits - 1) /\ 2^bits = 2 * h
<1>1. PICK n \in Nat : n = bits - 1 /\ n + 1 = bits
  OBVIOUS
<1> QED BY <1>1, PowersOfTwo

(* More bits have at least as many values. *)
LEMMA MoreBits ==
  ASSUME NEW few \in Nat, NEW many \in Nat, few <= many
  PROVE  2^few <= 2^many
<1> DEFINE S == {k \in Nat : 2^few <= 2^(few + k)}
<1>1. 2^few \in Nat
  BY PowersOfTwo
<1>2. 0 \in S
  BY <1>1
<1>3. ASSUME NEW k \in Nat, k \in S PROVE k + 1 \in S
  <2>1. PICK n \in Nat : n = few + k /\ n + 1 = few + (k + 1)
    OBVIOUS
  <2>2. 2^n \in Nat /\ 2^(n + 1) = 2 * 2^n /\ 2^few <= 2^n
    BY <1>3, <2>1, PowersOfTwo
  <2>3. 2^few <= 2^(n + 1)
    <3>1. PICK p \in Nat : p = 2^n
      BY <2>2
    <3> QED BY <1>1, <2>2, <3>1
  <2> QED BY <2>1, <2>3
<1> HIDE DEF S
<1>4. \A k \in Nat : k \in S
  BY <1>2, <1>3, AllNumbers
<1>5. PICK k \in Nat : many = few + k
  <2>1. many - few \in Nat /\ many = few + (many - few)
    OBVIOUS
  <2> QED BY <2>1
<1> QED BY <1>4, <1>5 DEF S

(* Multiplication distributes over addition. *)
LEMMA Distributed ==
  ASSUME NEW a \in Int, NEW b \in Int, NEW c \in Int
  PROVE  (a + b) * c = a * c + b * c /\ (-a) * c = -(a * c) /\ a * c \in Int
OBVIOUS

(* Numbers that differ by a multiple of the modulus. *)
LEMMA ModMultiple ==
  ASSUME NEW M \in Nat \ {0}, NEW x \in Int, NEW k \in Int
  PROVE  (x + k * M) % M = x % M
<1>1. PICK q \in Int, r \in 0..(M - 1) : x = q * M + r
  <2>1. x \div M \in Int /\ x % M \in 0..(M - 1) /\ x = (x \div M) * M + (x % M)
    OBVIOUS
  <2> QED BY <2>1
<1>2. r = x % M
  BY <1>1
<1>3. (x + k * M) = (q + k) * M + r
  <2>1. (q + k) * M = q * M + k * M /\ q * M \in Int /\ k * M \in Int
    BY Distributed
  <2> QED BY <1>1, <2>1
<1>4. PICK y, p \in Int : y = x + k * M /\ p = q + k
  OBVIOUS
<1>5. y = p * M + r
  BY <1>3, <1>4
<1>6. r = y % M
  BY <1>5
<1> QED BY <1>2, <1>4, <1>6

(* A number as a signed one differs from it by a multiple, and is itself if it is in
   the range. *)
LEMMA SignedIs ==
  ASSUME NEW bits \in Nat \ {0}, NEW x \in Int
  PROVE  /\ Signed(x, bits) \in Ints(bits)
         /\ \E k \in Int : Signed(x, bits) = x + k * 2^bits
         /\ x \in Ints(bits) => Signed(x, bits) = x
<1>1. PICK h \in Nat \ {0} : h = 2^(bits - 1) /\ 2^bits = 2 * h
  BY Halves
<1>2. PICK M \in Nat \ {0} : M = 2 * h /\ M = 2^bits
  BY <1>1
<1>3. PICK q \in Int, r \in 0..(M - 1) : x = q * M + r /\ r = x % M
  <2>1. x \div M \in Int /\ x % M \in 0..(M - 1) /\ x = (x \div M) * M + (x % M)
    OBVIOUS
  <2> QED BY <2>1
<1>4. Signed(x, bits) = IF r >= h THEN r - M ELSE r
  BY <1>1, <1>2, <1>3 DEF Signed
<1>5. Ints(bits) = (-h)..(h - 1)
  BY <1>1 DEF Ints
<1>6. Signed(x, bits) \in Ints(bits)
  BY <1>2, <1>4, <1>5
<1>7. \E k \in Int : Signed(x, bits) = x + k * M
  <2>1. CASE r >= h
    <3>1. PICK k \in Int : k = -q - 1
      OBVIOUS
    <3>2. x + k * M = r - M
      <4>1. k * M = -(q * M) - M /\ q * M \in Int
        <5>1. k = (-q) + (-1) /\ ((-q) + (-1)) * M = (-q) * M + (-1) * M /\ (-q) * M = -(q * M)
          BY <3>1, Distributed
        <5> QED BY <5>1
      <4> QED BY <1>3, <4>1
    <3> QED BY <1>4, <2>1, <3>2
  <2>2. CASE ~(r >= h)
    <3>1. PICK k \in Int : k = -q
      OBVIOUS
    <3>2. x + k * M = r
      BY <1>3, <3>1
    <3> QED BY <1>4, <2>2, <3>2
  <2> QED BY <2>1, <2>2
<1>8. ASSUME x \in Ints(bits) PROVE Signed(x, bits) = x
  <2>1. x \in (-h)..(h - 1)
    BY <1>5, <1>8
  <2>2. x >= 0 => r = x
    BY <1>2, <1>3, <2>1
  <2>3. x < 0 => r = x + M
    <3> SUFFICES ASSUME x < 0 PROVE r = x + M
      OBVIOUS
    <3>1. x \in (-M)..(-1)
      BY <1>2, <2>1
    <3>2. x % M = x + M
      BY <3>1
    <3> QED BY <1>3, <3>2
  <2> QED BY <1>2, <1>4, <2>1, <2>2, <2>3
<1> QED BY <1>2, <1>6, <1>7, <1>8

(* A number and what differs from it by a multiple of 2^bits are one signed number. *)
LEMMA SignedSame ==
  ASSUME NEW bits \in Nat \ {0}, NEW x \in Int, NEW k \in Int
  PROVE  Signed(x + k * 2^bits, bits) = Signed(x, bits)
<1>1. PICK M \in Nat \ {0} : M = 2^bits
  BY Halves
<1>2. (x + k * M) % M = x % M
  BY ModMultiple
<1> QED BY <1>1, <1>2 DEF Signed

-----------------------------------------------------------------------------
(* The sixteen digits are different characters, each the digit of its number. *)
LEMMA DigitsAre ==
  /\ \A k \in 0..15 : Digits[k + 1] \in DigitChars /\ Digit(Digits[k + 1]) = k
  /\ DigitChars \subseteq Chars /\ "z" \notin DigitChars
  /\ Digits[1] = "0" /\ \A k \in 1..15 : Digits[k + 1] # "0"
<1>1. \A i, j \in 1..16 : Digits[i] = Digits[j] => i = j
  BY DEF Digits
<1>2. ASSUME NEW k \in 0..15 PROVE Digits[k + 1] \in DigitChars /\ Digit(Digits[k + 1]) = k
  <2>1. k + 1 \in 1..16
    OBVIOUS
  <2>2. (CHOOSE i \in 1..16 : Digits[i] = Digits[k + 1]) = k + 1
    <3> HIDE DEF Digits
    <3> QED BY <1>1, <2>1
  <2>3. Digit(Digits[k + 1]) = (k + 1) - 1
    BY <2>2 DEF Digit
  <2> QED BY <2>1, <2>3 DEF DigitChars
<1>3. \A i \in 1..16 : Digits[i] # "z"
  BY DEF Digits
<1>4. DigitChars \subseteq Chars
  BY CharsAssumption, Zenon
<1>5. Digits[1] = "0"
  BY DEF Digits
<1>6. ASSUME NEW k \in 1..15 PROVE Digits[k + 1] # "0"
  <2>1. k + 1 \in 1..16 /\ k + 1 # 1
    OBVIOUS
  <2> QED BY <1>1, <1>5, <2>1
<1> QED BY <1>2, <1>3, <1>4, <1>5, <1>6 DEF DigitChars

-----------------------------------------------------------------------------
(* printnum(): the quotients of a number, and its digits. *)

(* A number divided by the base again and again; how often until one digit is left;
   and its digits. *)
Quotient(num, base) == Iterated([x \in Nat |-> x \div base], num)
Places(num, base) == Turns(num, [k \in Within(num) |-> Quotient(num, base)[k] >= base])
Figure(num, base, k) == Digits[(Quotient(num, base)[k] % base) + 1]
Figures(num, base) ==
  [j \in 1..(Places(num, base) + 1) |-> Figure(num, base, (Places(num, base) + 1) - j)]

(* Each quotient is a number, and the last digit is what it lacks times the base. *)
LEMMA QuotientIs ==
  ASSUME NEW num \in Nat, NEW base \in 2..16
  PROVE  /\ Quotient(num, base)[0] = num
         /\ \A k \in Nat : /\ Quotient(num, base)[k] \in Nat
                           /\ Quotient(num, base)[k + 1] = Quotient(num, base)[k] \div base
                           /\ Quotient(num, base)[k] % base \in 0..(base - 1)
                           /\ Quotient(num, base)[k]
                                = base * Quotient(num, base)[k + 1] + (Quotient(num, base)[k] % base)
<1> DEFINE q == Quotient(num, base)
           F == [x \in Nat |-> x \div base]
           S == {k \in Nat : q[k] \in Nat}
<1>1. q[0] = num /\ \A k \in Nat : q[k + 1] = F[q[k]]
  <2>1. q = Iterated(F, num)
    BY DEF Quotient
  <2> HIDE DEF q, F
  <2> QED BY <2>1, IteratedDef
<1>2. \A x \in Nat : /\ x \div base \in Nat /\ x % base \in 0..(base - 1)
                     /\ x = base * (x \div base) + (x % base)
  OBVIOUS
<1> HIDE DEF q
<1>3. 0 \in S
  BY <1>1
<1>4. ASSUME NEW k \in Nat, k \in S PROVE k + 1 \in S
  <2>1. PICK x \in Nat : x = q[k]
    BY <1>4
  <2>2. q[k + 1] = x \div base
    BY <1>1, <2>1
  <2> QED BY <1>2, <2>2
<1>5. \A k \in Nat : q[k] \in Nat
  <2> HIDE DEF S
  <2>1. \A k \in Nat : k \in S
    BY <1>3, <1>4, AllNumbers
  <2> QED BY <2>1 DEF S
<1>6. ASSUME NEW k \in Nat
      PROVE  /\ q[k + 1] = q[k] \div base /\ q[k] % base \in 0..(base - 1)
             /\ q[k] = base * q[k + 1] + (q[k] % base)
  <2>1. PICK x \in Nat : x = q[k]
    BY <1>5
  <2>2. q[k + 1] = x \div base
    BY <1>1, <2>1
  <2> QED BY <1>2, <2>1, <2>2
<1> QED BY <1>1, <1>5, <1>6 DEF q

(* The last of the quotients is one digit, and those before it are not; each is
   smaller than the one before. *)
LEMMA PlacesIs ==
  ASSUME NEW num \in Nat, NEW base \in 2..16, NEW q, q = Quotient(num, base), NEW t,
         t = Places(num, base)
  PROVE  /\ t \in 0..num /\ q[t] < base /\ q[t + 1] = 0
         /\ \A k \in 0..(t - 1) : q[k] >= base
         /\ t > 0 => q[t] > 0
<1> DEFINE go == [k \in Within(num) |-> q[k] >= base]
           S == {k \in Nat : k <= num => q[k] <= num - k}
<1>1. t = Turns(num, go)
  BY DEF Places
<1>2. t \in 0..num /\ (\A k \in 0..(t - 1) : go[k]) /\ (t = num \/ ~go[t])
  <2> HIDE DEF go
  <2> QED BY <1>1, TurnsDef
<1>3. /\ q[0] = num
      /\ \A k \in Nat : q[k] \in Nat /\ q[k] = base * q[k + 1] + (q[k] % base) /\ q[k] % base \in 0..(base - 1)
  BY QuotientIs
<1>4. \A k \in Nat : q[k] \in Nat /\ q[k + 1] \in Nat /\ \E r \in 0..(base - 1) :
        q[k] = base * q[k + 1] + r
  <2> TAKE k \in Nat
  <2>1. q[k] \in Nat /\ q[k + 1] \in Nat
    BY <1>3
  <2> QED BY <1>3, <2>1
<1>t. t \in Nat /\ t <= num
  <2> HIDE DEF go
  <2> QED BY <1>2
<1>5. ASSUME NEW k \in 0..(t - 1) PROVE q[k] >= base
  <2>1. go[k]
    <3> HIDE DEF go
    <3> QED BY <1>2
  <2>2. k \in Within(num)
    BY <1>t DEF Within
  <2> QED BY <2>1, <2>2
<1>6. ASSUME NEW k \in Nat PROVE /\ q[k] > 0 => q[k + 1] < q[k]
                                 /\ q[k] < base => q[k + 1] = 0
                                 /\ q[k] >= base => q[k + 1] > 0
  <2>1. PICK x \in Nat : x = q[k]
    BY <1>4
  <2>2. PICK y \in Nat : y = q[k + 1]
    BY <1>4
  <2>3. PICK r \in 0..(base - 1) : x = base * y + r
    BY <1>4, <2>1, <2>2
  <2>4. PICK p \in Nat : p = base * y
    OBVIOUS
  <2>5. y > 0 => p >= 2 * y /\ p >= base
    <3>1. y > 0 => base * y >= 2 * y
      OBVIOUS
    <3>2. y > 0 => base * y >= base
      OBVIOUS
    <3> QED BY <2>4, <3>1, <3>2
  <2>6. y = 0 => p = 0
    BY <2>4
  <2>7. x = p + r
    BY <2>3, <2>4
  <2> QED BY <2>1, <2>2, <2>5, <2>6, <2>7
<1>7. 0 \in S
  BY <1>3
<1>8. ASSUME NEW k \in Nat, k \in S PROVE k + 1 \in S
  <2> SUFFICES ASSUME k + 1 <= num PROVE q[k + 1] <= num - (k + 1)
    OBVIOUS
  <2>1. q[k] \in Nat /\ q[k + 1] \in Nat /\ q[k] <= num - k
    BY <1>3, <1>8
  <2>2. CASE q[k] > 0
    BY <1>6, <2>1, <2>2
  <2>3. CASE ~(q[k] > 0)
    <3>1. q[k + 1] = 0
      BY <1>6, <2>1, <2>3
    <3> QED BY <3>1
  <2> QED BY <2>2, <2>3
<1>9. \A k \in Nat : k <= num => q[k] <= num - k
  <2> HIDE DEF S
  <2>1. \A k \in Nat : k \in S
    BY <1>7, <1>8, AllNumbers
  <2> QED BY <2>1 DEF S
<1>10. q[t] < base
  <2>1. CASE t = num
    <3>1. q[num] <= num - num /\ q[num] \in Nat
      BY <1>3, <1>9
    <3> QED BY <2>1, <3>1
  <2>2. CASE t # num
    <3>1. t \in Within(num) /\ q[t] \in Nat
      BY <1>t, <1>3, <2>2 DEF Within
    <3>2. ~(q[t] >= base)
      BY <1>2, <2>2, <3>1
    <3> QED BY <3>1, <3>2
  <2> QED BY <2>1, <2>2
<1>11. q[t + 1] = 0
  BY <1>t, <1>6, <1>10
<1>12. t > 0 => q[t] > 0
  <2> SUFFICES ASSUME t > 0 PROVE q[t] > 0
    OBVIOUS
  <2>1. PICK k \in Nat : k = t - 1 /\ k + 1 = t /\ k \in 0..(t - 1)
    <3>1. t - 1 \in Nat /\ (t - 1) + 1 = t /\ t - 1 \in 0..(t - 1)
      BY <1>t
    <3> QED BY <3>1
  <2> QED BY <1>5, <1>6, <2>1
<1> QED BY <1>2, <1>5, <1>10, <1>11, <1>12

(* The digits of a number, the first of them no zero unless it is the only one. *)
LEMMA FiguresAre ==
  ASSUME NEW num \in Nat, NEW base \in 2..16, NEW t, t = Places(num, base)
  PROVE  /\ t \in Nat /\ Figures(num, base) \in Seq(DigitChars) /\ Len(Figures(num, base)) = t + 1
         /\ \A j \in 1..(t + 1) : Figures(num, base)[j] = Figure(num, base, (t + 1) - j)
         /\ \A k \in Nat : /\ Figure(num, base, k) \in DigitChars
                           /\ Digit(Figure(num, base, k)) = Quotient(num, base)[k] % base
<1>1. t \in Nat
  <2>1. t \in 0..num
    BY PlacesIs
  <2> QED BY <2>1
<1>2. ASSUME NEW k \in Nat
      PROVE  /\ Figure(num, base, k) \in DigitChars
             /\ Digit(Figure(num, base, k)) = Quotient(num, base)[k] % base
  <2>1. PICK r \in 0..15 : r = Quotient(num, base)[k] % base
    <3>1. Quotient(num, base)[k] % base \in 0..(base - 1)
      BY QuotientIs
    <3> QED BY <3>1
  <2> QED BY <2>1, DigitsAre DEF Figure
<1>3. \A j \in 1..(t + 1) : (t + 1) - j \in Nat
  BY <1>1
<1>4. Figures(num, base) \in [1..(t + 1) -> DigitChars]
  BY <1>2, <1>3 DEF Figures
<1>5. \A j \in 1..(t + 1) : Figures(num, base)[j] = Figure(num, base, (t + 1) - j)
  BY DEF Figures
<1>6. Figures(num, base) \in Seq(DigitChars) /\ Len(Figures(num, base)) = t + 1
  BY <1>1, <1>4
<1> QED BY <1>1, <1>2, <1>5, <1>6

(* A character n times. *)
LEMMA RepeatIs ==
  ASSUME NEW S, NEW c \in S, NEW n \in Int
  PROVE  /\ Repeat(c, n) \in Seq(S)
         /\ Len(Repeat(c, n)) = IF n <= 0 THEN 0 ELSE n
         /\ \A k \in 1..n : Repeat(c, n)[k] = c
<1>1. CASE n <= 0
  <2>1. Repeat(c, n) = <<>> /\ \A k \in 1..n : FALSE
    BY <1>1 DEF Repeat
  <2> QED BY <1>1, <2>1
<1>2. CASE ~(n <= 0)
  <2>1. Repeat(c, n) = [k \in 1..n |-> c] /\ n \in Nat
    BY <1>2 DEF Repeat
  <2> QED BY <1>2, <2>1
<1> QED BY <1>1, <1>2

(* The k last digits. *)
Lowest(num, base, k) == [j \in 1..k |-> Figure(num, base, k - j)]

(* One more digit in front of the lowest ones. *)
LEMMA LowestIs ==
  ASSUME NEW num \in Nat, NEW base \in 2..16, NEW k \in Nat
  PROVE  /\ Lowest(num, base, k) \in Seq(DigitChars) /\ Len(Lowest(num, base, k)) = k
         /\ Lowest(num, base, k + 1) = <<Figure(num, base, k)>> \o Lowest(num, base, k)
<1>1. \A n \in Nat : Figure(num, base, n) \in DigitChars
  BY FiguresAre
<1>2. ASSUME NEW n \in Nat
      PROVE  Lowest(num, base, n) \in Seq(DigitChars) /\ Len(Lowest(num, base, n)) = n
  <2>1. \A j \in 1..n : n - j \in Nat
    OBVIOUS
  <2>2. Lowest(num, base, n) \in [1..n -> DigitChars]
    BY <1>1, <2>1 DEF Lowest
  <2> QED BY <2>2
<1> DEFINE s == <<Figure(num, base, k)>>
           t == Lowest(num, base, k)
           u == Lowest(num, base, k + 1)
<1>3. s \in Seq(DigitChars) /\ Len(s) = 1 /\ s[1] = Figure(num, base, k)
  BY <1>1
<1>4. t \in Seq(DigitChars) /\ Len(t) = k /\ u \in Seq(DigitChars) /\ Len(u) = k + 1
  BY <1>2
<1>5. \A j \in 1..k : t[j] = Figure(num, base, k - j)
  BY DEF Lowest
<1>6. \A j \in 1..(k + 1) : u[j] = Figure(num, base, (k + 1) - j)
  BY DEF Lowest
<1> HIDE DEF s, t, u
<1>7. s \o t \in Seq(DigitChars) /\ Len(s \o t) = 1 + k
      /\ \A j \in 1..(1 + k) : (s \o t)[j] = IF j <= 1 THEN s[j] ELSE t[j - 1]
  <2>1. s \o t \in Seq(DigitChars) /\ Len(s \o t) = Len(s) + Len(t)
        /\ \A j \in 1..Len(s) + Len(t) : (s \o t)[j] = IF j <= Len(s) THEN s[j] ELSE t[j - Len(s)]
    BY <1>3, <1>4, ConcatProperties
  <2> QED BY <1>3, <1>4, <2>1
<1>8. ASSUME NEW j \in 1..(k + 1) PROVE u[j] = (s \o t)[j]
  <2>1. CASE j = 1
    <3>1. (k + 1) - j = k
      BY <2>1
    <3> QED BY <1>3, <1>6, <1>7, <2>1, <3>1
  <2>2. CASE j # 1
    <3>1. j - 1 \in 1..k /\ k - (j - 1) = (k + 1) - j /\ ~(j <= 1) /\ j \in 1..(1 + k)
      BY <2>2
    <3> QED BY <1>5, <1>6, <1>7, <3>1
  <2> QED BY <2>1, <2>2
<1>9. u = s \o t
  BY <1>4, <1>7, <1>8, SeqEqual
<1> QED BY <1>2, <1>9 DEF s, t, u

(* printnum() prints the digits, padded in front. *)
LEMMA PrintnumIs ==
  ASSUME NEW num \in Nat, NEW base \in 2..16, NEW width \in Int, NEW padc
  PROVE  printnum(num, base, width, padc)
           = Repeat(padc, width - (Places(num, base) + 1)) \o Figures(num, base)
<1> DEFINE q == Quotient(num, base)
           t == Places(num, base)
           States == [num : Nat, width : Int, text : Seq(DigitChars)]
           F == [c \in States |->
                   [num |-> c.num \div base, width |-> c.width - 1,
                    text |-> <<Digits[(c.num % base) + 1]>> \o c.text]]
           after == Iterated(F, [num |-> num, width |-> width, text |-> <<>>])
           At(k) == [num |-> q[k], width |-> width - k, text |-> Lowest(num, base, k)]
           S == {k \in Nat : after[k] = At(k)}
<1>1. /\ after[0] = [num |-> num, width |-> width, text |-> <<>>]
      /\ \A k \in Nat : after[k + 1] = F[after[k]]
  <2> HIDE DEF F
  <2> QED BY IteratedDef
<1>2. q[0] = num /\ \A k \in Nat : q[k] \in Nat /\ q[k + 1] = q[k] \div base
  BY QuotientIs
<1>3. t \in Nat /\ q[t] < base /\ t <= num
  <2>1. t \in 0..num /\ q[t] < base
    BY PlacesIs
  <2> HIDE DEF t
  <2> QED BY <2>1
<1>4. 0 \in S
  <2>1. Lowest(num, base, 0) = <<>>
    <3>1. 0 \in Nat
      OBVIOUS
    <3>2. Lowest(num, base, 0) \in Seq(DigitChars) /\ Len(Lowest(num, base, 0)) = 0
      BY <3>1, LowestIs
    <3> QED BY <3>2, EmptySeq
  <2>2. width - 0 = width
    OBVIOUS
  <2> HIDE DEF F, after, q
  <2> QED BY <1>1, <1>2, <2>1, <2>2
<1>5. ASSUME NEW k \in Nat, k \in S PROVE k + 1 \in S
  <2>1. Lowest(num, base, k) \in Seq(DigitChars)
        /\ Lowest(num, base, k + 1) = <<Figure(num, base, k)>> \o Lowest(num, base, k)
    BY LowestIs
  <2>2. At(k) \in States
    <3>1. width - k \in Int /\ q[k] \in Nat
      BY <1>2
    <3> HIDE DEF q
    <3> QED BY <2>1, <3>1
  <2>3. after[k + 1] = F[At(k)]
    <3> HIDE DEF F, after, At
    <3> QED BY <1>1, <1>5
  <2>4. F[At(k)] = [num |-> q[k] \div base, width |-> (width - k) - 1,
                    text |-> <<Digits[(q[k] % base) + 1]>> \o Lowest(num, base, k)]
    <3> HIDE DEF q
    <3> QED BY <2>2
  <2>5. /\ (width - k) - 1 = width - (k + 1) /\ q[k] \div base = q[k + 1]
        /\ Digits[(q[k] % base) + 1] = Figure(num, base, k)
    BY <1>2 DEF Figure
  <2> HIDE DEF F, after, q
  <2> QED BY <2>1, <2>3, <2>4, <2>5
<1>6. \A k \in Nat : after[k] = At(k)
  <2> HIDE DEF S
  <2>1. \A k \in Nat : k \in S
    BY <1>4, <1>5, AllNumbers
  <2> QED BY <2>1 DEF S
<1> DEFINE go == [k \in Within(num) |-> after[k].num >= base]
           gone == [k \in Within(num) |-> q[k] >= base]
<1>7. go = gone
  <2>1. ASSUME NEW k \in Within(num) PROVE after[k].num = q[k]
    <3>1. k \in Nat
      BY DEF Within
    <3>2. after[k] = At(k)
      <4> HIDE DEF after, At
      <4> QED BY <1>6, <3>1
    <3>3. At(k).num = q[k]
      <4> HIDE DEF q
      <4> QED OBVIOUS
    <3> HIDE DEF after, At, q
    <3> QED BY <3>2, <3>3
  <2> HIDE DEF after, q
  <2> QED BY <2>1
<1>8. Turns(num, go) = t
  <2>1. Turns(num, gone) = t
    BY DEF Places
  <2> HIDE DEF go, gone
  <2> QED BY <1>7, <2>1
<1> DEFINE last == after[Turns(num, go)]
<1>9. printnum(num, base, width, padc)
        = Repeat(padc, last.width - 1) \o <<Digits[last.num + 1]>> \o last.text
  BY DEF printnum
<1>10. last = At(t)
  <2> HIDE DEF after, go, At, t
  <2> QED BY <1>3, <1>6, <1>8
<1>11. last.width = width - t /\ last.num = q[t] /\ last.text = Lowest(num, base, t)
  <2> HIDE DEF last, q, t
  <2> QED BY <1>10
<1>12. Digits[q[t] + 1] = Figure(num, base, t)
  <2>1. q[t] % base = q[t]
    <3>1. PICK x \in 0..(base - 1) : x = q[t]
      BY <1>2, <1>3
    <3> QED BY <3>1
  <2> QED BY <2>1 DEF Figure
<1>13. <<Figure(num, base, t)>> \o Lowest(num, base, t) = Figures(num, base)
  <2>1. Lowest(num, base, t + 1) = Figures(num, base)
    BY DEF Lowest, Figures
  <2> HIDE DEF t
  <2> QED BY <1>3, <2>1, LowestIs
<1> DEFINE r == Repeat(padc, width - (t + 1))
           d == <<Figure(num, base, t)>>
           l == Lowest(num, base, t)
           X == DigitChars \union {padc}
<1>14. printnum(num, base, width, padc) = r \o d \o l
  <2>1. (width - t) - 1 = width - (t + 1)
    BY <1>3
  <2> HIDE DEF last, q, t
  <2> QED BY <1>9, <1>11, <1>12, <2>1
<1>15. r \in Seq(X) /\ d \in Seq(X) /\ l \in Seq(X)
  <2>1. width - (t + 1) \in Int
    BY <1>3
  <2>2. r \in Seq(X)
    <3> HIDE DEF t
    <3> QED BY <2>1, RepeatIs
  <2>3. Figure(num, base, t) \in X
    <3> HIDE DEF t
    <3> QED BY <1>3, FiguresAre
  <2>4. l \in Seq(X)
    <3>1. l \in Seq(DigitChars) /\ DigitChars \subseteq X
      <4> HIDE DEF t
      <4> QED BY <1>3, LowestIs
    <3> HIDE DEF l, X
    <3> QED BY <3>1, SeqMonotonic
  <2> HIDE DEF X, t
  <2> QED BY <2>2, <2>3, <2>4
<1>16. r \o d \o l = r \o (d \o l)
  <2> HIDE DEF r, d, l, X
  <2> QED BY <1>15, ConcatAssociative
<1> QED BY <1>13, <1>14, <1>16

-----------------------------------------------------------------------------
(* The value of what printnum() prints. *)

(* The value of a text is what any function that follows its digits arrives at. *)
LEMMA ValueIs ==
  ASSUME NEW s, NEW base, NEW n \in Nat, Len(s) = n, NEW w,
         w = [k \in 0..n |-> IF k = 0 THEN 0 ELSE base * w[k - 1] + Digit(s[k])]
  PROVE  Value(s, base) = w[n]
<1> DEFINE Is(f) == f = [k \in 0..n |-> IF k = 0 THEN 0 ELSE base * f[k - 1] + Digit(s[k])]
           v == CHOOSE f : Is(f)
           S == {k \in Nat : k <= n => v[k] = w[k]}
<1>1. Is(v)
  <2>1. Is(w)
    OBVIOUS
  <2> HIDE DEF Is
  <2> QED BY <2>1
<1>2. Value(s, base) = v[n]
  BY DEF Value
<1> HIDE DEF v
<1>3. 0 \in S
  BY <1>1
<1>4. ASSUME NEW k \in Nat, k \in S PROVE k + 1 \in S
  <2> SUFFICES ASSUME k + 1 <= n PROVE v[k + 1] = w[k + 1]
    OBVIOUS
  <2>1. k + 1 \in 0..n /\ k + 1 # 0 /\ (k + 1) - 1 = k /\ v[k] = w[k]
    BY <1>4
  <2>2. v[k + 1] = base * v[k] + Digit(s[k + 1])
    BY <1>1, <2>1
  <2>3. w[k + 1] = base * w[k] + Digit(s[k + 1])
    BY <2>1
  <2> QED BY <2>1, <2>2, <2>3
<1> HIDE DEF S
<1>5. \A k \in Nat : k \in S
  BY <1>3, <1>4, AllNumbers
<1>6. v[n] = w[n]
  <2>1. n <= n
    OBVIOUS
  <2> QED BY <1>5, <2>1 DEF S
<1> QED BY <1>2, <1>6

(* The digits of a number have its value. *)
LEMMA FiguresValue ==
  ASSUME NEW num \in Nat, NEW base \in 2..16
  PROVE  Value(Figures(num, base), base) = num
<1> DEFINE q == Quotient(num, base)
           t == Places(num, base)
           s == Figures(num, base)
           w == [k \in 0..(t + 1) |-> q[(t + 1) - k]]
<1>1. t \in Nat /\ Len(s) = t + 1
      /\ (\A j \in 1..(t + 1) : s[j] = Figure(num, base, (t + 1) - j))
      /\ \A k \in Nat : Digit(Figure(num, base, k)) = q[k] % base
  BY FiguresAre
<1>2. q[0] = num /\ \A k \in Nat : q[k] = base * q[k + 1] + (q[k] % base)
  BY QuotientIs
<1>3. q[t + 1] = 0
  BY PlacesIs
<1> HIDE DEF q, t, s
<1>4. ASSUME NEW k \in 0..(t + 1)
      PROVE  w[k] = IF k = 0 THEN 0 ELSE base * w[k - 1] + Digit(s[k])
  <2>1. CASE k = 0
    <3>1. (t + 1) - 0 = t + 1
      BY <1>1
    <3> QED BY <1>1, <1>3, <2>1, <3>1
  <2>2. CASE k # 0
    <3>1. /\ k \in 1..(t + 1) /\ (t + 1) - k \in Nat /\ k - 1 \in 0..(t + 1)
          /\ (t + 1) - (k - 1) = ((t + 1) - k) + 1
      BY <1>1, <2>2
    <3>2. w[k - 1] = q[((t + 1) - k) + 1] /\ w[k] = q[(t + 1) - k]
      BY <3>1
    <3>3. Digit(s[k]) = q[(t + 1) - k] % base
      BY <1>1, <3>1
    <3> HIDE DEF w
    <3> QED BY <1>2, <2>2, <3>1, <3>2, <3>3
  <2> QED BY <2>1, <2>2
<1>5. w = [k \in 0..(t + 1) |-> IF k = 0 THEN 0 ELSE base * w[k - 1] + Digit(s[k])]
  BY <1>4
<1>6. w[t + 1] = num
  <2>1. (t + 1) - (t + 1) = 0 /\ t + 1 \in 0..(t + 1)
    BY <1>1
  <2> QED BY <1>2, <2>1
<1> HIDE DEF w
<1>7. t + 1 \in Nat
  BY <1>1
<1>8. Value(s, base) = w[t + 1]
  BY <1>1, <1>5, <1>7, ValueIs
<1> QED BY <1>6, <1>8 DEF s

(* What printnum() prints is the number in a field of that width. *)
LEMMA PrintnumField ==
  ASSUME NEW num \in Nat, NEW base \in 2..16, NEW width \in Int, NEW pad
  PROVE  IsField(printnum(num, base, width, pad), num, base, width, pad)
<1> DEFINE t == Places(num, base)
           f == Figures(num, base)
           p == Repeat(pad, width - (t + 1))
           s == p \o f
           X == DigitChars \union {pad}
<1>1. t \in Nat /\ f \in Seq(DigitChars) /\ Len(f) = t + 1
      /\ (\A j \in 1..(t + 1) : f[j] = Figure(num, base, (t + 1) - j))
  BY FiguresAre
<1>2. f \in Seq(X)
  <2> HIDE DEF f
  <2> QED BY <1>1, SeqMonotonic
<1>3. PICK k \in Nat : k = IF width - (t + 1) <= 0 THEN 0 ELSE width - (t + 1)
  <2>1. width - (t + 1) \in Int
    BY <1>1
  <2>2. width - (t + 1) <= 0 \/ width - (t + 1) \in Nat
    BY <2>1
  <2> HIDE DEF t
  <2> QED BY <2>2
<1>4. p \in Seq(X) /\ Len(p) = k
  <2>1. width - (t + 1) \in Int /\ pad \in X
    BY <1>1
  <2> HIDE DEF X, t
  <2> QED BY <1>3, <2>1, RepeatIs
<1>5. p = Repeat(pad, k)
  <2>1. width - (t + 1) <= 0 => p = <<>> /\ Repeat(pad, k) = <<>>
    <3> HIDE DEF t
    <3> QED BY <1>3 DEF Repeat
  <2> HIDE DEF t
  <2> QED BY <1>3, <2>1
<1>6. s \in Seq(X) /\ Len(s) = k + (t + 1)
  <2>1. s \in Seq(X) /\ Len(s) = Len(p) + Len(f)
    <3> HIDE DEF p, f, X
    <3> QED BY <1>2, <1>4, ConcatProperties
  <2> QED BY <1>1, <1>4, <2>1
<1>7. SubSeq(s, k + 1, Len(s)) = f
  <2>1. k + 1 \in Len(p) + 1..Len(p) + Len(f) /\ Len(s) \in Len(p) + 1..Len(p) + Len(f)
    <3> HIDE DEF t, p, f, s
    <3> QED BY <1>1, <1>4, <1>6
  <2>2. SubSeq(p \o f, k + 1, Len(s)) = SubSeq(f, (k + 1) - Len(p), Len(s) - Len(p))
    <3> HIDE DEF t, p, f, X
    <3> QED BY <1>2, <1>4, <2>1, SubSeqOfConcat2
  <2>3. (k + 1) - Len(p) = 1 /\ Len(s) - Len(p) = Len(f)
    <3> HIDE DEF t, p, f, s
    <3> QED BY <1>1, <1>4, <1>6
  <2>4. SubSeq(f, 1, Len(f)) = f
    <3> HIDE DEF f, X
    <3> QED BY <1>2, SubSeqFull
  <2> HIDE DEF t, p, f
  <2> QED BY <2>2, <2>3, <2>4
<1>8. SubSeq(s, 1, k) = Repeat(pad, k)
  <2>1. CASE k = 0
    <3>1. SubSeq(s, 1, k) = <<>>
      <4> HIDE DEF s
      <4> QED BY <2>1, SubSeqEmpty
    <3>2. Repeat(pad, k) = <<>>
      BY <2>1 DEF Repeat
    <3> QED BY <3>1, <3>2
  <2>2. CASE k # 0
    <3>1. 1 \in 1..Len(p) /\ k \in 1..Len(p)
      <4> HIDE DEF p
      <4> QED BY <1>4, <2>2
    <3>2. SubSeq(p \o f, 1, k) = SubSeq(p, 1, k)
      <4> HIDE DEF p, f, X
      <4> QED BY <1>2, <1>4, <3>1, SubSeqOfConcat1
    <3>3. SubSeq(p, 1, Len(p)) = p
      <4> HIDE DEF p, X
      <4> QED BY <1>4, SubSeqFull
    <3> HIDE DEF p, f
    <3> QED BY <1>4, <1>5, <3>2, <3>3
  <2> QED BY <2>1, <2>2
<1>9. \A j \in 1..Len(f) : f[j] \in DigitChars
  <2> HIDE DEF f
  <2> QED BY <1>1, ElementOfSeq
<1>10. f[1] = "0" => Len(f) = 1
  <2> SUFFICES ASSUME Len(f) # 1 PROVE f[1] # "0"
    OBVIOUS
  <2>1. t > 0
    <3> HIDE DEF t, f
    <3> QED BY <1>1
  <2>2. f[1] = Figure(num, base, t)
    <3>1. 1 \in 1..(t + 1) /\ (t + 1) - 1 = t
      <4> HIDE DEF t
      <4> QED BY <1>1
    <3> HIDE DEF t, f
    <3> QED BY <1>1, <3>1
  <2>3. PICK x \in 1..15 : x = Quotient(num, base)[t] % base
    <3>1. Quotient(num, base)[t] < base /\ Quotient(num, base)[t] > 0
      BY <2>1, PlacesIs
    <3>2. Quotient(num, base)[t] \in Nat
      <4> HIDE DEF t
      <4> QED BY <1>1, QuotientIs
    <3>3. PICK y \in 1..(base - 1) : y = Quotient(num, base)[t]
      <4> HIDE DEF t
      <4> QED BY <3>1, <3>2
    <3>4. y % base = y /\ y \in 1..15
      OBVIOUS
    <3> QED BY <3>3, <3>4
  <2> HIDE DEF t, f
  <2> QED BY <2>2, <2>3, DigitsAre DEF Figure
<1>11. Len(s) = Max2(width, Len(f))
  <2> HIDE DEF t, f, s
  <2> QED BY <1>1, <1>3, <1>6 DEF Max2
<1>12. Value(f, base) = num
  BY FiguresValue
<1>13. k \in 0..(Len(s) - 1)
  <2> HIDE DEF t, s
  <2> QED BY <1>1, <1>6
<1>14. IsField(s, num, base, width, pad)
  <2> HIDE DEF s, f, p, t, X
  <2> QED BY <1>7, <1>8, <1>9, <1>10, <1>11, <1>12, <1>13 DEF IsField
<1> QED BY <1>14, PrintnumIs

(* It prints digits and padding only. *)
LEMMA PrintnumText ==
  ASSUME NEW num \in Nat, NEW base \in 2..16, NEW width \in Int, NEW X, NEW pad \in X,
         DigitChars \subseteq X
  PROVE  printnum(num, base, width, pad) \in Seq(X) /\ Len(printnum(num, base, width, pad)) > 0
<1> DEFINE t == Places(num, base)
           f == Figures(num, base)
           p == Repeat(pad, width - (t + 1))
<1>1. t \in Nat /\ f \in Seq(DigitChars) /\ Len(f) = t + 1
  BY FiguresAre
<1>2. f \in Seq(X)
  <2> HIDE DEF f
  <2> QED BY <1>1, SeqMonotonic
<1>3. p \in Seq(X) /\ Len(p) \in Nat
  <2>1. width - (t + 1) \in Int
    BY <1>1
  <2>2. p \in Seq(X)
    <3> HIDE DEF t
    <3> QED BY <2>1, RepeatIs
  <2> HIDE DEF p
  <2> QED BY <2>2
<1>4. p \o f \in Seq(X) /\ Len(p \o f) = Len(p) + Len(f)
  <2> HIDE DEF p, f
  <2> QED BY <1>2, <1>3, ConcatProperties
<1>5. Len(p \o f) > 0
  <2> HIDE DEF p, f, t
  <2> QED BY <1>1, <1>3, <1>4
<1> QED BY <1>4, <1>5, PrintnumIs

-----------------------------------------------------------------------------
(* vprintfmt(): its two loops, and what is no directive. *)

(* The loops of vprintfmt(): the switch, and the whole. *)
Opened(start, arg) ==
  [at |-> start, arg |-> arg, padc |-> Space, width |-> -1, precision |-> -1, lflag |-> 0,
    altflag |-> FALSE]
FlagStep(fmt, args) == [e \in Directives |-> Flag(fmt, args, e)]
Taken(fmt, args, start, arg) == Iterated(FlagStep(fmt, args), Opened(start, arg))

(* The loop of vprintfmt(): its states, a turn, and what it goes through. *)
Texts == [at : Nat, arg : Nat, text : Seq(Chars)]
Turn(fmt, args) ==
  [b \in Texts |-> LET x == Escape(fmt, args, b.at + 1, b.arg)
                   IN  IF CharAt(fmt, b.at) = "%" THEN [x EXCEPT !.text = b.text \o @]
                       ELSE [b EXCEPT !.text = Append(@, fmt[b.at]), !.at = @ + 1]]
Out(at, arg, text) == [at |-> at, arg |-> arg, text |-> text]
Outputs(fmt, args) == Iterated(Turn(fmt, args), Out(1, 1, <<>>))

(* The states of the switch, one after the other. *)
LEMMA TakenDef ==
  ASSUME NEW fmt, NEW args, NEW start, NEW arg
  PROVE  /\ Taken(fmt, args, start, arg)[0] = Opened(start, arg)
         /\ \A k \in Nat : Taken(fmt, args, start, arg)[k + 1]
                             = FlagStep(fmt, args)[Taken(fmt, args, start, arg)[k]]
BY IteratedDef DEF Taken

(* The states of vprintfmt(), one after the other. *)
LEMMA OutputsDef ==
  ASSUME NEW fmt, NEW args
  PROVE  /\ Outputs(fmt, args)[0] = Out(1, 1, <<>>)
         /\ \A k \in Nat : Outputs(fmt, args)[k + 1] = Turn(fmt, args)[Outputs(fmt, args)[k]]
BY IteratedDef DEF Outputs

(* The switch has gone round t times when it meets what is no flag. *)
LEMMA EscapeIs ==
  ASSUME NEW fmt, Len(fmt) \in Nat, NEW args, NEW start, NEW arg, NEW t \in 0..Len(fmt),
         \A k \in 0..(t - 1) : CharAt(fmt, Taken(fmt, args, start, arg)[k].at) \in Flags,
         NEW e, e = Taken(fmt, args, start, arg)[t], t = Len(fmt) \/ CharAt(fmt, e.at) \notin Flags
  PROVE  Escape(fmt, args, start, arg) =
           IF CharAt(fmt, e.at) \in Conversions
           THEN [text |-> Convert(CharAt(fmt, e.at), e, args[e.arg]), at |-> e.at + 1,
                 arg |-> IF CharAt(fmt, e.at) = "%" THEN e.arg ELSE e.arg + 1]
           ELSE Unknown(start, e)
<1> DEFINE after == Taken(fmt, args, start, arg)
           go == [k \in Within(Len(fmt)) |-> CharAt(fmt, after[k].at) \in Flags]
           x == after[Turns(Len(fmt), go)]
           ch == CharAt(fmt, x.at)
<1>1. Turns(Len(fmt), go) = t
  <2>1. ASSUME NEW i \in 0..(t - 1) PROVE go[i]
    <3>1. i \in Within(Len(fmt))
      BY DEF Within
    <3>2. CharAt(fmt, after[i].at) \in Flags
      OBVIOUS
    <3> QED BY <3>1, <3>2
  <2>2. t = Len(fmt) \/ ~go[t]
    <3>1. t # Len(fmt) => t \in Within(Len(fmt))
      BY DEF Within
    <3> HIDE DEF after
    <3> QED BY <3>1 DEF after
  <2> HIDE DEF go
  <2> QED BY <2>1, <2>2, TurnsIs
<1>2. x = e
  BY <1>1
<1>3. Escape(fmt, args, start, arg) =
        IF ch \in Conversions
        THEN [text |-> Convert(ch, x, args[x.arg]), at |-> x.at + 1,
              arg |-> IF ch = "%" THEN x.arg ELSE x.arg + 1]
        ELSE Unknown(start, x)
  BY DEF Escape, Taken, FlagStep, Opened
<1> HIDE DEF x
<1> QED BY <1>2, <1>3

(* The result of an escape with what was printed before it in front. *)
LEMMA TextReplaced ==
  ASSUME NEW x, NEW y, NEW z, NEW v
  PROVE  [[text |-> x, at |-> y, arg |-> z] EXCEPT !.text = v] = [text |-> v, at |-> y, arg |-> z]
<1>1. [[text |-> x, at |-> y, arg |-> z] EXCEPT !.text = v] \in [text : {v}, at : {y}, arg : {z}]
  OBVIOUS
<1>2. \A r \in [text : {v}, at : {y}, arg : {z}] : r = [text |-> v, at |-> y, arg |-> z]
  OBVIOUS
<1> QED BY <1>1, <1>2

(* A turn that meets a '%', and one that does not. *)
LEMMA TurnEscape ==
  ASSUME NEW fmt, NEW args, NEW at \in Nat, NEW arg \in Nat, NEW text \in Seq(Chars),
         NEW x, NEW y, NEW z, CharAt(fmt, at) = "%",
         Escape(fmt, args, at + 1, arg) = [text |-> x, at |-> y, arg |-> z]
  PROVE  Turn(fmt, args)[Out(at, arg, text)] = Out(y, z, text \o x)
<1> DEFINE b == Out(at, arg, text)
           esc == Escape(fmt, args, at + 1, arg)
<1>1. b \in Texts /\ b.at = at /\ b.arg = arg /\ b.text = text
  BY DEF Texts, Out
<1>2. Turn(fmt, args)[b] = [esc EXCEPT !.text = text \o @]
  <2> HIDE DEF b
  <2> QED BY <1>1 DEF Turn
<1>3. esc = [text |-> x, at |-> y, arg |-> z] /\ esc.text = x
  OBVIOUS
<1> HIDE DEF esc, b
<1>4. [esc EXCEPT !.text = text \o @] = [esc EXCEPT !.text = text \o x]
  BY <1>3
<1>5. PICK v : v = text \o x
  OBVIOUS
<1>6. [[text |-> x, at |-> y, arg |-> z] EXCEPT !.text = v] = [text |-> v, at |-> y, arg |-> z]
  BY TextReplaced
<1>7. [text |-> v, at |-> y, arg |-> z] = Out(y, z, v)
  BY DEF Out
<1> QED BY <1>2, <1>3, <1>4, <1>5, <1>6, <1>7 DEF b

(* A character that is no '%' is printed as it is. *)
LEMMA TurnPlain ==
  ASSUME NEW fmt, NEW args, NEW at \in Nat, NEW arg \in Nat, NEW text \in Seq(Chars),
         CharAt(fmt, at) # "%"
  PROVE  Turn(fmt, args)[Out(at, arg, text)]
           = Out(at + 1, arg, Append(text, fmt[at]))
<1> DEFINE b == Out(at, arg, text)
<1>1. b \in Texts /\ b.at = at /\ b.arg = arg /\ b.text = text
  BY DEF Texts, Out
<1>2. Turn(fmt, args)[b] = [b EXCEPT !.text = Append(text, fmt[at]), !.at = at + 1]
  <2> HIDE DEF b
  <2> QED BY <1>1 DEF Turn
<1>3. PICK v, w : v = Append(text, fmt[at]) /\ w = at + 1
  OBVIOUS
<1>4. [b EXCEPT !.text = v, !.at = w] = Out(w, arg, v)
  <2>1. b \in [at : {at}, arg : {arg}, text : {text}]
    BY DEF Out
  <2> HIDE DEF b
  <2>2. [b EXCEPT !.text = v, !.at = w] \in [at : {w}, arg : {arg}, text : {v}]
    BY <2>1
  <2>3. \A r \in [at : {w}, arg : {arg}, text : {v}] : r = Out(w, arg, v)
    BY DEF Out
  <2> QED BY <2>2, <2>3
<1> QED BY <1>2, <1>3, <1>4

(* A text and one more character, in front of the rest of another text. *)
LEMMA AppendRest ==
  ASSUME NEW C, NEW s \in Seq(C), NEW t \in Seq(C), NEW c \in C
  PROVE  Append(s \o t, c) = s \o (t \o <<c>>)
<1>1. s \o t \in Seq(C) /\ <<c>> \in Seq(C)
  BY ConcatProperties
<1>2. Append(s \o t, c) = (s \o t) \o <<c>>
  BY <1>1, AppendIsConcat
<1> QED BY <1>1, <1>2, ConcatAssociative

(* From where no '%' is left, all is printed as it is. *)
LEMMA PlainRest ==
  ASSUME NEW X, NEW fmt \in Seq(X), NEW args, NEW m \in Nat, NEW p \in 1..(Len(fmt) + 1),
         NEW arg \in Nat,
         NEW text \in Seq(Chars), Outputs(fmt, args)[m] = Out(p, arg, text),
         \A k \in 0..(m - 1) : CharAt(fmt, Outputs(fmt, args)[k].at) # NUL,
         m < p, \A i \in p..Len(fmt) : fmt[i] \in Chars /\ fmt[i] # "%"
  PROVE  vprintfmt(fmt, args) = text \o SubSeq(fmt, p, Len(fmt))
<1> DEFINE out == Outputs(fmt, args)
           n == Len(fmt)
           rest(j) == SubSeq(fmt, p, p + j - 1)
           At(j) == Out(p + j, arg, text \o rest(j))
           left == (n + 1) - p
           S == {j \in Nat : j <= left => out[m + j] = At(j)}
<1>1. n \in Nat /\ left \in Nat /\ p \in Nat \ {0} /\ p + left = n + 1 /\ m + left <= n
  OBVIOUS
<1> HIDE DEF n, left
<1>2. ASSUME NEW j \in 0..left
      PROVE  rest(j) \in Seq(Chars) /\ Len(rest(j)) = j /\ text \o rest(j) \in Seq(Chars)
  <2>1. \A i \in p..(p + j - 1) : fmt[i] \in Chars
    BY <1>1 DEF n
  <2>2. rest(j) \in Seq(Chars) /\ Len(rest(j)) = IF p <= p + j - 1 THEN p + j - 1 - p + 1 ELSE 0
    <3>1. p + j - 1 \in Int /\ p \in Int
      BY <1>1
    <3> QED BY <2>1, <3>1, SubSeqProperties
  <2>3. Len(rest(j)) = j
    <3> HIDE DEF rest
    <3> QED BY <1>1, <2>2
  <2> HIDE DEF rest
  <2> QED BY <2>2, <2>3, ConcatProperties
<1>3. out[m] = Out(p, arg, text)
      /\ \A k \in Nat : out[k + 1] = Turn(fmt, args)[out[k]]
  <2>1. out[m] = Out(p, arg, text)
    OBVIOUS
  <2>2. \A k \in Nat : out[k + 1] = Turn(fmt, args)[out[k]]
    BY OutputsDef
  <2> HIDE DEF out
  <2> QED BY <2>1, <2>2
<1> HIDE DEF out
<1>4. 0 \in S
  <2>1. rest(0) = <<>>
    BY <1>1, SubSeqEmpty
  <2>2. text \o <<>> = text
    BY ConcatEmptySeq
  <2>3. m + 0 = m /\ p + 0 = p
    OBVIOUS
  <2> HIDE DEF rest
  <2> QED BY <1>3, <2>1, <2>2, <2>3
<1>5. ASSUME NEW j \in Nat, j \in S PROVE j + 1 \in S
  <2> SUFFICES ASSUME j + 1 <= left PROVE out[m + (j + 1)] = At(j + 1)
    OBVIOUS
  <2>1. j \in 0..left /\ j + 1 \in 0..left /\ p + j \in p..n /\ p + j \in Nat /\ p + j <= Len(fmt)
        /\ m + (j + 1) = (m + j) + 1 /\ m + j \in Nat
    BY <1>1 DEF n
  <2>2. CharAt(fmt, p + j) = fmt[p + j] /\ fmt[p + j] \in Chars /\ fmt[p + j] # "%"
    BY <2>1 DEF CharAt, n
  <2>3. out[m + (j + 1)] = Turn(fmt, args)[At(j)]
    <3>1. out[m + j] = At(j)
      BY <1>5, <2>1
    <3> HIDE DEF At
    <3> QED BY <1>3, <2>1, <3>1
  <2>4. out[m + (j + 1)] = Out((p + j) + 1, arg, Append(text \o rest(j), fmt[p + j]))
    <3>1. text \o rest(j) \in Seq(Chars)
      BY <1>2, <2>1
    <3> DEFINE tx == text \o rest(j)
    <3> HIDE DEF tx
    <3>2. tx \in Seq(Chars) /\ At(j) = Out(p + j, arg, tx)
      BY <3>1 DEF tx
    <3> HIDE DEF At
    <3>3. PICK a \in Nat : a = p + j
      BY <2>1
    <3>4. Turn(fmt, args)[Out(a, arg, tx)] = Out(a + 1, arg, Append(tx, fmt[a]))
      <4>1. CharAt(fmt, a) # "%" /\ arg \in Nat
        BY <2>2, <3>3
      <4> QED BY <3>2, <4>1, TurnPlain
    <3> QED BY <2>3, <3>2, <3>3, <3>4 DEF tx
  <2>5. Append(text \o rest(j), fmt[p + j]) = text \o rest(j + 1)
    <3>1. rest(j) \in Seq(Chars) /\ Len(rest(j)) = j /\ rest(j + 1) \in Seq(Chars) /\ Len(rest(j + 1)) = j + 1
          /\ text \o rest(j) \in Seq(Chars)
      BY <1>2, <2>1
    <3>3. Append(text \o rest(j), fmt[p + j]) = text \o (rest(j) \o <<fmt[p + j]>>)
      <4>1. PICK c \in Chars : c = fmt[p + j]
        BY <2>2
      <4>2. PICK r \in Seq(Chars) : r = rest(j)
        BY <3>1
      <4>3. Append(text \o r, c) = text \o (r \o <<c>>)
        BY AppendRest
      <4> HIDE DEF rest
      <4> QED BY <4>1, <4>2, <4>3
    <3>4. rest(j + 1) = rest(j) \o <<fmt[p + j]>>
      <4>1. PICK hi \in Int : /\ hi = p + j /\ hi = p + (j + 1) - 1 /\ hi - 1 = p + j - 1
                              /\ hi \in p..Len(fmt) /\ p \in 1..Len(fmt)
        <5>1. /\ p + j \in p..Len(fmt) /\ p + j = p + (j + 1) - 1 /\ (p + j) - 1 = p + j - 1
              /\ p + j \in Int
          BY <2>1 DEF n
        <5>2. p \in 1..Len(fmt)
          BY <1>1, <2>1 DEF n
        <5> QED BY <5>1, <5>2
      <4>2. SubSeq(fmt, p, hi) = SubSeq(fmt, p, hi - 1) \o <<fmt[hi]>>
        BY <4>1, SubSeqRecursiveSecond
      <4> QED BY <4>1, <4>2
    <3> QED BY <3>3, <3>4
  <2>6. (p + j) + 1 = p + (j + 1)
    BY <1>1
  <2> HIDE DEF rest
  <2> QED BY <2>4, <2>5, <2>6
<1>6. \A j \in 0..left : out[m + j] = At(j)
  <2> HIDE DEF S
  <2>1. \A j \in Nat : j \in S
    BY <1>4, <1>5, AllNumbers
  <2> TAKE j \in 0..left
  <2>2. j \in Nat /\ j <= left
    BY <1>1
  <2> QED BY <2>1, <2>2 DEF S
<1> DEFINE go == [k \in Within(n) |-> CharAt(fmt, out[k].at) # NUL]
           t == m + left
<1>7. Turns(n, go) = t
  <2>1. ASSUME NEW i \in 0..(t - 1) PROVE go[i]
    <3>1. i \in Within(n)
      BY <1>1 DEF Within
    <3>2. CASE i < m
      <4>1. i \in 0..(m - 1)
        BY <3>2
      <4>2. CharAt(fmt, out[i].at) # NUL
        BY <4>1 DEF out
      <4> QED BY <3>1, <4>2
    <3>3. CASE ~(i < m)
      <4>1. PICK j \in 0..(left - 1) : i = m + j
        <5>1. i - m \in 0..(left - 1) /\ i = m + (i - m)
          BY <1>1, <3>3
        <5> QED BY <5>1
      <4>2. j \in 0..left /\ p + j \in p..Len(fmt) /\ p + j <= Len(fmt)
        BY <1>1 DEF n
      <4>3. out[i].at = p + j
        <5>1. out[i] = At(j)
          <6> HIDE DEF At
          <6> QED BY <1>6, <4>1, <4>2
        <5>2. At(j).at = p + j
          <6> HIDE DEF rest
          <6> QED BY DEF Out
        <5> HIDE DEF At
        <5> QED BY <5>1, <5>2
      <4>4. CharAt(fmt, p + j) = fmt[p + j] /\ fmt[p + j] \in Chars
        BY <4>2 DEF CharAt
      <4>5. CharAt(fmt, out[i].at) # NUL
        <5>1. NUL \notin Chars
          BY CharsAssumption, Zenon
        <5> QED BY <4>3, <4>4, <5>1
      <4> QED BY <3>1, <4>5
    <3> QED BY <3>2, <3>3
  <2>2. t = n \/ ~go[t]
    <3> SUFFICES ASSUME t # n PROVE ~go[t]
      OBVIOUS
    <3>0. t \in Nat /\ t <= n
      BY <1>1
    <3>1. t \in Within(n) /\ left \in 0..left
      <4>1. t \in Within(n)
        <5> HIDE DEF t
        <5> QED BY <1>1, <3>0 DEF Within
      <4> QED BY <1>1, <4>1
    <3>2. out[t].at = n + 1
      <4>1. out[t] = At(left)
        <5> HIDE DEF At
        <5> QED BY <1>6, <3>1
      <4>2. At(left).at = p + left
        <5> HIDE DEF rest
        <5> QED BY DEF Out
      <4> HIDE DEF At
      <4> QED BY <1>1, <4>1, <4>2
    <3>3. CharAt(fmt, n + 1) = NUL
      BY <1>1 DEF CharAt, n
    <3> HIDE DEF t
    <3> QED BY <3>1, <3>2, <3>3
  <2>3. t \in 0..n
    BY <1>1
  <2> HIDE DEF go, t
  <2> QED BY <1>1, <2>1, <2>2, <2>3, TurnsIs
<1>8. vprintfmt(fmt, args) = out[Turns(n, go)].text
  BY DEF vprintfmt, out, n, Outputs, Turn, Texts, Out
<1>9. out[t] = At(left)
  <2>1. left \in 0..left
    BY <1>1
  <2> HIDE DEF At
  <2> QED BY <1>6, <2>1
<1>10. At(left).text = text \o rest(left)
  <2> HIDE DEF rest
  <2> QED BY DEF Out
<1>11. p + left - 1 = n
  BY <1>1
<1>12. rest(left) = SubSeq(fmt, p, n)
  BY <1>11
<1> HIDE DEF go, t, At, rest
<1> QED BY <1>7, <1>8, <1>9, <1>10, <1>12 DEF n

-----------------------------------------------------------------------------
(* What is printed for %s, and what cprintf() makes of it. *)

(* The characters of a text that the code itself prints, one by one. *)
LEMMA CharsAre ==
  /\ NUL \notin Chars /\ DigitChars \subseteq Chars /\ Space \in Chars
  /\ {"-", "?", "%", "(", "n", "u", "l", ")", "0", "x", "z", "error", "message"} \subseteq Chars
<1>1. NUL \notin Chars /\ DigitChars \subseteq Chars /\ Space \in Chars
  BY CharsAssumption, Zenon
<1>2. {"-", "?", "%", "(", "n", "u", "l", ")", "x", "z", "error", "message"} \subseteq Chars
  BY CharsAssumption, Zenon
<1>3. "0" \in Chars
  <2>1. 0 \in 0..15 /\ 0 + 1 = 1
    OBVIOUS
  <2>2. Digits[1] \in DigitChars /\ Digits[1] = "0"
    BY <2>1, DigitsAre
  <2> QED BY <1>1, <2>2
<1>4. {"-", "?", "%", "(", "n", "u", "l", ")", "0", "x", "z", "error", "message"} \subseteq Chars
  BY <1>2, <1>3, Zenon
<1> QED BY <1>1, <1>4

(* What %s prints, with its precision, width and padding. *)
Shown(a) == IF a = NullString THEN <<"(", "n", "u", "l", "l", ")">> ELSE a
Cut(precision, a) == IF precision < 0 \/ Len(Shown(a)) < precision THEN Len(Shown(a)) ELSE precision

(* What is shown of a string is the start of a text. *)
LEMMA ShownType ==
  ASSUME NEW a \in Seq(Chars) \union {NullString}, NEW precision \in Int
  PROVE  /\ Shown(a) \in Seq(Chars) /\ Cut(precision, a) \in 0..Len(Shown(a))
         /\ SubSeq(Shown(a), 1, Cut(precision, a)) \in Seq(Chars)
         /\ Len(SubSeq(Shown(a), 1, Cut(precision, a))) = Cut(precision, a)
<1>1. Shown(a) \in Seq(Chars)
  <2>1. CASE a = NullString
    <3>1. "(" \in Chars /\ "n" \in Chars /\ "u" \in Chars /\ "l" \in Chars /\ ")" \in Chars
      BY CharsAre, Zenon
    <3>2. <<"(", "n", "u", "l", "l", ")">> \in Seq(Chars)
      BY <3>1
    <3> QED BY <2>1, <3>2 DEF Shown
  <2>2. CASE a # NullString
    BY <2>2 DEF Shown
  <2> QED BY <2>1, <2>2
<1> DEFINE s == Shown(a)
           n == Cut(precision, a)
<1>2. Len(s) \in Nat
  BY <1>1
<1>3. n \in 0..Len(s)
  BY <1>2 DEF Cut
<1> HIDE DEF s, n
<1>4. \A i \in 1..n : s[i] \in Chars
  <2>1. \A i \in 1..n : i \in 1..Len(s)
    BY <1>2, <1>3
  <2> QED BY <1>1, <2>1, ElementOfSeq DEF s
<1>5. SubSeq(s, 1, n) \in Seq(Chars) /\ Len(SubSeq(s, 1, n)) = IF 1 <= n THEN n - 1 + 1 ELSE 0
  <2>1. n \in Int
    BY <1>2, <1>3
  <2> QED BY <1>4, <2>1, SubSeqProperties
<1>6. Len(SubSeq(s, 1, n)) = n
  BY <1>2, <1>3, <1>5
<1> QED BY <1>1, <1>3, <1>5, <1>6 DEF s, n

(* %s without '#' prints that, padded in front or behind. *)
LEMMA StringIs ==
  ASSUME NEW a \in Seq(Chars) \union {NullString}, NEW e, e.width \in Int, e.precision \in Int,
         ~e.altflag
  PROVE  String(e, a) =
           IF e.width > 0 /\ e.padc # "-"
           THEN Repeat(e.padc, e.width - Cut(e.precision, a))
                  \o SubSeq(Shown(a), 1, Cut(e.precision, a))
           ELSE SubSeq(Shown(a), 1, Cut(e.precision, a)) \o Repeat(Space, e.width - Cut(e.precision, a))
<1> DEFINE p == Shown(a)
           n == Cut(e.precision, a)
           shown == [k \in 1..n |-> IF e.altflag /\ ~Printable(p[k]) THEN "?" ELSE p[k]]
<1>1. p \in Seq(Chars) /\ n \in 0..Len(p) /\ SubSeq(p, 1, n) \in Seq(Chars) /\ Len(SubSeq(p, 1, n)) = n
  BY ShownType
<1>2. shown = [k \in 1..n |-> p[k]]
  <2> HIDE DEF p, n
  <2> QED OBVIOUS
<1>3. SubSeq(p, 1, n) = [k \in 1..n |-> p[k]]
  <2> HIDE DEF p, n
  <2>1. \A i \in 1..n : p[i] \in Chars
    <3>1. \A i \in 1..n : i \in 1..Len(p)
      BY <1>1
    <3> QED BY <1>1, <3>1, ElementOfSeq
  <2>2. \A i \in 1..n - 1 + 1 : SubSeq(p, 1, n)[i] = p[1 + i - 1]
    <3>1. n \in Int
      BY <1>1
    <3> QED BY <2>1, <3>1, SubSeqProperties
  <2>3. \A i \in 1..n : SubSeq(p, 1, n)[i] = p[i]
    <3>1. n - 1 + 1 = n /\ \A i \in 1..n : 1 + i - 1 = i
      BY <1>1
    <3> QED BY <2>2, <3>1
  <2>4. SubSeq(p, 1, n) = [i \in 1..n |-> SubSeq(p, 1, n)[i]]
    <3> DEFINE t == SubSeq(p, 1, n)
    <3>1. t \in Seq(Chars) /\ Len(t) = n
      BY <1>1
    <3> HIDE DEF t
    <3>2. t = [i \in 1..Len(t) |-> t[i]]
      BY <3>1
    <3> QED BY <3>1, <3>2 DEF t
  <2> QED BY <2>3, <2>4
<1>4. String(e, a) = IF e.width > 0 /\ e.padc # "-" THEN Repeat(e.padc, e.width - n) \o shown
                     ELSE shown \o Repeat(Space, e.width - n)
  BY DEF String, Shown, Cut
<1> HIDE DEF shown, n, p
<1> QED BY <1>2, <1>3, <1>4 DEF n, p

-----------------------------------------------------------------------------
(* cputchar() gets one character after the other. *)
LEMMA PutIs ==
  ASSUME NEW X, NEW text \in Seq(X)
  PROVE  Put([printed |-> <<>>, cnt |-> 0], text).printed = text
<1> DEFINE n == Len(text)
           con == [printed |-> <<>>, cnt |-> 0]
           Is(f) == f = [k \in 0..n |-> IF k = 0 THEN con ELSE putch(f[k - 1], text[k])]
           w == [k \in 0..n |-> [printed |-> SubSeq(text, 1, k), cnt |-> 0]]
           v == CHOOSE f : Is(f)
           S == {k \in Nat : k <= n => v[k] = w[k]}
<1>1. n \in Nat
  OBVIOUS
<1> HIDE DEF n
<1>2. ASSUME NEW k \in 0..n PROVE w[k] = IF k = 0 THEN con ELSE putch(w[k - 1], text[k])
  <2>1. CASE k = 0
    <3>1. SubSeq(text, 1, 0) = <<>>
      BY SubSeqEmpty
    <3> QED BY <1>1, <2>1, <3>1
  <2>2. CASE k # 0
    <3>1. k \in 1..Len(text) /\ 1 \in 1..Len(text) /\ k \in 1..Len(text) /\ k - 1 \in 0..n
      BY <1>1, <2>2 DEF n
    <3>2. SubSeq(text, 1, k) = SubSeq(text, 1, k - 1) \o <<text[k]>>
      BY <3>1, SubSeqRecursiveSecond
    <3>3. SubSeq(text, 1, k - 1) \in Seq(X)
      <4>1. \A i \in 1..(k - 1) : text[i] \in X
        <5>1. \A i \in 1..(k - 1) : i \in 1..Len(text)
          BY <3>1
        <5> QED BY <5>1, ElementOfSeq
      <4>2. k - 1 \in Int
        BY <3>1
      <4> QED BY <4>1, <4>2, SubSeqProperties
    <3>4. text[k] \in X
      BY <3>1, ElementOfSeq
    <3>5. Append(SubSeq(text, 1, k - 1), text[k]) = SubSeq(text, 1, k)
      <4>1. PICK s \in Seq(X), c \in X : s = SubSeq(text, 1, k - 1) /\ c = text[k]
        BY <3>3, <3>4
      <4>2. Append(s, c) = s \o <<c>>
        BY AppendIsConcat
      <4> QED BY <3>2, <4>1, <4>2
    <3>6. /\ w[k - 1] = [printed |-> SubSeq(text, 1, k - 1), cnt |-> 0]
          /\ w[k] = [printed |-> SubSeq(text, 1, k), cnt |-> 0]
      BY <3>1
    <3>7. ASSUME NEW s, NEW c
          PROVE  putch([printed |-> s, cnt |-> 0], c) = [printed |-> Append(s, c), cnt |-> 0]
      <4> DEFINE old == [printed |-> s, cnt |-> 0]
      <4>1. old \in [printed : {s}, cnt : {0}] /\ old.printed = s
        OBVIOUS
      <4> HIDE DEF old
      <4>2. putch(old, c) \in [printed : {Append(s, c)}, cnt : {0}]
        BY <4>1 DEF putch
      <4>3. \A r \in [printed : {Append(s, c)}, cnt : {0}] : r = [printed |-> Append(s, c), cnt |-> 0]
        OBVIOUS
      <4> QED BY <4>2, <4>3 DEF old
    <3> HIDE DEF w
    <3> QED BY <2>2, <3>5, <3>6, <3>7
  <2> QED BY <2>1, <2>2
<1>3. Is(w)
  <2>1. w = [k \in 0..n |-> w[k]]
    OBVIOUS
  <2> HIDE DEF w
  <2> QED BY <1>2, <2>1
<1>4. Is(v)
  <2> HIDE DEF Is, w
  <2> QED BY <1>3
<1>5. Put(con, text) = v[n]
  BY DEF Put, n
<1> HIDE DEF v, w, con
<1>6. 0 \in S
  BY <1>1, <1>3, <1>4
<1>7. ASSUME NEW k \in Nat, k \in S PROVE k + 1 \in S
  <2> SUFFICES ASSUME k + 1 <= n PROVE v[k + 1] = w[k + 1]
    OBVIOUS
  <2>1. k + 1 \in 0..n /\ k + 1 # 0 /\ (k + 1) - 1 = k /\ v[k] = w[k]
    BY <1>1, <1>7
  <2>2. v[k + 1] = putch(v[k], text[k + 1])
    BY <1>4, <2>1
  <2>3. w[k + 1] = putch(w[k], text[k + 1])
    BY <1>3, <2>1
  <2> QED BY <2>1, <2>2, <2>3
<1>8. n \in S
  <2> HIDE DEF S
  <2>1. \A k \in Nat : k \in S
    BY <1>6, <1>7, AllNumbers
  <2> QED BY <1>1, <2>1
<1>9. v[n] = w[n]
  BY <1>1, <1>8
<1>10. w[n] = [printed |-> SubSeq(text, 1, n), cnt |-> 0]
  BY <1>1 DEF w
<1>11. SubSeq(text, 1, n) = text
  BY SubSeqFull DEF n
<1>12. Put(con, text).printed = text
  BY <1>5, <1>9, <1>10, <1>11
<1> QED BY <1>12 DEF con

-----------------------------------------------------------------------------
(* vsnprintf(). *)

(* The buffer with the first characters of the text in it. *)
Stored(buf, k, text) == [x \in DOMAIN buf |-> IF x \in Within(k) THEN text[x + 1] ELSE buf[x]]
Room(n, k) == IF k < n - 1 THEN k ELSE n - 1

(* sprintputch() stores the first n - 1 characters and counts all of them. *)
LEMMA StoreIs ==
  ASSUME NEW buf, NEW V, buf \in [DOMAIN buf -> V], DOMAIN buf \subseteq Int, NEW n \in Nat \ {0},
         Within(n) \subseteq DOMAIN buf, NEW text, Len(text) \in Nat
  PROVE  Store([buf |-> buf, at |-> 0, cnt |-> 0], n, text)
           = [buf |-> Stored(buf, Room(n, Len(text)), text), at |-> Room(n, Len(text)),
             cnt |-> Len(text)]
<1> DEFINE m == Len(text)
           b == [buf |-> buf, at |-> 0, cnt |-> 0]
           Is(f) == f = [k \in 0..m |-> IF k = 0 THEN b ELSE sprintputch(f[k - 1], n, text[k])]
           At(k) == [buf |-> Stored(buf, Room(n, k), text), at |-> Room(n, k), cnt |-> k]
           w == [k \in 0..m |-> At(k)]
           v == CHOOSE f : Is(f)
           S == {k \in Nat : k <= m => v[k] = w[k]}
<1>1. m \in Nat
  OBVIOUS
<1> HIDE DEF m
<1>2. ASSUME NEW k \in Nat
      PROVE  sprintputch(At(k), n, text[k + 1]) = At(k + 1)
  <2> DEFINE old == Stored(buf, Room(n, k), text)
             a == Room(n, k)
  <2>1. a \in Nat /\ a \in DOMAIN buf
    BY DEF Room, Within
  <2>2. sprintputch(At(k), n, text[k + 1])
          = [buf |-> IF a < n - 1 THEN [old EXCEPT ![a] = text[k + 1]] ELSE old,
             at |-> IF a < n - 1 THEN a + 1 ELSE a, cnt |-> k + 1]
    <3>1. At(k).buf = old /\ At(k).at = a /\ At(k).cnt = k
      <4> HIDE DEF old, a
      <4> QED BY DEF old, a
    <3> HIDE DEF At, old, a
    <3> QED BY <3>1 DEF sprintputch
  <2>3. Room(n, k + 1) = IF a < n - 1 THEN a + 1 ELSE a
    BY DEF Room
  <2>4. a < n - 1 => a = k
    BY DEF Room
  <2>5. (IF a < n - 1 THEN [old EXCEPT ![a] = text[k + 1]] ELSE old) = Stored(buf, Room(n, k + 1), text)
    <3>1. CASE a < n - 1
      <4> DEFINE e == [old EXCEPT ![k] = text[k + 1]]
                 new == Stored(buf, k + 1, text)
      <4>1. old = Stored(buf, k, text) /\ Room(n, k + 1) = k + 1 /\ a = k
        BY <2>3, <2>4, <3>1
      <4>2. /\ old = [x \in DOMAIN buf |-> old[x]]
            /\ \A x \in DOMAIN buf : old[x] = IF x \in Within(k) THEN text[x + 1] ELSE buf[x]
        BY <4>1 DEF Stored
      <4>3. /\ new = [x \in DOMAIN buf |-> new[x]]
            /\ \A x \in DOMAIN buf : new[x] = IF x \in Within(k + 1) THEN text[x + 1] ELSE buf[x]
        BY DEF Stored
      <4>4. ASSUME NEW x \in DOMAIN buf PROVE (IF x = k THEN text[k + 1] ELSE old[x]) = new[x]
        <5>1. x \in Within(k + 1) <=> x = k \/ x \in Within(k)
          BY DEF Within
        <5> HIDE DEF old, new
        <5> QED BY <4>2, <4>3, <5>1
      <4> HIDE DEF new, old, a
      <4>5. e = [x \in DOMAIN buf |-> IF x = k THEN text[k + 1] ELSE old[x]]
        BY <4>2
      <4>6. e = [x \in DOMAIN buf |-> new[x]]
        <5> HIDE DEF e
        <5> QED BY <4>4, <4>5
      <4>7. e = new
        <5> HIDE DEF e
        <5> QED BY <4>3, <4>6
      <4> QED BY <3>1, <4>1, <4>7 DEF new
    <3>2. CASE ~(a < n - 1)
      <4> HIDE DEF a
      <4> QED BY <2>3, <3>2 DEF a
    <3> QED BY <3>1, <3>2
  <2> HIDE DEF old, a
  <2> QED BY <2>2, <2>3, <2>5
<1>3. At(0) = b
  <2>1. Room(n, 0) = 0
    BY DEF Room
  <2>2. Stored(buf, 0, text) = buf
    <3>1. \A x : x \notin Within(0)
      BY DEF Within
    <3>2. Stored(buf, 0, text) = [x \in DOMAIN buf |-> buf[x]]
      BY <3>1 DEF Stored
    <3> QED BY <3>2
  <2> QED BY <2>1, <2>2
<1> HIDE DEF At
<1>4. ASSUME NEW k \in 0..m PROVE w[k] = IF k = 0 THEN b ELSE sprintputch(w[k - 1], n, text[k])
  <2>1. CASE k = 0
    BY <1>1, <1>3, <2>1
  <2>2. CASE k # 0
    <3>1. PICK j \in Nat : j = k - 1 /\ j + 1 = k /\ j \in 0..m
      BY <1>1, <2>2
    <3>2. w[j] = At(j) /\ w[k] = At(j + 1)
      BY <3>1
    <3>3. sprintputch(At(j), n, text[j + 1]) = At(j + 1)
      BY <1>2
    <3> HIDE DEF w
    <3> QED BY <2>2, <3>1, <3>2, <3>3
  <2> QED BY <2>1, <2>2
<1>5. Is(w)
  <2>1. w = [k \in 0..m |-> w[k]]
    OBVIOUS
  <2> HIDE DEF w, b
  <2> QED BY <1>4, <2>1
<1>6. Is(v)
  <2> HIDE DEF Is, w
  <2> QED BY <1>5
<1>7. Store(b, n, text) = v[m]
  BY DEF Store, m
<1> HIDE DEF v, w, b
<1>8. 0 \in S
  BY <1>1, <1>5, <1>6
<1>9. ASSUME NEW k \in Nat, k \in S PROVE k + 1 \in S
  <2> SUFFICES ASSUME k + 1 <= m PROVE v[k + 1] = w[k + 1]
    OBVIOUS
  <2>1. k + 1 \in 0..m /\ k + 1 # 0 /\ (k + 1) - 1 = k /\ v[k] = w[k]
    BY <1>1, <1>9
  <2>2. v[k + 1] = sprintputch(v[k], n, text[k + 1])
    BY <1>6, <2>1
  <2>3. w[k + 1] = sprintputch(w[k], n, text[k + 1])
    BY <1>5, <2>1
  <2> QED BY <2>1, <2>2, <2>3
<1>10. m \in S
  <2> HIDE DEF S
  <2>1. \A k \in Nat : k \in S
    BY <1>8, <1>9, AllNumbers
  <2> QED BY <1>1, <2>1
<1>11. v[m] = w[m] /\ w[m] = At(m)
  BY <1>1, <1>10 DEF w
<1> QED BY <1>7, <1>11 DEF b, At, m

(* A text that begins with an escape, and has none behind it. *)
LEMMA PercentFirst ==
  ASSUME NEW X, NEW fmt \in Seq(X), NEW args, CharAt(fmt, 1) = "%",
         NEW t \in Seq(Chars), NEW y \in 2..(Len(fmt) + 1), NEW z \in Nat,
         Escape(fmt, args, 2, 1) = [text |-> t, at |-> y, arg |-> z],
         \A i \in y..Len(fmt) : fmt[i] \in Chars /\ fmt[i] # "%"
  PROVE  vprintfmt(fmt, args) = t \o SubSeq(fmt, y, Len(fmt))
<1> DEFINE out == Outputs(fmt, args)
<1>1. Len(fmt) \in Nat /\ y \in Nat /\ y \in 1..(Len(fmt) + 1) /\ 1 < y
  OBVIOUS
<1>2. out[0] = Out(1, 1, <<>>) /\ out[0 + 1] = Turn(fmt, args)[out[0]]
  <2>1. \A k \in Nat : Outputs(fmt, args)[k + 1] = Turn(fmt, args)[Outputs(fmt, args)[k]]
    BY OutputsDef
  <2>2. out[0 + 1] = Turn(fmt, args)[out[0]]
    <3>1. 0 \in Nat
      OBVIOUS
    <3> QED BY <2>1, <3>1
  <2>3. out[0] = Out(1, 1, <<>>)
    BY OutputsDef
  <2> HIDE DEF out
  <2> QED BY <2>2, <2>3
<1>3. <<>> \in Seq(Chars) /\ <<>> \o t = t
  BY ConcatEmptySeq
<1>4. Turn(fmt, args)[Out(1, 1, <<>>)] = Out(y, z, <<>> \o t)
  <2>1. PICK at \in Nat, arg \in Nat : at = 1 /\ arg = 1 /\ at + 1 = 2
    OBVIOUS
  <2>2. PICK s \in Seq(Chars) : s = <<>>
    BY <1>3
  <2>3. CharAt(fmt, at) = "%" /\ Escape(fmt, args, at + 1, arg) = [text |-> t, at |-> y, arg |-> z]
    BY <2>1
  <2>4. Turn(fmt, args)[Out(at, arg, s)] = Out(y, z, s \o t)
    BY <2>3, TurnEscape
  <2> QED BY <2>1, <2>2, <2>4
<1>5. Outputs(fmt, args)[1] = Out(y, z, t)
  <2>1. 0 + 1 = 1
    OBVIOUS
  <2> HIDE DEF out
  <2> QED BY <1>2, <1>3, <1>4, <2>1 DEF out
<1>6. \A k \in 0..(1 - 1) : CharAt(fmt, Outputs(fmt, args)[k].at) # NUL
  <2>1. CharAt(fmt, out[0].at) = "%"
    <3>1. Out(1, 1, <<>>).at = 1
      BY DEF Out
    <3> HIDE DEF out
    <3> QED BY <1>2, <3>1
  <2>2. "%" # NUL
    BY DEF NUL
  <2>3. \A k \in 0..(1 - 1) : k = 0
    OBVIOUS
  <2> QED BY <2>1, <2>2, <2>3
<1>7. 1 \in Nat
  OBVIOUS
<1> HIDE DEF out
<1> QED BY <1>1, <1>5, <1>6, <1>7, PlainRest

(* Which characters the switch goes round for, and which end it. *)
LEMMA SwitchIs ==
  /\ Decimals = {"0", "1", "2", "3", "4", "5", "6", "7", "8", "9"}
  /\ Flags = Decimals \union {"-", "*", ".", "#", "l"}
  /\ \A c \in Conversions : c \notin Flags /\ c # "z"
  /\ "z" \notin Flags /\ "z" \notin Conversions /\ NUL \notin Flags /\ NUL \notin Conversions
<1>1. Decimals = {"0", "1", "2", "3", "4", "5", "6", "7", "8", "9"}
  <2>1. \A c : c \in Decimals <=> \E k \in 1..10 : c = Digits[k]
    BY DEF Decimals
  <2>2. /\ Digits[1] = "0" /\ Digits[2] = "1" /\ Digits[3] = "2" /\ Digits[4] = "3" /\ Digits[5] = "4"
        /\ Digits[6] = "5" /\ Digits[7] = "6" /\ Digits[8] = "7" /\ Digits[9] = "8" /\ Digits[10] = "9"
    BY DEF Digits
  <2>3. \A k \in 1..10 : k = 1 \/ k = 2 \/ k = 3 \/ k = 4 \/ k = 5 \/ k = 6 \/ k = 7 \/ k = 8
                        \/ k = 9 \/ k = 10
    OBVIOUS
  <2>4. 1 \in 1..10 /\ 2 \in 1..10 /\ 3 \in 1..10 /\ 4 \in 1..10 /\ 5 \in 1..10 /\ 6 \in 1..10
        /\ 7 \in 1..10 /\ 8 \in 1..10 /\ 9 \in 1..10 /\ 10 \in 1..10
    OBVIOUS
  <2>5. ASSUME NEW c PROVE c \in Decimals <=> c \in {"0", "1", "2", "3", "4", "5", "6", "7", "8", "9"}
    BY <2>1, <2>2, <2>3, <2>4
  <2> QED BY <2>5
<1>2. Flags = Decimals \union {"-", "*", ".", "#", "l"}
  BY DEF Flags
<1>3. Conversions = {"c", "e", "s", "d", "u", "o", "p", "x", "%"} /\ NUL = "NUL"
  BY DEF Conversions, NUL
<1> QED BY <1>1, <1>2, <1>3

(* %s in the format of a call of snprintf(). *)
LEMMA StringText ==
  ASSUME NEW a \in Seq(Chars), a # NullString
  PROVE  vprintfmt(<<"z", "%", "s">>, <<a>>) = <<"z">> \o a
<1> DEFINE fmt == <<"z", "%", "s">>
           args == <<a>>
           X == {"z", "%", "s"}
           out == Outputs(fmt, args)
<1>1. /\ fmt \in Seq(X) /\ Len(fmt) = 3 /\ CharAt(fmt, 1) = "z" /\ CharAt(fmt, 2) = "%"
      /\ CharAt(fmt, 3) = "s"
      /\ fmt[1] = "z" /\ args[1] = a
  BY DEF CharAt
<1> HIDE DEF fmt, args
<1>2. String(Opened(3, 1), a) = a
  <2> DEFINE o == Opened(3, 1)
  <2>1. o.width = -1 /\ o.precision = -1 /\ ~o.altflag
    BY DEF Opened
  <2>2. Shown(a) = a /\ Cut(-1, a) = Len(a)
    BY DEF Shown, Cut
  <2>3. String(o, a) = SubSeq(Shown(a), 1, Cut(-1, a)) \o Repeat(Space, -1 - Cut(-1, a))
    <3>1. a \in Seq(Chars) \union {NullString} /\ o.width \in Int /\ o.precision \in Int
      BY <2>1
    <3>2. PICK b \in Seq(Chars) \union {NullString} : b = a
      BY <3>1
    <3>0. PICK e : e = o
      OBVIOUS
    <3> HIDE DEF o
    <3>3. String(e, b) =
           IF e.width > 0 /\ e.padc # "-"
           THEN Repeat(e.padc, e.width - Cut(e.precision, b))
                  \o SubSeq(Shown(b), 1, Cut(e.precision, b))
           ELSE SubSeq(Shown(b), 1, Cut(e.precision, b)) \o Repeat(Space, e.width - Cut(e.precision, b))
      BY <2>1, <3>0, <3>1, <3>2, StringIs
    <3>4. ~(e.width > 0)
      BY <2>1, <3>0
    <3> QED BY <2>1, <3>0, <3>2, <3>3, <3>4
  <2>4. SubSeq(a, 1, Len(a)) = a
    BY SubSeqFull
  <2>5. Repeat(Space, -1 - Len(a)) = <<>>
    <3>1. -1 - Len(a) <= 0
      OBVIOUS
    <3> QED BY <3>1 DEF Repeat
  <2>6. a \o <<>> = a
    BY ConcatEmptySeq
  <2> HIDE DEF o
  <2> QED BY <2>2, <2>3, <2>4, <2>5, <2>6 DEF o
<1>3. Escape(fmt, args, 3, 1) = [text |-> a, at |-> 4, arg |-> 2]
  <2> DEFINE o == Opened(3, 1)
  <2>1. o.at = 3 /\ o.arg = 1
    BY DEF Opened
  <2>2. "s" \notin Flags /\ "s" \in Conversions
    BY SwitchIs, Zenon DEF Conversions
  <2>3. o = Taken(fmt, args, 3, 1)[0]
    BY TakenDef
  <2>4. Escape(fmt, args, 3, 1) =
           IF CharAt(fmt, o.at) \in Conversions
           THEN [text |-> Convert(CharAt(fmt, o.at), o, args[o.arg]), at |-> o.at + 1,
                 arg |-> IF CharAt(fmt, o.at) = "%" THEN o.arg ELSE o.arg + 1]
           ELSE Unknown(3, o)
    <3>1. 0 \in 0..Len(fmt) /\ Len(fmt) \in Nat /\ \A k \in 0..(0 - 1) : FALSE
      BY <1>1
    <3>2. CharAt(fmt, o.at) \notin Flags
      BY <1>1, <2>1, <2>2
    <3> HIDE DEF o
    <3> QED BY <2>3, <3>1, <3>2, EscapeIs
  <2>5. Convert("s", o, a) = a
    BY <1>2 DEF Convert
  <2>6. "s" # "%" /\ 3 + 1 = 4 /\ 1 + 1 = 2
    OBVIOUS
  <2> HIDE DEF o
  <2> QED BY <1>1, <2>1, <2>2, <2>4, <2>5, <2>6
<1>4. out[0] = Out(1, 1, <<>>) /\ \A k \in Nat : out[k + 1] = Turn(fmt, args)[out[k]]
  <2>1. out[0] = Out(1, 1, <<>>)
    BY OutputsDef
  <2>2. \A k \in Nat : out[k + 1] = Turn(fmt, args)[out[k]]
    BY OutputsDef
  <2> QED BY <2>1, <2>2
<1>5. <<"z">> \in Seq(Chars) /\ <<"z">> \o a \in Seq(Chars) /\ <<>> \in Seq(Chars)
  <2>1. "z" \in Chars
    BY CharsAre, Zenon
  <2>2. <<"z">> \in Seq(Chars)
    BY <2>1
  <2> QED BY <2>2, ConcatProperties
<1> HIDE DEF out
<1>6. out[1] = Out(2, 1, <<"z">>)
  <2>1. PICK at \in Nat, arg \in Nat : at = 1 /\ arg = 1 /\ at + 1 = 2
    OBVIOUS
  <2>2. PICK s \in Seq(Chars) : s = <<>>
    BY <1>5
  <2>3. CharAt(fmt, at) # "%"
    BY <1>1, <2>1
  <2>4. Turn(fmt, args)[Out(at, arg, s)] = Out(at + 1, arg, Append(s, fmt[at]))
    BY <2>3, TurnPlain
  <2>5. Append(s, fmt[at]) = <<"z">>
    BY <1>1, <2>1, <2>2
  <2>6. 0 + 1 = 1 /\ 0 \in Nat
    OBVIOUS
  <2>7. out[0 + 1] = Turn(fmt, args)[out[0]]
    BY <1>4, <2>6
  <2> QED BY <1>4, <2>1, <2>2, <2>4, <2>5, <2>6, <2>7
<1>7. out[2] = Out(4, 2, <<"z">> \o a)
  <2>1. PICK at \in Nat, arg \in Nat : at = 2 /\ arg = 1 /\ at + 1 = 3
    OBVIOUS
  <2>2. PICK s \in Seq(Chars) : s = <<"z">>
    BY <1>5
  <2>3. CharAt(fmt, at) = "%" /\ Escape(fmt, args, at + 1, arg) = [text |-> a, at |-> 4, arg |-> 2]
    BY <1>1, <1>3, <2>1
  <2>4. Turn(fmt, args)[Out(at, arg, s)] = Out(4, 2, s \o a)
    BY <2>3, TurnEscape
  <2>5. 1 + 1 = 2 /\ 1 \in Nat
    OBVIOUS
  <2>6. out[1 + 1] = Turn(fmt, args)[out[1]]
    BY <1>4, <2>5
  <2> QED BY <1>6, <2>1, <2>2, <2>4, <2>5, <2>6
<1>8. vprintfmt(fmt, args) = (<<"z">> \o a) \o SubSeq(fmt, 4, Len(fmt))
  <2>1. PICK m \in Nat, p \in 1..(Len(fmt) + 1), z \in Nat : m = 2 /\ p = 4 /\ z = 2 /\ m < p
    BY <1>1
  <2>2. \A k \in 0..(m - 1) : CharAt(fmt, Outputs(fmt, args)[k].at) # NUL
    <3>1. \A k \in 0..(m - 1) : k = 0 \/ k = 1
      BY <2>1
    <3>2. out[0].at = 1 /\ out[1].at = 2
      <4>1. Out(1, 1, <<>>).at = 1 /\ Out(2, 1, <<"z">>).at = 2
        BY DEF Out
      <4> QED BY <1>4, <1>6, <4>1
    <3>3. "z" # NUL /\ "%" # NUL
      BY DEF NUL
    <3> QED BY <1>1, <3>1, <3>2, <3>3 DEF out
  <2>3. PICK tx \in Seq(Chars) : tx = <<"z">> \o a
    BY <1>5
  <2>4. Outputs(fmt, args)[m] = Out(p, z, tx)
    BY <1>7, <2>1, <2>3 DEF out
  <2>5. \A i \in p..Len(fmt) : fmt[i] \in Chars /\ fmt[i] # "%"
    BY <1>1, <2>1
  <2>6. fmt \in Seq(X)
    BY <1>1
  <2> HIDE DEF X
  <2>7. vprintfmt(fmt, args) = tx \o SubSeq(fmt, p, Len(fmt))
    BY <2>1, <2>2, <2>4, <2>5, <2>6, PlainRest
  <2> QED BY <2>1, <2>3, <2>7
<1>9. SubSeq(fmt, 4, Len(fmt)) = <<>>
  BY <1>1, SubSeqEmpty
<1>10. (<<"z">> \o a) \o <<>> = <<"z">> \o a
  BY <1>5, ConcatEmptySeq
<1> QED BY <1>8, <1>9, <1>10 DEF fmt, args

(* vsnprintf() keeps its promise. *)
LEMMA SnprintfBounded ==
  ASSUME Returned
  PROVE  BufferBounded
<1> SUFFICES ASSUME done, call.op = "snprintf" PROVE BufferBounded
  BY DEF BufferBounded, Did
<1> DEFINE c == call
           text == <<"z">> \o c.a
           fits == IF Len(text) < c.n THEN Len(text) ELSE c.n - 1
<1>1. Legal(c) /\ result = Do(c)
  BY CallsAssumption DEF Returned
<1>2. /\ c.n \in Int /\ Within(c.n) \subseteq DOMAIN c.buf /\ DOMAIN c.buf \subseteq Int
      /\ c.buf \in [DOMAIN c.buf -> Chars \union {NUL}]
      /\ c.a \in Seq(Chars) /\ c.a # NullString
  <2>1. c.a \in Seq(Chars) \ {NullString}
    BY <1>1 DEF Legal
  <2> QED BY <1>1, <2>1 DEF Legal
<1>3. result = vsnprintf(c.buf, c.n, <<"z", "%", "s">>, <<c.a>>)
  BY <1>1 DEF Do
<1>4. vprintfmt(<<"z", "%", "s">>, <<c.a>>) = text
  BY <1>2, StringText
<1>5. Len(text) \in Nat
  <2>1. <<"z">> \in Seq(Chars)
    <3>1. "z" \in Chars
      BY CharsAre, Zenon
    <3> QED BY <3>1
  <2>2. text \in Seq(Chars)
    BY <1>2, <2>1, ConcatProperties
  <2> HIDE DEF text
  <2> QED BY <2>2
<1> HIDE DEF text
<1>6. CASE c.n < 1
  <2>1. result = [buf |-> c.buf, ret |-> -E_INVAL]
    BY <1>3, <1>6 DEF vsnprintf
  <2> QED BY <1>6, <2>1 DEF BufferBounded
<1>7. CASE ~(c.n < 1)
  <2> DEFINE b == Store([buf |-> c.buf, at |-> 0, cnt |-> 0], c.n, text)
             k == Room(c.n, Len(text))
             old == Stored(c.buf, k, text)
  <2>1. c.n \in Nat \ {0}
    BY <1>2, <1>7
  <2>2. b = [buf |-> old, at |-> k, cnt |-> Len(text)]
    BY <1>2, <1>5, <2>1, StoreIs
  <2>3. k = fits /\ k \in Within(c.n)
    BY <1>5, <2>1 DEF Room, Within
  <2>4. result = [buf |-> [b.buf EXCEPT ![b.at] = NUL], ret |-> b.cnt]
    <3> HIDE DEF b
    <3> QED BY <1>3, <1>4, <1>7 DEF vsnprintf, b
  <2>5. b.buf = old /\ b.at = k /\ b.cnt = Len(text)
    <3> HIDE DEF b, old, k
    <3> QED BY <2>2
  <2>6. old = [a \in DOMAIN c.buf |-> IF a \in Within(k) THEN text[a + 1] ELSE c.buf[a]]
    BY DEF Stored
  <2> HIDE DEF b, old, k, fits
  <2>7. result.ret = Len(text) /\ result.buf = [old EXCEPT ![k] = NUL]
    BY <2>4, <2>5
  <2>8. ASSUME NEW a \in DOMAIN c.buf
        PROVE  result.buf[a] = IF a \in Within(fits) THEN text[a + 1]
                               ELSE IF a = fits THEN NUL ELSE c.buf[a]
    <3>1. old[a] = IF a \in Within(k) THEN text[a + 1] ELSE c.buf[a]
      BY <2>6
    <3>2. result.buf[a] = IF a = k THEN NUL ELSE old[a]
      BY <2>6, <2>7
    <3>3. k \notin Within(k)
      <4>1. k \in Int
        BY <1>2, <2>3 DEF Within
      <4> QED BY <4>1 DEF Within
    <3> QED BY <2>3, <3>1, <3>2, <3>3
  <2> QED BY <1>7, <2>7, <2>8 DEF BufferBounded, text, fits
<1> QED BY <1>6, <1>7

(* vsnprintf() never stores more than fits in the n bytes it is given, ends what it
   stores, leaves all other bytes alone and returns the length of the whole text, for
   a buffer and a string of any size. *)
THEOREM BufferBoundedCorrect == Spec => []BufferBounded
BY ReturnedInvariant, SnprintfBounded, PTL

-----------------------------------------------------------------------------
(* strtol(): the loop that reads digits. *)

(* Zero is zero with any number of bits. *)
LEMMA SignedZero ==
  ASSUME NEW bits \in Nat \ {0}
  PROVE  Signed(0, bits) = 0
<1>1. PICK h \in Nat \ {0} : h = 2^(bits - 1) /\ 2^bits = 2 * h
  BY Halves
<1>2. 0 \in Ints(bits)
  BY <1>1 DEF Ints
<1> QED BY <1>2, SignedIs

(* One more digit, with the value of those before it wrapped or not. *)
LEMMA NextDigit ==
  ASSUME NEW bits \in Nat \ {0}, NEW base \in Int, NEW x \in Int, NEW d \in Int
  PROVE  Signed(Signed(x, bits) * base + d, bits) = Signed(base * x + d, bits)
<1>1. PICK M \in Nat \ {0} : M = 2^bits
  BY Halves
<1>2. PICK k \in Int, y \in Int : Signed(x, bits) = y /\ y = x + k * M
  <2>1. \E k \in Int : Signed(x, bits) = x + k * 2^bits
    BY SignedIs
  <2>2. PICK k \in Int : Signed(x, bits) = x + k * M
    BY <1>1, <2>1
  <2>3. x + k * M \in Int
    OBVIOUS
  <2> QED BY <2>2, <2>3
<1>3. PICK c \in Int, z \in Int : c = k * base /\ z = base * x + d
  OBVIOUS
<1>4. y * base + d = z + c * M
  <2>1. y * base = x * base + (k * M) * base
    <3>1. PICK kM \in Int : kM = k * M
      OBVIOUS
    <3> QED BY <1>2, <3>1, Distributed
  <2>2. (k * M) * base = (k * base) * M
    OBVIOUS
  <2>3. x * base = base * x
    OBVIOUS
  <2> QED BY <1>3, <2>1, <2>2, <2>3
<1>5. Signed(z + c * 2^bits, bits) = Signed(z, bits)
  BY SignedSame
<1> QED BY <1>1, <1>2, <1>3, <1>4, <1>5

(* A state of strtol()'s loop, in an operator of its own. *)
ValueAndEnd(val, end) == [val |-> val, end |-> end]

(* How many digits there are but the first; nothing is left behind them. *)
LEMMA PlacesType ==
  ASSUME NEW num \in Nat, NEW base \in 2..16
  PROVE  Places(num, base) \in Nat /\ Quotient(num, base)[Places(num, base) + 1] = 0
<1> DEFINE q == Quotient(num, base)
           t == Places(num, base)
<1>1. q[t + 1] = 0
  BY PlacesIs
<1>2. t \in 0..num
  BY PlacesIs
<1> QED BY <1>1, <1>2

(* How many digits are still to be read. *)
LEMMA StillLeft ==
  ASSUME NEW t \in Nat, NEW k \in Nat, k + 1 <= t + 1
  PROVE  \E m \in Nat : m = t - k /\ m = (t + 1) - (k + 1) /\ m + 1 = (t + 1) - k /\ k + 1 \in 1..(t + 1)
<1>1. t - k \in Nat /\ t - k = (t + 1) - (k + 1) /\ (t - k) + 1 = (t + 1) - k /\ k + 1 \in 1..(t + 1)
  OBVIOUS
<1> QED BY <1>1

(* From f on, s has the digits of a number and then what is no digit. *)
ShowsNumber(s, f, num, base) ==
  /\ f + Places(num, base) + 1 <= Len(s)
  /\ \A i \in 1..(Places(num, base) + 1) : CharAt(s, (f - 1) + i) = Figures(num, base)[i]
  /\ ~IsDigit(CharAt(s, f + Places(num, base) + 1), base)

(* It is read up to there, and its value wraps. *)
LEMMA AccumulateIs ==
  ASSUME NEW s, Len(s) \in Nat, NEW f \in Nat \ {0}, NEW num \in Nat, NEW base \in 2..16,
         ShowsNumber(s, f, num, base)
  PROVE  Accumulate(s, f, base) = [val |-> Signed(num, INTBITS), end |-> f + Places(num, base) + 1]
<1> SUFFICES ASSUME NEW q, q = Quotient(num, base), NEW t, t = Places(num, base), f + t + 1 <= Len(s),
                    \A i \in 1..(t + 1) : CharAt(s, (f - 1) + i) = Figures(num, base)[i],
                    ~IsDigit(CharAt(s, f + t + 1), base)
             PROVE  Accumulate(s, f, base) = [val |-> Signed(num, INTBITS), end |-> f + t + 1]
  <2>1. PICK q, t : q = Quotient(num, base) /\ t = Places(num, base)
    OBVIOUS
  <2> QED BY <2>1 DEF ShowsNumber
<1> DEFINE step == [n \in [val : Int, end : Nat] |->
                      [val |-> NextValue(n.val, base, s[n.end]), end |-> n.end + 1]]
           after == Iterated(step, [val |-> 0, end |-> f])
           fig == Figures(num, base)
           At(k) == ValueAndEnd(Signed(q[(t + 1) - k], INTBITS), f + k)
           S == {k \in Nat : k <= t + 1 => after[k] = At(k)}
<1>1. t \in Nat /\ q[t + 1] = 0 /\ INTBITS \in Nat \ {0} /\ base \in Int
  <2>1. t \in Nat /\ q[t + 1] = 0
    BY PlacesType
  <2> QED BY <2>1, BitsAssumption
<1>0. q[0] = num /\ \A k \in Nat : q[k] \in Nat
  BY QuotientIs
<1>14. \A k \in Nat : q[k] % base \in 0..(base - 1) /\ q[k] = base * q[k + 1] + (q[k] % base)
  BY QuotientIs
<1>2. /\ \A i \in 1..(t + 1) : fig[i] = Figure(num, base, (t + 1) - i)
      /\ \A k \in Nat : Figure(num, base, k) \in DigitChars /\ Digit(Figure(num, base, k)) = q[k] % base
  <2>1. \A i \in 1..(t + 1) : fig[i] = Figure(num, base, (t + 1) - i)
    BY FiguresAre
  <2>2. \A k \in Nat : Figure(num, base, k) \in DigitChars /\ Digit(Figure(num, base, k)) = q[k] % base
    BY FiguresAre
  <2> HIDE DEF fig
  <2> QED BY <2>1, <2>2
<1>3. after[0] = [val |-> 0, end |-> f] /\ \A k \in Nat : after[k + 1] = step[after[k]]
  <2>1. PICK x, F : x = [val |-> 0, end |-> f] /\ F = step
    OBVIOUS
  <2> HIDE DEF step
  <2>2. after = Iterated(F, x)
    BY <2>1
  <2>3. Iterated(F, x)[0] = x /\ \A k \in Nat : Iterated(F, x)[k + 1] = F[Iterated(F, x)[k]]
    BY IteratedDef
  <2> HIDE DEF after
  <2> QED BY <2>1, <2>2, <2>3
<1> HIDE DEF after
<1>4. \A i \in 1..(t + 1) : CharAt(s, (f - 1) + i) = fig[i]
  OBVIOUS
<1> HIDE DEF fig
<1>5. 0 \in S
  <2>1. Signed(q[(t + 1) - 0], INTBITS) = 0
    <3>1. (t + 1) - 0 = t + 1
      BY <1>1
    <3> QED BY <1>1, <3>1, SignedZero
  <2>2. At(0) = [val |-> 0, end |-> f]
    <3>1. f + 0 = f
      OBVIOUS
    <3> QED BY <2>1, <3>1 DEF ValueAndEnd
  <2> HIDE DEF At
  <2> QED BY <1>3, <2>2
<1>6. ASSUME NEW k \in Nat, k \in S PROVE k + 1 \in S
  <2> SUFFICES ASSUME k + 1 <= t + 1 PROVE after[k + 1] = At(k + 1)
    OBVIOUS
  <2>1. PICK m \in Nat : /\ m = t - k /\ m = (t + 1) - (k + 1) /\ m + 1 = (t + 1) - k
                         /\ k + 1 \in 1..(t + 1)
    <3> HIDE DEF S, At
    <3> QED BY <1>1, StillLeft
  <2>2. PICK x \in Nat, y \in Nat, d \in Nat : /\ x = q[m + 1] /\ y = q[m] /\ d = y % base
                                               /\ y = base * x + d
    <3>1. PICK x \in Nat, y \in Nat : x = q[m + 1] /\ y = q[m]
      <4>1. q[m + 1] \in Nat /\ q[m] \in Nat
        BY <1>0
      <4> QED BY <4>1
    <3>2. y % base \in 0..(base - 1) /\ y = base * x + (y % base)
      BY <1>14, <3>1
    <3>3. PICK d \in 0..(base - 1) : d = y % base
      BY <3>2
    <3>4. d \in Nat
      OBVIOUS
    <3> QED BY <3>1, <3>2, <3>3, <3>4
  <2>3. PICK v \in Int : v = Signed(x, INTBITS)
    <3>1. Signed(x, INTBITS) \in Ints(INTBITS)
      BY <1>1, SignedIs
    <3>2. Ints(INTBITS) \subseteq Int
      <4>1. PICK h \in Nat \ {0} : h = 2^(INTBITS - 1)
        BY <1>1, Halves
      <4> QED BY <4>1 DEF Ints
    <3> QED BY <3>1, <3>2
  <2>4. after[k] = ValueAndEnd(v, f + k)
    <3>1. after[k] = At(k)
      <4>1. k <= t + 1
        BY <1>1
      <4> HIDE DEF At
      <4> QED BY <1>6, <4>1
    <3>2. (t + 1) - k = m + 1
      BY <2>1
    <3> QED BY <2>2, <2>3, <3>1, <3>2
  <2>5. s[f + k] = Figure(num, base, m)
    <3>1. CharAt(s, (f - 1) + (k + 1)) = fig[k + 1] /\ fig[k + 1] = Figure(num, base, m)
      BY <1>2, <1>4, <2>1
    <3>2. (f - 1) + (k + 1) = f + k /\ f + k <= Len(s)
      BY <1>1
    <3> QED BY <3>1, <3>2 DEF CharAt
  <2>6. NextValue(v, base, s[f + k]) = Signed(y, INTBITS)
    <3>1. Digit(s[f + k]) = d
      BY <1>2, <2>2, <2>5
    <3>2. NextValue(v, base, s[f + k]) = Signed(v * base + d, INTBITS)
      BY <3>1 DEF NextValue
    <3>3. Signed(Signed(x, INTBITS) * base + d, INTBITS) = Signed(base * x + d, INTBITS)
      <4>1. x \in Int /\ d \in Int
        OBVIOUS
      <4> QED BY <1>1, <4>1, NextDigit
    <3> QED BY <2>2, <2>3, <3>2, <3>3
  <2>7. after[k + 1] = ValueAndEnd(Signed(y, INTBITS), (f + k) + 1)
    <3> DEFINE n == ValueAndEnd(v, f + k)
    <3>1. n \in [val : Int, end : Nat] /\ n.val = v /\ n.end = f + k
      BY DEF ValueAndEnd
    <3> HIDE DEF n
    <3>2. step[n] = [val |-> NextValue(n.val, base, s[n.end]), end |-> n.end + 1]
      BY <3>1
    <3> HIDE DEF step
    <3> QED BY <1>3, <2>4, <2>6, <3>1, <3>2 DEF ValueAndEnd, n
  <2>8. (f + k) + 1 = f + (k + 1) /\ y = q[(t + 1) - (k + 1)]
    BY <2>1, <2>2
  <2> QED BY <2>7, <2>8
<1>7. \A k \in 0..(t + 1) : after[k] = At(k)
  <2> HIDE DEF S
  <2>1. \A k \in Nat : k \in S
    BY <1>5, <1>6, AllNumbers
  <2> TAKE k \in 0..(t + 1)
  <2>2. k \in Nat /\ k <= t + 1
    BY <1>1
  <2> QED BY <2>1, <2>2 DEF S
<1> DEFINE go == [k \in Within(Len(s)) |-> IsDigit(CharAt(s, after[k].end), base)]
<1>8. \A k \in 0..(t + 1) : after[k].end = f + k
  <2> TAKE k \in 0..(t + 1)
  <2>1. after[k] = At(k)
    BY <1>7
  <2>2. At(k).end = f + k
    BY DEF ValueAndEnd
  <2> HIDE DEF At
  <2> QED BY <2>1, <2>2
<1>9. Turns(Len(s), go) = t + 1
  <2>1. ASSUME NEW k \in 0..((t + 1) - 1) PROVE go[k]
    <3>1. k \in Within(Len(s)) /\ k \in 0..(t + 1) /\ k + 1 \in 1..(t + 1) /\ (t + 1) - (k + 1) \in Nat
          /\ (f - 1) + (k + 1) = f + k
      BY <1>1 DEF Within
    <3>2. CharAt(s, f + k) = Figure(num, base, (t + 1) - (k + 1))
      BY <1>2, <1>4, <3>1
    <3>3. CharAt(s, f + k) \in DigitChars /\ Digit(CharAt(s, f + k)) < base
      <4>1. PICK m \in Nat : m = (t + 1) - (k + 1)
        BY <3>1
      <4>2. Figure(num, base, m) \in DigitChars /\ Digit(Figure(num, base, m)) = q[m] % base
        BY <1>2
      <4>3. q[m] % base \in 0..(base - 1)
        BY <1>14
      <4>4. PICK r \in 0..(base - 1) : r = q[m] % base
        BY <4>3
      <4>5. r < base
        BY <1>1
      <4> QED BY <3>2, <4>1, <4>2, <4>4, <4>5
    <3>4. after[k].end = f + k
      BY <1>8, <3>1
    <3> QED BY <3>1, <3>3, <3>4 DEF IsDigit
  <2>2. t + 1 \in 0..Len(s) /\ t + 1 \in Within(Len(s)) /\ t + 1 \in 0..(t + 1)
    BY <1>1 DEF Within
  <2>3. ~go[t + 1]
    <3>1. after[t + 1].end = f + t + 1
      BY <1>1, <1>8, <2>2
    <3> QED BY <2>2, <3>1
  <2> HIDE DEF go
  <2> QED BY <1>1, <2>1, <2>2, <2>3, TurnsIs
<1>10. Accumulate(s, f, base) = after[Turns(Len(s), go)]
  BY DEF Accumulate, after
<1>11. after[t + 1] = At(t + 1)
  BY <1>1, <1>7
<1>12. (t + 1) - (t + 1) = 0 /\ f + (t + 1) = f + t + 1
  BY <1>1
<1>13. At(t + 1) = [val |-> Signed(num, INTBITS), end |-> f + t + 1]
  <2>1. q[(t + 1) - (t + 1)] = num
    BY <1>0, <1>12
  <2> QED BY <1>12, <2>1 DEF ValueAndEnd
<1> HIDE DEF At, go
<1> QED BY <1>9, <1>10, <1>11, <1>13

-----------------------------------------------------------------------------
(* A number that is printed, and read back. *)

(* A directive without flags, with a 'z' behind it. *)
LEMMA OneDirective ==
  ASSUME NEW conv \in Conversions \ {"%"}, NEW v, NEW t \in Seq(Chars),
         t = Convert(conv, Opened(2, 1), v)
  PROVE  vprintfmt(<<"%", conv, "z">>, <<v>>) = t \o <<"z">>
<1> DEFINE fmt == <<"%", conv, "z">>
           args == <<v>>
           X == {"%", "z", conv}
           o == Opened(2, 1)
<1>1. /\ fmt \in Seq(X) /\ Len(fmt) = 3 /\ CharAt(fmt, 1) = "%" /\ CharAt(fmt, 2) = conv
      /\ fmt[3] = "z" /\ args[1] = v
  BY DEF CharAt
<1> HIDE DEF fmt, args
<1>2. o.at = 2 /\ o.arg = 1
  BY DEF Opened
<1>3. Escape(fmt, args, 2, 1) = [text |-> t, at |-> 3, arg |-> 2]
  <2>1. o = Taken(fmt, args, 2, 1)[0]
    BY TakenDef
  <2>2. Escape(fmt, args, 2, 1) =
           IF CharAt(fmt, o.at) \in Conversions
           THEN [text |-> Convert(CharAt(fmt, o.at), o, args[o.arg]), at |-> o.at + 1,
                 arg |-> IF CharAt(fmt, o.at) = "%" THEN o.arg ELSE o.arg + 1]
           ELSE Unknown(2, o)
    <3>1. 0 \in 0..Len(fmt) /\ Len(fmt) \in Nat /\ \A k \in 0..(0 - 1) : FALSE
      BY <1>1
    <3>2. CharAt(fmt, o.at) \notin Flags
      BY <1>1, <1>2, SwitchIs
    <3> HIDE DEF o
    <3> QED BY <2>1, <3>1, <3>2, EscapeIs
  <2>3. 2 + 1 = 3 /\ 1 + 1 = 2
    OBVIOUS
  <2>4. t = Convert(conv, o, v)
    OBVIOUS
  <2> HIDE DEF o
  <2> QED BY <1>1, <1>2, <2>2, <2>3, <2>4
<1>4. PICK y \in 2..(Len(fmt) + 1), z \in Nat : y = 3 /\ z = 2
  BY <1>1
<1>5. \A i \in y..Len(fmt) : fmt[i] \in Chars /\ fmt[i] # "%"
  <2>1. "z" \in Chars
    BY CharsAre, Zenon
  <2>2. \A i \in y..Len(fmt) : i = 3
    BY <1>1, <1>4
  <2> QED BY <1>1, <2>1, <2>2
<1>6. fmt \in Seq(X)
  BY <1>1
<1>7. vprintfmt(fmt, args) = t \o SubSeq(fmt, y, Len(fmt))
  <2> HIDE DEF X
  <2> QED BY <1>1, <1>3, <1>4, <1>5, <1>6, PercentFirst
<1>8. SubSeq(fmt, y, Len(fmt)) = <<"z">>
  <2>1. PICK m \in 1..Len(fmt) : m = 3 /\ m = Len(fmt) /\ m \in m..Len(fmt) /\ m - 1 = 2
    BY <1>1
  <2>2. SubSeq(fmt, m, m) = SubSeq(fmt, m, m - 1) \o <<fmt[m]>>
    <3> HIDE DEF X
    <3> QED BY <1>6, <2>1, SubSeqRecursiveSecond
  <2>3. SubSeq(fmt, m, m - 1) = <<>>
    <3> HIDE DEF X
    <3> QED BY <1>6, <2>1, SubSeqEmpty
  <2>4. <<>> \o <<"z">> = <<"z">>
    <3>1. <<"z">> \in Seq({"z"})
      OBVIOUS
    <3> QED BY <3>1, ConcatEmptySeq
  <2> QED BY <1>1, <1>4, <2>1, <2>2, <2>3, <2>4
<1> QED BY <1>7, <1>8 DEF fmt, args

(* With no width there is no padding. *)
LEMMA PrintnumPlain ==
  ASSUME NEW num \in Nat, NEW base \in 2..16
  PROVE  printnum(num, base, -1, Space) = Figures(num, base)
<1> DEFINE f == Figures(num, base)
           t == Places(num, base)
<1>1. t \in Nat /\ f \in Seq(DigitChars)
  BY FiguresAre
<1>2. printnum(num, base, -1, Space) = Repeat(Space, -1 - (t + 1)) \o f
  <2>1. PICK w \in Int : w = -1
    OBVIOUS
  <2>2. printnum(num, base, w, Space) = Repeat(Space, w - (t + 1)) \o f
    BY PrintnumIs
  <2> HIDE DEF t, f
  <2> QED BY <2>1, <2>2
<1>3. Repeat(Space, -1 - (t + 1)) = <<>>
  <2>1. -1 - (t + 1) <= 0
    BY <1>1
  <2> QED BY <2>1 DEF Repeat
<1> HIDE DEF f
<1>4. <<>> \o f = f
  BY <1>1, ConcatEmptySeq
<1> QED BY <1>2, <1>3, <1>4 DEF f

(* What is printed for a number. *)
LEMMA ConvertNumber ==
  ASSUME NEW v \in Ints(INTBITS), NEW start, NEW arg, NEW M, M = 2^INTBITS
  PROVE  /\ M \in Nat \ {0} /\ v \in Int /\ v % M \in Nat
         /\ Convert("d", Opened(start, arg), v)
              = IF v < 0 THEN <<"-">> \o Figures(-v, 10) ELSE Figures(v, 10)
         /\ Convert("o", Opened(start, arg), v) = Figures(v % M, 8)
         /\ Convert("x", Opened(start, arg), v) = Figures(v % M, 16)
<1> DEFINE o == Opened(start, arg)
<1>1. o.width = -1 /\ o.padc = Space /\ o.lflag = 0
  BY DEF Opened
<1>2. Bits(o) = INTBITS
  <2> HIDE DEF o
  <2> QED BY <1>1 DEF Bits
<1>3. INTBITS \in Nat \ {0} /\ LLBITS \in Nat /\ INTBITS <= LLBITS
  BY BitsAssumption
<1>4. PICK h \in Nat \ {0} : h = 2^(INTBITS - 1) /\ M = 2 * h
  BY <1>3, Halves
<1>5. PICK L \in Nat : L = 2^LLBITS /\ M <= L
  <2>1. 2^LLBITS \in Nat /\ 2^INTBITS <= 2^LLBITS
    BY <1>3, PowersOfTwo, MoreBits
  <2> QED BY <2>1
<1>6. v \in (-h)..(h - 1)
  BY <1>4 DEF Ints
<1>7. M \in Nat \ {0} /\ v \in Int
  BY <1>4, <1>6
<1>8. v % M \in Nat
  BY <1>7
<1>9. getint(o, v) = v /\ getuint(o, v) = v % M
  <2>1. Signed(v, INTBITS) = v
    BY <1>3, <1>7, SignedIs
  <2> HIDE DEF o
  <2> QED BY <1>2, <2>1 DEF getint, getuint
<1>10. 10 \in 2..16 /\ 8 \in 2..16 /\ 16 \in 2..16
  OBVIOUS
<1>11. Convert("o", o, v) = Figures(v % M, 8) /\ Convert("x", o, v) = Figures(v % M, 16)
  <2>1. PICK n \in Nat : n = v % M
    BY <1>8
  <2>2. printnum(n, 8, -1, Space) = Figures(n, 8) /\ printnum(n, 16, -1, Space) = Figures(n, 16)
    BY <1>10, PrintnumPlain
  <2> HIDE DEF o
  <2>3. /\ Convert("o", o, v) = printnum(n, 8, -1, Space)
        /\ Convert("x", o, v) = printnum(n, 16, -1, Space)
    BY <1>1, <1>9, <2>1 DEF Convert
  <2> QED BY <2>1, <2>2, <2>3
<1>12. Convert("d", o, v) = Decimal(o, v)
  BY DEF Convert
<1>13. CASE v < 0
  <2>1. PICK n \in Nat : n = -v /\ n \in 0..(L - 1)
    <3>1. -v \in Nat /\ -v \in 0..(L - 1)
      BY <1>4, <1>5, <1>6, <1>13
    <3> QED BY <3>1
  <2>2. n % L = n
    BY <2>1
  <2>3. printnum(n, 10, -1, Space) = Figures(n, 10)
    BY <1>10, PrintnumPlain
  <2> HIDE DEF o
  <2>4. Decimal(o, v) = <<"-">> \o printnum(n, 10, -1, Space)
    BY <1>1, <1>5, <1>9, <1>13, <2>1, <2>2 DEF Decimal
  <2>5. Convert("d", o, v) = <<"-">> \o Figures(-v, 10)
    BY <1>12, <2>1, <2>3, <2>4
  <2> QED BY <1>7, <1>8, <1>11, <1>13, <2>5 DEF o
<1>14. CASE ~(v < 0)
  <2>1. PICK n \in Nat : n = v
    BY <1>7, <1>14
  <2>2. printnum(n, 10, -1, Space) = Figures(n, 10)
    BY <1>10, PrintnumPlain
  <2> HIDE DEF o
  <2>3. Decimal(o, v) = printnum(n, 10, -1, Space)
    BY <1>1, <1>9, <1>14, <2>1 DEF Decimal
  <2> QED BY <1>7, <1>8, <1>11, <1>12, <1>14, <2>1, <2>2, <2>3 DEF o
<1> QED BY <1>13, <1>14

(* A text in front of digits and a 'z'. *)
Layout(s, pre, mid, z) ==
  /\ Len(s) = Len(pre) + Len(mid) + 1
  /\ \A i \in 1..Len(pre) : CharAt(s, i) = pre[i]
  /\ \A i \in 1..Len(mid) : CharAt(s, Len(pre) + i) = mid[i]
  /\ CharAt(s, Len(pre) + Len(mid) + 1) = z

(* The characters of a text that is three texts and a 'z'. *)
LEMMA TextAt ==
  ASSUME NEW X, NEW pre \in Seq(X), NEW mid \in Seq(X), NEW z \in X
  PROVE  Layout((pre \o mid) \o <<z>>, pre, mid, z)
<1> SUFFICES ASSUME NEW s, s = (pre \o mid) \o <<z>> PROVE Layout(s, pre, mid, z)
  OBVIOUS
<1> DEFINE r == pre \o mid
<1>1. r \in Seq(X) /\ Len(r) = Len(pre) + Len(mid)
      /\ \A i \in 1..(Len(pre) + Len(mid)) : r[i] = IF i <= Len(pre) THEN pre[i] ELSE mid[i - Len(pre)]
  BY ConcatProperties
<1> HIDE DEF r
<1>2. <<z>> \in Seq(X) /\ Len(<<z>>) = 1 /\ <<z>>[1] = z
  OBVIOUS
<1>3. s = r \o <<z>>
  BY DEF r
<1>4. /\ Len(s) = Len(r) + 1
      /\ \A i \in 1..(Len(r) + 1) : s[i] = IF i <= Len(r) THEN r[i] ELSE <<z>>[i - Len(r)]
  BY <1>1, <1>2, <1>3, ConcatProperties
<1>5. Len(pre) \in Nat /\ Len(mid) \in Nat /\ Len(r) = Len(pre) + Len(mid)
  BY <1>1
<1>6. ASSUME NEW i \in 1..Len(pre) PROVE CharAt(s, i) = pre[i]
  <2>1. /\ i <= Len(s) /\ i \in 1..(Len(r) + 1) /\ i <= Len(r) /\ i \in 1..(Len(pre) + Len(mid))
        /\ i <= Len(pre)
    BY <1>4, <1>5
  <2> QED BY <1>1, <1>4, <2>1 DEF CharAt
<1>7. ASSUME NEW i \in 1..Len(mid) PROVE CharAt(s, Len(pre) + i) = mid[i]
  <2>1. PICK j \in Nat : j = Len(pre) + i /\ j <= Len(s) /\ j \in 1..(Len(r) + 1) /\ j <= Len(r)
                         /\ j \in 1..(Len(pre) + Len(mid)) /\ ~(j <= Len(pre)) /\ j - Len(pre) = i
    <3>1. PICK p \in Nat, m \in Nat : p = Len(pre) /\ m = Len(mid)
      BY <1>5
    <3>2. i \in 1..m /\ Len(r) = p + m /\ Len(s) = (p + m) + 1
      BY <1>4, <1>5, <3>1
    <3>3. PICK j \in Nat : j = p + i /\ j <= (p + m) + 1 /\ j \in 1..((p + m) + 1) /\ j <= p + m
                           /\ j \in 1..(p + m) /\ ~(j <= p) /\ j - p = i
      <4>1. p + i \in Nat /\ p + i <= (p + m) + 1 /\ p + i \in 1..((p + m) + 1) /\ p + i <= p + m
            /\ p + i \in 1..(p + m) /\ ~(p + i <= p) /\ (p + i) - p = i
        BY <3>2
      <4> QED BY <4>1
    <3> QED BY <3>1, <3>2, <3>3
  <2>2. s[j] = r[j] /\ r[j] = mid[i]
    BY <1>1, <1>4, <2>1
  <2> QED BY <2>1, <2>2 DEF CharAt
<1>8. CharAt(s, Len(pre) + Len(mid) + 1) = z
  <2>1. PICK j \in Nat : /\ j = Len(pre) + Len(mid) + 1 /\ j <= Len(s) /\ j \in 1..(Len(r) + 1)
                         /\ ~(j <= Len(r)) /\ j - Len(r) = 1
    BY <1>4, <1>5
  <2> QED BY <1>2, <1>4, <2>1 DEF CharAt
<1> QED BY <1>4, <1>5, <1>6, <1>7, <1>8 DEF Layout

(* Digits, signs and 'z' are no blanks. *)
LEMMA NoBlank ==
  ASSUME NEW c \in DigitChars \union {"-"}
  PROVE  c \notin Blanks /\ c # "+" /\ Space \in Blanks
<1>1. \A k \in 1..16 : Digits[k] # Space /\ Digits[k] # "\t" /\ Digits[k] # "+"
  <2>1. \A k \in 1..16 : Digits[k] \in {"0", "1", "2", "3", "4", "5", "6", "7", "8", "9", "a", "b",
          "c", "d", "e", "f"}
    BY DEF Digits
  <2>2. \A x \in {"0", "1", "2", "3", "4", "5", "6", "7", "8", "9", "a", "b", "c", "d", "e", "f"} :
          x # Space /\ x # "\t" /\ x # "+"
    BY Zenon DEF Space
  <2> QED BY <2>1, <2>2
<1>2. "-" # Space /\ "-" # "\t" /\ "-" # "+"
  BY Zenon DEF Space
<1>3. c # Space /\ c # "\t" /\ c # "+"
  BY <1>1, <1>2 DEF DigitChars
<1> QED BY <1>3, Zenon DEF Blanks

(* One blank is skipped, and what is behind it is not. *)
LEMMA GobbleOne ==
  ASSUME NEW s, Len(s) \in Nat, Len(s) >= 2, CharAt(s, 1) = Space,
         CharAt(s, 2) \in DigitChars \union {"-"}
  PROVE  Gobble(s, 1) = 2
<1> DEFINE go == [k \in Within(Len(s)) |-> CharAt(s, 1 + k) \in Blanks]
<1>1. Turns(Len(s), go) = 1
  <2>1. 0 \in Within(Len(s)) /\ 1 \in Within(Len(s)) /\ 1 + 0 = 1 /\ 1 + 1 = 2
        /\ 1 \in 0..Len(s) /\ \A i \in 0..(1 - 1) : i = 0
    BY DEF Within
  <2>2. go[0] /\ ~go[1]
    BY <2>1, NoBlank
  <2>3. \A i \in 0..(1 - 1) : go[i]
    <3> HIDE DEF go
    <3> QED BY <2>1, <2>2
  <2> HIDE DEF go
  <2> QED BY <2>1, <2>2, <2>3, TurnsIs
<1> QED BY <1>1 DEF Gobble

(* A number behind a text, and a 'z' behind it. *)
Reads(s, pre, num, base) ==
  /\ Accumulate(s, Len(pre) + 1, base) = [val |-> Signed(num, INTBITS), end |-> Len(s)]
  /\ Len(s) \in Nat /\ Len(s) >= Len(pre) + 2
  /\ \A i \in 1..Len(pre) : CharAt(s, i) = pre[i]
  /\ CharAt(s, Len(pre) + 1) \in DigitChars

(* The digits behind a text are read, up to the 'z'. *)
LEMMA ReadsNumber ==
  ASSUME NEW pre \in Seq(Chars), NEW num \in Nat, NEW base \in 2..16
  PROVE  Reads((pre \o Figures(num, base)) \o <<"z">>, pre, num, base)
<1> SUFFICES ASSUME NEW s, s = (pre \o Figures(num, base)) \o <<"z">> PROVE Reads(s, pre, num, base)
  OBVIOUS
<1> DEFINE fig == Figures(num, base)
           t == Places(num, base)
           n == Len(pre)
<1>1. t \in Nat /\ fig \in Seq(DigitChars) /\ Len(fig) = t + 1
  BY FiguresAre
<1>2. fig \in Seq(Chars)
  <2> HIDE DEF fig
  <2> QED BY <1>1, DigitsAre, SeqMonotonic
<1> HIDE DEF fig, t
<1>3. /\ Len(s) = n + Len(fig) + 1
      /\ \A i \in 1..n : CharAt(s, i) = pre[i]
      /\ \A i \in 1..Len(fig) : CharAt(s, n + i) = fig[i]
      /\ CharAt(s, n + Len(fig) + 1) = "z"
  <2>1. PICK z \in Chars : z = "z"
    BY CharsAre, Zenon
  <2>2. s = (pre \o fig) \o <<z>>
    BY <2>1 DEF fig
  <2>3. PICK m \in Seq(Chars) : m = fig
    BY <1>2
  <2>4. s = (pre \o m) \o <<z>>
    BY <2>2, <2>3
  <2>5. Layout(s, pre, m, z)
    BY <2>4, TextAt
  <2> QED BY <2>1, <2>3, <2>5 DEF Layout
<1>4. n \in Nat
  OBVIOUS
<1> HIDE DEF n
<1>5. PICK f \in Nat \ {0} : f = n + 1 /\ f - 1 = n
  BY <1>4
<1>6. /\ f + t + 1 <= Len(s) /\ f + t + 1 = Len(s) /\ n + Len(fig) + 1 = f + t + 1 /\ Len(s) \in Nat
      /\ Len(s) >= n + 2
  BY <1>1, <1>3, <1>4, <1>5
<1>7. \A i \in 1..(t + 1) : CharAt(s, (f - 1) + i) = fig[i]
  BY <1>1, <1>3, <1>5
<1>8. ~IsDigit(CharAt(s, f + t + 1), base)
  BY <1>3, <1>6, DigitsAre DEF IsDigit
<1>9. Accumulate(s, f, base) = [val |-> Signed(num, INTBITS), end |-> f + Places(num, base) + 1]
  <2>1. ShowsNumber(s, f, num, base)
    BY <1>6, <1>7, <1>8 DEF ShowsNumber, t, fig
  <2> QED BY <1>6, <2>1, AccumulateIs
<1>10. CharAt(s, n + 1) \in DigitChars
  <2>1. 1 \in 1..Len(fig)
    BY <1>1
  <2>2. fig[1] \in DigitChars
    BY <1>1, <2>1, ElementOfSeq
  <2> QED BY <1>3, <2>1, <2>2
<1> QED BY <1>3, <1>5, <1>6, <1>9, <1>10 DEF n, t, Reads

(* An int that went through an unsigned one comes back. *)
LEMMA SignedMod ==
  ASSUME NEW bits \in Nat \ {0}, NEW v \in Int
  PROVE  Signed(v % 2^bits, bits) = Signed(v, bits)
<1>1. PICK M \in Nat \ {0} : M = 2^bits
  BY Halves
<1>2. PICK q \in Int, r \in Int : v = q * M + r /\ r = v % M
  <2>1. v \div M \in Int /\ v % M \in Int /\ v = (v \div M) * M + (v % M)
    OBVIOUS
  <2> QED BY <2>1
<1>3. PICK k \in Int : k = -q
  OBVIOUS
<1>4. r = v + k * M
  <2>1. k * M = -(q * M) /\ q * M \in Int
    BY <1>3, Distributed
  <2>2. v = q * M + r
    BY <1>2
  <2> QED BY <2>1, <2>2
<1>5. Signed(v + k * 2^bits, bits) = Signed(v, bits)
  BY SignedSame
<1> QED BY <1>1, <1>2, <1>4, <1>5

(* Negating a negative int and negating it back is that int, also for the least one. *)
LEMMA SignedNegated ==
  ASSUME NEW bits \in Nat \ {0}, NEW v \in Int
  PROVE  Signed(-Signed(-v, bits), bits) = Signed(v, bits)
<1>1. PICK M \in Nat \ {0} : M = 2^bits
  BY Halves
<1>2. PICK w \in Int : w = -v
  OBVIOUS
<1>3. PICK k \in Int : Signed(w, bits) = w + k * M
  <2>1. \E k \in Int : Signed(w, bits) = w + k * 2^bits
    BY SignedIs
  <2> QED BY <1>1, <2>1
<1>4. PICK j \in Int : j = -k
  OBVIOUS
<1>5. -(w + k * M) = v + j * M
  <2>1. j * M = -(k * M) /\ k * M \in Int
    BY <1>4, Distributed
  <2> QED BY <1>2, <2>1
<1>6. Signed(v + j * 2^bits, bits) = Signed(v, bits)
  BY SignedSame
<1> QED BY <1>1, <1>2, <1>3, <1>5, <1>6

(* strtol() for a number without a sign, one with a '-', and one behind "0x". *)
LEMMA StrtolPlain ==
  ASSUME NEW num \in Nat, NEW base \in {8, 10}, NEW s, s = (<<Space>> \o Figures(num, base)) \o <<"z">>
  PROVE  strtol(s, base) = [val |-> Signed(num, INTBITS), end |-> Len(s)]
<1>1. <<Space>> \in Seq(Chars) /\ Len(<<Space>>) = 1 /\ <<Space>>[1] = Space
  BY CharsAre
<1>2. PICK pre \in Seq(Chars) : pre = <<Space>> /\ Len(pre) = 1 /\ pre[1] = Space
  BY <1>1
<1>3. /\ Accumulate(s, 2, base) = [val |-> Signed(num, INTBITS), end |-> Len(s)]
      /\ Len(s) \in Nat /\ Len(s) >= 2 /\ CharAt(s, 1) = Space /\ CharAt(s, 2) \in DigitChars
  <2>1. base \in 2..16 /\ s = (pre \o Figures(num, base)) \o <<"z">>
    BY <1>2
  <2>2. Reads(s, pre, num, base)
    BY <2>1, ReadsNumber
  <2>3. 1 + 1 = 2 /\ 1 \in 1..1
    OBVIOUS
  <2> QED BY <1>2, <2>2, <2>3 DEF Reads
<1>4. Gobble(s, 1) = 2
  BY <1>3, GobbleOne
<1>5. CharAt(s, 2) \notin {"+", "-"}
  <2>1. CharAt(s, 2) # "+"
    BY <1>3, NoBlank
  <2>2. \A k \in 1..16 : Digits[k] # "-"
    BY DEF Digits
  <2> QED BY <1>3, <2>1, <2>2 DEF DigitChars
<1>6. base \notin {0, 16} /\ base # 0
  OBVIOUS
<1>7. strtol(s, base) = [val |-> Accumulate(s, 2, base).val, end |-> Accumulate(s, 2, base).end]
  BY <1>4, <1>5, <1>6 DEF strtol
<1> QED BY <1>3, <1>7

(* One with a '-'. *)
LEMMA StrtolNegative ==
  ASSUME NEW num \in Nat, NEW s, s = (<<Space, "-">> \o Figures(num, 10)) \o <<"z">>
  PROVE  strtol(s, 10) = [val |-> Signed(-Signed(num, INTBITS), INTBITS), end |-> Len(s)]
<1>1. /\ <<Space, "-">> \in Seq(Chars) /\ Len(<<Space, "-">>) = 2 /\ <<Space, "-">>[1] = Space
      /\ <<Space, "-">>[2] = "-"
  <2>1. "-" \in Chars
    BY CharsAre, Zenon
  <2> QED BY <2>1, CharsAre
<1>2. PICK pre \in Seq(Chars) : pre = <<Space, "-">> /\ Len(pre) = 2 /\ pre[1] = Space /\ pre[2] = "-"
  BY <1>1
<1>3. /\ Accumulate(s, 3, 10) = [val |-> Signed(num, INTBITS), end |-> Len(s)]
      /\ Len(s) \in Nat /\ Len(s) >= 2 /\ CharAt(s, 1) = Space /\ CharAt(s, 2) = "-"
  <2>1. PICK base \in 2..16 : base = 10 /\ s = (pre \o Figures(num, base)) \o <<"z">>
    BY <1>2
  <2>2. Reads(s, pre, num, base)
    BY <2>1, ReadsNumber
  <2>3. 2 + 1 = 3 /\ 1 \in 1..2 /\ 2 \in 1..2
    OBVIOUS
  <2>4. /\ Accumulate(s, Len(pre) + 1, base) = [val |-> Signed(num, INTBITS), end |-> Len(s)]
        /\ Len(pre) + 1 = 3
    BY <1>2, <2>2, <2>3 DEF Reads
  <2>5. Len(s) \in Nat /\ Len(s) >= 2 + 2 /\ \A i \in 1..2 : CharAt(s, i) = pre[i]
    BY <1>2, <2>2 DEF Reads
  <2>6. base = 10
    BY <2>1
  <2> HIDE <2>1, <1>2
  <2> QED BY <1>2, <2>3, <2>4, <2>5, <2>6
<1>4. Gobble(s, 1) = 2
  BY <1>3, GobbleOne
<1>5. 10 \notin {0, 16} /\ 10 # 0 /\ 2 + 1 = 3
  OBVIOUS
<1>6. strtol(s, 10) = [val |-> Signed(-(Accumulate(s, 3, 10).val), INTBITS),
        end |-> Accumulate(s, 3, 10).end]
  BY <1>3, <1>4, <1>5 DEF strtol
<1> QED BY <1>3, <1>6

(* One behind "0x", in base 0. *)
LEMMA StrtolHex ==
  ASSUME NEW num \in Nat, NEW s, s = (<<Space, "0", "x">> \o Figures(num, 16)) \o <<"z">>
  PROVE  strtol(s, 0) = [val |-> Signed(num, INTBITS), end |-> Len(s)]
<1>1. /\ <<Space, "0", "x">> \in Seq(Chars) /\ Len(<<Space, "0", "x">>) = 3
      /\ <<Space, "0", "x">>[1] = Space
      /\ <<Space, "0", "x">>[2] = "0" /\ <<Space, "0", "x">>[3] = "x"
  <2>1. "0" \in Chars /\ "x" \in Chars
    BY CharsAre, Zenon
  <2> QED BY <2>1, CharsAre
<1>2. PICK pre \in Seq(Chars) : /\ pre = <<Space, "0", "x">> /\ Len(pre) = 3 /\ pre[1] = Space
                                /\ pre[2] = "0" /\ pre[3] = "x"
  BY <1>1
<1>3. /\ Accumulate(s, 4, 16) = [val |-> Signed(num, INTBITS), end |-> Len(s)]
      /\ Len(s) \in Nat /\ Len(s) >= 2 /\ CharAt(s, 1) = Space /\ CharAt(s, 2) = "0"
      /\ CharAt(s, 3) = "x"
  <2>1. PICK base \in 2..16 : base = 16 /\ s = (pre \o Figures(num, base)) \o <<"z">>
    BY <1>2
  <2>2. Reads(s, pre, num, base)
    BY <2>1, ReadsNumber
  <2>3. 3 + 1 = 4 /\ 1 \in 1..3 /\ 2 \in 1..3 /\ 3 \in 1..3
    OBVIOUS
  <2>4. /\ Accumulate(s, Len(pre) + 1, base) = [val |-> Signed(num, INTBITS), end |-> Len(s)]
        /\ Len(pre) + 1 = 4
    BY <1>2, <2>2, <2>3 DEF Reads
  <2>5. Len(s) \in Nat /\ Len(s) >= 3 + 2 /\ \A i \in 1..3 : CharAt(s, i) = pre[i]
    BY <1>2, <2>2 DEF Reads
  <2>6. base = 16
    BY <2>1
  <2> HIDE <2>1, <1>2
  <2> QED BY <1>2, <2>3, <2>4, <2>5, <2>6
<1>4. Gobble(s, 1) = 2
  <2>1. "0" \in DigitChars
    <3>1. 0 \in 0..15 /\ 0 + 1 = 1
      OBVIOUS
    <3> QED BY <3>1, DigitsAre
  <2> QED BY <1>3, <2>1, GobbleOne
<1>5. 2 + 1 = 3 /\ 2 + 2 = 4
  OBVIOUS
<1>6. strtol(s, 0) = [val |-> Accumulate(s, 4, 16).val, end |-> Accumulate(s, 4, 16).end]
  BY <1>3, <1>4, <1>5 DEF strtol
<1> QED BY <1>3, <1>6

(* What strtol() is given: a text in front of the digits, and a 'z'. *)
Given(pre, num, base) == (pre \o Figures(num, base)) \o <<"z">>
Front(conv, sign) == (<<Space>> \o (IF conv = "x" THEN <<"0", "x">> ELSE <<>>)) \o sign

(* z is the one character of x, and then y. *)
FirstAndRest(x, y, z) ==
  Len(x) = 1 /\ Len(z) = 1 + Len(y) /\ z[1] = x[1] /\ \A i \in 1..Len(y) : z[i + 1] = y[i]

(* The characters of two texts, one behind the other. *)
LEMMA TwoTexts ==
  ASSUME NEW S, NEW x \in Seq(S), NEW y \in Seq(S), NEW z \in Seq(S), FirstAndRest(x, y, z)
  PROVE  x \o y = z
<1>1. /\ x \o y \in Seq(S) /\ Len(x \o y) = Len(x) + Len(y)
      /\ \A i \in 1..Len(x) + Len(y) : (x \o y)[i] = IF i <= Len(x) THEN x[i] ELSE y[i - Len(x)]
  BY ConcatProperties
<1>2. PICK s \in Seq(S) : s = x \o y
  BY <1>1
<1>3. Len(x) = 1 /\ Len(z) = 1 + Len(y) /\ z[1] = x[1] /\ \A i \in 1..Len(y) : z[i + 1] = y[i]
  BY DEF FirstAndRest
<1>4. Len(s) = 1 + Len(y) /\ \A i \in 1..1 + Len(y) : s[i] = IF i <= 1 THEN x[i] ELSE y[i - 1]
  BY <1>1, <1>2, <1>3
<1>5. \A i \in 1..Len(s) : s[i] = z[i]
  <2> TAKE i \in 1..Len(s)
  <2>1. CASE i = 1
    BY <1>3, <1>4, <2>1
  <2>2. CASE i # 1
    <3>1. PICK j \in 1..Len(y) : j = i - 1 /\ j + 1 = i
      <4>1. i - 1 \in 1..Len(y) /\ (i - 1) + 1 = i
        BY <1>4, <2>2
      <4> QED BY <4>1
    <3> QED BY <1>3, <1>4, <2>2, <3>1
  <2> QED BY <2>1, <2>2
<1>6. s = z
  BY <1>3, <1>4, <1>5, SeqEqual
<1> QED BY <1>2, <1>6

(* Of a text of one character and one of one character. *)
LEMMA OneAndOne ==
  ASSUME NEW p, NEW e
  PROVE  <<p>> \o <<e>> = <<p, e>>
<1>1. PICK S : S = {p, e}
  OBVIOUS
<1>2. <<p>> \in Seq(S) /\ <<e>> \in Seq(S) /\ <<p, e>> \in Seq(S)
  BY <1>1
<1>3. PICK x \in Seq(S), y \in Seq(S), z \in Seq(S) : x = <<p>> /\ y = <<e>> /\ z = <<p, e>>
  BY <1>2
<1>4. Len(x) = 1 /\ x[1] = p /\ Len(y) = 1 /\ y[1] = e /\ Len(z) = 2 /\ z[1] = p /\ z[2] = e
  BY <1>3
<1>5. FirstAndRest(x, y, z)
  BY <1>4 DEF FirstAndRest
<1>6. x \o y = z
  <2> HIDE <1>1, <1>3, <1>4
  <2> QED BY <1>5, TwoTexts
<1> QED BY <1>3, <1>6

(* Of one of one and one of two. *)
LEMMA OneAndTwo ==
  ASSUME NEW p, NEW e, NEW f
  PROVE  <<p>> \o <<e, f>> = <<p, e, f>>
<1>1. PICK S : S = {p, e, f}
  OBVIOUS
<1>2. <<p>> \in Seq(S) /\ <<e, f>> \in Seq(S) /\ <<p, e, f>> \in Seq(S)
  BY <1>1
<1>3. PICK x \in Seq(S), y \in Seq(S), z \in Seq(S) : x = <<p>> /\ y = <<e, f>> /\ z = <<p, e, f>>
  BY <1>2
<1>4. /\ Len(x) = 1 /\ x[1] = p /\ Len(y) = 2 /\ y[1] = e /\ y[2] = f
      /\ Len(z) = 3 /\ z[1] = p /\ z[2] = e /\ z[3] = f
  BY <1>3
<1>5. FirstAndRest(x, y, z)
  BY <1>4 DEF FirstAndRest
<1>6. x \o y = z
  <2> HIDE <1>1, <1>3, <1>4
  <2> QED BY <1>5, TwoTexts
<1> QED BY <1>3, <1>6

(* It does not matter which of three texts are put together first. *)
LEMMA ThreeTexts ==
  ASSUME NEW X, NEW a \in Seq(X), NEW b \in Seq(X), NEW c \in Seq(X)
  PROVE  a \o (b \o c) = (a \o b) \o c
BY ConcatAssociative

(* As an operator of its own: a text and another one. *)
Both(a, b) == a \o b

(* Two texts, the first of which is two texts. *)
LEMMA BothTexts ==
  ASSUME NEW X
  PROVE  \A a, b, c \in Seq(X) : Both(a, b) \in Seq(X) /\ Both(a, Both(b, c)) = Both(Both(a, b), c)
<1>1. ASSUME NEW a \in Seq(X), NEW b \in Seq(X), NEW c \in Seq(X)
      PROVE  Both(a, b) \in Seq(X) /\ Both(a, Both(b, c)) = Both(Both(a, b), c)
  <2>1. a \o b \in Seq(X)
    BY ConcatProperties
  <2>2. a \o (b \o c) = (a \o b) \o c
    BY ThreeTexts
  <2> QED BY <2>1, <2>2 DEF Both
<1> QED BY <1>1

(* What vprintfmt() prints for strtol(), in the form in which it is read. *)
LEMMA NumeralGiven ==
  ASSUME NEW v, NEW conv \in {"d", "o", "x"}, NEW sign \in Seq(Chars), NEW num \in Nat,
         NEW base \in 2..16,
         Convert(conv, Opened(2, 1), v) = Both(sign, Figures(num, base))
  PROVE  Numeral(conv, v) = Given(Front(conv, sign), num, base)
<1>1. PICK fig \in Seq(Chars) : fig = Figures(num, base)
  <2>1. Figures(num, base) \in Seq(DigitChars)
    BY FiguresAre
  <2>2. Figures(num, base) \in Seq(Chars)
    BY <2>1, DigitsAre, SeqMonotonic
  <2> QED BY <2>2
<1>2. "z" \in Chars /\ "0" \in Chars /\ "x" \in Chars /\ Space \in Chars
  BY CharsAre, Zenon
<1>3. PICK z \in Seq(Chars) : z = <<"z">>
  <2>1. <<"z">> \in Seq(Chars)
    BY <1>2
  <2> QED BY <2>1
<1>4. PICK pre \in Seq(Chars) : pre = <<Space>> \o (IF conv = "x" THEN <<"0", "x">> ELSE <<>>)
  <2>1. <<Space>> \in Seq(Chars) /\ (IF conv = "x" THEN <<"0", "x">> ELSE <<>>) \in Seq(Chars)
    BY <1>2
  <2>2. <<Space>> \o (IF conv = "x" THEN <<"0", "x">> ELSE <<>>) \in Seq(Chars)
    BY <2>1, ConcatProperties
  <2> QED BY <2>2
<1>9. \A a, b, c \in Seq(Chars) : Both(a, b) \in Seq(Chars) /\ Both(a, Both(b, c)) = Both(Both(a, b), c)
  BY BothTexts
<1>5. PICK t \in Seq(Chars) : t = Both(sign, fig)
  BY <1>9
<1>6. vprintfmt(<<"%", conv, "z">>, <<v>>) = t \o z
  <2>1. conv \in Conversions \ {"%"}
    BY DEF Conversions
  <2> QED BY <1>1, <1>3, <1>5, <2>1, OneDirective
<1>7. Numeral(conv, v) = Both(pre, Both(t, z))
  BY <1>4, <1>6 DEF Numeral, Both
<1>8. Both(pre, Both(Both(sign, fig), z)) = Both(Both(Both(pre, sign), fig), z)
  BY <1>9
<1> QED BY <1>1, <1>3, <1>4, <1>5, <1>7, <1>8 DEF Given, Front, Both

(* For each conversion: what is printed, for which number in which base. *)
LEMMA NumeralIs ==
  ASSUME NEW v \in Ints(INTBITS), NEW M, M = 2^INTBITS
  PROVE  /\ v < 0 => Numeral("d", v) = Given(<<Space, "-">>, -v, 10)
         /\ ~(v < 0) => Numeral("d", v) = Given(<<Space>>, v, 10)
         /\ Numeral("o", v) = Given(<<Space>>, v % M, 8)
         /\ Numeral("x", v) = Given(<<Space, "0", "x">>, v % M, 16)
<1>1. M \in Nat \ {0} /\ v \in Int /\ v % M \in Nat
  BY ConvertNumber
<1>2. <<>> \in Seq(Chars) /\ <<"-">> \in Seq(Chars)
  <2>1. "-" \in Chars
    BY CharsAre, Zenon
  <2> QED BY <2>1
<1>3. \A n \in Nat, b \in 2..16 : <<>> \o Figures(n, b) = Figures(n, b)
  <2> TAKE n \in Nat, b \in 2..16
  <2>1. Figures(n, b) \in Seq(DigitChars)
    BY FiguresAre
  <2> QED BY <2>1, ConcatEmptySeq
<1>4. PICK ten \in 2..16, eight \in 2..16, sixteen \in 2..16 : ten = 10 /\ eight = 8 /\ sixteen = 16
  OBVIOUS
<1>5. PICK d \in {"d", "o", "x"}, o \in {"d", "o", "x"}, x \in {"d", "o", "x"} :
        /\ d = "d" /\ o = "o" /\ x = "x"
  OBVIOUS
<1>6. PICK none \in Seq(Chars), minus \in Seq(Chars) : none = <<>> /\ minus = <<"-">>
  BY <1>2
<1>7. PICK r \in Nat : r = v % M
  BY <1>1
<1>8. Front(d, none) = <<Space>> /\ Front(d, minus) = <<Space, "-">>
      /\ Front(o, none) = <<Space>> /\ Front(x, none) = <<Space, "0", "x">>
  <2>1. "-" \in Chars /\ "0" \in Chars /\ "x" \in Chars /\ Space \in Chars
    BY CharsAre, Zenon
  <2>2. PICK sp \in Seq(Chars) : sp = <<Space>>
    <3>1. <<Space>> \in Seq(Chars)
      BY <2>1
    <3> QED BY <3>1
  <2>3. PICK hex \in Seq(Chars) : hex = <<"0", "x">>
    <3>1. <<"0", "x">> \in Seq(Chars)
      BY <2>1
    <3> QED BY <3>1
  <2>4. PICK all \in Seq(Chars) : all = <<Space, "0", "x">>
    <3>1. <<Space, "0", "x">> \in Seq(Chars)
      BY <2>1
    <3> QED BY <3>1
  <2>5. sp \o <<>> = sp /\ all \o <<>> = all
    <3> HIDE <2>2, <2>3, <2>4
    <3> QED BY ConcatEmptySeq
  <2>6. sp \o minus = <<Space, "-">>
    BY <1>6, <2>2, OneAndOne
  <2>7. sp \o hex = all
    BY <2>2, <2>3, <2>4, OneAndTwo
  <2> QED BY <1>5, <1>6, <2>2, <2>3, <2>4, <2>5, <2>6, <2>7 DEF Front
<1>9. ASSUME v < 0 PROVE Numeral("d", v) = Given(<<Space, "-">>, -v, 10)
  <2>1. PICK n \in Nat : n = -v
    BY <1>1, <1>9
  <2>2. Convert(d, Opened(2, 1), v) = Both(minus, Figures(n, ten))
    BY <1>4, <1>5, <1>6, <1>9, <2>1, ConvertNumber DEF Both
  <2>3. Numeral(d, v) = Given(Front(d, minus), n, ten)
    BY <2>2, NumeralGiven
  <2> QED BY <1>4, <1>5, <1>6, <1>8, <2>1, <2>3
<1>10. ASSUME ~(v < 0) PROVE Numeral("d", v) = Given(<<Space>>, v, 10)
  <2>1. PICK n \in Nat : n = v
    BY <1>1, <1>10
  <2>2. Convert(d, Opened(2, 1), v) = Both(none, Figures(n, ten))
    BY <1>3, <1>4, <1>5, <1>6, <1>10, <2>1, ConvertNumber DEF Both
  <2>3. Numeral(d, v) = Given(Front(d, none), n, ten)
    BY <2>2, NumeralGiven, SMTT(30)
  <2> QED BY <1>4, <1>5, <1>6, <1>8, <2>1, <2>3
<1>11. Numeral("o", v) = Given(<<Space>>, v % M, 8)
  <2>1. Convert(o, Opened(2, 1), v) = Both(none, Figures(r, eight))
    BY <1>3, <1>4, <1>5, <1>6, <1>7, ConvertNumber DEF Both
  <2>2. Numeral(o, v) = Given(Front(o, none), r, eight)
    BY <2>1, NumeralGiven, SMTT(30)
  <2> QED BY <1>4, <1>5, <1>6, <1>7, <1>8, <2>2
<1>12. Numeral("x", v) = Given(<<Space, "0", "x">>, v % M, 16)
  <2>1. Convert(x, Opened(2, 1), v) = Both(none, Figures(r, sixteen))
    BY <1>3, <1>4, <1>5, <1>6, <1>7, ConvertNumber DEF Both
  <2>2. Numeral(x, v) = Given(Front(x, none), r, sixteen)
    BY <2>1, NumeralGiven, SMTT(30)
  <2> QED BY <1>4, <1>5, <1>6, <1>7, <1>8, <2>2
<1> QED BY <1>9, <1>10, <1>11, <1>12

(* strtol() keeps its promise. *)
LEMMA StrtolReadsBack ==
  ASSUME Returned
  PROVE  ReadsBack
<1> SUFFICES ASSUME done, call.op = "strtol" PROVE ReadsBack
  BY DEF ReadsBack, Did
<1>1. Legal(call) /\ result = Do(call)
  BY CallsAssumption DEF Returned
<1>2. PICK v \in Ints(INTBITS), conv \in {"d", "o", "x"} : v = call.v /\ conv = call.conv
  BY <1>1 DEF Legal
<1>3. result = strtol(Numeral(conv, v), IF conv = "x" THEN 0 ELSE Base(conv))
  BY <1>1, <1>2 DEF Do
<1>4. PICK M : M = 2^INTBITS
  OBVIOUS
<1>5. M \in Nat \ {0} /\ v \in Int /\ v % M \in Nat
  BY <1>4, ConvertNumber DEF Both
<1>6. Signed(v, INTBITS) = v /\ Signed(v % M, INTBITS) = v /\ Signed(-Signed(-v, INTBITS), INTBITS) = v
  <2>1. INTBITS \in Nat \ {0}
    BY BitsAssumption
  <2>2. Signed(v, INTBITS) = v
    BY <1>5, <2>1, SignedIs
  <2>3. Signed(v % 2^INTBITS, INTBITS) = Signed(v, INTBITS)
    BY <1>5, <2>1, SignedMod
  <2>4. Signed(-Signed(-v, INTBITS), INTBITS) = Signed(v, INTBITS)
    BY <1>5, <2>1, SignedNegated
  <2> QED BY <1>4, <2>2, <2>3, <2>4
<1>7. result.val = v /\ result.end = Len(Numeral(conv, v))
  <2>1. CASE conv = "d"
    <3>1. Base(conv) = 10 /\ conv # "x"
      BY <2>1 DEF Base
    <3>2. CASE v < 0
      <4>1. PICK num \in Nat : num = -v
        BY <1>5, <3>2
      <4>2. PICK s : s = Numeral(conv, v) /\ s = (<<Space, "-">> \o Figures(num, 10)) \o <<"z">>
        BY <1>4, <2>1, <3>2, <4>1, NumeralIs DEF Given
      <4>3. strtol(s, 10) = [val |-> Signed(-Signed(num, INTBITS), INTBITS), end |-> Len(s)]
        BY <4>2, StrtolNegative
      <4>4. result = [val |-> Signed(-Signed(num, INTBITS), INTBITS), end |-> Len(s)]
        BY <1>3, <3>1, <4>2, <4>3
      <4> QED BY <1>6, <4>1, <4>2, <4>4
    <3>3. CASE ~(v < 0)
      <4>1. PICK num \in Nat : num = v
        BY <1>5, <3>3
      <4>0. PICK base \in {8, 10} : base = 10
        OBVIOUS
      <4>2. PICK s : /\ base = 10 /\ s = Numeral(conv, v)
                     /\ s = (<<Space>> \o Figures(num, base)) \o <<"z">>
        <5>1. Numeral(conv, v) = (<<Space>> \o Figures(num, 10)) \o <<"z">>
          BY <1>4, <2>1, <3>3, <4>1, NumeralIs DEF Given
        <5> QED BY <4>0, <5>1
      <4>3. strtol(s, base) = [val |-> Signed(num, INTBITS), end |-> Len(s)]
        BY <4>2, StrtolPlain
      <4> QED BY <1>3, <1>6, <3>1, <4>1, <4>2, <4>3
    <3> QED BY <3>2, <3>3
  <2>2. CASE conv = "o"
    <3>1. Base(conv) = 8 /\ conv # "x"
      BY <2>2 DEF Base
    <3>2. PICK num \in Nat : num = v % M
      BY <1>5
    <3>0. PICK base \in {8, 10} : base = 8
      OBVIOUS
    <3>3. PICK s : base = 8 /\ s = Numeral(conv, v) /\ s = (<<Space>> \o Figures(num, base)) \o <<"z">>
      <4>1. Numeral(conv, v) = (<<Space>> \o Figures(num, 8)) \o <<"z">>
        BY <1>4, <2>2, <3>2, NumeralIs DEF Given
      <4> QED BY <3>0, <4>1
    <3>4. strtol(s, base) = [val |-> Signed(num, INTBITS), end |-> Len(s)]
      BY <3>3, StrtolPlain
    <3> QED BY <1>3, <1>6, <3>1, <3>2, <3>3, <3>4
  <2>3. CASE conv = "x"
    <3>1. PICK num \in Nat : num = v % M
      BY <1>5
    <3>2. PICK s : s = Numeral(conv, v) /\ s = (<<Space, "0", "x">> \o Figures(num, 16)) \o <<"z">>
      BY <1>4, <2>3, <3>1, NumeralIs DEF Given
    <3>3. strtol(s, 0) = [val |-> Signed(num, INTBITS), end |-> Len(s)]
      BY <3>2, StrtolHex
    <3> QED BY <1>3, <1>6, <2>3, <3>1, <3>2, <3>3
  <2> QED BY <2>1, <2>2, <2>3
<1> QED BY <1>2, <1>7 DEF ReadsBack

(* strtol() reads back what printf() prints for every int of any width: %d, also for
   the least int, whose negation overflows, and %o and 0x%x, whose values are read
   beyond the greatest int and wrap; it stops where the number ends. *)
THEOREM ReadsBackCorrect == Spec => []ReadsBack
BY ReturnedInvariant, StrtolReadsBack, PTL

-----------------------------------------------------------------------------
(* The numbers in a directive. *)

(* The state of the loop that reads a number, in an operator of its own. *)
Read(value, end) == [value |-> value, end |-> end]
Fields == [value : Nat, end : Nat]
FieldStep(fmt) == [f \in Fields |-> [value |-> f.value * 10 + Digit(fmt[f.end]), end |-> f.end + 1]]
FieldStates(fmt, i) == Iterated(FieldStep(fmt), Read(0, i))
InField(fmt, i) == [k \in Within(Len(fmt)) |-> CharAt(fmt, FieldStates(fmt, i)[k].end) \in Decimals]

(* A number in a directive is read digit by digit. *)
LEMMA FieldDef ==
  ASSUME NEW fmt, NEW i
  PROVE  /\ Field(fmt, i) = FieldStates(fmt, i)[Turns(Len(fmt), InField(fmt, i))]
         /\ FieldStates(fmt, i)[0] = Read(0, i)
         /\ \A k \in Nat : FieldStates(fmt, i)[k + 1] = FieldStep(fmt)[FieldStates(fmt, i)[k]]
<1>1. Field(fmt, i) = FieldStates(fmt, i)[Turns(Len(fmt), InField(fmt, i))]
  BY DEF Field, FieldStates, FieldStep, Fields, Read, InField
<1>2. FieldStates(fmt, i)[0] = Read(0, i)
  BY IteratedDef DEF FieldStates
<1>3. \A k \in Nat : FieldStates(fmt, i)[k + 1] = FieldStep(fmt)[FieldStates(fmt, i)[k]]
  BY IteratedDef DEF FieldStates
<1> QED BY <1>1, <1>2, <1>3

(* A decimal digit has a value. *)
LEMMA DecimalIs ==
  ASSUME NEW c \in Decimals
  PROVE  Digit(c) \in Nat
<1>1. PICK k \in 1..10 : c = Digits[k]
  BY DEF Decimals
<1>2. PICK j \in 0..15 : j + 1 = k
  <2>1. k - 1 \in 0..15 /\ (k - 1) + 1 = k
    OBVIOUS
  <2> QED BY <2>1
<1>3. Digit(Digits[j + 1]) = j
  BY DigitsAre
<1> QED BY <1>1, <1>2, <1>3

(* One more character of a number. *)
LEMMA FieldNext ==
  ASSUME NEW fmt, NEW value \in Nat, NEW end \in Nat, CharAt(fmt, end) \in Decimals
  PROVE  /\ FieldStep(fmt)[Read(value, end)] = Read(value * 10 + Digit(CharAt(fmt, end)), end + 1)
         /\ value * 10 + Digit(CharAt(fmt, end)) \in Nat
<1>1. CharAt(fmt, end) = fmt[end]
  <2>1. NUL \notin Decimals
    BY SwitchIs, Zenon DEF NUL
  <2> QED BY <2>1 DEF CharAt
<1>2. PICK d \in Nat : d = Digit(fmt[end])
  BY <1>1, DecimalIs
<1>3. Read(value, end) \in Fields /\ Read(value, end).value = value /\ Read(value, end).end = end
  BY DEF Fields, Read
<1>4. FieldStep(fmt)[Read(value, end)] = Read(value * 10 + d, end + 1)
  <2> DEFINE r == Read(value, end)
  <2> HIDE DEF r
  <2>1. r \in Fields /\ r.value = value /\ r.end = end
    BY <1>3 DEF r
  <2>2. FieldStep(fmt)[r] = [value |-> r.value * 10 + Digit(fmt[r.end]), end |-> r.end + 1]
    BY <2>1 DEF FieldStep
  <2> QED BY <1>2, <2>1, <2>2 DEF Read, r
<1>5. value * 10 + d \in Nat
  OBVIOUS
<1> QED BY <1>1, <1>2, <1>4, <1>5

(* Whatever number there is: it is natural, and the pointer does not go back. *)
LEMMA FieldType ==
  ASSUME NEW fmt, Len(fmt) \in Nat, NEW i \in Nat
  PROVE  \E value \in Nat, end \in Nat : Field(fmt, i) = Read(value, end) /\ end >= i
<1> DEFINE s == FieldStates(fmt, i)
           go == InField(fmt, i)
           t == Turns(Len(fmt), go)
           Is(k) == \E value \in Nat, end \in Nat : s[k] = Read(value, end) /\ end >= i
           S == {k \in Nat : k <= t => Is(k)}
<1>1. t \in 0..Len(fmt) /\ (\A k \in 0..(t - 1) : go[k])
  <2> HIDE DEF go
  <2> QED BY TurnsDef
<1>2. Field(fmt, i) = s[t] /\ s[0] = Read(0, i) /\ \A k \in Nat : s[k + 1] = FieldStep(fmt)[s[k]]
  BY FieldDef
<1>3. go = [k \in Within(Len(fmt)) |-> CharAt(fmt, s[k].end) \in Decimals]
  BY DEF InField
<1> HIDE DEF s, t, go
<1>4. 0 \in S
  <2>1. 0 \in Nat /\ i >= i
    OBVIOUS
  <2> QED BY <1>2, <2>1
<1>5. ASSUME NEW k \in Nat, k \in S PROVE k + 1 \in S
  <2> SUFFICES ASSUME k + 1 <= t PROVE Is(k + 1)
    OBVIOUS
  <2>1. k <= t /\ k \in 0..(t - 1) /\ k \in Within(Len(fmt))
    BY <1>1 DEF Within
  <2>2. PICK value \in Nat, end \in Nat : s[k] = Read(value, end) /\ end >= i
    BY <1>5, <2>1
  <2>3. CharAt(fmt, end) \in Decimals
    <3>1. Read(value, end).end = end
      BY DEF Read
    <3>2. go[k]
      BY <1>1, <2>1
    <3> QED BY <1>3, <2>1, <2>2, <3>1, <3>2
  <2>4. PICK v \in Nat : FieldStep(fmt)[Read(value, end)] = Read(v, end + 1)
    BY <2>3, FieldNext
  <2>5. s[k + 1] = Read(v, end + 1)
    BY <1>2, <2>2, <2>4
  <2>6. end + 1 \in Nat /\ end + 1 >= i
    BY <2>2
  <2> QED BY <2>5, <2>6
<1>6. \A k \in Nat : k \in S
  <2> HIDE DEF S
  <2> QED BY <1>4, <1>5, AllNumbers
<1>7. Is(t)
  <2>1. t \in Nat /\ t <= t
    BY <1>1
  <2> QED BY <1>6, <2>1
<1> QED BY <1>2, <1>7

(* A number of one digit. *)
LEMMA FieldDigit ==
  ASSUME NEW fmt, Len(fmt) \in Nat, NEW i \in 1..Len(fmt), NEW n \in 0..9,
         CharAt(fmt, i) = Digits[n + 1],
         CharAt(fmt, i + 1) \notin Decimals
  PROVE  Field(fmt, i) = Read(n, i + 1)
<1> DEFINE s == FieldStates(fmt, i)
           go == InField(fmt, i)
<1>1. /\ Field(fmt, i) = s[Turns(Len(fmt), go)] /\ s[0] = Read(0, i)
      /\ \A k \in Nat : s[k + 1] = FieldStep(fmt)[s[k]]
  BY FieldDef
<1>2. go = [k \in Within(Len(fmt)) |-> CharAt(fmt, s[k].end) \in Decimals]
  BY DEF InField
<1> HIDE DEF s, go
<1>3. CharAt(fmt, i) \in Decimals /\ Digit(CharAt(fmt, i)) = n
  <2>1. n + 1 \in 1..10 /\ n \in 0..15
    OBVIOUS
  <2>2. Digits[n + 1] \in Decimals
    BY <2>1 DEF Decimals
  <2> QED BY <2>1, <2>2, DigitsAre
<1>4. s[1] = Read(n, i + 1)
  <2>1. PICK value \in Nat, end \in Nat : value = 0 /\ end = i
    OBVIOUS
  <2>2. FieldStep(fmt)[Read(value, end)] = Read(value * 10 + Digit(CharAt(fmt, end)), end + 1)
    BY <1>3, <2>1, FieldNext
  <2>3. value * 10 + Digit(CharAt(fmt, end)) = n
    BY <1>3, <2>1
  <2>4. 0 + 1 = 1 /\ 0 \in Nat
    OBVIOUS
  <2>5. s[0 + 1] = FieldStep(fmt)[s[0]]
    BY <1>1, <2>4
  <2> QED BY <1>1, <2>1, <2>2, <2>3, <2>4, <2>5
<1>5. Turns(Len(fmt), go) = 1
  <2>1. 0 \in Within(Len(fmt)) /\ 1 \in 0..Len(fmt) /\ \A k \in 0..(1 - 1) : k = 0
    BY DEF Within
  <2>2. Read(0, i).end = i /\ Read(n, i + 1).end = i + 1
    BY DEF Read
  <2>3. go[0]
    BY <1>1, <1>2, <1>3, <2>1, <2>2
  <2>4. 1 = Len(fmt) \/ ~go[1]
    <3> SUFFICES ASSUME 1 # Len(fmt) PROVE ~go[1]
      OBVIOUS
    <3>1. 1 \in Within(Len(fmt))
      <4>1. PICK m \in Nat : m = Len(fmt) /\ m >= 1 /\ m # 1
        <5>1. Len(fmt) >= 1
          OBVIOUS
        <5> QED BY <5>1
      <4>2. 1 \in 0..(m - 1)
        BY <4>1
      <4> QED BY <4>1, <4>2 DEF Within
    <3> QED BY <1>2, <1>4, <2>2, <3>1
  <2>5. \A k \in 0..(1 - 1) : go[k]
    BY <2>1, <2>3
  <2> QED BY <2>1, <2>4, <2>5, TurnsIs
<1> QED BY <1>1, <1>4, <1>5

-----------------------------------------------------------------------------
(* The switch of vprintfmt(): its state, and what each flag does to it. *)

(* The state of the switch, in an operator of its own. *)
St(at, arg, padc, width, precision, lflag, altflag) ==
  [at |-> at, arg |-> arg, padc |-> padc, width |-> width, precision |-> precision, lflag |-> lflag,
    altflag |-> altflag]

(* The parts of a state. *)
LEMMA StIs ==
  ASSUME NEW at, NEW arg, NEW padc, NEW width, NEW precision, NEW lflag, NEW altflag, NEW e,
         e = St(at, arg, padc, width, precision, lflag, altflag)
  PROVE  /\ e.at = at /\ e.arg = arg /\ e.padc = padc /\ e.width = width /\ e.precision = precision
         /\ e.lflag = lflag /\ e.altflag = altflag
BY DEF St

(* A state is one of those the switch can be in. *)
LEMMA StMember ==
  ASSUME NEW at, NEW arg, NEW padc, NEW width, NEW precision, NEW lflag, NEW altflag
  PROVE  /\ St(at, arg, padc, width, precision, lflag, altflag) \in [at : {at}, arg : {arg},
              padc : {padc}, width : {width}, precision : {precision}, lflag : {lflag},
                altflag : {altflag}]
         /\ \A e \in [at : {at}, arg : {arg}, padc : {padc}, width : {width}, precision : {precision},
              lflag : {lflag}, altflag : {altflag}] :
                e = St(at, arg, padc, width, precision, lflag, altflag)
BY DEF St

(* A state with one of its parts replaced.  This part, and one lemma for each of the others: *)
LEMMA St_at ==
  ASSUME NEW at, NEW arg, NEW padc, NEW width, NEW precision, NEW lflag, NEW altflag, NEW v
  PROVE  [St(at, arg, padc, width, precision, lflag, altflag) EXCEPT !.at = v]
           = St(v, arg, padc, width, precision, lflag, altflag)
<1> DEFINE e == St(at, arg, padc, width, precision, lflag, altflag)
<1>1. e \in [at : {at}, arg : {arg}, padc : {padc}, width : {width}, precision : {precision},
        lflag : {lflag}, altflag : {altflag}]
  BY StMember
<1> HIDE DEF e
<1>2. [e EXCEPT !.at = v] \in [at : {v}, arg : {arg}, padc : {padc}, width : {width},
        precision : {precision}, lflag : {lflag}, altflag : {altflag}]
  BY <1>1
<1>3. \A x \in [at : {v}, arg : {arg}, padc : {padc}, width : {width}, precision : {precision},
        lflag : {lflag}, altflag : {altflag}] : x = St(v, arg, padc, width, precision, lflag, altflag)
  BY StMember
<1> QED BY <1>2, <1>3 DEF e

LEMMA St_arg ==
  ASSUME NEW at, NEW arg, NEW padc, NEW width, NEW precision, NEW lflag, NEW altflag, NEW v
  PROVE  [St(at, arg, padc, width, precision, lflag, altflag) EXCEPT !.arg = v]
           = St(at, v, padc, width, precision, lflag, altflag)
<1> DEFINE e == St(at, arg, padc, width, precision, lflag, altflag)
<1>1. e \in [at : {at}, arg : {arg}, padc : {padc}, width : {width}, precision : {precision},
        lflag : {lflag}, altflag : {altflag}]
  BY StMember
<1> HIDE DEF e
<1>2. [e EXCEPT !.arg = v] \in [at : {at}, arg : {v}, padc : {padc}, width : {width},
        precision : {precision}, lflag : {lflag}, altflag : {altflag}]
  BY <1>1
<1>3. \A x \in [at : {at}, arg : {v}, padc : {padc}, width : {width}, precision : {precision},
        lflag : {lflag}, altflag : {altflag}] : x = St(at, v, padc, width, precision, lflag, altflag)
  BY StMember
<1> QED BY <1>2, <1>3 DEF e

LEMMA St_padc ==
  ASSUME NEW at, NEW arg, NEW padc, NEW width, NEW precision, NEW lflag, NEW altflag, NEW v
  PROVE  [St(at, arg, padc, width, precision, lflag, altflag) EXCEPT !.padc = v]
           = St(at, arg, v, width, precision, lflag, altflag)
<1> DEFINE e == St(at, arg, padc, width, precision, lflag, altflag)
<1>1. e \in [at : {at}, arg : {arg}, padc : {padc}, width : {width}, precision : {precision},
        lflag : {lflag}, altflag : {altflag}]
  BY StMember
<1> HIDE DEF e
<1>2. [e EXCEPT !.padc = v] \in [at : {at}, arg : {arg}, padc : {v}, width : {width},
        precision : {precision}, lflag : {lflag}, altflag : {altflag}]
  BY <1>1
<1>3. \A x \in [at : {at}, arg : {arg}, padc : {v}, width : {width}, precision : {precision},
        lflag : {lflag}, altflag : {altflag}] : x = St(at, arg, v, width, precision, lflag, altflag)
  BY StMember
<1> QED BY <1>2, <1>3 DEF e

LEMMA St_width ==
  ASSUME NEW at, NEW arg, NEW padc, NEW width, NEW precision, NEW lflag, NEW altflag, NEW v
  PROVE  [St(at, arg, padc, width, precision, lflag, altflag) EXCEPT !.width = v]
           = St(at, arg, padc, v, precision, lflag, altflag)
<1> DEFINE e == St(at, arg, padc, width, precision, lflag, altflag)
<1>1. e \in [at : {at}, arg : {arg}, padc : {padc}, width : {width}, precision : {precision},
        lflag : {lflag}, altflag : {altflag}]
  BY StMember
<1> HIDE DEF e
<1>2. [e EXCEPT !.width = v] \in [at : {at}, arg : {arg}, padc : {padc}, width : {v},
        precision : {precision}, lflag : {lflag}, altflag : {altflag}]
  BY <1>1
<1>3. \A x \in [at : {at}, arg : {arg}, padc : {padc}, width : {v}, precision : {precision},
        lflag : {lflag}, altflag : {altflag}] : x = St(at, arg, padc, v, precision, lflag, altflag)
  BY StMember
<1> QED BY <1>2, <1>3 DEF e

LEMMA St_precision ==
  ASSUME NEW at, NEW arg, NEW padc, NEW width, NEW precision, NEW lflag, NEW altflag, NEW v
  PROVE  [St(at, arg, padc, width, precision, lflag, altflag) EXCEPT !.precision = v]
           = St(at, arg, padc, width, v, lflag, altflag)
<1> DEFINE e == St(at, arg, padc, width, precision, lflag, altflag)
<1>1. e \in [at : {at}, arg : {arg}, padc : {padc}, width : {width}, precision : {precision},
        lflag : {lflag}, altflag : {altflag}]
  BY StMember
<1> HIDE DEF e
<1>2. [e EXCEPT !.precision = v] \in [at : {at}, arg : {arg}, padc : {padc}, width : {width},
        precision : {v}, lflag : {lflag}, altflag : {altflag}]
  BY <1>1
<1>3. \A x \in [at : {at}, arg : {arg}, padc : {padc}, width : {width}, precision : {v},
        lflag : {lflag}, altflag : {altflag}] : x = St(at, arg, padc, width, v, lflag, altflag)
  BY StMember
<1> QED BY <1>2, <1>3 DEF e

LEMMA St_lflag ==
  ASSUME NEW at, NEW arg, NEW padc, NEW width, NEW precision, NEW lflag, NEW altflag, NEW v
  PROVE  [St(at, arg, padc, width, precision, lflag, altflag) EXCEPT !.lflag = v]
           = St(at, arg, padc, width, precision, v, altflag)
<1> DEFINE e == St(at, arg, padc, width, precision, lflag, altflag)
<1>1. e \in [at : {at}, arg : {arg}, padc : {padc}, width : {width}, precision : {precision},
        lflag : {lflag}, altflag : {altflag}]
  BY StMember
<1> HIDE DEF e
<1>2. [e EXCEPT !.lflag = v] \in [at : {at}, arg : {arg}, padc : {padc}, width : {width},
        precision : {precision}, lflag : {v}, altflag : {altflag}]
  BY <1>1
<1>3. \A x \in [at : {at}, arg : {arg}, padc : {padc}, width : {width}, precision : {precision},
        lflag : {v}, altflag : {altflag}] : x = St(at, arg, padc, width, precision, v, altflag)
  BY StMember
<1> QED BY <1>2, <1>3 DEF e

LEMMA St_altflag ==
  ASSUME NEW at, NEW arg, NEW padc, NEW width, NEW precision, NEW lflag, NEW altflag, NEW v
  PROVE  [St(at, arg, padc, width, precision, lflag, altflag) EXCEPT !.altflag = v]
           = St(at, arg, padc, width, precision, lflag, v)
<1> DEFINE e == St(at, arg, padc, width, precision, lflag, altflag)
<1>1. e \in [at : {at}, arg : {arg}, padc : {padc}, width : {width}, precision : {precision},
        lflag : {lflag}, altflag : {altflag}]
  BY StMember
<1> HIDE DEF e
<1>2. [e EXCEPT !.altflag = v] \in [at : {at}, arg : {arg}, padc : {padc}, width : {width},
        precision : {precision}, lflag : {lflag}, altflag : {v}]
  BY <1>1
<1>3. \A x \in [at : {at}, arg : {arg}, padc : {padc}, width : {width}, precision : {precision},
        lflag : {lflag}, altflag : {v}] : x = St(at, arg, padc, width, precision, lflag, v)
  BY StMember
<1> QED BY <1>2, <1>3 DEF e

(* What the switch does for each flag, and for a number. *)
LEMMA Advanced ==
  ASSUME NEW at \in Nat, NEW arg \in Nat, NEW padc, NEW width \in Int, NEW precision \in Int,
         NEW lflag \in Nat, NEW altflag, NEW e, e = St(at, arg, padc, width, precision, lflag, altflag)
  PROVE  [e EXCEPT !.at = @ + 1] = St(at + 1, arg, padc, width, precision, lflag, altflag)
<1>1. [e EXCEPT !.at = @ + 1] = [e EXCEPT !.at = at + 1]
  BY StIs
<1>2. PICK v : v = at + 1
  OBVIOUS
<1>3. [St(at, arg, padc, width, precision, lflag, altflag) EXCEPT !.at = v]
        = St(v, arg, padc, width, precision, lflag, altflag)
  BY St_at
<1> QED BY <1>1, <1>2, <1>3

(* '-' pads on the right. *)
LEMMA FlagDash ==
  ASSUME NEW fmt, NEW args, NEW at \in Nat, NEW arg \in Nat, NEW padc, NEW width \in Int,
         NEW precision \in Int,
         NEW lflag \in Nat, NEW altflag, CharAt(fmt, at) = "-"
  PROVE  Flag(fmt, args, St(at, arg, padc, width, precision, lflag, altflag))
           = St(at + 1, arg, "-", width, precision, lflag, altflag)
<1> DEFINE e == St(at, arg, padc, width, precision, lflag, altflag)
           n == St(at + 1, arg, padc, width, precision, lflag, altflag)
<1>1. e.at = at /\ n.padc = padc
  BY StIs
<1>2. [e EXCEPT !.at = @ + 1] = n
  BY Advanced
<1>3. PICK v : v = "-"
  OBVIOUS
<1>4. PICK a : a = at + 1
  OBVIOUS
<1>5. [St(a, arg, padc, width, precision, lflag, altflag) EXCEPT !.padc = v]
        = St(a, arg, v, width, precision, lflag, altflag)
  BY St_padc
<1> HIDE DEF e, n
<1>6. "-" \notin Decimals \ {"0"}
  BY SwitchIs, Zenon
<1>7. Flag(fmt, args, e) = [[e EXCEPT !.at = @ + 1] EXCEPT !.padc = "-"]
  BY <1>1, <1>6 DEF Flag
<1>8. [n EXCEPT !.padc = "-"] = [n EXCEPT !.padc = v]
  BY <1>1, <1>3
<1> QED BY <1>2, <1>3, <1>4, <1>5, <1>7, <1>8 DEF e, n

(* '0' pads with zeros. *)
LEMMA FlagZero ==
  ASSUME NEW fmt, NEW args, NEW at \in Nat, NEW arg \in Nat, NEW padc, NEW width \in Int,
         NEW precision \in Int,
         NEW lflag \in Nat, NEW altflag, CharAt(fmt, at) = "0"
  PROVE  Flag(fmt, args, St(at, arg, padc, width, precision, lflag, altflag))
           = St(at + 1, arg, "0", width, precision, lflag, altflag)
<1> DEFINE e == St(at, arg, padc, width, precision, lflag, altflag)
           n == St(at + 1, arg, padc, width, precision, lflag, altflag)
<1>1. e.at = at /\ n.padc = padc
  BY StIs
<1>2. [e EXCEPT !.at = @ + 1] = n
  BY Advanced
<1>3. PICK v : v = "0"
  OBVIOUS
<1>4. PICK a : a = at + 1
  OBVIOUS
<1>5. [St(a, arg, padc, width, precision, lflag, altflag) EXCEPT !.padc = v]
        = St(a, arg, v, width, precision, lflag, altflag)
  BY St_padc
<1> HIDE DEF e, n
<1>6. "0" \notin Decimals \ {"0"}
  BY SwitchIs, Zenon
<1>7. Flag(fmt, args, e) = [[e EXCEPT !.at = @ + 1] EXCEPT !.padc = "0"]
  BY <1>1, <1>6 DEF Flag
<1>8. [n EXCEPT !.padc = "0"] = [n EXCEPT !.padc = v]
  BY <1>1, <1>3
<1> QED BY <1>2, <1>3, <1>4, <1>5, <1>7, <1>8 DEF e, n

(* A name that keeps the provers from typing the flag. *)
On == TRUE
Alternates == BOOLEAN

(* '#' asks for the alternate form. *)
LEMMA FlagAlt ==
  ASSUME NEW fmt, NEW args, NEW at \in Nat, NEW arg \in Nat, NEW padc, NEW width \in Int,
         NEW precision \in Int,
         NEW lflag \in Nat, NEW altflag, CharAt(fmt, at) = "#"
  PROVE  Flag(fmt, args, St(at, arg, padc, width, precision, lflag, altflag))
           = St(at + 1, arg, padc, width, precision, lflag, On)
<1> DEFINE e == St(at, arg, padc, width, precision, lflag, altflag)
           n == St(at + 1, arg, padc, width, precision, lflag, altflag)
<1>1. e.at = at /\ n.altflag = altflag
  BY StIs
<1>2. [e EXCEPT !.at = @ + 1] = n
  BY Advanced
<1>3. PICK v : v = On
  OBVIOUS
<1>4. PICK a : a = at + 1
  OBVIOUS
<1>5. [St(a, arg, padc, width, precision, lflag, altflag) EXCEPT !.altflag = v]
        = St(a, arg, padc, width, precision, lflag, v)
  BY St_altflag
<1> HIDE DEF e, n
<1>6. "#" \notin Decimals \ {"0"}
  BY SwitchIs, Zenon
<1>7. Flag(fmt, args, e) = [[e EXCEPT !.at = @ + 1] EXCEPT !.altflag = On]
  BY <1>1, <1>6 DEF Flag, On
<1>8. [n EXCEPT !.altflag = On] = [n EXCEPT !.altflag = v]
  BY <1>1, <1>3
<1> QED BY <1>2, <1>3, <1>4, <1>5, <1>7, <1>8 DEF e, n

(* 'l' counts. *)
LEMMA FlagLong ==
  ASSUME NEW fmt, NEW args, NEW at \in Nat, NEW arg \in Nat, NEW padc, NEW width \in Int,
         NEW precision \in Int,
         NEW lflag \in Nat, NEW altflag, CharAt(fmt, at) = "l"
  PROVE  Flag(fmt, args, St(at, arg, padc, width, precision, lflag, altflag))
           = St(at + 1, arg, padc, width, precision, lflag + 1, altflag)
<1> DEFINE e == St(at, arg, padc, width, precision, lflag, altflag)
           n == St(at + 1, arg, padc, width, precision, lflag, altflag)
<1>1. e.at = at /\ n.lflag = lflag
  BY StIs
<1>2. [e EXCEPT !.at = @ + 1] = n
  BY Advanced
<1>3. PICK v : v = (lflag + 1)
  OBVIOUS
<1>4. PICK a : a = at + 1
  OBVIOUS
<1>5. [St(a, arg, padc, width, precision, lflag, altflag) EXCEPT !.lflag = v]
        = St(a, arg, padc, width, precision, v, altflag)
  BY St_lflag
<1> HIDE DEF e, n
<1>6. "l" \notin Decimals \ {"0"}
  BY SwitchIs, Zenon
<1>7. Flag(fmt, args, e) = [[e EXCEPT !.at = @ + 1] EXCEPT !.lflag = @ + 1]
  BY <1>1, <1>6 DEF Flag
<1>8. [n EXCEPT !.lflag = @ + 1] = [n EXCEPT !.lflag = v]
  BY <1>1, <1>3
<1> QED BY <1>2, <1>3, <1>4, <1>5, <1>7, <1>8 DEF e, n

(* '.' makes the width 0 if there is none. *)
LEMMA FlagPoint ==
  ASSUME NEW fmt, NEW args, NEW at \in Nat, NEW arg \in Nat, NEW padc, NEW width \in Int,
         NEW precision \in Int,
         NEW lflag \in Nat, NEW altflag, CharAt(fmt, at) = "."
  PROVE  Flag(fmt, args, St(at, arg, padc, width, precision, lflag, altflag))
           = St(at + 1, arg, padc, IF width < 0 THEN 0 ELSE width, precision, lflag, altflag)
<1> DEFINE e == St(at, arg, padc, width, precision, lflag, altflag)
           n == St(at + 1, arg, padc, width, precision, lflag, altflag)
<1>1. e.at = at /\ n.width = width
  BY StIs
<1>2. [e EXCEPT !.at = @ + 1] = n
  BY Advanced
<1>3. PICK v : v = (IF width < 0 THEN 0 ELSE width)
  OBVIOUS
<1>4. PICK a : a = at + 1
  OBVIOUS
<1>5. [St(a, arg, padc, width, precision, lflag, altflag) EXCEPT !.width = v]
        = St(a, arg, padc, v, precision, lflag, altflag)
  BY St_width
<1> HIDE DEF e, n
<1>6. "." \notin Decimals \ {"0"}
  BY SwitchIs, Zenon
<1>7. Flag(fmt, args, e) = [[e EXCEPT !.at = @ + 1] EXCEPT !.width = IF @ < 0 THEN 0 ELSE @]
  BY <1>1, <1>6 DEF Flag
<1>8. [n EXCEPT !.width = IF @ < 0 THEN 0 ELSE @] = [n EXCEPT !.width = v]
  BY <1>1, <1>3
<1> QED BY <1>2, <1>3, <1>4, <1>5, <1>7, <1>8 DEF e, n

(* The state when a number has been read. *)
Numbered(at, arg, padc, width, precision, lflag, altflag, n) ==
  IF width < 0 THEN St(at, arg, padc, n, -1, lflag, altflag)
    ELSE St(at, arg, padc, width, n, lflag, altflag)

(* What process_precision makes of a number. *)
LEMMA NumberIs ==
  ASSUME NEW at, NEW arg, NEW padc, NEW width \in Int, NEW precision, NEW lflag, NEW altflag, NEW n
  PROVE  Number(St(at, arg, padc, width, precision, lflag, altflag), n)
           = Numbered(at, arg, padc, width, precision, lflag, altflag, n)
<1> DEFINE e == St(at, arg, padc, width, precision, lflag, altflag)
<1>1. e.width = width
  BY StIs
<1>2. [e EXCEPT !.width = n] = St(at, arg, padc, n, precision, lflag, altflag)
  BY St_width
<1>3. PICK m : m = -1
  OBVIOUS
<1>4. [St(at, arg, padc, n, precision, lflag, altflag) EXCEPT !.precision = m]
        = St(at, arg, padc, n, m, lflag, altflag)
  BY St_precision
<1>5. [e EXCEPT !.precision = n] = St(at, arg, padc, width, n, lflag, altflag)
  BY St_precision
<1> HIDE DEF e
<1>6. [e EXCEPT !.width = n, !.precision = -1] = [[e EXCEPT !.width = n] EXCEPT !.precision = m]
  BY <1>3
<1> QED BY <1>1, <1>2, <1>3, <1>4, <1>5, <1>6 DEF Number, Numbered, e

(* '*' takes its number from the arguments. *)
LEMMA FlagStar ==
  ASSUME NEW fmt, NEW args, NEW at \in Nat, NEW arg \in Nat, NEW padc, NEW width \in Int,
         NEW precision \in Int,
         NEW lflag \in Nat, NEW altflag, CharAt(fmt, at) = "*"
  PROVE  Flag(fmt, args, St(at, arg, padc, width, precision, lflag, altflag))
           = Numbered(at + 1, arg + 1, padc, width, precision, lflag, altflag, args[arg])
<1> DEFINE e == St(at, arg, padc, width, precision, lflag, altflag)
           n == St(at + 1, arg, padc, width, precision, lflag, altflag)
<1>1. e.at = at /\ e.arg = arg /\ n.arg = arg
  BY StIs
<1>2. [e EXCEPT !.at = @ + 1] = n
  BY Advanced
<1>3. PICK a, b, v : a = at + 1 /\ b = arg + 1 /\ v = args[arg]
  OBVIOUS
<1>4. [St(a, arg, padc, width, precision, lflag, altflag) EXCEPT !.arg = b]
        = St(a, b, padc, width, precision, lflag, altflag)
  BY St_arg
<1>5. Number(St(a, b, padc, width, precision, lflag, altflag), v)
        = Numbered(a, b, padc, width, precision, lflag, altflag, v)
  BY NumberIs
<1> HIDE DEF e, n
<1>6. "*" \notin Decimals \ {"0"}
  BY SwitchIs, Zenon
<1>7. Flag(fmt, args, e) = Number([[e EXCEPT !.at = @ + 1] EXCEPT !.arg = @ + 1], args[arg])
  BY <1>1, <1>6 DEF Flag
<1>8. [n EXCEPT !.arg = @ + 1] = [n EXCEPT !.arg = b]
  BY <1>1, <1>3
<1>9. n = St(a, arg, padc, width, precision, lflag, altflag)
  BY <1>3 DEF n
<1>10. Flag(fmt, args, e) = Number(St(a, b, padc, width, precision, lflag, altflag), v)
  BY <1>2, <1>3, <1>4, <1>7, <1>8, <1>9
<1> QED BY <1>3, <1>5, <1>10 DEF e

(* A digit that is no zero begins a number in the text. *)
LEMMA FlagNumber ==
  ASSUME NEW fmt, NEW args, NEW at \in Nat, NEW arg \in Nat, NEW padc, NEW width \in Int,
         NEW precision \in Int,
         NEW lflag \in Nat, NEW altflag, NEW value, NEW end, CharAt(fmt, at) \in Decimals,
         CharAt(fmt, at) # "0",
         Field(fmt, at) = Read(value, end)
  PROVE  Flag(fmt, args, St(at, arg, padc, width, precision, lflag, altflag))
           = Numbered(end, arg, padc, width, precision, lflag, altflag, value)
<1> DEFINE e == St(at, arg, padc, width, precision, lflag, altflag)
<1>1. e.at = at
  BY StIs
<1>2. [e EXCEPT !.at = end] = St(end, arg, padc, width, precision, lflag, altflag)
  BY St_at
<1>3. Number(St(end, arg, padc, width, precision, lflag, altflag), value)
        = Numbered(end, arg, padc, width, precision, lflag, altflag, value)
  BY NumberIs
<1>4. Field(fmt, at).end = end /\ Field(fmt, at).value = value
  BY DEF Read
<1> HIDE DEF e
<1>5. PICK c : c = CharAt(fmt, e.at) /\ c = CharAt(fmt, at)
  BY <1>1
<1>6. Flag(fmt, args, e) = Number([e EXCEPT !.at = end], value)
  <2>1. c \in Decimals /\ c # "0"
    BY <1>5
  <2>2. c # "-" /\ c # "*" /\ c # "." /\ c # "#" /\ c # "l"
    BY <2>1, SwitchIs, Zenon
  <2>3. Flag(fmt, args, e) = Number([e EXCEPT !.at = Field(fmt, e.at).end], Field(fmt, e.at).value)
    BY <1>5, <2>1, <2>2 DEF Flag
  <2> QED BY <1>1, <1>4, <2>3
<1> QED BY <1>2, <1>3, <1>6 DEF e

(* One turn of the switch. *)
LEMMA FlagStepIs ==
  ASSUME NEW fmt, NEW args, NEW at \in Nat, NEW arg \in Nat, NEW padc \in {Space, "-", "0"},
         NEW width \in Int, NEW precision \in Int, NEW lflag \in Nat, NEW altflag \in Alternates
  PROVE  FlagStep(fmt, args)[St(at, arg, padc, width, precision, lflag, altflag)]
           = Flag(fmt, args, St(at, arg, padc, width, precision, lflag, altflag))
<1>1. St(at, arg, padc, width, precision, lflag, altflag) \in Directives
  BY DEF St, Directives, Alternates
<1> QED BY <1>1 DEF FlagStep

(* A state of the switch that has not read more arguments than characters. *)
Going(e) ==
  \E at \in Nat, arg \in Nat, padc \in {Space, "-", "0"}, width \in Int, precision \in Int,
     lflag \in Nat, altflag \in Alternates :
    e = St(at, arg, padc, width, precision, lflag, altflag) /\ at >= 2 /\ arg \in 1..(at - 1)

(* When a number has been read it is in such a state. *)
LEMMA GoingNumbered ==
  ASSUME NEW at \in Nat, NEW arg \in Nat, NEW padc \in {Space, "-", "0"}, NEW width \in Int,
         NEW precision \in Int,
         NEW lflag \in Nat, NEW altflag \in Alternates, NEW n \in Int, at >= 2, arg \in 1..(at - 1)
  PROVE  Going(Numbered(at, arg, padc, width, precision, lflag, altflag, n))
<1>1. CASE width < 0
  <2>1. Numbered(at, arg, padc, width, precision, lflag, altflag, n)
          = St(at, arg, padc, n, -1, lflag, altflag)
    BY <1>1 DEF Numbered
  <2>2. PICK m \in Int : m = -1
    OBVIOUS
  <2> QED BY <2>1, <2>2 DEF Going
<1>2. CASE ~(width < 0)
  <2>1. Numbered(at, arg, padc, width, precision, lflag, altflag, n)
          = St(at, arg, padc, width, n, lflag, altflag)
    BY <1>2 DEF Numbered
  <2> QED BY <2>1 DEF Going
<1> QED BY <1>1, <1>2

(* Such a state, from its parts. *)
LEMMA GoingIs ==
  ASSUME NEW at \in Nat, NEW arg \in Nat, NEW padc \in {Space, "-", "0"}, NEW width \in Int,
         NEW precision \in Int,
         NEW lflag \in Nat, NEW altflag \in Alternates, at >= 2, arg \in 1..(at - 1)
  PROVE  Going(St(at, arg, padc, width, precision, lflag, altflag))
BY DEF Going

(* Each turn leads from such a state to such a state, further on in the text. *)
LEMMA GoingStep ==
  ASSUME NEW fmt, Len(fmt) \in Nat, NEW args, \A j \in 1..(Len(fmt) - 1) : args[j] \in Int,
         NEW at \in Nat, NEW arg \in Nat, NEW padc \in {Space, "-", "0"}, NEW width \in Int,
         NEW precision \in Int,
         NEW lflag \in Nat, NEW altflag \in Alternates, at >= 2, arg \in 1..(at - 1),
         CharAt(fmt, at) \in Flags
  PROVE  Going(Flag(fmt, args, St(at, arg, padc, width, precision, lflag, altflag)))
<1> DEFINE next == Flag(fmt, args, St(at, arg, padc, width, precision, lflag, altflag))
<1>1. PICK a \in Nat, b \in Nat : /\ a = at + 1 /\ b = arg + 1 /\ a >= 2 /\ arg \in 1..(a - 1)
                                  /\ b \in 1..(a - 1)
  OBVIOUS
<1>2. \/ CharAt(fmt, at) = "-" \/ CharAt(fmt, at) = "*" \/ CharAt(fmt, at) = "."
      \/ CharAt(fmt, at) = "#" \/ CharAt(fmt, at) = "l" \/ CharAt(fmt, at) = "0"
      \/ (CharAt(fmt, at) \in Decimals /\ CharAt(fmt, at) # "0")
  BY SwitchIs, Zenon
<1>3. CASE CharAt(fmt, at) = "-"
  <2>1. next = St(a, arg, "-", width, precision, lflag, altflag)
    BY <1>1, <1>3, FlagDash
  <2>5. Going(St(a, arg, "-", width, precision, lflag, altflag))
    BY <1>1, GoingIs
  <2> QED BY <2>1, <2>5
<1>4. CASE CharAt(fmt, at) = "0"
  <2>1. next = St(a, arg, "0", width, precision, lflag, altflag)
    BY <1>1, <1>4, FlagZero
  <2>5. Going(St(a, arg, "0", width, precision, lflag, altflag))
    BY <1>1, GoingIs
  <2> QED BY <2>1, <2>5
<1>5. CASE CharAt(fmt, at) = "."
  <2>1. PICK w \in Int : w = IF width < 0 THEN 0 ELSE width
    OBVIOUS
  <2>2. next = St(a, arg, padc, w, precision, lflag, altflag)
    BY <1>1, <1>5, <2>1, FlagPoint
  <2>5. Going(St(a, arg, padc, w, precision, lflag, altflag))
    BY <1>1, GoingIs
  <2> QED BY <2>2, <2>5
<1>6. CASE CharAt(fmt, at) = "#"
  <2>2. PICK t \in Alternates : t = On
    BY DEF Alternates, On
  <2>3. next = St(at + 1, arg, padc, width, precision, lflag, On)
    BY <1>6, FlagAlt
  <2>1. next = St(a, arg, padc, width, precision, lflag, t)
    <3> HIDE DEF next
    <3> QED BY <1>1, <2>2, <2>3
  <2>5. Going(St(a, arg, padc, width, precision, lflag, t))
    BY <1>1, GoingIs
  <2> QED BY <2>1, <2>5
<1>7. CASE CharAt(fmt, at) = "l"
  <2>1. PICK l \in Nat : l = lflag + 1
    OBVIOUS
  <2>2. next = St(a, arg, padc, width, precision, l, altflag)
    BY <1>1, <1>7, <2>1, FlagLong
  <2>5. Going(St(a, arg, padc, width, precision, l, altflag))
    BY <1>1, GoingIs
  <2> QED BY <2>2, <2>5
<1>8. CASE CharAt(fmt, at) = "*"
  <2>1. PICK n \in Int : n = args[arg]
    <3>1. at <= Len(fmt)
      <4>1. NUL # "*"
        BY DEF NUL
      <4> QED BY <1>8, <4>1 DEF CharAt
    <3>2. arg \in 1..(Len(fmt) - 1)
      BY <3>1
    <3> QED BY <3>2
  <2>2. next = Numbered(a, b, padc, width, precision, lflag, altflag, n)
    BY <1>1, <1>8, <2>1, FlagStar
  <2>3. Going(Numbered(a, b, padc, width, precision, lflag, altflag, n))
    BY <1>1, GoingNumbered
  <2> QED BY <2>2, <2>3
<1>9. CASE CharAt(fmt, at) \in Decimals /\ CharAt(fmt, at) # "0"
  <2>1. PICK value \in Nat, end \in Nat : Field(fmt, at) = Read(value, end) /\ end >= at
    BY FieldType
  <2>2. next = Numbered(end, arg, padc, width, precision, lflag, altflag, value)
    BY <1>9, <2>1, FlagNumber
  <2>3. end >= 2 /\ arg \in 1..(end - 1) /\ value \in Int
    BY <2>1
  <2>4. Going(Numbered(end, arg, padc, width, precision, lflag, altflag, value))
    BY <2>3, GoingNumbered
  <2> QED BY <2>2, <2>4
<1> QED BY <1>2, <1>3, <1>4, <1>5, <1>6, <1>7, <1>8, <1>9

(* So all the states are. *)
LEMMA GoingOn ==
  ASSUME NEW fmt, Len(fmt) \in Nat, NEW args, \A j \in 1..(Len(fmt) - 1) : args[j] \in Int,
         NEW e, Going(e), CharAt(fmt, e.at) \in Flags
  PROVE  Going(FlagStep(fmt, args)[e])
<1>1. PICK at \in Nat, arg \in Nat, padc \in {Space, "-", "0"}, width \in Int, precision \in Int,
           lflag \in Nat, altflag \in Alternates :
        e = St(at, arg, padc, width, precision, lflag, altflag) /\ at >= 2 /\ arg \in 1..(at - 1)
  BY DEF Going
<1>2. FlagStep(fmt, args)[e] = Flag(fmt, args, St(at, arg, padc, width, precision, lflag, altflag))
  BY <1>1, FlagStepIs
<1>3. e.at = at
  BY <1>1, StIs
<1>4. CharAt(fmt, at) \in Flags
  BY <1>3
<1> HIDE <1>1
<1>5. at >= 2 /\ arg \in 1..(at - 1)
  BY <1>1
<1>6. Going(Flag(fmt, args, St(at, arg, padc, width, precision, lflag, altflag)))
  BY <1>4, <1>5, GoingStep
<1> QED BY <1>2, <1>6

(* The switch ends, and its state is one of those. *)
LEMMA SwitchEnds ==
  ASSUME NEW fmt, Len(fmt) \in Nat, NEW args, \A j \in 1..(Len(fmt) - 1) : args[j] \in Int
  PROVE  \E t \in 0..Len(fmt) :
           /\ \A k \in 0..(t - 1) : CharAt(fmt, Taken(fmt, args, 2, 1)[k].at) \in Flags
           /\ t = Len(fmt) \/ CharAt(fmt, Taken(fmt, args, 2, 1)[t].at) \notin Flags
           /\ Going(Taken(fmt, args, 2, 1)[t])
<1> DEFINE s == Taken(fmt, args, 2, 1)
           go == [k \in Within(Len(fmt)) |-> CharAt(fmt, s[k].at) \in Flags]
           S(t) == {k \in Nat : k <= t => Going(s[k])}
<1>1. s[0] = Opened(2, 1)
  BY TakenDef
<1>10. \A k \in Nat : s[k + 1] = FlagStep(fmt, args)[s[k]]
  <2> TAKE k \in Nat
  <2> QED BY TakenDef
<1>2. PICK t : /\ t = Turns(Len(fmt), go) /\ t \in 0..Len(fmt) /\ (\A k \in 0..(t - 1) : go[k])
               /\ (t = Len(fmt) \/ ~go[t])
  <2> HIDE DEF go
  <2> QED BY TurnsDef
<1> HIDE DEF s
<1>3. \A k \in 0..(t - 1) : CharAt(fmt, s[k].at) \in Flags
  <2> SUFFICES ASSUME NEW k \in 0..(t - 1) PROVE CharAt(fmt, s[k].at) \in Flags
    OBVIOUS
  <2>1. k \in Within(Len(fmt))
    BY <1>2 DEF Within
  <2>2. go[k] = (CharAt(fmt, s[k].at) \in Flags)
    BY <2>1
  <2>3. go[k]
    <3> HIDE DEF go
    <3> QED BY <1>2
  <2> QED BY <2>2, <2>3
<1>4. t = Len(fmt) \/ CharAt(fmt, s[t].at) \notin Flags
  <2>1. t # Len(fmt) => t \in Within(Len(fmt))
    BY <1>2 DEF Within
  <2> QED BY <1>2, <2>1
<1> HIDE DEF go
<1>5. Going(s[0])
  <2>4. PICK at \in Nat, arg \in Nat, width \in Int, lflag \in Nat :
          /\ at = 2 /\ arg = 1 /\ width = -1 /\ lflag = 0
    <3>1. 2 \in Nat /\ 1 \in Nat /\ -1 \in Int /\ 0 \in Nat
      OBVIOUS
    <3> QED BY <3>1
  <2>5. PICK padc \in {Space, "-", "0"}, altflag \in Alternates : padc = Space /\ altflag = FALSE
    BY DEF Alternates
  <2>1. at = 2 /\ arg = 1 /\ padc = Space /\ width = -1 /\ lflag = 0 /\ altflag = FALSE
    BY <2>4, <2>5
  <2>2. s[0] = St(at, arg, padc, width, width, lflag, altflag)
    BY <1>1, <2>1 DEF Opened, St
  <2>3. at >= 2 /\ arg \in 1..(at - 1)
    BY <2>1
  <2> QED BY <2>2, <2>3 DEF Going
<1>6. ASSUME NEW k \in Nat, k \in S(t) PROVE k + 1 \in S(t)
  <2> SUFFICES ASSUME k + 1 <= t PROVE Going(s[k + 1])
    OBVIOUS
  <2>1. k <= t /\ k \in 0..(t - 1)
    BY <1>2
  <2>2. Going(s[k]) /\ CharAt(fmt, s[k].at) \in Flags
    BY <1>3, <1>6, <2>1
  <2>3. Going(FlagStep(fmt, args)[s[k]])
    BY <2>2, GoingOn
  <2> QED BY <1>10, <2>3
<1>7. 0 \in S(t)
  BY <1>5
<1>8. \A k \in Nat : k \in S(t)
  <2> DEFINE T == S(t)
  <2>1. 0 \in T /\ \A k \in Nat : k \in T => k + 1 \in T
    BY <1>6, <1>7
  <2> HIDE DEF T
  <2>2. \A k \in Nat : k \in T
    BY <2>1, AllNumbers
  <2> QED BY <2>2 DEF T
<1>9. Going(s[t])
  <2>1. t \in Nat /\ t <= t
    BY <1>2
  <2> QED BY <1>8, <2>1
<1> QED BY <1>2, <1>3, <1>4, <1>9 DEF s

-----------------------------------------------------------------------------
(* An escape that is not recognized. *)

(* The call with a text that has no conversion in it. *)
LEMMA Unrecognized ==
  ASSUME NEW text \in Seq(Chars \ Conversions), Len(text) <= 3
  PROVE  vprintfmt(<<"%">> \o text, <<1, 2, 3>>) = <<"%">> \o text
<1> DEFINE fmt == <<"%">> \o text
           args == <<1, 2, 3>>
           n == Len(text)
<1>1. "%" \in Chars /\ NUL \notin Chars
  BY CharsAssumption, Zenon
<1>2. n \in Nat /\ n <= 3 /\ text \in Seq(Chars) /\ <<"%">> \in Seq(Chars) /\ Len(<<"%">>) = 1
  BY <1>1
<1>3. fmt \in Seq(Chars) /\ Len(fmt) = 1 + n
  BY <1>2
<1>4. fmt[1] = "%" /\ \A i \in 2..(1 + n) : fmt[i] = text[i - 1]
  BY <1>2
<1>5. \A i \in 2..(1 + n) : fmt[i] \in Chars \ Conversions
  <2> SUFFICES ASSUME NEW i \in 2..(1 + n) PROVE fmt[i] \in Chars \ Conversions
    OBVIOUS
  <2>1. i - 1 \in 1..n
    BY <1>2
  <2> QED BY <1>4, <2>1
<1>6. \A j \in 1..(Len(fmt) - 1) : args[j] \in Int
  <2> SUFFICES ASSUME NEW j \in 1..n PROVE args[j] \in Int
    BY <1>2, <1>3
  <2>1. j = 1 \/ j = 2 \/ j = 3
    BY <1>2
  <2> QED BY <2>1
<1>7. SubSeq(fmt, 2, Len(fmt)) = text
  <2>1. SubSeq(<<"%">> \o text, Len(<<"%">>) + 1, Len(<<"%">>) + Len(text)) = text
    <3> HIDE DEF n
    <3> QED BY <1>2, SubSeqOfConcat2
  <2> QED BY <1>2, <1>3, <2>1
<1> HIDE DEF fmt, args, n
<1>8. PICK t \in 0..Len(fmt) :
        /\ \A k \in 0..(t - 1) : CharAt(fmt, Taken(fmt, args, 2, 1)[k].at) \in Flags
        /\ t = Len(fmt) \/ CharAt(fmt, Taken(fmt, args, 2, 1)[t].at) \notin Flags
        /\ Going(Taken(fmt, args, 2, 1)[t])
  <2>1. Len(fmt) \in Nat
    BY <1>2, <1>3
  <2> QED BY <1>6, <2>1, SwitchEnds
<1>9. PICK e : e = Taken(fmt, args, 2, 1)[t]
  OBVIOUS
<1>10. e.at \in Nat /\ e.at >= 2 /\ e.arg \in Nat
  <2>1. Going(e)
    BY <1>8, <1>9
  <2>2. PICK at \in Nat, arg \in Nat, padc \in {Space, "-", "0"}, width \in Int, precision \in Int,
             lflag \in Nat, altflag \in Alternates :
          e = St(at, arg, padc, width, precision, lflag, altflag) /\ at >= 2 /\ arg \in 1..(at - 1)
    BY <2>1 DEF Going
  <2>3. e.at = at /\ e.arg = arg
    BY <2>2, StIs
  <2> QED BY <2>2, <2>3
<1>11. CharAt(fmt, e.at) \notin Conversions
  <2>1. CASE e.at <= Len(fmt)
    <3>1. e.at \in 2..(1 + n) /\ CharAt(fmt, e.at) = fmt[e.at]
      BY <1>2, <1>3, <1>10, <2>1 DEF CharAt
    <3> QED BY <1>5, <3>1
  <2>2. CASE ~(e.at <= Len(fmt))
    <3>1. CharAt(fmt, e.at) = NUL
      BY <2>2 DEF CharAt
    <3> QED BY <3>1, SwitchIs
  <2> QED BY <2>1, <2>2
<1>12. Escape(fmt, args, 2, 1) = [text |-> <<"%">>, at |-> 2, arg |-> e.arg]
  <2>1. Len(fmt) \in Nat
    BY <1>2, <1>3
  <2>2. Escape(fmt, args, 2, 1) =
          IF CharAt(fmt, e.at) \in Conversions
          THEN [text |-> Convert(CharAt(fmt, e.at), e, args[e.arg]), at |-> e.at + 1,
                arg |-> IF CharAt(fmt, e.at) = "%" THEN e.arg ELSE e.arg + 1]
          ELSE Unknown(2, e)
    BY <1>8, <1>9, <2>1, EscapeIs
  <2> QED BY <1>11, <2>2 DEF Unknown
<1>13. PICK arg \in Nat : arg = e.arg
  BY <1>10
<1>14. CharAt(fmt, 1) = "%"
  BY <1>2, <1>3, <1>4 DEF CharAt
<1>15. \A i \in 2..Len(fmt) : fmt[i] \in Chars /\ fmt[i] # "%"
  <2>1. "%" \in Conversions
    BY DEF Conversions
  <2> QED BY <1>3, <1>5, <2>1
<1>16. 2 \in 2..(Len(fmt) + 1)
  BY <1>2, <1>3
<1>17. vprintfmt(fmt, args) = <<"%">> \o SubSeq(fmt, 2, Len(fmt))
  <2>1. Escape(fmt, args, 2, 1) = [text |-> <<"%">>, at |-> 2, arg |-> arg]
    BY <1>12, <1>13
  <2> QED BY <1>2, <1>3, <1>14, <1>15, <1>16, <2>1, PercentFirst
<1> QED BY <1>7, <1>17 DEF fmt, args

-----------------------------------------------------------------------------
(* The switch, followed through a directive one character after the other. *)

(* The other name, for a flag that is not set. *)
Off == FALSE

(* The switch has taken the characters from 2 to at - 1, each in a turn, and is in this state. *)
Reaches(fmt, args, at, arg, padc, width, precision, lflag) ==
  /\ Taken(fmt, args, 2, 1)[at - 2] = St(at, arg, padc, width, precision, lflag, Off)
  /\ \A j \in 0..(at - 3) : CharAt(fmt, Taken(fmt, args, 2, 1)[j].at) \in Flags

(* It has taken nothing yet. *)
LEMMA ReachesFirst ==
  ASSUME NEW fmt, NEW args
  PROVE  Reaches(fmt, args, 2, 1, Space, -1, -1, 0)
<1>1. Taken(fmt, args, 2, 1)[0] = Opened(2, 1)
  BY TakenDef
<1>2. Opened(2, 1) = St(2, 1, Space, -1, -1, 0, Off)
  BY DEF Opened, St, Off
<1>3. 2 - 2 = 0 /\ 0..(2 - 3) = {}
  OBVIOUS
<1> QED BY <1>1, <1>2, <1>3 DEF Reaches

(* It takes one more character, and is in the state that the turn leads to. *)
LEMMA ReachesNext ==
  ASSUME NEW fmt, NEW args, NEW at \in Nat, at >= 2, NEW arg \in Nat, NEW padc \in {Space, "-", "0"},
         NEW width \in Int, NEW precision \in Int, NEW lflag \in Nat,
         Reaches(fmt, args, at, arg, padc, width, precision, lflag), CharAt(fmt, at) \in Flags,
         NEW arg2, NEW padc2, NEW width2, NEW precision2, NEW lflag2,
         Flag(fmt, args, St(at, arg, padc, width, precision, lflag, Off))
           = St(at + 1, arg2, padc2, width2, precision2, lflag2, Off)
  PROVE  Reaches(fmt, args, at + 1, arg2, padc2, width2, precision2, lflag2)
<1> DEFINE s == Taken(fmt, args, 2, 1)
           e == St(at, arg, padc, width, precision, lflag, Off)
           f == St(at + 1, arg2, padc2, width2, precision2, lflag2, Off)
<1>1. PICK k \in Nat : k = at - 2 /\ (at + 1) - 2 = k + 1 /\ (at + 1) - 3 = k /\ at - 3 = k - 1
  OBVIOUS
<1>2. s[k + 1] = FlagStep(fmt, args)[s[k]]
  BY TakenDef
<1>3. s[k] = e /\ \A j \in 0..(k - 1) : CharAt(fmt, s[j].at) \in Flags
  BY <1>1 DEF Reaches
<1>4. FlagStep(fmt, args)[e] = Flag(fmt, args, e)
  <2>1. Off \in Alternates
    BY DEF Off, Alternates
  <2> QED BY <2>1, FlagStepIs
<1>5. e.at = at
  BY StIs
<1> HIDE DEF s, e, f
<1>6. s[k + 1] = f
  <2>1. Flag(fmt, args, e) = f
    BY DEF e, f
  <2> QED BY <1>2, <1>3, <1>4, <2>1
<1>7. CharAt(fmt, s[k].at) \in Flags
  BY <1>3, <1>5
<1>8. \A j \in 0..k : CharAt(fmt, s[j].at) \in Flags
  BY <1>3, <1>7
<1> QED BY <1>1, <1>6, <1>8 DEF Reaches, s, f

(* It takes a '-'. *)
LEMMA DashTaken ==
  ASSUME NEW fmt, NEW args, NEW at \in Nat, at >= 2, NEW arg \in Nat, NEW padc \in {Space, "-", "0"},
         NEW width \in Int, NEW precision \in Int, NEW lflag \in Nat,
         Reaches(fmt, args, at, arg, padc, width, precision, lflag), CharAt(fmt, at) = "-"
  PROVE  Reaches(fmt, args, at + 1, arg, "-", width, precision, lflag)
<1>1. CharAt(fmt, at) \in Flags
  BY SwitchIs, Zenon
<1>2. Flag(fmt, args, St(at, arg, padc, width, precision, lflag, Off))
        = St(at + 1, arg, "-", width, precision, lflag, Off)
  BY FlagDash
<1> QED BY <1>1, <1>2, ReachesNext

(* It takes a '0'. *)
LEMMA ZeroTaken ==
  ASSUME NEW fmt, NEW args, NEW at \in Nat, at >= 2, NEW arg \in Nat, NEW padc \in {Space, "-", "0"},
         NEW width \in Int, NEW precision \in Int, NEW lflag \in Nat,
         Reaches(fmt, args, at, arg, padc, width, precision, lflag), CharAt(fmt, at) = "0"
  PROVE  Reaches(fmt, args, at + 1, arg, "0", width, precision, lflag)
<1>1. CharAt(fmt, at) \in Flags
  BY SwitchIs, Zenon
<1>2. Flag(fmt, args, St(at, arg, padc, width, precision, lflag, Off))
        = St(at + 1, arg, "0", width, precision, lflag, Off)
  BY FlagZero
<1> QED BY <1>1, <1>2, ReachesNext

(* It takes a '.'. *)
LEMMA PointTaken ==
  ASSUME NEW fmt, NEW args, NEW at \in Nat, at >= 2, NEW arg \in Nat, NEW padc \in {Space, "-", "0"},
         NEW width \in Int, NEW precision \in Int, NEW lflag \in Nat,
         Reaches(fmt, args, at, arg, padc, width, precision, lflag), CharAt(fmt, at) = "."
  PROVE  Reaches(fmt, args, at + 1, arg, padc, IF width < 0 THEN 0 ELSE width, precision, lflag)
<1>1. CharAt(fmt, at) \in Flags
  BY SwitchIs, Zenon
<1>2. Flag(fmt, args, St(at, arg, padc, width, precision, lflag, Off))
        = St(at + 1, arg, padc, IF width < 0 THEN 0 ELSE width, precision, lflag, Off)
  BY FlagPoint
<1> QED BY <1>1, <1>2, ReachesNext

(* It takes an 'l'. *)
LEMMA LongTaken ==
  ASSUME NEW fmt, NEW args, NEW at \in Nat, at >= 2, NEW arg \in Nat, NEW padc \in {Space, "-", "0"},
         NEW width \in Int, NEW precision \in Int, NEW lflag \in Nat,
         Reaches(fmt, args, at, arg, padc, width, precision, lflag), CharAt(fmt, at) = "l"
  PROVE  Reaches(fmt, args, at + 1, arg, padc, width, precision, lflag + 1)
<1>1. CharAt(fmt, at) \in Flags
  BY SwitchIs, Zenon
<1>2. Flag(fmt, args, St(at, arg, padc, width, precision, lflag, Off))
        = St(at + 1, arg, padc, width, precision, lflag + 1, Off)
  BY FlagLong
<1> QED BY <1>1, <1>2, ReachesNext

(* A number n of a directive: a star whose argument it is, or its digit; the next
   argument is the one with number next. *)
GivesNumber(fmt, args, at, arg, n, next) ==
  \/ CharAt(fmt, at) = "*" /\ args[arg] = n /\ next = arg + 1
  \/ /\ n \in 1..9 /\ CharAt(fmt, at) = Digits[n + 1] /\ CharAt(fmt, at + 1) \notin Decimals
     /\ next = arg /\ at <= Len(fmt)

(* The turn that reads it leads to the state with that number. *)
NumberReads(fmt, args, at, arg, padc, width, precision, lflag, n, next) ==
  /\ CharAt(fmt, at) \in Flags
  /\ Flag(fmt, args, St(at, arg, padc, width, precision, lflag, Off))
       = Numbered(at + 1, next, padc, width, precision, lflag, Off, n)

(* It does, whichever way the number is given. *)
LEMMA NumberRead ==
  ASSUME NEW fmt, Len(fmt) \in Nat, NEW args, NEW at \in Nat, at >= 2, NEW arg \in Nat,
         NEW padc \in {Space, "-", "0"},
         NEW width \in Int, NEW precision \in Int, NEW lflag \in Nat, NEW n \in Int, NEW next,
         GivesNumber(fmt, args, at, arg, n, next)
  PROVE  NumberReads(fmt, args, at, arg, padc, width, precision, lflag, n, next)
<1>1. CASE CharAt(fmt, at) = "*" /\ args[arg] = n /\ next = arg + 1
  <2>1. CharAt(fmt, at) \in Flags
    BY <1>1, SwitchIs, Zenon
  <2>2. Flag(fmt, args, St(at, arg, padc, width, precision, lflag, Off))
          = Numbered(at + 1, arg + 1, padc, width, precision, lflag, Off, args[arg])
    BY <1>1, FlagStar
  <2> QED BY <1>1, <2>1, <2>2 DEF NumberReads
<1>2. CASE /\ n \in 1..9 /\ CharAt(fmt, at) = Digits[n + 1] /\ CharAt(fmt, at + 1) \notin Decimals
           /\ next = arg /\ at <= Len(fmt)
  <2>1. n \in 0..9 /\ n \in 1..15 /\ n + 1 \in 1..10 /\ at \in 1..Len(fmt)
    BY <1>2
  <2>2. Digits[n + 1] \in Decimals
    BY <2>1 DEF Decimals
  <2>3. Digits[n + 1] # "0"
    BY <2>1, DigitsAre
  <2>4. CharAt(fmt, at) \in Decimals /\ CharAt(fmt, at) # "0"
    BY <1>2, <2>2, <2>3
  <2>5. CharAt(fmt, at) \in Flags
    BY <2>4, SwitchIs, Zenon
  <2>6. Field(fmt, at) = Read(n, at + 1)
    BY <1>2, <2>1, FieldDigit
  <2>7. Flag(fmt, args, St(at, arg, padc, width, precision, lflag, Off))
          = Numbered(at + 1, arg, padc, width, precision, lflag, Off, n)
    BY <2>4, <2>6, FlagNumber
  <2> QED BY <1>2, <2>5, <2>7 DEF NumberReads
<1> QED BY <1>1, <1>2 DEF GivesNumber

(* The switch takes the number that is the width. *)
LEMMA WidthTaken ==
  ASSUME NEW fmt, Len(fmt) \in Nat, NEW args, NEW at \in Nat, at >= 2, NEW arg \in Nat,
         NEW padc \in {Space, "-", "0"}, NEW precision \in Int, NEW lflag \in Nat, NEW n \in Int,
         NEW next, Reaches(fmt, args, at, arg, padc, -1, precision, lflag),
         GivesNumber(fmt, args, at, arg, n, next)
  PROVE  Reaches(fmt, args, at + 1, next, padc, n, -1, lflag)
<1>1. PICK w \in Int : w = -1
  OBVIOUS
<1>2. Reaches(fmt, args, at, arg, padc, w, precision, lflag)
  BY <1>1
<1>7. NumberReads(fmt, args, at, arg, padc, w, precision, lflag, n, next)
  BY NumberRead
<1>3. /\ CharAt(fmt, at) \in Flags
      /\ Flag(fmt, args, St(at, arg, padc, w, precision, lflag, Off))
           = Numbered(at + 1, next, padc, w, precision, lflag, Off, n)
  BY <1>7 DEF NumberReads
<1>4. Numbered(at + 1, next, padc, w, precision, lflag, Off, n)
        = St(at + 1, next, padc, n, w, lflag, Off)
  BY <1>1 DEF Numbered
<1>5. Flag(fmt, args, St(at, arg, padc, w, precision, lflag, Off))
        = St(at + 1, next, padc, n, w, lflag, Off)
  BY <1>3, <1>4
<1>6. Reaches(fmt, args, at + 1, next, padc, n, w, lflag)
  <2> HIDE <1>1
  <2> QED BY <1>2, <1>3, <1>5, ReachesNext
<1> QED BY <1>1, <1>6

(* The switch is in a state with a width, and a number is next. *)
ReachesNumber(fmt, args, at, arg, padc, width, precision, lflag, n, next) ==
  /\ Len(fmt) \in Nat /\ at \in Nat /\ at >= 2 /\ arg \in Nat /\ padc \in {Space, "-", "0"}
  /\ width \in Int /\ width >= 0 /\ precision \in Int /\ lflag \in Nat /\ n \in Int
  /\ Reaches(fmt, args, at, arg, padc, width, precision, lflag)
  /\ GivesNumber(fmt, args, at, arg, n, next)

(* The switch takes the '.' and the number that is the precision. *)
LEMMA PrecisionTaken ==
  ASSUME NEW fmt, NEW args, NEW at, NEW arg, NEW padc, NEW width, NEW precision, NEW lflag, NEW n,
         NEW next,
         ReachesNumber(fmt, args, at, arg, padc, width, precision, lflag, n, next)
  PROVE  Reaches(fmt, args, at + 1, next, padc, width, n, lflag)
<1>0. /\ Len(fmt) \in Nat /\ at \in Nat /\ at >= 2 /\ arg \in Nat /\ padc \in {Space, "-", "0"}
      /\ width \in Int /\ width >= 0 /\ precision \in Int /\ lflag \in Nat /\ n \in Int
      /\ Reaches(fmt, args, at, arg, padc, width, precision, lflag)
      /\ GivesNumber(fmt, args, at, arg, n, next)
  BY DEF ReachesNumber
<1>1. ~(width < 0)
  BY <1>0
<1>7. NumberReads(fmt, args, at, arg, padc, width, precision, lflag, n, next)
  BY <1>0, NumberRead
<1>2. /\ CharAt(fmt, at) \in Flags
      /\ Flag(fmt, args, St(at, arg, padc, width, precision, lflag, Off))
           = Numbered(at + 1, next, padc, width, precision, lflag, Off, n)
  BY <1>7 DEF NumberReads
<1>3. Numbered(at + 1, next, padc, width, precision, lflag, Off, n)
        = St(at + 1, next, padc, width, n, lflag, Off)
  BY <1>0, <1>1 DEF Numbered
<1>4. Flag(fmt, args, St(at, arg, padc, width, precision, lflag, Off))
        = St(at + 1, next, padc, width, n, lflag, Off)
  BY <1>2, <1>3
<1> QED BY <1>0, <1>1, <1>2, <1>4, ReachesNext

-----------------------------------------------------------------------------
(* A directive as it is written, and the arguments that are passed. *)

(* t stands in s behind its first n characters. *)
Stands(t, s, n) == \A i \in 1..Len(t) : s[n + i] = t[i]

(* Two texts, one behind the other. *)
LEMMA Joined ==
  ASSUME NEW X, NEW s \in Seq(X), NEW t \in Seq(X)
  PROVE  /\ s \o t \in Seq(X) /\ Len(s \o t) = Len(s) + Len(t)
         /\ Stands(s, s \o t, 0) /\ Stands(t, s \o t, Len(s))
<1>1. /\ s \o t \in Seq(X) /\ Len(s \o t) = Len(s) + Len(t) /\ Len(s) \in Nat /\ Len(t) \in Nat
      /\ \A i \in 1..Len(s) + Len(t) : (s \o t)[i] = IF i <= Len(s) THEN s[i] ELSE t[i - Len(s)]
  BY ConcatProperties
<1>2. ASSUME NEW i \in 1..Len(s) PROVE (s \o t)[0 + i] = s[i]
  <2>1. i \in 1..Len(s) + Len(t) /\ i <= Len(s) /\ 0 + i = i
    BY <1>1
  <2> QED BY <1>1, <2>1
<1>3. ASSUME NEW i \in 1..Len(t) PROVE (s \o t)[Len(s) + i] = t[i]
  <2>1. PICK k : k = Len(s) + i
    OBVIOUS
  <2>2. k \in 1..Len(s) + Len(t) /\ ~(k <= Len(s)) /\ k - Len(s) = i
    BY <1>1, <2>1
  <2> QED BY <1>1, <2>1, <2>2
<1> QED BY <1>1, <1>2, <1>3 DEF Stands

(* What stands in a text stands in it when there is more behind it. *)
LEMMA StandsIn ==
  ASSUME NEW X, NEW s \in Seq(X), NEW u, Stands(s, u, 0), NEW t \in Seq(X), NEW n \in Nat,
         Stands(t, s, n),
         n + Len(t) <= Len(s)
  PROVE  Stands(t, u, n)
<1>1. Len(s) \in Nat /\ Len(t) \in Nat
  OBVIOUS
<1>2. ASSUME NEW i \in 1..Len(t) PROVE u[n + i] = t[i]
  <2>1. PICK k : k = n + i
    OBVIOUS
  <2>2. k \in 1..Len(s) /\ 0 + k = k
    BY <1>1, <2>1
  <2>3. s[k] = t[i]
    BY <2>1 DEF Stands
  <2>4. u[0 + k] = s[k]
    BY <2>2 DEF Stands
  <2> QED BY <2>1, <2>2, <2>3, <2>4
<1> QED BY <1>2 DEF Stands

(* How seven texts stand in s, one behind the other. *)
InTurn(a, b, c, p, q, r, z, s) ==
  /\ Len(s) = Len(a) + Len(b) + Len(c) + Len(p) + Len(q) + Len(r) + Len(z)
  /\ Stands(a, s, 0)
  /\ Stands(b, s, Len(a))
  /\ Stands(c, s, Len(a) + Len(b))
  /\ Stands(p, s, Len(a) + Len(b) + Len(c))
  /\ Stands(q, s, Len(a) + Len(b) + Len(c) + Len(p))
  /\ Stands(r, s, Len(a) + Len(b) + Len(c) + Len(p) + Len(q))
  /\ Stands(z, s, Len(a) + Len(b) + Len(c) + Len(p) + Len(q) + Len(r))

(* Seven texts that are put together stand in turn. *)
LEMMA SevenTexts ==
  ASSUME NEW X, NEW a \in Seq(X), NEW b \in Seq(X), NEW c \in Seq(X), NEW p \in Seq(X),
         NEW q \in Seq(X), NEW r \in Seq(X), NEW z \in Seq(X),
         NEW s, s = (((((a \o b) \o c) \o p) \o q) \o r) \o z
  PROVE  s \in Seq(X) /\ InTurn(a, b, c, p, q, r, z, s)
<1>0. /\ Len(a) \in Nat /\ Len(b) \in Nat /\ Len(c) \in Nat /\ Len(p) \in Nat /\ Len(q) \in Nat
      /\ Len(r) \in Nat /\ Len(z) \in Nat
  OBVIOUS
<1>2. PICK t2 \in Seq(X) : /\ t2 = a \o b /\ Len(t2) = Len(a) + Len(b) /\ Stands(a, t2, 0)
                           /\ Stands(b, t2, Len(a))
  BY Joined
<1>3. PICK t3 \in Seq(X) : /\ t3 = t2 \o c /\ Len(t3) = Len(t2) + Len(c) /\ Stands(t2, t3, 0)
                           /\ Stands(c, t3, Len(t2))
  BY Joined
<1>4. PICK t4 \in Seq(X) : /\ t4 = t3 \o p /\ Len(t4) = Len(t3) + Len(p) /\ Stands(t3, t4, 0)
                           /\ Stands(p, t4, Len(t3))
  BY Joined
<1>5. PICK t5 \in Seq(X) : /\ t5 = t4 \o q /\ Len(t5) = Len(t4) + Len(q) /\ Stands(t4, t5, 0)
                           /\ Stands(q, t5, Len(t4))
  BY Joined
<1>6. PICK t6 \in Seq(X) : /\ t6 = t5 \o r /\ Len(t6) = Len(t5) + Len(r) /\ Stands(t5, t6, 0)
                           /\ Stands(r, t6, Len(t5))
  BY Joined
<1>7. PICK t7 \in Seq(X) : /\ t7 = t6 \o z /\ Len(t7) = Len(t6) + Len(z) /\ Stands(t6, t7, 0)
                           /\ Stands(z, t7, Len(t6))
  BY Joined
<1>10. s = t7
  BY <1>2, <1>3, <1>4, <1>5, <1>6, <1>7
<1>22. Len(t2) = Len(a) + Len(b)
  BY <1>0, <1>2
<1>23. Len(t3) = Len(a) + Len(b) + Len(c)
  BY <1>0, <1>22, <1>3
<1>24. Len(t4) = Len(a) + Len(b) + Len(c) + Len(p)
  BY <1>0, <1>23, <1>4
<1>25. Len(t5) = Len(a) + Len(b) + Len(c) + Len(p) + Len(q)
  BY <1>0, <1>24, <1>5
<1>26. Len(t6) = Len(a) + Len(b) + Len(c) + Len(p) + Len(q) + Len(r)
  BY <1>0, <1>25, <1>6
<1>27. Len(t7) = Len(a) + Len(b) + Len(c) + Len(p) + Len(q) + Len(r) + Len(z)
  BY <1>0, <1>26, <1>7
<1>37. Stands(t6, t7, 0)
  BY <1>7
<1>36. Stands(t5, t7, 0)
  <2>1. Stands(t5, t6, 0) /\ 0 + Len(t5) <= Len(t6)
    BY <1>0, <1>6
  <2> QED BY <1>37, <2>1, StandsIn
<1>35. Stands(t4, t7, 0)
  <2>1. Stands(t4, t5, 0) /\ 0 + Len(t4) <= Len(t5)
    BY <1>0, <1>5
  <2> QED BY <1>36, <2>1, StandsIn
<1>34. Stands(t3, t7, 0)
  <2>1. Stands(t3, t4, 0) /\ 0 + Len(t3) <= Len(t4)
    BY <1>0, <1>4
  <2> QED BY <1>35, <2>1, StandsIn
<1>33. Stands(t2, t7, 0)
  <2>1. Stands(t2, t3, 0) /\ 0 + Len(t2) <= Len(t3)
    BY <1>0, <1>3
  <2> QED BY <1>34, <2>1, StandsIn
<1>32. Stands(a, t7, 0)
  <2>1. Stands(a, t2, 0) /\ 0 + Len(a) <= Len(t2)
    BY <1>0, <1>2
  <2> QED BY <1>33, <2>1, StandsIn
<1>42. Stands(b, t7, Len(a))
  <2>1. PICK n \in Nat : n = Len(a) /\ n = Len(a)
    BY <1>0, <1>0
  <2>2. Stands(b, t2, n) /\ n + Len(b) <= Len(t2)
    BY <1>0, <1>2, <2>1
  <2>3. Stands(b, t7, n)
    BY <1>33, <2>2, StandsIn
  <2> QED BY <2>1, <2>3
<1>43. Stands(c, t7, Len(a) + Len(b))
  <2>1. PICK n \in Nat : n = Len(t2) /\ n = Len(a) + Len(b)
    BY <1>0, <1>22
  <2>2. Stands(c, t3, n) /\ n + Len(c) <= Len(t3)
    BY <1>0, <1>3, <2>1
  <2>3. Stands(c, t7, n)
    BY <1>34, <2>2, StandsIn
  <2> QED BY <2>1, <2>3
<1>44. Stands(p, t7, Len(a) + Len(b) + Len(c))
  <2>1. PICK n \in Nat : n = Len(t3) /\ n = Len(a) + Len(b) + Len(c)
    BY <1>0, <1>23
  <2>2. Stands(p, t4, n) /\ n + Len(p) <= Len(t4)
    BY <1>0, <1>4, <2>1
  <2>3. Stands(p, t7, n)
    BY <1>35, <2>2, StandsIn
  <2> QED BY <2>1, <2>3
<1>45. Stands(q, t7, Len(a) + Len(b) + Len(c) + Len(p))
  <2>1. PICK n \in Nat : n = Len(t4) /\ n = Len(a) + Len(b) + Len(c) + Len(p)
    BY <1>0, <1>24
  <2>2. Stands(q, t5, n) /\ n + Len(q) <= Len(t5)
    BY <1>0, <1>5, <2>1
  <2>3. Stands(q, t7, n)
    BY <1>36, <2>2, StandsIn
  <2> QED BY <2>1, <2>3
<1>46. Stands(r, t7, Len(a) + Len(b) + Len(c) + Len(p) + Len(q))
  <2>1. PICK n \in Nat : n = Len(t5) /\ n = Len(a) + Len(b) + Len(c) + Len(p) + Len(q)
    BY <1>0, <1>25
  <2>2. Stands(r, t6, n) /\ n + Len(r) <= Len(t6)
    BY <1>0, <1>6, <2>1
  <2>3. Stands(r, t7, n)
    BY <1>37, <2>2, StandsIn
  <2> QED BY <2>1, <2>3
<1>47. Stands(z, t7, Len(a) + Len(b) + Len(c) + Len(p) + Len(q) + Len(r))
  BY <1>7, <1>26
<1> QED BY <1>10, <1>27, <1>32, <1>42, <1>43, <1>44, <1>45, <1>46, <1>47 DEF InTurn

(* The one character that a number of a directive is written as. *)
NumberChar(n, star) == IF star THEN "*" ELSE Digits[n + 1]
(* What a format is made of. *)
Letters == (Chars \union Flags) \union Conversions

(* How a directive is laid out with the 'z' behind it, when it has F flags, W numbers for the
   width and P characters for the precision. *)
Shaped(fmt, d, star, F, W, P) ==
  /\ fmt \in Seq(Letters) /\ Len(fmt) = 1 + F + W + P + d.long + 2
  /\ CharAt(fmt, 1) = "%"
  /\ F = 1 => CharAt(fmt, 2) = d.flags[1]
  /\ W = 1 => CharAt(fmt, 2 + F) = NumberChar(d.width, star)
  /\ P = 2 => /\ CharAt(fmt, 2 + F + W) = "."
              /\ CharAt(fmt, 3 + F + W) = NumberChar(d.precision, star)
  /\ \A i \in 1..d.long : CharAt(fmt, 1 + F + W + P + i) = "l"
  /\ CharAt(fmt, 2 + F + W + P + d.long) = d.conv
  /\ CharAt(fmt, 3 + F + W + P + d.long) = "z"

(* How many characters the width and the precision take. *)
WidthCount(d) == IF d.width = -1 THEN 0 ELSE 1
PrecisionCount(d) == IF d.precision = -1 THEN 0 ELSE 2

(* That character is one of a format. *)
LEMMA OneLetter ==
  ASSUME NEW n, n \in {-1} \union 1..9, n # -1, NEW star \in BOOLEAN
  PROVE  NumberChar(n, star) \in Letters
<1>1. n + 1 \in 1..10
  OBVIOUS
<1>2. Digits[n + 1] \in Decimals
  BY <1>1 DEF Decimals
<1>3. "*" \in Flags /\ Digits[n + 1] \in Flags
  BY <1>2, SwitchIs, Zenon
<1> QED BY <1>3 DEF NumberChar, Letters

(* Where their characters are in fmt, when the second has F, the third W, the fourth P and
   the fifth L, and the others have one. *)
Located(fmt, F, W, P, L, b, c, q, r, u, y, z) ==
  /\ Len(fmt) = 1 + F + W + P + L + 2
  /\ CharAt(fmt, 1) = b[1]
  /\ F = 1 => CharAt(fmt, 2) = c[1]
  /\ W = 1 => CharAt(fmt, 2 + F) = q[1]
  /\ P = 2 => CharAt(fmt, 2 + F + W) = r[1] /\ CharAt(fmt, 3 + F + W) = r[2]
  /\ \A i \in 1..L : CharAt(fmt, 1 + F + W + P + i) = u[i]
  /\ CharAt(fmt, 2 + F + W + P + L) = y[1]
  /\ CharAt(fmt, 3 + F + W + P + L) = z[1]

(* Where the characters of seven texts are. *)
LEMMA SevenPlaces ==
  ASSUME NEW fmt, NEW F \in 0..1, NEW W \in 0..1, NEW P \in {0, 2}, NEW L \in Nat,
         NEW b, NEW c, NEW q, NEW r, NEW u, NEW y, NEW z,
         Len(b) = 1, Len(c) = F, Len(q) = W, Len(r) = P, Len(u) = L, Len(y) = 1, Len(z) = 1,
         InTurn(b, c, q, r, u, y, z, fmt)
  PROVE  Located(fmt, F, W, P, L, b, c, q, r, u, y, z)
<1>1. PICK n2, n3, n4, n5, n6, n7 \in Nat :
        /\ n2 = Len(b) /\ n3 = Len(b) + Len(c) /\ n4 = Len(b) + Len(c) + Len(q)
        /\ n5 = Len(b) + Len(c) + Len(q) + Len(r) /\ n6 = Len(b) + Len(c) + Len(q) + Len(r) + Len(u)
        /\ n7 = Len(b) + Len(c) + Len(q) + Len(r) + Len(u) + Len(y)
  <2>1. /\ Len(b) \in Nat /\ Len(b) + Len(c) \in Nat /\ Len(b) + Len(c) + Len(q) \in Nat
        /\ Len(b) + Len(c) + Len(q) + Len(r) \in Nat
        /\ Len(b) + Len(c) + Len(q) + Len(r) + Len(u) \in Nat
        /\ Len(b) + Len(c) + Len(q) + Len(r) + Len(u) + Len(y) \in Nat
    OBVIOUS
  <2> QED BY <2>1
<1>2. /\ Len(fmt) = Len(b) + Len(c) + Len(q) + Len(r) + Len(u) + Len(y) + Len(z)
      /\ Stands(b, fmt, 0) /\ Stands(c, fmt, n2) /\ Stands(q, fmt, n3) /\ Stands(r, fmt, n4)
      /\ Stands(u, fmt, n5) /\ Stands(y, fmt, n6) /\ Stands(z, fmt, n7)
  BY <1>1 DEF InTurn
<1>3. /\ n2 = 1 /\ n3 = 1 + F /\ n4 = 1 + F + W /\ n5 = 1 + F + W + P /\ n6 = 1 + F + W + P + L
      /\ n7 = 1 + F + W + P + L + 1 /\ Len(fmt) = n7 + 1
  BY <1>1, <1>2
<1> HIDE <1>1
<1>4. CharAt(fmt, 1) = b[1]
  <2>1. 1 \in 1..Len(b) /\ 1 = 0 + 1 /\ 1 <= Len(fmt)
    BY <1>3
  <2>2. fmt[0 + 1] = b[1]
    BY <1>2, <2>1 DEF Stands
  <2> QED BY <2>1, <2>2 DEF CharAt
<1>5. F = 1 => CharAt(fmt, 2) = c[1]
  <2> HAVE F = 1
  <2>1. 1 \in 1..Len(c) /\ 2 = n2 + 1 /\ 2 <= Len(fmt)
    BY <1>3
  <2>2. fmt[n2 + 1] = c[1]
    BY <1>2, <2>1 DEF Stands
  <2> QED BY <2>1, <2>2 DEF CharAt
<1>6. W = 1 => CharAt(fmt, 2 + F) = q[1]
  <2> HAVE W = 1
  <2>1. 1 \in 1..Len(q) /\ 2 + F = n3 + 1 /\ 2 + F <= Len(fmt) /\ 2 + F \in Int
    BY <1>3
  <2>2. fmt[n3 + 1] = q[1]
    BY <1>2, <2>1 DEF Stands
  <2> QED BY <2>1, <2>2 DEF CharAt
<1>7. P = 2 => CharAt(fmt, 2 + F + W) = r[1] /\ CharAt(fmt, 3 + F + W) = r[2]
  <2> HAVE P = 2
  <2>1. 1 \in 1..Len(r) /\ 2 + F + W = n4 + 1 /\ 2 + F + W <= Len(fmt) /\ 2 + F + W \in Int
    BY <1>3
  <2>2. 2 \in 1..Len(r) /\ 3 + F + W = n4 + 2 /\ 3 + F + W <= Len(fmt) /\ 3 + F + W \in Int
    BY <1>3
  <2>3. CharAt(fmt, 2 + F + W) = r[1]
    <3>1. fmt[n4 + 1] = r[1]
      BY <1>2, <2>1 DEF Stands
    <3> QED BY <2>1, <3>1 DEF CharAt
  <2>4. CharAt(fmt, 3 + F + W) = r[2]
    <3>1. fmt[n4 + 2] = r[2]
      BY <1>2, <2>2 DEF Stands
    <3> QED BY <2>2, <3>1 DEF CharAt
  <2> QED BY <2>3, <2>4
<1>8. ASSUME NEW i \in 1..L PROVE CharAt(fmt, 1 + F + W + P + i) = u[i]
  <2>1. /\ i \in 1..Len(u) /\ 1 + F + W + P + i = n5 + i /\ 1 + F + W + P + i <= Len(fmt)
        /\ 1 + F + W + P + i \in Int
    BY <1>3
  <2>2. fmt[n5 + i] = u[i]
    BY <1>2, <2>1 DEF Stands
  <2> QED BY <2>1, <2>2 DEF CharAt
<1>9. CharAt(fmt, 2 + F + W + P + L) = y[1]
  <2>1. /\ 1 \in 1..Len(y) /\ 2 + F + W + P + L = n6 + 1 /\ 2 + F + W + P + L <= Len(fmt)
        /\ 2 + F + W + P + L \in Int
    BY <1>3
  <2>2. fmt[n6 + 1] = y[1]
    BY <1>2, <2>1 DEF Stands
  <2> QED BY <2>1, <2>2 DEF CharAt
<1>10. CharAt(fmt, 3 + F + W + P + L) = z[1]
  <2>1. /\ 1 \in 1..Len(z) /\ 3 + F + W + P + L = n7 + 1 /\ 3 + F + W + P + L <= Len(fmt)
        /\ 3 + F + W + P + L \in Int
    BY <1>3
  <2>2. fmt[n7 + 1] = z[1]
    BY <1>2, <2>1 DEF Stands
  <2> QED BY <2>1, <2>2 DEF CharAt
<1> QED BY <1>3, <1>4, <1>5, <1>6, <1>7, <1>8, <1>9, <1>10 DEF Located

(* A directive as it is written is laid out like that. *)
LEMMA WrittenIs ==
  ASSUME NEW d, NEW a, DirectiveLegal(d, a), NEW star \in BOOLEAN, NEW fmt,
         fmt = Written(d, star) \o <<"z">>,
         NEW F, F = Len(d.flags), NEW W, W = WidthCount(d), NEW P, P = PrecisionCount(d)
  PROVE  /\ F \in 0..1 /\ W \in 0..1 /\ P \in {0, 2} /\ Shaped(fmt, d, star, F, W, P)
<1>1. /\ d.width \in {-1} \union 1..9 /\ d.precision \in {-1} \union 1..9 /\ d.long \in Nat
      /\ d.flags \in {<<>>, <<"0">>, <<"-">>} /\ d.conv \in Conversions
  BY DEF DirectiveLegal
<1>2. F \in 0..1 /\ W \in 0..1 /\ P \in {0, 2}
  <2>1. F \in 0..1
    BY <1>1
  <2> QED BY <2>1 DEF WidthCount, PrecisionCount
<1>3. /\ "%" \in Letters /\ "0" \in Letters /\ "-" \in Letters /\ "." \in Letters /\ "l" \in Letters
      /\ "z" \in Letters
  <2>1. "%" \in Chars /\ "z" \in Chars
    BY CharsAre, Zenon
  <2>2. "0" \in Flags /\ "-" \in Flags /\ "." \in Flags /\ "l" \in Flags
    BY SwitchIs, Zenon
  <2> QED BY <2>1, <2>2 DEF Letters
<1> DEFINE w == IF d.width = -1 THEN <<>> ELSE <<NumberChar(d.width, star)>>
           p == IF d.precision = -1 THEN <<>> ELSE <<".">> \o <<NumberChar(d.precision, star)>>
           l == Repeat("l", d.long)
<1>4. d.flags \in Seq(Letters)
  <2>1. <<>> \in Seq(Letters) /\ <<"0">> \in Seq(Letters) /\ <<"-">> \in Seq(Letters)
    BY <1>3
  <2> QED BY <1>1, <2>1
<1>5. w \in Seq(Letters) /\ Len(w) = W
  <2>1. CASE d.width = -1
    BY <2>1 DEF WidthCount
  <2>2. CASE d.width # -1
    <3>1. NumberChar(d.width, star) \in Letters
      BY <1>1, <2>2, OneLetter
    <3> QED BY <2>2, <3>1 DEF WidthCount
  <2> QED BY <2>1, <2>2
<1>6. p \in Seq(Letters) /\ Len(p) = P /\ (P = 2 => p[1] = "." /\ p[2] = NumberChar(d.precision, star))
  <2>1. CASE d.precision = -1
    BY <2>1 DEF PrecisionCount
  <2>2. CASE d.precision # -1
    <3>1. NumberChar(d.precision, star) \in Letters
      BY <1>1, <2>2, OneLetter
    <3>2. p = <<".", NumberChar(d.precision, star)>>
      BY <2>2, OneAndOne
    <3> QED BY <1>3, <2>2, <3>1, <3>2 DEF PrecisionCount
  <2> QED BY <2>1, <2>2
<1>7. l \in Seq(Letters) /\ Len(l) = d.long /\ \A i \in 1..d.long : l[i] = "l"
  <2>1. PICK k \in Int : k = d.long /\ k >= 0
    BY <1>1
  <2>2. PICK c \in Letters : c = "l"
    BY <1>3
  <2>3. /\ Repeat(c, k) \in Seq(Letters)
        /\ Len(Repeat(c, k)) = IF k <= 0 THEN 0 ELSE k
        /\ \A i \in 1..k : Repeat(c, k)[i] = c
    BY RepeatIs
  <2>4. Len(Repeat(c, k)) = k
    BY <2>1, <2>3
  <2> QED BY <2>1, <2>2, <2>3, <2>4
<1>8. <<d.conv>> \in Seq(Letters) /\ <<"%">> \in Seq(Letters) /\ <<"z">> \in Seq(Letters)
  <2>1. d.conv \in Letters
    BY <1>1 DEF Letters
  <2> QED BY <1>3, <2>1
<1>9. fmt = (((((<<"%">> \o d.flags) \o w) \o p) \o l) \o <<d.conv>>) \o <<"z">>
  <2>1. star = TRUE \/ star = FALSE
    OBVIOUS
  <2> QED BY <2>1 DEF Written, NumberChar
<1> HIDE DEF w, p, l
<1>10. PICK b, c, q, r, u, y, z : /\ b = <<"%">> /\ c = d.flags /\ q = w /\ r = p /\ u = l
                                  /\ y = <<d.conv>> /\ z = <<"z">>
  OBVIOUS
<1>11. /\ b \in Seq(Letters) /\ c \in Seq(Letters) /\ q \in Seq(Letters) /\ r \in Seq(Letters)
       /\ u \in Seq(Letters)
       /\ y \in Seq(Letters) /\ z \in Seq(Letters)
  BY <1>4, <1>5, <1>6, <1>7, <1>8, <1>10
<1>12. fmt = (((((b \o c) \o q) \o r) \o u) \o y) \o z
  BY <1>9, <1>10
<1>13. /\ Len(b) = 1 /\ Len(c) = F /\ Len(q) = W /\ Len(r) = P /\ Len(u) = d.long /\ Len(y) = 1
       /\ Len(z) = 1
  BY <1>5, <1>6, <1>7, <1>10
<1>14. fmt \in Seq(Letters) /\ InTurn(b, c, q, r, u, y, z, fmt)
  <2> HIDE <1>10
  <2> QED BY <1>11, <1>12, SevenTexts
<1>15. PICK f, g, h, l2 : f = F /\ g = W /\ h = P /\ l2 = d.long
  OBVIOUS
<1>16. /\ Len(fmt) = 1 + f + g + h + l2 + 2
       /\ CharAt(fmt, 1) = b[1]
       /\ f = 1 => CharAt(fmt, 2) = c[1]
       /\ g = 1 => CharAt(fmt, 2 + f) = q[1]
       /\ h = 2 => CharAt(fmt, 2 + f + g) = r[1] /\ CharAt(fmt, 3 + f + g) = r[2]
       /\ \A i \in 1..l2 : CharAt(fmt, 1 + f + g + h + i) = u[i]
       /\ CharAt(fmt, 2 + f + g + h + l2) = y[1]
       /\ CharAt(fmt, 3 + f + g + h + l2) = z[1]
  <2>1. f \in 0..1 /\ g \in 0..1 /\ h \in {0, 2} /\ l2 \in Nat
    BY <1>1, <1>2, <1>15
  <2>2. Len(b) = 1 /\ Len(c) = f /\ Len(q) = g /\ Len(r) = h /\ Len(u) = l2 /\ Len(y) = 1 /\ Len(z) = 1
    BY <1>13, <1>15
  <2> HIDE <1>10, <1>15
  <2>3. Located(fmt, f, g, h, l2, b, c, q, r, u, y, z)
    BY <1>14, <2>1, <2>2, SevenPlaces
  <2> QED BY <2>3 DEF Located
<1>17. W = 1 => q[1] = NumberChar(d.width, star)
  BY <1>10 DEF w, WidthCount
<1>18. P = 2 => r[1] = "." /\ r[2] = NumberChar(d.precision, star)
  BY <1>6, <1>10
<1>19. \A i \in 1..d.long : u[i] = "l"
  BY <1>7, <1>10
<1>20. b[1] = "%" /\ c = d.flags /\ y[1] = d.conv /\ z[1] = "z"
  BY <1>10
<1>21. Shaped(fmt, d, star, f, g, h)
  <2> HIDE <1>10
  <2>1. (f = 1 => CharAt(fmt, 2) = d.flags[1]) /\ CharAt(fmt, 1) = "%"
    BY <1>16, <1>20
  <2>2. g = 1 => CharAt(fmt, 2 + f) = NumberChar(d.width, star)
    BY <1>15, <1>16, <1>17
  <2>3. h = 2 => CharAt(fmt, 2 + f + g) = "." /\ CharAt(fmt, 3 + f + g) = NumberChar(d.precision, star)
    BY <1>15, <1>16, <1>18
  <2>4. \A i \in 1..l2 : CharAt(fmt, 1 + f + g + h + i) = "l"
    BY <1>15, <1>16, <1>19
  <2>5. CharAt(fmt, 2 + f + g + h + l2) = d.conv /\ CharAt(fmt, 3 + f + g + h + l2) = "z"
    BY <1>16, <1>20
  <2> QED BY <1>14, <1>15, <1>16, <2>1, <2>2, <2>3, <2>4, <2>5 DEF Shaped
<1> QED BY <1>2, <1>15, <1>21

(* The arguments in front of the one that is printed: those of the stars. *)
WidthArgs(d, star) == IF star /\ d.width # -1 THEN 1 ELSE 0
PrecisionArgs(d, star) == IF star /\ d.precision # -1 THEN 1 ELSE 0

(* The arguments: A for the width, B for the precision, and then the one that is printed. *)
ArgsFor(args, d, star, a, A, B) ==
  /\ A = 1 => args[1] = d.width
  /\ B = 1 => args[1 + A] = d.precision
  /\ args[1 + A + B] = a

(* The arguments as they are passed are like that. *)
LEMMA PassedIs ==
  ASSUME NEW d, NEW star \in BOOLEAN, NEW a, NEW A, A = WidthArgs(d, star), NEW B,
         B = PrecisionArgs(d, star)
  PROVE  A \in 0..1 /\ B \in 0..1 /\ ArgsFor(Passed(d, star, a), d, star, a, A, B)
<1>1. A \in 0..1 /\ B \in 0..1
  BY DEF WidthArgs, PrecisionArgs
<1>2. PICK w, p : w = d.width /\ p = d.precision
  OBVIOUS
<1>3. CASE A = 1 /\ B = 1
  <2>1. Passed(d, star, a) = (<<w>> \o <<p>>) \o <<a>>
    BY <1>2, <1>3 DEF Passed, WidthArgs, PrecisionArgs
  <2>2. (<<w>> \o <<p>>) \o <<a>> = <<w>> \o (<<p>> \o <<a>>)
    <3>1. <<w>> \in Seq({w, p, a}) /\ <<p>> \in Seq({w, p, a}) /\ <<a>> \in Seq({w, p, a})
      OBVIOUS
    <3>2. PICK x, y, z : x = <<w>> /\ y = <<p>> /\ z = <<a>>
      OBVIOUS
    <3>3. x \in Seq({w, p, a}) /\ y \in Seq({w, p, a}) /\ z \in Seq({w, p, a})
      BY <3>1, <3>2
    <3>4. (x \o y) \o z = x \o (y \o z)
      <4> HIDE <3>2
      <4> QED BY <3>3, ThreeTexts
    <3> QED BY <3>2, <3>4
  <2>3. <<p>> \o <<a>> = <<p, a>> /\ <<w>> \o <<p, a>> = <<w, p, a>>
    BY OneAndOne, OneAndTwo
  <2>4. Passed(d, star, a) = <<w, p, a>>
    BY <2>1, <2>2, <2>3
  <2> HIDE <1>2
  <2> QED BY <1>1, <1>2, <1>3, <2>4 DEF ArgsFor
<1>4. CASE A = 1 /\ B = 0
  <2>1. Passed(d, star, a) = (<<w>> \o <<>>) \o <<a>>
    BY <1>2, <1>4 DEF Passed, WidthArgs, PrecisionArgs
  <2>2. <<w>> \o <<>> = <<w>>
    OBVIOUS
  <2>3. <<w>> \o <<a>> = <<w, a>>
    BY OneAndOne
  <2>4. Passed(d, star, a) = <<w, a>>
    BY <2>1, <2>2, <2>3
  <2> HIDE <1>2
  <2> QED BY <1>1, <1>2, <1>4, <2>4 DEF ArgsFor
<1>5. CASE A = 0 /\ B = 1
  <2>1. Passed(d, star, a) = (<<>> \o <<p>>) \o <<a>>
    BY <1>2, <1>5 DEF Passed, WidthArgs, PrecisionArgs
  <2>2. <<>> \o <<p>> = <<p>>
    OBVIOUS
  <2>3. <<p>> \o <<a>> = <<p, a>>
    BY OneAndOne
  <2>4. Passed(d, star, a) = <<p, a>>
    BY <2>1, <2>2, <2>3
  <2> HIDE <1>2
  <2> QED BY <1>1, <1>2, <1>5, <2>4 DEF ArgsFor
<1>6. CASE A = 0 /\ B = 0
  <2>1. Passed(d, star, a) = (<<>> \o <<>>) \o <<a>>
    <3>1. ~(star /\ d.width # -1) /\ ~(star /\ d.precision # -1)
      BY <1>6 DEF WidthArgs, PrecisionArgs
    <3> QED BY <3>1, Zenon DEF Passed
  <2>2. (<<>> \o <<>>) \o <<a>> = <<a>>
    OBVIOUS
  <2> QED BY <1>1, <1>6, <2>1, <2>2 DEF ArgsFor
<1> QED BY <1>1, <1>3, <1>4, <1>5, <1>6

(* What the switch reads of a directive. *)
PadOf(d) == IF d.flags = <<>> THEN Space ELSE d.flags[1]
WidthOf(d) == IF d.width = -1 /\ d.precision # -1 THEN 0 ELSE d.width

(* The switch takes all the 'l's. *)
LEMMA LongsTaken ==
  ASSUME NEW fmt, NEW args, NEW at \in Nat, at >= 2, NEW arg \in Nat, NEW padc \in {Space, "-", "0"},
         NEW width \in Int, NEW precision \in Int, NEW n \in Nat,
         Reaches(fmt, args, at, arg, padc, width, precision, 0),
         \A i \in 1..n : CharAt(fmt, at + i - 1) = "l"
  PROVE  Reaches(fmt, args, at + n, arg, padc, width, precision, n)
<1> DEFINE S == {k \in Nat : k <= n => Reaches(fmt, args, at + k, arg, padc, width, precision, k)}
<1>1. 0 \in S
  <2>1. at + 0 = at
    OBVIOUS
  <2> QED BY <2>1
<1>2. ASSUME NEW k \in Nat, k \in S PROVE k + 1 \in S
  <2> SUFFICES ASSUME k + 1 <= n
               PROVE  Reaches(fmt, args, at + (k + 1), arg, padc, width, precision, k + 1)
    OBVIOUS
  <2>1. PICK p \in Nat : p = at + k /\ p >= 2 /\ at + (k + 1) = p + 1 /\ at + (k + 1) - 1 = p
    OBVIOUS
  <2>2. Reaches(fmt, args, p, arg, padc, width, precision, k)
    BY <1>2, <2>1
  <2>3. CharAt(fmt, p) = "l"
    <3>1. k + 1 \in 1..n
      OBVIOUS
    <3>2. CharAt(fmt, at + (k + 1) - 1) = "l"
      BY <3>1
    <3> QED BY <2>1, <3>2
  <2>4. Reaches(fmt, args, p + 1, arg, padc, width, precision, k + 1)
    <3> HIDE <2>1
    <3>1. p >= 2
      BY <2>1
    <3> QED BY <2>2, <2>3, <3>1, LongTaken
  <2> QED BY <2>1, <2>4
<1> DEFINE T == S
<1> HIDE DEF T
<1>3. \A k \in Nat : k \in T
  <2>1. 0 \in T /\ \A k \in Nat : k \in T => k + 1 \in T
    BY <1>1, <1>2 DEF T
  <2> QED BY <2>1, AllNumbers
<1>4. n \in S
  BY <1>3 DEF T
<1> QED BY <1>4

(* A number that is written, and passed if it is a star, is one that the switch is given. *)
LEMMA NumberGiven ==
  ASSUME NEW fmt, Len(fmt) \in Nat, NEW args, NEW at \in Nat, NEW arg \in Nat, NEW n \in 1..9,
         NEW star \in BOOLEAN,
         NEW next, next = IF star THEN arg + 1 ELSE arg,
         at <= Len(fmt), CharAt(fmt, at) = NumberChar(n, star), star => args[arg] = n,
           CharAt(fmt, at + 1) \notin Decimals
  PROVE  GivesNumber(fmt, args, at, arg, n, next)
<1>1. CASE star
  BY <1>1 DEF GivesNumber, NumberChar
<1>2. CASE ~star
  BY <1>2 DEF GivesNumber, NumberChar
<1> QED BY <1>1, <1>2

-----------------------------------------------------------------------------
(* From the '%' of a directive to its conversion. *)

(* Behind a number there is no digit. *)
LEMMA NoDigit ==
  /\ "." \notin Decimals /\ "l" \notin Decimals
  /\ \A c \in Conversions : c \notin Decimals
<1>1. "." \notin Decimals /\ "l" \notin Decimals
  BY SwitchIs, Zenon
<1>2. \A c \in Conversions : c \notin Decimals
  BY SwitchIs, Zenon
<1> QED BY <1>1, <1>2

(* The conversion and what may be in front of it is no digit. *)
LEMMA EndNoDigit ==
  ASSUME NEW fmt, NEW d, NEW star, NEW F \in 0..1, NEW W \in 0..1, NEW P \in {0, 2},
         Shaped(fmt, d, star, F, W, P),
         d.long \in Nat, d.conv \in Conversions
  PROVE  CharAt(fmt, 2 + F + W + P) \notin Decimals
<1>1. CASE d.long = 0
  <2>1. 2 + F + W + P + d.long = 2 + F + W + P
    BY <1>1
  <2>2. CharAt(fmt, 2 + F + W + P) = d.conv
    BY <2>1 DEF Shaped
  <2> QED BY <2>2, NoDigit
<1>2. CASE d.long # 0
  <2>1. 1 \in 1..d.long /\ 1 + F + W + P + 1 = 2 + F + W + P
    BY <1>2
  <2>2. CharAt(fmt, 2 + F + W + P) = "l"
    <3>1. CharAt(fmt, 1 + F + W + P + 1) = "l"
      BY <2>1 DEF Shaped
    <3> QED BY <2>1, <3>1
  <2> QED BY <2>2, NoDigit
<1> QED BY <1>1, <1>2

(* From the '%' through the flags. *)
LEMMA FlagsTaken ==
  ASSUME NEW fmt, NEW args, NEW d, NEW star, NEW F \in 0..1, NEW W, NEW P,
         Shaped(fmt, d, star, F, W, P),
         d.flags \in {<<>>, <<"0">>, <<"-">>}, F = Len(d.flags)
  PROVE  PadOf(d) \in {Space, "-", "0"} /\ Reaches(fmt, args, 2 + F, 1, PadOf(d), -1, -1, 0)
<1>1. Reaches(fmt, args, 2, 1, Space, -1, -1, 0)
  BY ReachesFirst
<1>2. PICK w \in Int, l \in Nat, g \in Nat, p \in {Space, "-", "0"} :
        /\ w = -1 /\ l = 0 /\ g = 1 /\ p = Space
  <2>1. -1 \in Int /\ 0 \in Nat /\ 1 \in Nat
    OBVIOUS
  <2> QED BY <2>1
<1>3. Reaches(fmt, args, 2, g, p, w, w, l)
  BY <1>1, <1>2
<1>4. CASE d.flags = <<>>
  <2>1. F = 0 /\ 2 + F = 2 /\ PadOf(d) = Space
    BY <1>4 DEF PadOf
  <2> QED BY <1>1, <2>1
<1>5. CASE d.flags = <<"0">>
  <2>1. F = 1 /\ 2 + F = 2 + 1 /\ d.flags[1] = "0" /\ PadOf(d) = "0"
    BY <1>5 DEF PadOf
  <2>2. CharAt(fmt, 2) = "0"
    BY <2>1 DEF Shaped
  <2>3. Reaches(fmt, args, 2 + 1, g, "0", w, w, l)
    <3> HIDE <1>2
    <3>1. 2 \in Nat /\ 2 >= 2
      OBVIOUS
    <3> QED BY <1>3, <2>2, <3>1, ZeroTaken
  <2> QED BY <1>2, <2>1, <2>3
<1>6. CASE d.flags = <<"-">>
  <2>1. F = 1 /\ 2 + F = 2 + 1 /\ d.flags[1] = "-" /\ PadOf(d) = "-"
    BY <1>6 DEF PadOf
  <2>2. CharAt(fmt, 2) = "-"
    BY <2>1 DEF Shaped
  <2>3. Reaches(fmt, args, 2 + 1, g, "-", w, w, l)
    <3> HIDE <1>2
    <3>1. 2 \in Nat /\ 2 >= 2
      OBVIOUS
    <3> QED BY <1>3, <2>2, <3>1, DashTaken
  <2> QED BY <1>2, <2>1, <2>3
<1> QED BY <1>4, <1>5, <1>6

(* On through the width. *)
LEMMA WidthReached ==
  ASSUME NEW fmt, NEW args, NEW d, NEW a, DirectiveLegal(d, a), NEW star \in BOOLEAN, NEW F \in 0..1,
         NEW W \in 0..1, NEW P \in {0, 2},
         Shaped(fmt, d, star, F, W, P), F = Len(d.flags), W = WidthCount(d), P = PrecisionCount(d),
         NEW A \in 0..1, A = WidthArgs(d, star), A = 1 => args[1] = d.width
  PROVE  Reaches(fmt, args, 2 + F + W, 1 + A, PadOf(d), d.width, -1, 0)
<1>1. /\ d.width \in {-1} \union 1..9 /\ d.precision \in {-1} \union 1..9 /\ d.long \in Nat
      /\ d.flags \in {<<>>, <<"0">>, <<"-">>} /\ d.conv \in Conversions
  BY DEF DirectiveLegal
<1>2. PadOf(d) \in {Space, "-", "0"} /\ Reaches(fmt, args, 2 + F, 1, PadOf(d), -1, -1, 0)
  BY <1>1, FlagsTaken
<1>3. CASE d.width = -1
  <2>1. W = 0 /\ A = 0 /\ 2 + F + W = 2 + F /\ 1 + A = 1
    BY <1>3 DEF WidthCount, WidthArgs
  <2> QED BY <1>2, <1>3, <2>1
<1>4. CASE d.width # -1
  <2>1. W = 1 /\ A = (IF star THEN 1 ELSE 0) /\ d.width \in 1..9
    BY <1>1, <1>4 DEF WidthCount, WidthArgs
  <2>2. PICK at \in Nat : at = 2 + F /\ at >= 2 /\ 2 + F + W = at + 1
    BY <2>1
  <2>3. CharAt(fmt, at) = NumberChar(d.width, star) /\ at <= Len(fmt) /\ Len(fmt) \in Nat
    <3>1. Len(fmt) = 1 + F + W + P + d.long + 2
      BY DEF Shaped
    <3>2. CharAt(fmt, 2 + F) = NumberChar(d.width, star)
      BY <2>1 DEF Shaped
    <3>3. PICK k \in Nat : k = d.long
      BY <1>1
    <3>4. at <= Len(fmt) /\ Len(fmt) \in Nat
      BY <2>1, <2>2, <3>1, <3>3
    <3> QED BY <2>2, <3>2, <3>4
  <2>4. CharAt(fmt, at + 1) \notin Decimals
    <3>1. CASE P = 2
      <4>1. CharAt(fmt, 2 + F + W) = "."
        BY <3>1 DEF Shaped
      <4> QED BY <2>2, <4>1, NoDigit
    <3>2. CASE P = 0
      <4>1. CharAt(fmt, 2 + F + W + P) \notin Decimals
        BY <1>1, EndNoDigit
      <4>2. 2 + F + W + P = at + 1
        BY <2>2, <3>2
      <4> QED BY <4>1, <4>2
    <3> QED BY <3>1, <3>2
  <2>10. PICK n \in 1..9, p \in {Space, "-", "0"} : n = d.width /\ p = PadOf(d)
    BY <1>2, <2>1
  <2>11. PICK g \in Nat, w \in Int, l \in Nat : g = 1 /\ w = -1 /\ l = 0
    <3>1. -1 \in Int /\ 0 \in Nat /\ 1 \in Nat
      OBVIOUS
    <3> QED BY <3>1
  <2>12. PICK next : next = IF star THEN g + 1 ELSE g
    OBVIOUS
  <2>5. n = d.width /\ g = 1 /\ next = (IF star THEN g + 1 ELSE g) /\ w = -1 /\ l = 0 /\ p = PadOf(d)
    BY <2>10, <2>11, <2>12
  <2>6. next = 1 + A
    BY <2>1, <2>5
  <2>7. GivesNumber(fmt, args, at, g, n, next)
    <3>1. star => args[g] = n
      BY <2>1, <2>5
    <3>2. CharAt(fmt, at) = NumberChar(n, star) /\ next = IF star THEN g + 1 ELSE g
      BY <2>3, <2>5
    <3> HIDE <2>5, <2>10, <2>11, <2>12
    <3> QED BY <2>3, <2>4, <3>1, <3>2, NumberGiven
  <2>8. Reaches(fmt, args, at, g, p, -1, w, l)
    BY <1>2, <2>2, <2>5
  <2>9. Reaches(fmt, args, at + 1, next, p, n, -1, l)
    <3>1. at >= 2 /\ n \in Int
      BY <2>2
    <3> HIDE <2>5, <2>10, <2>11, <2>12
    <3> QED BY <2>3, <2>7, <2>8, <3>1, WidthTaken
  <2> QED BY <2>2, <2>5, <2>6, <2>9
<1> QED BY <1>3, <1>4

(* On through the precision. *)
LEMMA PrecisionReached ==
  ASSUME NEW fmt, NEW args, NEW d, NEW a, DirectiveLegal(d, a), NEW star \in BOOLEAN,
         NEW F \in 0..1, NEW W \in 0..1, NEW P \in {0, 2},
         Shaped(fmt, d, star, F, W, P), P = PrecisionCount(d),
         NEW A \in 0..1, NEW B \in 0..1, B = PrecisionArgs(d, star), B = 1 => args[1 + A] = d.precision,
         PadOf(d) \in {Space, "-", "0"}, Reaches(fmt, args, 2 + F + W, 1 + A, PadOf(d), d.width, -1, 0)
  PROVE  Reaches(fmt, args, 2 + F + W + P, 1 + A + B, PadOf(d), WidthOf(d), d.precision, 0)
<1>1. /\ d.width \in {-1} \union 1..9 /\ d.precision \in {-1} \union 1..9 /\ d.long \in Nat
      /\ d.conv \in Conversions
  BY DEF DirectiveLegal
<1>2. CASE d.precision = -1
  <2>1. P = 0 /\ B = 0 /\ WidthOf(d) = d.width
    BY <1>2 DEF PrecisionCount, PrecisionArgs, WidthOf
  <2>2. 2 + F + W + P = 2 + F + W /\ 1 + A + B = 1 + A
    BY <2>1
  <2> QED BY <1>2, <2>1, <2>2
<1>3. CASE d.precision # -1
  <2>1. P = 2 /\ B = (IF star THEN 1 ELSE 0) /\ d.precision \in 1..9
    BY <1>1, <1>3 DEF PrecisionCount, PrecisionArgs
  <2>2. WidthOf(d) = (IF d.width < 0 THEN 0 ELSE d.width) /\ WidthOf(d) \in Int /\ WidthOf(d) >= 0
    BY <1>1, <1>3 DEF WidthOf
  <2>3. PICK at \in Nat, g \in Nat : at = 2 + F + W /\ at >= 2 /\ g = 1 + A
    OBVIOUS
  <2>4. 2 + F + W + P = (at + 1) + 1 /\ at + 1 \in Nat /\ at + 1 >= 2 /\ 3 + F + W = at + 1
    BY <2>1, <2>3
  <2>5. CharAt(fmt, at) = "." /\ CharAt(fmt, at + 1) = NumberChar(d.precision, star)
    <3>1. CharAt(fmt, 2 + F + W) = "." /\ CharAt(fmt, 3 + F + W) = NumberChar(d.precision, star)
      BY <2>1 DEF Shaped
    <3> QED BY <2>3, <2>4, <3>1
  <2>6. at + 1 <= Len(fmt) /\ Len(fmt) \in Nat
    <3>1. Len(fmt) = 1 + F + W + P + d.long + 2
      BY DEF Shaped
    <3>2. PICK k \in Nat : k = d.long
      BY <1>1
    <3> QED BY <2>1, <2>3, <3>1, <3>2
  <2>7. CharAt(fmt, (at + 1) + 1) \notin Decimals
    <3>1. CharAt(fmt, 2 + F + W + P) \notin Decimals
      BY <1>1, EndNoDigit
    <3> QED BY <2>4, <3>1
  <2>8. PICK n \in 1..9, w \in Int, v \in Int : n = d.precision /\ w = d.width /\ v = WidthOf(d)
    BY <1>1, <2>1, <2>2
  <2>9. PICK m \in Int, l \in Nat, p \in {Space, "-", "0"} : m = -1 /\ l = 0 /\ p = PadOf(d)
    <3>1. -1 \in Int /\ 0 \in Nat
      OBVIOUS
    <3> QED BY <3>1
  <2>10. PICK next : next = IF star THEN g + 1 ELSE g
    OBVIOUS
  <2>11. next = 1 + A + B
    BY <2>1, <2>3, <2>10
  <2>12. Reaches(fmt, args, at, g, p, w, m, l)
    BY <2>3, <2>8, <2>9
  <2>13. v = IF w < 0 THEN 0 ELSE w
    BY <2>2, <2>8
  <2>14. Reaches(fmt, args, at + 1, g, p, v, m, l)
    <3>1. at >= 2
      BY <2>3
    <3>2. Reaches(fmt, args, at + 1, g, p, IF w < 0 THEN 0 ELSE w, m, l)
      <4> HIDE <2>3, <2>8, <2>9
      <4> QED BY <2>5, <2>12, <3>1, PointTaken
    <3> QED BY <2>13, <3>2
  <2>15. GivesNumber(fmt, args, at + 1, g, n, next)
    <3>1. (star => args[g] = n) /\ CharAt(fmt, at + 1) = NumberChar(n, star) /\ next = IF star
            THEN g + 1 ELSE g
      BY <2>1, <2>3, <2>5, <2>8, <2>10
    <3> HIDE <2>3, <2>8, <2>9, <2>10
    <3> QED BY <2>4, <2>6, <2>7, <3>1, NumberGiven
  <2>16. Reaches(fmt, args, (at + 1) + 1, next, p, v, n, l)
    <3>1. v >= 0 /\ n \in Int
      BY <2>2, <2>8
    <3>2. ReachesNumber(fmt, args, at + 1, g, p, v, m, l, n, next)
      <4> HIDE <2>3, <2>8, <2>9, <2>10
      <4> QED BY <2>4, <2>6, <2>14, <2>15, <3>1 DEF ReachesNumber
    <3> QED BY <3>2, PrecisionTaken
  <2> QED BY <2>4, <2>8, <2>9, <2>11, <2>16
<1> QED BY <1>2, <1>3

(* The state in which the switch meets the conversion. *)
DirectiveRead(fmt, args, d, star, a) ==
  LET at == 2 + Len(d.flags) + WidthCount(d) + PrecisionCount(d) + d.long
      arg == 1 + WidthArgs(d, star) + PrecisionArgs(d, star)
  IN  /\ Reaches(fmt, args, at, arg, PadOf(d), WidthOf(d), d.precision, d.long)
      /\ CharAt(fmt, at) = d.conv /\ at \in Nat /\ at >= 2 /\ Len(fmt) = at + 1
      /\ CharAt(fmt, at + 1) = "z"
      /\ fmt \in Seq(Letters) /\ CharAt(fmt, 1) = "%" /\ args[arg] = a /\ arg \in 1..3

(* On through the 'l's, to the conversion, with its argument the next one. *)
LEMMA DirectiveTaken ==
  ASSUME NEW d, NEW a, DirectiveLegal(d, a), NEW star \in BOOLEAN, NEW fmt,
         fmt = Written(d, star) \o <<"z">>,
         NEW args, args = Passed(d, star, a)
  PROVE  DirectiveRead(fmt, args, d, star, a)
<1>1. PICK F, W, P, A, B : /\ F = Len(d.flags) /\ W = WidthCount(d) /\ P = PrecisionCount(d)
                           /\ A = WidthArgs(d, star) /\ B = PrecisionArgs(d, star)
  OBVIOUS
<1>2. F \in 0..1 /\ W \in 0..1 /\ P \in {0, 2} /\ Shaped(fmt, d, star, F, W, P)
  BY <1>1, WrittenIs
<1>3. A \in 0..1 /\ B \in 0..1 /\ ArgsFor(args, d, star, a, A, B)
  BY <1>1, PassedIs
<1>4. /\ d.width \in {-1} \union 1..9 /\ d.precision \in {-1} \union 1..9 /\ d.long \in Nat
      /\ d.flags \in {<<>>, <<"0">>, <<"-">>} /\ d.conv \in Conversions
  BY DEF DirectiveLegal
<1>5. PadOf(d) \in {Space, "-", "0"}
  BY <1>1, <1>2, <1>4, FlagsTaken
<1>6. Reaches(fmt, args, 2 + F + W, 1 + A, PadOf(d), d.width, -1, 0)
  <2>1. A = 1 => args[1] = d.width
    BY <1>3 DEF ArgsFor
  <2> QED BY <1>1, <1>2, <1>3, <2>1, WidthReached
<1>7. Reaches(fmt, args, 2 + F + W + P, 1 + A + B, PadOf(d), WidthOf(d), d.precision, 0)
  <2>1. B = 1 => args[1 + A] = d.precision
    BY <1>3 DEF ArgsFor
  <2>2. P = PrecisionCount(d) /\ B = PrecisionArgs(d, star)
    BY <1>1
  <2> HIDE <1>1
  <2> QED BY <1>2, <1>3, <1>5, <1>6, <2>1, <2>2, PrecisionReached, ZenonT(60)
<1>8. PICK at \in Nat, g \in Nat, n \in Nat : /\ at = 2 + F + W + P /\ at >= 2 /\ g = 1 + A + B
                                              /\ n = d.long
  <2>1. 2 + F + W + P \in Nat /\ 2 + F + W + P >= 2
    BY <1>2
  <2>2. 1 + A + B \in Nat
    BY <1>3
  <2> QED BY <1>4, <2>1, <2>2
<1>9. Reaches(fmt, args, at + n, g, PadOf(d), WidthOf(d), d.precision, n)
  <2>1. \A i \in 1..n : CharAt(fmt, at + i - 1) = "l"
    <3> SUFFICES ASSUME NEW i \in 1..n PROVE CharAt(fmt, at + i - 1) = "l"
      OBVIOUS
    <3>1. CharAt(fmt, 1 + F + W + P + i) = "l"
      BY <1>2, <1>8 DEF Shaped
    <3>2. 1 + F + W + P + i = at + i - 1
      BY <1>2, <1>8
    <3> QED BY <3>1, <3>2
  <2>2. WidthOf(d) \in Int /\ d.precision \in Int /\ at >= 2
    BY <1>4, <1>8 DEF WidthOf
  <2>3. Reaches(fmt, args, at, g, PadOf(d), WidthOf(d), d.precision, 0)
    BY <1>7, <1>8
  <2>4. PICK w \in Int, p \in Int, c \in {Space, "-", "0"} :
          /\ w = WidthOf(d) /\ p = d.precision /\ c = PadOf(d)
    BY <1>5, <2>2
  <2>5. Reaches(fmt, args, at, g, c, w, p, 0)
    BY <2>3, <2>4
  <2>6. Reaches(fmt, args, at + n, g, c, w, p, n)
    <3> HIDE <1>8, <2>4
    <3> QED BY <2>1, <2>2, <2>5, LongsTaken
  <2> QED BY <2>4, <2>6
<1>10. CharAt(fmt, at + n) = d.conv /\ CharAt(fmt, (at + n) + 1) = "z" /\ Len(fmt) = (at + n) + 1
  <2>1. /\ CharAt(fmt, 2 + F + W + P + d.long) = d.conv /\ CharAt(fmt, 3 + F + W + P + d.long) = "z"
        /\ Len(fmt) = 1 + F + W + P + d.long + 2
    BY <1>2 DEF Shaped
  <2>2. /\ 2 + F + W + P + d.long = at + n /\ 3 + F + W + P + d.long = (at + n) + 1
        /\ 1 + F + W + P + d.long + 2 = (at + n) + 1
    BY <1>2, <1>8
  <2> QED BY <2>1, <2>2
<1>11. at + n \in Nat /\ at + n >= 2
  BY <1>8
<1>12. fmt \in Seq(Letters) /\ CharAt(fmt, 1) = "%"
  BY <1>2 DEF Shaped
<1>13. args[g] = a /\ g \in 1..3
  BY <1>3, <1>8 DEF ArgsFor
<1>14. 2 + Len(d.flags) + WidthCount(d) + PrecisionCount(d) + d.long = at + n
  BY <1>1, <1>8
<1>15. 1 + WidthArgs(d, star) + PrecisionArgs(d, star) = g
  BY <1>1, <1>8
<1>16. Reaches(fmt, args, at + n, g, PadOf(d), WidthOf(d), d.precision, d.long)
  BY <1>8, <1>9
<1> QED BY <1>10, <1>11, <1>12, <1>13, <1>14, <1>15, <1>16 DEF DirectiveRead

(* The last character of a text. *)
LEMMA LastOne ==
  ASSUME NEW X, NEW s \in Seq(X), Len(s) >= 1
  PROVE  SubSeq(s, Len(s), Len(s)) = <<s[Len(s)]>>
<1>1. Len(s) \in Nat /\ Len(s) \in 1..Len(s)
  OBVIOUS
<1>2. PICK n \in Nat : n = Len(s) /\ n \in 1..Len(s) /\ n - n + 1 = 1
  BY <1>1
<1>3. \A i \in n..n : s[i] \in X
  BY <1>2
<1>4. /\ SubSeq(s, n, n) \in Seq(X) /\ Len(SubSeq(s, n, n)) = 1
      /\ SubSeq(s, n, n)[1] = s[n]
  BY <1>2, <1>3, SubSeqProperties
<1>5. SubSeq(s, n, n) = <<s[n]>>
  <2>1. PICK u \in Seq(X) : u = SubSeq(s, n, n)
    BY <1>4
  <2>2. Len(u) = 1 /\ u[1] = s[n]
    BY <1>4, <2>1
  <2> HIDE <2>1, <1>2
  <2>3. u = <<s[n]>>
    BY <2>2
  <2> QED BY <2>1, <2>3
<1> QED BY <1>2, <1>5

(* What is printed for a directive. *)
StateOf(d, at, arg) == St(at, arg, PadOf(d), WidthOf(d), d.precision, d.long, Off)
Shows(d, a, t) == \A at, arg : Convert(d.conv, StateOf(d, at, arg), a) = t

(* What is printed for a directive with a 'z' behind it: what its conversion prints in
   that state, and the 'z'. *)
LEMMA PrintfIs ==
  ASSUME NEW d, NEW a, DirectiveLegal(d, a), NEW star \in BOOLEAN, NEW t \in Seq(Chars), Shows(d, a, t)
  PROVE  vprintfmt(Written(d, star) \o <<"z">>, Passed(d, star, a)) = t \o <<"z">>
<1>1. PICK fmt, args : fmt = Written(d, star) \o <<"z">> /\ args = Passed(d, star, a)
  OBVIOUS
<1>2. DirectiveRead(fmt, args, d, star, a)
  BY <1>1, DirectiveTaken
<1>3. PICK at, arg : /\ at = 2 + Len(d.flags) + WidthCount(d) + PrecisionCount(d) + d.long
                     /\ arg = 1 + WidthArgs(d, star) + PrecisionArgs(d, star)
  OBVIOUS
<1>4. /\ Reaches(fmt, args, at, arg, PadOf(d), WidthOf(d), d.precision, d.long)
      /\ CharAt(fmt, at) = d.conv /\ at \in Nat /\ at >= 2 /\ Len(fmt) = at + 1
      /\ CharAt(fmt, at + 1) = "z"
      /\ fmt \in Seq(Letters) /\ CharAt(fmt, 1) = "%" /\ args[arg] = a /\ arg \in 1..3
  BY <1>2, <1>3 DEF DirectiveRead
<1>5. args[arg] = a /\ arg \in Nat
  BY <1>4
<1> HIDE <1>1, <1>3
<1>6. PICK e : e = StateOf(d, at, arg)
  OBVIOUS
<1>7. e.at = at /\ e.arg = arg
  BY <1>6, StIs DEF StateOf
<1>8. PICK n \in Nat : n = at - 2 /\ n - 1 = at - 3 /\ n \in 0..Len(fmt) /\ Len(fmt) \in Nat
  BY <1>4
<1>20. n \in 0..Len(fmt)
  BY <1>8
<1>9. /\ Taken(fmt, args, 2, 1)[n] = e
      /\ \A k \in 0..(n - 1) : CharAt(fmt, Taken(fmt, args, 2, 1)[k].at) \in Flags
  BY <1>4, <1>6, <1>8 DEF Reaches, StateOf
<1>10. d.conv \in Conversions /\ d.conv \notin Flags
  <2>1. d.conv \in Conversions
    BY DEF DirectiveLegal
  <2> QED BY <2>1, SwitchIs
<1>11. CharAt(fmt, e.at) = d.conv
  BY <1>4, <1>7
<1>12. PICK z \in Nat : z = IF d.conv = "%" THEN e.arg ELSE e.arg + 1
  BY <1>5, <1>7
<1>13. Escape(fmt, args, 2, 1) = [text |-> t, at |-> at + 1, arg |-> z]
  <2>1. Len(fmt) \in Nat /\ CharAt(fmt, e.at) \notin Flags
    BY <1>4, <1>10, <1>11
  <2>2. Escape(fmt, args, 2, 1) =
          IF CharAt(fmt, e.at) \in Conversions
          THEN [text |-> Convert(CharAt(fmt, e.at), e, args[e.arg]), at |-> e.at + 1,
                arg |-> IF CharAt(fmt, e.at) = "%" THEN e.arg ELSE e.arg + 1]
          ELSE Unknown(2, e)
    <3>1. PICK x : x = Taken(fmt, args, 2, 1)[n]
      OBVIOUS
    <3>2. x = e
      BY <1>9, <3>1
    <3>3. n = Len(fmt) \/ CharAt(fmt, x.at) \notin Flags
      BY <2>1, <3>2
    <3>4. Escape(fmt, args, 2, 1) =
            IF CharAt(fmt, x.at) \in Conversions
            THEN [text |-> Convert(CharAt(fmt, x.at), x, args[x.arg]), at |-> x.at + 1,
                  arg |-> IF CharAt(fmt, x.at) = "%" THEN x.arg ELSE x.arg + 1]
            ELSE Unknown(2, x)
      <4> HIDE <1>6, <1>8
      <4> QED BY <1>9, <1>20, <2>1, <3>1, <3>3, EscapeIs
    <3> QED BY <3>2, <3>4
  <2>3. Escape(fmt, args, 2, 1) =
          [text |-> Convert(d.conv, e, args[e.arg]), at |-> e.at + 1,
           arg |-> IF d.conv = "%" THEN e.arg ELSE e.arg + 1]
    BY <1>10, <1>11, <2>2
  <2>4. Convert(d.conv, e, args[e.arg]) = t
    BY <1>5, <1>6, <1>7 DEF Shows
  <2> QED BY <1>7, <1>12, <2>3, <2>4
<1>14. PICK y \in Nat : y = at + 1
  BY <1>4
<1>15. y \in 2..(Len(fmt) + 1) /\ Len(fmt) = y /\ Len(fmt) >= 1
  BY <1>4, <1>14
<1>16. fmt[y] = "z"
  BY <1>4, <1>14, <1>15 DEF CharAt
<1>17. \A i \in y..Len(fmt) : fmt[i] \in Chars /\ fmt[i] # "%"
  <2>1. "z" \in Chars
    BY CharsAre, Zenon
  <2>2. \A i \in y..Len(fmt) : i = y
    BY <1>15
  <2> QED BY <1>16, <2>1, <2>2
<1>18. Escape(fmt, args, 2, 1) = [text |-> t, at |-> y, arg |-> z]
  BY <1>13, <1>14
<1>19. vprintfmt(fmt, args) = t \o SubSeq(fmt, y, Len(fmt))
  <2> HIDE <1>14, <1>12
  <2> QED BY <1>4, <1>15, <1>17, <1>18, PercentFirst
<1>21. SubSeq(fmt, y, Len(fmt)) = <<"z">>
  <2>1. SubSeq(fmt, Len(fmt), Len(fmt)) = <<fmt[Len(fmt)]>>
    BY <1>4, <1>15, LastOne
  <2> QED BY <1>15, <1>16, <2>1
<1> QED BY <1>1, <1>19, <1>21

-----------------------------------------------------------------------------
(* What each conversion prints. *)

(* What Convert does for each conversion. *)
LEMMA ConvertIs ==
  ASSUME NEW e, NEW a
  PROVE  /\ Convert("c", e, a) = <<a>> /\ Convert("e", e, a) = Error(a)
         /\ Convert("s", e, a) = String(e, a)
         /\ Convert("d", e, a) = Decimal(e, a) /\ Convert("%", e, a) = <<"%">>
         /\ Convert("u", e, a) = printnum(getuint(e, a), 10, e.width, e.padc)
         /\ Convert("o", e, a) = printnum(getuint(e, a), 8, e.width, e.padc)
         /\ Convert("x", e, a) = printnum(getuint(e, a), 16, e.width, e.padc)
         /\ Convert("p", e, a) = <<"0", "x">> \o printnum(a % 2^INTBITS, 16, e.width, e.padc)
BY DEF Convert

(* The parts of the state in which the switch meets the conversion. *)
LEMMA StateIs ==
  ASSUME NEW d, NEW at, NEW arg, NEW e, e = StateOf(d, at, arg)
  PROVE  /\ e.width = WidthOf(d) /\ e.padc = PadOf(d) /\ e.precision = d.precision /\ e.lflag = d.long
         /\ ~e.altflag
<1>1. e.width = WidthOf(d) /\ e.padc = PadOf(d) /\ e.precision = d.precision /\ e.lflag = d.long
  BY StIs DEF StateOf
<1>2. e.altflag = Off
  BY StIs DEF StateOf
<1> QED BY <1>1, <1>2 DEF Off

(* What the parts of a legal directive can be. *)
LEMMA DirectiveIs ==
  ASSUME NEW d, NEW a, DirectiveLegal(d, a)
  PROVE  /\ d.width \in {-1} \union 1..9 /\ d.precision \in {-1} \union 1..9 /\ d.long \in Nat
         /\ d.flags \in {<<>>, <<"0">>, <<"-">>} /\ d.conv \in Conversions
         /\ WidthOf(d) \in Int /\ (WidthOf(d) = d.width \/ (WidthOf(d) = 0 /\ d.width = -1))
         /\ PadOf(d) = (IF d.flags = <<"0">> THEN "0" ELSE IF d.flags = <<"-">> THEN "-" ELSE Space)
         /\ PadOf(d) \in Chars
<1>1. /\ d.width \in {-1} \union 1..9 /\ d.precision \in {-1} \union 1..9 /\ d.long \in Nat
      /\ d.flags \in {<<>>, <<"0">>, <<"-">>} /\ d.conv \in Conversions
  BY DEF DirectiveLegal
<1>2. WidthOf(d) \in Int /\ (WidthOf(d) = d.width \/ (WidthOf(d) = 0 /\ d.width = -1))
  BY <1>1 DEF WidthOf
<1>3. PadOf(d) = IF d.flags = <<"0">> THEN "0" ELSE IF d.flags = <<"-">> THEN "-" ELSE Space
  <2>1. <<>> # <<"0">> /\ <<>> # <<"-">>
    OBVIOUS
  <2>2. <<"0">>[1] = "0" /\ <<"-">>[1] = "-" /\ <<"0">> # <<"-">>
    OBVIOUS
  <2>3. CASE d.flags = <<>>
    BY <2>1, <2>3 DEF PadOf
  <2>4. CASE d.flags = <<"0">>
    BY <2>1, <2>2, <2>4 DEF PadOf
  <2>5. CASE d.flags = <<"-">>
    BY <2>1, <2>2, <2>5 DEF PadOf
  <2> QED BY <1>1, <2>3, <2>4, <2>5
<1>4. Space \in Chars /\ "-" \in Chars /\ "0" \in Chars
  BY CharsAre, Zenon
<1> QED BY <1>1, <1>2, <1>3, <1>4

(* A width of zero is no width. *)
LEMMA NoWidth ==
  ASSUME NEW X, NEW s \in Seq(X), NEW n, NEW base, NEW pad, IsField(s, n, base, 0, pad)
  PROVE  IsField(s, n, base, -1, pad)
<1>1. PICK k \in 0..(Len(s) - 1) :
        /\ SubSeq(s, 1, k) = Repeat(pad, k)
        /\ \A j \in 1..Len(SubSeq(s, k + 1, Len(s))) : SubSeq(s, k + 1, Len(s))[j] \in DigitChars
        /\ Value(SubSeq(s, k + 1, Len(s)), base) = n
        /\ (SubSeq(s, k + 1, Len(s))[1] = "0" => Len(SubSeq(s, k + 1, Len(s))) = 1)
        /\ Len(s) = Max2(0, Len(SubSeq(s, k + 1, Len(s))))
  BY DEF IsField
<1>2. Len(SubSeq(s, k + 1, Len(s))) \in Nat
  <2>1. k + 1 \in 1..Len(s) /\ Len(s) \in Nat
    OBVIOUS
  <2>2. \A i \in (k + 1)..Len(s) : s[i] \in X
    OBVIOUS
  <2>3. SubSeq(s, k + 1, Len(s)) \in Seq(X)
    BY <2>1, <2>2, SubSeqProperties
  <2> QED BY <2>3
<1>3. Max2(0, Len(SubSeq(s, k + 1, Len(s)))) = Max2(-1, Len(SubSeq(s, k + 1, Len(s))))
  BY <1>2 DEF Max2
<1> QED BY <1>1, <1>3 DEF IsField

(* A number in a directive's width. *)
LEMMA FieldShown ==
  ASSUME NEW d, NEW a, DirectiveLegal(d, a), NEW num \in Nat, NEW base \in 2..16, NEW s,
         s = printnum(num, base, WidthOf(d), PadOf(d))
  PROVE  s \in Seq(Chars) /\ IsField(s, num, base, d.width, PadOf(d))
<1>1. /\ WidthOf(d) \in Int /\ (WidthOf(d) = d.width \/ (WidthOf(d) = 0 /\ d.width = -1))
      /\ PadOf(d) \in Chars
  BY DirectiveIs
<1>2. s \in Seq(Chars)
  BY <1>1, PrintnumText, CharsAre
<1>3. IsField(s, num, base, WidthOf(d), PadOf(d))
  BY <1>1, PrintnumField
<1>4. CASE WidthOf(d) = d.width
  BY <1>2, <1>3, <1>4
<1>5. CASE WidthOf(d) = 0 /\ d.width = -1
  <2>1. IsField(s, num, base, 0, PadOf(d))
    BY <1>3, <1>5
  <2>2. IsField(s, num, base, -1, PadOf(d))
    BY <1>2, <2>1, NoWidth
  <2> QED BY <1>2, <1>5, <2>2
<1> QED BY <1>1, <1>4, <1>5

(* A text with one character in front. *)
LEMMA OneInFront ==
  ASSUME NEW X, NEW c \in X, NEW s \in Seq(X)
  PROVE  <<c>> \o s \in Seq(X) /\ (<<c>> \o s)[1] = c /\ Tail(<<c>> \o s) = s /\ <<c>> \o s # <<>>
<1>1. PICK t \in Seq(X) : /\ t = <<c>> \o s /\ Len(t) = 1 + Len(s) /\ t[1] = c
                          /\ \A i \in 1..Len(s) : t[i + 1] = s[i]
  <2>1. PICK b \in Seq(X) : b = <<c>> /\ Len(b) = 1 /\ b[1] = c
    <3>1. <<c>> \in Seq(X)
      OBVIOUS
    <3>2. Len(<<c>>) = 1 /\ <<c>>[1] = c
      OBVIOUS
    <3> QED BY <3>1, <3>2
  <2>2. b \o s \in Seq(X) /\ Len(b \o s) = 1 + Len(s) /\ Stands(b, b \o s, 0) /\ Stands(s, b \o s, 1)
    <3>1. /\ b \o s \in Seq(X) /\ Len(b \o s) = Len(b) + Len(s)
          /\ Stands(b, b \o s, 0) /\ Stands(s, b \o s, Len(b))
      <4> HIDE <2>1
      <4> QED BY Joined
    <3> QED BY <2>1, <3>1
  <2>3. PICK t \in Seq(X) : t = b \o s /\ Len(t) = 1 + Len(s) /\ Stands(b, t, 0) /\ Stands(s, t, 1)
    BY <2>2
  <2>4. t[1] = c
    <3>1. 1 \in 1..Len(b) /\ 0 + 1 = 1
      BY <2>1
    <3> QED BY <2>1, <2>3, <3>1 DEF Stands
  <2>5. \A i \in 1..Len(s) : t[i + 1] = s[i]
    <3>1. \A i \in 1..Len(s) : t[1 + i] = s[i] /\ 1 + i = i + 1
      BY <2>3 DEF Stands
    <3> QED BY <3>1
  <2> QED BY <2>1, <2>3, <2>4, <2>5
<1> HIDE <1>1
<1>2. Len(t) = 1 + Len(s) /\ \A i \in 1..Len(s) : t[i + 1] = s[i]
  BY <1>1
<1>3. Len(s) \in Nat /\ t # <<>>
  BY <1>2
<1>4. Tail(t) \in Seq(X) /\ Len(Tail(t)) = Len(s) /\ \A i \in 1..Len(s) : Tail(t)[i] = s[i]
  BY <1>2, <1>3
<1>5. Tail(t) = s
  BY <1>4, SeqEqual
<1> QED BY <1>1, <1>3, <1>5

(* A number of bits is that of an int or of a long long. *)
LEMMA BitsOf ==
  ASSUME NEW long \in Nat, NEW bits, bits = IF long >= 2 THEN LLBITS ELSE INTBITS
  PROVE  bits \in Nat \ {0} /\ LLBITS \in Nat \ {0} /\ bits <= LLBITS /\ 2^bits \in Nat \ {0}
<1>1. bits \in Nat \ {0} /\ LLBITS \in Nat \ {0} /\ bits <= LLBITS
  BY BitsAssumption
<1> QED BY <1>1, PowersOfTwo

(* The absolute value of a negative number of so many bits fits in a long long. *)
LEMMA Absolute ==
  ASSUME NEW long \in Nat, NEW bits, bits = (IF long >= 2 THEN LLBITS ELSE INTBITS), NEW a \in Int,
         NEW v, v = Signed(a, bits), v < 0
  PROVE  (-v) % 2^LLBITS = -v /\ -v \in Nat
<1>1. bits \in Nat \ {0} /\ LLBITS \in Nat \ {0} /\ bits <= LLBITS
  BY BitsOf
<1>2. v \in Ints(bits)
  BY <1>1, SignedIs
<1>3. PICK h \in Nat \ {0} : h = 2^(bits - 1) /\ 2^bits = 2 * h
  BY <1>1, Halves
<1>4. PICK M \in Nat \ {0} : M = 2^LLBITS
  BY <1>1, PowersOfTwo
<1>5. 2^bits <= M
  BY <1>1, <1>4, MoreBits
<1>6. v \in (-h)..(h - 1)
  BY <1>2, <1>3 DEF Ints
<1>7. -v \in Nat /\ -v < M
  BY <1>3, <1>5, <1>6
<1>8. (-v) % M = -v
  <2> HIDE <1>4
  <2>1. PICK w \in Nat : w = -v /\ w < M
    BY <1>7
  <2>2. w % M = w
    BY <2>1
  <2> QED BY <2>1, <2>2
<1> QED BY <1>4, <1>7, <1>8

(* What a directive must print. *)
IsPrinted(t, c) ==
  IF c.d.conv = "s" THEN IsString(t, c)
  ELSE IF c.d.conv \in {"d", "u", "o", "x"} THEN IsNumber(t, c)
  ELSE IsOther(t, c)

(* %u, %o and %x. *)
LEMMA UnsignedShown ==
  ASSUME NEW c, NEW d, d = c.d, NEW a, a = c.a, DirectiveLegal(d, a), d.conv \in {"u", "o", "x"}
  PROVE  \E t \in Seq(Chars) : Shows(d, a, t) /\ IsPrinted(t, c)
<1>1. /\ d.long \in Nat /\ d.flags \in {<<>>, <<"0">>, <<"-">>}
      /\ PadOf(d) = (IF d.flags = <<"0">> THEN "0" ELSE IF d.flags = <<"-">> THEN "-" ELSE Space)
  BY DirectiveIs
<1>2. a \in Int /\ d.flags # <<"-">>
  BY DEF DirectiveLegal, Numeric
<1>3. PICK bits : bits = IF d.long >= 2 THEN LLBITS ELSE INTBITS
  OBVIOUS
<1>4. bits \in Nat \ {0} /\ 2^bits \in Nat \ {0}
  BY <1>1, <1>3, BitsOf
<1>5. PICK num \in Nat : num = a % 2^bits
  <2>1. a % 2^bits \in Nat
    <3>1. PICK M \in Nat \ {0} : M = 2^bits
      BY <1>4
    <3>2. a % M \in Nat
      BY <1>2
    <3> QED BY <3>1, <3>2
  <2> QED BY <2>1
<1>6. PICK base \in 2..16 : base = Base(d.conv)
  BY DEF Base
<1>7. PICK s : s = printnum(num, base, WidthOf(d), PadOf(d))
  OBVIOUS
<1>8. s \in Seq(Chars) /\ IsField(s, num, base, d.width, PadOf(d))
  BY <1>7, FieldShown
<1>9. Shows(d, a, s)
  <2> SUFFICES ASSUME NEW at, NEW arg PROVE Convert(d.conv, StateOf(d, at, arg), a) = s
    BY DEF Shows
  <2>1. PICK e : e = StateOf(d, at, arg)
    OBVIOUS
  <2>2. e.width = WidthOf(d) /\ e.padc = PadOf(d) /\ e.lflag = d.long
    BY <2>1, StateIs
  <2>3. getuint(e, a) = num
    BY <1>3, <1>5, <2>2 DEF getuint, Bits
  <2>4. Convert(d.conv, e, a) = printnum(getuint(e, a), base, e.width, e.padc)
    <3>1. CASE d.conv = "u"
      <4>1. base = 10
        BY <1>6, <3>1 DEF Base
      <4> QED BY <3>1, <4>1, ConvertIs
    <3>2. CASE d.conv = "o"
      <4>1. base = 8
        BY <1>6, <3>2 DEF Base
      <4> QED BY <3>2, <4>1, ConvertIs
    <3>3. CASE d.conv = "x"
      <4>1. base = 16
        BY <1>6, <3>3 DEF Base
      <4> QED BY <3>3, <4>1, ConvertIs
    <3> QED BY <3>1, <3>2, <3>3
  <2> QED BY <1>7, <2>1, <2>2, <2>3, <2>4
<1>10. IsNumber(s, c)
  <2>1. PadOf(d) = IF d.flags = <<"0">> THEN "0" ELSE Space
    BY <1>1, <1>2
  <2>2. ~(num < 0)
    OBVIOUS
  <2>3. d.conv # "d"
    OBVIOUS
  <2>4. IsField(s, num, Base(d.conv), d.width, IF d.flags = <<"0">> THEN "0" ELSE Space)
    BY <1>6, <1>8, <2>1
  <2> QED BY <1>3, <1>5, <2>2, <2>3, <2>4 DEF IsNumber
<1>11. IsPrinted(s, c)
  BY <1>10 DEF IsPrinted
<1> QED BY <1>8, <1>9, <1>11

(* %d, whose sign is in front of the padding. *)
LEMMA SignedShown ==
  ASSUME NEW c, NEW d, d = c.d, NEW a, a = c.a, DirectiveLegal(d, a), d.conv = "d"
  PROVE  \E t \in Seq(Chars) : Shows(d, a, t) /\ IsPrinted(t, c)
<1>1. /\ d.long \in Nat /\ d.flags \in {<<>>, <<"0">>, <<"-">>}
      /\ PadOf(d) = (IF d.flags = <<"0">> THEN "0" ELSE IF d.flags = <<"-">> THEN "-" ELSE Space)
  BY DirectiveIs
<1>2. a \in Int /\ d.flags # <<"-">>
  BY DEF DirectiveLegal, Numeric
<1>3. PICK bits : bits = IF d.long >= 2 THEN LLBITS ELSE INTBITS
  OBVIOUS
<1>4. bits \in Nat \ {0}
  BY <1>1, <1>3, BitsOf
<1>5. PICK v : v = Signed(a, bits)
  OBVIOUS
<1>6. v \in Int
  <2>1. v \in Ints(bits)
    BY <1>2, <1>4, <1>5, SignedIs
  <2>2. PICK h \in Nat \ {0} : h = 2^(bits - 1)
    BY <1>4, Halves
  <2> QED BY <2>1, <2>2 DEF Ints
<1>7. PICK num \in Nat : num = IF v < 0 THEN -v ELSE v
  BY <1>6
<1>8. PICK s : s = printnum(num, 10, WidthOf(d), PadOf(d))
  OBVIOUS
<1>9. s \in Seq(Chars) /\ IsField(s, num, 10, d.width, PadOf(d))
  <2>1. 10 \in 2..16
    OBVIOUS
  <2> QED BY <1>8, <2>1, FieldShown
<1>10. PadOf(d) = IF d.flags = <<"0">> THEN "0" ELSE Space
  BY <1>1, <1>2
<1>11. PICK t \in Seq(Chars) :
         /\ t = IF v < 0 THEN <<"-">> \o s ELSE s
         /\ v < 0 => t # <<>> /\ t[1] = "-" /\ Tail(t) = s
  <2>1. "-" \in Chars
    BY CharsAre, Zenon
  <2>2. /\ <<"-">> \o s \in Seq(Chars) /\ (<<"-">> \o s)[1] = "-" /\ Tail(<<"-">> \o s) = s
        /\ <<"-">> \o s # <<>>
    BY <1>9, <2>1, OneInFront
  <2> QED BY <1>9, <2>2
<1>12. Shows(d, a, t)
  <2> SUFFICES ASSUME NEW at, NEW arg PROVE Convert(d.conv, StateOf(d, at, arg), a) = t
    BY DEF Shows
  <2>1. PICK e : e = StateOf(d, at, arg)
    OBVIOUS
  <2>2. e.width = WidthOf(d) /\ e.padc = PadOf(d) /\ e.lflag = d.long
    BY <2>1, StateIs
  <2>3. getint(e, a) = v
    BY <1>3, <1>5, <2>2 DEF getint, Bits
  <2>4. Convert(d.conv, e, a) = Decimal(e, a)
    BY ConvertIs
  <2>5. v < 0 => (-v) % 2^LLBITS = num
    <3> HAVE v < 0
    <3>1. (-v) % 2^LLBITS = -v
      BY <1>1, <1>2, <1>3, <1>5, Absolute
    <3> QED BY <1>7, <3>1
  <2>6. Decimal(e, a) = IF v < 0 THEN <<"-">> \o printnum((-v) % 2^LLBITS, 10, e.width, e.padc)
                        ELSE printnum(v, 10, e.width, e.padc)
    BY <2>3 DEF Decimal
  <2>7. Decimal(e, a) = t
    <3>1. CASE v < 0
      <4>1. Decimal(e, a) = <<"-">> \o printnum((-v) % 2^LLBITS, 10, e.width, e.padc)
        BY <2>6, <3>1
      <4> QED BY <1>8, <1>11, <2>2, <2>5, <3>1, <4>1
    <3>2. CASE ~(v < 0)
      <4>1. Decimal(e, a) = printnum(v, 10, e.width, e.padc) /\ num = v
        BY <1>7, <2>6, <3>2
      <4> QED BY <1>8, <1>11, <2>2, <3>2, <4>1
    <3> QED BY <3>1, <3>2
  <2> QED BY <2>1, <2>4, <2>7
<1>13. IsNumber(t, c)
  <2>1. Base(d.conv) = 10
    BY DEF Base
  <2>2. IsField(s, num, 10, d.width, IF d.flags = <<"0">> THEN "0" ELSE Space)
    BY <1>9, <1>10
  <2>3. CASE v < 0
    <3>1. IsField(Tail(t), -v, 10, d.width, IF d.flags = <<"0">> THEN "0" ELSE Space)
      BY <1>7, <1>11, <2>2, <2>3
    <3> QED BY <1>3, <1>5, <1>11, <2>3, <3>1 DEF IsNumber
  <2>4. CASE ~(v < 0)
    <3>1. IsField(t, v, Base(d.conv), d.width, IF d.flags = <<"0">> THEN "0" ELSE Space)
      BY <1>7, <1>11, <2>1, <2>2, <2>4
    <3> QED BY <1>3, <1>5, <2>4, <3>1 DEF IsNumber
  <2> QED BY <2>3, <2>4
<1>14. IsPrinted(t, c)
  BY <1>13 DEF IsPrinted
<1> QED BY <1>12, <1>14

(* %p. *)
LEMMA PointerShown ==
  ASSUME NEW c, NEW d, d = c.d, NEW a, a = c.a, DirectiveLegal(d, a), d.conv = "p"
  PROVE  \E t \in Seq(Chars) : Shows(d, a, t) /\ IsPrinted(t, c)
<1>1. PadOf(d) = IF d.flags = <<"0">> THEN "0" ELSE IF d.flags = <<"-">> THEN "-" ELSE Space
  BY DirectiveIs
<1>2. a \in Int /\ d.flags = <<>>
  BY DEF DirectiveLegal
<1>3. PadOf(d) = Space
  BY <1>2 DEF PadOf
<1>4. PICK num \in Nat : num = a % 2^INTBITS
  <2>1. PICK M \in Nat \ {0} : M = 2^INTBITS
    BY BitsAssumption, PowersOfTwo
  <2>2. a % M \in Nat
    BY <1>2
  <2> QED BY <2>1, <2>2
<1>5. PICK s : s = printnum(num, 16, WidthOf(d), PadOf(d))
  OBVIOUS
<1>6. s \in Seq(Chars) /\ IsField(s, num, 16, d.width, PadOf(d))
  <2>1. 16 \in 2..16
    OBVIOUS
  <2> QED BY <1>5, <2>1, FieldShown
<1>7. PICK b \in Seq(Chars) : b = <<"0", "x">> /\ Len(b) = 2
  <2>1. "0" \in Chars /\ "x" \in Chars
    BY CharsAre, Zenon
  <2>2. <<"0", "x">> \in Seq(Chars) /\ Len(<<"0", "x">>) = 2
    BY <2>1
  <2> QED BY <2>2
<1>8. PICK t \in Seq(Chars) : t = b \o s
  BY <1>6, ConcatProperties
<1>9. Shows(d, a, t)
  <2> SUFFICES ASSUME NEW at, NEW arg PROVE Convert(d.conv, StateOf(d, at, arg), a) = t
    BY DEF Shows
  <2>1. PICK e : e = StateOf(d, at, arg)
    OBVIOUS
  <2>2. e.width = WidthOf(d) /\ e.padc = PadOf(d)
    BY <2>1, StateIs
  <2>3. Convert(d.conv, e, a) = <<"0", "x">> \o printnum(a % 2^INTBITS, 16, e.width, e.padc)
    BY ConvertIs
  <2> QED BY <1>4, <1>5, <1>7, <1>8, <2>1, <2>2, <2>3
<1>10. SubSeq(t, 1, 2) = b /\ SubSeq(t, 3, Len(t)) = s
  <2> HIDE <1>7
  <2>1. SubSeq(b \o s, 1, Len(b)) = b
    BY <1>6, SubSeqOfConcat1, SubSeqFull
  <2>2. SubSeq(b \o s, Len(b) + 1, Len(b) + Len(s)) = s
    BY <1>6, SubSeqOfConcat2
  <2>3. Len(b) = 2
    BY <1>7
  <2>4. Len(t) = 2 + Len(s)
    <3>1. Len(b \o s) = Len(b) + Len(s)
      BY <1>6, Joined
    <3> QED BY <1>8, <2>3, <3>1
  <2> QED BY <1>8, <2>1, <2>2, <2>3, <2>4
<1>11. IsOther(t, c)
  <2>1. IsField(SubSeq(t, 3, Len(t)), a % 2^INTBITS, 16, d.width, Space)
    BY <1>3, <1>4, <1>6, <1>10
  <2>2. SubSeq(t, 1, 2) = <<"0", "x">>
    BY <1>7, <1>10
  <2> QED BY <2>1, <2>2 DEF IsOther
<1>12. IsPrinted(t, c)
  BY <1>11 DEF IsPrinted
<1> QED BY <1>9, <1>12

(* %c and %%. *)
LEMMA CharShown ==
  ASSUME NEW c, NEW d, d = c.d, NEW a, a = c.a, DirectiveLegal(d, a), d.conv \in {"c", "%"}
  PROVE  \E t \in Seq(Chars) : Shows(d, a, t) /\ IsPrinted(t, c)
<1>1. CASE d.conv = "c"
  <2>1. a \in Chars
    BY <1>1 DEF DirectiveLegal
  <2>2. PICK t \in Seq(Chars) : t = <<a>>
    <3>1. <<a>> \in Seq(Chars)
      BY <2>1
    <3> QED BY <3>1
  <2>3. Shows(d, a, t)
    BY <1>1, <2>2, ConvertIs DEF Shows
  <2>4. IsOther(t, c)
    BY <1>1, <2>2 DEF IsOther
  <2>5. IsPrinted(t, c)
    BY <1>1, <2>4 DEF IsPrinted
  <2> QED BY <2>3, <2>5
<1>2. CASE d.conv = "%"
  <2>2. PICK t \in Seq(Chars) : t = <<"%">>
    <3>1. "%" \in Chars
      BY CharsAre, Zenon
    <3>2. <<"%">> \in Seq(Chars)
      BY <3>1
    <3> QED BY <3>2
  <2>3. Shows(d, a, t)
    BY <1>2, <2>2, ConvertIs DEF Shows
  <2>4. IsOther(t, c)
    BY <1>2, <2>2 DEF IsOther
  <2>5. IsPrinted(t, c)
    BY <1>2, <2>4 DEF IsPrinted
  <2> QED BY <2>3, <2>5
<1> QED BY <1>1, <1>2

(* %e. *)
LEMMA ErrorShown ==
  ASSUME NEW c, NEW d, d = c.d, NEW a, a = c.a, DirectiveLegal(d, a), d.conv = "e"
  PROVE  \E t \in Seq(Chars) : Shows(d, a, t) /\ IsPrinted(t, c)
<1>1. a \in Ints(INTBITS) /\ a # -(2^(INTBITS - 1))
  BY DEF DirectiveLegal
<1>2. PICK h \in Nat \ {0} : h = 2^(INTBITS - 1)
  <2>1. INTBITS \in Nat \ {0}
    BY BitsAssumption
  <2> QED BY <2>1, Halves
<1>3. a \in Int /\ a \in (-h)..(h - 1) /\ a # -h /\ -a \in (-h)..(h - 1) /\ -a \in Int
  BY <1>1, <1>2 DEF Ints
<1>4. Signed(a, INTBITS) = a /\ Signed(-a, INTBITS) = -a
  <2>1. INTBITS \in Nat \ {0}
    BY BitsAssumption
  <2>2. -a \in Ints(INTBITS)
    BY <1>2, <1>3 DEF Ints
  <2>3. PICK b \in Int : b = -a
    BY <1>3
  <2>4. Signed(b, INTBITS) = b
    BY <2>1, <2>2, <2>3, SignedIs
  <2>5. Signed(a, INTBITS) = a
    BY <1>1, <1>3, <2>1, SignedIs
  <2> QED BY <2>3, <2>4, <2>5
<1>5. PICK n \in Nat : n = IF a < 0 THEN -a ELSE a
  BY <1>3
<1>6. Error(a) = IF n = 0 \/ n >= MAXERROR THEN <<"error">> \o printnum(n, 10, -1, Space)
                 ELSE <<"message", Digits[n + 1]>>
  BY <1>4, <1>5 DEF Error
<1>7. MAXERROR \in 0..16
  BY BitsAssumption
<1>8. Shows(d, a, Error(a))
  BY ConvertIs DEF Shows
<1>9. CASE n = 0 \/ n >= MAXERROR
  <2>1. PICK s : s = printnum(n, 10, -1, Space)
    OBVIOUS
  <2>2. s \in Seq(Chars) /\ IsField(s, n, 10, -1, Space)
    <3>1. PICK w \in Int, base \in 2..16 : w = -1 /\ base = 10
      <4>1. -1 \in Int /\ 10 \in 2..16
        OBVIOUS
      <4> QED BY <4>1
    <3>2. printnum(n, base, w, Space) \in Seq(Chars)
      BY PrintnumText, CharsAre
    <3>3. IsField(printnum(n, base, w, Space), n, base, w, Space)
      BY PrintnumField
    <3> QED BY <2>1, <3>1, <3>2, <3>3
  <2>3. PICK t \in Seq(Chars) : t = <<"error">> \o s /\ t # <<>> /\ t[1] = "error" /\ Tail(t) = s
    <3>1. "error" \in Chars
      BY CharsAre, Zenon
    <3> QED BY <2>2, <3>1, OneInFront
  <2>4. t = Error(a)
    BY <1>6, <1>9, <2>1, <2>3
  <2>5. n \notin 1..(MAXERROR - 1)
    BY <1>7, <1>9
  <2>6. IsField(Tail(t), n, 10, -1, Space)
    BY <2>2, <2>3
  <2>7. IsError(t, a)
    BY <1>5, <2>3, <2>5, <2>6 DEF IsError
  <2>8. IsPrinted(t, c)
    BY <2>7 DEF IsPrinted, IsOther
  <2> QED BY <1>8, <2>4, <2>8
<1>10. CASE ~(n = 0 \/ n >= MAXERROR)
  <2>1. n \in 1..(MAXERROR - 1) /\ n \in 0..15
    BY <1>7, <1>10
  <2>2. "message" \in Chars /\ Digits[n + 1] \in Chars
    <3>1. Digits[n + 1] \in DigitChars /\ DigitChars \subseteq Chars
      BY <2>1, DigitsAre
    <3>2. "message" \in Chars
      BY CharsAre, Zenon
    <3> QED BY <3>1, <3>2
  <2>3. PICK t \in Seq(Chars) : t = <<"message", Digits[n + 1]>>
    <3>1. <<"message", Digits[n + 1]>> \in Seq(Chars)
      BY <2>2
    <3> QED BY <3>1
  <2>4. t = Error(a)
    BY <1>6, <1>10, <2>3
  <2>5. IsError(t, a)
    BY <1>5, <2>1, <2>3 DEF IsError
  <2>6. IsPrinted(t, c)
    BY <2>5 DEF IsPrinted, IsOther
  <2> QED BY <1>8, <2>4, <2>6
<1> QED BY <1>9, <1>10

(* %s, with its width, its precision and its padding. *)
LEMMA StringShown ==
  ASSUME NEW c, NEW d, d = c.d, NEW a, a = c.a, DirectiveLegal(d, a), d.conv = "s"
  PROVE  \E t \in Seq(Chars) : Shows(d, a, t) /\ IsPrinted(t, c)
<1>1. /\ d.width \in {-1} \union 1..9 /\ d.precision \in {-1} \union 1..9
      /\ d.flags \in {<<>>, <<"0">>, <<"-">>}
      /\ WidthOf(d) \in Int /\ (WidthOf(d) = d.width \/ (WidthOf(d) = 0 /\ d.width = -1))
      /\ PadOf(d) = (IF d.flags = <<"0">> THEN "0" ELSE IF d.flags = <<"-">> THEN "-" ELSE Space)
      /\ PadOf(d) \in Chars
  BY DirectiveIs
<1>2. a \in Seq(Chars) \union {NullString}
  BY DEF DirectiveLegal
<1>3. PICK p : p = Shown(a)
  OBVIOUS
<1>4. PICK n : n = Cut(d.precision, a)
  OBVIOUS
<1>5. PICK text : text = SubSeq(p, 1, n)
  OBVIOUS
<1>6. /\ p \in Seq(Chars) /\ n \in 0..Len(p) /\ Len(p) \in Nat /\ text \in Seq(Chars)
      /\ n = IF d.precision = -1 \/ Len(p) < d.precision THEN Len(p) ELSE d.precision
  <2>1. d.precision \in Int
    BY <1>1
  <2>2. p \in Seq(Chars) /\ n \in 0..Len(p) /\ text \in Seq(Chars)
    BY <1>2, <1>3, <1>4, <1>5, <2>1, ShownType
  <2>3. n = IF d.precision < 0 \/ Len(p) < d.precision THEN Len(p) ELSE d.precision
    BY <1>3, <1>4 DEF Cut
  <2>4. (d.precision < 0) <=> d.precision = -1
    BY <1>1
  <2> QED BY <2>2, <2>3, <2>4
<1>7. PICK k : k = Max2(d.width - n, 0)
  OBVIOUS
<1>8. k \in Nat /\ \A ch : Repeat(ch, WidthOf(d) - n) = Repeat(ch, k)
  <2>1. k \in Nat /\ (WidthOf(d) - n <= 0 => k = 0) /\ (~(WidthOf(d) - n <= 0) => k = WidthOf(d) - n)
    BY <1>1, <1>6, <1>7 DEF Max2
  <2> QED BY <2>1 DEF Repeat
<1>9. WidthOf(d) <= 0 => k = 0
  BY <1>1, <1>6, <1>7 DEF Max2
<1>10. PICK t : t = IF d.flags = <<"-">> THEN text \o Repeat(Space, k)
                    ELSE Repeat(IF d.flags = <<"0">> THEN "0" ELSE Space, k) \o text
  OBVIOUS
<1>11. Space # "-" /\ "0" # "-" /\ <<"-">> # <<"0">>
  <2>1. Space # "-"
    BY DEF Space
  <2>2. <<"0">>[1] = "0" /\ <<"-">>[1] = "-" /\ "0" # "-"
    OBVIOUS
  <2> QED BY <2>1, <2>2
<1>12. \A ch \in Chars : Repeat(ch, k) \in Seq(Chars)
  <2> TAKE ch \in Chars
  <2> QED BY <1>8, RepeatIs
<1>13. t \in Seq(Chars)
  <2>1. Space \in Chars /\ "0" \in Chars
    BY CharsAre, Zenon
  <2>2. Repeat(Space, k) \in Seq(Chars) /\ Repeat("0", k) \in Seq(Chars)
    BY <1>12, <2>1
  <2>3. text \o Repeat(Space, k) \in Seq(Chars) /\ Repeat(Space, k) \o text \in Seq(Chars)
        /\ Repeat("0", k) \o text \in Seq(Chars)
    BY <1>6, <2>2, ConcatProperties
  <2> QED BY <1>10, <2>3
<1>14. WidthOf(d) <= 0 => \A ch : text \o Repeat(ch, k) = text /\ Repeat(ch, k) \o text = text
  <2> HAVE WidthOf(d) <= 0
  <2> TAKE ch
  <2>1. Repeat(ch, k) = <<>>
    BY <1>9 DEF Repeat
  <2>2. text \o <<>> = text /\ <<>> \o text = text
    BY <1>6, ConcatEmptySeq
  <2> QED BY <2>1, <2>2
<1>15. Shows(d, a, t)
  <2> SUFFICES ASSUME NEW at, NEW arg PROVE Convert(d.conv, StateOf(d, at, arg), a) = t
    BY DEF Shows
  <2>1. PICK e : e = StateOf(d, at, arg)
    OBVIOUS
  <2>2. e.width = WidthOf(d) /\ e.padc = PadOf(d) /\ e.precision = d.precision /\ ~e.altflag
    BY <2>1, StateIs
  <2>3. Convert(d.conv, e, a) = String(e, a)
    BY ConvertIs
  <2>4. e.width \in Int /\ e.precision \in Int
    BY <1>1, <2>2
  <2>5. String(e, a) =
          IF e.width > 0 /\ e.padc # "-"
          THEN Repeat(e.padc, e.width - Cut(e.precision, a)) \o SubSeq(Shown(a), 1, Cut(e.precision, a))
          ELSE SubSeq(Shown(a), 1, Cut(e.precision, a)) \o Repeat(Space, e.width - Cut(e.precision, a))
    BY <1>2, <2>2, <2>4, StringIs
  <2>6. String(e, a) = IF WidthOf(d) > 0 /\ PadOf(d) # "-" THEN Repeat(PadOf(d), k) \o text
                       ELSE text \o Repeat(Space, k)
    BY <1>3, <1>4, <1>5, <1>8, <2>2, <2>5
  <2>7. CASE WidthOf(d) <= 0
    <3>1. String(e, a) = text
      BY <1>1, <1>14, <2>6, <2>7
    <3>2. t = text
      BY <1>10, <1>14, <2>7
    <3> QED BY <2>1, <2>3, <3>1, <3>2
  <2>8. CASE WidthOf(d) > 0 /\ d.flags = <<"-">>
    <3>1. PadOf(d) = "-"
      BY <1>1, <1>11, <2>8
    <3> QED BY <1>10, <2>1, <2>3, <2>6, <2>8, <3>1
  <2>9. CASE WidthOf(d) > 0 /\ d.flags # <<"-">>
    <3>1. PadOf(d) # "-" /\ PadOf(d) = IF d.flags = <<"0">> THEN "0" ELSE Space
      BY <1>1, <1>11, <2>9
    <3> QED BY <1>10, <2>1, <2>3, <2>6, <2>9, <3>1
  <2> QED BY <1>1, <2>7, <2>8, <2>9
<1>16. IsString(t, c)
  BY <1>3, <1>5, <1>6, <1>7, <1>10 DEF IsString, Shown
<1>17. IsPrinted(t, c)
  BY <1>16 DEF IsPrinted
<1> QED BY <1>13, <1>15, <1>17

(* So every conversion prints what it must. *)
LEMMA PrintfShown ==
  ASSUME NEW c, DirectiveLegal(c.d, c.a)
  PROVE  \E t \in Seq(Chars) : Shows(c.d, c.a, t) /\ IsPrinted(t, c)
<1>1. PICK d, a : d = c.d /\ a = c.a
  OBVIOUS
<1>2. DirectiveLegal(d, a)
  BY <1>1
<1>3. d.conv \in Conversions
  BY <1>2 DEF DirectiveLegal
<1>4. CASE d.conv \in {"u", "o", "x"}
  BY <1>1, <1>2, <1>4, UnsignedShown
<1>5. CASE d.conv = "d"
  BY <1>1, <1>2, <1>5, SignedShown
<1>6. CASE d.conv = "p"
  BY <1>1, <1>2, <1>6, PointerShown
<1>7. CASE d.conv \in {"c", "%"}
  BY <1>1, <1>2, <1>7, CharShown
<1>8. CASE d.conv = "e"
  BY <1>1, <1>2, <1>8, ErrorShown
<1>9. CASE d.conv = "s"
  BY <1>1, <1>2, <1>9, StringShown
<1> QED BY <1>3, <1>4, <1>5, <1>6, <1>7, <1>8, <1>9 DEF Conversions

(* cprintf() prints what vprintfmt() passes to it. *)
LEMMA PrintedIs ==
  ASSUME NEW fmt, NEW args, NEW text \in Seq(Chars), vprintfmt(fmt, args) = text
  PROVE  cprintf(fmt, args).printed = text
BY PutIs DEF cprintf

(* A text, and the 'z' behind it. *)
LEMMA BehindText ==
  ASSUME NEW t \in Seq(Chars), NEW s, s = t \o <<"z">>
  PROVE  s \in Seq(Chars) /\ s[Len(s)] = "z" /\ SubSeq(s, 1, Len(s) - 1) = t
<1>1. PICK b \in Seq(Chars) : b = <<"z">> /\ Len(b) = 1 /\ b[1] = "z"
  <2>1. "z" \in Chars
    BY CharsAre, Zenon
  <2>2. <<"z">> \in Seq(Chars)
    BY <2>1
  <2>3. Len(<<"z">>) = 1 /\ <<"z">>[1] = "z"
    OBVIOUS
  <2> QED BY <2>2, <2>3
<1>2. s = t \o b
  BY <1>1
<1>3. s \in Seq(Chars) /\ Len(s) = Len(t) + Len(b) /\ Stands(b, s, Len(t))
  <2> HIDE <1>1
  <2> QED BY <1>2, Joined
<1>4. Len(s) = Len(t) + 1 /\ Len(t) \in Nat /\ Len(s) - 1 = Len(t)
  BY <1>1, <1>3
<1>5. s[Len(s)] = "z"
  <2>1. 1 \in 1..Len(b)
    BY <1>1
  <2>2. s[Len(t) + 1] = b[1]
    BY <1>3, <2>1 DEF Stands
  <2> QED BY <1>1, <1>4, <2>2
<1>6. SubSeq(t \o b, 1, Len(t)) = t
  <2> HIDE <1>1
  <2> QED BY SubSeqOfConcat1, SubSeqFull
<1> QED BY <1>2, <1>3, <1>4, <1>5, <1>6

(* cprintf() keeps its promise. *)
LEMMA CallsFormatted ==
  ASSUME Returned
  PROVE  Formatted
<1> SUFFICES ASSUME done PROVE Formatted
  BY DEF Formatted, Did
<1> DEFINE c == call
<1>1. Legal(c) /\ result = Do(c)
  BY CallsAssumption DEF Returned
<1>2. ASSUME c.op = "malformed"
      PROVE  result = <<"%">> \o c.text
  <2>1. c.text \in Seq(Chars \ Conversions) /\ Len(c.text) <= 3
    BY <1>1, <1>2 DEF Legal
  <2>2. result = cprintf(<<"%">> \o c.text, <<1, 2, 3>>).printed
    BY <1>1, <1>2 DEF Do
  <2>3. vprintfmt(<<"%">> \o c.text, <<1, 2, 3>>) = <<"%">> \o c.text
    BY <2>1, Unrecognized
  <2>4. <<"%">> \o c.text \in Seq(Chars)
    <3>1. c.text \in Seq(Chars)
      BY <2>1
    <3>2. "%" \in Chars
      BY CharsAre, Zenon
    <3> QED BY <3>1, <3>2, OneInFront
  <2> QED BY <2>2, <2>3, <2>4, PrintedIs
<1>3. ASSUME c.op = "printf"
      PROVE  result[Len(result)] = "z" /\ IsPrinted(SubSeq(result, 1, Len(result) - 1), c)
  <2>1. DirectiveLegal(c.d, c.a) /\ c.star \in BOOLEAN
    BY <1>1, <1>3 DEF Legal
  <2>2. result = cprintf(Written(c.d, c.star) \o <<"z">>, Passed(c.d, c.star, c.a)).printed
    BY <1>1, <1>3 DEF Do
  <2>3. PICK t \in Seq(Chars) : Shows(c.d, c.a, t) /\ IsPrinted(t, c)
    BY <2>1, PrintfShown
  <2>4. vprintfmt(Written(c.d, c.star) \o <<"z">>, Passed(c.d, c.star, c.a)) = t \o <<"z">>
    BY <2>1, <2>3, PrintfIs
  <2>5. PICK s : s = t \o <<"z">>
    OBVIOUS
  <2>6. s \in Seq(Chars) /\ s[Len(s)] = "z" /\ SubSeq(s, 1, Len(s) - 1) = t
    BY <2>5, BehindText
  <2>7. result = s
    BY <2>2, <2>4, <2>5, <2>6, PrintedIs
  <2> QED BY <2>3, <2>6, <2>7
<1> QED BY <1>2, <1>3 DEF Formatted, Did, IsPrinted

(* cprintf() prints what the directive says: each conversion with every argument of
   the type it names, a width and a precision of one digit in the text or from the arguments,
   with the flags that pad and with any number of l's; it goes on behind the
   directive, and prints an escape that it does not know literally. *)
THEOREM FormattedCorrect == Spec => []Formatted
BY ReturnedInvariant, CallsFormatted, PTL
===============================================================================
