------------------------------- MODULE StringLib ------------------------------
(***************************************************************************)
(* lib/string.c: memory as a function from addresses to bytes, pointers as *)
(* addresses.  A function that changes memory returns the new one.         *)
(***************************************************************************)
EXTENDS Loops

CONSTANTS
  WORD,   \* bytes that stosl and movsl store at once (4)
  BYTE    \* values of a byte (256)

ASSUME ByteAssumption == WORD \in Nat \ {0} /\ BYTE \in Nat \ {0, 1}

Unbounded == 2147483647

strnlen(m, s, size) == Turns(size, [i \in Within(size) |-> m[s + i] # 0])

strlen(m, s) == strnlen(m, s, Unbounded)

(* The loop of strncpy() after each of its turns; those of strcpy() and strlcpy()
   do the same up to the end of the string. *)
Copying(m, dst, src) ==
  Iterated([b \in [mem : [DOMAIN m -> Int], dst : Int, src : Int] |->
              [mem |-> [b.mem EXCEPT ![b.dst] = b.mem[b.src]], dst |-> b.dst + 1,
               src |-> IF b.mem[b.src] = 0 THEN b.src ELSE b.src + 1]],
           [mem |-> m, dst |-> dst, src |-> src])

(* How many bytes are copied before the one that ends the string, size at most. *)
Copied(m, dst, src, size) ==
  LET at == Copying(m, dst, src)
  IN  Turns(size, [i \in Within(size) |-> at[i].mem[at[i].src] # 0])

strcpy(m, dst, src) == Copying(m, dst, src)[Copied(m, dst, src, Unbounded) + 1].mem

strcat(m, dst, src) == strcpy(m, dst + strlen(m, dst), src)

strncpy(m, dst, src, size) == Copying(m, dst, src)[size].mem

strlcpy(m, dst, src, size) ==
  LET b == Copying(m, dst, src)[Copied(m, dst, src, size - 1)]
  IN  IF size = 0 THEN [mem |-> m, end |-> dst]
      ELSE [mem |-> [b.mem EXCEPT ![b.dst] = 0], end |-> b.dst]

(* The bytes of two strings that are passed over, n at most. *)
Same(m, p, q, n) == Turns(n, [i \in Within(n) |-> m[p + i] # 0 /\ m[p + i] = m[q + i]])

strcmp(m, p, q) == LET k == Same(m, p, q, Unbounded) IN m[p + k] - m[q + k]

strncmp(m, p, q, n) ==
  LET k == Same(m, p, q, n) IN IF k = n THEN 0 ELSE m[p + k] - m[q + k]

memcmp(m, p, q, n) ==
  LET k == Turns(n, [i \in Within(n) |-> m[p + i] = m[q + i]])
  IN  IF k = n THEN 0 ELSE m[p + k] - m[q + k]

strfind(m, s, c) ==
  s + Turns(Unbounded, [i \in Within(Unbounded) |-> m[s + i] # 0 /\ m[s + i] # c])

NULL == -1

strchr(m, s, c) == LET p == strfind(m, s, c) IN IF m[p] = 0 THEN NULL ELSE p

(* c is an int, of which the low byte is looked for. *)
memfind(m, s, c, n) == s + Turns(n, [i \in Within(n) |-> m[s + i] # c % BYTE])

-----------------------------------------------------------------------------
(* rep movsb, or movsl, forwards or backwards: step is the direction and width. *)
Movs(m, d, s, count, step) ==
  LET w == IF step < 0 THEN -step ELSE step
  IN  Iterated([b \in [mem : [DOMAIN m -> Int], d : Int, s : Int] |->
                  [mem |-> [a \in DOMAIN m |-> IF a \in b.d..(b.d + w - 1) THEN b.mem[b.s + a - b.d]
                                               ELSE b.mem[a]],
                   d |-> b.d + step, s |-> b.s + step]],
               [mem |-> m, d |-> d, s |-> s])[count].mem

(* Mutant of LastOf: the address behind the last byte, as in the loop that
   decrements it first. *)
LastOfEnd(p, n, w) == p + n - 1

(* Where a copy that runs backwards starts. *)
LastOf(p, n, w) == p + n - w

(* In the backward case the alignment of the ends is tested, which is the same. *)
memmove(m, dst, src, n) ==
  LET w == IF dst % WORD = 0 /\ src % WORD = 0 /\ n % WORD = 0 THEN WORD ELSE 1
  IN  IF src < dst /\ src + n > dst
      THEN Movs(m, LastOf(dst, n, w), LastOf(src, n, w), n \div w, -w)
      ELSE Movs(m, dst, src, n \div w, w)

memcpy(m, dst, src, n) == memmove(m, dst, src, n)

(* A word of the byte c all over, and byte k of a word, the lowest first. *)
Replicated(c) == Iterated([word \in Nat |-> c + BYTE * word], 0)[WORD]
ByteOf(word, k) == Iterated([high \in Nat |-> high \div BYTE], word)[k] % BYTE

(* rep stosl *)
Stosl(m, d, word, count) ==
  [a \in DOMAIN m |-> IF a \in d..(d + count * WORD - 1) THEN ByteOf(word, (a - d) % WORD)
                      ELSE m[a]]

memset(m, v, c, n) ==
  IF v % WORD = 0 /\ n % WORD = 0 THEN Stosl(m, v, Replicated(c % BYTE), n \div WORD)
  ELSE [a \in DOMAIN m |-> IF a \in v..(v + n - 1) THEN c % BYTE ELSE m[a]]
===============================================================================
