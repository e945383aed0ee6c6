-------------------------------- MODULE StabLoop ------------------------------
(***************************************************************************)
(* stab_binsearch() of kern/kdebug.c, one action per turn of its loop.     *)
(* The callers set up the state (StabSearch: any call; DebugInfo: the      *)
(* calls of debuginfo_eip).  Some entries of the table have the type that  *)
(* is looked for, with increasing n_value; the others are in between.      *)
(***************************************************************************)
EXTENDS Integers

VARIABLES
  stabs,                      \* the table: a function on 0..N-1
  type, addr,                 \* parameters; addr is changed by the code
  region_left, region_right,  \* in-out parameters
  l, r, any_matches,          \* locals
  searching                   \* FALSE once the call has returned

searchVars == <<type, addr, region_left, region_right, l, r, any_matches, searching>>

true_m == (l + r) \div 2

Matches(m) == stabs[m].n_type = type

(* The inner loop stops at m: the nearest stab of the type at or below true_m. *)
StopsAt(m) == Matches(m) /\ \A k \in (m + 1)..true_m : ~Matches(k)

(* Mutant of NoMatch: one entry is passed over unseen. *)
NoMatchSkips ==
  /\ searching /\ l <= r
  /\ \A k \in l..true_m : ~Matches(k)
  /\ l' = true_m + 2
  /\ UNCHANGED <<stabs, type, addr, region_left, region_right, r, any_matches, searching>>

NoMatch ==
  /\ searching /\ l <= r
  /\ \A k \in l..true_m : ~Matches(k)
  /\ l' = true_m + 1
  /\ UNCHANGED <<stabs, type, addr, region_left, region_right, r, any_matches, searching>>

(* Mutant of Below: the search goes on above m and not above true_m, so a
   turn may change nothing. *)
BelowStays(m) ==
  /\ searching /\ l <= r /\ StopsAt(m) /\ stabs[m].n_value < addr
  /\ region_left' = m /\ l' = m /\ any_matches' = TRUE
  /\ UNCHANGED <<stabs, type, addr, region_right, r, searching>>

Below(m) ==
  /\ searching /\ l <= r /\ StopsAt(m) /\ stabs[m].n_value < addr
  /\ region_left' = m /\ l' = true_m + 1 /\ any_matches' = TRUE
  /\ UNCHANGED <<stabs, type, addr, region_right, r, searching>>

(* Mutant of Above: the stab above addr stays in the region. *)
AboveKept(m) ==
  /\ searching /\ l <= r /\ StopsAt(m) /\ stabs[m].n_value > addr
  /\ region_right' = m /\ r' = m - 1 /\ any_matches' = TRUE
  /\ UNCHANGED <<stabs, type, addr, region_left, l, searching>>

Above(m) ==
  /\ searching /\ l <= r /\ StopsAt(m) /\ stabs[m].n_value > addr
  /\ region_right' = m - 1 /\ r' = m - 1 /\ any_matches' = TRUE
  /\ UNCHANGED <<stabs, type, addr, region_left, l, searching>>

(* An exact match goes on looking for the right end, one address further. *)
Exact(m) ==
  /\ searching /\ l <= r /\ StopsAt(m) /\ stabs[m].n_value = addr
  /\ region_left' = m /\ l' = m /\ any_matches' = TRUE /\ addr' = addr + 1
  /\ UNCHANGED <<stabs, type, region_right, r, searching>>

(* Where the last loop stops: the rightmost stab of the type in the region,
   or its left end; it starts at the right end even if that is below. *)
Rightmost ==
  IF region_right <= region_left THEN region_right
  ELSE CHOOSE k \in region_left..region_right :
         /\ k = region_left \/ Matches(k)
         /\ \A j \in (k + 1)..region_right : ~Matches(j)

Return ==
  /\ searching /\ l > r
  /\ searching' = FALSE
  /\ IF any_matches
     THEN region_left' = Rightmost /\ UNCHANGED region_right
     ELSE region_right' = region_left - 1 /\ UNCHANGED region_left
  /\ UNCHANGED <<stabs, type, addr, l, r, any_matches>>

Search ==
  \/ NoMatch
  \/ \E m \in l..true_m : Below(m) \/ Above(m) \/ Exact(m)
  \/ Return
===============================================================================
