------------------------------- MODULE StabSearch -----------------------------
(***************************************************************************)
(* Any call of stab_binsearch() of kern/kdebug.c: any table whose stabs of *)
(* the type are arranged in increasing order, any part of it, any address. *)
(***************************************************************************)
EXTENDS StabLoop

CONSTANTS
  Tables,   \* the tables that are searched
  Addrs     \* the addresses that are looked up

ASSUME TableAssumption ==
  \A t \in Tables : DOMAIN t \subseteq Int /\ \A k \in DOMAIN t : t[k].n_value \in Int
ASSUME AddrAssumption == Addrs \subseteq Int

VARIABLES
  first, last,   \* history: the region that was passed in
  sought         \* history: the address that was passed in

callVars == <<stabs, searchVars, first, last, sought>>

Region == first..last

(* kdebug.c:18: "Some stab types are arranged in increasing order". *)
Sorted ==
  \A j, k \in Region :
    Matches(j) /\ Matches(k) /\ j < k => stabs[j].n_value <= stabs[k].n_value

SearchInit ==
  /\ stabs \in Tables
  /\ first \in DOMAIN stabs /\ last \in DOMAIN stabs /\ first <= last
  /\ Region \subseteq DOMAIN stabs
  /\ type \in {stabs[k].n_type : k \in Region} /\ Sorted
  /\ sought \in Addrs /\ addr = sought
  /\ region_left = first /\ region_right = last
  /\ l = first /\ r = last /\ any_matches = FALSE /\ searching = TRUE

SearchNext == Search /\ UNCHANGED <<first, last, sought>>

SearchSpec == SearchInit /\ [][SearchNext]_callVars

-----------------------------------------------------------------------------
(* Types; l and r bound every index used, so the table is never read outside
   the region. *)
SearchTypeOK ==
  /\ stabs \in Tables /\ Region \subseteq DOMAIN stabs
  /\ sought \in Int /\ addr \in Int
  /\ first \in Int /\ last \in Int /\ first <= last + 1
  /\ l \in first..(last + 1) /\ r \in (first - 1)..last
  /\ region_left \in (first - 1)..(last + 1) /\ region_right \in (first - 1)..last
  /\ any_matches \in BOOLEAN /\ searching \in BOOLEAN

(* An exact match makes the search look one address further: what follows is
   about the regions that have no stab of the type there. *)
NoNeighbour ==
  ~ \E j, k \in Region : /\ Matches(j) /\ stabs[j].n_value = sought
                         /\ Matches(k) /\ stabs[k].n_value = sought + 1

(* The stabs of the region that start at or before the address. *)
Candidates == {k \in Region : Matches(k) /\ stabs[k].n_value <= sought}

(* kdebug.c:30-34.  When some stab of the type starts at or before the address
   the search ends at the last such one, and just before the next stab of the
   type; when there is none it stays at the left end, if that is of another type,
   and when there is no stab of the type at all the region is empty. *)
FindsStab ==
  ~searching =>
    /\ NoNeighbour /\ Candidates # {} =>
         /\ region_left \in Candidates /\ region_left <= region_right
         /\ \A k \in Candidates : k <= region_left
         /\ \A k \in (region_left + 1)..region_right : ~Matches(k)
         /\ region_right < last => Matches(region_right + 1)
    /\ NoNeighbour /\ Candidates = {} /\ first \in Region /\ ~Matches(first) => region_left = first
    /\ (\A k \in Region : ~Matches(k)) => region_left > region_right

(* kdebug.c:31: ... "that contains 'addr'", so it does not start above it. *)
StartsBelow ==
  ~searching /\ region_left <= region_right /\ region_left \in Region /\ Matches(region_left) =>
    stabs[region_left].n_value <= sought
===============================================================================
