---------------------------- MODULE DebugInfoProofs ----------------------------
(***************************************************************************)
(* Proof that stab_binsearch() finds what it should in every table, at     *)
(* every address that has no stab of the type just behind its own, and     *)
(* that debuginfo_eip() tells of every address what a table as the linker  *)
(* makes it says.                                                          *)
(***************************************************************************)
EXTENDS DebugInfo, FiniteSetTheorems, TLAPS

(* Before the search returns: everything left of l is below addr, everything
   right of r is above the address sought, region_left is the last stab of
   the type left of l, if there is one, and region_right is r. *)
LeftOfL == \A k \in first..(l - 1) : Matches(k) => stabs[k].n_value < addr

RightOfR ==
  /\ \A k \in (r + 1)..last : Matches(k) => stabs[k].n_value > sought
  /\ r < last => Matches(r + 1)

LeftIsLast ==
  /\ region_left <= l /\ region_left \in first..last
  /\ \A k \in (region_left + 1)..(l - 1) : ~Matches(k)
  /\ \/ region_left = first /\ \A k \in first..(l - 1) : ~Matches(k)
     \/ Matches(region_left) /\ stabs[region_left].n_value < addr

AddrMoved ==
  /\ addr >= sought
  /\ NoNeighbour => \/ addr = sought
                    \/ /\ addr = sought + 1
                       /\ \E k \in Region : Matches(k) /\ stabs[k].n_value = sought

Untouched ==
  ~any_matches => /\ region_left = first
                  /\ \A k \in first..(l - 1) : ~Matches(k)
                  /\ r = last

MatchSeen == any_matches => \E k \in Region : Matches(k)

SearchInv ==
  /\ MatchSeen
  /\ searching => /\ LeftOfL /\ RightOfR /\ LeftIsLast
                  /\ AddrMoved /\ Untouched /\ region_right = r

CallOK == first <= last /\ Sorted

Typed == SearchTypeOK /\ CallOK

Inv == Typed /\ SearchInv /\ FindsStab

(* What the assumption on the tables says of the current one. *)
LEMMA TableFacts ==
  ASSUME Typed
  PROVE  /\ first \in Int /\ last \in Int /\ first <= last
         /\ \A k \in Region : stabs[k].n_value \in Int
         /\ \A j, k \in Region : Matches(j) /\ Matches(k) /\ j <= k => stabs[j].n_value <= stabs[k].n_value
<1>1. first \in Int /\ last \in Int /\ first <= last
  BY DEF Typed, SearchTypeOK, CallOK
<1>2. \A k \in Region : stabs[k].n_value \in Int
  BY TableAssumption DEF Typed, SearchTypeOK
<1>3. ASSUME NEW j \in Region, NEW k \in Region, Matches(j), Matches(k), j <= k
      PROVE  stabs[j].n_value <= stabs[k].n_value
  <2>1. CASE j = k
    BY <2>1, <1>2
  <2>2. CASE j < k
    BY <2>2, <1>3 DEF Typed, CallOK, Sorted
  <2> QED
    BY <1>1, <1>3, <2>1, <2>2 DEF Region
<1> QED
  BY <1>1, <1>2, <1>3

(* An integer range splits at any point. *)
LEMMA RangeSplits ==
  ASSUME NEW a \in Int, NEW b \in Int, NEW c \in Int
  PROVE  \A k \in a..(c - 1) : k \in a..(b - 1) \/ k \in b..(c - 1)
OBVIOUS

(* l and r as integers, and true_m between them. *)
LEMMA LoopFacts ==
  ASSUME Typed
  PROVE  /\ l \in Int /\ r \in Int /\ first <= l /\ l <= last + 1 /\ first - 1 <= r /\ r <= last
         /\ addr \in Int /\ sought \in Int
         /\ l <= r => true_m \in Int /\ l <= true_m /\ true_m <= r
<1>1. /\ l \in Int /\ r \in Int /\ first <= l /\ l <= last + 1 /\ first - 1 <= r /\ r <= last
      /\ addr \in Int /\ sought \in Int
  BY TableFacts DEF Typed, SearchTypeOK
<1> QED
  BY <1>1, TableFacts DEF true_m

(* The search begins with its invariant, whatever the call. *)
Started ==
  /\ stabs \in Tables /\ Region \subseteq DOMAIN stabs /\ Sorted
  /\ first \in Int /\ last \in Int /\ first <= last
  /\ sought \in Int /\ addr = sought
  /\ region_left = first /\ region_right = last
  /\ l = first /\ r = last /\ any_matches = FALSE /\ searching = TRUE

LEMMA StartInv == Started => Inv
<1> SUFFICES ASSUME Started PROVE Inv
  OBVIOUS
<1>1. Typed
  <2>1. first \in Int /\ last \in Int /\ first <= last
    BY DEF Started
  <2>2. /\ first \in first..(last + 1) /\ last \in (first - 1)..last
        /\ first \in (first - 1)..(last + 1) /\ first <= last + 1
    BY <2>1
  <2>3. sought \in Int /\ addr \in Int
    BY DEF Started
  <2> QED
    BY <2>1, <2>2, <2>3 DEF Started, Typed, SearchTypeOK, CallOK
<1>2. SearchInv
  BY <1>1, TableFacts, LoopFacts
     DEF Started, SearchInv, LeftOfL, RightOfR, LeftIsLast, AddrMoved, Untouched, MatchSeen
<1> QED
  BY <1>1, <1>2 DEF Inv, FindsStab, Started

LEMMA InitInv == SearchInit => Inv
<1> SUFFICES ASSUME SearchInit PROVE Inv
  OBVIOUS
<1>1. first \in Int /\ last \in Int /\ first <= last /\ sought \in Int
  BY TableAssumption, AddrAssumption DEF SearchInit
<1> QED
  BY <1>1, StartInv DEF SearchInit, Started

-----------------------------------------------------------------------------
(* One lemma per kind of turn of the loop. *)
Kept == UNCHANGED <<stabs, type, first, last, sought>>

(* The table and the call stay what they are. *)
LEMMA CallKept ==
  ASSUME Typed, Kept
  PROVE  /\ CallOK' /\ stabs' \in Tables /\ Region' \subseteq DOMAIN stabs'
         /\ sought' \in Int /\ first' \in Int /\ last' \in Int /\ first' <= last' + 1
BY DEF Typed, CallOK, SearchTypeOK, Sorted, Matches, Region, Kept

LEMMA NoMatchInv ==
  ASSUME Inv, NoMatch, Kept
  PROVE  Typed' /\ SearchInv'
<1>0. Typed /\ SearchInv /\ searching
  BY DEF Inv, NoMatch
<1>1. Typed'
  BY <1>0, LoopFacts, TableFacts, CallKept DEF Typed, SearchTypeOK, NoMatch, Kept
<1>2. \A k \in l..(l' - 1) : ~Matches(k)
  BY <1>0, LoopFacts DEF NoMatch
<1>3. l' \in Int /\ l < l'
  BY <1>0, LoopFacts DEF NoMatch
<1>4. LeftOfL'
  BY <1>0, <1>2, <1>3, LoopFacts DEF SearchInv, LeftOfL, NoMatch, Kept, Matches
<1>5. RightOfR' /\ AddrMoved'
  BY <1>0 DEF SearchInv, RightOfR, AddrMoved, NoMatch, Kept, Matches, NoNeighbour, Region
<1>6. LeftIsLast' /\ Untouched'
  <2>0. /\ region_left \in Int
        /\ \A k \in (region_left + 1)..(l - 1) : ~Matches(k)
    BY <1>0, TableFacts DEF SearchInv, LeftIsLast
  <2>1. \A k \in (region_left + 1)..(l' - 1) : ~Matches(k)
    <3>1. \A k \in (region_left + 1)..(l' - 1) :
            k \in (region_left + 1)..(l - 1) \/ k \in l..(l' - 1)
      <4>1. region_left + 1 \in Int /\ l \in Int
        BY <1>0, <2>0, LoopFacts
      <4> QED
        BY <1>3, <4>1, RangeSplits
    <3> QED
      BY <1>2, <2>0, <3>1
  <2>2. ASSUME \A k \in first..(l - 1) : ~Matches(k), NEW k \in first..(l' - 1)
        PROVE  ~Matches(k)
    <3>1. k \in first..(l - 1) \/ k \in l..(l' - 1)
      BY <1>0, <1>3, LoopFacts, TableFacts, RangeSplits
    <3> QED
      BY <1>2, <2>2, <3>1
  <2> QED
    BY <1>0, <1>3, <2>1, <2>2, LoopFacts, TableFacts
       DEF SearchInv, LeftIsLast, Untouched, NoMatch, Kept, Matches
<1>7. MatchSeen'
  BY <1>0 DEF SearchInv, MatchSeen, NoMatch, Kept, Matches, Region
<1> QED
  BY <1>0, <1>1, <1>4, <1>5, <1>6, <1>7 DEF SearchInv, NoMatch

LEMMA BelowInv ==
  ASSUME Inv, NEW m \in l..true_m, Below(m), Kept
  PROVE  Typed' /\ SearchInv'
<1>0. Typed /\ SearchInv /\ searching /\ l <= r
  BY DEF Inv, Below
<1>1. m \in Region /\ m \in Int /\ l <= m /\ m <= true_m /\ Matches(m) /\ stabs[m].n_value < addr
  BY <1>0, LoopFacts, TableFacts DEF Below, StopsAt, Region
<1>2. Typed'
  BY <1>0, <1>1, LoopFacts, TableFacts, CallKept DEF Typed, SearchTypeOK, Below, Kept
<1>3. \A k \in (m + 1)..(l' - 1) : ~Matches(k)
  BY <1>0, <1>1, LoopFacts DEF Below, StopsAt
<1>4. LeftOfL'
  <2> SUFFICES ASSUME NEW k \in first..(l' - 1), Matches(k) PROVE stabs[k].n_value < addr
    BY DEF LeftOfL, Below, Kept, Matches
  <2>1. k <= m
    BY <1>0, <1>1, <1>3, LoopFacts, TableFacts DEF Below
  <2>2. k \in Region
    BY <1>0, <1>1, <2>1, TableFacts DEF Region
  <2>3. stabs[k].n_value <= stabs[m].n_value
    BY <1>0, <1>1, <2>1, <2>2, TableFacts
  <2> QED
    BY <1>0, <1>1, <2>2, <2>3, TableFacts, LoopFacts
<1>5. RightOfR' /\ AddrMoved'
  BY <1>0 DEF SearchInv, RightOfR, AddrMoved, Below, Kept, Matches, NoNeighbour, Region
<1>6. LeftIsLast' /\ Untouched'
  BY <1>0, <1>1, <1>3, LoopFacts, TableFacts
     DEF LeftIsLast, Untouched, Below, Kept, Matches, Region
<1>9. MatchSeen'
  BY <1>1 DEF MatchSeen, Below, Kept, Matches, Region
<1> QED
  BY <1>0, <1>2, <1>4, <1>5, <1>6, <1>9 DEF SearchInv, Below

LEMMA AboveInv ==
  ASSUME Inv, NEW m \in l..true_m, Above(m), Kept
  PROVE  Typed' /\ SearchInv'
<1>0. Typed /\ SearchInv /\ searching /\ l <= r
  BY DEF Inv, Above
<1>1. m \in Region /\ m \in Int /\ l <= m /\ m <= true_m /\ Matches(m) /\ stabs[m].n_value > addr
  BY <1>0, LoopFacts, TableFacts DEF Above, StopsAt, Region
<1>2. Typed'
  BY <1>0, <1>1, LoopFacts, TableFacts, CallKept DEF Typed, SearchTypeOK, Above, Kept
<1>3. RightOfR'
  <2>1. ASSUME NEW k \in m..last, Matches(k) PROVE stabs[k].n_value > sought
    <3>1. k \in Region /\ m <= k
      BY <1>0, <1>1, TableFacts DEF Region
    <3>2. stabs[m].n_value <= stabs[k].n_value
      BY <1>0, <1>1, <2>1, <3>1, TableFacts
    <3> QED
      BY <1>0, <1>1, <3>1, <3>2, TableFacts, LoopFacts DEF SearchInv, AddrMoved
  <2> QED
    BY <1>0, <1>1, <2>1, TableFacts DEF RightOfR, Above, Kept, Matches
<1>4. LeftOfL' /\ AddrMoved'
  BY <1>0 DEF SearchInv, LeftOfL, AddrMoved, Above, Kept, Matches, NoNeighbour, Region
<1>5. LeftIsLast' /\ Untouched'
  BY <1>0 DEF SearchInv, LeftIsLast, Untouched, Above, Kept, Matches
<1>9. MatchSeen'
  BY <1>1 DEF MatchSeen, Above, Kept, Matches, Region
<1> QED
  BY <1>0, <1>2, <1>3, <1>4, <1>5, <1>9 DEF SearchInv, Above

LEMMA ExactInv ==
  ASSUME Inv, NEW m \in l..true_m, Exact(m), Kept
  PROVE  Typed' /\ SearchInv'
<1>0. Typed /\ SearchInv /\ searching /\ l <= r
  BY DEF Inv, Exact
<1>1. m \in Region /\ m \in Int /\ l <= m /\ m <= true_m /\ Matches(m) /\ stabs[m].n_value = addr
  BY <1>0, LoopFacts, TableFacts DEF Exact, StopsAt, Region
<1>2. Typed'
  BY <1>0, <1>1, LoopFacts, TableFacts, CallKept DEF Typed, SearchTypeOK, Exact, Kept
<1>3. LeftOfL'
  <2> SUFFICES ASSUME NEW k \in first..(m - 1), Matches(k) PROVE stabs[k].n_value < addr + 1
    BY DEF LeftOfL, Exact, Kept, Matches
  <2>1. k \in Region /\ k <= m
    BY <1>0, <1>1, TableFacts DEF Region
  <2>2. stabs[k].n_value <= stabs[m].n_value
    BY <1>0, <1>1, <2>1, TableFacts
  <2> QED
    BY <1>0, <1>1, <2>1, <2>2, TableFacts, LoopFacts
<1>4. AddrMoved'
  <2>1. addr' = addr + 1 /\ NoNeighbour' = NoNeighbour
        /\ \A k : Matches(k)' = Matches(k) /\ stabs' = stabs /\ Region' = Region /\ sought' = sought
    BY DEF Exact, Kept, NoNeighbour, Region, Matches
  <2>2. NoNeighbour => addr = sought
    BY <1>0, <1>1, LoopFacts DEF SearchInv, AddrMoved, NoNeighbour
  <2> QED
    BY <1>0, <1>1, <2>1, <2>2, LoopFacts DEF SearchInv, AddrMoved
<1>5. RightOfR'
  BY <1>0 DEF SearchInv, RightOfR, Exact, Kept, Matches
<1>6. LeftIsLast' /\ Untouched'
  BY <1>0, <1>1, LoopFacts, TableFacts
     DEF LeftIsLast, Untouched, Exact, Kept, Matches, Region
<1>9. MatchSeen'
  BY <1>1 DEF MatchSeen, Exact, Kept, Matches, Region
<1> QED
  BY <1>0, <1>2, <1>3, <1>4, <1>5, <1>6, <1>9 DEF SearchInv, Exact

-----------------------------------------------------------------------------
(* When l has passed r, region_left is the stab that was looked for. *)
LEMMA ReturnInv ==
  ASSUME Inv, Return, Kept
  PROVE  Typed' /\ SearchInv' /\ FindsStab'
<1>0. Typed /\ SearchInv /\ searching /\ r < l /\ region_right = r
  BY LoopFacts DEF Inv, Return, SearchInv
<1>1. region_left \in Int /\ first <= region_left /\ region_left <= last
  BY <1>0, TableFacts DEF SearchInv, LeftIsLast
<1>2. \A k \in (region_left + 1)..region_right : ~Matches(k)
  BY <1>0, <1>1, LoopFacts DEF SearchInv, LeftIsLast
<1>3. Rightmost = IF region_right <= region_left THEN region_right ELSE region_left
  <2>1. CASE region_left < region_right
    <3>1. \A k \in region_left..region_right :
            k = region_left \/ Matches(k) => k = region_left
      BY <1>0, <1>1, <1>2, LoopFacts
    <3>2. Rightmost = region_left
      BY <1>0, <1>1, <1>2, <2>1, <3>1, LoopFacts DEF Rightmost
    <3> QED
      BY <1>0, <1>1, <2>1, <3>2, LoopFacts
  <2>2. CASE region_right <= region_left
    BY <2>2 DEF Rightmost
  <2> QED
    BY <1>0, <1>1, <2>1, <2>2, LoopFacts
<1>4. Typed'
  <2>1. region_left' \in (first - 1)..(last + 1) /\ region_right' \in (first - 1)..last
    BY <1>0, <1>1, <1>3, LoopFacts, TableFacts DEF Return
  <2> QED
    BY <1>0, <2>1, CallKept DEF Typed, SearchTypeOK, Return, Kept
<1>5. ASSUME NoNeighbour, Candidates # {}
      PROVE  /\ region_left \in Candidates
             /\ \A k \in Candidates : k <= region_left
             /\ region_left <= region_right
             /\ any_matches
  <2>1. ASSUME NEW k \in Candidates
        PROVE  /\ k \in Region /\ k \in Int /\ k <= r /\ k <= l - 1 /\ Matches(k)
               /\ stabs[k].n_value <= sought
    <3>1. k \in Region /\ k \in Int /\ Matches(k) /\ stabs[k].n_value <= sought
      BY <1>0, TableFacts DEF Candidates, Region
    <3>2. k <= r
      BY <1>0, <3>1, TableFacts, LoopFacts DEF SearchInv, RightOfR, Region
    <3> QED
      BY <1>0, <3>1, <3>2, LoopFacts
  <2>2. ASSUME NEW k \in Candidates PROVE k <= region_left
    BY <1>0, <1>1, <2>1, LoopFacts DEF SearchInv, LeftIsLast
  <2>3. Matches(region_left) /\ stabs[region_left].n_value < addr
    <3>1. PICK k \in Candidates : TRUE
      BY <1>5
    <3>2. k \in first..(l - 1) /\ Matches(k)
      BY <1>0, <2>1, LoopFacts, TableFacts DEF Region
    <3> QED
      BY <1>0, <3>2 DEF SearchInv, LeftIsLast
  <2>4. region_left \in Region /\ stabs[region_left].n_value \in Int
    BY <1>0, <1>1, TableFacts DEF Region
  <2>5. stabs[region_left].n_value <= sought
    BY <1>0, <1>5, <2>3, <2>4, LoopFacts DEF SearchInv, AddrMoved
  <2>6. region_left \in Candidates
    BY <2>3, <2>4, <2>5 DEF Candidates
  <2>7. region_left <= region_right
    BY <1>0, <2>1, <2>6
  <2>8. any_matches
    <3>1. region_left \in first..(l - 1)
      BY <1>0, <1>1, <2>1, <2>6, TableFacts, LoopFacts
    <3> QED
      BY <1>0, <2>3, <3>1 DEF SearchInv, Untouched, Typed, SearchTypeOK
  <2> QED
    BY <2>2, <2>6, <2>7, <2>8
<1>6. region_right < last => Matches(region_right + 1)
  BY <1>0 DEF SearchInv, RightOfR
<1>7. /\ \A k : Matches(k)' = Matches(k)
      /\ Candidates' = Candidates /\ NoNeighbour' = NoNeighbour
      /\ Region' = Region /\ last' = last /\ ~searching'
  BY DEF Return, Kept, Matches, Candidates, NoNeighbour, Region
<1>8. ASSUME NoNeighbour, Candidates # {}
      PROVE  region_left' = region_left /\ region_right' = region_right
  BY <1>0, <1>1, <1>3, <1>5, <1>8, LoopFacts DEF Return
<1>9. ASSUME \A k \in Region : ~Matches(k)
      PROVE  region_left' > region_right'
  <2>1. CASE any_matches
    BY <1>0, <1>9, <2>1 DEF SearchInv, MatchSeen
  <2>2. CASE ~any_matches
    BY <1>0, <1>1, <2>2 DEF Return
  <2> QED
    BY <2>1, <2>2
<1>12. ASSUME NoNeighbour, Candidates = {}, first \in Region, ~Matches(first)
       PROVE  region_left' = first
  <2>1. addr = sought
    BY <1>0, <1>12, LoopFacts DEF SearchInv, AddrMoved, Candidates
  <2>2. region_left = first
    <3>1. CASE Matches(region_left) /\ stabs[region_left].n_value < addr
      <4>1. region_left \in Region /\ stabs[region_left].n_value \in Int
        BY <1>0, <1>1, TableFacts DEF Region
      <4>2. region_left \in Candidates
        BY <1>0, <2>1, <3>1, <4>1, LoopFacts DEF Candidates
      <4> QED
        BY <1>12, <4>2
    <3> QED
      BY <1>0, <3>1 DEF SearchInv, LeftIsLast
  <2>3. CASE any_matches
    <3>1. r # first - 1
      BY <1>0, <1>12, LoopFacts, TableFacts DEF SearchInv, RightOfR
    <3>2. region_right = r /\ r \in Int /\ first <= r /\ first \in Int
      BY <1>0, <3>1, LoopFacts, TableFacts
    <3>3. Rightmost = first
      BY <1>3, <2>2, <3>2
    <3> QED
      BY <2>3, <3>3 DEF Return
  <2>4. CASE ~any_matches
    BY <2>2, <2>4 DEF Return
  <2> QED
    BY <2>3, <2>4
<1>10. FindsStab'
  <2>1. ASSUME NoNeighbour, Candidates # {}
        PROVE  /\ region_left' \in Candidates /\ region_left' <= region_right'
               /\ \A k \in Candidates : k <= region_left'
               /\ \A k \in (region_left' + 1)..region_right' : ~Matches(k)
               /\ region_right' < last => Matches(region_right' + 1)
    BY <1>2, <1>5, <1>6, <1>8, <2>1
  <2>2. first' = first /\ Matches(first)' = Matches(first)
    BY DEF Return, Kept, Matches
  <2>3. NoNeighbour /\ Candidates = {} /\ first \in Region /\ ~Matches(first) => region_left' = first
    BY <1>12
  <2> QED
    BY <1>7, <1>9, <2>1, <2>2, <2>3 DEF FindsStab
<1>11. SearchInv'
  BY <1>0 DEF SearchInv, MatchSeen, Return, Kept, Matches, Region
<1> QED
  BY <1>4, <1>10, <1>11

LEMMA InvStep == Inv /\ [SearchNext]_callVars => Inv'
<1> SUFFICES ASSUME Inv, [SearchNext]_callVars PROVE Inv'
  OBVIOUS
<1>1. ASSUME NEW m \in l..true_m, Below(m) \/ Above(m) \/ Exact(m), Kept
      PROVE  Inv'
  <2>1. Typed' /\ SearchInv'
    BY <1>1, BelowInv, AboveInv, ExactInv
  <2>2. searching'
    BY <1>1 DEF Below, Above, Exact
  <2> QED
    BY <2>1, <2>2 DEF Inv, FindsStab
<1>2. ASSUME NoMatch, Kept PROVE Inv'
  BY <1>2, NoMatchInv DEF Inv, FindsStab, NoMatch
<1>3. ASSUME Return, Kept PROVE Inv'
  BY <1>3, ReturnInv DEF Inv
<1>4. CASE UNCHANGED callVars
  BY <1>4 DEF Inv, Typed, SearchTypeOK, CallOK, Sorted, SearchInv, MatchSeen, LeftOfL, RightOfR, LeftIsLast, AddrMoved,
              Untouched, FindsStab, Candidates, NoNeighbour, Region, Matches, callVars, searchVars
<1>5. SearchNext => Search /\ Kept
  BY DEF SearchNext, Search, Kept, NoMatch, Below, Above, Exact, Return
<1> QED
  BY <1>1, <1>2, <1>3, <1>4, <1>5 DEF Search

(* In every table of any length and for every region and address, the search
   never looks outside the region. *)
THEOREM TypeCorrect == SearchSpec => []SearchTypeOK
<1>1. Inv => SearchTypeOK
  BY DEF Inv, Typed
<1> QED
  BY InitInv, InvStep, <1>1, PTL DEF SearchSpec

(* In every table, stab_binsearch() finds the stab that contains the address,
   if there is one and no other starts at the very next address. *)
THEOREM SearchCorrect == SearchSpec => []FindsStab
<1>1. Inv => FindsStab
  BY DEF Inv
<1> QED
  BY InitInv, InvStep, <1>1, PTL DEF SearchSpec

-----------------------------------------------------------------------------
(* What debuginfo_eip() needs of its tables: integers, orders, and the ends of a search. *)
(* The last of a set of integers. *)
LEMMA LastOf ==
  ASSUME NEW S, S \subseteq Int, NEW m \in S, \A k \in S : k <= m
  PROVE  Max(S) = m
<1>1. \A x \in S : (\A y \in S : x >= y) => x = m
  <2> SUFFICES ASSUME NEW x \in S, \A y \in S : x >= y PROVE x = m
    OBVIOUS
  <2>1. x >= m /\ x <= m /\ x \in Int /\ m \in Int
    OBVIOUS
  <2> QED
    BY <2>1
<1>2. m \in S /\ \A y \in S : m >= y
  OBVIOUS
<1> QED
  BY <1>1, <1>2 DEF Max

(* What the order of the stabs of a type in a range means for a search. *)
LEMMA OrderedTable ==
  ASSUME NEW table, NEW t, NEW range, range \subseteq Int, \A k \in range : table[k].n_value \in Int,
         InOrder(table, Kind(table, t, range))
  PROVE  /\ \A j, k \in range : table[j].n_type = t /\ table[k].n_type = t /\ j < k =>
              table[j].n_value <= table[k].n_value
         /\ \A a \in Int : ~ \E j, k \in range : /\ table[j].n_type = t /\ table[j].n_value = a
                                                /\ table[k].n_type = t /\ table[k].n_value = a + 1
<1>1. \A j, k \in range : table[j].n_type = t /\ table[k].n_type = t /\ j < k =>
        table[j].n_value <= table[k].n_value /\ table[k].n_value # table[j].n_value + 1
  BY DEF InOrder, Kind
<1>2. ASSUME NEW a \in Int, NEW j \in range, NEW k \in range, table[j].n_type = t, table[j].n_value = a,
             table[k].n_type = t, table[k].n_value = a + 1
      PROVE  FALSE
  <2>1. CASE j < k
    BY <1>1, <1>2, <2>1
  <2>2. CASE k < j
    <3>1. table[k].n_value <= table[j].n_value
      BY <1>1, <1>2, <2>2
    <3> QED
      BY <1>2, <3>1
  <2>3. CASE j = k
    BY <1>2, <2>3
  <2>4. j \in Int /\ k \in Int
    OBVIOUS
  <2> QED
    BY <2>1, <2>2, <2>3, <2>4
<1> QED
  BY <1>1, <1>2

(* The table, as the linker makes it. *)
LEMMA TheTable ==
  ASSUME stabs \in LinkedTables
  PROVE  /\ stabs \in Tables /\ Cardinality(All) \in Nat /\ All = 0..(Cardinality(All) - 1) /\ All \subseteq Int
         /\ \A k \in All : stabs[k].n_value \in Int
         /\ All # {} => stabs[0].n_type = "HDR" /\ 0 \in All /\ 0 <= Cardinality(All) - 1
         /\ InOrder(stabs, Kind(stabs, "SO", All))
         /\ \A f \in Kind(stabs, "SO", All) : FileLaid(stabs, stabs[f].n_value, Until(stabs, "SO", f, All))
<1>1. stabs \in Tables /\ TableLaid(stabs)
  BY LinkedAssumption
<1>2. Cardinality(All) \in Nat
  BY <1>1, FS_CardinalityType DEF TableLaid, All
<1>3. All = 0..(Cardinality(All) - 1)
  BY <1>1 DEF TableLaid, All
<1>4. \A k \in All : stabs[k].n_value \in Int
  BY <1>1, TableAssumption DEF All
<1>5. All # {} => stabs[0].n_type = "HDR" /\ 0 \in All /\ 0 <= Cardinality(All) - 1
  <2> SUFFICES ASSUME All # {} PROVE stabs[0].n_type = "HDR" /\ 0 \in All /\ 0 <= Cardinality(All) - 1
    OBVIOUS
  <2>1. 0 <= Cardinality(All) - 1
    BY <1>2, <1>3
  <2>2. 0 \in All
    BY <1>2, <1>3, <2>1
  <2> QED
    BY <1>1, <2>1, <2>2 DEF TableLaid, All
<1> QED
  BY <1>1, <1>2, <1>3, <1>4, <1>5 DEF TableLaid, All

(* A call of stab_binsearch() begins with the invariant of the search. *)
LEMMA CallBegins ==
  ASSUME NEW t, NEW a \in Int, NEW left \in Int, NEW right \in Int, left <= right,
         SearchFor(t, a, left, right), stabs' = stabs, stabs \in LinkedTables,
         left..right \subseteq All, InOrder(stabs, Kind(stabs, t, left..right))
  PROVE  /\ Inv' /\ searching' /\ type' = t /\ sought' = a /\ first' = left /\ last' = right
         /\ Region' = left..right
<1>1. \A j, k \in left..right : stabs[j].n_type = t /\ stabs[k].n_type = t /\ j < k =>
        stabs[j].n_value <= stabs[k].n_value
  BY TheTable, OrderedTable
<1>2. Region' = left..right
  BY DEF SearchFor, Region
<1>3. Sorted'
  BY <1>1, <1>2 DEF Sorted, Matches, SearchFor
<1>4. Started'
  BY <1>2, <1>3, TheTable DEF Started, SearchFor, All
<1>5. (Started => Inv)'
  BY StartInv, PTL
<1> QED
  BY <1>2, <1>4, <1>5 DEF SearchFor

(* How a search has ended. *)
LEMMA CallEnds ==
  ASSUME Inv, ~searching, stabs \in LinkedTables, InOrder(stabs, Kind(stabs, type, Region))
  PROVE  /\ Region \subseteq All /\ first \in Int /\ last \in Int /\ first <= last /\ sought \in Int
         /\ region_left \in Int /\ region_right \in Int
         /\ NoNeighbour
<1>1. Region \subseteq All /\ first \in Int /\ last \in Int /\ first <= last /\ sought \in Int
  BY DEF Inv, Typed, CallOK, SearchTypeOK, All
<1>2. region_left \in Int /\ region_right \in Int
  BY <1>1 DEF Inv, Typed, SearchTypeOK
<1>3. NoNeighbour
  <2>1. Region \subseteq Int /\ \A k \in Region : stabs[k].n_value \in Int
    BY <1>1, TheTable
  <2>2. \A a \in Int : ~ \E j, k \in Region : /\ stabs[j].n_type = type /\ stabs[j].n_value = a
                                              /\ stabs[k].n_type = type /\ stabs[k].n_value = a + 1
    BY <2>1, OrderedTable
  <2> QED
    BY <1>1, <2>2 DEF NoNeighbour, Matches
<1> QED
  BY <1>1, <1>2, <1>3

LEMMA Found ==
  ASSUME Inv, ~searching, stabs \in LinkedTables, InOrder(stabs, Kind(stabs, type, Region)), Candidates # {}
  PROVE  /\ region_left = Latest(type, Region, sought) /\ region_left \in Region
         /\ region_left \in Int /\ region_right \in Int /\ region_left <= region_right
         /\ Matches(region_left) /\ stabs[region_left].n_value <= sought
         /\ region_left..region_right = Until(stabs, type, region_left, Region)
<1>1. /\ region_left \in Candidates /\ region_left <= region_right
      /\ \A k \in Candidates : k <= region_left
      /\ \A k \in (region_left + 1)..region_right : ~Matches(k)
      /\ region_right < last => Matches(region_right + 1)
  BY CallEnds DEF Inv, FindsStab
<1>2. region_left \in Region /\ Matches(region_left) /\ stabs[region_left].n_value <= sought
  BY <1>1 DEF Candidates
<1>3. Candidates = {k \in Region : stabs[k].n_type = type /\ stabs[k].n_value <= sought}
  BY DEF Candidates, Matches
<1>4. Candidates \subseteq Int
  BY CallEnds DEF Candidates, Region
<1>5. region_left = Latest(type, Region, sought)
  <2>1. Max(Candidates) = region_left
    BY <1>1, <1>4, LastOf
  <2> QED
    BY <1>3, <2>1 DEF Latest
<1>6. region_left \in Int /\ region_right \in Int /\ region_right <= last /\ first <= region_left
      /\ first \in Int /\ last \in Int
  BY <1>2, CallEnds DEF Inv, Typed, SearchTypeOK, Region
<1>7. region_left..region_right = Until(stabs, type, region_left, Region)
  <2>1. ASSUME NEW k \in region_left..region_right PROVE k \in Until(stabs, type, region_left, Region)
    BY <1>1, <1>6 DEF Until, Region, Matches
  <2>2. ASSUME NEW k \in Until(stabs, type, region_left, Region) PROVE k \in region_left..region_right
    <3>1. /\ k \in Int /\ k <= last /\ k >= region_left
          /\ \A j \in (region_left + 1)..k : ~Matches(j)
      BY <1>6 DEF Until, Region, Matches
    <3>2. CASE region_right < k
      <4>1. region_right + 1 \in (region_left + 1)..k /\ region_right < last
        BY <1>1, <1>6, <3>1, <3>2
      <4> QED
        BY <1>1, <3>1, <4>1
    <3> QED
      BY <1>6, <3>1, <3>2
  <2> QED
    BY <2>1, <2>2
<1> QED
  BY <1>1, <1>2, <1>5, <1>6, <1>7

(* When no stab of the type starts at or before the address although those there
   are begin where the search begins, there is none. *)
LEMMA NoneFound ==
  ASSUME Inv, ~searching, stabs \in LinkedTables, NEW v \in Int, v <= sought,
         Laid(stabs, Kind(stabs, type, Region), v), Candidates = {}
  PROVE  /\ region_left > region_right /\ Latest(type, Region, sought) = -1
         /\ Kind(stabs, type, Region) = {}
<1>1. Kind(stabs, type, Region) = {}
  <2>1. ASSUME Kind(stabs, type, Region) # {} PROVE FALSE
    <3>1. PICK k \in Kind(stabs, type, Region) : stabs[k].n_value <= v
      BY <2>1 DEF Laid, BeginsAt
    <3>2. k \in Region /\ stabs[k].n_type = type /\ stabs[k].n_value \in Int /\ sought \in Int
      BY CallEnds, TheTable DEF Kind, Laid
    <3>3. k \in Candidates
      BY <3>1, <3>2 DEF Candidates, Matches
    <3> QED
      BY <3>3
  <2> QED
    BY <2>1
<1>2. \A k \in Region : ~Matches(k)
  BY <1>1 DEF Kind, Matches
<1>3. region_left > region_right
  BY <1>2 DEF Inv, FindsStab
<1>4. Latest(type, Region, sought) = -1
  BY <1>2 DEF Latest, Matches
<1> QED
  BY <1>1, <1>3, <1>4

-----------------------------------------------------------------------------
(* The three calls.  Each search runs in what the one before has found: the file of
   the address, and in it the function, if there is one. *)
Known ==
  [file |-> "<unknown>", line |-> 0,
   fn_name |-> IF FunOf = -1 THEN "<unknown>" ELSE NameOr(FunOf, "<unknown>"),
   fn_addr |-> IF FunOf = -1 THEN eip ELSE stabs[FunOf].n_value, fn_narg |-> 0]

HeaderInv == type = "HDR" => target = eip /\ info = Unknown /\ ~searching

FileInv ==
  type = "SO" => /\ target = eip /\ sought = eip /\ info = Unknown
                 /\ first = 0 /\ Region = All

FileHere ==
  /\ lfile \in Int /\ rfile \in Int /\ lfile <= rfile /\ lfile = FileOf /\ FileOf # -1
  /\ lfile..rfile = FileStabs /\ FileStabs \subseteq All
  /\ FileOf \in All /\ stabs[FileOf].n_type = "SO" /\ stabs[FileOf].n_value <= eip
  /\ FileLaid(stabs, stabs[FileOf].n_value, FileStabs)

FunInv ==
  type = "FUN" => /\ FileHere /\ target = eip /\ sought = eip /\ info = Unknown
                  /\ first = lfile /\ last = rfile

NoFunction ==
  /\ FunOf = -1 /\ lfun > rfun /\ Kind(stabs, "FUN", FileStabs) = {}
  /\ target = eip /\ first = lfile /\ last = rfile

FunctionHere ==
  /\ FunOf # -1 /\ lfun = FunOf /\ lfun..rfun = FunStabs /\ lfun <= rfun
  /\ FunOf \in FileStabs /\ stabs[FunOf].n_type = "FUN" /\ stabs[FunOf].n_value <= eip
  /\ FunctionLaid(stabs, FunOf, FunStabs)
  /\ target = eip - stabs[FunOf].n_value /\ first = lfun /\ last = rfun

LineInv ==
  type = "SLINE" => /\ FileHere /\ (NoFunction \/ FunctionHere)
                    /\ lfun \in Int /\ rfun \in Int /\ sought = target /\ info = Known

InfoInv ==
  /\ stabs \in LinkedTables /\ eip \in Addrs
  /\ result \in {"none", "panic", "-1", "0"} /\ (result # "none" => ~searching)
  /\ type \in {"HDR", "SO", "FUN", "SLINE"} /\ (type # "HDR" => Inv)
  /\ result = "none" => HeaderInv /\ FileInv /\ FunInv /\ LineInv
  /\ InfoCorrect

(* What the table says of an address does not change with the call. *)
LEMMA SameTable ==
  ASSUME stabs' = stabs, eip' = eip
  PROVE  /\ All' = All /\ FileOf' = FileOf /\ FileStabs' = FileStabs /\ FunOf' = FunOf
         /\ FunStabs' = FunStabs /\ LineOf' = LineOf /\ SourceOf' = SourceOf /\ Known' = Known
         /\ Unknown' = Unknown
<1>1. All' = All
  BY DEF All
<1>2. FileOf' = FileOf
  BY <1>1 DEF FileOf, Latest
<1>3. FileStabs' = FileStabs
  BY <1>1, <1>2 DEF FileStabs, Extent
<1>4. FunOf' = FunOf
  BY <1>2, <1>3 DEF FunOf, Latest
<1>5. FunStabs' = FunStabs
  BY <1>3, <1>4 DEF FunStabs, Extent
<1>6. LineOf' = LineOf
  BY <1>2, <1>3, <1>4, <1>5 DEF LineOf, Latest
<1>7. SourceOf' = SourceOf
  BY <1>3, <1>6 DEF SourceOf
<1>8. Known' = Known /\ Unknown' = Unknown
  BY <1>4 DEF Known, Unknown, NameOr
<1> QED
  BY <1>1, <1>2, <1>3, <1>4, <1>5, <1>6, <1>7, <1>8

(* An address of which the table says nothing. *)
LEMMA Nothing ==
  ASSUME FileOf = -1
  PROVE  FunOf = -1 /\ LineOf = -1 /\ Known = Unknown
  BY DEF FunOf, LineOf, Known, Unknown

(* A search ends or goes on within its call. *)
LEMMA StaysInCall ==
  ASSUME InfoInv, Searching
  PROVE  InfoInv'
<1>1. /\ SearchNext /\ UNCHANGED <<eip, target, regions, info, result>> /\ result = "none" /\ searching
  BY DEF Searching, SearchNext, Search, NoMatch, Below, Above, Exact, Return
<1>2. Inv /\ type # "HDR"
  BY <1>1 DEF InfoInv, HeaderInv
<1>3. Inv'
  BY <1>1, <1>2, InvStep
<1>4. UNCHANGED <<stabs, type, first, last, sought>>
  BY <1>1 DEF SearchNext, Search, NoMatch, Below, Above, Exact, Return
<1>5. /\ FileOf' = FileOf /\ FileStabs' = FileStabs /\ FunOf' = FunOf /\ FunStabs' = FunStabs
      /\ All' = All /\ Known' = Known /\ Unknown' = Unknown
  BY <1>1, <1>4, SameTable
<1>6. FileHere => FileHere'
  BY <1>1, <1>4, <1>5 DEF FileHere, regions
<1>7. FileInv' /\ FunInv' /\ HeaderInv'
  BY <1>1, <1>2, <1>4, <1>5, <1>6 DEF FileInv, FunInv, HeaderInv, InfoInv, regions, Region
<1>8. LineInv'
  <2>1. NoFunction => NoFunction'
    BY <1>1, <1>4, <1>5 DEF NoFunction, regions
  <2>2. FunctionHere => FunctionHere'
    BY <1>1, <1>4, <1>5 DEF FunctionHere, regions
  <2> QED
    BY <1>1, <1>4, <1>5, <1>6, <2>1, <2>2 DEF LineInv, InfoInv, regions
<1>9. InfoCorrect'
  BY <1>1 DEF InfoCorrect
<1> QED
  BY <1>1, <1>2, <1>3, <1>4, <1>7, <1>8, <1>9 DEF InfoInv

(* The checks at the entry, and the search for the file. *)
LEMMA Enters ==
  ASSUME InfoInv, Entry
  PROVE  InfoInv'
<1>1. /\ result = "none" /\ ~searching /\ type = "HDR" /\ target = eip /\ info = Unknown
      /\ UNCHANGED <<stabs, eip, target, regions, info>>
  BY DEF InfoInv, HeaderInv, Entry, Returned
<1>2. /\ FileOf' = FileOf /\ FunOf' = FunOf /\ LineOf' = LineOf /\ All' = All /\ Unknown' = Unknown
  BY <1>1, SameTable
<1>3. eip \in Int /\ stabs \in LinkedTables
  BY AddrAssumption DEF InfoInv
<1>4. CASE Fail("panic")
  <2>1. UNCHANGED <<searching, type>> /\ result' = "panic"
    BY <1>4 DEF Fail, NoCall, searchVars
  <2> QED
    BY <1>1, <2>1 DEF InfoInv, InfoCorrect
<1>5. CASE DOMAIN stabs = {} /\ Fail("-1")
  <2>1. UNCHANGED <<searching, type>> /\ result' = "-1"
    BY <1>5 DEF Fail, NoCall, searchVars
  <2>2. FileOf = -1
    BY <1>5 DEF FileOf, Latest, All
  <2>3. FunOf = -1 /\ LineOf = -1
    BY <2>2, Nothing
  <2>4. InfoCorrect'
    BY <1>1, <1>2, <2>1, <2>3 DEF InfoCorrect, Unknown
  <2> QED
    BY <1>1, <2>1, <2>4 DEF InfoInv
<1>6. CASE DOMAIN stabs # {} /\ SearchFor("SO", target, 0, Cardinality(DOMAIN stabs) - 1) /\ result' = result
  <2> DEFINE n == Cardinality(All) - 1
  <2>1. All = 0..n /\ 0 <= n /\ n \in Int /\ InOrder(stabs, Kind(stabs, "SO", 0..n))
    BY <1>3, <1>6, TheTable DEF All
  <2>2. SearchFor("SO", eip, 0, n)
    BY <1>1, <1>6 DEF All
  <2> HIDE DEF n
  <2>3. Inv' /\ searching' /\ type' = "SO" /\ sought' = eip /\ first' = 0 /\ Region' = 0..n
    BY <1>1, <1>3, <2>1, <2>2, CallBegins
  <2>4. InfoCorrect'
    BY <1>1, <1>6 DEF InfoCorrect
  <2> QED
    BY <1>1, <1>2, <1>6, <2>1, <2>3, <2>4 DEF InfoInv, HeaderInv, FileInv, FunInv, LineInv
<1> QED
  BY <1>4, <1>5, <1>6 DEF Entry

(* The file, and the search for the function. *)
LEMMA FindsFile ==
  ASSUME InfoInv, FileFound
  PROVE  InfoInv'
<1>1. /\ result = "none" /\ ~searching /\ type = "SO" /\ Inv /\ target = eip /\ sought = eip /\ info = Unknown
      /\ first = 0 /\ Region = All /\ stabs \in LinkedTables /\ eip \in Int
      /\ UNCHANGED <<stabs, eip, target, info>>
  BY AddrAssumption DEF InfoInv, FileInv, FileFound, Returned
<1>2. /\ FileOf' = FileOf /\ FileStabs' = FileStabs /\ FunOf' = FunOf /\ LineOf' = LineOf /\ All' = All
      /\ Unknown' = Unknown
  BY <1>1, SameTable
<1>3. InOrder(stabs, Kind(stabs, type, Region))
  BY <1>1, TheTable
<1>4. Region # {} /\ 0 \in Region /\ ~Matches(0)
  <2>1. 0 \in Region
    BY <1>1, <1>3, CallEnds DEF Region
  <2> QED
    BY <1>1, <2>1, TheTable DEF Matches
<1>5. CASE Candidates = {}
  <2>1. region_left = 0
    BY <1>1, <1>3, <1>4, <1>5, CallEnds DEF Inv, FindsStab
  <2>2. result' = "-1" /\ UNCHANGED <<searching, type>>
    BY <2>1 DEF FileFound, Fail, NoCall, searchVars
  <2>3. FileOf = -1
    BY <1>1, <1>5 DEF FileOf, Latest, Candidates, Matches
  <2>4. InfoCorrect'
    BY <1>1, <1>2, <2>2, <2>3, Nothing DEF InfoCorrect, Unknown
  <2>5. Inv'
    <3>1. UNCHANGED callVars
      BY <1>1, <2>1 DEF FileFound, Fail, NoCall, callVars
    <3> QED
      BY <1>1, <3>1, InvStep
  <2> QED
    BY <1>1, <2>2, <2>4, <2>5 DEF InfoInv
<1>6. CASE Candidates # {}
  <2>1. /\ region_left = FileOf /\ region_left \in All /\ region_left \in Int /\ region_right \in Int
        /\ region_left <= region_right /\ stabs[region_left].n_type = "SO"
        /\ stabs[region_left].n_value <= eip
        /\ region_left..region_right = FileStabs
    BY <1>1, <1>3, <1>6, Found DEF FileOf, FileStabs, Extent, Matches
  <2>2. region_left # 0 /\ 0 <= region_left
    BY <1>1, <1>4, <2>1, TheTable DEF Matches
  <2>3. FileLaid(stabs, stabs[FileOf].n_value, FileStabs)
    BY <1>1, <2>1, TheTable DEF FileStabs, Extent, Kind
  <2>4. FileStabs \subseteq All
    BY DEF FileStabs, Extent, Until
  <2>5. /\ SearchFor("FUN", eip, region_left, region_right) /\ result' = result
        /\ lfile' = region_left /\ rfile' = region_right
    BY <1>1, <2>2 DEF FileFound
  <2>6. InOrder(stabs, Kind(stabs, "FUN", region_left..region_right))
    BY <2>1, <2>3 DEF FileLaid, Laid
  <2>7. /\ Inv' /\ searching' /\ type' = "FUN" /\ sought' = eip
        /\ first' = region_left /\ last' = region_right
    BY <1>1, <2>1, <2>4, <2>5, <2>6, CallBegins
  <2>8. FileHere'
    BY <1>1, <1>2, <2>1, <2>2, <2>3, <2>4, <2>5 DEF FileHere
  <2>9. InfoCorrect'
    BY <1>1, <2>5 DEF InfoCorrect
  <2> QED
    BY <1>1, <1>2, <2>5, <2>7, <2>8, <2>9 DEF InfoInv, HeaderInv, FileInv, FunInv, LineInv
<1> QED
  BY <1>5, <1>6

-----------------------------------------------------------------------------
(* The function, and the search for the line: in the function, or in the file when
   there is none. *)
LEMMA FindsFunction ==
  ASSUME InfoInv, FunFound
  PROVE  InfoInv'
<1>1. /\ result = "none" /\ ~searching /\ type = "FUN" /\ Inv /\ target = eip /\ sought = eip /\ info = Unknown
      /\ FileHere /\ first = lfile /\ last = rfile /\ stabs \in LinkedTables /\ eip \in Int /\ eip \in Addrs
      /\ UNCHANGED <<stabs, eip, lfile, rfile, result>>
      /\ lfun' = region_left /\ rfun' = region_right
  BY AddrAssumption DEF InfoInv, FunInv, FunFound, Returned
<1>2. /\ FileOf' = FileOf /\ FileStabs' = FileStabs /\ FunOf' = FunOf /\ FunStabs' = FunStabs
      /\ All' = All /\ Known' = Known
  BY <1>1, SameTable
<1>3. FileHere'
  BY <1>1, <1>2 DEF FileHere
<1>4. Region = FileStabs /\ lfile..rfile = FileStabs /\ lfile \in Int /\ rfile \in Int /\ lfile <= rfile
  BY <1>1 DEF FileHere, Region
<1>5. /\ stabs[FileOf].n_value \in Int /\ stabs[FileOf].n_value <= eip
      /\ FileLaid(stabs, stabs[FileOf].n_value, FileStabs) /\ FileOf # -1 /\ FileStabs \subseteq All
  BY <1>1, TheTable DEF FileHere
<1>6. Laid(stabs, Kind(stabs, type, Region), stabs[FileOf].n_value)
  BY <1>1, <1>4, <1>5 DEF FileLaid
<1>7. InOrder(stabs, Kind(stabs, type, Region))
  BY <1>6 DEF Laid
<1>8. region_left \in Int /\ region_right \in Int
  BY <1>1, <1>7, CallEnds
<1>9. InfoCorrect'
  BY <1>1 DEF InfoCorrect
<1>10. CASE Candidates = {}
  <2>1. /\ region_left > region_right /\ Latest(type, Region, sought) = -1
        /\ Kind(stabs, type, Region) = {}
    BY <1>1, <1>5, <1>6, <1>10, NoneFound
  <2>2. FunOf = -1 /\ Kind(stabs, "FUN", FileStabs) = {}
    BY <1>1, <1>4, <2>1 DEF FunOf
  <2>3. ~(region_left <= region_right)
    BY <1>8, <2>1
  <2>4. /\ SearchFor("SLINE", eip, lfile, rfile) /\ target' = eip
        /\ info' = [info EXCEPT !.fn_addr = eip]
    BY <1>1, <2>3 DEF FunFound
  <2>5. InOrder(stabs, Kind(stabs, "SLINE", lfile..rfile))
    BY <1>4, <1>5, <2>2 DEF FileLaid, Laid
  <2>6. /\ Inv' /\ searching' /\ type' = "SLINE" /\ sought' = eip
        /\ first' = lfile /\ last' = rfile
    BY <1>1, <1>4, <1>5, <2>4, <2>5, CallBegins
  <2>7. info' = Known
    BY <1>1, <2>2, <2>4 DEF Known, Unknown
  <2>8. NoFunction'
    BY <1>1, <1>2, <2>1, <2>2, <2>4, <2>6 DEF NoFunction
  <2>9. LineInv'
    BY <1>1, <1>2, <1>3, <1>8, <2>4, <2>6, <2>7, <2>8 DEF LineInv
  <2> QED
    BY <1>1, <1>9, <2>6, <2>9 DEF InfoInv, HeaderInv, FileInv, FunInv
<1>11. CASE Candidates # {}
  <2>1. /\ region_left = Latest("FUN", FileStabs, eip) /\ region_left \in FileStabs
        /\ region_left <= region_right
        /\ stabs[region_left].n_type = "FUN" /\ stabs[region_left].n_value <= eip
        /\ region_left..region_right = Until(stabs, "FUN", region_left, FileStabs)
    BY <1>1, <1>4, <1>7, <1>11, Found DEF Matches
  <2>2. region_left = FunOf /\ region_left..region_right = FunStabs
    BY <1>5, <2>1 DEF FunOf, FunStabs, Extent
  <2>3. region_left # -1
    <3>1. All = 0..(Cardinality(All) - 1) /\ Cardinality(All) \in Nat
      BY <1>1, TheTable
    <3> QED
      BY <1>5, <2>1, <3>1
  <2>4. FunctionLaid(stabs, FunOf, FunStabs)
    BY <1>5, <2>1, <2>2 DEF FileLaid, Kind, FunStabs, Extent
  <2> DEFINE a == eip - stabs[region_left].n_value
  <2>5. a \in Int /\ FunStabs \subseteq All
    <3>1. stabs[region_left].n_value \in Int
      BY <1>1, <1>5, <2>1, TheTable
    <3>2. FunStabs \subseteq FileStabs
      BY DEF FunStabs, Extent, Until
    <3> QED
      BY <1>1, <1>5, <3>1, <3>2
  <2>6. /\ SearchFor("SLINE", a, region_left, region_right) /\ target' = a
        /\ info' = [info EXCEPT !.fn_name = NameOr(region_left, info.fn_name),
                                !.fn_addr = stabs[region_left].n_value]
    BY <1>1, <2>1 DEF FunFound
  <2>7. InOrder(stabs, Kind(stabs, "SLINE", region_left..region_right))
    BY <2>2, <2>4 DEF FunctionLaid, Laid
  <2>8. a = eip - stabs[FunOf].n_value
    BY <2>2
  <2> HIDE DEF a
  <2>9. /\ Inv' /\ searching' /\ type' = "SLINE" /\ sought' = a
        /\ first' = region_left /\ last' = region_right
    BY <1>1, <1>8, <2>1, <2>2, <2>5, <2>6, <2>7, CallBegins
  <2>10. info' = Known
    BY <1>1, <2>2, <2>3, <2>6 DEF Known, Unknown
  <2>11. FunctionHere'
    BY <1>1, <1>2, <2>1, <2>2, <2>3, <2>4, <2>6, <2>8, <2>9 DEF FunctionHere
  <2>12. LineInv'
    BY <1>1, <1>2, <1>3, <1>8, <2>6, <2>9, <2>10, <2>11 DEF LineInv
  <2> QED
    BY <1>1, <1>9, <2>9, <2>12 DEF InfoInv, HeaderInv, FileInv, FunInv
<1> QED
  BY <1>10, <1>11

(* The stabs of the file up to the line that name a file: its own N_SO is the only
   N_SO among them, and has an address. *)
LEMMA NamesOfFile ==
  ASSUME stabs \in LinkedTables, FileHere, NEW n \in FileStabs
  PROVE  /\ {k \in lfile..n : NamesFile(k)}
              = {k \in FileStabs : k <= n /\ stabs[k].n_type \in {"SO", "SOL"}}
         /\ {k \in lfile..n : NamesFile(k)} # {}
<1>1. /\ lfile \in Int /\ rfile \in Int /\ n \in Int /\ lfile <= n /\ n <= rfile
      /\ lfile..rfile = FileStabs /\ lfile = FileOf
  BY DEF FileHere
<1>2. \A k \in FileStabs : k >= lfile /\ k \in Int
  BY <1>1
<1>3. stabs[lfile].n_type = "SO" /\ stabs[lfile].n_value # 0
  BY <1>1 DEF FileHere, FileLaid
<1>4. ASSUME NEW k \in FileStabs, stabs[k].n_type = "SO" PROVE k = lfile
  <2>1. \A i \in (lfile + 1)..k : stabs[i].n_type # "SO"
    BY <1>1, <1>4 DEF FileStabs, Extent, Until
  <2>2. k \in Int /\ k >= lfile
    BY <1>2
  <2>3. CASE k # lfile
    <3>1. k \in (lfile + 1)..k
      BY <1>1, <2>2, <2>3
    <3> QED
      BY <1>4, <2>1, <3>1
  <2> QED
    BY <2>3
<1>5. \A k : k \in lfile..n <=> k \in FileStabs /\ k <= n
  BY <1>1
<1>6. \A k \in FileStabs : NamesFile(k) <=> stabs[k].n_type \in {"SO", "SOL"}
  BY <1>3, <1>4 DEF NamesFile
<1>7. lfile \in lfile..n /\ NamesFile(lfile)
  BY <1>1, <1>3 DEF NamesFile
<1> QED
  BY <1>5, <1>6, <1>7

(* The arguments counted from the function's stab on are those of the function, when
   it has a line. *)
LEMMA ArgsOfFunction ==
  ASSUME lfun \in Int, rfun \in Int, FunctionHere, NEW n \in FunStabs, stabs[n].n_type = "SLINE"
  PROVE  Args = Cardinality({k \in FunStabs : stabs[k].n_type = "PSYM"})
<1>1. /\ lfun..rfun = FunStabs /\ n \in Int /\ lfun <= n /\ n <= rfun
      /\ stabs[lfun].n_type = "FUN" /\ lfun = FunOf
  BY DEF FunctionHere
<1>2. \A k \in FunStabs : stabs[k].n_type = "PSYM" => \A j \in (lfun + 1)..k : stabs[j].n_type = "PSYM"
  BY <1>1 DEF FunctionHere, FunctionLaid, Kind
<1>3. ASSUME NEW k \in FunStabs, stabs[k].n_type = "PSYM"
      PROVE  k \in (lfun + 1)..(rfun - 1) /\ \A j \in (lfun + 1)..k : stabs[j].n_type = "PSYM"
  <2>1. k \in Int /\ lfun <= k /\ k <= rfun /\ k # lfun /\ n # lfun
    BY <1>1, <1>3
  <2>2. n \notin (lfun + 1)..k
    BY <1>2, <1>3
  <2>3. k # rfun
    BY <1>1, <2>1, <2>2
  <2> QED
    BY <1>2, <1>3, <2>1, <2>3
<1>4. ASSUME NEW k \in (lfun + 1)..(rfun - 1), \A j \in (lfun + 1)..k : stabs[j].n_type = "PSYM"
      PROVE  k \in FunStabs /\ stabs[k].n_type = "PSYM"
  <2>1. k \in lfun..rfun /\ k \in (lfun + 1)..k
    OBVIOUS
  <2> QED
    BY <1>1, <1>4, <2>1
<1>5. {k \in (lfun + 1)..(rfun - 1) : \A j \in (lfun + 1)..k : stabs[j].n_type = "PSYM"}
        = {k \in FunStabs : stabs[k].n_type = "PSYM"}
  BY <1>3, <1>4
<1> QED
  BY <1>5 DEF Args

(* There are none when no function was found. *)
LEMMA NoArgs ==
  ASSUME lfun \in Int, rfun \in Int, lfun > rfun
  PROVE  Args = 0
<1>1. {k \in (lfun + 1)..(rfun - 1) : \A j \in (lfun + 1)..k : stabs[j].n_type = "PSYM"} = {}
  OBVIOUS
<1> QED
  BY <1>1, FS_EmptySet DEF Args

(* What the search for the line was given, and what it looks for. *)
LEMMA LineSearch ==
  ASSUME InfoInv, Returned("SLINE")
  PROVE  /\ Inv /\ FileHere /\ stabs \in LinkedTables /\ ~searching /\ type = "SLINE" /\ info = Known
         /\ eip \in Int /\ sought \in Int /\ lfun \in Int /\ rfun \in Int
         /\ Region \subseteq FileStabs /\ (FunOf # -1 => Region = FunStabs)
         /\ LineOf = Latest(type, Region, sought)
         /\ NoFunction \/ FunctionHere
         /\ \E v \in Int : v <= sought /\ Laid(stabs, Kind(stabs, type, Region), v)
<1>1. /\ result = "none" /\ ~searching /\ type = "SLINE" /\ Inv /\ sought = target /\ info = Known
      /\ FileHere /\ lfun \in Int /\ rfun \in Int /\ stabs \in LinkedTables /\ eip \in Int
      /\ (NoFunction \/ FunctionHere)
  BY AddrAssumption DEF InfoInv, LineInv, Returned
<1>2. /\ stabs[FileOf].n_value \in Int /\ stabs[FileOf].n_value <= eip
      /\ FileLaid(stabs, stabs[FileOf].n_value, FileStabs) /\ FileOf # -1 /\ FileStabs \subseteq All
      /\ lfile..rfile = FileStabs
  BY <1>1, TheTable DEF FileHere
<1>3. CASE NoFunction
  <2>1. Region = FileStabs /\ FunOf = -1 /\ sought = eip
    BY <1>1, <1>2, <1>3 DEF NoFunction, Region
  <2>2. LineOf = Latest(type, Region, sought)
    BY <1>1, <1>2, <2>1 DEF LineOf
  <2>3. Laid(stabs, Kind(stabs, type, Region), stabs[FileOf].n_value)
    BY <1>1, <1>2, <1>3, <2>1 DEF FileLaid, NoFunction
  <2> QED
    BY <1>1, <1>2, <2>1, <2>2, <2>3
<1>4. CASE FunctionHere
  <2>1. Region = FunStabs /\ FunOf # -1 /\ FunOf \in FileStabs /\ sought = eip - stabs[FunOf].n_value
    BY <1>1, <1>4 DEF FunctionHere, Region
  <2>2. LineOf = Latest(type, Region, sought)
    BY <1>1, <1>2, <2>1 DEF LineOf
  <2>3. Laid(stabs, Kind(stabs, type, Region), 0)
    BY <1>1, <1>4, <2>1 DEF FunctionHere, FunctionLaid
  <2>4. sought \in Int /\ 0 <= sought
    <3>1. stabs[FunOf].n_value \in Int /\ stabs[FunOf].n_value <= eip
      BY <1>1, <1>2, <1>4, <2>1, TheTable DEF FunctionHere
    <3> QED
      BY <1>1, <2>1, <3>1
  <2>5. Region \subseteq FileStabs
    BY <2>1 DEF FunStabs, Extent, Until
  <2> QED
    BY <1>1, <2>1, <2>2, <2>3, <2>4, <2>5
<1> QED
  BY <1>1, <1>3, <1>4

(* The line, and with it the answer. *)
LEMMA FindsLine ==
  ASSUME InfoInv, LineFound
  PROVE  InfoInv'
<1>1. /\ result = "none" /\ Returned("SLINE") /\ eip \in Addrs
      /\ UNCHANGED <<callVars, stabs, eip, target, lfile, rfile, lfun, rfun>>
  BY DEF InfoInv, LineFound, Returned, NoCall, callVars, regions
<1>2. /\ Inv /\ FileHere /\ stabs \in LinkedTables /\ ~searching /\ type = "SLINE" /\ info = Known
      /\ eip \in Int /\ sought \in Int /\ lfun \in Int /\ rfun \in Int
      /\ Region \subseteq FileStabs /\ (FunOf # -1 => Region = FunStabs)
      /\ LineOf = Latest(type, Region, sought)
      /\ (NoFunction \/ FunctionHere)
      /\ \E v \in Int : v <= sought /\ Laid(stabs, Kind(stabs, type, Region), v)
  BY <1>1, LineSearch
<1>3. /\ FunOf' = FunOf /\ FunStabs' = FunStabs /\ LineOf' = LineOf /\ SourceOf' = SourceOf
      /\ type' = type /\ searching' = searching /\ Inv'
  <2>1. Inv'
    BY <1>1, <1>2, InvStep
  <2> QED
    BY <1>1, <2>1, SameTable DEF callVars, searchVars
<1>4. InOrder(stabs, Kind(stabs, type, Region))
  BY <1>2 DEF Laid
<1>5. CASE Candidates = {}
  <2>1. region_left > region_right /\ LineOf = -1
    BY <1>2, <1>5, NoneFound
  <2>2. region_left \in Int /\ region_right \in Int
    BY <1>2, <1>4, CallEnds
  <2>3. result' = "-1" /\ info' = info
    BY <2>1, <2>2 DEF LineFound
  <2>4. InfoCorrect'
    BY <1>1, <1>2, <1>3, <2>1, <2>3 DEF NameOr, InfoCorrect, Known
  <2> QED
    BY <1>1, <1>2, <1>3, <2>3, <2>4 DEF InfoInv
<1>6. CASE Candidates # {}
  <2>1. /\ region_left = LineOf /\ region_left \in Region /\ region_left <= region_right
        /\ stabs[region_left].n_type = "SLINE"
    BY <1>2, <1>4, <1>6, Found DEF Matches
  <2>2. LineOf # -1 /\ LineOf \in FileStabs
    <3>1. All = 0..(Cardinality(All) - 1) /\ Cardinality(All) \in Nat /\ FileStabs \subseteq All
      BY <1>2, TheTable DEF FileHere
    <3> QED
      BY <1>2, <2>1, <3>1
  <2>3. FileName(LineOf) = NameOr(SourceOf, "<unknown>")
    <3>1. /\ {k \in lfile..LineOf : NamesFile(k)}
               = {k \in FileStabs : k <= LineOf /\ stabs[k].n_type \in {"SO", "SOL"}}
          /\ {k \in lfile..LineOf : NamesFile(k)} # {}
      BY <1>2, <2>2, NamesOfFile
    <3> QED
      BY <1>2, <3>1 DEF FileName, SourceOf, Known
  <2>4. Args = IF FunOf = -1 THEN 0 ELSE Cardinality({k \in FunStabs : stabs[k].n_type = "PSYM"})
    <3>1. CASE NoFunction
      BY <1>2, <3>1, NoArgs DEF NoFunction
    <3>2. CASE FunctionHere
      <4>1. FunOf # -1 /\ region_left \in FunStabs
        BY <1>2, <2>1, <3>2 DEF FunctionHere
      <4> QED
        BY <1>2, <2>1, <3>2, <4>1, ArgsOfFunction
    <3> QED
      BY <1>2, <3>1, <3>2
  <2>5. /\ result' = "0"
        /\ info' = [info EXCEPT !.line = stabs[LineOf].n_desc, !.file = FileName(LineOf), !.fn_narg = Args]
    BY <2>1 DEF LineFound
  <2>6. /\ info'.line = stabs[LineOf].n_desc /\ info'.file = NameOr(SourceOf, "<unknown>")
        /\ info'.fn_narg = Args /\ info'.fn_name = Known.fn_name /\ info'.fn_addr = Known.fn_addr
    BY <1>2, <2>3, <2>5 DEF Known
  <2>7. InfoCorrect'
    BY <1>1, <1>3, <2>2, <2>4, <2>5, <2>6 DEF NameOr, InfoCorrect, Known
  <2> QED
    BY <1>1, <1>2, <1>3, <2>5, <2>7 DEF InfoInv
<1> QED
  BY <1>5, <1>6

-----------------------------------------------------------------------------
(* The call as a whole. *)
LEMMA InfoInit == Init => InfoInv
<1> SUFFICES ASSUME Init PROVE InfoInv
  OBVIOUS
<1>1. stabs \in LinkedTables /\ eip \in Addrs /\ result = "none" /\ type = "HDR" /\ searching = FALSE
      /\ target = eip /\ info = Unknown
  BY DEF Init
<1> QED
  BY <1>1 DEF InfoInv, InfoCorrect, HeaderInv, FileInv, FunInv, LineInv

(* Nothing changes when the call takes no step. *)
LEMMA InfoStays == InfoInv /\ UNCHANGED vars => InfoInv'
<1> SUFFICES ASSUME InfoInv, UNCHANGED vars PROVE InfoInv'
  OBVIOUS
<1>1. UNCHANGED <<callVars, stabs, type, searching, first, last, sought, eip, target, lfile, rfile, lfun, rfun,
                  info, result>>
  BY DEF vars, callVars, searchVars, regions
<1>2. /\ FileOf' = FileOf /\ FileStabs' = FileStabs /\ FunOf' = FunOf /\ FunStabs' = FunStabs
      /\ LineOf' = LineOf /\ SourceOf' = SourceOf /\ All' = All /\ Known' = Known /\ Unknown' = Unknown
  BY <1>1, SameTable
<1>3. type # "HDR" => Inv'
  BY <1>1, InvStep DEF InfoInv
<1>4. FileHere => FileHere'
  BY <1>1, <1>2 DEF FileHere
<1>5. HeaderInv /\ FileInv /\ FunInv => HeaderInv' /\ FileInv' /\ FunInv'
  BY <1>1, <1>2, <1>4 DEF HeaderInv, FileInv, FunInv, Region
<1>6. LineInv => LineInv'
  <2>1. (NoFunction => NoFunction') /\ (FunctionHere => FunctionHere')
    BY <1>1, <1>2 DEF NoFunction, FunctionHere
  <2> QED
    BY <1>1, <1>2, <1>4, <2>1 DEF LineInv
<1>7. InfoCorrect'
  BY <1>1, <1>2 DEF NameOr, InfoInv, InfoCorrect
<1> QED
  BY <1>1, <1>3, <1>5, <1>6, <1>7 DEF InfoInv

LEMMA InfoStep == InfoInv /\ [Next]_vars => InfoInv'
<1> SUFFICES ASSUME InfoInv, [Next]_vars PROVE InfoInv'
  OBVIOUS
<1>1. CASE Entry
  BY <1>1, Enters
<1>2. CASE Searching
  BY <1>2, StaysInCall
<1>3. CASE FileFound
  BY <1>3, FindsFile
<1>4. CASE FunFound
  BY <1>4, FindsFunction
<1>5. CASE LineFound
  BY <1>5, FindsLine
<1>6. CASE UNCHANGED vars
  BY <1>6, InfoStays
<1> QED
  BY <1>1, <1>2, <1>3, <1>4, <1>5, <1>6 DEF Next

(* Whatever the compiler and the linker put into the table, each of the three calls
   of debuginfo_eip() gives stab_binsearch() a part of the table in which the stabs
   it looks for are in order. *)
THEOREM CallsSound == Spec => []CallsAreSound
<1>1. InfoInv => CallsAreSound
  BY DEF InfoInv, HeaderInv, Inv, Typed, SearchTypeOK, CallOK, CallsAreSound
<1> QED
  BY InfoInit, InfoStep, <1>1, PTL DEF Spec

(* Of every address in every such table, debuginfo_eip() reports the function, the
   line, the file and the number of arguments that the table gives it. *)
THEOREM InfoIsCorrect == Spec => []InfoCorrect
<1>1. InfoInv => InfoCorrect
  BY DEF InfoInv
<1> QED
  BY InfoInit, InfoStep, <1>1, PTL DEF Spec
===============================================================================
