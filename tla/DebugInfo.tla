------------------------------- MODULE DebugInfo ------------------------------
(***************************************************************************)
(* debuginfo_eip() of kern/kdebug.c: three searches with stab_binsearch()  *)
(* (StabSearch), for the file, the function and the line of an address, the  *)
(* second and third in the region the one before has left.  "type" tells   *)
(* which search is under way.                                              *)
(***************************************************************************)
EXTENDS StabSearch, FiniteSetsExt

CONSTANTS
  LinkedTables,   \* .stab sections as the linker lays them out, on 0..n-1
  ULIM            \* where the kernel's part of the address space begins

VARIABLES
  eip,                          \* the argument
  target,                       \* the code's addr: relative once a function is found
  lfile, rfile, lfun, rfun,     \* locals
  info,                         \* *info
  result                        \* "none" before the return; "panic" instead of one

regions == <<lfile, rfile, lfun, rfun>>
vars == <<callVars, eip, target, regions, info, result>>

-----------------------------------------------------------------------------
(* What the compiler and the linker put into .stab: a header entry, then the stabs
   of each file behind its N_SO, those of each function behind its N_FUN, its
   parameters first.  A kind of stab is in increasing order within what encloses it
   and begins at its start, and no two are at neighbouring addresses (StabSearch
   shows what happens to those). *)
Until(table, t, k, range) == {j \in range : j >= k /\ \A i \in (k + 1)..j : table[i].n_type # t}

Kind(table, t, range) == {k \in range : table[k].n_type = t}

InOrder(table, S) ==
  \A j, k \in S :
    j < k => table[j].n_value <= table[k].n_value /\ table[k].n_value # table[j].n_value + 1

BeginsAt(table, S, v) == S # {} => \E k \in S : table[k].n_value <= v

Laid(table, S, v) == InOrder(table, S) /\ BeginsAt(table, S, v)

FunctionLaid(table, g, range) ==
  /\ Laid(table, Kind(table, "SLINE", range), 0)
  /\ \A k \in Kind(table, "PSYM", range) : \A j \in (g + 1)..k : table[j].n_type = "PSYM"

FileLaid(table, v, range) ==
  /\ v # 0 /\ Laid(table, Kind(table, "FUN", range), v)
  /\ Kind(table, "FUN", range) = {} => Laid(table, Kind(table, "SLINE", range), v)
  /\ \A g \in Kind(table, "FUN", range) : FunctionLaid(table, g, Until(table, "FUN", g, range))

TableLaid(table) ==
  LET all == DOMAIN table
  IN  /\ IsFiniteSet(all) /\ all = 0..(Cardinality(all) - 1)
      /\ all # {} => table[0].n_type = "HDR"
      /\ InOrder(table, Kind(table, "SO", all))
      /\ \A f \in Kind(table, "SO", all) : FileLaid(table, table[f].n_value, Until(table, "SO", f, all))

ASSUME LinkedAssumption == \A t \in LinkedTables : t \in Tables /\ TableLaid(t)

-----------------------------------------------------------------------------
Unknown == [file |-> "<unknown>", line |-> 0, fn_name |-> "<unknown>", fn_addr |-> eip, fn_narg |-> 0]

(* The callers' struct is not initialised: its fields are never read before
   debuginfo_eip() has set them, so it starts here with what line 106 stores. *)
Init ==
  /\ stabs \in LinkedTables
  /\ eip \in Addrs /\ target = eip /\ info = Unknown /\ result = "none"
  /\ lfile = 0 /\ rfile = 0 /\ lfun = 0 /\ rfun = 0
  /\ type = "HDR" /\ addr = 0 /\ region_left = 0 /\ region_right = -1
  /\ first = 0 /\ last = -1 /\ sought = 0
  /\ l = 0 /\ r = -1 /\ any_matches = FALSE /\ searching = FALSE

-----------------------------------------------------------------------------
(* A call of stab_binsearch(). *)
SearchFor(t, a, left, right) ==
  /\ type' = t /\ addr' = a /\ sought' = a
  /\ region_left' = left /\ region_right' = right /\ first' = left /\ last' = right
  /\ l' = left /\ r' = right /\ any_matches' = FALSE /\ searching' = TRUE

Returned(t) == result = "none" /\ ~searching /\ type = t

NoCall == UNCHANGED <<searchVars, first, last, sought>>

Fail(why) == result' = why /\ NoCall

Entry ==
  /\ Returned("HDR")
  /\ \/ /\ eip < ULIM /\ Fail("panic")                        \* "User address"
     \/ /\ eip >= ULIM /\ DOMAIN stabs = {} /\ Fail("-1")     \* no string table
     \/ /\ eip >= ULIM /\ DOMAIN stabs # {}
        /\ SearchFor("SO", target, 0, Cardinality(DOMAIN stabs) - 1)
        /\ UNCHANGED result
  /\ UNCHANGED <<stabs, eip, target, regions, info>>

FileFound ==
  /\ Returned("SO")
  /\ lfile' = region_left /\ rfile' = region_right
  /\ IF region_left = 0
     THEN Fail("-1") /\ UNCHANGED <<lfun, rfun>>
     ELSE /\ SearchFor("FUN", target, region_left, region_right)
          /\ UNCHANGED <<lfun, rfun, result>>
  /\ UNCHANGED <<stabs, eip, target, info>>

(* A name that lies outside of the string table is not taken: "check bounds just in
   case". *)
Outside == "(outside)"

NameOr(k, name) == IF stabs[k].name = Outside THEN name ELSE stabs[k].name

(* Mutant of FunFound: the line is looked for by its absolute address. *)
FunFoundAbsolute ==
  /\ Returned("FUN")
  /\ lfun' = region_left /\ rfun' = region_right
  /\ IF region_left <= region_right
     THEN /\ info' = [info EXCEPT !.fn_name = NameOr(region_left, info.fn_name),
                                  !.fn_addr = stabs[region_left].n_value]
          /\ SearchFor("SLINE", target, region_left, region_right)
     ELSE info' = [info EXCEPT !.fn_addr = target] /\ SearchFor("SLINE", target, lfile, rfile)
  /\ UNCHANGED <<stabs, eip, target, lfile, rfile, result>>

(* Mutant of FunFound: the line is looked for in the whole file. *)
FunFoundWholeFile ==
  /\ Returned("FUN")
  /\ lfun' = region_left /\ rfun' = region_right
  /\ IF region_left <= region_right
     THEN /\ info' = [info EXCEPT !.fn_name = NameOr(region_left, info.fn_name),
                                  !.fn_addr = stabs[region_left].n_value]
          /\ target' = target - stabs[region_left].n_value
          /\ SearchFor("SLINE", target', lfile, rfile)
     ELSE /\ info' = [info EXCEPT !.fn_addr = target]
          /\ SearchFor("SLINE", target, lfile, rfile)
          /\ UNCHANGED target
  /\ UNCHANGED <<stabs, eip, lfile, rfile, result>>

FunFound ==
  /\ Returned("FUN")
  /\ lfun' = region_left /\ rfun' = region_right
  /\ IF region_left <= region_right
     THEN /\ info' = [info EXCEPT !.fn_name = NameOr(region_left, info.fn_name),
                                  !.fn_addr = stabs[region_left].n_value]
          /\ target' = target - stabs[region_left].n_value
          /\ SearchFor("SLINE", target', region_left, region_right)
     ELSE /\ info' = [info EXCEPT !.fn_addr = target]
          /\ SearchFor("SLINE", target, lfile, rfile)
          /\ UNCHANGED target
  /\ UNCHANGED <<stabs, eip, lfile, rfile, result>>

(* Going back from the line, a file name is an N_SOL or an N_SO with an address. *)
NamesFile(k) ==
  stabs[k].n_type = "SOL" \/ (stabs[k].n_type = "SO" /\ stabs[k].n_value # 0)

FileName(lline) ==
  LET names == {k \in lfile..lline : NamesFile(k)}
  IN  IF names = {} THEN info.file ELSE NameOr(Max(names), info.file)

Args ==
  Cardinality({k \in (lfun + 1)..(rfun - 1) : \A j \in (lfun + 1)..k : stabs[j].n_type = "PSYM"})

LineFound ==
  /\ Returned("SLINE")
  /\ IF region_left <= region_right
     THEN /\ info' = [info EXCEPT !.line = stabs[region_left].n_desc,
                                  !.file = FileName(region_left), !.fn_narg = Args]
          /\ result' = "0"
     ELSE result' = "-1" /\ UNCHANGED info
  /\ NoCall /\ UNCHANGED <<stabs, eip, target, regions>>

Searching == result = "none" /\ SearchNext /\ UNCHANGED <<eip, target, regions, info, result>>

Next == Entry \/ Searching \/ FileFound \/ FunFound \/ LineFound

Spec == Init /\ [][Next]_vars

(* One thread runs the call and nothing interrupts it. *)
FairSpec == Spec /\ WF_vars(Next)

-----------------------------------------------------------------------------
(* The answer, read off the whole table: the last stab of a kind in a range   *)
(* that starts at or before an address (-1 if there is none), and the end of  *)
(* what belongs to it.                                                        *)
Types == {"HDR", "SO", "SOL", "FUN", "PSYM", "SLINE"}

All == DOMAIN stabs

Latest(t, range, a) ==
  LET S == {k \in range : stabs[k].n_type = t /\ stabs[k].n_value <= a}
  IN  IF S = {} THEN -1 ELSE Max(S)

Extent(t, k, range) == Until(stabs, t, k, range)

FileOf == Latest("SO", All, eip)
FileStabs == Extent("SO", FileOf, All)
FunOf == IF FileOf = -1 THEN -1 ELSE Latest("FUN", FileStabs, eip)
FunStabs == Extent("FUN", FunOf, FileStabs)
LineOf ==
  CASE FileOf = -1 -> -1
    [] FileOf # -1 /\ FunOf = -1 -> Latest("SLINE", FileStabs, eip)
    [] OTHER -> Latest("SLINE", FunStabs, eip - stabs[FunOf].n_value)
SourceOf == Max({k \in FileStabs : k <= LineOf /\ stabs[k].n_type \in {"SO", "SOL"}})

(* Every call of stab_binsearch() is one it is proved for: the region is part of
   the table and the stabs of the type are in increasing order there, although
   N_SLINE stabs are not in the table as a whole. *)
CallsAreSound == searching => Region \subseteq DOMAIN stabs /\ Sorted

(* kdebug.c:97-103.  What the three nested searches find is what the table says
   of the address: the function and its start even when -1 is returned, and with
   0 the line, the file that line is from and the number of arguments; an address
   of the kernel that has a line is never reported unknown, but for a name that lies
   outside of the string table. *)
InfoCorrect ==
  /\ result \in {"0", "-1"} =>
       IF FunOf = -1 THEN info.fn_name = "<unknown>" /\ info.fn_addr = eip
       ELSE info.fn_name = NameOr(FunOf, "<unknown>") /\ info.fn_addr = stabs[FunOf].n_value
  /\ result = "-1" => LineOf = -1
  /\ result = "0" =>
       /\ LineOf # -1 /\ info.line = stabs[LineOf].n_desc
       /\ info.file = NameOr(SourceOf, "<unknown>")
       /\ info.fn_narg = IF FunOf = -1 THEN 0
                         ELSE Cardinality({k \in FunStabs : stabs[k].n_type = "PSYM"})

(* The searches end and debuginfo_eip() returns (or panics). *)
Answers == []<>~searching /\ <>(result # "none")
===============================================================================
