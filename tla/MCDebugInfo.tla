------------------------------ MODULE MCDebugInfo -----------------------------
(* Tables as the linker makes them from entry.S and one or two more files: a
   header entry, the stabs of each file, and an end mark after each C file.  No
   two stabs of one type are at neighbouring addresses (StabSearch shows what
   happens to those).  In some a name lies outside of the string table.  Besides, every direct call of stab_binsearch() on small
   tables with any stabs in any part of them. *)
EXTENDS DebugInfo, SequencesExt

Stab(t, v, d, s) == [n_type |-> t, n_value |-> v, n_desc |-> d, name |-> s]

(* A function of 6 bytes: its parameters, then lines at offsets 0, 2, 4, the
   last ones perhaps from an included file. *)
Shapes == [params : 0..1, lines : 1..3, inlined : {FALSE}] \union [params : {2}, lines : {3}, inlined : {TRUE}]

Function(v, s, name) ==
  <<Stab("FUN", v, 0, name)>>
  \o [i \in 1..s.params |-> Stab("PSYM", 8, 0, "x")]
  \o <<Stab("SLINE", 0, 10, "")>>
  \o (IF s.inlined THEN <<Stab("SOL", v + 2, 0, "inc/x86.h")>> ELSE <<>>)
  \o [i \in 1..(s.lines - 1) |-> Stab("SLINE", 2 * i, 10 + i, "")]

(* gcc writes the directory and the file name as two N_SO at one address. *)
CFile(v, funs, twice) ==
  (IF twice THEN <<Stab("SO", v, 0, "dir/")>> ELSE <<>>)
  \o <<Stab("SO", v, 0, "init.c")>>
  \o FlattenSeq([i \in 1..Len(funs) |-> Function(v + 6 * (i - 1), funs[i], <<"f", "g">>[i])])
  \o <<Stab("SO", v + 6 * Len(funs), 0, "")>>

AsmFile == <<Stab("SO", 10, 0, "{standard input}"), Stab("SOL", 10, 0, "entry.S"),
             Stab("SLINE", 10, 44, ""), Stab("SLINE", 12, 57, "")>>

Programs == {<<s>> : s \in Shapes} \union (Shapes \X Shapes)

Linked == {<<Stab("HDR", 0, 0, "")>> \o AsmFile \o CFile(14 + gap, p, twice) :
             gap \in {0, 2}, twice \in BOOLEAN, p \in Programs}

(* The string table is too short for some of the names. *)
Cropped(s, names) == [k \in 1..Len(s) |-> IF s[k].name \in names THEN [s[k] EXCEPT !.name = Outside] ELSE s[k]]

AllCropped ==
  {Cropped(s, {name}) :
     s \in {<<Stab("HDR", 0, 0, "")>> \o AsmFile \o CFile(14, <<p, q>>, FALSE) :
              p \in Shapes, q \in [params : {2}, lines : {3}, inlined : {TRUE}]},
     name \in {"f", "g", "init.c", "inc/x86.h", "entry.S"}}

MCLinked == {[k \in 0..(Len(s) - 1) |-> s[k + 1]] : s \in Linked \union AllCropped \union {<<>>}}

CONSTANTS N, MaxValue

Entries == {Stab(t, v, 0, "") : t \in {"FUN"}, v \in 0..MaxValue} \union {Stab("PSYM", 0, 0, "")}
AnyTables ==
  {t \in [0..(N - 1) -> Entries] :
     \A j, k \in 0..(N - 1) :
       j < k /\ t[j].n_type = "FUN" /\ t[k].n_type = "FUN" => t[j].n_value <= t[k].n_value}

MCTables == MCLinked \union AnyTables
MCAddrs == 0..29

DirectInit ==
  /\ stabs \in AnyTables /\ type = "FUN" /\ sought \in 0..MaxValue
  /\ SearchInit
  /\ eip = 0 /\ target = 0 /\ info = Unknown /\ result = "direct"
  /\ lfile = 0 /\ rfile = 0 /\ lfun = 0 /\ rfun = 0

MCInit == DirectInit \/ (Init /\ eip \in 7..29)
MCNext == Next \/ (result = "direct" /\ SearchNext /\ UNCHANGED <<eip, target, regions, info, result>>)
MCSpec == MCInit /\ [][MCNext]_vars /\ WF_vars(MCNext)
===============================================================================
