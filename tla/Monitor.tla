-------------------------------- MODULE Monitor -------------------------------
(***************************************************************************)
(* kern/monitor.c and the C part of kern/init.c: the kernel's first lines, *)
(* test_backtrace(), and the monitor that reads lines with readline(),     *)
(* cuts them into words in place and runs commands.  A line of output is   *)
(* one character and a newline on the screen; addresses of stack frames    *)
(* are their depths.  runcmd() has a frame, as in the source: a compiler   *)
(* that inlines it leaves the frame out.                                   *)
(***************************************************************************)
EXTENDS Readline, FiniteSets

CONSTANTS
  MAXARGS,       \* 16 in the source
  WHITESPACE,    \* a set of characters
  commands,      \* from the commands' functions to their names
  TestDepth,     \* the argument of test_backtrace(), 5 in the source
  Glyph,         \* the character that stands for a line of output
  Leftovers      \* what a word of the stack may hold that nothing has written yet

ASSUME ArgsAssumption == MAXARGS \in Nat \ {0, 1} /\ 0 \notin WHITESPACE /\ Glyph \in 33..126
ASSUME DepthAssumption == TestDepth \in Nat
ASSUME LeftoversAssumption == Leftovers \subseteq Int /\ Leftovers # {}
ASSUME CommandsAssumption ==
  /\ DOMAIN commands = {"mon_help", "mon_kerninfo", "mon_backtrace"}
  /\ \A f, g \in DOMAIN commands : commands[f] = commands[g] => f = g

VARIABLES
  at,            \* where the kernel is
  todo,          \* output statements that are next
  frames, ebp,   \* the stack: from depth to [saved, ret, arg], ret being the function
                 \* it returns into; its innermost frame
  walk,          \* the frame mon_backtrace() is at
  p, argc, argv, \* of runcmd()
  printed,       \* history: lines since the prompt
  line,          \* history: the line that was read
  calls          \* history: the functions that are active, innermost first

stack == <<frames, ebp, calls>>
parser == <<p, argc, argv>>
vars == <<readlineVars, at, todo, stack, walk, parser, printed, line>>

NULL == -1
Places == {"init", "test", "leaf", "leave", "welcome", "prompt", "readline", "gobble", "scan",
           "lookup", "walk", "walked", "done"}
Deepest == TestDepth + 4

-----------------------------------------------------------------------------
(* Output statements, and their execution one after the other. *)
Keep == -1    \* a colour that the statement leaves alone
cga_set_bg(bg) == [op |-> "colour", bg |-> bg, fg |-> Keep]
cga_set_fg(fg) == [op |-> "colour", bg |-> Keep, fg |-> fg]
cga_reset == [op |-> "colour", bg |-> 0, fg |-> 0]
cprintf(text, arg) == [op |-> "print", text |-> text, arg |-> arg]

Say(text, arg) == <<cprintf(text, arg)>>
InColours(bg, fg, text, arg) == <<cga_set_bg(bg), cga_set_fg(fg), cprintf(text, arg), cga_reset>>
InColour(fg, text, arg) == <<cga_set_fg(fg), cprintf(text, arg), cga_reset>>

Painted(from, s) == [bg |-> IF s.bg = Keep THEN from.bg ELSE s.bg,
                     fg |-> IF s.fg = Keep THEN from.fg ELSE s.fg]

Output ==
  /\ todo # << >>
  /\ LET s == Head(todo)
         attr == Attribute(colours.bg, colours.fg, Glyph)
     IN  IF s.op = "colour" THEN colours' = Painted(colours, s) /\ UNCHANGED <<scr, printed>>
         ELSE /\ scr' = CgaPutc(CgaPutc(scr, Glyph, attr), NL, attr)
              /\ printed' = Append(printed, [text |-> s.text, arg |-> s.arg, attr |-> attr])
              /\ UNCHANGED colours
  /\ todo' = Tail(todo)
  /\ UNCHANGED <<buf, i, pc, at, stack, walk, parser, line>>

(* The kernel goes on when all of it is printed. *)
Step(from, to) == todo = << >> /\ at = from /\ at' = to /\ UNCHANGED readlineVars

Push(fn, arg) ==
  /\ frames' = [frames EXCEPT ![ebp + 1] = [saved |-> ebp, ret |-> calls[1][1], arg |-> arg]]
  /\ ebp' = ebp + 1
  /\ calls' = <<<<fn, arg>>>> \o calls

Pop == ebp' = frames[ebp].saved /\ calls' = Tail(calls) /\ UNCHANGED frames

-----------------------------------------------------------------------------
(* i386_init() and test_backtrace(). *)
GRAY == 7
RED == 4
BLUE == 1
WHITE == 15
YELLOW == 14

FirstLine ==
  /\ Step("init", "test") /\ todo' = Say("6828", 0)
  /\ UNCHANGED <<stack, walk, parser, printed, line>>

Arg == IF ebp = 1 THEN TestDepth ELSE frames[ebp].arg - 1

Entering ==
  /\ Step("test", IF Arg > 0 THEN "test" ELSE "leaf")
  /\ Push("test_backtrace", Arg)
  /\ todo' = InColours(GRAY, RED, "entering", Arg)
  /\ UNCHANGED <<walk, parser, printed, line>>

(* mon_backtrace(0, 0, 0). *)
CallBacktrace ==
  /\ Step("leaf", "walk") /\ Push("mon_backtrace", 0)
  /\ walk' = ebp' /\ todo' = Say("Stack backtrace", 0)
  /\ UNCHANGED <<parser, printed, line>>

Leaving ==
  /\ at = "leave" /\ todo = << >>
  /\ todo' = InColours(GRAY, RED, "leaving", frames[ebp].arg)
  /\ Pop /\ at' = IF frames[ebp].ret = "test_backtrace" THEN "leave" ELSE "welcome"
  /\ UNCHANGED <<readlineVars, walk, parser, printed, line>>

(* The two lines of a frame: its argument, and where it returns to. *)
ShowCaller == InColour(YELLOW, frames[walk].ret, 0)

(* Mutant of ShowFrame: the colours are not reset at the end. *)
ShowFrameBlue == <<cga_set_bg(BLUE), cga_set_fg(WHITE), cprintf("frame", frames[walk].arg)>>

ShowFrame == InColours(BLUE, WHITE, "frame", frames[walk].arg)

(* Mutant of Bottom: the frame above the last one is taken for the end. *)
BottomShort == frames[walk].saved = 0

Bottom == walk = 0

(* One frame of the loop in mon_backtrace(), which ends at a zero ebp. *)
BacktraceFrame ==
  /\ todo = << >> /\ at = "walk"
  /\ IF Bottom THEN at' = "walked" /\ UNCHANGED <<walk, todo>>
     ELSE /\ walk' = frames[walk].saved /\ UNCHANGED at
          /\ todo' = ShowFrame \o ShowCaller
  /\ UNCHANGED <<readlineVars, stack, parser, printed, line>>

BacktraceReturns ==
  /\ todo = << >> /\ at = "walked"
  /\ Pop /\ at' = IF frames[ebp].ret = "test_backtrace" THEN "leave" ELSE "done"
  /\ UNCHANGED <<readlineVars, todo, walk, parser, printed, line>>

-----------------------------------------------------------------------------
(* monitor(). *)
Welcome ==
  /\ Step("welcome", "prompt") /\ Push("monitor", 0)
  /\ todo' = Say("Welcome", 0) \o Say("Type 'help'", 0)
  /\ UNCHANGED <<walk, parser, printed, line>>

(* No runcmd() is active here: its variables have no values, and what stands for
   them is never read. *)
NoParser == p' = 0 /\ argc' = 0 /\ argv' = [k \in 0..(MAXARGS - 1) |-> NULL]

CallReadline ==
  /\ todo = << >> /\ at = "prompt" /\ at' = "readline" /\ Call
  /\ printed' = << >> /\ line' = << >> /\ NoParser
  /\ UNCHANGED <<todo, stack, walk>>

Reading ==
  /\ at = "readline" /\ pc # "idle" /\ (PrintPrompt \/ \E c \in Inputs : Rubout(c) \/ Store(c) \/ Finish(c))
  /\ UNCHANGED <<at, todo, stack, walk, parser, printed, line>>

(* runcmd(buf, tf).  Its argv is not initialised: it holds what is on the stack. *)
RunCmd ==
  /\ at = "readline" /\ pc = "idle" /\ at' = "gobble"
  /\ line' = StringAt(0) /\ p' = 0 /\ argc' = 0
  /\ \E left \in [0..(MAXARGS - 1) -> Leftovers] : argv' = [left EXCEPT ![0] = NULL]
  /\ Push("runcmd", 0)
  /\ UNCHANGED <<readlineVars, todo, walk, printed>>

(* Mutant of TooMany: one place more, and none for the NULL. *)
TooManyLate == argc = MAXARGS

TooMany == argc = MAXARGS - 1

(* "*buf++ = 0". *)
Cut == [buf EXCEPT ![p] = 0]

(* Mutant of Ended: nothing is stored behind the last word. *)
EndedNever == argv

(* "argv[argc] = 0". *)
Ended == [argv EXCEPT ![argc] = NULL]

(* One turn of the first inner loop, or what follows it. *)
Gobble ==
  /\ at = "gobble" /\ todo = << >>
  /\ CASE buf[p] \in WHITESPACE ->
            buf' = Cut /\ p' = p + 1 /\ UNCHANGED <<argc, argv, at, todo>>
       [] buf[p] = 0 ->
            argv' = Ended /\ at' = "lookup" /\ UNCHANGED <<buf, p, argc, todo>>
       [] OTHER ->
            IF TooMany THEN at' = "done" /\ todo' = Say("Too many arguments", 0) /\ UNCHANGED <<buf, parser>>
            ELSE /\ argv' = [argv EXCEPT ![argc] = p] /\ argc' = argc + 1 /\ at' = "scan"
                 /\ UNCHANGED <<buf, p, todo>>
  /\ UNCHANGED <<scr, colours, i, pc, stack, walk, printed, line>>

(* Mutant of Onward: the pointer is not advanced. *)
OnwardNever == p

Onward == p + 1

(* The second inner loop. *)
Scan ==
  /\ at = "scan"
  /\ IF buf[p] # 0 /\ buf[p] \notin WHITESPACE THEN p' = Onward /\ UNCHANGED at
     ELSE at' = "gobble" /\ UNCHANGED p
  /\ UNCHANGED <<readlineVars, todo, stack, walk, argc, argv, printed, line>>

(* Mutant of Named: the command's name need only be a prefix. *)
NamedPrefix(name) ==
  {f \in DOMAIN commands : Len(commands[f]) <= Len(name) /\ SubSeq(name, 1, Len(commands[f])) = commands[f]}

Named(name) == {f \in DOMAIN commands : commands[f] = name}

(* One line of output for each line that the command prints. *)
mon_help == Say("help", 0) \o Say("help", 0) \o Say("help", 0)
mon_kerninfo ==
  Say("Special kernel symbols", 0) \o Say("symbol", 1) \o Say("symbol", 2) \o Say("symbol", 3)
  \o Say("symbol", 4) \o Say("symbol", 5) \o Say("footprint", 0)

Lookup ==
  /\ at = "lookup"
  /\ IF argc = 0 THEN at' = "done" /\ UNCHANGED <<todo, stack, walk>>
     ELSE IF "mon_backtrace" \in Named(StringAt(argv[0]))
     THEN at' = "walk" /\ Push("mon_backtrace", argc) /\ walk' = ebp' /\ todo' = Say("Stack backtrace", 0)
     ELSE /\ at' = "done" /\ UNCHANGED <<stack, walk>>
          /\ todo' = IF "mon_help" \in Named(StringAt(argv[0])) THEN mon_help
                     ELSE IF "mon_kerninfo" \in Named(StringAt(argv[0])) THEN mon_kerninfo
                     ELSE Say("Unknown command", 0)
  /\ UNCHANGED <<readlineVars, parser, printed, line>>

(* No command returns a negative number, so the monitor goes on. *)
RunCmdReturns ==
  /\ Step("done", "prompt") /\ Pop
  /\ UNCHANGED <<todo, walk, parser, printed, line>>

-----------------------------------------------------------------------------
Init ==
  /\ ReadlineInit
  /\ at = "init" /\ todo = << >> /\ walk = 0 /\ printed = << >> /\ line = << >>
  /\ frames = [d \in 0..Deepest |-> [saved |-> 0, ret |-> "entry", arg |-> 0]]
  /\ ebp = 1 /\ calls = <<<<"i386_init", 0>>>>
  /\ p = 0 /\ argc = 0 /\ argv = [k \in 0..(MAXARGS - 1) |-> NULL]

Kernel ==
  \/ Output \/ FirstLine \/ Entering \/ CallBacktrace \/ Leaving \/ BacktraceFrame \/ BacktraceReturns
  \/ Welcome \/ CallReadline \/ RunCmd \/ Gobble \/ Scan \/ Lookup \/ RunCmdReturns

Next == Kernel \/ Reading

Spec == Init /\ [][Next]_vars

(* The kernel goes on by itself except while it waits for a key. *)
FairSpec == Spec /\ WF_vars(Kernel) /\ WF_vars(pc = "prompt" /\ Reading)

-----------------------------------------------------------------------------
(* Types; runcmd()'s pointer stays in the buffer and its argc in argv. *)
TypeOK ==
  /\ ReadlineTypeOK
  /\ at \in Places /\ ebp \in 1..Deepest /\ walk \in 0..Deepest
  /\ p \in 0..(BUFLEN - 1) /\ argc \in 0..(MAXARGS - 1)
  /\ argv \in [0..(MAXARGS - 1) -> Leftovers \union {NULL} \union 0..(BUFLEN - 1)]
  /\ \A k \in 0..(argc - 1) : argv[k] \in 0..(BUFLEN - 1)
  /\ pc # "idle" => at = "readline" /\ todo = << >>

(* readline() promises its caller a line (LineEditor), until runcmd() cuts it. *)
Returned == at = "readline" /\ pc = "idle"
Editor == INSTANCE LineEditor
  WITH Max <- BUFLEN - 1, Printable <- {c \in Inputs : c >= SPACE},
       editing <- (pc # "idle"),
       line <- IF pc = "getchar" THEN Line ELSE << >>,
       result <- IF Returned THEN StringAt(0) ELSE << >>
ImplementsEditor == Editor!Spec

(* The words of a line. *)
IsWord(s, m, n) ==
  /\ m <= n /\ \A k \in m..n : s[k] \notin WHITESPACE
  /\ m = 1 \/ s[m - 1] \in WHITESPACE
  /\ n = Len(s) \/ s[n + 1] \in WHITESPACE
Words(s) == {SubSeq(s, b[1], b[2]) : b \in {b \in (1..Len(s)) \X (1..Len(s)) : IsWord(s, b[1], b[2])}}
WordStarts(s) == {m \in 1..Len(s) : \E n \in m..Len(s) : IsWord(s, m, n)}

(* What a command gets in argv are the words of the line that was typed, in their
   order and each ended, and a NULL behind them. *)
ArgvIsWords ==
  at = "lookup" =>
    /\ argv[argc] = NULL
    /\ {argv[k] + 1 : k \in 0..(argc - 1)} = WordStarts(line)
    /\ \A k \in 0..(argc - 1) :
         /\ IsWord(line, argv[k] + 1, argv[k] + Len(StringAt(argv[k])))
         /\ k > 0 => argv[k - 1] < argv[k]

(* What a backtrace prints behind its title are the functions that are active,
   innermost first: the argument of each and then the function that called it,
   down to i386_init and entry. *)
Functions == {"entry", "i386_init", "test_backtrace", "monitor", "runcmd", "mon_backtrace"}
CallerText(n) == IF n < Len(calls) THEN calls[n + 1][1] ELSE "entry"
BacktraceLists ==
  at = "walked" =>
    LET title == Len(printed) - 2 * Len(calls)
    IN  /\ title > 0 /\ printed[title].text = "Stack backtrace"
        /\ \A n \in 1..Len(calls) :
             /\ printed[title + 2 * n - 1].text = "frame"
             /\ printed[title + 2 * n - 1].arg = calls[n][2]
             /\ printed[title + 2 * n].text = CallerText(n)

(* What the monitor prints for a line follows from the line alone: nothing for a
   blank one, or "Too many arguments", the output of the command that its first
   word names, or "Unknown command". *)
FirstWord(s) ==
  CHOOSE w \in Words(s) : \E m \in WordStarts(s) : \E n \in m..Len(s) :
    IsWord(s, m, n) /\ w = SubSeq(s, m, n) /\ \A other \in WordStarts(s) : m <= other

Responds ==
  at = "prompt" /\ todo = << >> /\ argc + Len(line) > 0 =>
    LET n == Cardinality(WordStarts(line))
        texts == {printed[k].text : k \in 1..Len(printed)}
    IN  CASE n = 0 -> printed = << >>
          [] n >= MAXARGS -> texts = {"Too many arguments"}
          [] n \in 1..(MAXARGS - 1) /\ FirstWord(line) = commands["mon_help"] -> Len(printed) = 3
          [] n \in 1..(MAXARGS - 1) /\ FirstWord(line) = commands["mon_kerninfo"] -> Len(printed) = 7
          [] n \in 1..(MAXARGS - 1) /\ FirstWord(line) = commands["mon_backtrace"] -> Len(printed) = 9
          [] OTHER -> texts = {"Unknown command"}

(* Each kind of line has its colours, although functions that set and reset the
   same two variables call each other. *)
AttrOf(text) == CASE text \in {"entering", "leaving"} -> GRAY * 16 + RED
                  [] text = "frame" -> BLUE * 16 + WHITE
                  [] text \in Functions -> YELLOW
                  [] OTHER -> Default
InOwnColours == \A k \in 1..Len(printed) : printed[k].attr = AttrOf(printed[k].text)

(* The kernel comes to its prompt, and after every line to the next one: parsing
   and backtraces end. *)
Prompts == /\ <>(pc = "getchar")
           /\ (at = "gobble") ~> (pc = "getchar")
===============================================================================
