------------------------------ MODULE GradeProofs ------------------------------
(***************************************************************************)
(* Proofs about GradeRunner and GradeTests, for every size of a read, every *)
(* output of the kernel, every set of tests and every tree of dependencies; *)
(* what comes between a test and its parent, for tests in groups.          *)
(***************************************************************************)
EXTENDS GradeTests, FiniteSetTheorems, SequenceTheorems, TLAPS

-----------------------------------------------------------------------------
(* Where run_qemu() and run_tests() are, and what they hold there. *)
Places == {"build", "built", "idle", "popen", "start", "connect", "failed", "setup", "run",
           "finally", "drain", "close", "returned", "exit"}
Linked == {"setup", "run", "finally", "drain", "close"}
Between == {"build", "built", "idle"}
HasPopen == {"popen", "start", "connect", "failed"} \union Linked

(* The connection is there once it has been made, and the reactors of the loop are
   those of this run, unless Ctrl-C came before they were set. *)
LinksInv ==
  /\ at \in Places /\ gdb \in {"none", "open", "closed"} /\ proc \in BOOLEAN
  /\ reactors \in {"none", "mine", "old"} /\ interrupt \in {"no", "popen", "later"}
  /\ raised \in {"no", "assertion", "error", "interrupt"}
  /\ ready \subseteq {"qemu", "gdb"} /\ warned \in BOOLEAN
  /\ ready # {} => at \in Reacting /\ (at = "start" \/ reactors # "none")
  /\ at \in Linked => gdb # "none"
  /\ at = "run" => reactors = "mine"
  /\ at \in {"finally", "drain", "close"} /\ interrupt = "no" => reactors = "mine"
  /\ at \in Between => raised # "interrupt"

(* make runs only before a connection, and there is no child between two runs. *)
ChildInv ==
  /\ child \in Alive \union {"none", "exited", "reaped"}
  /\ at \in Between \union {"returned"} => child \in {"none", "reaped"}
  /\ at = "returned" => child = "reaped"
  /\ at \in Linked => child # "making"
  /\ at = "exit" /\ ~warned /\ interrupt # "popen" => child \in {"none", "reaped"}

(* What make may have written in this second is stamped before the next run. *)
ClockInv ==
  /\ wrote \in BOOLEAN /\ stamped \in BOOLEAN
  /\ wrote => \/ stamped \/ raised = "interrupt"
              \/ at \in {"build", "built", "popen", "start", "connect", "failed", "setup", "exit"}

(* The stub reports one stop, and the loop that it ends is the first or the second. *)
StopInv ==
  /\ sock \in {<<>>, <<"T05">>}
  /\ sock # <<>> \/ stop = "breakpoint" => child \notin {"making", "listening", "running"}
  /\ sock # <<>> => stop # "breakpoint"
  /\ at \in {"close", "returned"} => drain \in {"closed", "timeout", "line", "breakpoint"}
  /\ at \in {"close", "returned"} /\ drain = "breakpoint" => stop # "breakpoint"

Text == STRING \union {NewLine, Part}

(* What was printed is what was read and what is in the pipe, and QEMU is given up
   only when the pipe is empty and can get no more. *)
PipeInv ==
  /\ pipe \in Seq(Text) /\ output \in Seq(Text) /\ printed \in Seq(Text) /\ script \in Seq(Text)
  /\ output \o pipe = printed
  /\ "qemu" \in ready => child = "exited" \/ pipe # <<>>
  /\ at \in HasPopen /\ ~proc => pipe = <<>> /\ child = "reaped"
  /\ at \in {"close", "returned"} /\ drain = "closed" /\ interrupt = "no" =>
       pipe = <<>> /\ child = "reaped"

(* The tests that are running are tests, and a QEMU belongs to one that uses it. *)
Calls == [test : Tests, step : {"enter", "body", "fn"}]
TestInv ==
  /\ calls \in Seq(Calls) /\ complete \subseteq Tests
  /\ CURRENT_TEST \in Tests \union {"none"} /\ on_finish \subseteq UsesQemu
  /\ at \in HasPopen \union {"returned"} => CURRENT_TEST \in UsesQemu
  /\ entry \in Nat \ {0} /\ status \in {-1, 0, 1} /\ (status # -1 <=> at = "exit")
  /\ told \subseteq {"Z1", "c", "TERM"}

(* What the end of a loop, and Ctrl-C, leave behind. *)
Left(how) ==
  /\ ready' = {}
  /\ \/ at = "start" /\ at' = "failed" /\ stop' = stop /\ drain' = drain
     \/ at = "run" /\ at' = "finally" /\ stop' = how /\ drain' = drain
     \/ at = "drain" /\ at' = "close" /\ stop' = stop /\ drain' = how

(* A loop is left in one of three ways, by where it is. *)
LEMMA Leaves ==
  ASSUME at \in Reacting, NEW how, Leave(how)
  PROVE  Left(how)
<1>1. CASE at = "start"
  BY <1>1 DEF Leave, After, Left
<1>2. CASE at = "run"
  BY <1>2 DEF Leave, After, Left
<1>3. CASE at = "drain"
  BY <1>3 DEF Leave, After, Left
<1> QED
  BY <1>1, <1>2, <1>3 DEF Reacting

(* A round without anything to read ends the loop. *)
LEMMA RoundEnds ==
  ASSUME EndRound
  PROVE  /\ UNCHANGED <<childVars, told, clock, links, kept, outcome>>
         /\ \/ Left("timeout") /\ Open # {}
            \/ Left("closed") /\ Open = {}
<1>1. at \in Reacting
  BY DEF EndRound, Round
<1> QED
  BY <1>1, Leaves DEF EndRound

(* What a read of the GDB stub does: its end, or a breakpoint. *)
LEMMA GdbRead ==
  ASSUME ReadGdb
  PROVE  /\ UNCHANGED <<child, pipe, script, printed, told, clock, proc, reactors, kept, outcome>>
         /\ \/ sock = <<>> /\ gdb' = "closed" /\ ready' = {} /\ UNCHANGED <<sock, at, ends>>
            \/ sock # <<>> /\ sock' = Tail(sock) /\ Left("breakpoint") /\ UNCHANGED gdb
<1>1. at \in Reacting
  BY DEF ReadGdb
<1> QED
  BY <1>1, Leaves DEF ReadGdb

(* What a read of QEMU's output does, and the four ways in which it goes on. *)
Chunk == IF Len(pipe) < BUFSIZE THEN Len(pipe) ELSE BUFSIZE
ChunkRead == SubSeq(pipe, 1, Chunk)

LEMMA QemuRead ==
  ASSUME ReadQemu
  PROVE  /\ UNCHANGED <<sock, script, printed, told, clock, gdb, reactors, monitors, outcome>>
         /\ pipe' = SubSeq(pipe, Chunk + 1, Len(pipe)) /\ output' = output \o ChunkRead
         /\ at \in Reacting /\ "qemu" \in ready
         /\ \/ at = "start" /\ at' = "connect" /\ ready' = {} /\ UNCHANGED <<ends, proc, child>>
            \/ at = "start" /\ Left("closed") /\ UNCHANGED <<proc, child>>
            \/ Left("line") /\ UNCHANGED <<proc, child>>
            \/ /\ ready' = ready \ {"qemu"} /\ UNCHANGED <<at, ends>>
               /\ \/ ChunkRead = <<>> /\ proc' = FALSE /\ child' = "reaped"
                  \/ ChunkRead # <<>> /\ UNCHANGED <<proc, child>>
<1>1. at \in Reacting
  BY DEF ReadQemu
<1>2. ASSUME NEW how, Leave(how) PROVE Left(how)
  BY <1>1, <1>2, Leaves
<1> QED
  BY <1>1, <1>2 DEF ReadQemu, Keep, Chunk, ChunkRead

(* What a read leaves alone, and where the loop goes on. *)
LEMMA QemuMoves ==
  ASSUME ReadQemu
  PROVE  /\ UNCHANGED <<sock, told, clock, gdb, reactors, outcome>>
         /\ at \in Reacting
         /\ \/ at = "start" /\ at' = "connect" /\ ready' = {} /\ UNCHANGED <<ends, proc, child>>
            \/ at = "start" /\ Left("closed") /\ UNCHANGED <<proc, child>>
            \/ Left("line") /\ UNCHANGED <<proc, child>>
            \/ /\ ready' = ready \ {"qemu"} /\ UNCHANGED <<at, ends>>
               /\ \/ ~proc' /\ proc' \in BOOLEAN /\ child' = "reaped"
                  \/ UNCHANGED <<proc, child>>
  BY QemuRead

(* Where Ctrl-C takes run_qemu(). *)
LEMMA Interrupted ==
  ASSUME Interrupt, LinksInv
  PROVE  /\ interrupt' # "no" /\ interrupt' \in {"popen", "later"} /\ ready' = {}
         /\ UNCHANGED <<childVars, told, clock, links, kept, ends>>
         /\ \/ at \in {"start", "connect", "failed"} /\ at' = "failed" /\ raised' = raised /\ warned' = warned
            \/ at \in {"setup", "run"} /\ at' = "finally" /\ raised' = "interrupt" /\ warned' = warned
            \/ at \in {"finally", "drain", "close"} /\ at' = "exit" /\ raised' = raised /\ warned' = TRUE
            \/ at = "popen" /\ interrupt' = "popen" /\ at' = "exit" /\ raised' = raised /\ warned' = warned
            \/ at \in Between \union {"returned"} /\ at' = "exit" /\ raised' = raised /\ warned' = warned
<1>1. at \in Places /\ warned \in BOOLEAN
  BY DEF LinksInv
<1>2. CASE at \in {"start", "connect", "failed"}
  BY <1>1, <1>2 DEF Interrupt
<1>3. CASE at \in {"setup", "run"}
  BY <1>1, <1>3 DEF Interrupt
<1>4. CASE at \in {"finally", "drain", "close"}
  BY <1>1, <1>4 DEF Interrupt
<1>5. CASE at = "popen"
  BY <1>1, <1>5 DEF Interrupt
<1>6. CASE at \in Between \union {"returned"}
  BY <1>1, <1>6 DEF Interrupt, Between
<1>7. at # "exit"
  BY DEF Interrupt
<1> QED
  BY <1>1, <1>2, <1>3, <1>4, <1>5, <1>6, <1>7 DEF Places, Between

(* select() finds what is open and readable. *)
LEMMA Selecting ==
  ASSUME Select
  PROVE  /\ UNCHANGED <<childVars, told, clock, at, links, kept, ends, outcome>>
         /\ at \in Reacting /\ (at = "start" \/ reactors # "none")
         /\ ready' \subseteq {"qemu", "gdb"} /\ ("qemu" \in ready' => child = "exited" \/ pipe # <<>>)
<1>1. Reactors \subseteq {"qemu", "gdb"}
  BY DEF Reactors
<1>2. ready' \subseteq Reactors
  BY DEF Select, Readable, Open
<1>3. "qemu" \in ready' => child = "exited" \/ pipe # <<>>
  BY DEF Select, Readable
<1> QED
  BY <1>1, <1>2, <1>3 DEF Select, Round

(* The connection and the reactors are there at every step. *)
LEMMA LinksStep == LinksInv /\ [GradeNext]_gradeVars => LinksInv'
<1> SUFFICES ASSUME LinksInv, [GradeNext]_gradeVars PROVE LinksInv'
  OBVIOUS
<1> USE DEF childVars, clock, links, kept, ends, outcome, runnerVars, vars, testVars, progress, tally, gradeVars, Places, Linked, Between, Reacting
<1>1. CASE World /\ ChildStep
  <2> USE <1>1 DEF World, ChildStep
  <2>1. CASE MakePrints
    BY <2>1 DEF LinksInv, MakePrints, Emit
  <2>2. CASE StubListens
    BY <2>2 DEF LinksInv, StubListens
  <2>3. CASE Continue
    BY <2>3 DEF LinksInv, Continue
  <2>4. CASE KernelPrints
    BY <2>4 DEF LinksInv, KernelPrints, Emit
  <2>5. CASE BreakpointHit
    BY <2>5 DEF LinksInv, BreakpointHit
  <2>6. CASE Dies
    BY <2>6 DEF LinksInv, Dies, Alive
  <2> QED
    BY <2>1, <2>2, <2>3, <2>4, <2>5, <2>6
<1>2. CASE World /\ Tick
  BY <1>2 DEF LinksInv, World, Tick
<1>3. CASE RunQemu
  <2> USE <1>3 DEF RunQemu
  <2>1. CASE Try
    BY <2>1 DEF LinksInv, Try
  <2>2. CASE Select
    BY <2>2, Selecting DEF LinksInv, Left
  <2>3. CASE EndRound
    BY <2>3, RoundEnds DEF LinksInv, Left
  <2>4. CASE ReadQemu
    <3>1. at \in {"start", "run", "drain"} /\ reactors' = reactors /\ interrupt' = interrupt /\ raised' = raised /\ warned' = warned /\ gdb' = gdb
      BY <2>4, QemuMoves
    <3>2. proc' \in BOOLEAN
      BY <2>4, QemuMoves DEF LinksInv
    <3>3. \/ ready' = {} /\ at = "start" /\ at' \in {"connect", "failed"}
          \/ ready' = {} /\ at = "run" /\ at' = "finally"
          \/ ready' = {} /\ at = "drain" /\ at' = "close"
          \/ ready' = ready \ {"qemu"} /\ at' = at
      BY <2>4, QemuMoves DEF Left
    <3> QED
      BY <3>1, <3>2, <3>3 DEF LinksInv
  <2>5. CASE ReadGdb
    BY <2>5, GdbRead DEF LinksInv, Left
  <2>6. CASE Connect
    BY <2>6 DEF LinksInv, Connect
  <2>7. CASE Fail
    BY <2>7 DEF LinksInv, Fail
  <2>8. CASE SetUp
    BY <2>8 DEF LinksInv, SetUp
  <2>9. CASE Shutdown
    BY <2>9 DEF LinksInv, Shutdown, kill
  <2>10. CASE Close
    BY <2>10 DEF LinksInv, Close, wait
  <2> QED
    BY <2>1, <2>2, <2>3, <2>4, <2>5, <2>6, <2>7, <2>8, <2>9, <2>10 DEF RunnerStep
<1>4. CASE Build
  BY <1>4 DEF LinksInv, Build, GoTo
<1>5. CASE PostMake
  BY <1>5 DEF LinksInv, PostMake, GoTo
<1>6. CASE NextEntry
  BY <1>6 DEF LinksInv, NextEntry
<1>7. CASE Enter
  BY <1>7 DEF LinksInv, Enter
<1>8. CASE Body
  BY <1>8 DEF LinksInv, Body, StartQemu, PreMake, GoTo
<1>9. CASE Judge
  BY <1>9 DEF LinksInv, Judge, Judging, Score, GoTo
<1>10. CASE Abort
  BY <1>10 DEF LinksInv, Abort, GoTo
<1>11. CASE Finish
  BY <1>11 DEF LinksInv, Finish, GoTo
<1>12. CASE CtrlC
  BY <1>12, Interrupted DEF LinksInv, CtrlC
<1>13. CASE UNCHANGED gradeVars
  BY <1>13 DEF LinksInv, Alive
<1> QED
  BY <1>1, <1>2, <1>3, <1>4, <1>5, <1>6, <1>7, <1>8, <1>9, <1>10, <1>11, <1>12, <1>13 DEF GradeNext, Grader, World

(* No child is left behind, at every step. *)
LEMMA ChildStepKeeps == LinksInv /\ ChildInv /\ [GradeNext]_gradeVars => ChildInv'
<1> SUFFICES ASSUME LinksInv, ChildInv, [GradeNext]_gradeVars PROVE ChildInv'
  OBVIOUS
<1> USE DEF childVars, clock, links, kept, ends, outcome, runnerVars, vars, testVars, progress, tally, gradeVars, Places, Linked, Between, Reacting, Alive
<1>1. CASE World /\ ChildStep
  <2> USE <1>1 DEF World, ChildStep
  <2>1. CASE MakePrints
    BY <2>1 DEF ChildInv, MakePrints, Emit
  <2>2. CASE StubListens
    BY <2>2 DEF ChildInv, StubListens
  <2>3. CASE Continue
    BY <2>3 DEF ChildInv, Continue
  <2>4. CASE KernelPrints
    BY <2>4 DEF ChildInv, KernelPrints, Emit
  <2>5. CASE BreakpointHit
    BY <2>5 DEF ChildInv, BreakpointHit
  <2>6. CASE Dies
    BY <2>6 DEF ChildInv, Dies, Alive
  <2> QED
    BY <2>1, <2>2, <2>3, <2>4, <2>5, <2>6
<1>2. CASE World /\ Tick
  BY <1>2 DEF ChildInv, World, Tick
<1>3. CASE RunQemu
  <2> USE <1>3 DEF RunQemu
  <2>1. CASE Try
    BY <2>1 DEF ChildInv, Try
  <2>2. CASE Select
    BY <2>2, Selecting DEF ChildInv, Left
  <2>3. CASE EndRound
    BY <2>3, RoundEnds DEF ChildInv, Left
  <2>4. CASE ReadQemu
    BY <2>4, QemuMoves DEF ChildInv, Left
  <2>5. CASE ReadGdb
    BY <2>5, GdbRead DEF ChildInv, Left
  <2>6. CASE Connect
    BY <2>6 DEF ChildInv, Connect
  <2>7. CASE Fail
    BY <2>7 DEF ChildInv, Fail
  <2>8. CASE SetUp
    BY <2>8 DEF ChildInv, SetUp
  <2>9. CASE Shutdown
    BY <2>9 DEF ChildInv, Shutdown, kill
  <2>10. CASE Close
    BY <2>10 DEF ChildInv, Close, wait
  <2> QED
    BY <2>1, <2>2, <2>3, <2>4, <2>5, <2>6, <2>7, <2>8, <2>9, <2>10 DEF RunnerStep
<1>4. CASE Build
  BY <1>4 DEF ChildInv, Build, GoTo
<1>5. CASE PostMake
  BY <1>5 DEF ChildInv, PostMake, GoTo
<1>6. CASE NextEntry
  BY <1>6 DEF ChildInv, NextEntry
<1>7. CASE Enter
  BY <1>7 DEF ChildInv, Enter
<1>8. CASE Body
  BY <1>8 DEF ChildInv, Body, StartQemu, PreMake, GoTo
<1>9. CASE Judge
  BY <1>9 DEF ChildInv, Judge, Judging, Score, GoTo
<1>10. CASE Abort
  BY <1>10 DEF ChildInv, Abort, GoTo
<1>11. CASE Finish
  BY <1>11 DEF ChildInv, Finish, GoTo
<1>12. CASE CtrlC
  BY <1>12, Interrupted DEF ChildInv, CtrlC
<1>13. CASE UNCHANGED gradeVars
  BY <1>13 DEF ChildInv, Alive
<1> QED
  BY <1>1, <1>2, <1>3, <1>4, <1>5, <1>6, <1>7, <1>8, <1>9, <1>10, <1>11, <1>12, <1>13 DEF GradeNext, Grader, World

(* A second in which make may have written stays known, at every step. *)
LEMMA ClockStep == LinksInv /\ ChildInv /\ ClockInv /\ [GradeNext]_gradeVars => ClockInv'
<1> SUFFICES ASSUME LinksInv, ChildInv, ClockInv, [GradeNext]_gradeVars PROVE ClockInv'
  OBVIOUS
<1> USE DEF childVars, clock, links, kept, ends, outcome, runnerVars, vars, testVars, progress, tally, gradeVars, Places, Linked, Between, Reacting
<1>1. CASE World /\ ChildStep
  <2> USE <1>1 DEF World, ChildStep
  <2>1. CASE MakePrints
    BY <2>1 DEF ClockInv, MakePrints, Emit
  <2>2. CASE StubListens
    BY <2>2 DEF ClockInv, StubListens, LinksInv, ChildInv
  <2>3. CASE Continue
    BY <2>3 DEF ClockInv, Continue
  <2>4. CASE KernelPrints
    BY <2>4 DEF ClockInv, KernelPrints, Emit
  <2>5. CASE BreakpointHit
    BY <2>5 DEF ClockInv, BreakpointHit
  <2>6. CASE Dies
    BY <2>6 DEF ClockInv, Dies, Alive
  <2> QED
    BY <2>1, <2>2, <2>3, <2>4, <2>5, <2>6
<1>2. CASE World /\ Tick
  BY <1>2 DEF ClockInv, World, Tick
<1>3. CASE RunQemu
  <2> USE <1>3 DEF RunQemu
  <2>1. CASE Try
    BY <2>1 DEF ClockInv, Try
  <2>2. CASE Select
    BY <2>2, Selecting DEF ClockInv, Left
  <2>3. CASE EndRound
    BY <2>3, RoundEnds DEF ClockInv, Left
  <2>4. CASE ReadQemu
    <3>1. wrote' = wrote /\ stamped' = stamped /\ raised' = raised
      BY <2>4, QemuMoves
    <3>2. \/ at = "start" /\ at' \in {"connect", "failed"}
          \/ at = "run" /\ at' = "finally"
          \/ at = "drain" /\ at' = "close"
          \/ at' = at
      BY <2>4, QemuMoves DEF Left
    <3> QED
      BY <3>1, <3>2 DEF ClockInv
  <2>5. CASE ReadGdb
    BY <2>5, GdbRead DEF ClockInv, Left
  <2>6. CASE Connect
    BY <2>6 DEF ClockInv, Connect
  <2>7. CASE Fail
    BY <2>7 DEF ClockInv, Fail
  <2>8. CASE SetUp
    BY <2>8 DEF ClockInv, SetUp
  <2>9. CASE Shutdown
    BY <2>9 DEF ClockInv, Shutdown, kill
  <2>10. CASE Close
    BY <2>10 DEF ClockInv, Close, wait
  <2> QED
    BY <2>1, <2>2, <2>3, <2>4, <2>5, <2>6, <2>7, <2>8, <2>9, <2>10 DEF RunnerStep
<1>4. CASE Build
  BY <1>4 DEF ClockInv, Build, GoTo
<1>5. CASE PostMake
  BY <1>5 DEF ClockInv, PostMake, GoTo
<1>6. CASE NextEntry
  BY <1>6 DEF ClockInv, NextEntry
<1>7. CASE Enter
  BY <1>7 DEF ClockInv, Enter
<1>8. CASE Body
  BY <1>8 DEF ClockInv, Body, StartQemu, PreMake, GoTo
<1>9. CASE Judge
  BY <1>9 DEF ClockInv, Judge, Judging, Score, GoTo
<1>10. CASE Abort
  BY <1>10 DEF ClockInv, Abort, GoTo
<1>11. CASE Finish
  BY <1>11 DEF ClockInv, Finish, GoTo
<1>12. CASE CtrlC
  BY <1>12, Interrupted DEF ClockInv, CtrlC
<1>13. CASE UNCHANGED gradeVars
  BY <1>13 DEF ClockInv, Alive
<1> QED
  BY <1>1, <1>2, <1>3, <1>4, <1>5, <1>6, <1>7, <1>8, <1>9, <1>10, <1>11, <1>12, <1>13 DEF GradeNext, Grader, World

(* At most one breakpoint is reported, at every step. *)
LEMMA StopStep == LinksInv /\ ChildInv /\ StopInv /\ [GradeNext]_gradeVars => StopInv'
<1> SUFFICES ASSUME LinksInv, ChildInv, StopInv, [GradeNext]_gradeVars PROVE StopInv'
  OBVIOUS
<1> USE DEF childVars, clock, links, kept, ends, outcome, runnerVars, vars, testVars, progress, tally, gradeVars, Places, Linked, Between, Reacting, Alive
<1>1. CASE World /\ ChildStep
  <2> USE <1>1 DEF World, ChildStep
  <2>1. CASE MakePrints
    BY <2>1 DEF StopInv, MakePrints, Emit
  <2>2. CASE StubListens
    BY <2>2 DEF StopInv, StubListens
  <2>3. CASE Continue
    BY <2>3 DEF StopInv, Continue
  <2>4. CASE KernelPrints
    BY <2>4 DEF StopInv, KernelPrints, Emit
  <2>5. CASE BreakpointHit
    <3>1. sock = <<>> /\ stop # "breakpoint"
      BY <2>5 DEF StopInv, BreakpointHit
    <3>2. Append(sock, "T05") = <<"T05">>
      BY <3>1
    <3> QED
      BY <2>5, <3>1, <3>2 DEF StopInv, BreakpointHit
  <2>6. CASE Dies
    BY <2>6 DEF StopInv, Dies, Alive
  <2> QED
    BY <2>1, <2>2, <2>3, <2>4, <2>5, <2>6
<1>2. CASE World /\ Tick
  BY <1>2 DEF StopInv, World, Tick
<1>3. CASE RunQemu
  <2> USE <1>3 DEF RunQemu
  <2>1. CASE Try
    BY <2>1 DEF StopInv, Try
  <2>2. CASE Select
    BY <2>2, Selecting DEF StopInv, Left
  <2>3. CASE EndRound
    BY <2>3, RoundEnds DEF StopInv, Left
  <2>4. CASE ReadQemu
    BY <2>4, QemuMoves DEF StopInv, Left
  <2>5. CASE ReadGdb
    <3>1. sock # <<>> => Tail(sock) = <<>>
      <4>1. Tail(<<"T05">>) = <<>>
        OBVIOUS
      <4> QED
        BY <4>1 DEF StopInv
    <3> QED
      BY <2>5, <3>1, GdbRead DEF StopInv, Left
  <2>6. CASE Connect
    BY <2>6 DEF StopInv, Connect
  <2>7. CASE Fail
    BY <2>7 DEF StopInv, Fail
  <2>8. CASE SetUp
    BY <2>8 DEF StopInv, SetUp
  <2>9. CASE Shutdown
    BY <2>9 DEF StopInv, Shutdown, kill
  <2>10. CASE Close
    BY <2>10 DEF StopInv, Close, wait
  <2> QED
    BY <2>1, <2>2, <2>3, <2>4, <2>5, <2>6, <2>7, <2>8, <2>9, <2>10 DEF RunnerStep
<1>4. CASE Build
  BY <1>4 DEF StopInv, Build, GoTo
<1>5. CASE PostMake
  BY <1>5 DEF StopInv, PostMake, GoTo
<1>6. CASE NextEntry
  BY <1>6 DEF StopInv, NextEntry
<1>7. CASE Enter
  BY <1>7 DEF StopInv, Enter
<1>8. CASE Body
  BY <1>8 DEF StopInv, Body, StartQemu, PreMake, GoTo
<1>9. CASE Judge
  BY <1>9 DEF StopInv, Judge, Judging, Score, GoTo
<1>10. CASE Abort
  BY <1>10 DEF StopInv, Abort, GoTo
<1>11. CASE Finish
  BY <1>11 DEF StopInv, Finish, GoTo
<1>12. CASE CtrlC
  BY <1>12, Interrupted DEF StopInv, CtrlC
<1>13. CASE UNCHANGED gradeVars
  BY <1>13 DEF StopInv, Alive
<1> QED
  BY <1>1, <1>2, <1>3, <1>4, <1>5, <1>6, <1>7, <1>8, <1>9, <1>10, <1>11, <1>12, <1>13 DEF GradeNext, Grader, World

-----------------------------------------------------------------------------
(* The lines that are printed. *)
LEMMA Texts ==
  ASSUME NEW s \in Scripts
  PROVE  s \in Seq(Text)
<1>1. s \in Seq(STRING)
  BY ScriptAssumption
<1>2. \A k \in 1..Len(s) : s[k] \in Text
  BY <1>1, ElementOfSeq DEF Text
<1> HIDE DEF Text
<1> QED
  BY <1>1, <1>2

(* Nothing is lost between the pipe and what has been read. *)
LEMMA Appended ==
  ASSUME NEW S, NEW s \in Seq(S), NEW t \in Seq(S), NEW e \in S
  PROVE  Append(t, e) \in Seq(S) /\ s \o Append(t, e) = Append(s \o t, e)
<1> DEFINE one == <<e>>
<1>1. one \in Seq(S) /\ Append(t, e) = t \o one /\ Append(t, e) \in Seq(S) /\ s \o t \in Seq(S)
  BY AppendIsConcat, AppendProperties, ConcatProperties
<1>2. Append(s \o t, e) = (s \o t) \o one
  BY <1>1, AppendIsConcat
<1> HIDE DEF one
<1>3. (s \o t) \o one = s \o (t \o one)
  BY <1>1, ConcatAssociative
<1> QED
  BY <1>1, <1>2, <1>3

Rejoined(s, a, b, t) == (s \o a) \o b = s \o t

(* Two parts of a sequence make up the whole. *)
LEMMA Cut ==
  ASSUME NEW S, NEW s \in Seq(S), NEW t \in Seq(S), NEW n \in 0..Len(t)
  PROVE  /\ SubSeq(t, 1, n) \in Seq(S) /\ SubSeq(t, n + 1, Len(t)) \in Seq(S)
         /\ s \o SubSeq(t, 1, n) \in Seq(S)
         /\ Rejoined(s, SubSeq(t, 1, n), SubSeq(t, n + 1, Len(t)), t)
<1> DEFINE u == SubSeq(t, 1, n)
           v == SubSeq(t, n + 1, Len(t))
<1>1. Len(t) \in Nat /\ n \in Nat /\ n <= Len(t)
  OBVIOUS
<1>2. \A k \in 1..Len(t) : t[k] \in S
  BY ElementOfSeq
<1>3. u \in Seq(S)
  BY <1>1, <1>2, SubSeqProperties, 1 \in Int
<1>4. v \in Seq(S)
  <2>1. n + 1 \in Int /\ Len(t) \in Int /\ \A k \in (n + 1)..Len(t) : t[k] \in S
    BY <1>1, <1>2
  <2> QED
    BY <2>1, SubSeqProperties
<1>5. u \o v = t
  <2>1. 1 \in 1..(Len(t) + 1) /\ n \in (1 - 1)..Len(t) /\ Len(t) \in n..Len(t)
    BY <1>1
  <2>2. SubSeq(t, 1, n) \o SubSeq(t, n + 1, Len(t)) = SubSeq(t, 1, Len(t))
    BY <2>1, ConcatAdjacentSubSeq
  <2> QED
    BY <2>2, SubSeqFull
<1> HIDE DEF u, v
<1>6. (s \o u) \o v = s \o (u \o v) /\ s \o u \in Seq(S)
  BY <1>3, <1>4, ConcatAssociative, ConcatProperties
<1>7. (s \o u) \o v = s \o t
  BY <1>5, <1>6
<1> QED
  BY <1>3, <1>4, <1>6, <1>7 DEF u, v, Rejoined

(* A chunk of at most BUFSIZE lines and the rest make up the pipe. *)
LEMMA Chunks ==
  ASSUME pipe \in Seq(Text)
  PROVE  /\ Chunk \in 0..Len(pipe)
         /\ ChunkRead = <<>> => pipe = <<>>
         /\ pipe = <<>> => SubSeq(pipe, Chunk + 1, Len(pipe)) = <<>>
<1>1. Len(pipe) \in Nat /\ BUFSIZE \in Nat /\ BUFSIZE > 0
  BY BufferAssumption
<1>2. Chunk \in 0..Len(pipe) /\ (Len(pipe) > 0 => Chunk > 0) /\ Chunk \in Nat
  BY <1>1 DEF Chunk
<1>3. ASSUME ChunkRead = <<>> PROVE pipe = <<>>
  <2>1. \A k \in 1..Chunk : pipe[k] \in Text
    <3>1. \A k \in 1..Chunk : k \in 1..Len(pipe)
      BY <1>1, <1>2
    <3> QED
      BY <3>1, ElementOfSeq
  <2>2. Len(SubSeq(pipe, 1, Chunk)) = IF 1 <= Chunk THEN Chunk - 1 + 1 ELSE 0
    BY <1>2, <2>1, SubSeqProperties, 1 \in Int, Chunk \in Int
  <2>3. Len(SubSeq(pipe, 1, Chunk)) = 0
    <3>1. Len(ChunkRead) = 0
      BY <1>3
    <3> QED
      BY <3>1 DEF ChunkRead
  <2>4. Chunk = 0
    BY <1>2, <2>2, <2>3
  <2>5. Len(pipe) = 0
    BY <1>1, <1>2, <2>4
  <2> QED
    BY <2>5, EmptySeq
<1>4. ASSUME pipe = <<>> PROVE SubSeq(pipe, Chunk + 1, Len(pipe)) = <<>>
  <2>1. Len(pipe) = 0
    BY <1>4
  <2>2. Chunk + 1 \in Int /\ Len(pipe) \in Int /\ Len(pipe) < Chunk + 1
    BY <1>2, <2>1
  <2> QED
    BY <2>2, SubSeqEmpty
<1> QED
  BY <1>2, <1>3, <1>4

(* The same of a read. *)
LEMMA ChunkCut ==
  ASSUME pipe \in Seq(Text), output \in Seq(Text)
  PROVE  /\ SubSeq(pipe, Chunk + 1, Len(pipe)) \in Seq(Text)
         /\ output \o ChunkRead \in Seq(Text)
         /\ (output \o ChunkRead) \o SubSeq(pipe, Chunk + 1, Len(pipe)) = output \o pipe
<1>1. Chunk \in 0..Len(pipe)
  BY Chunks
<1> HIDE DEF Chunk
<1>2. /\ SubSeq(pipe, Chunk + 1, Len(pipe)) \in Seq(Text)
      /\ output \o SubSeq(pipe, 1, Chunk) \in Seq(Text)
  BY <1>1, Cut
<1>3. Rejoined(output, SubSeq(pipe, 1, Chunk), SubSeq(pipe, Chunk + 1, Len(pipe)), pipe)
  BY <1>1, Cut
<1> QED
  BY <1>2, <1>3 DEF ChunkRead, Rejoined

(* What was read and what is in the pipe make up what was printed, at every step. *)
LEMMA PipeStep == LinksInv /\ ChildInv /\ PipeInv /\ [GradeNext]_gradeVars => PipeInv'
<1> SUFFICES ASSUME LinksInv, ChildInv, PipeInv, [GradeNext]_gradeVars PROVE PipeInv'
  OBVIOUS
<1> USE DEF childVars, clock, links, kept, ends, outcome, runnerVars, vars, testVars, progress, tally, gradeVars, Places, Linked, Between, Reacting, Alive, HasPopen
<1>1. CASE World /\ ChildStep
  <2> USE <1>1 DEF World, ChildStep
  <2>1. CASE MakePrints
    <3>1. pipe \in Seq(Text) /\ output \in Seq(Text) /\ printed \in Seq(Text) /\ output \o pipe = printed
      BY DEF PipeInv
    <3>2. PICK line \in Text : Emit(line)
      BY <2>1 DEF MakePrints, Text
    <3>3. /\ pipe' \in Seq(Text) /\ printed' \in Seq(Text) /\ output \o pipe' = printed' /\ pipe' # <<>>
      <4>1. output \o Append(pipe, line) = Append(output \o pipe, line)
        BY <3>1, Appended
      <4>2. Append(pipe, line) \in Seq(Text) /\ Append(printed, line) \in Seq(Text) /\ Append(pipe, line) # <<>>
        BY <3>1, AppendProperties
      <4> QED
        BY <3>1, <3>2, <4>1, <4>2 DEF Emit
    <3> QED
      BY <2>1, <3>3 DEF PipeInv, MakePrints, Text, ChildInv
  <2>2. CASE StubListens
    BY <2>2 DEF PipeInv, StubListens
  <2>3. CASE Continue
    BY <2>3 DEF PipeInv, Continue
  <2>4. CASE KernelPrints
    <3>1. pipe \in Seq(Text) /\ output \in Seq(Text) /\ printed \in Seq(Text) /\ output \o pipe = printed
      BY DEF PipeInv
    <3>2. PICK line \in Text : Emit(line)
      BY <2>4, HeadTailProperties DEF KernelPrints, PipeInv
    <3>3. /\ pipe' \in Seq(Text) /\ printed' \in Seq(Text) /\ output \o pipe' = printed' /\ pipe' # <<>>
      <4>1. output \o Append(pipe, line) = Append(output \o pipe, line)
        BY <3>1, Appended
      <4>2. Append(pipe, line) \in Seq(Text) /\ Append(printed, line) \in Seq(Text) /\ Append(pipe, line) # <<>>
        BY <3>1, AppendProperties
      <4> QED
        BY <3>1, <3>2, <4>1, <4>2 DEF Emit
    <3> QED
      BY <2>4, <3>3, HeadTailProperties DEF PipeInv, KernelPrints, ChildInv
  <2>5. CASE BreakpointHit
    BY <2>5 DEF PipeInv, BreakpointHit
  <2>6. CASE Dies
    BY <2>6 DEF PipeInv, Dies, Alive
  <2> QED
    BY <2>1, <2>2, <2>3, <2>4, <2>5, <2>6
<1>2. CASE World /\ Tick
  BY <1>2 DEF PipeInv, World, Tick
<1>3. CASE RunQemu
  <2> USE <1>3 DEF RunQemu
  <2>1. CASE Try
    BY <2>1 DEF PipeInv, Try
  <2>2. CASE Select
    BY <2>2, Selecting DEF PipeInv, Left
  <2>3. CASE EndRound
    <3>1. ready' = {} /\ UNCHANGED <<child, proc, pipe, output, printed, script, interrupt>>
      BY <2>3, RoundEnds DEF Left
    <3>2. at \in HasPopen /\ at' \in HasPopen /\ at' # "returned"
      BY <2>3, RoundEnds DEF Left
    <3>3. ASSUME at' = "close", drain' = "closed", interrupt = "no" PROVE pipe = <<>> /\ child = "reaped"
      <4>1. CASE at = "drain"
        <5>1. Open = {} /\ reactors = "mine"
          BY <2>3, <3>3, <4>1, RoundEnds DEF Left, LinksInv
        <5>2. ~proc
          BY <4>1, <5>1 DEF Open, Reactors
        <5> QED
          BY <4>1, <5>2 DEF PipeInv
      <4>2. CASE at # "drain"
        BY <2>3, <3>3, <4>2, RoundEnds DEF Left
      <4> QED
        BY <4>1, <4>2
    <3> QED
      BY <3>1, <3>2, <3>3 DEF PipeInv
  <2>4. CASE ReadQemu
    <3>1. pipe \in Seq(Text) /\ output \in Seq(Text) /\ output \o pipe = printed
      BY DEF PipeInv
    <3>2. /\ pipe' = SubSeq(pipe, Chunk + 1, Len(pipe)) /\ output' = output \o ChunkRead
          /\ printed' = printed /\ script' = script /\ interrupt' = interrupt
      BY <2>4, QemuRead
    <3>3. /\ Chunk \in 0..Len(pipe)
          /\ ChunkRead = <<>> => pipe = <<>>
          /\ pipe = <<>> => SubSeq(pipe, Chunk + 1, Len(pipe)) = <<>>
      BY <3>1, Chunks
    <3>4. pipe' \in Seq(Text) /\ output' \in Seq(Text) /\ output' \o pipe' = printed'
      BY <3>1, <3>2, ChunkCut, Zenon
    <3>5. pipe = <<>> => pipe' = <<>>
      BY <3>2, <3>3
    <3>6. "qemu" \notin ready' /\ at \in HasPopen /\ at' \in HasPopen
      BY <2>4, QemuMoves DEF Left
    <3>7. ~proc' => pipe' = <<>> /\ child' = "reaped"
      <4>1. \/ ChunkRead = <<>> /\ child' = "reaped"
            \/ UNCHANGED <<proc, child>>
        BY <2>4, QemuRead DEF Left
      <4>2. ~proc => pipe = <<>> /\ child = "reaped"
        BY <3>6 DEF PipeInv
      <4> QED
        BY <3>3, <3>5, <4>1, <4>2
    <3>8. at' = "close" => drain' # "closed"
      BY <2>4, QemuMoves DEF Left
    <3> QED
      BY <3>2, <3>4, <3>6, <3>7, <3>8 DEF PipeInv
  <2>5. CASE ReadGdb
    BY <2>5, GdbRead DEF PipeInv, Left
  <2>6. CASE Connect
    BY <2>6 DEF PipeInv, Connect
  <2>7. CASE Fail
    BY <2>7 DEF PipeInv, Fail
  <2>8. CASE SetUp
    BY <2>8 DEF PipeInv, SetUp
  <2>9. CASE Shutdown
    BY <2>9 DEF PipeInv, Shutdown, kill
  <2>10. CASE Close
    <3>1. UNCHANGED <<pipe, output, printed, script, drain, interrupt, ready>>
      BY <2>10 DEF Close
    <3>2. at = "close" /\ at' = "returned" /\ child' = "reaped"
      BY <2>10 DEF Close, wait
    <3>3. ready = {}
      BY <3>2 DEF LinksInv
    <3> QED
      BY <3>1, <3>2, <3>3 DEF PipeInv
  <2> QED
    BY <2>1, <2>2, <2>3, <2>4, <2>5, <2>6, <2>7, <2>8, <2>9, <2>10 DEF RunnerStep
<1>4. CASE Build
  BY <1>4 DEF PipeInv, Build, GoTo
<1>5. CASE PostMake
  BY <1>5 DEF PipeInv, PostMake, GoTo
<1>6. CASE NextEntry
  BY <1>6 DEF PipeInv, NextEntry
<1>7. CASE Enter
  BY <1>7 DEF PipeInv, Enter
<1>8. CASE Body
  <2>1. at = "idle" /\ ready = {}
    BY <1>8 DEF Body, LinksInv
  <2>2. CASE at' # "popen"
    <3>1. UNCHANGED <<pipe, output, printed, script, ready>> /\ at' \in {"idle", "exit"}
      BY <1>8, <2>1, <2>2 DEF Body, StartQemu, GoTo
    <3> QED
      BY <2>1, <3>1 DEF PipeInv
  <2>3. CASE at' = "popen"
    <3>1. /\ pipe' = <<>> /\ output' = <<>> /\ printed' = <<>> /\ script' \in Scripts /\ ready' = {}
          /\ proc' = TRUE
      BY <1>8, <2>1, <2>3 DEF Body, StartQemu, GoTo
    <3>2. <<>> \o <<>> = <<>> /\ <<>> \in Seq(Text)
      BY ConcatEmptySeq, EmptySeq
    <3> QED
      BY <2>3, <3>1, <3>2, Texts DEF PipeInv
  <2> QED
    BY <2>2, <2>3
<1>9. CASE Judge
  BY <1>9 DEF PipeInv, Judge, Judging, Score, GoTo
<1>10. CASE Abort
  BY <1>10 DEF PipeInv, Abort, GoTo
<1>11. CASE Finish
  BY <1>11 DEF PipeInv, Finish, GoTo
<1>12. CASE CtrlC
  BY <1>12, Interrupted DEF PipeInv, CtrlC
<1>13. CASE UNCHANGED gradeVars
  BY <1>13 DEF PipeInv, Alive
<1> QED
  BY <1>1, <1>2, <1>3, <1>4, <1>5, <1>6, <1>7, <1>8, <1>9, <1>10, <1>11, <1>12, <1>13 DEF GradeNext, Grader, World

-----------------------------------------------------------------------------
(* The innermost call and what becomes of the stack. *)
LEMMA Innermost ==
  ASSUME calls \in Seq(Calls), calls # <<>>
  PROVE  /\ Test \in Tests /\ Tail(calls) \in Seq(Calls) /\ parent[Test] \in Tests \union {"none"}
         /\ Parent \in Seq(Calls)
         /\ \A step \in {"enter", "body", "fn"} :
              Now(step) \in Seq(Calls) /\ Parent \o Now(step) \in Seq(Calls)
<1>1. Head(calls) \in Calls /\ Tail(calls) \in Seq(Calls)
  BY HeadTailProperties
<1>2. Test \in Tests
  BY <1>1 DEF Test, Calls
<1>3. parent[Test] \in Tests \union {"none"}
  BY <1>2, TestsAssumption
<1>4. ASSUME NEW t \in Tests, NEW step \in {"enter", "body", "fn"}
      PROVE  <<[test |-> t, step |-> step]>> \in Seq(Calls)
  <2>1. [test |-> t, step |-> step] \in Calls
    BY DEF Calls
  <2> HIDE DEF Calls
  <2> QED
    BY <2>1
<1>5. Parent \in Seq(Calls)
  <2>1. CASE parent[Test] = "none"
    BY <2>1, EmptySeq DEF Parent
  <2>2. CASE parent[Test] # "none"
    <3>1. parent[Test] \in Tests
      BY <1>3, <2>2
    <3> QED
      BY <1>4, <2>2, <3>1 DEF Parent
  <2> QED
    BY <2>1, <2>2
<1>6. ASSUME NEW step \in {"enter", "body", "fn"}
      PROVE  Now(step) \in Seq(Calls) /\ Parent \o Now(step) \in Seq(Calls)
  <2>1. <<[test |-> Test, step |-> step]>> \in Seq(Calls)
    BY <1>2, <1>4
  <2>2. Now(step) \in Seq(Calls)
    BY <1>1, <2>1, ConcatProperties DEF Now
  <2> QED
    BY <1>5, <2>2, ConcatProperties
<1> QED
  BY <1>1, <1>2, <1>3, <1>5, <1>6

(* The calls, the current test and the status keep their types, at every step. *)
LEMMA TestStep == LinksInv /\ TestInv /\ [GradeNext]_gradeVars => TestInv'
<1> SUFFICES ASSUME LinksInv, TestInv, [GradeNext]_gradeVars PROVE TestInv'
  OBVIOUS
<1> USE DEF childVars, clock, links, kept, ends, outcome, runnerVars, vars, testVars, progress, tally, gradeVars, Places, Linked, Between, Reacting, HasPopen
<1>1. CASE World /\ ChildStep
  <2> USE <1>1 DEF World, ChildStep
  <2>1. CASE MakePrints
    BY <2>1 DEF TestInv, MakePrints, Emit
  <2>2. CASE StubListens
    BY <2>2 DEF TestInv, StubListens
  <2>3. CASE Continue
    BY <2>3 DEF TestInv, Continue
  <2>4. CASE KernelPrints
    BY <2>4 DEF TestInv, KernelPrints, Emit
  <2>5. CASE BreakpointHit
    BY <2>5 DEF TestInv, BreakpointHit
  <2>6. CASE Dies
    BY <2>6 DEF TestInv, Dies, Alive
  <2> QED
    BY <2>1, <2>2, <2>3, <2>4, <2>5, <2>6
<1>2. CASE World /\ Tick
  BY <1>2 DEF TestInv, World, Tick
<1>3. CASE RunQemu
  <2> USE <1>3 DEF RunQemu
  <2>1. CASE Try
    BY <2>1 DEF TestInv, Try
  <2>2. CASE Select
    BY <2>2, Selecting DEF TestInv
  <2>3. CASE EndRound
    BY <2>3, RoundEnds DEF TestInv, Left
  <2>4. CASE ReadQemu
    BY <2>4, QemuMoves DEF TestInv, Left
  <2>5. CASE ReadGdb
    <3>1. /\ at \in Reacting /\ at # "setup" /\ told' = told
          /\ UNCHANGED <<calls, complete, CURRENT_TEST, entry, on_finish>>
      BY <2>5, GdbRead DEF ReadGdb
    <3>2. at' \in HasPopen /\ at' # "exit"
      BY <2>5, <3>1, GdbRead DEF Left
    <3>3. status' = status /\ status = -1
      BY <3>1, <3>2 DEF TestInv
    <3>4. CURRENT_TEST \in UsesQemu
      BY <3>1 DEF TestInv
    <3> QED
      BY <3>1, <3>2, <3>3, <3>4 DEF TestInv
  <2>6. CASE Connect
    BY <2>6 DEF TestInv, Connect
  <2>7. CASE Fail
    BY <2>7 DEF TestInv, Fail
  <2>8. CASE SetUp
    BY <2>8 DEF TestInv, SetUp
  <2>9. CASE Shutdown
    BY <2>9 DEF TestInv, Shutdown, kill
  <2>10. CASE Close
    BY <2>10 DEF TestInv, Close, wait
  <2> QED
    BY <2>1, <2>2, <2>3, <2>4, <2>5, <2>6, <2>7, <2>8, <2>9, <2>10 DEF RunnerStep
<1>4. CASE Build
  <2>1. /\ UNCHANGED <<calls, complete, CURRENT_TEST, entry, on_finish, told>>
        /\ \/ at' = "built" /\ status' = status
           \/ at' = "exit" /\ status' = 1
    BY <1>4 DEF Build, GoTo
  <2>2. status = -1
    BY <1>4 DEF Build, TestInv
  <2> QED
    BY <2>1, <2>2 DEF TestInv
<1>5. CASE PostMake
  BY <1>5 DEF TestInv, PostMake, GoTo
<1>6. CASE NextEntry
  <2>1. calls' \in Seq(Calls)
    <3> DEFINE e == TESTS[entry]
    <3>1. entry \in 1..Len(TESTS) /\ TESTS \in Seq(STRING)
      BY <1>6, TestsAssumption DEF NextEntry, TestInv
    <3>2. CASE calls' = calls
      BY <3>2 DEF TestInv
    <3>3. CASE calls' = <<>>
      BY <3>3, EmptySeq
    <3>4. CASE e # "part" /\ calls' = <<[test |-> e, step |-> "enter"]>>
      <4>1. e \in Tests
        BY <3>1, <3>4 DEF Tests, Lines
      <4> HIDE DEF e
      <4>2. [test |-> e, step |-> "enter"] \in Calls
        BY <4>1 DEF Calls
      <4> HIDE DEF Calls
      <4>3. <<[test |-> e, step |-> "enter"]>> \in Seq(Calls)
        BY <4>2
      <4> QED
        BY <3>4, <4>3
    <3> QED
      BY <1>6, <3>2, <3>3, <3>4 DEF NextEntry
  <2>2. entry' \in Nat \ {0}
    BY <1>6 DEF NextEntry, TestInv
  <2>3. UNCHANGED <<at, complete, CURRENT_TEST, on_finish, status, told>>
    BY <1>6 DEF NextEntry
  <2> QED
    BY <2>1, <2>2, <2>3 DEF TestInv
<1>7. CASE Enter
  <2>1. calls \in Seq(Calls) /\ calls # <<>>
    BY <1>7 DEF Enter, Calling, TestInv
  <2>2. calls' \in Seq(Calls)
    <3>1. calls' = Tail(calls) \/ calls' = Parent \o Now("body")
      BY <1>7 DEF Enter, Called
    <3> QED
      BY <2>1, <3>1, Innermost
  <2>3. complete' \subseteq Tests
    BY <1>7, <2>1, Innermost DEF Enter, Marked, TestInv
  <2> QED
    BY <1>7, <2>2, <2>3 DEF Enter, TestInv
<1>8. CASE Body
  <2>1. calls \in Seq(Calls) /\ calls # <<>>
    BY <1>8 DEF Body, Calling, TestInv
  <2>2. calls' \in Seq(Calls) /\ CURRENT_TEST' \in Tests
    BY <1>8, <2>1, Innermost DEF Body
  <2>3. UNCHANGED <<complete, on_finish, entry>> /\ CURRENT_TEST' = Test
    BY <1>8 DEF Body
  <2>4. CASE Test \notin UsesQemu
    <3>1. UNCHANGED <<told, at, status>> /\ at = "idle"
      BY <1>8, <2>4 DEF Body
    <3> QED
      BY <2>2, <2>3, <3>1 DEF TestInv
  <2>5. CASE Test \in UsesQemu
    <3>1. at = "idle" /\ StartQemu
      BY <1>8, <2>5 DEF Body
    <3>2. \/ told' = told /\ at' = "exit" /\ status' = 1
          \/ told' = {} /\ at' = "popen" /\ status' = status
      BY <3>1 DEF StartQemu, GoTo
    <3>3. status = -1
      BY <3>1 DEF TestInv
    <3>4. /\ status' \in {-1, 0, 1} /\ (status' # -1 <=> at' = "exit")
          /\ told' \subseteq {"Z1", "c", "TERM"}
      <4>1. told \subseteq {"Z1", "c", "TERM"}
        BY DEF TestInv
      <4>2. CASE told' = told /\ at' = "exit" /\ status' = 1
        BY <4>1, <4>2
      <4>3. CASE told' = {} /\ at' = "popen" /\ status' = status
        BY <3>3, <4>3
      <4> QED
        BY <3>2, <4>2, <4>3
    <3>5. /\ calls' \in Seq(Calls) /\ complete' \subseteq Tests /\ CURRENT_TEST' \in Tests \union {"none"}
          /\ on_finish' \subseteq UsesQemu /\ CURRENT_TEST' \in UsesQemu /\ entry' \in Nat \ {0}
      BY <2>2, <2>3, <2>5 DEF TestInv
    <3> QED
      BY <3>4, <3>5 DEF TestInv
  <2> QED
    BY <2>4, <2>5
<1>9. CASE Judge
  <2>1. calls \in Seq(Calls) /\ calls # <<>>
    BY <1>9 DEF Judge, Judging, Calling, TestInv
  <2>2. calls' \in Seq(Calls)
    BY <1>9, <2>1, Innermost DEF Judge
  <2>3. /\ UNCHANGED <<complete, on_finish, entry, told, status>> /\ CURRENT_TEST' = "none"
        /\ at' = "idle" /\ at # "exit"
    BY <1>9 DEF Judge, Judging, GoTo
  <2> QED
    BY <2>2, <2>3 DEF TestInv
<1>10. CASE Abort
  BY <1>10 DEF TestInv, Abort, GoTo, ExitStatus
<1>11. CASE Finish
  BY <1>11 DEF TestInv, Finish, GoTo, ExitStatus
<1>12. CASE CtrlC
  <2>1. /\ UNCHANGED <<calls, complete, CURRENT_TEST, on_finish, entry, told>>
        /\ at # "exit" /\ (at' \in HasPopen => at \in HasPopen) /\ at' # "returned"
    <3>1. at # "exit"
      BY <1>12 DEF CtrlC, Interrupt
    <3> QED
      BY <1>12, <3>1, Interrupted DEF CtrlC
  <2>2. status' \in {-1, 0, 1} /\ (status' # -1 <=> at' = "exit")
    <3>1. status = -1
      BY <2>1 DEF TestInv
    <3>2. ExitStatus' \in {0, 1}
      BY DEF ExitStatus
    <3> QED
      BY <1>12, <3>1, <3>2 DEF CtrlC
  <2> QED
    BY <2>1, <2>2 DEF TestInv
<1>13. CASE UNCHANGED gradeVars
  BY <1>13 DEF TestInv, Alive
<1> QED
  BY <1>1, <1>2, <1>3, <1>4, <1>5, <1>6, <1>7, <1>8, <1>9, <1>10, <1>11, <1>12, <1>13 DEF GradeNext, Grader, World

-----------------------------------------------------------------------------
GradeInv == LinksInv /\ ChildInv /\ ClockInv /\ StopInv /\ PipeInv /\ TestInv

(* The invariant holds at first, is kept, and so is always true. *)
LEMMA GradeStart == GradeInit => GradeInv
<1> SUFFICES ASSUME GradeInit PROVE GradeInv
  OBVIOUS
<1>1. LinksInv /\ ChildInv /\ ClockInv /\ StopInv
  BY DEF GradeInit, LinksInv, ChildInv, ClockInv, StopInv, Places, Linked, Between, Reacting
<1>2. PipeInv
  <2>1. <<>> \o <<>> = <<>> /\ <<>> \in Seq(Text)
    BY ConcatEmptySeq, EmptySeq
  <2> QED
    BY <2>1 DEF GradeInit, PipeInv, HasPopen, Linked
<1>3. TestInv
  <2>1. <<>> \in Seq(Calls)
    BY EmptySeq
  <2> QED
    BY <2>1 DEF GradeInit, TestInv, HasPopen, Linked
<1> QED
  BY <1>1, <1>2, <1>3 DEF GradeInv

LEMMA GradeKept == GradeInv /\ [GradeNext]_gradeVars => GradeInv'
  BY LinksStep, ChildStepKeeps, ClockStep, StopStep, PipeStep, TestStep DEF GradeInv

LEMMA GradeAlways == GradeSpec => []GradeInv
  BY GradeStart, GradeKept, PTL DEF GradeSpec

(* Whatever happens to make, QEMU and the kernel and whenever Ctrl-C strikes, the
   connection to the GDB stub and the reactors are there at each place where
   run_qemu() uses them, and the grader has a status when and only when it has ended. *)
THEOREM GradeTypes == GradeSpec => []GradeTypeOK
<1>1. GradeInv => GradeTypeOK
  BY DEF GradeInv, LinksInv, ChildInv, StopInv, TestInv, GradeTypeOK, Linked
<1> QED
  BY <1>1, GradeAlways, PTL

(* Output is not lost or reordered between QEMU and match(), whatever the size of a
   read, the interleaving of the two descriptors and the timeouts; and if the loop
   of the shutdown has read to the end it is all there. *)
THEOREM OutputKept == GradeSpec => []OutputComplete
<1>1. GradeInv => OutputComplete
  <2> SUFFICES ASSUME GradeInv PROVE OutputComplete
    OBVIOUS
  <2>1. output \o pipe = printed /\ output \in Seq(Text)
    BY DEF GradeInv, PipeInv
  <2>2. at = "returned" /\ drain = "closed" /\ interrupt = "no" => output = printed
    <3>1. output \o <<>> = output
      BY <2>1, ConcatEmptySeq
    <3>2. at = "returned" /\ drain = "closed" /\ interrupt = "no" => pipe = <<>>
      BY DEF GradeInv, PipeInv
    <3> QED
      BY <2>1, <3>1, <3>2
  <2>3. at = "returned" /\ stop = "breakpoint" => drain \in {"closed", "timeout", "line"}
    BY DEF GradeInv, StopInv
  <2> QED
    BY <2>1, <2>2, <2>3 DEF OutputComplete
<1> QED
  BY <1>1, GradeAlways, PTL

(* After run_qemu() returns, make and QEMU have ended and have been waited for,
   and a grader that ends without that has said so, wherever Ctrl-C or a failure
   has taken it, except between the start of make and the try. *)
THEOREM NoOrphanLeft == GradeSpec => []NoOrphan
<1>1. GradeInv => NoOrphan
  BY DEF GradeInv, ChildInv, NoOrphan
<1> QED
  BY <1>1, GradeAlways, PTL

(* No make is started in a second in which an earlier one may have written. *)
THEOREM FreshMake == GradeSpec => FreshTimes
<1>1. GradeInv /\ [GradeNext]_gradeVars => [child' = "making" /\ child # "making" => ~wrote]_gradeVars
  <2> SUFFICES ASSUME GradeInv, GradeNext, child' = "making", child # "making" PROVE ~wrote
    OBVIOUS
  <2>1. Body /\ child' # child
    <3> USE DEF childVars, clock, links, kept, ends, outcome, runnerVars, vars, testVars, progress, tally
    <3>1. CASE World
      BY <3>1 DEF World, ChildStep, Tick, MakePrints, StubListens, Continue, KernelPrints, BreakpointHit, Dies, Emit
    <3>2. CASE RunQemu
      <4>2. CASE ReadQemu
        BY <4>2, QemuMoves
      <4>3. CASE EndRound
        BY <4>3, RoundEnds
      <4>4. CASE ReadGdb
        BY <4>4, GdbRead
      <4> QED
        BY <3>2, <4>2, <4>3, <4>4 DEF RunQemu, RunnerStep, Try, Select, Connect, Fail, SetUp, Shutdown, Close, wait
    <3>3. CASE CtrlC
      BY <3>3 DEF CtrlC, Interrupt
    <3> QED
      BY <3>1, <3>2, <3>3 DEF GradeNext, Grader, Build, PostMake, NextEntry, Enter, Judge, Abort, Finish, GoTo
  <2>2. at = "idle" /\ ~stamped
    BY <2>1 DEF Body, PreMake, childVars
  <2> QED
    BY <2>2 DEF GradeInv, ClockInv, LinksInv, Between
<1> QED
  BY <1>1, GradeAlways, PTL DEF GradeSpec, FreshTimes

-----------------------------------------------------------------------------
(* Until the kernel is told to go on, only make has printed. *)
Early == {"popen", "start", "connect", "setup"}
EarlyInv ==
  at \in Early => /\ "c" \notin told /\ child # "running"
                  /\ \A n \in 1..Len(printed) : printed[n] \in {NewLine, Part}

(* The test whose function runs is the innermost call and the current test, and the
   calls around it wait for it to return. *)
Waiting(cs) == \A k \in 1..Len(cs) : cs[k].step = "body"
CallInv ==
  /\ calls # <<>> => Waiting(Tail(calls))
  /\ Calling("fn") => Test = CURRENT_TEST /\ (Test \in UsesQemu => at \notin Between)
  /\ at \in {"build", "built"} => calls = <<>>

(* From the set-up of the monitors to the verdict, save() has all that was read since. *)
Watched == {"run", "finally", "drain", "close", "returned"}
Verdicts == [test : Tests, verdict : {"ok", "fail", "cut"}]
SaveInv ==
  /\ saved = [t \in Tests |-> saved[t]] /\ log \in Seq(Verdicts) /\ file \in Seq(Text)
  /\ at \in Watched /\ raised # "interrupt" =>
       CURRENT_TEST \in on_finish /\ "save" \in monitors /\ AllButMakes(file, output)

(* Only make prints before the kernel is told to go on, at every step. *)
LEMMA EarlyStep == LinksInv /\ PipeInv /\ EarlyInv /\ [GradeNext]_gradeVars => EarlyInv'
<1> SUFFICES ASSUME LinksInv, PipeInv, EarlyInv, [GradeNext]_gradeVars PROVE EarlyInv'
  OBVIOUS
<1> USE DEF childVars, clock, links, kept, ends, outcome, runnerVars, vars, testVars, progress, tally, gradeVars, Places, Linked, Between, Reacting
<1>1. CASE World /\ ChildStep
  <2> USE <1>1 DEF World, ChildStep
  <2>1. CASE MakePrints
    <3>1. CASE at \in Early
      <4>1. PICK made \in {NewLine, Part} : printed' = Append(printed, made)
        BY <2>1 DEF MakePrints, Emit
      <4>2. \A n \in 1..Len(printed') : printed'[n] \in {NewLine, Part}
        <5>1. printed \in Seq(Text) /\ made \in Text /\ \A n \in 1..Len(printed) : printed[n] \in {NewLine, Part}
          BY <3>1 DEF PipeInv, EarlyInv, Text
        <5> HIDE DEF Text
        <5> QED
          BY <4>1, <5>1, AppendProperties
      <4> QED
        BY <2>1, <3>1, <4>2 DEF MakePrints, EarlyInv
    <3>2. CASE at \notin Early
      BY <3>2 DEF EarlyInv
    <3> QED
      BY <3>1, <3>2
  <2>2. CASE StubListens
    BY <2>2 DEF EarlyInv, StubListens, Early
  <2>3. CASE Continue
    BY <2>3 DEF EarlyInv, Continue, Early
  <2>4. CASE KernelPrints
    BY <2>4 DEF EarlyInv, KernelPrints, Emit, Early
  <2>5. CASE BreakpointHit
    BY <2>5 DEF EarlyInv, BreakpointHit, Early
  <2>6. CASE Dies
    BY <2>6 DEF EarlyInv, Dies, Alive, Early
  <2> QED
    BY <2>1, <2>2, <2>3, <2>4, <2>5, <2>6
<1>2. CASE World /\ Tick
  BY <1>2 DEF EarlyInv, World, Tick, Early
<1>3. CASE RunQemu
  <2> USE <1>3 DEF RunQemu
  <2>1. CASE Try
    BY <2>1 DEF EarlyInv, Try, Early
  <2>2. CASE Select
    BY <2>2 DEF EarlyInv, Select, Early
  <2>3. CASE EndRound
    <3>1. UNCHANGED <<printed, told, child>> /\ at' \notin Early
      BY <2>3, RoundEnds DEF Left, Early
    <3> QED
      BY <3>1 DEF EarlyInv
  <2>4. CASE ReadQemu
    <3>1. UNCHANGED <<printed, told>> /\ at \in Reacting
      BY <2>4, QemuRead
    <3>2. child' = child \/ child' = "reaped"
      BY <2>4, QemuRead
    <3>3. at' \in Early => at \in Early
      BY <2>4, QemuMoves DEF Left, Early
    <3> QED
      BY <3>1, <3>2, <3>3 DEF EarlyInv
  <2>5. CASE ReadGdb
    <3>1. UNCHANGED <<printed, told, child>> /\ (at' \in Early => at \in Early)
      BY <2>5, GdbRead DEF Left, Early
    <3> QED
      BY <3>1 DEF EarlyInv
  <2>6. CASE Connect
    BY <2>6 DEF EarlyInv, Connect, Early
  <2>7. CASE Fail
    BY <2>7 DEF EarlyInv, Fail, Early
  <2>8. CASE SetUp
    BY <2>8 DEF EarlyInv, SetUp, Early
  <2>9. CASE Shutdown
    BY <2>9 DEF EarlyInv, Shutdown, kill, Early
  <2>10. CASE Close
    BY <2>10 DEF EarlyInv, Close, wait, Early
  <2> QED
    BY <2>1, <2>2, <2>3, <2>4, <2>5, <2>6, <2>7, <2>8, <2>9, <2>10 DEF RunnerStep
<1>4. CASE Build
  BY <1>4 DEF EarlyInv, Build, GoTo, Early
<1>5. CASE PostMake
  BY <1>5 DEF EarlyInv, PostMake, GoTo, Early
<1>6. CASE NextEntry
  BY <1>6 DEF EarlyInv, NextEntry, Early
<1>7. CASE Enter
  BY <1>7 DEF EarlyInv, Enter, Early
<1>8. CASE Body
  <2>1. CASE at' # "popen"
    <3>1. at' \notin Early
      BY <1>8, <2>1 DEF Body, StartQemu, GoTo, Early
    <3> QED
      BY <3>1 DEF EarlyInv
  <2>2. CASE at' = "popen"
    <3>1. told' = {} /\ child' = "making" /\ printed' = <<>>
      BY <1>8, <2>2 DEF Body, StartQemu, GoTo
    <3>2. Len(printed') = 0
      BY <3>1
    <3> QED
      BY <3>1, <3>2 DEF EarlyInv
  <2> QED
    BY <2>1, <2>2
<1>9. CASE Judge
  BY <1>9 DEF EarlyInv, Judge, Judging, Score, GoTo, Early
<1>10. CASE Abort
  BY <1>10 DEF EarlyInv, Abort, GoTo, Early
<1>11. CASE Finish
  BY <1>11 DEF EarlyInv, Finish, GoTo, Early
<1>12. CASE CtrlC
  <2>1. at' \notin Early
    BY <1>12 DEF CtrlC, Interrupt, Early
  <2> QED
    BY <2>1 DEF EarlyInv
<1>13. CASE UNCHANGED gradeVars
  BY <1>13 DEF EarlyInv, Alive, Early
<1> QED
  BY <1>1, <1>2, <1>3, <1>4, <1>5, <1>6, <1>7, <1>8, <1>9, <1>10, <1>11, <1>12, <1>13 DEF GradeNext, Grader, World

(* Two sequences in a row. *)
LEMMA Joined ==
  ASSUME NEW S, NEW s \in Seq(S), NEW t \in Seq(S)
  PROVE  /\ s \o t \in Seq(S) /\ Len(s \o t) = Len(s) + Len(t) /\ Len(s) \in Nat /\ Len(t) \in Nat
         /\ \A k \in 1..Len(s \o t) : (s \o t)[k] = IF k <= Len(s) THEN s[k] ELSE t[k - Len(s)]
<1>1. s \o t \in Seq(S) /\ Len(s \o t) = Len(s) + Len(t)
  BY ConcatProperties
<1>2. Len(s) \in Nat /\ Len(t) \in Nat
  BY LenProperties
<1>3. \A k \in 1..Len(s) + Len(t) : (s \o t)[k] = IF k <= Len(s) THEN s[k] ELSE t[k - Len(s)]
  BY ConcatProperties
<1> QED
  BY <1>1, <1>2, <1>3

(* A call put in front of others. *)
LEMMA Ahead ==
  ASSUME NEW S, NEW c \in S, NEW rest \in Seq(S)
  PROVE  /\ <<c>> \o rest \in Seq(S) /\ <<c>> \o rest # <<>>
         /\ Head(<<c>> \o rest) = c /\ Tail(<<c>> \o rest) = rest
<1> DEFINE one == <<c>>
           all == one \o rest
<1>1. one \in Seq(S) /\ Len(one) = 1 /\ one[1] = c
  OBVIOUS
<1> HIDE DEF one
<1>2. /\ all \in Seq(S) /\ Len(all) = 1 + Len(rest) /\ Len(rest) \in Nat
      /\ \A k \in 1..Len(all) : all[k] = IF k <= 1 THEN one[k] ELSE rest[k - 1]
  <2>1. /\ all \in Seq(S) /\ Len(all) = Len(one) + Len(rest) /\ Len(rest) \in Nat
        /\ \A k \in 1..Len(all) : all[k] = IF k <= Len(one) THEN one[k] ELSE rest[k - Len(one)]
    BY <1>1, Joined
  <2> HIDE DEF all
  <2> QED
    BY <1>1, <2>1
<1> HIDE DEF all
<1>3. all # <<>>
  BY <1>2, EmptySeq
<1>4. Head(all) = c
  BY <1>1, <1>2, <1>3, HeadTailProperties
<1>5. Tail(all) = rest
  <2>1. Tail(all) \in Seq(S) /\ Len(Tail(all)) = Len(rest)
    BY <1>2, <1>3, HeadTailProperties
  <2>2. \A k \in 1..Len(rest) : Tail(all)[k] = all[k + 1]
    BY <1>2, <1>3, <2>1, HeadTailProperties
  <2>3. \A k \in 1..Len(rest) : Tail(all)[k] = rest[k]
    BY <1>2, <2>2
  <2> QED
    BY <2>1, <2>3, SeqEqual
<1> QED
  BY <1>2, <1>3, <1>4, <1>5 DEF all, one

(* Calls that wait, one less and one more. *)
LEMMA WaitingCalls ==
  ASSUME NEW S, NEW cs \in Seq(S), Waiting(cs)
  PROVE  /\ cs # <<>> => Head(cs).step = "body" /\ Waiting(Tail(cs))
         /\ \A c \in S : c.step = "body" => Waiting(<<c>> \o cs)
<1>1. ASSUME cs # <<>> PROVE Head(cs).step = "body" /\ Waiting(Tail(cs))
  <2>1. Len(cs) \in Nat /\ Len(cs) # 0 /\ Head(cs) = cs[1] /\ Len(Tail(cs)) = Len(cs) - 1
    BY <1>1, HeadTailProperties, LenProperties, EmptySeq
  <2>2. \A k \in 1..Len(Tail(cs)) : Tail(cs)[k] = cs[k + 1]
    BY <1>1, <2>1, HeadTailProperties
  <2> QED
    BY <2>1, <2>2 DEF Waiting
<1>2. ASSUME NEW c \in S, c.step = "body" PROVE Waiting(<<c>> \o cs)
  <2> DEFINE one == <<c>>
             all == one \o cs
  <2>1. one \in Seq(S) /\ Len(one) = 1 /\ one[1] = c
    OBVIOUS
  <2> HIDE DEF one
  <2>2. /\ Len(all) = 1 + Len(cs) /\ Len(cs) \in Nat
        /\ \A k \in 1..Len(all) : all[k] = IF k <= 1 THEN one[k] ELSE cs[k - 1]
    <3>1. /\ Len(all) = Len(one) + Len(cs) /\ Len(cs) \in Nat
          /\ \A k \in 1..Len(all) : all[k] = IF k <= Len(one) THEN one[k] ELSE cs[k - Len(one)]
      BY <2>1, Joined
    <3> HIDE DEF all
    <3> QED
      BY <2>1, <3>1
  <2> HIDE DEF all
  <2>3. ASSUME NEW k \in 1..Len(all) PROVE all[k].step = "body"
    <3>1. CASE k = 1
      BY <1>2, <2>1, <2>2, <3>1
    <3>2. CASE k # 1
      <4>1. k - 1 \in 1..Len(cs) /\ all[k] = cs[k - 1]
        BY <2>2, <3>2
      <4> QED
        BY <4>1 DEF Waiting
    <3> QED
      BY <3>1, <3>2
  <2> QED
    BY <2>3 DEF Waiting, all, one
<1> QED
  BY <1>1, <1>2

(* Where the calls stay as they are. *)
Stays ==
  /\ UNCHANGED <<calls, CURRENT_TEST>> /\ (at' \in Between => at \in Between)
  /\ (at' \in {"build", "built"} => at \in {"build", "built"})

LEMMA CallsStay == CallInv /\ Stays => CallInv'
  BY DEF CallInv, Stays, Calling, Test

(* run_qemu() never returns to run_tests() by itself. *)
LEMMA RunsElsewhere ==
  ASSUME RunnerStep, LinksInv
  PROVE  at' \notin Between
<1> USE DEF Between, Reacting
<1>1. CASE Try
  BY <1>1 DEF Try
<1>2. CASE Select
  BY <1>2, Selecting
<1>3. CASE EndRound
  BY <1>3, RoundEnds DEF Left
<1>4. CASE ReadQemu
  BY <1>4, QemuMoves DEF Left
<1>5. CASE ReadGdb
  <2>1. at \in Reacting
    BY <1>5 DEF ReadGdb
  <2> QED
    BY <1>5, <2>1, GdbRead DEF Left
<1>6. CASE Connect \/ Fail \/ SetUp \/ Shutdown \/ Close
  BY <1>6 DEF Connect, Fail, SetUp, Shutdown, Close
<1> QED
  BY <1>1, <1>2, <1>3, <1>4, <1>5, <1>6 DEF RunnerStep

(* The innermost call is the current test, at every step. *)
LEMMA CallStep == LinksInv /\ TestInv /\ CallInv /\ [GradeNext]_gradeVars => CallInv'
<1> SUFFICES ASSUME LinksInv, TestInv, CallInv, [GradeNext]_gradeVars PROVE CallInv'
  OBVIOUS
<1>1. CASE World
  BY <1>1, CallsStay DEF World, ChildStep, Tick, Stays, runnerVars, testVars, progress
<1>2. CASE RunQemu
  BY <1>2, CallsStay, RunsElsewhere DEF RunQemu, Stays, Between
<1>3. CASE Build \/ PostMake \/ Abort \/ Finish
  BY <1>3, CallsStay DEF Build, PostMake, Abort, Finish, GoTo, Stays, Between, testVars, progress
<1>4. CASE CtrlC
  <2>1. at' \notin Between
    BY <1>4, Interrupted DEF CtrlC, Between
  <2> QED
    BY <1>4, <2>1, CallsStay DEF CtrlC, Stays, Between, progress
<1>5. CASE UNCHANGED gradeVars
  BY <1>5, CallsStay DEF gradeVars, vars, runnerVars, testVars, progress, Stays
<1>6. CASE NextEntry
  <2>1. at' = "idle" /\ CURRENT_TEST' = CURRENT_TEST
    BY <1>6 DEF NextEntry, vars, runnerVars
  <2>2. CASE calls' = <<>>
    BY <2>1, <2>2 DEF CallInv, Calling
  <2>3. CASE calls' # <<>>
    <3>1. calls = <<>> /\ TESTS[entry] # "part" /\ calls' = <<[test |-> TESTS[entry], step |-> "enter"]>>
      BY <1>6, <2>3 DEF NextEntry
    <3> DEFINE c == [test |-> TESTS[entry], step |-> "enter"]
    <3>2. Tail(<<c>>) = <<>> /\ Head(<<c>>) = c /\ c.step = "enter" /\ Len(<<>>) = 0
      OBVIOUS
    <3> HIDE DEF c
    <3>3. calls' = <<c>>
      BY <3>1 DEF c
    <3> QED
      BY <2>1, <3>2, <3>3 DEF CallInv, Calling, Waiting
  <2> QED
    BY <2>2, <2>3
<1>7. ASSUME Enter \/ Body \/ Judge
      PROVE  /\ calls \in Seq(Calls) /\ calls # <<>> /\ Tail(calls) \in Seq(Calls) /\ Waiting(Tail(calls))
             /\ Test \in Tests
  <2>1. calls \in Seq(Calls) /\ calls # <<>>
    BY <1>7 DEF Enter, Body, Judge, Judging, Calling, TestInv
  <2> QED
    BY <2>1, Innermost DEF CallInv
<1>8. ASSUME Enter \/ Body \/ Judge, NEW step \in {"enter", "body", "fn"}
      PROVE  /\ Now(step) # <<>> /\ Tail(Now(step)) = Tail(calls) /\ Now(step) \in Seq(Calls)
             /\ Head(Now(step)) = [test |-> Test, step |-> step]
  <2> DEFINE c == [test |-> Test, step |-> step]
  <2>1. c \in Calls
    BY <1>7, <1>8 DEF Calls
  <2> HIDE DEF c
  <2> QED
    BY <1>7, <1>8, <2>1, Ahead DEF Now, c
<1>9. CASE Enter
  <2>1. at' = "idle" /\ CURRENT_TEST' = CURRENT_TEST
    BY <1>9 DEF Enter, vars, runnerVars
  <2>2. CASE calls' = Tail(calls)
    BY <1>7, <1>9, <2>1, <2>2, WaitingCalls DEF CallInv, Calling
  <2>3. CASE calls' = Parent \o Now("body")
    <3>1. /\ Now("body") # <<>> /\ Tail(Now("body")) = Tail(calls) /\ Now("body") \in Seq(Calls)
          /\ Head(Now("body")).step = "body"
      BY <1>8, <1>9
    <3>2. CASE Parent = <<>>
      <4>1. calls' = Now("body")
        BY <2>3, <3>1, <3>2, ConcatEmptySeq
      <4> QED
        BY <1>7, <1>9, <2>1, <3>1, <4>1 DEF CallInv, Calling
    <3>3. CASE Parent # <<>>
      <4> DEFINE c == [test |-> parent[Test], step |-> "enter"]
      <4>1. Parent = <<c>> /\ c.step = "enter" /\ c \in Calls
        BY <1>7, <1>9, <3>3, Innermost DEF Parent, Calls
      <4> HIDE DEF c
      <4>2. calls' # <<>> /\ Head(calls') = c /\ Tail(calls') = Now("body")
        BY <2>3, <3>1, <4>1, Ahead
      <4>3. Waiting(Now("body"))
        <5> DEFINE d == [test |-> Test, step |-> "body"]
        <5>1. d \in Calls /\ d.step = "body"
          BY <1>7, <1>9 DEF Calls
        <5> HIDE DEF d
        <5>2. Waiting(<<d>> \o Tail(calls))
          BY <1>7, <1>9, <5>1, WaitingCalls
        <5> QED
          BY <5>2 DEF Now, d
      <4> QED
        BY <2>1, <4>1, <4>2, <4>3 DEF CallInv, Calling
    <3> QED
      BY <3>2, <3>3
  <2> QED
    BY <1>9, <2>2, <2>3 DEF Enter, Called
<1>10. CASE Body
  <2>1. /\ calls' # <<>> /\ Tail(calls') = Tail(calls) /\ Head(calls') = [test |-> Test, step |-> "fn"]
    BY <1>8, <1>10 DEF Body
  <2>2. CURRENT_TEST' = Head(calls').test
    BY <1>10, <2>1 DEF Body
  <2>3. Head(calls').test = Test
    BY <2>1
  <2>4. at' \in Between => Test \notin UsesQemu /\ at' = "idle"
    BY <1>10 DEF Body, StartQemu, GoTo, runnerVars, Between
  <2> QED
    BY <1>7, <1>10, <2>1, <2>2, <2>3, <2>4 DEF CallInv, Calling, Test, Between
<1>11. CASE Judge
  <2>1. calls' = Tail(calls) /\ at' = "idle"
    BY <1>11 DEF Judge, GoTo
  <2> QED
    BY <1>7, <1>11, <2>1, WaitingCalls DEF CallInv, Calling
<1> QED
  BY <1>1, <1>2, <1>3, <1>4, <1>5, <1>6, <1>9, <1>10, <1>11 DEF GradeNext, Grader

(* What is read goes to save() as well, and at first it has nothing. *)
LEMMA Extended ==
  ASSUME NEW S, NEW part \in Seq(S), NEW all \in Seq(S), NEW more \in Seq(S), AllButMakes(part, all)
  PROVE  AllButMakes(part \o more, all \o more)
<1>1. PICK k \in 0..Len(all) : /\ part = SubSeq(all, k + 1, Len(all))
                               /\ \A n \in 1..k : all[n] \in {NewLine, Part}
  BY DEF AllButMakes
<1> DEFINE joined == all \o more
<1>2. /\ joined \in Seq(S) /\ Len(joined) = Len(all) + Len(more) /\ Len(all) \in Nat /\ Len(more) \in Nat
      /\ \A n \in 1..Len(joined) : joined[n] = IF n <= Len(all) THEN all[n] ELSE more[n - Len(all)]
  BY Joined
<1> HIDE DEF joined
<1>3. k \in 0..Len(joined) /\ k \in Nat /\ k <= Len(all)
  BY <1>1, <1>2
<1>4. ASSUME NEW n \in 1..k PROVE joined[n] \in {NewLine, Part}
  <2>1. n \in 1..Len(joined) /\ n <= Len(all)
    BY <1>2, <1>3
  <2>2. joined[n] = all[n]
    BY <1>2, <2>1
  <2> QED
    BY <1>1, <2>2
<1>5. part \o more = SubSeq(joined, k + 1, Len(joined))
  <2>1. /\ part \in Seq(S) /\ Len(part) = Len(all) - k
        /\ \A n \in 1..(Len(all) - k) : part[n] = all[k + n]
    BY <1>1, <1>2, <1>3, SubSeqProperties
  <2> DEFINE a == part \o more
             b == SubSeq(joined, k + 1, Len(joined))
  <2>2. /\ a \in Seq(S) /\ Len(a) = Len(part) + Len(more)
        /\ \A n \in 1..Len(a) : a[n] = IF n <= Len(part) THEN part[n] ELSE more[n - Len(part)]
    BY Joined
  <2>3. /\ b \in Seq(S) /\ Len(b) = Len(joined) - k
        /\ \A n \in 1..(Len(joined) - k) : b[n] = joined[k + n]
    BY <1>2, <1>3, SubSeqProperties
  <2> HIDE DEF a, b
  <2>4. Len(a) = Len(b)
    BY <1>2, <1>3, <2>1, <2>2, <2>3
  <2>5. ASSUME NEW n \in 1..Len(a) PROVE a[n] = b[n]
    <3>1. n \in 1..(Len(joined) - k) /\ b[n] = joined[k + n] /\ k + n \in 1..Len(joined)
      BY <1>2, <1>3, <2>3, <2>4
    <3>2. CASE n <= Len(part)
      <4>1. a[n] = part[n] /\ part[n] = all[k + n] /\ k + n <= Len(all)
        BY <1>2, <1>3, <2>1, <2>2, <3>2
      <4> QED
        BY <1>2, <3>1, <4>1
    <3>3. CASE ~(n <= Len(part))
      <4>1. a[n] = more[n - Len(part)]
        BY <2>2, <3>3
      <4>2. ~(k + n <= Len(all)) /\ (k + n) - Len(all) = n - Len(part)
        BY <1>2, <1>3, <2>1, <3>3
      <4>3. joined[k + n] = more[(k + n) - Len(all)]
        BY <1>2, <3>1, <4>2
      <4> QED
        BY <3>1, <4>1, <4>2, <4>3
    <3> QED
      BY <3>2, <3>3
  <2>6. a = b
    BY <2>2, <2>3, <2>4, <2>5, SeqEqual
  <2> QED
    BY <2>6 DEF a, b
<1> QED
  BY <1>3, <1>4, <1>5 DEF AllButMakes, joined

(* When the monitors are set up, only make has printed. *)
LEMMA NothingYet ==
  ASSUME EarlyInv, PipeInv, at = "setup"
  PROVE  AllButMakes(<<>>, output)
<1>1. /\ output \in Seq(Text) /\ pipe \in Seq(Text) /\ printed = output \o pipe
      /\ \A n \in 1..Len(printed) : printed[n] \in {NewLine, Part}
  BY DEF EarlyInv, PipeInv, Early
<1> HIDE DEF Text
<1>2. /\ Len(output) \in Nat /\ Len(pipe) \in Nat /\ Len(printed) = Len(output) + Len(pipe)
      /\ \A n \in 1..Len(output) : printed[n] = output[n]
  BY <1>1, Joined
<1>3. \A n \in 1..Len(output) : output[n] \in {NewLine, Part}
  BY <1>1, <1>2
<1>4. SubSeq(output, Len(output) + 1, Len(output)) = <<>>
  <2>1. Len(SubSeq(output, Len(output) + 1, Len(output))) = 0 /\ SubSeq(output, Len(output) + 1, Len(output)) \in Seq(Text)
    BY <1>1, <1>2, SubSeqProperties
  <2> QED
    BY <2>1, EmptySeq
<1>5. Len(output) \in 0..Len(output)
  BY <1>2
<1> QED
  BY <1>3, <1>4, <1>5 DEF AllButMakes

(* Where the logs and what save() has stay as they are. *)
Unsaved ==
  /\ UNCHANGED <<saved, log, file, output, monitors, CURRENT_TEST>> /\ on_finish \subseteq on_finish'
  /\ at' \in Watched /\ raised' # "interrupt" => at \in Watched /\ raised # "interrupt"

LEMMA SavesStay == SaveInv /\ Unsaved => SaveInv'
  BY DEF SaveInv, Unsaved

(* The verdict that is added, if one is. *)
LEMMA Logged ==
  ASSUME TestInv, SaveInv, NEW verdict \in {"ok", "fail", "cut"}, Judging, Score(verdict)
  PROVE  /\ Test \in Tests /\ log' \in Seq(Verdicts) /\ log' # log
         /\ Last(log') = [test |-> Test, verdict |-> verdict]
<1> DEFINE v == [test |-> Test, verdict |-> verdict]
<1>1. Test \in Tests
  BY Innermost DEF Judging, Calling, TestInv
<1>2. v \in Verdicts
  BY <1>1 DEF Verdicts
<1>3. log' = Append(log, v) /\ log \in Seq(Verdicts)
  BY DEF Score, SaveInv
<1> HIDE DEF v
<1>4. /\ log' \in Seq(Verdicts) /\ Len(log') = Len(log) + 1 /\ log'[Len(log) + 1] = v /\ Len(log) \in Nat
  BY <1>2, <1>3, AppendProperties, LenProperties
<1>5. log' # log
  BY <1>4
<1> QED
  BY <1>1, <1>4, <1>5 DEF Last, v

(* save() has all since the set-up, at every step. *)
LEMMA SaveStep ==
  LinksInv /\ PipeInv /\ EarlyInv /\ TestInv /\ CallInv /\ SaveInv /\ [GradeNext]_gradeVars => SaveInv'
<1> SUFFICES ASSUME LinksInv, PipeInv, EarlyInv, TestInv, CallInv, SaveInv, [GradeNext]_gradeVars
             PROVE  SaveInv'
  OBVIOUS
<1> USE DEF kept, outcome, links, Watched
<1>1. CASE World
  BY <1>1, SavesStay DEF World, ChildStep, Tick, Unsaved, runnerVars, testVars, progress, tally
<1>2. CASE RunQemu
  <2>1. UNCHANGED <<saved, log, CURRENT_TEST>> /\ on_finish \subseteq on_finish'
    BY <1>2 DEF RunQemu, tally
  <2>2. CASE Try \/ Connect \/ Fail \/ Shutdown \/ Close
    BY <2>1, <2>2, SavesStay DEF Unsaved, Try, Connect, Fail, Shutdown, Close
  <2>3. CASE Select
    BY <2>1, <2>3, Selecting, SavesStay DEF Unsaved
  <2>4. CASE EndRound
    BY <2>1, <2>4, RoundEnds, SavesStay DEF Unsaved, Left
  <2>5. CASE ReadGdb
    <3>1. UNCHANGED <<file, output, monitors, raised>> /\ (at' \in Watched => at \in Watched)
      BY <2>5, GdbRead DEF Left
    <3> QED
      BY <2>1, <3>1, SavesStay DEF Unsaved
  <2>6. CASE ReadQemu
    <3>1. /\ output' = output \o ChunkRead /\ monitors' = monitors /\ raised' = raised
          /\ (at' \in Watched => at \in Watched)
      <4>1. at' \in Watched => at \in Watched
        BY <2>6, QemuMoves DEF Left, Reacting
      <4> QED
        BY <2>6, <4>1, QemuRead
    <3>2. file' = IF "save" \in monitors THEN file \o ChunkRead ELSE file
      BY <2>6 DEF ReadQemu, Keep, Chunk, ChunkRead
    <3>3. ChunkRead \in Seq(Text)
      BY ChunkCut DEF PipeInv
    <3>4. file \in Seq(Text) /\ output \in Seq(Text)
      BY DEF SaveInv, PipeInv
    <3>5. file' \in Seq(Text)
      <4> HIDE DEF Text
      <4> QED
        BY <3>2, <3>3, <3>4, ConcatProperties
    <3>6. ASSUME at' \in Watched, raised' # "interrupt"
          PROVE  CURRENT_TEST' \in on_finish' /\ "save" \in monitors' /\ AllButMakes(file', output')
      <4>1. CURRENT_TEST \in on_finish /\ "save" \in monitors /\ AllButMakes(file, output)
        BY <3>1, <3>6 DEF SaveInv
      <4>2. AllButMakes(file \o ChunkRead, output \o ChunkRead)
        <5> HIDE DEF Text
        <5> QED
          BY <3>3, <3>4, <4>1, Extended
      <4> QED
        BY <2>1, <3>1, <3>2, <4>1, <4>2
    <3> QED
      BY <2>1, <3>5, <3>6 DEF SaveInv
  <2>7. CASE SetUp
    <3>1. file' = <<>> /\ output' = output /\ "save" \in monitors' /\ at = "setup"
      BY <2>7 DEF SetUp
    <3>2. CURRENT_TEST' \in on_finish'
      BY <1>2, <2>1, <3>1 DEF RunQemu
    <3>3. AllButMakes(file', output')
      BY <3>1, NothingYet
    <3>4. file' \in Seq(Text)
      BY <3>1, EmptySeq
    <3> QED
      BY <2>1, <3>1, <3>2, <3>3, <3>4 DEF SaveInv
  <2> QED
    BY <1>2, <2>2, <2>3, <2>4, <2>5, <2>6, <2>7 DEF RunQemu, RunnerStep
<1>3. CASE Build \/ PostMake \/ Abort \/ Finish
  BY <1>3, SavesStay DEF Build, PostMake, Abort, Finish, GoTo, Unsaved, testVars, progress, tally
<1>4. CASE NextEntry \/ Enter
  BY <1>4, SavesStay DEF NextEntry, Enter, vars, runnerVars, Unsaved, testVars, progress, tally
<1>5. CASE UNCHANGED gradeVars
  BY <1>5, SavesStay DEF gradeVars, vars, runnerVars, testVars, progress, tally, Unsaved
<1>6. CASE Body
  <2>1. UNCHANGED <<saved, log>> /\ file' = file /\ at' \notin Watched
    BY <1>6 DEF Body, StartQemu, GoTo, runnerVars, tally
  <2> QED
    BY <2>1 DEF SaveInv
<1>7. CASE Judge
  <2>1. log' \in Seq(Verdicts)
    BY <1>7, Logged DEF Judge, Verdict
  <2>2. file' = file /\ at' \notin Watched
    BY <1>7 DEF Judge, GoTo
  <2>3. saved' = [t \in Tests |-> saved'[t]]
    BY <1>7 DEF Judge, SaveInv
  <2> QED
    BY <2>1, <2>2, <2>3 DEF SaveInv
<1>8. CASE CtrlC
  <2>1. saved' = saved /\ file' = file
    BY <1>8 DEF CtrlC, Interrupt, tally
  <2>2. log' \in Seq(Verdicts)
    <3>1. CASE UNCHANGED tally
      BY <3>1 DEF tally, SaveInv
    <3>2. CASE Judging /\ (Score("cut") \/ Score(Verdict))
      BY <3>2, Logged DEF Verdict
    <3> QED
      BY <1>8, <3>1, <3>2 DEF CtrlC
  <2>3. at' \in Watched => raised' = "interrupt"
    BY <1>8, Interrupted DEF CtrlC
  <2> QED
    BY <2>1, <2>2, <2>3 DEF SaveInv
<1> QED
  BY <1>1, <1>2, <1>3, <1>4, <1>5, <1>6, <1>7, <1>8 DEF GradeNext, Grader

-----------------------------------------------------------------------------
LogInv == EarlyInv /\ CallInv /\ SaveInv

(* The logs' invariant is always true. *)
LEMMA LogAlways == GradeSpec => []LogInv
<1>1. GradeInit => LogInv
  <2> SUFFICES ASSUME GradeInit PROVE LogInv
    OBVIOUS
  <2>1. EarlyInv /\ CallInv
    BY DEF GradeInit, EarlyInv, CallInv, Early, Calling
  <2>2. <<>> \in Seq(Text) /\ <<>> \in Seq(Verdicts)
    BY EmptySeq
  <2>3. SaveInv
    BY <2>2 DEF GradeInit, SaveInv, Watched
  <2> QED
    BY <2>1, <2>3 DEF LogInv
<1>2. GradeInv /\ LogInv /\ [GradeNext]_gradeVars => LogInv'
  BY EarlyStep, CallStep, SaveStep DEF GradeInv, LogInv
<1> QED
  BY <1>1, <1>2, GradeAlways, PTL DEF GradeSpec

(* The log of a failure is what the kernel printed in that test's own run, from its
   first line to the last that was read; a test that passes leaves no log, and no
   verdict touches the log of another test. *)
THEOREM LogsAreOwn == GradeSpec => FailureLogs
<1> DEFINE v == Last(log')
           Right == /\ \A t \in Tests \ {v.test} : saved'[t] = saved[t]
                    /\ IF v.test \notin UsesQemu \/ interrupt' # interrupt THEN saved'[v.test] = saved[v.test]
                       ELSE IF v.verdict = "ok" THEN saved'[v.test] = NoLog
                       ELSE AllButMakes(saved'[v.test], output)
<1>1. GradeInv /\ LogInv /\ [GradeNext]_gradeVars => [log' # log => Right]_gradeVars
  <2> SUFFICES ASSUME GradeInv, LogInv, GradeNext, log' # log PROVE Right
    OBVIOUS
  <2>1. TestInv /\ SaveInv /\ CallInv /\ LinksInv
    BY DEF GradeInv, LogInv
  <2>2. Judge \/ CtrlC
    BY DEF GradeNext, Grader, Build, PostMake, NextEntry, Enter, Body, RunQemu, Abort, Finish, World, testVars, progress, tally
  <2>3. CASE CtrlC
    <3>1. saved' = saved /\ interrupt' # interrupt
      BY <2>3 DEF CtrlC, Interrupt, tally
    <3> HIDE DEF v
    <3> QED
      BY <3>1
  <2>4. CASE Judge
    <3>1. v = [test |-> Test, verdict |-> Verdict] /\ Test \in Tests
      BY <2>1, <2>4, Logged DEF Judge, Verdict
    <3>2. v.test = Test /\ v.verdict = Verdict
      BY <3>1
    <3> HIDE DEF v
    <3>3. CURRENT_TEST = Test /\ interrupt' = interrupt /\ raised # "interrupt"
          /\ (Test \in UsesQemu => at = "returned")
      BY <2>1, <2>4 DEF Judge, Judging, GoTo, outcome, CallInv, Between
    <3>4. \A t \in Tests \ {Test} : saved'[t] = saved[t]
      BY <2>1, <2>4, <3>3 DEF Judge, SaveInv
    <3>5. CASE Test \notin UsesQemu
      <4>1. ~Callbacks
        BY <2>1, <3>5 DEF Callbacks, TestInv
      <4>2. saved' = saved
        BY <2>4, <4>1 DEF Judge
      <4> QED
        BY <3>2, <3>5, <4>2
    <3>6. CASE Test \in UsesQemu
      <4>1. Test \in on_finish /\ AllButMakes(file, output)
        BY <2>1, <3>3, <3>6 DEF SaveInv, Watched
      <4>2. saved'[Test] = IF Passed THEN NoLog ELSE file
        BY <2>1, <2>4, <3>1, <3>3, <4>1 DEF Judge, Callbacks, SaveInv
      <4>3. Passed <=> Verdict = "ok"
        BY DEF Verdict
      <4>4. CASE Passed
        BY <3>2, <3>3, <3>4, <3>6, <4>2, <4>3, <4>4
      <4>5. CASE ~Passed
        BY <3>2, <3>3, <3>4, <3>6, <4>1, <4>2, <4>3, <4>5
      <4> QED
        BY <4>4, <4>5
    <3> QED
      BY <3>5, <3>6
  <2> QED
    BY <2>2, <2>3, <2>4
<1> QED
  BY <1>1, GradeAlways, LogAlways, PTL DEF GradeSpec, FailureLogs

-----------------------------------------------------------------------------

(* A least counterexample: of a collection of subsets of a finite set one has no other
   of them inside it. *)
LEMMA LeastSubset ==
  ASSUME NEW S, IsFiniteSet(S), NEW Bad \in SUBSET (SUBSET S), Bad # {}
  PROVE  \E T \in Bad : \A U \in Bad : U \subseteq T => U = T
<1>1. IsWellFoundedOn(StrictSubsetOrdering(S), SUBSET S)
  BY FS_FiniteSubsetsOfFinite, FS_StrictSubsetOrderingWellFounded
<1>2. \E T \in Bad : \A U \in Bad : <<U, T>> \notin StrictSubsetOrdering(S)
  BY <1>1, WFMin
<1> QED
  BY <1>2 DEF StrictSubsetOrdering

(* h adds up p over the subsets of U, as the folds do. *)
Chosen(s) == CHOOSE x \in s : TRUE
Adds(h, p, U) == h = [s \in SUBSET U |-> IF s = {} THEN 0 ELSE p[Chosen(s)] + h[s \ {Chosen(s)}]]
Total(p, S) == (CHOOSE h : Adds(h, p, S))[S]

LEMMA ChosenIn == ASSUME NEW S, S # {} PROVE Chosen(S) \in S
  BY DEF Chosen

LEMMA AddsAt ==
  ASSUME NEW h, NEW p, NEW U, Adds(h, p, U), NEW s \in SUBSET U
  PROVE  h[s] = IF s = {} THEN 0 ELSE p[Chosen(s)] + h[s \ {Chosen(s)}]
  BY DEF Adds

(* There is one such sum. *)
LEMMA OneTotal ==
  ASSUME NEW p, NEW S, IsFiniteSet(S), NEW U, NEW V, S \subseteq U, S \subseteq V,
         NEW h, NEW k, Adds(h, p, U), Adds(k, p, V)
  PROVE  h[S] = k[S]
<1> DEFINE Bad == {T \in SUBSET S : h[T] # k[T]}
<1> SUFFICES ASSUME Bad # {} PROVE FALSE
  OBVIOUS
<1>0. Bad \in SUBSET (SUBSET S)
  OBVIOUS
<1>1. PICK T \in Bad : \A W \in Bad : W \subseteq T => W = T
  <2> HIDE DEF Bad
  <2> QED
    BY <1>0, LeastSubset
<1>2. T # {} /\ T \in SUBSET U /\ T \in SUBSET V
  BY <1>1, AddsAt
<1>3. Chosen(T) \in T
  BY <1>2, ChosenIn
<1>4. h[T \ {Chosen(T)}] = k[T \ {Chosen(T)}]
  BY <1>1, <1>3
<1>5. h[T] = p[Chosen(T)] + h[T \ {Chosen(T)}] /\ k[T] = p[Chosen(T)] + k[T \ {Chosen(T)}]
  BY <1>2, AddsAt
<1> QED
  BY <1>1, <1>4, <1>5

LEMMA TotalExists ==
  ASSUME NEW p, NEW S, IsFiniteSet(S)
  PROVE  \E h : Adds(h, p, S)
<1> DEFINE Bad == {T \in SUBSET S : ~ \E h : Adds(h, p, T)}
<1> SUFFICES ASSUME Bad # {} PROVE FALSE
  OBVIOUS
<1>0. Bad \in SUBSET (SUBSET S)
  OBVIOUS
<1>1. PICK T \in Bad : \A W \in Bad : W \subseteq T => W = T
  <2> HIDE DEF Bad
  <2> QED
    BY <1>0, LeastSubset
<1>2. \A u \in SUBSET T : IsFiniteSet(u)
  BY <1>1, FS_Subset
<1>3. \A u \in SUBSET T : u # T => Adds(CHOOSE h : Adds(h, p, u), p, u)
  BY <1>1
<1> DEFINE g == [s \in SUBSET T |-> IF s = {} THEN 0 ELSE p[Chosen(s)] + Total(p, s \ {Chosen(s)})]
<1>4. ASSUME NEW u \in SUBSET T, u # T PROVE Total(p, u) = g[u]
  <2> DEFINE h == CHOOSE h : Adds(h, p, u)
  <2>1. Adds(h, p, u) /\ Total(p, u) = h[u]
    BY <1>3, <1>4 DEF Total
  <2> HIDE DEF h
  <2>2. CASE u = {}
    BY <2>1, <2>2, AddsAt
  <2>3. CASE u # {}
    <3> DEFINE v == u \ {Chosen(u)}
    <3>1. Chosen(u) \in u
      BY <2>3, ChosenIn
    <3>2. h[u] = p[Chosen(u)] + h[v]
      BY <2>1, <2>3, AddsAt
    <3>3. v \in SUBSET T /\ v # T /\ v \subseteq u
      BY <3>1
    <3> DEFINE k == CHOOSE k : Adds(k, p, v)
    <3>4. Adds(k, p, v) /\ Total(p, v) = k[v]
      BY <1>3, <3>3 DEF Total
    <3> HIDE DEF k
    <3>5. IsFiniteSet(v)
      BY <1>2, <3>3
    <3>6. h[v] = k[v]
      BY <2>1, <3>3, <3>4, <3>5, OneTotal
    <3> QED
      BY <2>1, <2>3, <3>2, <3>4, <3>6
  <2> QED
    BY <2>2, <2>3
<1>5. ASSUME NEW s \in SUBSET T, s # {} PROVE Total(p, s \ {Chosen(s)}) = g[s \ {Chosen(s)}]
  <2>1. Chosen(s) \in s
    BY <1>5, ChosenIn
  <2>2. s \ {Chosen(s)} \in SUBSET T /\ s \ {Chosen(s)} # T
    BY <2>1
  <2> HIDE DEF g
  <2> QED
    BY <1>4, <2>2
<1>6. g = [s \in SUBSET T |-> IF s = {} THEN 0 ELSE p[Chosen(s)] + g[s \ {Chosen(s)}]]
  BY <1>5
<1>7. Adds(g, p, T)
  BY <1>6 DEF Adds
<1> QED
  BY <1>1, <1>7

LEMMA TotalUnfolds ==
  ASSUME NEW p, NEW S, IsFiniteSet(S)
  PROVE  /\ S = {} => Total(p, S) = 0
         /\ S # {} => Total(p, S) = p[Chosen(S)] + Total(p, S \ {Chosen(S)})
<1> DEFINE h == CHOOSE h : Adds(h, p, S)
<1>1. Adds(h, p, S) /\ Total(p, S) = h[S]
  BY TotalExists DEF Total
<1> HIDE DEF h
<1>2. ASSUME S # {} PROVE Total(p, S) = p[Chosen(S)] + Total(p, S \ {Chosen(S)})
  <2> DEFINE v == S \ {Chosen(S)}
  <2> DEFINE k == CHOOSE k : Adds(k, p, v)
  <2>1. IsFiniteSet(v) /\ v \subseteq S
    BY FS_Subset
  <2>2. Adds(k, p, v) /\ Total(p, v) = k[v]
    BY <2>1, TotalExists DEF Total
  <2> HIDE DEF k, v
  <2>3. h[v] = k[v]
    BY <1>1, <2>1, <2>2, OneTotal
  <2>4. h[S] = p[Chosen(S)] + h[v]
    BY <1>1, <1>2, AddsAt DEF v
  <2> QED
    BY <1>1, <2>2, <2>3, <2>4 DEF v
<1> QED
  BY <1>1, <1>2, AddsAt

LEMMA TotalType ==
  ASSUME NEW p, NEW S, IsFiniteSet(S), \A x \in S : p[x] \in Int
  PROVE  Total(p, S) \in Int
<1> DEFINE Bad == {T \in SUBSET S : Total(p, T) \notin Int}
<1> SUFFICES ASSUME Bad # {} PROVE FALSE
  OBVIOUS
<1>0. Bad \in SUBSET (SUBSET S)
  OBVIOUS
<1>1. PICK T \in Bad : \A W \in Bad : W \subseteq T => W = T
  <2> HIDE DEF Bad
  <2> QED
    BY <1>0, LeastSubset
<1>2. IsFiniteSet(T) /\ T \in SUBSET S
  BY <1>1, FS_Subset
<1>3. T # {}
  <2>1. Total(p, T) \notin Int
    BY <1>1
  <2>2. T = {} => Total(p, T) = 0
    BY <1>2, TotalUnfolds
  <2> HIDE DEF Bad
  <2> QED
    BY <2>1, <2>2
<1>4. Chosen(T) \in T /\ p[Chosen(T)] \in Int
  BY <1>2, <1>3, ChosenIn
<1>5. Total(p, T \ {Chosen(T)}) \in Int
  BY <1>1, <1>4
<1>6. Total(p, T) = p[Chosen(T)] + Total(p, T \ {Chosen(T)})
  BY <1>2, <1>3, TotalUnfolds
<1> QED
  BY <1>1, <1>4, <1>5, <1>6

(* The order does not matter. *)
LEMMA TotalWithout ==
  ASSUME NEW p, NEW S, IsFiniteSet(S), \A x \in S : p[x] \in Int
  PROVE  \A x \in S : Total(p, S) = Total(p, S \ {x}) + p[x]
<1> DEFINE Bad == {T \in SUBSET S : \E x \in T : Total(p, T) # Total(p, T \ {x}) + p[x]}
<1> SUFFICES ASSUME Bad # {} PROVE FALSE
  OBVIOUS
<1>0. Bad \in SUBSET (SUBSET S)
  OBVIOUS
<1>1. PICK T \in Bad : \A W \in Bad : W \subseteq T => W = T
  <2> HIDE DEF Bad
  <2> QED
    BY <1>0, LeastSubset
<1>2. \A W \in SUBSET S : IsFiniteSet(W) /\ Total(p, W) \in Int
  <2> SUFFICES ASSUME NEW W \in SUBSET S PROVE IsFiniteSet(W) /\ Total(p, W) \in Int
    OBVIOUS
  <2>1. IsFiniteSet(W)
    BY FS_Subset
  <2> QED
    BY <2>1, TotalType
<1>3. PICK x \in T : Total(p, T) # Total(p, T \ {x}) + p[x]
  BY <1>1
<1> DEFINE c == Chosen(T)
<1>4. c \in T /\ p[c] \in Int /\ p[x] \in Int
  BY <1>1, <1>3, ChosenIn
<1>5. Total(p, T) = p[c] + Total(p, T \ {c})
  BY <1>1, <1>2, <1>3, TotalUnfolds
<1> HIDE DEF c
<1>6. x # c
  <2>1. Total(p, T \ {c}) \in Int
    BY <1>1, <1>2
  <2> QED
    BY <1>3, <1>4, <1>5, <2>1
<1>7. Total(p, T \ {c}) = Total(p, (T \ {c}) \ {x}) + p[x]
  <2>1. T \ {c} \notin Bad /\ T \ {c} \in SUBSET S /\ x \in T \ {c}
    BY <1>1, <1>3, <1>4, <1>6
  <2> QED
    BY <2>1
<1>8. Total(p, T \ {x}) = Total(p, (T \ {x}) \ {c}) + p[c]
  <2>1. T \ {x} \notin Bad /\ T \ {x} \in SUBSET S /\ c \in T \ {x}
    BY <1>1, <1>3, <1>4, <1>6
  <2> QED
    BY <2>1
<1>9. (T \ {x}) \ {c} = (T \ {c}) \ {x} /\ (T \ {x}) \ {c} \in SUBSET S
  BY <1>1
<1>10. Total(p, (T \ {x}) \ {c}) \in Int
  BY <1>2, <1>9
<1>11. Total(p, T) = Total(p, T \ {x}) + p[x]
  <2> DEFINE rest == Total(p, (T \ {x}) \ {c})
             one == p[c]
             other == p[x]
  <2>1. Total(p, T) = one + (rest + other) /\ Total(p, T \ {x}) = rest + one
    BY <1>5, <1>7, <1>8, <1>9
  <2>2. one \in Int /\ rest \in Int /\ other \in Int
    BY <1>4, <1>10
  <2> HIDE DEF rest, one, other
  <2>3. Total(p, T) = Total(p, T \ {x}) + other
    BY <2>1, <2>2
  <2> QED
    BY <2>3 DEF other
<1> QED
  BY <1>3, <1>11

LEMMA TotalWith ==
  ASSUME NEW p, NEW S, IsFiniteSet(S), NEW x, x \notin S, \A y \in S \union {x} : p[y] \in Int
  PROVE  Total(p, S \union {x}) = Total(p, S) + p[x]
<1>1. IsFiniteSet(S \union {x})
  BY FS_AddElement
<1>2. (S \union {x}) \ {x} = S /\ x \in S \union {x}
  OBVIOUS
<1> DEFINE T == S \union {x}
<1> HIDE DEF T
<1>3. Total(p, T) = Total(p, T \ {x}) + p[x]
  BY <1>1, <1>2, TotalWithout DEF T
<1> QED
  BY <1>2, <1>3 DEF T

LEMMA SameTotal ==
  ASSUME NEW p, NEW q, NEW S, IsFiniteSet(S), \A x \in S : p[x] = q[x]
  PROVE  Total(p, S) = Total(q, S)
<1> DEFINE Bad == {T \in SUBSET S : Total(p, T) # Total(q, T)}
<1> SUFFICES ASSUME Bad # {} PROVE FALSE
  OBVIOUS
<1>0. Bad \in SUBSET (SUBSET S)
  OBVIOUS
<1>1. PICK T \in Bad : \A W \in Bad : W \subseteq T => W = T
  <2> HIDE DEF Bad
  <2> QED
    BY <1>0, LeastSubset
<1>2. IsFiniteSet(T)
  BY <1>1, FS_Subset
<1>3. T # {}
  BY <1>1, <1>2, TotalUnfolds
<1>4. Chosen(T) \in T
  BY <1>3, ChosenIn
<1>5. Total(p, T \ {Chosen(T)}) = Total(q, T \ {Chosen(T)}) /\ p[Chosen(T)] = q[Chosen(T)]
  BY <1>1, <1>4
<1> QED
  BY <1>1, <1>2, <1>3, <1>5, TotalUnfolds

(* The folds of ScoreAddsUp are such sums. *)
LEMMA PointsAdd ==
  ASSUME NEW S
  PROVE  Points(S) = Total(points, S)
  BY DEF Points, FoldSet, MapThenFoldSet, Total, Adds, Chosen

Parts(ps, c) == [i \in DOMAIN ps |-> ps[i][c]]
Summed(h, ps, c) ==
  h = [s \in SUBSET DOMAIN ps |-> IF s = {} THEN 0 ELSE ps[Chosen(s)][c] + h[s \ {Chosen(s)}]]
LEMMA PartsAdd ==
  ASSUME NEW ps, IsFiniteSet(DOMAIN ps)
  PROVE  /\ FoldSeq(LAMBDA p, n : p[1] + n, 0, ps) = Total(Parts(ps, 1), DOMAIN ps)
         /\ FoldSeq(LAMBDA p, n : p[2] + n, 0, ps) = Total(Parts(ps, 2), DOMAIN ps)
<1>1. ASSUME NEW c, NEW h PROVE Adds(h, Parts(ps, c), DOMAIN ps) <=> Summed(h, ps, c)
  <2>1. \A s \in SUBSET DOMAIN ps : s # {} => Parts(ps, c)[Chosen(s)] = ps[Chosen(s)][c]
    BY ChosenIn DEF Parts
  <2> QED
    BY <2>1 DEF Adds, Summed
<1>2. ASSUME NEW c PROVE (CHOOSE h : Summed(h, ps, c))[DOMAIN ps] = Total(Parts(ps, c), DOMAIN ps)
  <2> DEFINE D == DOMAIN ps
             p == Parts(ps, c)
             k == CHOOSE h : Adds(h, p, D)
             l == CHOOSE h : Summed(h, ps, c)
  <2>1. Adds(k, p, D) /\ Total(p, D) = k[D]
    BY TotalExists DEF Total
  <2>2. Summed(l, ps, c)
    BY <1>1, <2>1
  <2>3. Adds(l, p, D)
    BY <1>1, <2>2
  <2> HIDE DEF D, p, k, l
  <2>4. IsFiniteSet(D)
    BY DEF D
  <2>5. l[D] = k[D]
    BY <2>1, <2>3, <2>4, OneTotal
  <2> QED
    BY <2>1, <2>5 DEF l, D, p
<1>3. FoldSeq(LAMBDA p, n : p[1] + n, 0, ps) = (CHOOSE h : Summed(h, ps, 1))[DOMAIN ps]
  BY DEF FoldSeq, FoldFunction, FoldFunctionOnSet, MapThenFoldSet, Summed, Chosen
<1>4. FoldSeq(LAMBDA p, n : p[2] + n, 0, ps) = (CHOOSE h : Summed(h, ps, 2))[DOMAIN ps]
  BY DEF FoldSeq, FoldFunction, FoldFunctionOnSet, MapThenFoldSet, Summed, Chosen
<1> QED
  BY <1>2, <1>3, <1>4

-----------------------------------------------------------------------------
(* The tests that a stack of calls has marked, each by one call. *)
Doing(cs) == {cs[k].test : k \in {k \in 1..Len(cs) : cs[k].step # "enter"}}
Apart(cs) ==
  \A j, k \in 1..Len(cs) :
    cs[j].step # "enter" /\ cs[k].step # "enter" /\ cs[j].test = cs[k].test => j = k

(* Every test that has been marked is being run or was judged, once; and those of the
   entries so far that the filters match have been marked. *)
JudgeInv ==
  /\ \A j, k \in 1..Len(log) : log[j].test = log[k].test => j = k
  /\ Judged \subseteq complete /\ Doing(calls) \subseteq complete /\ Apart(calls)
  /\ at # "exit" => Doing(calls) \cap Judged = {} /\ complete \subseteq Judged \union Doing(calls)
  /\ \A k \in 1..Len(TESTS) :
       k < entry /\ TESTS[k] # "part" /\ Selected(TESTS[k]) =>
         TESTS[k] \in complete \/ (Calling("enter") /\ Test = TESTS[k])

(* Status 0 is given when nothing with points has failed, and without Ctrl-C at the
   end of the list only. *)
StatusInv ==
  /\ raised = "interrupt" => interrupt # "no"
  /\ status = 0 => /\ POSSIBLE <= TOTAL
                   /\ interrupt = "no" => \A t \in Tests : Selected(t) => t \in Judged

(* A call in front of others. *)
LEMMA DoingAhead ==
  ASSUME NEW S, NEW c \in S, NEW rest \in Seq(S)
  PROVE  /\ Doing(<<c>> \o rest) = (IF c.step = "enter" THEN {} ELSE {c.test}) \union Doing(rest)
         /\ Apart(<<c>> \o rest) <=> Apart(rest) /\ (c.step = "enter" \/ c.test \notin Doing(rest))
<1> DEFINE one == <<c>>
           all == one \o rest
<1>1. one \in Seq(S) /\ Len(one) = 1 /\ one[1] = c
  OBVIOUS
<1> HIDE DEF one
<1>2. /\ Len(all) = 1 + Len(rest) /\ Len(rest) \in Nat
      /\ \A k \in 1..Len(all) : all[k] = IF k <= 1 THEN one[k] ELSE rest[k - 1]
  <2>1. /\ Len(all) = Len(one) + Len(rest) /\ Len(rest) \in Nat
        /\ \A k \in 1..Len(all) : all[k] = IF k <= Len(one) THEN one[k] ELSE rest[k - Len(one)]
    BY <1>1, Joined
  <2> HIDE DEF all
  <2> QED
    BY <1>1, <2>1
<1> HIDE DEF all
<1>3. all[1] = c /\ 1 \in 1..Len(all)
  BY <1>1, <1>2
<1>4. \A k \in 1..Len(rest) : k + 1 \in 1..Len(all) /\ all[k + 1] = rest[k]
  BY <1>2
<1>5. \A k \in 1..Len(all) : k # 1 => k - 1 \in 1..Len(rest) /\ all[k] = rest[k - 1]
  BY <1>2
<1>6. ASSUME NEW t \in Doing(all) PROVE t \in (IF c.step = "enter" THEN {} ELSE {c.test}) \union Doing(rest)
  <2>1. PICK k \in 1..Len(all) : all[k].step # "enter" /\ all[k].test = t
    BY <1>6 DEF Doing
  <2>2. CASE k = 1
    BY <1>3, <2>1, <2>2
  <2>3. CASE k # 1
    BY <1>5, <2>1, <2>3 DEF Doing
  <2> QED
    BY <2>2, <2>3
<1>7. ASSUME NEW t \in (IF c.step = "enter" THEN {} ELSE {c.test}) \union Doing(rest) PROVE t \in Doing(all)
  <2>1. CASE c.step # "enter" /\ t = c.test
    BY <1>3, <2>1 DEF Doing
  <2>2. CASE t \in Doing(rest)
    <3>1. PICK k \in 1..Len(rest) : rest[k].step # "enter" /\ rest[k].test = t
      BY <2>2 DEF Doing
    <3> QED
      BY <1>4, <3>1 DEF Doing
  <2> QED
    BY <1>7, <2>1, <2>2
<1>8. ASSUME Apart(all) PROVE Apart(rest) /\ (c.step = "enter" \/ c.test \notin Doing(rest))
  <2>1. ASSUME NEW j \in 1..Len(rest), NEW k \in 1..Len(rest), rest[j].step # "enter", rest[k].step # "enter",
               rest[j].test = rest[k].test
        PROVE  j = k
    <3>1. j + 1 = k + 1
      BY <1>4, <1>8, <2>1 DEF Apart
    <3> QED
      BY <3>1
  <2>2. ASSUME c.step # "enter", c.test \in Doing(rest) PROVE FALSE
    <3>1. PICK k \in 1..Len(rest) : rest[k].step # "enter" /\ rest[k].test = c.test
      BY <2>2 DEF Doing
    <3>2. k + 1 = 1
      BY <1>3, <1>4, <1>8, <2>2, <3>1 DEF Apart
    <3> QED
      BY <3>2
  <2> QED
    BY <2>1, <2>2 DEF Apart
<1>9. ASSUME Apart(rest), c.step = "enter" \/ c.test \notin Doing(rest) PROVE Apart(all)
  <2> SUFFICES ASSUME NEW j \in 1..Len(all), NEW k \in 1..Len(all), all[j].step # "enter", all[k].step # "enter",
                      all[j].test = all[k].test
               PROVE  j = k
    BY DEF Apart
  <2>1. CASE j # 1 /\ k # 1
    <3>1. /\ j - 1 \in 1..Len(rest) /\ k - 1 \in 1..Len(rest) /\ all[j] = rest[j - 1] /\ all[k] = rest[k - 1]
      BY <1>5, <2>1
    <3>2. j - 1 = k - 1
      BY <1>9, <3>1 DEF Apart
    <3> QED
      BY <3>2
  <2>2. ASSUME NEW n \in 1..Len(all), n # 1, all[n].step # "enter", c.step # "enter"
        PROVE  all[n].test # c.test
    <3>1. all[n].test \in Doing(rest)
      BY <1>5, <2>2 DEF Doing
    <3> QED
      BY <1>9, <2>2, <3>1
  <2> QED
    BY <1>3, <2>1, <2>2
<1> QED
  BY <1>6, <1>7, <1>8, <1>9 DEF all, one

(* The innermost call and the others. *)
LEMMA DoingOf ==
  ASSUME calls \in Seq(Calls), calls # <<>>
  PROVE  /\ Tail(calls) \in Seq(Calls) /\ Test \in Tests
         /\ Doing(calls) = (IF Calling("enter") THEN {} ELSE {Test}) \union Doing(Tail(calls))
         /\ Apart(calls) <=> Apart(Tail(calls)) /\ (Calling("enter") \/ Test \notin Doing(Tail(calls)))
<1> DEFINE c == Head(calls)
<1>1. c \in Calls /\ Tail(calls) \in Seq(Calls) /\ Test \in Tests
  BY HeadTailProperties, Innermost
<1>2. calls = <<c>> \o Tail(calls)
  <2> HIDE DEF Calls
  <2> DEFINE one == <<c>>
             all == one \o Tail(calls)
  <2>1. one \in Seq(Calls) /\ Len(one) = 1 /\ one[1] = c
    BY <1>1
  <2> HIDE DEF one
  <2>2. /\ Len(all) = 1 + Len(Tail(calls)) /\ Len(Tail(calls)) \in Nat /\ all \in Seq(Calls)
        /\ \A k \in 1..Len(all) : all[k] = IF k <= 1 THEN one[k] ELSE Tail(calls)[k - 1]
    <3>1. /\ all \in Seq(Calls) /\ Len(all) = Len(one) + Len(Tail(calls)) /\ Len(Tail(calls)) \in Nat
          /\ \A k \in 1..Len(all) : all[k] = IF k <= Len(one) THEN one[k] ELSE Tail(calls)[k - Len(one)]
      BY <1>1, <2>1, Joined
    <3> HIDE DEF all
    <3> QED
      BY <2>1, <3>1
  <2> HIDE DEF all
  <2>3. /\ Len(Tail(calls)) = Len(calls) - 1 /\ c = calls[1] /\ Len(calls) \in Nat
        /\ \A k \in 1..Len(Tail(calls)) : Tail(calls)[k] = calls[k + 1]
    BY HeadTailProperties, LenProperties
  <2>4. Len(all) = Len(calls)
    BY <2>2, <2>3
  <2>5. ASSUME NEW k \in 1..Len(all) PROVE all[k] = calls[k]
    <3>1. CASE k = 1
      BY <2>1, <2>2, <2>3, <3>1
    <3>2. CASE k # 1
      <4>1. k - 1 \in 1..Len(Tail(calls)) /\ all[k] = Tail(calls)[k - 1] /\ (k - 1) + 1 = k
        BY <2>2, <3>2
      <4>2. Tail(calls)[k - 1] = calls[(k - 1) + 1]
        BY <2>3, <4>1
      <4> QED
        BY <4>1, <4>2
    <3> QED
      BY <3>1, <3>2
  <2>6. all = calls
    BY <2>2, <2>4, <2>5, SeqEqual
  <2> QED
    BY <2>6 DEF all, one
<1>3. (c.step = "enter" <=> Calling("enter")) /\ c.test = Test
  BY DEF Calling, Test
<1> HIDE DEF c, Calls
<1>4. /\ Doing(<<c>> \o Tail(calls)) = (IF c.step = "enter" THEN {} ELSE {c.test}) \union Doing(Tail(calls))
      /\ Apart(<<c>> \o Tail(calls)) <=> Apart(Tail(calls)) /\ (c.step = "enter" \/ c.test \notin Doing(Tail(calls)))
  BY <1>1, DoingAhead
<1> QED
  BY <1>1, <1>2, <1>3, <1>4

(* What calls become when the innermost one goes on, with and without its parent in front. *)
LEMMA DoingNow ==
  ASSUME calls \in Seq(Calls), calls # <<>>, NEW step \in {"body", "fn"}
  PROVE  /\ Doing(Now(step)) = {Test} \union Doing(Tail(calls))
         /\ Apart(Now(step)) <=> Apart(Tail(calls)) /\ Test \notin Doing(Tail(calls))
         /\ Doing(Parent \o Now(step)) = Doing(Now(step))
         /\ Apart(Parent \o Now(step)) <=> Apart(Now(step))
<1> DEFINE c == [test |-> Test, step |-> step]
           d == [test |-> parent[Test], step |-> "enter"]
<1>1. Tail(calls) \in Seq(Calls) /\ Test \in Tests /\ Now(step) \in Seq(Calls) /\ parent[Test] \in Tests \union {"none"}
  BY Innermost
<1>2. c \in Calls /\ c.test = Test /\ c.step # "enter"
  BY <1>1 DEF Calls
<1>3. Now(step) = <<c>> \o Tail(calls)
  BY DEF Now
<1>4. parent[Test] = "none" => Parent = <<>>
  BY DEF Parent
<1>5. parent[Test] # "none" => Parent = <<d>> /\ d \in Calls /\ d.step = "enter"
  BY <1>1 DEF Parent, Calls
<1> HIDE DEF c, d, Calls
<1>6. /\ Doing(<<c>> \o Tail(calls)) = {Test} \union Doing(Tail(calls))
      /\ Apart(<<c>> \o Tail(calls)) <=> Apart(Tail(calls)) /\ Test \notin Doing(Tail(calls))
  BY <1>1, <1>2, DoingAhead
<1>7. CASE parent[Test] = "none"
  <2>1. Parent \o Now(step) = Now(step)
    BY <1>1, <1>4, <1>7, ConcatEmptySeq
  <2> QED
    BY <1>3, <1>6, <2>1
<1>8. CASE parent[Test] # "none"
  <2>1. /\ Doing(<<d>> \o Now(step)) = Doing(Now(step))
        /\ Apart(<<d>> \o Now(step)) <=> Apart(Now(step))
    <3>1. d \in Calls /\ d.step = "enter"
      BY <1>5, <1>8
    <3> DEFINE now == Now(step)
    <3>2. now \in Seq(Calls)
      BY <1>1
    <3> HIDE DEF now
    <3>3. /\ Doing(<<d>> \o now) = (IF d.step = "enter" THEN {} ELSE {d.test}) \union Doing(now)
          /\ Apart(<<d>> \o now) <=> Apart(now) /\ (d.step = "enter" \/ d.test \notin Doing(now))
      BY <3>1, <3>2, DoingAhead
    <3> QED
      BY <3>1, <3>3 DEF now
  <2> QED
    BY <1>3, <1>5, <1>6, <1>8, <2>1
<1> QED
  BY <1>7, <1>8

(* The grader's progress stays as it is. *)
JudgesStay ==
  /\ UNCHANGED <<log, complete, calls, selection>> /\ entry' = entry
  /\ at' # "exit" => at # "exit"

LEMMA JudgedStay == JudgeInv /\ JudgesStay => JudgeInv'
  BY DEF JudgeInv, JudgesStay, Judged, Calling, Test, Selected

(* A verdict is added. *)
LEMMA JudgedMore ==
  ASSUME TestInv, SaveInv, NEW verdict \in {"ok", "fail", "cut"}, Judging, Score(verdict)
  PROVE  /\ Len(log) \in Nat /\ Len(log') = Len(log) + 1
         /\ log'[Len(log) + 1] = [test |-> Test, verdict |-> verdict]
         /\ \A k \in 1..Len(log) : log'[k] = log[k]
         /\ Judged' = Judged \union {Test}
<1> DEFINE v == [test |-> Test, verdict |-> verdict]
<1>1. Test \in Tests
  BY Innermost DEF Judging, Calling, TestInv
<1>2. v \in Verdicts /\ v.test = Test
  BY <1>1 DEF Verdicts
<1>3. log' = Append(log, v) /\ log \in Seq(Verdicts)
  BY DEF Score, SaveInv
<1> HIDE DEF v
<1>4. /\ Len(log') = Len(log) + 1 /\ log'[Len(log) + 1] = v /\ Len(log) \in Nat
      /\ \A k \in 1..Len(log) : log'[k] = log[k]
  BY <1>2, <1>3, AppendProperties, LenProperties
<1>5. Judged' = {log'[k].test : k \in 1..(Len(log) + 1)}
  BY <1>4 DEF Judged
<1>6. 1..(Len(log) + 1) = 1..Len(log) \union {Len(log) + 1}
  BY <1>4
<1>7. Judged' = Judged \union {Test}
  BY <1>2, <1>4, <1>5, <1>6 DEF Judged
<1> QED
  BY <1>4, <1>7 DEF v

(* Every marked test is being run or judged, at every step. *)
LEMMA JudgeStep ==
  LinksInv /\ TestInv /\ CallInv /\ SaveInv /\ JudgeInv /\ [GradeNext]_gradeVars => JudgeInv'
<1> SUFFICES ASSUME LinksInv, TestInv, CallInv, SaveInv, JudgeInv, [GradeNext]_gradeVars PROVE JudgeInv'
  OBVIOUS
<1>1. CASE World
  BY <1>1, JudgedStay DEF World, ChildStep, Tick, JudgesStay, runnerVars, testVars, progress, tally
<1>2. CASE RunQemu
  <2>1. at # "exit"
    BY <1>2, Selecting, RoundEnds DEF RunQemu, RunnerStep, Try, EndRound, Round, ReadQemu, ReadGdb, Connect, Fail, SetUp, Shutdown, Close, Reacting
  <2> QED
    BY <1>2, <2>1, JudgedStay DEF RunQemu, JudgesStay, tally
<1>3. CASE Build \/ PostMake \/ Abort \/ Finish
  BY <1>3, JudgedStay DEF Build, PostMake, Abort, Finish, GoTo, JudgesStay, testVars, progress, tally
<1>4. CASE UNCHANGED gradeVars
  BY <1>4, JudgedStay DEF gradeVars, vars, runnerVars, testVars, progress, tally, JudgesStay
<1>5. ASSUME Enter \/ Body \/ Judge
      PROVE  /\ calls \in Seq(Calls) /\ calls # <<>> /\ at # "exit"
             /\ Tail(calls) \in Seq(Calls) /\ Test \in Tests
             /\ Calling("enter") => Doing(calls) = Doing(Tail(calls))
             /\ ~Calling("enter") => Doing(calls) = {Test} \union Doing(Tail(calls))
             /\ Apart(Tail(calls)) /\ (Calling("enter") \/ Test \notin Doing(Tail(calls)))
  <2>1. calls \in Seq(Calls) /\ calls # <<>> /\ at # "exit"
    BY <1>5 DEF Enter, Body, Judge, Judging, Calling, TestInv
  <2>2. Apart(calls)
    BY DEF JudgeInv
  <2> QED
    BY <2>1, <2>2, DoingOf
<1>6. /\ \A j, k \in 1..Len(log) : log[j].test = log[k].test => j = k
      /\ Judged \subseteq complete /\ Doing(calls) \subseteq complete /\ Apart(calls)
      /\ at # "exit" => Doing(calls) \cap Judged = {} /\ complete \subseteq Judged \union Doing(calls)
      /\ \A k \in 1..Len(TESTS) :
           k < entry /\ TESTS[k] # "part" /\ Selected(TESTS[k]) =>
             TESTS[k] \in complete \/ (Calling("enter") /\ Test = TESTS[k])
  BY DEF JudgeInv
<1>7. CASE NextEntry
  <2>1. /\ calls = <<>> /\ at = "idle" /\ at' = at /\ entry \in Nat /\ entry' = entry + 1 /\ entry <= Len(TESTS)
        /\ UNCHANGED <<log, complete, selection>>
    BY <1>7 DEF NextEntry, vars, runnerVars, TestInv
  <2>2. Doing(<<>>) = {} /\ Apart(<<>>)
    BY DEF Doing, Apart
  <2>3. \/ TESTS[entry] = "part" /\ calls' = <<>>
        \/ ~Selected(TESTS[entry]) /\ calls' = <<>>
        \/ calls' = <<[test |-> TESTS[entry], step |-> "enter"]>>
    BY <1>7, <2>1 DEF NextEntry
  <2>4. Doing(calls') = {} /\ Apart(calls') /\ (calls' # <<>> => Calling("enter")' /\ Test' = TESTS[entry])
    <3>1. CASE calls' = <<>>
      BY <2>2, <3>1
    <3>2. CASE calls' = <<[test |-> TESTS[entry], step |-> "enter"]>>
      <4>1. Len(calls') = 1 /\ calls' # <<>> /\ calls'[1] = [test |-> TESTS[entry], step |-> "enter"] /\ Head(calls') = calls'[1]
        BY <3>2
      <4>2. calls'[1].step = "enter" /\ calls'[1].test = TESTS[entry]
        BY <4>1
      <4>3. Doing(calls') = {} /\ Apart(calls')
        BY <4>1, <4>2 DEF Doing, Apart
      <4> QED
        BY <4>1, <4>2, <4>3 DEF Calling, Test
    <3> QED
      BY <2>3, <3>1, <3>2
  <2>5. Judged' = Judged /\ \A e : Selected(e)' <=> Selected(e)
    BY <2>1 DEF Judged, Selected
  <2>6. ASSUME NEW k \in 1..Len(TESTS), k < entry', TESTS[k] # "part", Selected(TESTS[k])
        PROVE  TESTS[k] \in complete \/ (Calling("enter")' /\ Test' = TESTS[k])
    <3>1. CASE k < entry
      <4>1. ~Calling("enter")
        BY <2>1 DEF Calling
      <4> QED
        BY <1>6, <2>6, <3>1, <4>1
    <3>2. CASE ~(k < entry)
      <4>1. k = entry
        BY <2>1, <2>6, <3>2
      <4>2. calls' # <<>>
        <5>1. <<[test |-> TESTS[entry], step |-> "enter"]>> # <<>>
          OBVIOUS
        <5> QED
          BY <2>3, <2>6, <4>1, <5>1
      <4> QED
        BY <2>4, <4>1, <4>2
    <3> QED
      BY <3>1, <3>2
  <2>7. Doing(calls) = {}
    BY <2>1, <2>2
  <2> QED
    BY <1>6, <2>1, <2>4, <2>5, <2>6, <2>7 DEF JudgeInv
<1>8. CASE Enter
  <2>1. /\ at' = at /\ log' = log /\ entry' = entry /\ selection' = selection
        /\ complete' = complete \union {Test} /\ Calling("enter")
        /\ Test \in complete => calls' = Tail(calls)
        /\ Test \notin complete => calls' = Parent \o Now("body")
    BY <1>8 DEF Enter, Marked, Called, vars, runnerVars, tally
  <2>2. Judged' = Judged /\ \A e : Selected(e)' <=> Selected(e)
    BY <2>1 DEF Judged, Selected
  <2>3. Doing(calls) = Doing(Tail(calls)) /\ Apart(Tail(calls)) /\ at # "exit"
    BY <1>5, <1>6, <1>8, <2>1
  <2>4. Doing(calls') = (IF Test \in complete THEN {} ELSE {Test}) \union Doing(calls) /\ Apart(calls')
    <3>1. CASE Test \in complete
      BY <2>1, <2>3, <3>1
    <3>2. CASE Test \notin complete
      <4>1. Test \notin Doing(Tail(calls))
        BY <1>6, <2>3, <3>2
      <4>2. /\ Doing(Parent \o Now("body")) = {Test} \union Doing(Tail(calls))
            /\ Apart(Parent \o Now("body"))
        BY <1>5, <1>8, <2>3, <4>1, DoingNow
      <4> QED
        BY <2>1, <2>3, <3>2, <4>2
    <3> QED
      BY <3>1, <3>2
  <2>5. ASSUME NEW k \in 1..Len(TESTS), k < entry, TESTS[k] # "part", Selected(TESTS[k])
        PROVE  TESTS[k] \in complete \union {Test}
    BY <1>6, <2>5
  <2>6. /\ Judged \subseteq complete' /\ Doing(calls') \subseteq complete'
        /\ Doing(calls') \cap Judged = {} /\ complete' \subseteq Judged \union Doing(calls')
    BY <1>6, <2>1, <2>3, <2>4
  <2> QED
    BY <1>6, <2>1, <2>2, <2>4, <2>5, <2>6 DEF JudgeInv
<1>9. CASE Body
  <2>1. /\ UNCHANGED <<log, entry, selection, complete>> /\ calls' = Now("fn") /\ Calling("body")
    BY <1>9 DEF Body, tally
  <2>2. Judged' = Judged /\ \A e : Selected(e)' <=> Selected(e)
    BY <2>1 DEF Judged, Selected
  <2>3. ~Calling("enter")
    BY <2>1 DEF Calling
  <2>4. Doing(calls') = Doing(calls) /\ Apart(calls')
    BY <1>5, <1>6, <1>9, <2>1, <2>3, DoingNow
  <2> QED
    BY <1>5, <1>6, <1>9, <2>1, <2>2, <2>3, <2>4 DEF JudgeInv
<1>10. ASSUME NEW verdict \in {"ok", "fail", "cut"}, Judging, Score(verdict)
       PROVE  /\ \A j, k \in 1..Len(log') : log'[j].test = log'[k].test => j = k
              /\ Judged' = Judged \union {Test} /\ Test \in complete /\ Test \notin Judged /\ ~Calling("enter")
  <2>1. Calling("fn") /\ ~Calling("enter") /\ at # "exit" /\ calls # <<>> /\ calls \in Seq(Calls)
    BY <1>10 DEF Judging, Calling, TestInv
  <2>2. Test \in Doing(calls)
    BY <2>1, DoingOf
  <2>3. Test \in complete /\ Test \notin Judged
    BY <1>6, <2>1, <2>2
  <2> DEFINE v == [test |-> Test, verdict |-> verdict]
  <2>4. /\ Len(log) \in Nat /\ Len(log') = Len(log) + 1 /\ log'[Len(log) + 1] = v
        /\ \A k \in 1..Len(log) : log'[k] = log[k] /\ log[k].test # Test
        /\ Judged' = Judged \union {Test}
    BY <1>10, <2>3, JudgedMore DEF Judged
  <2>5. v.test = Test
    OBVIOUS
  <2> HIDE DEF v
  <2>6. ASSUME NEW j \in 1..Len(log'), NEW k \in 1..Len(log'), log'[j].test = log'[k].test PROVE j = k
    <3>1. \A n \in 1..Len(log') : n \in 1..Len(log) \/ n = Len(log) + 1
      BY <2>4
    <3>2. CASE j \in 1..Len(log) /\ k \in 1..Len(log)
      BY <1>6, <2>4, <2>6, <3>2
    <3> QED
      BY <2>4, <2>5, <2>6, <3>1, <3>2
  <2> QED
    BY <2>1, <2>3, <2>4, <2>6
<1>11. CASE Judge
  <2>1. /\ UNCHANGED <<entry, selection, complete>> /\ calls' = Tail(calls) /\ at' = "idle" /\ Judging
    BY <1>11 DEF Judge, GoTo
  <2>2. /\ \A j, k \in 1..Len(log') : log'[j].test = log'[k].test => j = k
        /\ Judged' = Judged \union {Test} /\ Test \in complete /\ Test \notin Judged /\ ~Calling("enter")
    BY <1>10, <1>11 DEF Judge, Verdict
  <2>3. \A e : Selected(e)' <=> Selected(e)
    BY <2>1 DEF Selected
  <2>4. Doing(calls) = {Test} \union Doing(calls') /\ Apart(calls') /\ Test \notin Doing(calls') /\ at # "exit"
    BY <1>5, <1>6, <1>11, <2>1, <2>2
  <2>5. /\ Judged' \subseteq complete /\ Doing(calls') \subseteq complete
        /\ Doing(calls') \cap Judged' = {} /\ complete \subseteq Judged' \union Doing(calls')
    BY <1>6, <2>2, <2>4
  <2>6. \A k \in 1..Len(TESTS) : k < entry /\ TESTS[k] # "part" /\ Selected(TESTS[k]) => TESTS[k] \in complete
    BY <1>6, <2>2
  <2> QED
    BY <2>1, <2>2, <2>3, <2>4, <2>5, <2>6 DEF JudgeInv
<1>12. CASE CtrlC
  <2>1. UNCHANGED progress /\ at # "exit" /\ (Judging => at' = "exit")
    <3>1. at # "exit"
      BY <1>12 DEF CtrlC, Interrupt
    <3> QED
      BY <1>12, <3>1, Interrupted DEF CtrlC, Judging
  <2>2. CASE UNCHANGED tally
    BY <2>1, <2>2, JudgedStay DEF JudgesStay, progress, tally
  <2>3. CASE ~UNCHANGED tally
    <3>1. PICK verdict \in {"ok", "fail", "cut"} : Judging /\ Score(verdict)
      BY <1>12, <2>3 DEF CtrlC, Verdict
    <3>2. /\ \A j, k \in 1..Len(log') : log'[j].test = log'[k].test => j = k
          /\ Judged' = Judged \union {Test} /\ Test \in complete /\ ~Calling("enter")
      BY <1>10, <3>1
    <3>3. Calling("enter")' <=> Calling("enter")
      BY <2>1 DEF Calling, progress
    <3>4. \A e : Selected(e)' <=> Selected(e)
      BY <2>1 DEF Selected, progress
    <3> QED
      BY <1>6, <2>1, <3>1, <3>2, <3>3, <3>4 DEF JudgeInv, progress
  <2> QED
    BY <2>2, <2>3
<1> QED
  BY <1>1, <1>2, <1>3, <1>4, <1>7, <1>8, <1>9, <1>11, <1>12 DEF GradeNext, Grader

-----------------------------------------------------------------------------
(* The tests are finitely many. *)
LEMMA TestsFinite == IsFiniteSet(Tests)
<1> DEFINE D == 1..Len(TESTS)
           f == [i \in D |-> TESTS[i]]
<1>1. IsFiniteSet(D)
  BY TestsAssumption, LenProperties, FS_Interval
<1>2. f \in Surjection(D, Lines(TESTS))
  BY DEF Surjection, Lines
<1>3. IsFiniteSet(Lines(TESTS))
  <2> HIDE DEF D, f
  <2> QED
    BY <1>1, <1>2, FS_Surjection
<1> QED
  BY <1>3, FS_Subset DEF Tests

(* The greater set has the greater sum. *)
LEMMA TotalMore ==
  ASSUME NEW p, NEW S, IsFiniteSet(S), \A x \in S : p[x] \in Nat, NEW A \in SUBSET S, NEW x \in S \ A
  PROVE  Total(p, A) + p[x] <= Total(p, S)
<1> DEFINE Bad == {T \in SUBSET S : A \subseteq T /\ x \in T /\ ~(Total(p, A) + p[x] <= Total(p, T))}
<1>0. Bad \in SUBSET (SUBSET S)
  OBVIOUS
<1> SUFFICES ASSUME Bad # {} PROVE FALSE
  OBVIOUS
<1>1. PICK T \in Bad : \A W \in Bad : W \subseteq T => W = T
  <2> HIDE DEF Bad
  <2> QED
    BY <1>0, LeastSubset
<1>2. \A W \in SUBSET S : IsFiniteSet(W) /\ Total(p, W) \in Int
  <2> SUFFICES ASSUME NEW W \in SUBSET S PROVE IsFiniteSet(W) /\ Total(p, W) \in Int
    OBVIOUS
  <2>1. IsFiniteSet(W)
    BY FS_Subset
  <2>2. \A y \in W : p[y] \in Int
    OBVIOUS
  <2> QED
    BY <2>1, <2>2, TotalType
<1>3. T \in SUBSET S /\ A \subseteq T /\ x \in T /\ ~(Total(p, A) + p[x] <= Total(p, T))
  BY <1>1
<1>4. \A y \in T : Total(p, T) = Total(p, T \ {y}) + p[y]
  <2>1. IsFiniteSet(T) /\ \A y \in T : p[y] \in Int
    BY <1>2, <1>3
  <2> QED
    BY <2>1, TotalWithout
<1>5. Total(p, A) \in Int /\ Total(p, T) \in Int /\ p[x] \in Nat
  BY <1>2, <1>3
<1>6. CASE T \ {x} = A
  BY <1>3, <1>4, <1>5, <1>6
<1>7. CASE T \ {x} # A
  <2>1. PICK y \in T : y # x /\ y \notin A
    BY <1>3, <1>7
  <2>2. T \ {y} \in SUBSET S /\ A \subseteq T \ {y} /\ x \in T \ {y} /\ T \ {y} # T
    BY <1>3, <2>1
  <2>3. Total(p, A) + p[x] <= Total(p, T \ {y})
    BY <1>1, <2>2
  <2>4. Total(p, T) = Total(p, T \ {y}) + p[y] /\ p[y] \in Nat /\ Total(p, T \ {y}) \in Int
    BY <1>2, <1>3, <1>4, <2>1, <2>2
  <2> HIDE DEF Bad
  <2> QED
    BY <1>3, <1>5, <2>3, <2>4
<1> QED
  BY <1>6, <1>7

(* A part more. *)
Grows(ps, qs, a, b) == qs = Append(ps, <<a, b>>)
Grown(ps, qs, a, b) ==
  /\ qs \in Seq(Int \X Int)
  /\ Total(Parts(qs, 1), DOMAIN qs) = Total(Parts(ps, 1), DOMAIN ps) + a
  /\ Total(Parts(qs, 2), DOMAIN qs) = Total(Parts(ps, 2), DOMAIN ps) + b

LEMMA PartsGrow ==
  ASSUME NEW ps \in Seq(Int \X Int), NEW a \in Int, NEW b \in Int, NEW qs, Grows(ps, qs, a, b)
  PROVE  Grown(ps, qs, a, b)
<1> DEFINE n == Len(ps)
           D == 1..n
           z == <<a, b>>
<1>00. qs = Append(ps, <<a, b>>)
  BY DEF Grows
<1>0. z \in Int \X Int /\ z[1] = a /\ z[2] = b
  OBVIOUS
<1> HIDE DEF z
<1>1. /\ qs \in Seq(Int \X Int) /\ Len(qs) = n + 1 /\ qs[n + 1] = z /\ n \in Nat
      /\ \A k \in D : qs[k] = ps[k]
  BY <1>0, <1>00, AppendProperties, LenProperties DEF z
<1>2. DOMAIN ps = D /\ DOMAIN qs = 1..(n + 1) /\ 1..(n + 1) = D \union {n + 1} /\ n + 1 \notin D /\ IsFiniteSet(D)
  <2>1. DOMAIN ps = D /\ DOMAIN qs = 1..(n + 1)
    BY <1>1, LenProperties
  <2>2. IsFiniteSet(D)
    BY <1>1, FS_Interval
  <2> QED
    BY <1>1, <2>1, <2>2
<1> HIDE DEF n, D
<1>3. ASSUME NEW c \in {1, 2} PROVE Total(Parts(qs, c), DOMAIN qs) = Total(Parts(ps, c), DOMAIN ps) + z[c]
  <2> DEFINE p == Parts(qs, c)
             q == Parts(ps, c)
  <2>1. \A y \in D \union {n + 1} : p[y] = qs[y][c]
    BY <1>2 DEF Parts
  <2>2. \A y \in D \union {n + 1} : p[y] \in Int
    <3>1. \A y \in D \union {n + 1} : qs[y] \in Int \X Int
      BY <1>1, <1>2
    <3>2. \A w \in Int \X Int : w[c] \in Int
      OBVIOUS
    <3> QED
      BY <2>1, <3>1, <3>2
  <2>3. \A y \in D : p[y] = q[y]
    BY <1>1, <1>2, <2>1 DEF Parts
  <2>4. p[n + 1] = z[c]
    BY <1>1, <2>1
  <2> HIDE DEF p, q
  <2>5. Total(p, D \union {n + 1}) = Total(p, D) + p[n + 1]
    BY <1>2, <2>2, TotalWith
  <2>6. Total(p, D) = Total(q, D)
    BY <1>2, <2>3, SameTotal
  <2> QED
    BY <1>2, <2>4, <2>5, <2>6 DEF p, q
<1> QED
  BY <1>0, <1>1, <1>3 DEF Grown

-----------------------------------------------------------------------------
(* The scores are what the judged tests, and the parts printed, add up to. *)
PassedTests == {t \in Judged : [test |-> t, verdict |-> "ok"] \in Lines(log)}
SumInv ==
  /\ parts \in Seq(Int \X Int) /\ TOTAL \in Int /\ POSSIBLE \in Int
  /\ POSSIBLE = Total(points, Judged) /\ TOTAL = Total(points, PassedTests)
  /\ PART_TOTAL = Total(Parts(parts, 1), DOMAIN parts) /\ PART_POSSIBLE = Total(Parts(parts, 2), DOMAIN parts)

LEMMA JudgedTests ==
  ASSUME JudgeInv, TestInv
  PROVE  /\ Judged \subseteq Tests /\ IsFiniteSet(Judged) /\ PassedTests \subseteq Judged /\ IsFiniteSet(PassedTests)
         /\ \A S \in SUBSET Tests : IsFiniteSet(S) /\ Total(points, S) \in Int
<1>1. Judged \subseteq Tests
  BY DEF JudgeInv, TestInv
<1>2. ASSUME NEW S \in SUBSET Tests PROVE IsFiniteSet(S) /\ Total(points, S) \in Int
  <2>1. IsFiniteSet(S)
    BY TestsFinite, FS_Subset
  <2>2. \A x \in S : points[x] \in Int
    BY TestsAssumption
  <2> QED
    BY <2>1, <2>2, TotalType
<1>3. PassedTests \subseteq Judged
  BY DEF PassedTests
<1> QED
  BY <1>1, <1>2, <1>3

(* A test that is being judged is not yet judged. *)
LEMMA Unjudged ==
  ASSUME TestInv, JudgeInv, Judging
  PROVE  Test \notin Judged /\ Test \in Tests
<1>1. calls \in Seq(Calls) /\ calls # <<>> /\ Calling("fn") /\ ~Calling("enter") /\ at # "exit"
  BY DEF Judging, Calling, TestInv
<1>2. Test \in Doing(calls) /\ Test \in Tests
  BY <1>1, DoingOf
<1> QED
  BY <1>1, <1>2 DEF JudgeInv

LEMMA ScoreCounts ==
  ASSUME LinksInv, TestInv, SaveInv, JudgeInv, SumInv, NEW verdict \in {"ok", "fail", "cut"}, Judging, Score(verdict)
  PROVE  SumInv'
<1>1. /\ Len(log) \in Nat /\ Len(log') = Len(log) + 1
      /\ log'[Len(log) + 1] = [test |-> Test, verdict |-> verdict]
      /\ \A k \in 1..Len(log) : log'[k] = log[k]
      /\ Judged' = Judged \union {Test}
  BY JudgedMore
<1>2. Test \notin Judged /\ Test \in Tests
  BY Unjudged
<1>3. PassedTests' = PassedTests \union (IF verdict = "ok" THEN {Test} ELSE {})
  <2> DEFINE ok(t) == [test |-> t, verdict |-> "ok"]
             v == [test |-> Test, verdict |-> verdict]
  <2>1. Lines(log') = Lines(log) \union {v}
    <3>1. Lines(log') = {log'[k] : k \in 1..(Len(log) + 1)}
      BY <1>1 DEF Lines
    <3>2. 1..(Len(log) + 1) = 1..Len(log) \union {Len(log) + 1}
      BY <1>1
    <3> HIDE DEF v
    <3> QED
      BY <1>1, <3>1, <3>2 DEF Lines, v
  <2>2. \A t : ok(t) \in Lines(log) => t \in Judged
    <3>1. \A t : ok(t).test = t
      OBVIOUS
    <3> HIDE DEF ok
    <3> QED
      BY <3>1 DEF Lines, Judged
  <2>3. \A t : ok(t) = v <=> t = Test /\ verdict = "ok"
    OBVIOUS
  <2>4. PassedTests' = {t \in Judged' : ok(t) \in Lines(log')}
    BY DEF PassedTests
  <2>5. PassedTests = {t \in Judged : ok(t) \in Lines(log)}
    BY DEF PassedTests
  <2> HIDE DEF ok, v
  <2> QED
    BY <1>1, <1>2, <2>1, <2>2, <2>3, <2>4, <2>5
<1>4. points[Test] \in Nat
  BY <1>2, TestsAssumption
<1>5. ASSUME NEW S \in SUBSET Judged PROVE Total(points, S \union {Test}) = Total(points, S) + points[Test]
  <2>1. IsFiniteSet(S) /\ Test \notin S
    BY <1>2, JudgedTests, FS_Subset
  <2>2. \A y \in S \union {Test} : points[y] \in Int
    BY <1>2, JudgedTests, TestsAssumption
  <2> QED
    BY <2>1, <2>2, TotalWith
<1>6. POSSIBLE' = Total(points, Judged')
  BY <1>1, <1>5 DEF Score, SumInv
<1>7. TOTAL' = Total(points, PassedTests')
  <2>1. PassedTests \in SUBSET Judged
    BY JudgedTests
  <2>2. CASE verdict = "ok"
    BY <1>3, <1>5, <2>1, <2>2 DEF Score, SumInv
  <2>3. CASE verdict # "ok"
    <3>1. PassedTests' = PassedTests
      BY <1>3, <2>3
    <3> QED
      BY <2>3, <3>1 DEF Score, SumInv
  <2> QED
    BY <2>2, <2>3
<1>8. UNCHANGED <<PART_TOTAL, PART_POSSIBLE, parts>>
  BY DEF Score
<1>9. TOTAL' \in Int /\ POSSIBLE' \in Int
  BY <1>4 DEF Score, SumInv
<1> QED
  BY <1>6, <1>7, <1>8, <1>9 DEF SumInv

(* The scores add up, at every step. *)
LEMMA SumStep ==
  LinksInv /\ TestInv /\ SaveInv /\ JudgeInv /\ SumInv /\ [GradeNext]_gradeVars => SumInv'
<1> SUFFICES ASSUME LinksInv, TestInv, SaveInv, JudgeInv, SumInv, [GradeNext]_gradeVars PROVE SumInv'
  OBVIOUS
<1>1. ASSUME UNCHANGED <<TOTAL, POSSIBLE, PART_TOTAL, PART_POSSIBLE, log, parts>> PROVE SumInv'
  BY <1>1 DEF SumInv, Judged, PassedTests
<1>2. CASE World \/ RunQemu \/ Build \/ PostMake \/ Enter \/ Body \/ Abort \/ Finish \/ UNCHANGED gradeVars
  BY <1>1, <1>2 DEF World, RunQemu, Build, PostMake, Enter, Body, Abort, Finish, gradeVars, testVars, tally
<1>3. CASE Judge
  BY <1>3, ScoreCounts DEF Judge, Verdict
<1>4. CASE CtrlC
  <2>1. CASE UNCHANGED tally
    BY <1>1, <2>1 DEF tally
  <2>2. CASE ~UNCHANGED tally
    <3>1. PICK verdict \in {"ok", "fail", "cut"} : Judging /\ Score(verdict)
      BY <1>4, <2>2 DEF CtrlC, Verdict
    <3> QED
      BY <3>1, ScoreCounts
  <2> QED
    BY <2>1, <2>2
<1>5. CASE NextEntry
  <2>1. UNCHANGED <<TOTAL, POSSIBLE, log>>
    BY <1>5 DEF NextEntry
  <2>2. CASE UNCHANGED <<parts, PART_TOTAL, PART_POSSIBLE>>
    BY <1>1, <2>1, <2>2
  <2>3. CASE /\ parts' = Append(parts, <<TOTAL - PART_TOTAL, POSSIBLE - PART_POSSIBLE>>)
             /\ PART_TOTAL' = TOTAL /\ PART_POSSIBLE' = POSSIBLE
    <3> DEFINE a == TOTAL - PART_TOTAL
               b == POSSIBLE - PART_POSSIBLE
    <3>1. TOTAL \in Int /\ POSSIBLE \in Int
      BY DEF SumInv
    <3>2. PART_TOTAL \in Int /\ PART_POSSIBLE \in Int
      <4>1. parts \in Seq(Int \X Int) /\ DOMAIN parts = 1..Len(parts) /\ Len(parts) \in Nat
        BY LenProperties DEF SumInv
      <4>2. IsFiniteSet(DOMAIN parts)
        BY <4>1, FS_Interval
      <4>3. \A i \in DOMAIN parts : parts[i] \in Int \X Int
        BY <4>1
      <4>4. \A w \in Int \X Int : w[1] \in Int /\ w[2] \in Int
        OBVIOUS
      <4>5. \A i \in DOMAIN parts : Parts(parts, 1)[i] \in Int /\ Parts(parts, 2)[i] \in Int
        BY <4>3, <4>4 DEF Parts
      <4> QED
        BY <4>2, <4>5, TotalType DEF SumInv
    <3>3. a \in Int /\ b \in Int /\ PART_TOTAL + a = TOTAL /\ PART_POSSIBLE + b = POSSIBLE
      BY <3>1, <3>2
    <3>4. parts \in Seq(Int \X Int) /\ parts' = Append(parts, <<a, b>>)
      BY <2>3 DEF SumInv
    <3> HIDE DEF a, b
    <3>5. /\ parts' \in Seq(Int \X Int)
          /\ Total(Parts(parts', 1), DOMAIN parts') = PART_TOTAL + a
          /\ Total(Parts(parts', 2), DOMAIN parts') = PART_POSSIBLE + b
      <4>1. Grows(parts, parts', a, b)
        BY <3>4 DEF Grows
      <4>2. Grown(parts, parts', a, b)
        BY <3>3, <3>4, <4>1, PartsGrow
      <4> QED
        BY <4>2 DEF Grown, SumInv
    <3>6. Judged' = Judged /\ PassedTests' = PassedTests
      BY <2>1 DEF Judged, PassedTests
    <3> QED
      BY <2>1, <2>3, <3>3, <3>5, <3>6 DEF SumInv
  <2> QED
    BY <1>5, <2>2, <2>3 DEF NextEntry
<1> QED
  BY <1>2, <1>3, <1>4, <1>5 DEF GradeNext, Grader

(* Status 0 is given at the end of the list, or by Ctrl-C, at every step. *)
LEMMA StatusStep ==
  LinksInv /\ TestInv /\ SaveInv /\ JudgeInv /\ SumInv /\ StatusInv /\ [GradeNext]_gradeVars => StatusInv'
<1> SUFFICES ASSUME LinksInv, TestInv, SaveInv, JudgeInv, SumInv, StatusInv, [GradeNext]_gradeVars PROVE StatusInv'
  OBVIOUS
<1>1. raised' = "interrupt" => interrupt' # "no"
  <2> USE DEF outcome, kept, links, ends, runnerVars, vars, testVars, clock, childVars, StatusInv
  <2>1. CASE World
    BY <2>1 DEF World, ChildStep, Tick
  <2>2. CASE RunQemu
    <3>1. CASE ReadQemu
      BY <3>1, QemuMoves
    <3>2. CASE EndRound
      BY <3>2, RoundEnds
    <3>3. CASE ReadGdb
      BY <3>3, GdbRead
    <3>4. CASE SetUp
      BY <3>4 DEF SetUp
    <3> QED
      BY <2>2, <3>1, <3>2, <3>3, <3>4 DEF RunQemu, RunnerStep, Try, Select, Connect, Fail, Shutdown, Close
  <2>3. CASE CtrlC
    BY <2>3, Interrupted DEF CtrlC
  <2>4. CASE UNCHANGED gradeVars
    BY <2>4 DEF gradeVars
  <2>5. CASE Body
    BY <2>5 DEF Body, StartQemu, GoTo
  <2>6. CASE Build \/ PostMake \/ NextEntry \/ Enter \/ Judge \/ Abort \/ Finish
    BY <2>6 DEF Build, PostMake, NextEntry, Enter, Judge, Abort, Finish, GoTo
  <2> QED
    BY <2>1, <2>2, <2>3, <2>4, <2>5, <2>6 DEF GradeNext, Grader
<1>2. ASSUME status' = 0
      PROVE  /\ POSSIBLE' <= TOTAL'
             /\ interrupt' = "no" => \A t \in Tests : Selected(t)' => t \in Judged'
  <2>1. CASE UNCHANGED gradeVars
    BY <1>2, <2>1 DEF gradeVars, vars, runnerVars, outcome, testVars, progress, tally, StatusInv, Judged, Selected
  <2>2. CASE ~UNCHANGED gradeVars
    <3>1. GradeNext /\ at # "exit"
      <4>1. ASSUME RunQemu PROVE at # "exit"
        BY <4>1 DEF RunQemu, RunnerStep, Try, Select, EndRound, Round, ReadQemu, ReadGdb, Connect, Fail, SetUp, Shutdown, Close, Reacting
      <4>2. ASSUME World \/ CtrlC PROVE at # "exit"
        BY <4>2 DEF World, CtrlC, Interrupt
      <4>3. ASSUME Build \/ PostMake \/ NextEntry \/ Enter \/ Body \/ Abort \/ Finish PROVE at # "exit"
        BY <4>3 DEF Build, PostMake, NextEntry, Enter, Body, Abort, Finish
      <4>4. ASSUME Judge PROVE at # "exit"
        BY <4>4 DEF Judge, Judging
      <4>5. GradeNext
        BY <2>2
      <4> QED
        BY <4>1, <4>2, <4>3, <4>4, <4>5 DEF GradeNext, Grader
    <3>2. status # 0
      BY <3>1 DEF TestInv
    <3>3. Finish \/ Abort \/ CtrlC
      BY <1>2, <3>1, <3>2 DEF GradeNext, Grader, World, Build, PostMake, NextEntry, Enter, Body, StartQemu, RunQemu, Judge, testVars
    <3>4. ExitStatus' = 0
      <4>1. CASE Finish \/ Abort
        <5>1. ExitStatus' = ExitStatus
          BY <4>1 DEF Finish, Abort, ExitStatus, tally
        <5> QED
          BY <1>2, <4>1, <5>1 DEF Finish, Abort
      <4>2. CASE CtrlC
        BY <1>2, <3>2, <4>2 DEF CtrlC
      <4> QED
        BY <3>3, <4>1, <4>2
    <3>5. ~(TOTAL' < POSSIBLE')
      BY <3>4 DEF ExitStatus
    <3>6. TOTAL' \in Int /\ POSSIBLE' \in Int
      BY SumStep DEF SumInv
    <3>7. ASSUME interrupt' = "no", NEW t \in Tests, Selected(t)' PROVE t \in Judged'
      <4>1. Finish
        <5>1. ~CtrlC
          BY <3>7, Interrupted DEF CtrlC
        <5>2. ~Abort
          BY <1>2, <3>7 DEF Abort, GoTo, outcome, StatusInv
        <5> QED
          BY <3>3, <5>1, <5>2
      <4>2. /\ calls = <<>> /\ entry > Len(TESTS) /\ at # "exit" /\ Judged' = Judged /\ Selected(t)
        BY <3>7, <4>1 DEF Finish, progress, tally, Judged, Selected
      <4>3. PICK k \in 1..Len(TESTS) : TESTS[k] = t /\ t # "part"
        BY DEF Tests, Lines
      <4>4. t \in complete
        <5>1. ~Calling("enter")
          BY <4>2 DEF Calling
        <5>2. k < entry
          BY <4>2, TestsAssumption, LenProperties DEF TestInv
        <5> QED
          BY <4>2, <4>3, <5>1, <5>2 DEF JudgeInv
      <4>5. Doing(calls) = {}
        BY <4>2 DEF Doing
      <4> QED
        BY <4>2, <4>4, <4>5 DEF JudgeInv
    <3> QED
      BY <3>5, <3>6, <3>7
  <2> QED
    BY <2>1, <2>2
<1> QED
  BY <1>1, <1>2 DEF StatusInv

-----------------------------------------------------------------------------
ScoreInv == JudgeInv /\ SumInv /\ StatusInv

(* The scores' invariant is always true. *)
LEMMA ScoreAlways == GradeSpec => []ScoreInv
<1>1. GradeInit => ScoreInv
  <2> SUFFICES ASSUME GradeInit PROVE ScoreInv
    OBVIOUS
  <2>1. Judged = {} /\ Doing(<<>>) = {} /\ Apart(<<>>)
    BY DEF GradeInit, Judged, Doing, Apart
  <2>2. JudgeInv
    BY <2>1 DEF GradeInit, JudgeInv
  <2>3. StatusInv
    BY DEF GradeInit, StatusInv
  <2>4. PassedTests = {} /\ DOMAIN parts = {} /\ parts \in Seq(Int \X Int)
    BY <2>1, EmptySeq DEF PassedTests, GradeInit
  <2>5. \A p : Total(p, {}) = 0
    BY TotalUnfolds, FS_EmptySet
  <2>6. SumInv
    BY <2>1, <2>4, <2>5 DEF GradeInit, SumInv
  <2> QED
    BY <2>2, <2>3, <2>6 DEF ScoreInv
<1>2. GradeInv /\ LogInv /\ ScoreInv /\ [GradeNext]_gradeVars => ScoreInv'
  BY JudgeStep, SumStep, StatusStep DEF GradeInv, LogInv, ScoreInv
<1> QED
  BY <1>1, <1>2, GradeAlways, LogAlways, PTL DEF GradeSpec

(* However tests depend on one another, whatever the filters and whenever Ctrl-C
   strikes, each test is judged at most once, the scores and those of the parts are what
   the verdicts add up to, and status 0 means that nothing with points has failed and,
   without Ctrl-C, that each selected test was judged. *)
THEOREM ScoresAddUp == GradeSpec => []ScoreAddsUp
<1>1. TestInv /\ SaveInv /\ ScoreInv => ScoreAddsUp
  <2> SUFFICES ASSUME TestInv, SaveInv, ScoreInv PROVE ScoreAddsUp
    OBVIOUS
  <2>1. JudgeInv /\ SumInv /\ StatusInv /\ log \in Seq(Verdicts) /\ Len(log) \in Nat
    BY LenProperties DEF ScoreInv, SaveInv
  <2>2. Cardinality(Judged) = Len(log)
    <3> DEFINE D == 1..Len(log)
               f == [k \in D |-> log[k].test]
    <3>1. IsFiniteSet(D) /\ Cardinality(D) = Len(log)
      BY <2>1, FS_Interval
    <3>2. f \in [D -> Judged] /\ \A k \in D : f[k] = log[k].test
      BY DEF Judged
    <3>3. \A t \in Judged : \E k \in D : f[k] = t
      BY <3>2 DEF Judged
    <3>4. \A j, k \in D : f[j] = f[k] => j = k
      BY <2>1, <3>2 DEF JudgeInv
    <3>5. f \in Surjection(D, Judged) /\ f \in Injection(D, Judged)
      <4> HIDE DEF D, f
      <4>1. f \in Surjection(D, Judged)
        BY <3>2, <3>3 DEF Surjection
      <4>2. f \in Injection(D, Judged)
        BY <3>2, <3>4 DEF Injection, IsInjective
      <4> QED
        BY <4>1, <4>2
    <3> HIDE DEF D, f
    <3> QED
      BY <3>1, <3>5, FS_Surjection
  <2>3. POSSIBLE = Points(Judged) /\ TOTAL = Points(PassedTests)
    BY <2>1, PointsAdd DEF SumInv
  <2>4. /\ PART_TOTAL = FoldSeq(LAMBDA p, n : p[1] + n, 0, parts)
        /\ PART_POSSIBLE = FoldSeq(LAMBDA p, n : p[2] + n, 0, parts)
    <3>1. DOMAIN parts = 1..Len(parts) /\ Len(parts) \in Nat
      BY <2>1, LenProperties DEF SumInv
    <3>2. IsFiniteSet(DOMAIN parts)
      BY <3>1, FS_Interval
    <3> QED
      BY <2>1, <3>2, PartsAdd DEF SumInv
  <2>5. ASSUME status = 0, NEW v \in Lines(log) PROVE v.verdict = "ok" \/ points[v.test] = 0
    <3>1. v \in Verdicts /\ v.test \in Judged
      BY <2>1 DEF Lines, Judged
    <3> SUFFICES ASSUME v.verdict # "ok" PROVE points[v.test] = 0
      OBVIOUS
    <3>2. v.test \notin PassedTests
      <4> SUFFICES ASSUME [test |-> v.test, verdict |-> "ok"] \in Lines(log) PROVE FALSE
        BY DEF PassedTests
      <4>1. PICK j \in 1..Len(log) : log[j] = v
        BY <2>5 DEF Lines
      <4>2. PICK k \in 1..Len(log) : log[k] = [test |-> v.test, verdict |-> "ok"]
        BY DEF Lines
      <4>3. log[k].test = log[j].test /\ log[k].verdict = "ok"
        BY <4>1, <4>2
      <4>4. j = k
        BY <2>1, <4>3 DEF JudgeInv
      <4> QED
        BY <4>1, <4>3, <4>4
    <3>3. /\ IsFiniteSet(Judged) /\ PassedTests \in SUBSET Judged /\ Total(points, PassedTests) \in Int
          /\ Total(points, Judged) \in Int /\ v.test \in Tests /\ \A x \in Judged : points[x] \in Nat
      BY <2>1, <3>1, JudgedTests, TestsAssumption
    <3>4. Total(points, PassedTests) + points[v.test] <= Total(points, Judged)
      BY <3>1, <3>2, <3>3, TotalMore
    <3>5. POSSIBLE <= TOTAL
      BY <2>1, <2>5 DEF StatusInv
    <3>6. points[v.test] \in Nat
      BY <3>1, <3>3
    <3> QED
      BY <2>1, <3>3, <3>4, <3>5, <3>6 DEF SumInv
  <2>6. ASSUME status = 0, interrupt = "no" PROVE {t \in Tests : Selected(t)} \subseteq Judged
    BY <2>1, <2>6 DEF StatusInv
  <2> QED
    BY <2>2, <2>3, <2>4, <2>5, <2>6 DEF ScoreAddsUp, PassedTests
<1> QED
  BY <1>1, GradeAlways, LogAlways, ScoreAlways, PTL DEF GradeInv, LogInv

-----------------------------------------------------------------------------
(* p's verdict is there, and no run came after it. *)
Ready(p) ==
  \E j \in 1..Len(log) : /\ log[j].test = p
                         /\ \A n \in (j + 1)..Len(log) : log[n].test \notin UsesQemu

(* The calls are of the entry before, and of its parent in front of it. *)
Current(c) == c \in Calls /\ entry > 1 /\ c.test = TESTS[entry - 1]
OneCall(c) == calls = <<c>> /\ Current(c)
TwoCalls(d, c) ==
  calls = <<d, c>> /\ d \in Calls /\ Current(c) /\ c.step = "body" /\ parent[c.test] # "none" /\ d.test = parent[c.test]

(* Verdicts are of the entries so far, those of runs in the entries' order. *)
LogOrdered ==
  /\ \A n \in 1..Len(log) : \E x \in 1..(entry - 1) : TESTS[x] = log[n].test
  /\ \A j, n \in 1..Len(log) :
       j < n /\ log[j].test \in UsesQemu /\ log[n].test \in UsesQemu =>
         \A x, y \in 1..Len(TESTS) : TESTS[x] = log[j].test /\ TESTS[y] = log[n].test => x < y

OrderInv ==
  /\ entry \in 1..(Len(TESTS) + 1)
  /\ calls = <<>> \/ (\E c \in Calls : OneCall(c)) \/ (\E d, c \in Calls : TwoCalls(d, c))
  /\ \A c \in Calls : calls = <<c>> /\ c.step # "enter" /\ parent[c.test] # "none" => Ready(parent[c.test])
  /\ LogOrdered /\ ParentFirst

(* One call and two calls. *)
LEMMA AloneNow ==
  ASSUME NEW c \in Calls, calls = <<c>>
  PROVE  /\ calls # <<>> /\ Test = c.test /\ Tail(calls) = <<>>
         /\ \A step : Calling(step) <=> c.step = step
         /\ \A step \in {"enter", "body", "fn"} : Now(step) = <<[test |-> c.test, step |-> step]>>
<1>1. calls # <<>> /\ Head(calls) = c /\ Tail(calls) = <<>>
  OBVIOUS
<1>2. ASSUME NEW step \in {"enter", "body", "fn"} PROVE Now(step) = <<[test |-> c.test, step |-> step]>>
  <2> DEFINE one == <<[test |-> c.test, step |-> step]>>
  <2>1. one \in Seq(Calls)
    BY DEF Calls
  <2>2. Now(step) = one \o <<>>
    BY <1>1 DEF Now, Test
  <2> HIDE DEF one
  <2>3. one \o <<>> = one
    BY <2>1, ConcatEmptySeq
  <2> QED
    BY <2>2, <2>3 DEF one
<1> QED
  BY <1>1, <1>2 DEF Test, Calling

LEMMA PairOf ==
  ASSUME NEW S, NEW a \in S, NEW b \in S
  PROVE  <<a>> \o <<b>> = <<a, b>> /\ Tail(<<a, b>>) = <<b>> /\ Head(<<a, b>>) = a
<1>1. Tail(<<a, b>>) = <<b>> /\ Head(<<a, b>>) = a
  OBVIOUS
<1>2. <<a>> \in Seq(S) /\ <<b>> \in Seq(S) /\ <<a, b>> \in Seq(S)
  OBVIOUS
<1> DEFINE s == <<a>>
           t == <<b>>
<1>3. Len(s) = 1 /\ Len(t) = 1 /\ s[1] = a /\ t[1] = b
  OBVIOUS
<1> HIDE DEF s, t
<1>4. /\ s \o t \in Seq(S) /\ Len(s \o t) = 2
      /\ \A k \in 1..2 : (s \o t)[k] = IF k <= 1 THEN s[k] ELSE t[k - 1]
  <2>1. /\ s \o t \in Seq(S) /\ Len(s \o t) = Len(s) + Len(t)
        /\ \A k \in 1..Len(s \o t) : (s \o t)[k] = IF k <= Len(s) THEN s[k] ELSE t[k - Len(s)]
    BY <1>2, Joined DEF s, t
  <2> QED
    BY <1>3, <2>1
<1>5. (s \o t)[1] = a /\ (s \o t)[2] = b
  BY <1>3, <1>4
<1>6. s \o t = <<a, b>>
  <2> DEFINE st == s \o t
  <2>1. st \in Seq(S) /\ Len(st) = 2 /\ st[1] = a /\ st[2] = b
    BY <1>4, <1>5
  <2> HIDE DEF st
  <2> DEFINE ab == <<a, b>>
  <2>2. ab \in Seq(S) /\ Len(ab) = 2 /\ ab[1] = a /\ ab[2] = b
    BY <1>2
  <2> HIDE DEF ab
  <2>3. \A k \in 1..Len(st) : st[k] = ab[k]
    BY <2>1, <2>2
  <2>4. st = ab
    BY <2>1, <2>2, <2>3, SeqEqual
  <2> QED
    BY <2>4 DEF st, ab
<1> QED
  BY <1>1, <1>6 DEF s, t

LEMMA AheadNow ==
  ASSUME NEW c \in Calls, NEW d \in Calls, calls = <<d, c>>
  PROVE  /\ calls # <<>> /\ Test = d.test /\ Tail(calls) = <<c>>
         /\ \A step : Calling(step) <=> d.step = step
         /\ \A step \in {"enter", "body", "fn"} : Now(step) = <<[test |-> d.test, step |-> step], c>>
<1>1. calls # <<>> /\ Head(calls) = d /\ Tail(calls) = <<c>>
  BY PairOf
<1>2. ASSUME NEW step \in {"enter", "body", "fn"} PROVE Now(step) = <<[test |-> d.test, step |-> step], c>>
  <2> DEFINE x == [test |-> d.test, step |-> step]
  <2>1. x \in Calls
    BY DEF Calls
  <2>2. Now(step) = <<x>> \o <<c>>
    BY <1>1 DEF Now, Test
  <2> HIDE DEF x
  <2> QED
    BY <2>1, <2>2, PairOf DEF x
<1> QED
  BY <1>1, <1>2 DEF Test, Calling

(* An entry's parent comes before it, and no run in between. *)
LEMMA Grouped ==
  ASSUME InGroups, NEW k \in 1..Len(TESTS), TESTS[k] # "part", parent[TESTS[k]] # "none"
  PROVE  \E j \in 1..(k - 1) : /\ TESTS[j] = parent[TESTS[k]] /\ TESTS[j] \in UsesQemu
                               /\ parent[TESTS[j]] = "none"
                               /\ \A n \in (j + 1)..k : TESTS[n] \notin UsesQemu
  BY DEF InGroups

LEMMA OnePlace ==
  ASSUME InGroups, NEW t \in Tests, NEW x \in 1..Len(TESTS), NEW y \in 1..Len(TESTS), TESTS[x] = t, TESTS[y] = t
  PROVE  x = y
  BY DEF InGroups, Tests

(* Where the innermost call's test is among the entries. *)
LEMMA PlaceOf ==
  ASSUME InGroups, TestInv, OrderInv, calls # <<>>
  PROVE  \E y \in 1..(entry - 1) : TESTS[y] = Test /\ \A n \in (y + 1)..(entry - 1) : TESTS[n] \notin UsesQemu
<1>1. entry \in 1..(Len(TESTS) + 1) /\ Len(TESTS) \in Nat
  BY TestsAssumption, LenProperties DEF OrderInv
<1>2. CASE \E c \in Calls : OneCall(c)
  <2>1. PICK c \in Calls : OneCall(c)
    BY <1>2
  <2>2. Test = TESTS[entry - 1] /\ entry > 1
    BY <2>1, AloneNow DEF OneCall, Current
  <2>3. entry - 1 \in 1..(entry - 1) /\ \A n \in ((entry - 1) + 1)..(entry - 1) : TESTS[n] \notin UsesQemu
    BY <1>1, <2>2
  <2> QED
    BY <2>2, <2>3
<1>3. CASE \E d, c \in Calls : TwoCalls(d, c)
  <2>1. PICK d \in Calls, c \in Calls : TwoCalls(d, c)
    BY <1>3
  <2> DEFINE k == entry - 1
  <2>2. /\ Test = d.test /\ d.test = parent[TESTS[k]] /\ parent[TESTS[k]] # "none" /\ TESTS[k] # "part"
        /\ k \in 1..Len(TESTS)
    <3>1. Test = d.test
      BY <2>1, AheadNow DEF TwoCalls
    <3>2. c.test = TESTS[k] /\ c.test # "part" /\ k \in 1..Len(TESTS)
      BY <1>1, <2>1 DEF TwoCalls, Current, Calls, Tests
    <3> QED
      BY <2>1, <3>1, <3>2 DEF TwoCalls
  <2> HIDE DEF k
  <2>3. PICK j \in 1..(k - 1) : /\ TESTS[j] = parent[TESTS[k]]
                                /\ \A n \in (j + 1)..k : TESTS[n] \notin UsesQemu
    BY <2>2, Grouped
  <2>4. j \in 1..k
    BY <2>2, <2>3
  <2> QED
    BY <2>2, <2>3, <2>4 DEF k
<1> QED
  BY <1>2, <1>3 DEF OrderInv

(* The test of two calls has no parent, so that one whose turn it is has its parent's verdict. *)
LEMMA ParentReady ==
  ASSUME InGroups, TestInv, OrderInv, Calling("fn"), parent[Test] # "none"
  PROVE  Ready(parent[Test]) /\ Test \notin UsesQemu
<1>1. entry \in 1..(Len(TESTS) + 1) /\ Len(TESTS) \in Nat
  BY TestsAssumption, LenProperties DEF OrderInv
<1>2. calls # <<>>
  BY DEF Calling
<1>3. CASE \E c \in Calls : OneCall(c)
  <2>1. PICK c \in Calls : OneCall(c)
    BY <1>3
  <2>2. Test = c.test /\ c.step = "fn" /\ calls = <<c>>
    BY <2>1, AloneNow DEF OneCall
  <2>3. Ready(parent[Test])
    BY <2>2 DEF OrderInv
  <2> DEFINE k == entry - 1
  <2>4. c.test = TESTS[k] /\ c.test # "part" /\ k \in 1..Len(TESTS)
    BY <1>1, <2>1 DEF OneCall, Current, Calls, Tests
  <2> HIDE DEF k
  <2>5. PICK j \in 1..(k - 1) : \A n \in (j + 1)..k : TESTS[n] \notin UsesQemu
    BY <2>2, <2>4, Grouped
  <2>6. k \in (j + 1)..k
    BY <2>4, <2>5
  <2> QED
    BY <2>2, <2>3, <2>4, <2>5, <2>6
<1>4. ASSUME \E d, c \in Calls : TwoCalls(d, c) PROVE FALSE
  <2>1. PICK d \in Calls, c \in Calls : TwoCalls(d, c)
    BY <1>4
  <2>2. Test = d.test
    BY <2>1, AheadNow DEF TwoCalls
  <2> DEFINE k == entry - 1
  <2>3. c.test = TESTS[k] /\ c.test # "part" /\ k \in 1..Len(TESTS)
    BY <1>1, <2>1 DEF TwoCalls, Current, Calls, Tests
  <2>4. d.test = parent[TESTS[k]] /\ parent[TESTS[k]] # "none"
    BY <2>1, <2>3 DEF TwoCalls
  <2> HIDE DEF k
  <2>5. parent[d.test] = "none"
    BY <2>3, <2>4, Grouped
  <2> QED
    BY <2>2, <2>5
<1> QED
  BY <1>2, <1>3, <1>4 DEF OrderInv

(* A verdict more. *)
LEMMA VerdictOrder ==
  ASSUME InGroups, TestInv, SaveInv, JudgeInv, OrderInv, entry' = entry,
         NEW verdict \in {"ok", "fail", "cut"}, Judging, Score(verdict)
  PROVE  /\ LogOrdered' /\ ParentFirst'
         /\ \A p : p = Test => Ready(p)'
         /\ \A p : Ready(p) /\ Test \notin UsesQemu => Ready(p)'
<1> DEFINE N == Len(log)
<1>1. /\ N \in Nat /\ Len(log') = N + 1 /\ log'[N + 1].test = Test
      /\ \A k \in 1..N : log'[k] = log[k]
  <2> DEFINE v == [test |-> Test, verdict |-> verdict]
  <2>1. /\ N \in Nat /\ Len(log') = N + 1 /\ log'[N + 1] = v
        /\ \A k \in 1..N : log'[k] = log[k]
    BY JudgedMore
  <2>2. v.test = Test
    OBVIOUS
  <2> HIDE DEF v
  <2> QED
    BY <2>1, <2>2
<1>2. Test \notin Judged /\ Test \in Tests
  BY Unjudged
<1>3. calls # <<>> /\ Calling("fn")
  BY DEF Judging, Calling
<1>4. PICK y \in 1..(entry - 1) : TESTS[y] = Test /\ \A n \in (y + 1)..(entry - 1) : TESTS[n] \notin UsesQemu
  BY <1>3, PlaceOf
<1>5. entry \in 1..(Len(TESTS) + 1) /\ Len(TESTS) \in Nat
  BY TestsAssumption, LenProperties DEF OrderInv
<1> HIDE DEF N
<1>6. \A n \in 1..(N + 1) : n \in 1..N \/ n = N + 1
  BY <1>1
<1>7. \A n \in 1..N : log[n].test \in Judged /\ \E x \in 1..(entry - 1) : TESTS[x] = log[n].test
  BY DEF OrderInv, LogOrdered, Judged, N
<1>8. ASSUME NEW n \in 1..(N + 1) PROVE \E x \in 1..(entry - 1) : TESTS[x] = log'[n].test
  <2>1. CASE n \in 1..N
    BY <1>1, <1>7, <2>1
  <2>2. CASE n = N + 1
    BY <1>1, <1>4, <2>2
  <2> QED
    BY <1>6, <2>1, <2>2
<1>9. ASSUME NEW j \in 1..(N + 1), NEW n \in 1..(N + 1), j < n, log'[j].test \in UsesQemu, log'[n].test \in UsesQemu,
             NEW x \in 1..Len(TESTS), NEW z \in 1..Len(TESTS), TESTS[x] = log'[j].test, TESTS[z] = log'[n].test
      PROVE  x < z
  <2>1. j \in 1..N /\ log'[j] = log[j]
    BY <1>1, <1>9
  <2>2. CASE n \in 1..N
    <3>1. log'[n] = log[n]
      BY <1>1, <2>2
    <3>2. \A a, b \in 1..Len(TESTS) : TESTS[a] = log[j].test /\ TESTS[b] = log[n].test => a < b
      BY <1>9, <2>1, <2>2, <3>1 DEF OrderInv, LogOrdered, N
    <3> QED
      BY <1>9, <2>1, <3>1, <3>2
  <2>3. CASE n = N + 1
    <3>1. y \in 1..Len(TESTS)
      BY <1>4, <1>5
    <3>2. z = y
      BY <1>1, <1>2, <1>4, <1>9, <2>3, <3>1, OnePlace
    <3>3. PICK a \in 1..(entry - 1) : TESTS[a] = log[j].test
      BY <1>7, <2>1
    <3>4. a \in 1..Len(TESTS) /\ log[j].test \in Tests
      <4>1. Judged \subseteq Tests
        BY DEF JudgeInv, TestInv
      <4> QED
        BY <1>5, <1>7, <2>1, <3>3, <4>1
    <3>5. x = a
      BY <1>9, <2>1, <3>3, <3>4, OnePlace
    <3>6. x # y
      BY <1>2, <1>4, <1>7, <1>9, <2>1
    <3>7. ~(x > y)
      <4> SUFFICES ASSUME x > y PROVE FALSE
        OBVIOUS
      <4>1. x \in (y + 1)..(entry - 1)
        BY <1>4, <1>5, <3>3, <3>5
      <4> QED
        BY <1>4, <1>9, <4>1
    <3> QED
      BY <3>1, <3>2, <3>6, <3>7
  <2> QED
    BY <1>6, <2>2, <2>3
<1>10. LogOrdered'
  <2>1. \A n \in 1..Len(log') : \E x \in 1..(entry' - 1) : TESTS[x] = log'[n].test
    BY <1>1, <1>8
  <2>2. \A j, n \in 1..Len(log') :
          j < n /\ log'[j].test \in UsesQemu /\ log'[n].test \in UsesQemu =>
            \A x, z \in 1..Len(TESTS) : TESTS[x] = log'[j].test /\ TESTS[z] = log'[n].test => x < z
    BY <1>1, <1>9
  <2> QED
    BY <2>1, <2>2 DEF LogOrdered
<1>11. ParentFirst'
  <2> SUFFICES ASSUME NEW k \in 1..(N + 1), parent[log'[k].test] # "none"
               PROVE  \E j \in 1..(k - 1) : /\ log'[j].test = parent[log'[k].test]
                                            /\ \A n \in (j + 1)..(k - 1) : log'[n].test \notin UsesQemu
    BY <1>1 DEF ParentFirst
  <2>1. CASE k \in 1..N
    <3>1. log'[k] = log[k]
      BY <1>1, <2>1
    <3>2. PICK j \in 1..(k - 1) : /\ log[j].test = parent[log[k].test]
                                  /\ \A n \in (j + 1)..(k - 1) : log[n].test \notin UsesQemu
      BY <2>1, <3>1 DEF OrderInv, ParentFirst, N
    <3>3. \A n \in 1..(k - 1) : log'[n] = log[n]
      BY <1>1, <2>1
    <3>4. log'[j].test = parent[log'[k].test]
      BY <3>1, <3>2, <3>3
    <3>5. ASSUME NEW n \in (j + 1)..(k - 1) PROVE log'[n].test \notin UsesQemu
      <4>1. n \in 1..(k - 1)
        BY <3>2
      <4> QED
        BY <3>2, <3>3, <4>1
    <3> QED
      BY <3>4, <3>5
  <2>2. CASE k = N + 1
    <3>1. Ready(parent[Test]) /\ log'[k].test = Test
      BY <1>1, <1>3, <2>2, ParentReady
    <3>2. PICK j \in 1..N : log[j].test = parent[Test] /\ \A n \in (j + 1)..N : log[n].test \notin UsesQemu
      BY <3>1 DEF Ready, N
    <3>3. k - 1 = N
      BY <1>1, <2>2
    <3>4. ASSUME NEW n \in (j + 1)..N PROVE log'[n].test \notin UsesQemu
      <4>1. n \in 1..N
        BY <1>1, <3>2
      <4> QED
        BY <1>1, <3>2, <4>1
    <3> QED
      BY <1>1, <3>1, <3>2, <3>3, <3>4
  <2> QED
    BY <1>6, <2>1, <2>2
<1>12. ASSUME NEW p, p = Test PROVE Ready(p)'
  <2>1. N + 1 \in 1..Len(log') /\ \A n \in ((N + 1) + 1)..Len(log') : FALSE
    BY <1>1
  <2>2. \E j \in 1..Len(log') : log'[j].test = p /\ \A n \in (j + 1)..Len(log') : log'[n].test \notin UsesQemu
    BY <1>1, <1>12, <2>1
  <2> QED
    BY <2>2 DEF Ready
<1>13. ASSUME NEW p, Ready(p), Test \notin UsesQemu PROVE Ready(p)'
  <2>1. PICK j \in 1..N : log[j].test = p /\ \A n \in (j + 1)..N : log[n].test \notin UsesQemu
    BY <1>13 DEF Ready, N
  <2>2. ASSUME NEW n \in (j + 1)..(N + 1) PROVE log'[n].test \notin UsesQemu
    <3>1. CASE n = N + 1
      BY <1>1, <1>13, <3>1
    <3>2. CASE n # N + 1
      <4>1. n \in (j + 1)..N /\ n \in 1..N
        BY <1>1, <2>1, <3>2
      <4> QED
        BY <1>1, <2>1, <4>1
    <3> QED
      BY <3>1, <3>2
  <2>3. j \in 1..Len(log') /\ log'[j].test = p
    BY <1>1, <2>1
  <2> QED
    BY <1>1, <2>2, <2>3 DEF Ready
<1> QED
  BY <1>10, <1>11, <1>12, <1>13

(* Without a verdict and with the same calls nothing changes. *)
LEMMA OrderStays == OrderInv /\ UNCHANGED <<log, calls>> /\ entry' = entry => OrderInv'
<1> SUFFICES ASSUME OrderInv, UNCHANGED <<log, calls>>, entry' = entry PROVE OrderInv'
  OBVIOUS
<1>1. \A c, d : (OneCall(c)' <=> OneCall(c)) /\ (TwoCalls(d, c)' <=> TwoCalls(d, c))
  BY DEF OneCall, TwoCalls, Current
<1>2. \A p : Ready(p)' <=> Ready(p)
  BY DEF Ready
<1>3. (LogOrdered' <=> LogOrdered) /\ (ParentFirst' <=> ParentFirst)
  BY DEF LogOrdered, ParentFirst
<1> QED
  BY <1>1, <1>2, <1>3 DEF OrderInv

(* A parent that was not called again has its verdict. *)
LEMMA ReadyBefore ==
  ASSUME InGroups, TestInv, JudgeInv, OrderInv, NEW c \in Calls, NEW d \in Calls, TwoCalls(d, c),
         at = "idle", d.step = "enter", d.test \in complete
  PROVE  Ready(d.test)
<1>1. entry \in 1..(Len(TESTS) + 1) /\ Len(TESTS) \in Nat
  BY TestsAssumption, LenProperties DEF OrderInv
<1> DEFINE k == entry - 1
<1>2. /\ c.test = TESTS[k] /\ c.test # "part" /\ k \in 1..Len(TESTS) /\ c.step = "body"
      /\ d.test = parent[TESTS[k]] /\ parent[TESTS[k]] # "none"
  <2>1. c.test = TESTS[k] /\ c.test # "part" /\ k \in 1..Len(TESTS)
    BY <1>1 DEF TwoCalls, Current, Calls, Tests
  <2> QED
    BY <2>1 DEF TwoCalls
<1> HIDE DEF k
<1>3. PICK i \in 1..(k - 1) : /\ TESTS[i] = d.test /\ TESTS[i] \in UsesQemu /\ parent[TESTS[i]] = "none"
                              /\ \A n \in (i + 1)..k : TESTS[n] \notin UsesQemu
  BY <1>2, Grouped
<1>4. d.test # c.test
  BY <1>2, <1>3
<1>5. Doing(calls) = {c.test}
  <2>1. calls \in Seq(Calls) /\ calls # <<>> /\ Tail(calls) = <<c>> /\ Calling("enter")
    BY AheadNow DEF TwoCalls, TestInv
  <2>2. Doing(calls) = Doing(<<c>>)
    BY <2>1, DoingOf
  <2>3. Len(<<c>>) = 1 /\ <<c>>[1] = c /\ c.step # "enter"
    BY <1>2
  <2>4. Doing(<<c>>) = {c.test}
    BY <2>3 DEF Doing
  <2> QED
    BY <2>2, <2>4
<1>6. d.test \in Judged
  BY <1>4, <1>5 DEF JudgeInv
<1>7. PICK j \in 1..Len(log) : log[j].test = d.test
  BY <1>6 DEF Judged
<1>8. ASSUME NEW n \in (j + 1)..Len(log), log[n].test \in UsesQemu PROVE FALSE
  <2> DEFINE N == Len(log)
  <2>1. n \in 1..N /\ j \in 1..N /\ j < n
    BY <1>7
  <2> HIDE DEF N
  <2>2. PICK y \in 1..(entry - 1) : TESTS[y] = log[n].test
    BY <2>1 DEF OrderInv, LogOrdered, N
  <2>3. i \in 1..Len(TESTS) /\ y \in 1..Len(TESTS) /\ y <= k
    BY <1>1, <1>2, <1>3, <2>2 DEF k
  <2>4. \A a, b \in 1..Len(TESTS) : TESTS[a] = log[j].test /\ TESTS[b] = log[n].test => a < b
    BY <1>3, <1>7, <1>8, <2>1 DEF OrderInv, LogOrdered, N
  <2>5. i < y
    BY <1>3, <1>7, <2>2, <2>3, <2>4
  <2>6. y \in (i + 1)..k
    BY <1>2, <1>3, <2>3, <2>5
  <2> QED
    BY <1>3, <1>8, <2>2, <2>6
<1> QED
  BY <1>7, <1>8 DEF Ready

(* The invariant for one call, and for two. *)
LEMMA OrderAlone ==
  ASSUME NEW c \in Calls, calls' = <<c>>, Current(c)', entry' \in 1..(Len(TESTS) + 1), LogOrdered', ParentFirst',
         c.step # "enter" /\ parent[c.test] # "none" => Ready(parent[c.test])'
  PROVE  OrderInv'
<1>1. ASSUME NEW b \in Calls, calls' = <<b>> PROVE b = c
  BY <1>1
<1>2. OneCall(c)'
  BY DEF OneCall
<1> QED
  BY <1>1, <1>2 DEF OrderInv

LEMMA OrderAhead ==
  ASSUME NEW c \in Calls, NEW d \in Calls, TwoCalls(d, c)', entry' \in 1..(Len(TESTS) + 1), LogOrdered', ParentFirst'
  PROVE  OrderInv'
<1>1. ASSUME NEW b \in Calls, calls' = <<b>> PROVE FALSE
  <2>1. calls' = <<d, c>>
    BY DEF TwoCalls
  <2>2. Len(<<b>>) = 1 /\ Len(<<d, c>>) = 2
    OBVIOUS
  <2> QED
    BY <1>1, <2>1, <2>2
<1> QED
  BY <1>1 DEF OrderInv

(* Runs and the tests that look at them keep their order, at every step. *)
LEMMA OrderStep ==
  InGroups /\ LinksInv /\ TestInv /\ CallInv /\ SaveInv /\ JudgeInv /\ OrderInv /\ [GradeNext]_gradeVars => OrderInv'
<1> SUFFICES ASSUME InGroups, LinksInv, TestInv, CallInv, SaveInv, JudgeInv, OrderInv, [GradeNext]_gradeVars
             PROVE  OrderInv'
  OBVIOUS
<1>1. CASE World \/ RunQemu \/ Build \/ PostMake \/ Abort \/ Finish \/ UNCHANGED gradeVars
  BY <1>1, OrderStays DEF World, RunQemu, Build, PostMake, Abort, Finish, gradeVars, testVars, progress, tally
<1>2. entry \in 1..(Len(TESTS) + 1) /\ Len(TESTS) \in Nat /\ LogOrdered /\ ParentFirst
  BY TestsAssumption, LenProperties DEF OrderInv
<1>3. CASE NextEntry
  <2>1. calls = <<>> /\ log' = log /\ entry' = entry + 1 /\ entry \in 1..Len(TESTS)
    BY <1>2, <1>3 DEF NextEntry
  <2>2. LogOrdered' /\ ParentFirst'
    <3>1. ASSUME NEW n \in 1..Len(log) PROVE \E x \in 1..(entry' - 1) : TESTS[x] = log[n].test
      <4>1. PICK x \in 1..(entry - 1) : TESTS[x] = log[n].test
        BY <1>2 DEF LogOrdered
      <4> QED
        BY <2>1, <4>1
    <3>2. ParentFirst'
      BY <1>2, <2>1 DEF ParentFirst
    <3>3. LogOrdered'
      BY <1>2, <2>1, <3>1 DEF LogOrdered
    <3> QED
      BY <3>2, <3>3
  <2>3. CASE calls' = <<>>
    <3>1. \A c : <<c>> # <<>>
      OBVIOUS
    <3> QED
      BY <2>1, <2>2, <2>3, <3>1 DEF OrderInv
  <2>4. CASE calls' # <<>>
    <3>0. PICK c : c = [test |-> TESTS[entry], step |-> "enter"]
      OBVIOUS
    <3>1. calls' = <<c>> /\ TESTS[entry] # "part"
      BY <1>3, <2>1, <2>4, <3>0 DEF NextEntry
    <3>2. c \in Calls /\ c.step = "enter" /\ c.test = TESTS[entry]
      BY <2>1, <3>0, <3>1 DEF Calls, Tests, Lines
    <3>3. Current(c)' /\ entry' \in 1..(Len(TESTS) + 1)
      BY <1>2, <2>1, <3>2 DEF Current
    <3> QED
      BY <2>2, <3>1, <3>2, <3>3, OrderAlone
  <2> QED
    BY <2>3, <2>4
<1>4. ASSUME UNCHANGED <<log, entry>> PROVE LogOrdered' /\ ParentFirst' /\ \A p : Ready(p)' <=> Ready(p)
  BY <1>2, <1>4 DEF LogOrdered, ParentFirst, Ready
<1>5. ASSUME NEW c \in Calls, OneCall(c), NEW step \in {"body", "fn"}, NEW b, b = [test |-> c.test, step |-> step]
      PROVE  b \in Calls /\ b.test = c.test /\ b.step = step /\ Now(step) = <<b>>
  BY <1>5, AloneNow DEF Calls, OneCall
<1>6. ASSUME NEW c \in Calls, NEW d \in Calls, TwoCalls(d, c), NEW step \in {"body", "fn"},
             NEW b, b = [test |-> d.test, step |-> step]
      PROVE  b \in Calls /\ b.test = d.test /\ b.step = step /\ Now(step) = <<b, c>>
  BY <1>6, AheadNow DEF Calls, TwoCalls
<1>7. ASSUME NEW c \in Calls, NEW d \in Calls, TwoCalls(d, c)
      PROVE  parent[d.test] = "none" /\ d.test \in UsesQemu
  <2> DEFINE k == entry - 1
  <2>1. c.test = TESTS[k] /\ c.test # "part" /\ k \in 1..Len(TESTS)
    BY <1>2, <1>7 DEF TwoCalls, Current, Calls, Tests
  <2>2. d.test = parent[TESTS[k]] /\ parent[TESTS[k]] # "none"
    BY <1>7, <2>1 DEF TwoCalls
  <2> HIDE DEF k
  <2> QED
    BY <2>1, <2>2, Grouped
<1>8. CASE Enter
  <2>1. /\ UNCHANGED <<log, entry>> /\ at = "idle" /\ Calling("enter") /\ calls # <<>>
        /\ Test \in complete => calls' = Tail(calls)
        /\ Test \notin complete => calls' = Parent \o Now("body")
    BY <1>8 DEF Enter, Called, tally, Calling
  <2>2. LogOrdered' /\ ParentFirst' /\ \A p : Ready(p)' <=> Ready(p)
    BY <1>4, <2>1
  <2>3. ASSUME NEW c \in Calls, OneCall(c) PROVE OrderInv'
    <3>1. Test = c.test /\ Tail(calls) = <<>> /\ Current(c)'
      BY <2>1, <2>3, AloneNow DEF OneCall, Current
    <3>2. CASE Test \in complete
      <4>1. \A b : <<b>> # <<>>
        OBVIOUS
      <4> QED
        BY <1>2, <2>1, <2>2, <3>1, <3>2, <4>1 DEF OrderInv
    <3>3. CASE Test \notin complete
      <4> DEFINE b == [test |-> c.test, step |-> "body"]
      <4>1. b \in Calls /\ b.test = c.test /\ b.step = "body" /\ Now("body") = <<b>>
        BY <1>5, <2>3
      <4> HIDE DEF b
      <4>2. Current(b)' /\ entry' \in 1..(Len(TESTS) + 1)
        BY <1>2, <2>1, <3>1, <4>1 DEF Current
      <4>3. calls' = Parent \o <<b>>
        BY <2>1, <3>3, <4>1
      <4>4. CASE parent[Test] = "none"
        <5>1. Parent = <<>>
          BY <4>4 DEF Parent
        <5>2. <<>> \o <<b>> = <<b>>
          BY <4>1, ConcatEmptySeq
        <5>3. calls' = <<b>> /\ ~(parent[b.test] # "none")
          BY <3>1, <4>1, <4>3, <4>4, <5>1, <5>2
        <5> QED
          BY <2>2, <4>1, <4>2, <5>3, OrderAlone
      <4>5. CASE parent[Test] # "none"
        <5>0. PICK d : d = [test |-> parent[Test], step |-> "enter"]
          OBVIOUS
        <5>1. d \in Calls /\ d.test = parent[b.test]
          <6>1. parent[Test] \in Tests
            BY <2>1, <4>5, Innermost DEF TestInv
          <6> QED
            BY <3>1, <4>1, <5>0, <6>1 DEF Calls
        <5>2. Parent = <<d>>
          BY <4>5, <5>0 DEF Parent
        <5>3. calls' = <<d, b>>
          BY <4>1, <4>3, <5>1, <5>2, PairOf
        <5>4. TwoCalls(d, b)'
          BY <3>1, <4>1, <4>2, <4>5, <5>1, <5>3 DEF TwoCalls
        <5> QED
          BY <2>2, <4>1, <4>2, <5>1, <5>4, OrderAhead
      <4> QED
        BY <4>4, <4>5
    <3> QED
      BY <3>2, <3>3
  <2>4. ASSUME NEW d \in Calls, NEW c \in Calls, TwoCalls(d, c) PROVE OrderInv'
    <3>1. Test = d.test /\ Tail(calls) = <<c>> /\ Current(c)' /\ d.step = "enter" /\ entry' \in 1..(Len(TESTS) + 1)
      BY <1>2, <2>1, <2>4, AheadNow DEF TwoCalls, Current
    <3>2. CASE Test \in complete
      <4>1. Ready(d.test)
        BY <2>1, <2>4, <3>1, <3>2, ReadyBefore
      <4>2. Ready(parent[c.test])'
        BY <2>2, <2>4, <4>1 DEF TwoCalls
      <4> QED
        BY <2>1, <2>2, <3>1, <3>2, <4>2, OrderAlone
    <3>3. CASE Test \notin complete
      <4> DEFINE b == [test |-> d.test, step |-> "body"]
      <4>1. b \in Calls /\ b.test = d.test /\ b.step = "body" /\ Now("body") = <<b, c>>
        BY <1>6, <2>4
      <4> HIDE DEF b
      <4>2. Parent = <<>>
        BY <1>7, <2>4, <3>1 DEF Parent
      <4>3. <<b, c>> \in Seq(Calls)
        BY <4>1
      <4>4. calls' = <<b, c>>
        <5> DEFINE bc == <<b, c>>
        <5>1. bc \in Seq(Calls) /\ calls' = <<>> \o bc
          BY <2>1, <3>3, <4>1, <4>2, <4>3
        <5> HIDE DEF bc
        <5>2. <<>> \o bc = bc
          BY <5>1, ConcatEmptySeq
        <5> QED
          BY <5>1, <5>2 DEF bc
      <4>5. TwoCalls(b, c)'
        BY <2>4, <3>1, <4>1, <4>4 DEF TwoCalls
      <4> QED
        BY <2>2, <3>1, <4>1, <4>5, OrderAhead
    <3> QED
      BY <3>2, <3>3
  <2> QED
    BY <2>1, <2>3, <2>4 DEF OrderInv
<1>9. CASE Body
  <2>1. UNCHANGED <<log, entry>> /\ Calling("body") /\ calls' = Now("fn") /\ calls # <<>>
    BY <1>9 DEF Body, tally, Calling
  <2>2. LogOrdered' /\ ParentFirst' /\ \A p : Ready(p)' <=> Ready(p)
    BY <1>4, <2>1
  <2>3. ASSUME NEW c \in Calls, OneCall(c) PROVE OrderInv'
    <3> DEFINE b == [test |-> c.test, step |-> "fn"]
    <3>1. b \in Calls /\ b.test = c.test /\ Now("fn") = <<b>>
      BY <1>5, <2>3
    <3> HIDE DEF b
    <3>2. Current(b)' /\ entry' \in 1..(Len(TESTS) + 1) /\ calls' = <<b>>
      BY <1>2, <2>1, <2>3, <3>1 DEF OneCall, Current
    <3>3. parent[b.test] # "none" => Ready(parent[b.test])'
      <4>1. calls = <<c>> /\ c.step = "body"
        BY <2>1, <2>3, AloneNow DEF OneCall
      <4> QED
        BY <2>2, <3>1, <4>1 DEF OrderInv
    <3> QED
      BY <2>2, <3>1, <3>2, <3>3, OrderAlone
  <2>4. ASSUME NEW d \in Calls, NEW c \in Calls, TwoCalls(d, c) PROVE OrderInv'
    <3> DEFINE b == [test |-> d.test, step |-> "fn"]
    <3>1. b \in Calls /\ b.test = d.test /\ Now("fn") = <<b, c>>
      BY <1>6, <2>4
    <3> HIDE DEF b
    <3>2. TwoCalls(b, c)' /\ entry' \in 1..(Len(TESTS) + 1)
      BY <1>2, <2>1, <2>4, <3>1 DEF TwoCalls, Current
    <3> QED
      BY <2>2, <3>1, <3>2, OrderAhead
  <2> QED
    BY <2>1, <2>3, <2>4 DEF OrderInv
<1>10. ASSUME NEW verdict \in {"ok", "fail", "cut"}, Judging, Score(verdict), entry' = entry
       PROVE  /\ LogOrdered' /\ ParentFirst'
              /\ \A p : p = Test => Ready(p)'
              /\ \A p : Ready(p) /\ Test \notin UsesQemu => Ready(p)'
  BY <1>10, VerdictOrder
<1>11. CASE Judge
  <2>1. Judging /\ entry' = entry /\ calls' = Tail(calls) /\ calls # <<>>
    BY <1>11 DEF Judge, Judging, Calling
  <2>2. LogOrdered' /\ ParentFirst' /\ \A p : p = Test => Ready(p)'
    BY <1>10, <1>11, <2>1 DEF Judge, Verdict
  <2>3. ASSUME NEW c \in Calls, OneCall(c) PROVE OrderInv'
    <3>1. calls' = <<>>
      BY <2>1, <2>3, AloneNow DEF OneCall
    <3>2. \A b : <<b>> # <<>>
      OBVIOUS
    <3> QED
      BY <1>2, <2>1, <2>2, <3>1, <3>2 DEF OrderInv
  <2>4. ASSUME NEW d \in Calls, NEW c \in Calls, TwoCalls(d, c) PROVE OrderInv'
    <3>1. Test = d.test /\ calls' = <<c>> /\ Current(c)' /\ entry' \in 1..(Len(TESTS) + 1)
      BY <1>2, <2>1, <2>4, AheadNow DEF TwoCalls, Current
    <3>2. d.test = parent[c.test]
      BY <2>4 DEF TwoCalls
    <3>3. Ready(parent[c.test])'
      BY <2>2, <3>1, <3>2
    <3> QED
      BY <2>2, <3>1, <3>3, OrderAlone
  <2> QED
    BY <2>1, <2>3, <2>4 DEF OrderInv
<1>12. CASE CtrlC
  <2>1. entry' = entry /\ calls' = calls
    BY <1>12 DEF CtrlC, progress
  <2>2. CASE UNCHANGED tally
    BY <2>1, <2>2, OrderStays DEF tally
  <2>3. CASE ~UNCHANGED tally
    <3>1. PICK verdict \in {"ok", "fail", "cut"} : Judging /\ Score(verdict)
      BY <1>12, <2>3 DEF CtrlC, Verdict
    <3>2. LogOrdered' /\ ParentFirst' /\ \A p : Ready(p) /\ Test \notin UsesQemu => Ready(p)'
      BY <1>10, <2>1, <3>1
    <3>3. Calling("fn") /\ calls # <<>>
      BY <3>1 DEF Judging, Calling
    <3>4. ASSUME NEW c \in Calls, OneCall(c) PROVE OrderInv'
      <4>1. Test = c.test /\ calls' = <<c>> /\ Current(c)' /\ entry' \in 1..(Len(TESTS) + 1)
        BY <1>2, <2>1, <3>4, AloneNow DEF OneCall, Current
      <4>2. ASSUME parent[c.test] # "none" PROVE Ready(parent[c.test])'
        <5>1. Ready(parent[c.test]) /\ Test \notin UsesQemu
          BY <3>3, <4>1, <4>2, ParentReady
        <5> QED
          BY <3>2, <5>1
      <4> QED
        BY <3>2, <4>1, <4>2, OrderAlone
    <3>5. ASSUME NEW d \in Calls, NEW c \in Calls, TwoCalls(d, c) PROVE OrderInv'
      <4>1. TwoCalls(d, c)' /\ entry' \in 1..(Len(TESTS) + 1)
        BY <1>2, <2>1, <3>5 DEF TwoCalls, Current
      <4> QED
        BY <3>2, <4>1, OrderAhead
    <3> QED
      BY <3>3, <3>4, <3>5 DEF OrderInv
  <2> QED
    BY <2>2, <2>3
<1> QED
  BY <1>1, <1>3, <1>8, <1>9, <1>11, <1>12 DEF GradeNext, Grader

(* For tests registered in the order of grade-lab1, whatever the filters and whenever
   Ctrl-C strikes, a test is judged after its parent, and no other run comes between
   the two. *)
THEOREM ParentRunsFirst == ASSUME InGroups PROVE GradeSpec => []ParentFirst
<1>1. GradeInit => OrderInv
  <2> SUFFICES ASSUME GradeInit PROVE OrderInv
    OBVIOUS
  <2>1. Len(TESTS) \in Nat /\ \A b : <<b>> # <<>>
    BY TestsAssumption, LenProperties
  <2> QED
    BY <2>1 DEF GradeInit, OrderInv, LogOrdered, ParentFirst
<1>2. GradeInv /\ LogInv /\ ScoreInv /\ OrderInv /\ [GradeNext]_gradeVars => OrderInv'
  BY OrderStep DEF GradeInv, LogInv, ScoreInv
<1>3. OrderInv => ParentFirst
  BY DEF OrderInv
<1> QED
  BY <1>1, <1>2, <1>3, GradeAlways, LogAlways, ScoreAlways, PTL DEF GradeSpec
================================================================================
