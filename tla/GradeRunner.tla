------------------------------ MODULE GradeRunner -----------------------------
(***************************************************************************)
(* gradelib.py's Runner: one run_qemu(), which starts make and through it  *)
(* QEMU, connects to its GDB stub, reacts to what the two say, and shuts   *)
(* them down.  make, QEMU and the kernel in it go on by themselves while   *)
(* the grader is between two calls.  The timeouts are far longer than any  *)
(* step of the grader, so one may strike whenever the grader is waiting;   *)
(* Ctrl-C strikes once, between any two steps, and may end make and QEMU.  *)
(***************************************************************************)
EXTENDS Integers, Sequences

CONSTANTS
  BUFSIZE,   \* lines that one read returns at most (4096 bytes)
  Scripts,   \* what a kernel may print before it reaches the breakpoint
  StopLines  \* the lines a stop_on_line() monitor stops at

ASSUME BufferAssumption == BUFSIZE \in Nat \ {0}
ASSUME ScriptAssumption == Scripts \subseteq Seq(STRING)

NewLine == "***"   \* a line of the Makefile's own
Part == "+ cc"     \* output of make with no newline in it yet

VARIABLES
  child,     \* make and the QEMU it starts
  pipe,      \* what they have printed and the grader has not read
  sock,      \* packets of the GDB stub that the grader has not read
  script,    \* what the kernel has not printed yet
  told,      \* the commands sent to the stub, and SIGTERM
  printed,   \* history: all that went into the pipe
  wrote,     \* has make written a file in this second
  stamped,   \* is this second MAKE_TIMESTAMP
  at,        \* where run_qemu() is
  proc,      \* is QEMU.proc set
  gdb,       \* Runner.gdb: "none", "open", or "closed" when it has no socket
  reactors,  \* Runner.reactors: "none", those of this run ("mine") or an "old" one
  ready,     \* the reactors of this round that are not handled yet
  output,    \* QEMU.output
  monitors,  \* the monitors that have been set up
  file,      \* what save() has written
  raised,    \* the exception that run_qemu() leaves with
  stop,      \* how the main loop ended
  drain,     \* how the loop of the shutdown ended
  warned,    \* has "Failed to shutdown QEMU" been printed
  interrupt  \* has Ctrl-C struck: "no", "popen" (before the try of run_qemu()) or "later"

childVars == <<child, pipe, sock, script, printed>>
clock == <<wrote, stamped>>
links == <<proc, gdb, reactors>>
kept == <<output, monitors, file>>
ends == <<stop, drain>>
outcome == <<raised, warned, interrupt>>
runnerVars == <<at, links, ready, kept, ends, outcome>>
vars == <<childVars, told, clock, runnerVars>>

Alive == {"making", "listening", "running", "stopped"}

-----------------------------------------------------------------------------
(* make, QEMU and the kernel.  make's last file is written before QEMU starts. *)
Emit(line) == pipe' = Append(pipe, line) /\ printed' = Append(printed, line)

MakePrints ==
  /\ child = "making" /\ Len(printed) < 2
  /\ \E line \in {NewLine, Part} : Emit(line)
  /\ UNCHANGED <<child, sock, script, wrote>>

StubListens ==
  /\ child = "making" /\ child' = "listening" /\ wrote' = TRUE
  /\ UNCHANGED <<pipe, sock, script, printed>>

Continue ==
  /\ child = "listening" /\ "c" \in told /\ child' = "running"
  /\ UNCHANGED <<pipe, sock, script, printed, wrote>>

KernelPrints ==
  /\ child = "running" /\ script # <<>>
  /\ Emit(Head(script)) /\ script' = Tail(script)
  /\ UNCHANGED <<child, sock, wrote>>

BreakpointHit ==
  /\ child = "running" /\ script = <<>> /\ "Z1" \in told
  /\ child' = "stopped" /\ sock' = Append(sock, "T05")
  /\ UNCHANGED <<pipe, script, printed, wrote>>

(* The build fails, QEMU ends by itself, or Ctrl-C reaches them. *)
Dies == child \in Alive /\ child' = "exited" /\ UNCHANGED <<pipe, sock, script, printed, wrote>>

(* make passes SIGTERM on and waits for its children. *)
Terminated == "TERM" \in told /\ Dies

ChildStep ==
  /\ MakePrints \/ StubListens \/ Continue \/ KernelPrints \/ BreakpointHit \/ Dies
  /\ UNCHANGED <<told, stamped, runnerVars>>

(* The clock's second changes; all that matters is who did something in this one. *)
Tick ==
  /\ wrote \/ stamped
  /\ wrote' = FALSE /\ stamped' = FALSE
  /\ UNCHANGED <<childVars, told, runnerVars>>

-----------------------------------------------------------------------------
(* __react(): the loop of the start, of the run and of the shutdown.  An old
   run's reactors are closed. *)
Reacting == {"start", "run", "drain"}
Reactors == IF at = "start" THEN {"qemu"} ELSE IF reactors = "mine" THEN {"qemu", "gdb"} ELSE {}
Open == {r \in Reactors : IF r = "qemu" THEN proc ELSE gdb = "open"}
Readable == {r \in Open : child = "exited" \/ IF r = "qemu" THEN pipe # <<>> ELSE sock # <<>>}

Round == at \in Reacting /\ ready = {} /\ (at = "start" \/ reactors # "none")

Select ==
  /\ Round /\ Readable # {} /\ ready' = Readable
  /\ UNCHANGED <<childVars, told, clock, at, links, kept, ends, outcome>>

(* Mutant of After: the connection is not looked at. *)
AfterUnchecked == [start |-> "setup", run |-> "finally", drain |-> "close"]

(* What follows a loop: a start that just ends has made no connection. *)
After == [start |-> "failed", run |-> "finally", drain |-> "close"]

Leave(how) ==
  /\ at' = After[at] /\ ready' = {}
  /\ stop' = IF at = "run" THEN how ELSE stop
  /\ drain' = IF at = "drain" THEN how ELSE drain

EndRound ==
  /\ Round
  /\ \/ Open # {} /\ Leave("timeout")
     \/ Open = {} /\ Leave("closed")
  /\ UNCHANGED <<childVars, told, clock, links, kept, outcome>>

(* Mutant of Keep: what is read while QEMU is shut down is dropped. *)
KeepUntilStop(buf) ==
  /\ output' = IF at = "drain" THEN output ELSE output \o buf
  /\ file' = IF "save" \in monitors /\ at # "drain" THEN file \o buf ELSE file

(* QEMU.output, and the callback of save(). *)
Keep(buf) ==
  /\ output' = output \o buf
  /\ file' = IF "save" \in monitors THEN file \o buf ELSE file

Lines(s) == {s[i] : i \in 1..Len(s)}

(* QEMU.handle_read(): the callbacks come before the test for the end. *)
ReadQemu ==
  /\ at \in Reacting /\ "qemu" \in ready
  /\ LET n == IF Len(pipe) < BUFSIZE THEN Len(pipe) ELSE BUFSIZE
         buf == SubSeq(pipe, 1, n)
         stops == "stop" \in monitors /\ Lines(buf) \cap StopLines # {}
         line == at = "start" /\ NewLine \in Lines(buf)
         end == at = "start" /\ buf = <<>>
     IN  /\ pipe' = SubSeq(pipe, n + 1, Len(pipe))
         /\ Keep(buf)
         /\ \/ line /\ at' = "connect" /\ ready' = {} /\ UNCHANGED <<ends, proc, child>>
            \/ end /\ Leave("closed") /\ UNCHANGED <<proc, child>>
            \/ stops /\ Leave("line") /\ UNCHANGED <<proc, child>>
            \/ /\ ~line /\ ~end /\ ~stops
               /\ ready' = ready \ {"qemu"}
               /\ IF buf = <<>> THEN proc' = FALSE /\ child' = "reaped" ELSE UNCHANGED <<proc, child>>
               /\ UNCHANGED <<at, ends>>
  /\ UNCHANGED <<sock, script, printed, told, clock, gdb, reactors, monitors, outcome>>

(* GDBClient.handle_read(); when both are ready, QEMU's comes first. *)
ReadGdb ==
  /\ at \in Reacting /\ ready = {"gdb"}
  /\ IF sock = <<>>
     THEN gdb' = "closed" /\ ready' = {} /\ UNCHANGED <<sock, at, ends>>
     ELSE sock' = Tail(sock) /\ Leave("breakpoint") /\ UNCHANGED gdb
  /\ UNCHANGED <<child, pipe, script, printed, told, clock, proc, reactors, kept, outcome>>

-----------------------------------------------------------------------------
(* __monitor_start(): GDBClient tries until it is connected, or gives up, when the
   deadline of the loop has passed as well. *)
Connect ==
  /\ at = "connect"
  /\ IF child = "listening" THEN gdb' = "open" /\ at' = "setup" ELSE at' = "failed" /\ UNCHANGED gdb
  /\ UNCHANGED <<childVars, told, clock, proc, reactors, ready, kept, ends, outcome>>

(* No connection: sys.exit(1), and once more in the finally clause; or no reactors
   for the loop of the shutdown, an AttributeError. *)
Fail ==
  /\ at = "failed" \/ (at = "drain" /\ reactors = "none")
  /\ at' = "exit" /\ warned' = TRUE
  /\ UNCHANGED <<childVars, told, clock, links, ready, kept, ends, raised, interrupt>>

(* post_make(); the monitors are set up one after the other, then the kernel is told
   to go on.  The symbol may be unknown; a send fails if QEMU is gone. *)
SetUp ==
  /\ at = "setup" /\ stamped' = TRUE /\ reactors' = "mine" /\ file' = <<>>
  /\ \/ /\ monitors' = {"save"} /\ at' = "finally" /\ UNCHANGED told
        /\ raised' \in {"assertion"} \union (IF child = "exited" THEN {"error"} ELSE {})
     \/ /\ monitors' = {"save", "stop"} /\ told' = told \union {"Z1", "c"} /\ at' = "run"
        /\ UNCHANGED raised
  /\ UNCHANGED <<childVars, wrote, proc, gdb, ready, output, ends, warned, interrupt>>

(* Mutant of kill: QEMU is left to end by itself. *)
killNobody == told

(* QEMU.kill() *)
kill == IF proc THEN told \union {"TERM"} ELSE told

Shutdown ==
  /\ at = "finally" /\ at' = "drain" /\ told' = kill
  /\ UNCHANGED <<childVars, clock, links, ready, kept, ends, outcome>>

(* Mutant of wait: QEMU is not waited for. *)
waitNot == proc' = FALSE /\ UNCHANGED child

(* QEMU.wait() *)
wait == (proc => child = "exited") /\ proc' = FALSE /\ child' = "reaped"

Close ==
  /\ at = "close" /\ at' = "returned" /\ gdb' = "closed" /\ wait
  /\ UNCHANGED <<pipe, sock, script, printed, told, clock, reactors, ready, kept, ends, outcome>>

(* Ctrl-C.  Up to the connection the finally clause exits; after it, it shuts QEMU
   down; the shutdown itself it cuts short, with a warning.  All else is up to
   run_tests(): nothing catches it between the start of make and the try. *)
Interrupt ==
  /\ interrupt = "no" /\ at # "exit" /\ ready' = {}
  /\ interrupt' = IF at = "popen" THEN at ELSE "later"
  /\ at' = CASE at \in {"start", "connect", "failed"} -> "failed"
             [] at \in {"setup", "run"} -> "finally"
             [] OTHER -> "exit"
  /\ raised' = IF at \in {"setup", "run"} THEN "interrupt" ELSE raised
  /\ warned' = (warned \/ at \in {"finally", "drain", "close"})
  /\ UNCHANGED <<childVars, told, clock, links, kept, ends>>

(* The try of run_qemu() is entered. *)
Try == at = "popen" /\ at' = "start" /\ UNCHANGED <<childVars, told, clock, links, ready, kept, ends, outcome>>

RunnerStep ==
  Try \/ Select \/ EndRound \/ ReadQemu \/ ReadGdb \/ Connect \/ Fail \/ SetUp \/ Shutdown \/ Close

-----------------------------------------------------------------------------
(* All of a run's output but lines that make has printed before the kernel could. *)
AllButMakes(lines, all) ==
  \E k \in 0..Len(all) :
    /\ lines = SubSeq(all, k + 1, Len(all))
    /\ \A n \in 1..k : all[n] \in {NewLine, Part}

(* Runner.match() sees QEMU.output.  Output is never lost or reordered in the
   middle, and if the shutdown read to the end it is all that was printed; a run
   that a breakpoint stopped can only lose output to a timeout of the shutdown
   or to a line that stops it. *)
OutputComplete ==
  /\ output \o pipe = printed
  /\ at = "returned" /\ drain = "closed" /\ interrupt = "no" => output = printed
  /\ at = "returned" /\ stop = "breakpoint" => drain \in {"closed", "timeout", "line"}

(* gradelib.py:421 "Shutdown QEMU".  After run_qemu() returns, make and QEMU are
   gone and waited for, so that the next run can use the port; and the grader never
   ends without either this or the warning, except for a Ctrl-C between the start
   of make and the try. *)
NoOrphan ==
  /\ at = "returned" => child = "reaped"
  /\ at = "exit" /\ ~warned /\ interrupt # "popen" => child \in {"none", "reaped"}

(* The same however run_qemu() ends, even without Ctrl-C: QEMU has ended or has
   been told to. *)
ShutDown == at \in {"returned", "exit"} /\ interrupt = "no" => child \notin Alive \/ "TERM" \in told
===============================================================================
