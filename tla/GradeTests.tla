------------------------------- MODULE GradeTests -----------------------------
(***************************************************************************)
(* gradelib.py's tests and the loop of run_tests(): what a test decorator  *)
(* registers, dependencies, scores, filters, failure logs and the exit     *)
(* status, around the run_qemu() of GradeRunner.                           *)
(***************************************************************************)
EXTENDS GradeRunner, SequencesExt

CONSTANTS
  TESTS,      \* in the order of registration; "part" is an end_part()
  parent,     \* of each test, or "none"
  points,
  UsesQemu,   \* the tests that call run_qemu(); the others look at its output
  Wants,      \* the lines such a test wants to match
  Selections  \* the titles that the filters match; {} if there is no filter

Tests == Lines(TESTS) \ {"part"}

ASSUME TestsAssumption ==
  /\ TESTS \in Seq(STRING) /\ parent \in [Tests -> Tests \union {"none"}] /\ points \in [Tests -> Nat]

(* The order of grade-lab1: a test runs QEMU, those that look at its output follow it. *)
InGroups ==
  /\ \A i, j \in 1..Len(TESTS) : TESTS[i] = TESTS[j] /\ TESTS[i] # "part" => i = j
  /\ \A k \in 1..Len(TESTS) :
       TESTS[k] # "part" /\ parent[TESTS[k]] # "none" =>
         \E j \in 1..(k - 1) : /\ TESTS[j] = parent[TESTS[k]] /\ TESTS[j] \in UsesQemu
                               /\ parent[TESTS[j]] = "none"
                               /\ \A n \in (j + 1)..k : TESTS[n] \notin UsesQemu

VARIABLES
  selection,            \* the command line
  busy,                 \* does another QEMU listen on the port
  entry,                \* the entry of TESTS that run_tests() is at
  calls,                \* active calls of run_test(), innermost first: [test, step]
  complete, CURRENT_TEST, TOTAL, POSSIBLE, PART_TOTAL, PART_POSSIBLE,
  on_finish,            \* the tests with a save() callback
  saved,                \* the failure log of each test
  status,               \* exit status of the grader, -1 before it
  log, parts            \* history: the verdicts, and what end_part() printed

tally == <<TOTAL, POSSIBLE, PART_TOTAL, PART_POSSIBLE, log, parts, saved>>
progress == <<selection, busy, entry, calls, complete, CURRENT_TEST, on_finish>>
testVars == <<progress, tally, status>>
gradeVars == <<vars, testVars>>

NoLog == <<>>
OldLog == <<"old">>

(* Each test has left a log at an earlier grading. *)
GradeInit ==
  /\ at = "build" /\ child = "none" /\ pipe = <<>> /\ sock = <<>> /\ script = <<>> /\ printed = <<>>
  /\ told = {} /\ wrote = FALSE /\ stamped = FALSE /\ proc = FALSE /\ gdb = "none" /\ reactors = "none"
  /\ ready = {} /\ output = <<>> /\ file = <<>> /\ monitors = {}
  /\ raised = "no" /\ stop = "no" /\ drain = "no" /\ warned = FALSE /\ interrupt = "no"
  /\ selection \in Selections /\ busy \in BOOLEAN
  /\ entry = 1 /\ calls = <<>> /\ complete = {} /\ CURRENT_TEST = "none"
  /\ TOTAL = 0 /\ POSSIBLE = 0 /\ PART_TOTAL = 0 /\ PART_POSSIBLE = 0
  /\ on_finish = {} /\ saved = [t \in Tests |-> OldLog]
  /\ status = -1 /\ log = <<>> /\ parts = <<>>

-----------------------------------------------------------------------------
GoTo(place) ==
  /\ at' = place
  /\ UNCHANGED <<childVars, told, links, ready, kept, ends, outcome>>

(* make() in run_tests(), which exits if the build fails. *)
Build ==
  /\ at = "build" /\ UNCHANGED <<progress, tally>>
  /\ \/ GoTo("built") /\ wrote' = TRUE /\ UNCHANGED <<stamped, status>>
     \/ GoTo("exit") /\ status' = 1 /\ UNCHANGED clock

PostMake == at = "built" /\ GoTo("idle") /\ stamped' = TRUE /\ UNCHANGED <<wrote, testVars>>

Selected(e) == selection = {} \/ e \in selection

(* run_tests() calls the next entry that the filters match. *)
NextEntry ==
  /\ at = "idle" /\ calls = <<>> /\ entry <= Len(TESTS)
  /\ LET e == TESTS[entry]
     IN  IF e = "part" /\ Selected(e)
         THEN /\ parts' = Append(parts, <<TOTAL - PART_TOTAL, POSSIBLE - PART_POSSIBLE>>)
              /\ PART_TOTAL' = TOTAL /\ PART_POSSIBLE' = POSSIBLE /\ UNCHANGED calls
         ELSE /\ calls' = IF Selected(e) THEN <<[test |-> e, step |-> "enter"]>> ELSE <<>>
              /\ UNCHANGED <<parts, PART_TOTAL, PART_POSSIBLE>>
  /\ entry' = entry + 1
  /\ UNCHANGED <<vars, selection, busy, complete, CURRENT_TEST, on_finish, TOTAL, POSSIBLE, log, saved, status>>

Test == Head(calls).test
Calling(step) == calls # <<>> /\ Head(calls).step = step
Parent == IF parent[Test] = "none" THEN <<>> ELSE <<[test |-> parent[Test], step |-> "enter"]>>
Now(step) == <<[test |-> Test, step |-> step]>> \o Tail(calls)

(* Mutant of Marked: the flag is never set. *)
NeverMarked == complete

Marked == complete \union {Test}

(* Mutant of Called: the dependency is called last. *)
CalledLast == IF Test \in complete THEN Tail(calls) ELSE Now("body") \o Parent

(* run_test(): nothing if it is complete, or else its parent, then itself. *)
Called == IF Test \in complete THEN Tail(calls) ELSE Parent \o Now("body")

Enter ==
  /\ at = "idle" /\ Calling("enter")
  /\ complete' = Marked /\ calls' = Called
  /\ UNCHANGED <<vars, selection, busy, entry, CURRENT_TEST, on_finish, tally, status>>

(* Mutant of PreMake: make is run at once. *)
PreMakeNow == TRUE

(* pre_make() goes on when the clock shows another second. *)
PreMake == ~stamped

(* run_qemu() and QEMU() start make, unless another QEMU has the port, or the
   first of them cannot ask for it. *)
StartQemu ==
  \/ /\ busy \/ reactors = "none"
     /\ GoTo("exit") /\ status' = 1
  \/ /\ ~busy
     /\ at' = "popen" /\ child' = "making" /\ proc' = TRUE /\ script' \in Scripts
     /\ pipe' = <<>> /\ sock' = <<>> /\ printed' = <<>> /\ told' = {} /\ gdb' = "none" /\ ready' = {}
     /\ reactors' = IF reactors = "mine" THEN "old" ELSE reactors
     /\ output' = <<>> /\ monitors' = {} /\ raised' = "no" /\ stop' = "no" /\ drain' = "no"
     /\ UNCHANGED <<file, warned, interrupt, status>>

Body ==
  /\ at = "idle" /\ Calling("body")
  /\ CURRENT_TEST' = Test /\ calls' = Now("fn") /\ UNCHANGED clock
  /\ IF Test \in UsesQemu THEN PreMake /\ StartQemu
     ELSE UNCHANGED <<childVars, told, runnerVars, status>>
  /\ UNCHANGED <<selection, busy, entry, complete, on_finish, tally>>

(* run_qemu() goes on; save() registers its callback for the current test. *)
RunQemu ==
  /\ RunnerStep
  /\ on_finish' = IF at = "setup" THEN on_finish \union {CURRENT_TEST} ELSE on_finish
  /\ status' = IF at' = "exit" THEN 1 ELSE status
  /\ UNCHANGED <<selection, busy, entry, calls, complete, CURRENT_TEST, tally>>

(* The test passes if it raises no AssertionError. *)
Passed == IF Test \in UsesQemu THEN raised = "no" ELSE Wants[Test] \subseteq Lines(output)

Judging == Calling("fn") /\ at \in {"idle", "returned"} /\ raised \in {"no", "assertion"}

(* The scores. *)
Score(verdict) ==
  /\ POSSIBLE' = POSSIBLE + points[Test]
  /\ TOTAL' = IF verdict = "ok" THEN TOTAL + points[Test] ELSE TOTAL
  /\ log' = Append(log, [test |-> Test, verdict |-> verdict])
  /\ UNCHANGED <<PART_TOTAL, PART_POSSIBLE, parts>>

Verdict == IF Passed THEN "ok" ELSE "fail"

(* Mutant of Callbacks: one list of callbacks for all tests. *)
CallbacksOfAny == on_finish # {}

Callbacks == Test \in on_finish

(* The verdict, the scores, and the callbacks: a failure is saved, an old log of
   a test that passes is removed. *)
Judge ==
  /\ Judging /\ Score(Verdict)
  /\ saved' = IF Callbacks THEN [saved EXCEPT ![CURRENT_TEST] = IF Passed THEN NoLog ELSE file] ELSE saved
  /\ CURRENT_TEST' = "none" /\ calls' = Tail(calls) /\ GoTo("idle")
  /\ UNCHANGED <<clock, selection, busy, entry, complete, on_finish, status>>

(* Any exception but those of Passed goes through run_test(), and an interrupt not
   further than run_tests(). *)
ExitStatus == IF TOTAL < POSSIBLE THEN 1 ELSE 0

Abort ==
  /\ Calling("fn") /\ at = "returned" /\ raised \in {"error", "interrupt"} /\ GoTo("exit")
  /\ status' = IF raised = "error" THEN 1 ELSE ExitStatus
  /\ UNCHANGED <<clock, progress, tally>>

Finish ==
  /\ at = "idle" /\ calls = <<>> /\ entry > Len(TESTS) /\ GoTo("exit")
  /\ status' = ExitStatus
  /\ UNCHANGED <<clock, progress, tally>>

(* Ctrl-C during run_tests(); between the scores of a test, and before its
   callbacks, it leaves the test half judged. *)
CtrlC ==
  /\ Interrupt /\ UNCHANGED progress
  /\ \/ UNCHANGED tally
     \/ Judging /\ Score("cut") /\ UNCHANGED saved
     \/ Judging /\ Score(Verdict) /\ UNCHANGED saved
  /\ status' = IF at' # "exit" THEN status ELSE IF at \in {"build", "built"} THEN 1 ELSE ExitStatus'

Grader == Build \/ PostMake \/ NextEntry \/ Enter \/ Body \/ RunQemu \/ Judge \/ Abort \/ Finish

World == at # "exit" /\ (ChildStep \/ Tick) /\ UNCHANGED testVars

GradeNext == Grader \/ CtrlC \/ World

GradeSpec == GradeInit /\ [][GradeNext]_gradeVars

(* The grader is scheduled, the clock runs, and make ends when it is told to. *)
FairGradeSpec ==
  /\ GradeSpec
  /\ WF_gradeVars(Grader)
  /\ WF_gradeVars(Tick /\ UNCHANGED testVars)
  /\ WF_gradeVars(Terminated /\ ChildStep /\ UNCHANGED testVars)

-----------------------------------------------------------------------------
(* Types; the GDB client is there whenever it is used. *)
GradeTypeOK ==
  /\ complete \subseteq Tests /\ CURRENT_TEST \in Tests \union {"none"} /\ on_finish \subseteq UsesQemu
  /\ status \in {-1, 0, 1} /\ (status # -1 <=> at = "exit")
  /\ child \in Alive \union {"none", "exited", "reaped"}
  /\ told \subseteq {"Z1", "c", "TERM"} /\ sock \in {<<>>, <<"T05">>}
  /\ gdb \in {"none", "open", "closed"} /\ ready \subseteq {"qemu", "gdb"}
  /\ at \in {"setup", "run", "finally", "drain", "close"} => gdb # "none"
  /\ at = "run" => reactors = "mine"

Judged == {log[k].test : k \in 1..Len(log)}
Points(S) == FoldSet(LAMBDA t, n : points[t] + n, 0, S)

(* gradelib.py:117.  However tests depend on one another and whatever the filters,
   every verdict counts once, in the total and in the part in which it was reached;
   the exit status is 0 only if each test with points that was judged has passed and,
   without Ctrl-C, each selected one was judged. *)
ScoreAddsUp ==
  /\ Cardinality(Judged) = Len(log)
  /\ POSSIBLE = Points(Judged) /\ TOTAL = Points({t \in Judged : [test |-> t, verdict |-> "ok"] \in Lines(log)})
  /\ PART_TOTAL = FoldSeq(LAMBDA p, n : p[1] + n, 0, parts)
  /\ PART_POSSIBLE = FoldSeq(LAMBDA p, n : p[2] + n, 0, parts)
  /\ status = 0 =>
       /\ \A v \in Lines(log) : v.verdict = "ok" \/ points[v.test] = 0
       /\ interrupt = "no" => {t \in Tests : Selected(t)} \subseteq Judged

(* A test looks at the output of its parent's run: for tests registered in the
   order of grade-lab1, whatever the filters, it is judged after its parent and no
   other run comes between the two. *)
ParentFirst ==
  \A k \in 1..Len(log) :
    parent[log[k].test] # "none" =>
      \E j \in 1..(k - 1) : /\ log[j].test = parent[log[k].test]
                            /\ \A n \in (j + 1)..(k - 1) : log[n].test \notin UsesQemu

(* "If the test fails, copy the output to path.test-name."  The log of a failure
   holds all the kernel printed in that test's own run; no other test's log is
   touched, and none by a test that Ctrl-C cuts short. *)
FailureLogs ==
  [][log' # log =>
       LET v == Last(log')
       IN  /\ \A t \in Tests \ {v.test} : saved'[t] = saved[t]
           /\ IF v.test \notin UsesQemu \/ interrupt' # interrupt THEN saved'[v.test] = saved[v.test]
              ELSE IF v.verdict = "ok" THEN saved'[v.test] = NoLog
              ELSE AllButMakes(saved'[v.test], output)]_gradeVars

(* "Delay prior to running make to ensure file mtimes change."  No make is started
   in a second in which an earlier one may have written, so that what has been changed
   in between is newer; as long as the clock is not set back. *)
FreshTimes == [][child' = "making" /\ child # "making" => ~wrote]_gradeVars

(* The grader ends, whatever make, QEMU and the kernel do. *)
Graded == <>(at = "exit")
===============================================================================
