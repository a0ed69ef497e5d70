------------------------------ MODULE Campaign ------------------------------
(***************************************************************************)
(* One AFL++ campaign in its container: fuzz_impl_aflpp_parallel.sh starts *)
(* the fuzzers and afl_helper.py and waits for the main fuzzer; the helper *)
(* polls the folder of causes, writes bug_timings once every expected bug  *)
(* has been found, and kills the fuzzers; eval-results-folder.py reads     *)
(* what is left.                                                           *)
(*                                                                         *)
(* A cause is a file named after a bug, with underscores for spaces.  Its  *)
(* time is its place in the sequence of causes; files are never removed.   *)
(***************************************************************************)
EXTENDS Naturals, Sequences

CONSTANTS
  Fuzzers, Main,     \* the afl-fuzz processes and the one started with -M
  Raw,               \* names of bugs as cause files carry them
  Names, Spaced,     \* names of bugs, and those of raw names
  Expectations,      \* what expected_findings may ask for
  MaxCauses          \* bound: cause files in one campaign

ASSUME CampaignAssumption ==
  /\ Main \in Fuzzers
  /\ Spaced \in [Raw -> Names]
  /\ Expectations \subseteq SUBSET Names
  /\ MaxCauses \in Nat

VARIABLES
  expected,   \* expected_bugs
  causes,     \* the cause files, oldest first
  alive,      \* the fuzzers that run
  helper,     \* where afl_helper.py is
  dict,       \* bugs_and_times, as pairs of a raw name and a time
  timings,    \* the file bug_timings: missing, open or written, and its lines
  script,     \* where the script is
  interrupted,   \* history: the main fuzzer stopped by itself or by a signal
  eval        \* what the evaluation made of the folder

vars == <<expected, causes, alive, helper, dict, timings, script, interrupted, eval>>

Init ==
  /\ expected \in Expectations
  /\ causes = <<>>
  /\ alive = Fuzzers
  /\ helper = "polling"
  /\ dict = {}
  /\ timings = [state |-> "missing", lines |-> {}]
  /\ script = "waiting"
  /\ interrupted = FALSE
  /\ eval = "none"

(***************************************************************************)
(* The fuzzers.                                                            *)
(***************************************************************************)
FindBug(f, raw) ==
  /\ f \in alive
  /\ Len(causes) < MaxCauses
  /\ causes' = Append(causes, raw)
  /\ UNCHANGED <<expected, alive, helper, dict, timings, script, interrupted, eval>>

\* A fuzzer stops: it fails, or it is sigint'd from outside.
Stop(f) ==
  /\ f \in alive
  /\ alive' = alive \ {f}
  /\ interrupted' = (interrupted \/ f = Main)
  /\ UNCHANGED <<expected, causes, helper, dict, timings, script, eval>>

(***************************************************************************)
(* afl_helper.py.                                                          *)
(***************************************************************************)
get_found_bugs == {Spaced[causes[i]] : i \in 1..Len(causes)}

\* Mutant: the latest file of each name counts, not the first.
get_found_bugs_with_time_latest ==
  {<<causes[i], i>> : i \in {k \in 1..Len(causes) :
                               \A j \in (k + 1)..Len(causes) : causes[j] # causes[k]}}

\* Mutant: the names are given their spaces.
get_found_bugs_with_time_spaced ==
  {<<Spaced[causes[i]], i>> : i \in {k \in 1..Len(causes) :
                               \A j \in 1..(k - 1) : causes[j] # causes[k]}}

\* For each raw name the time of its first file.
get_found_bugs_with_time ==
  {<<causes[i], i>> : i \in {k \in 1..Len(causes) :
                               \A j \in 1..(k - 1) : causes[j] # causes[k]}}

FoundAll == expected \subseteq get_found_bugs

\* The loop ends at the first poll that finds everything; a poll that does not
\* changes nothing.
Poll ==
  /\ helper = "polling" /\ FoundAll
  /\ helper' = "found"
  /\ UNCHANGED <<expected, causes, alive, dict, timings, script, interrupted, eval>>

\* Opening the file truncates it; the lines reach it when it is closed.
OpenTimings ==
  /\ helper = "found" /\ helper' = "open"
  /\ timings' = [state |-> "open", lines |-> {}]
  /\ UNCHANGED <<expected, causes, alive, dict, script, interrupted, eval>>

ScanTimes ==
  /\ helper = "open" /\ helper' = "scanned"
  /\ dict' = get_found_bugs_with_time
  /\ UNCHANGED <<expected, causes, alive, timings, script, interrupted, eval>>

CloseTimings ==
  /\ helper = "scanned" /\ helper' = "written"
  /\ timings' = [state |-> "written", lines |-> dict]
  /\ UNCHANGED <<expected, causes, alive, dict, script, interrupted, eval>>

\* Mutant: the fuzzers are killed before the timings are written.
KillFrom_early == {"open", "written"}

\* Where the helper may send its SIGKILL from.
KillFrom == {"written"}

\* Mutant: the kill spares the fuzzer started with -M.
Survivors_main == alive \cap {Main}

\* killall -s SIGKILL spares no afl-fuzz.
Survivors == {}

KillFuzzers ==
  /\ helper \in KillFrom /\ helper' = "done"
  /\ alive' = Survivors
  /\ UNCHANGED <<expected, causes, dict, timings, script, interrupted, eval>>

HelperStep == Poll \/ OpenTimings \/ ScanTimes \/ CloseTimings \/ KillFuzzers

(***************************************************************************)
(* The script, and the evaluation after it.                                *)
(***************************************************************************)
\* The main fuzzer, which runs in the foreground, has returned.
Cleanup ==
  /\ script = "waiting" /\ Main \notin alive
  /\ script' = "cleaned"
  /\ alive' = {}
  /\ UNCHANGED <<expected, causes, helper, dict, timings, interrupted, eval>>

\* The container goes, and the helper with it, wherever it was.
Exit ==
  /\ script = "cleaned" /\ script' = "exited"
  /\ helper' = IF helper = "done" THEN helper ELSE "gone"
  /\ UNCHANGED <<expected, causes, alive, dict, timings, interrupted, eval>>

\* An existing bug_timings is used instead of the causes; without a line in it
\* the evaluation gives up.
Evaluate ==
  /\ script = "exited" /\ eval = "none"
  /\ eval' = IF timings.state = "missing" THEN "from_causes"
             ELSE IF timings.lines = {} THEN "gave_up" ELSE "from_timings"
  /\ UNCHANGED <<expected, causes, alive, helper, dict, timings, script, interrupted>>

ScriptStep == Cleanup \/ Exit

Done == eval # "none" /\ UNCHANGED vars

Next ==
  \/ \E f \in Fuzzers : Stop(f) \/ \E raw \in Raw : FindBug(f, raw)
  \/ HelperStep \/ ScriptStep \/ Evaluate \/ Done

\* The helper and the script are processes the system keeps scheduling; nothing
\* makes a fuzzer find a bug.
Spec == Init /\ [][Next]_vars /\ WF_vars(HelperStep) /\ WF_vars(ScriptStep)

(***************************************************************************)
(* Properties.                                                             *)
(***************************************************************************)
\* Every variable has its type.
TypeOK ==
  /\ expected \in SUBSET Names
  /\ causes \in Seq(Raw)
  /\ alive \in SUBSET Fuzzers
  /\ helper \in {"polling", "found", "open", "scanned", "written", "done", "gone"}
  /\ dict \in SUBSET (Raw \X Nat)
  /\ timings \in [state : {"missing", "open", "written"}, lines : SUBSET (Raw \X Nat)]
  /\ script \in {"waiting", "cleaned", "exited"}
  /\ interrupted \in BOOLEAN
  /\ eval \in {"none", "from_causes", "from_timings", "gave_up"}

\* A line with the first time of its bug.
IsFirst(l) ==
  /\ l[2] \in 1..Len(causes) /\ causes[l[2]] = l[1]
  /\ \A j \in 1..(l[2] - 1) : causes[j] # l[1]

Covers(lines) == \A b \in expected : \E l \in lines : Spaced[l[1]] = b

\* Once written, bug_timings has a line for every expected bug, and each line
\* has the time of the first cause of its bug, although fuzzers go on finding
\* bugs between the poll, the scan and the kill (afl_helper.py:61-89).
TimingsAreFirst ==
  timings.state = "written" => Covers(timings.lines) /\ \A l \in timings.lines : IsFirst(l)

\* The evaluation gives up on a campaign that had something to expect only if
\* the main fuzzer stopped by itself while the helper was writing: the helper
\* never ends a campaign whose timings are incomplete.
GaveUpMeansInterrupted == eval = "gave_up" => interrupted \/ expected = {}

\* Once every expected bug has been found the campaign comes to its end,
\* whatever the fuzzers do.
ScriptEnds == FoundAll ~> script = "exited"
=============================================================================
