------------------------------ MODULE Stepper ------------------------------
(***************************************************************************)
(* The counters that bound a simulation: Simulator::step, the guard of     *)
(* main's cycle loop, and Simulator::reset between two runs.  The core is  *)
(* reduced to the pcs it commits in a cycle, what the loop finds to the    *)
(* choice of leaving it early.                                             *)
(***************************************************************************)
EXTENDS Integers

CONSTANTS
  PCs,              \* program counters
  BootPC,           \* the first pc a core commits after reset
  NoPC,             \* no commit on a port
  Ports,            \* commit ports of the builds considered: 1 (Small) or 2
  NUM_RETIRED,      \* instructions the architectural run retired
  MAX_INSTR_TICKS,  \* cycles allowed without a commit (1300)
  SAME_INST,        \* repeats of one pc that mean stuck (10)
  MaxRuns           \* bound: runs in a behaviour

ASSUME StepperAssumption ==
  /\ BootPC \in PCs
  /\ NoPC \notin PCs
  /\ Ports \subseteq {1, 2}
  /\ NUM_RETIRED \in Nat
  /\ MAX_INSTR_TICKS \in Nat \ {0}
  /\ SAME_INST \in Nat \ {0}
  /\ MaxRuns \in Nat \ {0}

VARIABLES
  ports,            \* commit ports of this build, fixed
  ticks, retired, last_retired,
  last_retired_pc, n_same_inst,
  phase,            \* "loop" at the guard, "detect" after step(), or "stopped"
  stuck,            \* what the last step returned
  runs,             \* runs started
  sameRun,          \* history: the last sameRun retired instructions share a pc
                    \* (in retirement order, over both ports)
  longestRun,       \* history: the largest sameRun since reset
  lastPC            \* history: the pc retired last

counters == <<ticks, retired, last_retired, last_retired_pc, n_same_inst>>
history == <<sameRun, longestRun, lastPC>>
vars == <<ports, counters, phase, stuck, runs, history>>

\* Mutants of LoopGuard: one instruction, or one cycle, too many.
LoopGuard_retired == retired <= NUM_RETIRED + 1 /\ ticks < last_retired + MAX_INSTR_TICKS
LoopGuard_ticks   == retired < NUM_RETIRED + 1 /\ ticks <= last_retired + MAX_INSTR_TICKS

LoopGuard ==
  /\ retired < NUM_RETIRED + 1
  /\ ticks < last_retired + MAX_INSTR_TICKS

\* Mutant of SameAfter: the count restarts below zero.
SameAfter_sentinel(p) == IF p = last_retired_pc THEN n_same_inst + 1 ELSE -1

\* n_same_inst after port 0 committed pc p.
SameAfter(p) == IF p = last_retired_pc THEN n_same_inst + 1 ELSE 0

\* Mutant of IsStuck: off by one.
IsStuck_late(p) == p # NoPC /\ SameAfter(p) > SAME_INST

IsStuck(p) == p # NoPC /\ SameAfter(p) >= SAME_INST

Commits(p) == IF p = NoPC THEN 0 ELSE 1

\* The run of equal pcs that ends with p, after a run of length n of pc q.
RunAfter(n, q, p) == IF p = NoPC THEN n ELSE IF p = q THEN n + 1 ELSE 1
PCAfter(q, p) == IF p = NoPC THEN q ELSE p

Longer(m, n) == IF n > m THEN n ELSE m

\* The history takes in the pcs that step reads: q1 is port 1's, which a stuck
\* step never gets to.
Remember(p0, q1) ==
  /\ sameRun' = RunAfter(RunAfter(sameRun, lastPC, p0), PCAfter(lastPC, p0), q1)
  /\ longestRun' = Longer(Longer(longestRun, RunAfter(sameRun, lastPC, p0)), sameRun')
  /\ lastPC' = PCAfter(PCAfter(lastPC, p0), q1)

\* Mutant of Step: only a cycle with a commit counts.
Step_idleTicks(p0, p1) ==
  /\ last_retired_pc' = PCAfter(last_retired_pc, p0)
  /\ n_same_inst' = IF p0 = NoPC THEN n_same_inst ELSE SameAfter(p0)
  /\ stuck' = IsStuck(p0)
  /\ retired' = IF IsStuck(p0) THEN NUM_RETIRED + 1
                ELSE retired + Commits(p0) + Commits(p1)
  /\ last_retired' = IF p0 = NoPC /\ p1 = NoPC THEN last_retired ELSE ticks
  /\ ticks' = IF IsStuck(p0) \/ (p0 = NoPC /\ p1 = NoPC) THEN ticks ELSE ticks + 1

(***************************************************************************)
(* step() with pc p0 on port 0 and p1 on port 1.  A stuck step returns     *)
(* before it looks at port 1 and before ticks is incremented; the loop     *)
(* then sets retired so that it ends.                                      *)
(***************************************************************************)
Step(p0, p1) ==
  /\ last_retired_pc' = PCAfter(last_retired_pc, p0)
  /\ n_same_inst' = IF p0 = NoPC THEN n_same_inst ELSE SameAfter(p0)
  /\ stuck' = IsStuck(p0)
  /\ IF IsStuck(p0)
     THEN /\ retired' = NUM_RETIRED + 1
          /\ last_retired' = ticks
          /\ UNCHANGED ticks
     ELSE /\ retired' = retired + Commits(p0) + Commits(p1)
          /\ last_retired' = IF p0 = NoPC /\ p1 = NoPC THEN last_retired ELSE ticks
          /\ ticks' = ticks + 1

\* What the core retires in a cycle: on the boot pc first, in order.
CommitPair(p0, p1) ==
  /\ ports = 1 => p1 = NoPC
  /\ lastPC = NoPC => /\ p0 \in {NoPC, BootPC}
                      /\ p0 = NoPC => p1 \in {NoPC, BootPC}

Iterate ==
  /\ phase = "loop" /\ LoopGuard
  /\ \E p0, p1 \in PCs \union {NoPC} :
       /\ CommitPair(p0, p1)
       /\ Step(p0, p1)
       /\ Remember(p0, IF IsStuck(p0) THEN NoPC ELSE p1)
  /\ phase' = "detect"
  /\ UNCHANGED <<ports, runs>>

\* The rest of the loop body: it may break out of the loop.
Detect ==
  /\ phase = "detect"
  /\ phase' \in {"loop", "stopped"}
  /\ UNCHANGED <<ports, counters, stuck, runs, history>>

Leave ==
  /\ phase = "loop" /\ ~LoopGuard
  /\ phase' = "stopped"
  /\ UNCHANGED <<ports, counters, stuck, runs, history>>

\* Simulator::reset before another run: last_retired_pc and n_same_inst stay.
\* It follows a Meltdown verdict, so the run left the boot pc.
Reset ==
  /\ phase = "stopped" /\ runs < MaxRuns
  /\ last_retired_pc \notin {BootPC, NoPC}
  /\ ticks' = 0 /\ retired' = 0 /\ last_retired' = 0
  /\ phase' = "loop"
  /\ stuck' = FALSE
  /\ runs' = runs + 1
  /\ sameRun' = 0 /\ longestRun' = 0 /\ lastPC' = NoPC
  /\ UNCHANGED <<ports, last_retired_pc, n_same_inst>>

Init ==
  /\ ports \in Ports
  /\ ticks = 0 /\ retired = 0 /\ last_retired = 0
  /\ last_retired_pc = NoPC /\ n_same_inst = 0
  /\ phase = "loop"
  /\ stuck = FALSE
  /\ runs = 1
  /\ sameRun = 0 /\ longestRun = 0 /\ lastPC = NoPC

Next == Iterate \/ Detect \/ Leave \/ Reset

Spec == Init /\ [][Next]_vars

\* main is one thread: it keeps iterating until the guard ends the loop.
FairSpec == Spec /\ WF_vars(Iterate) /\ WF_vars(Detect) /\ WF_vars(Leave)
-----------------------------------------------------------------------------
\* Type invariant.
TypeOK ==
  /\ ports \in Ports
  /\ ticks \in Nat /\ retired \in Nat /\ last_retired \in Nat
  /\ last_retired_pc \in PCs \union {NoPC}
  /\ n_same_inst \in Nat
  /\ phase \in {"loop", "detect", "stopped"}
  /\ stuck \in BOOLEAN
  /\ runs \in 1 .. MaxRuns
  /\ sameRun \in Nat /\ longestRun \in Nat
  /\ lastPC \in PCs \union {NoPC}

\* The simulation overruns the architectural run by at most the width of the
\* commit stage past the one instruction the guard allows.
RetiredBound == retired <= NUM_RETIRED + ports

\* No run takes more cycles than the commit deadlines of all its commits
\* together, although every commit moves the deadline.
TicksBound ==
  /\ last_retired <= ticks
  /\ ticks <= last_retired + MAX_INSTR_TICKS
  /\ ticks <= NUM_RETIRED * (MAX_INSTR_TICKS - 1) + MAX_INSTR_TICKS

\* With one commit port, step reports stuck exactly when the last
\* SAME_INST + 1 retired instructions have one pc, in every run.
StuckExact == ports = 1 => (stuck <=> sameRun > SAME_INST)

\* "Return true if we're stuck on the same pc for more than 10 instructions"
\* (Simulator.h:115), for every build: somewhere in the run, more than
\* SAME_INST instructions in a row had one pc.
StuckMeansSamePC == stuck => longestRun > SAME_INST

\* Every run ends.
Terminates == phase # "stopped" ~> phase = "stopped"
=============================================================================
