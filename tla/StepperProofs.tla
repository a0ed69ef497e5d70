--------------------------- MODULE StepperProofs ---------------------------
(***************************************************************************)
(* Proofs about Stepper, for every number of instructions, every deadline, *)
(* every stuck limit and every set of pcs.                                 *)
(***************************************************************************)
EXTENDS Stepper, TLAPS

USE StepperAssumption DEF StepperAssumption

(***************************************************************************)
(* Type correctness                                                        *)
(***************************************************************************)
LEMMA InitTypeOK == Init => TypeOK
<1> SUFFICES ASSUME Init PROVE TypeOK
    OBVIOUS
<1>1. runs \in 1 .. MaxRuns
    BY DEF Init
<1>2. ticks \in Nat /\ retired \in Nat /\ last_retired \in Nat /\ n_same_inst \in Nat
    BY DEF Init
<1>3. sameRun \in Nat /\ longestRun \in Nat
    BY DEF Init
<1>4. phase \in {"loop", "detect", "stopped"} /\ stuck \in BOOLEAN
    BY DEF Init
<1>5. ports \in Ports /\ lastPC \in PCs \union {NoPC} /\ last_retired_pc \in PCs \union {NoPC}
    BY DEF Init
<1> QED
    BY <1>1, <1>2, <1>3, <1>4, <1>5 DEF TypeOK

\* Every step keeps the types.
LEMMA NextTypeOK == TypeOK /\ [Next]_vars => TypeOK'
<1> SUFFICES ASSUME TypeOK, [Next]_vars PROVE TypeOK'
    OBVIOUS
<1>1. ASSUME Iterate PROVE TypeOK'
  <2> PICK p0, p1 \in PCs \union {NoPC} :
        /\ Step(p0, p1)
        /\ Remember(p0, IF IsStuck(p0) THEN NoPC ELSE p1)
      BY <1>1 DEF Iterate
  <2> DEFINE q1 == IF IsStuck(p0) THEN NoPC ELSE p1
  <2>0. q1 \in PCs \union {NoPC} /\ Remember(p0, q1)
      OBVIOUS
  <2> HIDE DEF q1
  <2>1. ticks' \in Nat /\ retired' \in Nat /\ last_retired' \in Nat
      BY DEF TypeOK, Step, Commits
  <2>2. n_same_inst' \in Nat /\ stuck' \in BOOLEAN
      BY DEF TypeOK, Step, SameAfter, IsStuck
  <2>3. sameRun' \in Nat /\ RunAfter(sameRun, lastPC, p0) \in Nat
      BY <2>0 DEF TypeOK, RunAfter, Remember
  <2>5. longestRun' \in Nat
      BY <2>0, <2>3 DEF TypeOK, Longer, Remember
  <2>4. lastPC' \in PCs \union {NoPC} /\ last_retired_pc' \in PCs \union {NoPC}
      BY <2>0 DEF TypeOK, PCAfter, Step, Remember
  <2> QED
      BY <1>1, <2>1, <2>5, <2>2, <2>3, <2>4 DEF TypeOK, Iterate
<1>2. CASE Detect \/ Leave
    BY <1>2 DEF Detect, Leave, counters, history, TypeOK
<1>3. CASE Reset
  <2>1. runs + 1 \in 1 .. MaxRuns
      BY <1>3 DEF Reset, TypeOK
  <2> QED
      BY <1>3, <2>1 DEF Reset, TypeOK
<1>4. CASE UNCHANGED vars
    BY <1>4 DEF vars, counters, history, TypeOK
<1> QED
    BY <1>1, <1>2, <1>3, <1>4 DEF Next

\* The counters are natural numbers and the pcs are pcs in every behaviour.
THEOREM TypeCorrect == Spec => []TypeOK
  BY InitTypeOK, NextTypeOK, PTL DEF Spec

(***************************************************************************)
(* Counters                                                                *)
(***************************************************************************)
\* The guard of the loop leaves room for the commits of one more cycle.
LEMMA StepRetires ==
  ASSUME TypeOK, Iterate
  PROVE  retired' \in (retired + 1) .. (NUM_RETIRED + ports) \/ retired' = retired
<1> PICK p0, p1 \in PCs \union {NoPC} : CommitPair(p0, p1) /\ Step(p0, p1)
    BY DEF Iterate
<1>1. retired <= NUM_RETIRED /\ ports \in {1, 2}
    BY DEF Iterate, LoopGuard, TypeOK
<1>2. CASE IsStuck(p0)
    BY <1>1, <1>2 DEF Step, TypeOK
<1>3. CASE ~IsStuck(p0)
    BY <1>1, <1>3 DEF Step, TypeOK, Commits, CommitPair
<1> QED
    BY <1>2, <1>3

\* The loop overruns the architectural run by at most the commit width.
THEOREM RetiredBounded == Spec => []RetiredBound
<1>1. Init => RetiredBound
    BY DEF Init, RetiredBound
<1>2. TypeOK /\ RetiredBound /\ [Next]_vars => RetiredBound'
  <2> SUFFICES ASSUME TypeOK, RetiredBound, [Next]_vars PROVE RetiredBound'
      OBVIOUS
  <2>1. CASE Iterate
      BY <2>1, StepRetires DEF Iterate, RetiredBound, TypeOK
  <2>2. CASE Detect \/ Leave
      BY <2>2 DEF Detect, Leave, counters, RetiredBound
  <2>3. CASE Reset
      BY <2>3 DEF Reset, RetiredBound, TypeOK
  <2>4. CASE UNCHANGED vars
      BY <2>4 DEF vars, counters, RetiredBound
  <2> QED
      BY <2>1, <2>2, <2>3, <2>4 DEF Next
<1> QED
    BY <1>1, <1>2, TypeCorrect, PTL DEF Spec

\* The part of the bound on ticks that is inductive: as long as the loop may
\* go on, each retired instruction has moved the deadline by at most
\* MAX_INSTR_TICKS - 1 cycles.
DeadlineInv ==
  /\ last_retired <= ticks
  /\ ticks <= last_retired + MAX_INSTR_TICKS
  /\ ticks <= NUM_RETIRED * (MAX_INSTR_TICKS - 1) + MAX_INSTR_TICKS
  /\ retired <= NUM_RETIRED => last_retired <= retired * (MAX_INSTR_TICKS - 1)

\* Multiplication by a natural number is monotone.
LEMMA TimesMonotone ==
  ASSUME NEW m \in Nat, NEW n \in Nat, NEW k \in Nat, m <= n
  PROVE  m * k <= n * k
<1>1. n = m + (n - m) /\ n - m \in Nat
    OBVIOUS
<1>2. n * k = m * k + (n - m) * k
    BY <1>1
<1>3. (n - m) * k \in Nat /\ m * k \in Nat
    BY <1>1
<1> QED
    BY <1>2, <1>3

\* A product of natural numbers is one.
LEMMA TimesNat ==
  ASSUME NEW m \in Nat, NEW n \in Nat
  PROVE  m * n \in Nat
  OBVIOUS

\* One iteration moves the deadline only together with a retired instruction.
LEMMA DeadlineStep == TypeOK /\ DeadlineInv /\ Iterate => DeadlineInv'
<1> SUFFICES ASSUME TypeOK, DeadlineInv, Iterate PROVE DeadlineInv'
    OBVIOUS
<1> DEFINE k == MAX_INSTR_TICKS - 1
<1>0. /\ k \in Nat /\ MAX_INSTR_TICKS = k + 1
      /\ ticks \in Nat /\ retired \in Nat /\ last_retired \in Nat
    BY DEF TypeOK
<1>1. /\ retired <= NUM_RETIRED
      /\ ticks <= last_retired + k
      /\ last_retired <= retired * k
      /\ last_retired <= ticks
    BY <1>0 DEF Iterate, LoopGuard, TypeOK, DeadlineInv
<1> PICK p0, p1 \in PCs \union {NoPC} : Step(p0, p1)
    BY DEF Iterate
<1>2. retired' \in Nat
    BY DEF Step, Commits, TypeOK
<1>3. \/ ticks' = ticks + 1 /\ last_retired' = last_retired /\ retired' = retired
      \/ ticks' = ticks + 1 /\ last_retired' = ticks /\ retired' >= retired + 1
      \/ ticks' = ticks /\ last_retired' = ticks /\ retired' = NUM_RETIRED + 1
    BY <1>0 DEF Step, Commits
<1> HIDE DEF k
<1>4. last_retired' <= ticks' /\ ticks' <= last_retired' + k + 1
    BY <1>0, <1>1, <1>3
<1>5. retired * k <= NUM_RETIRED * k
    BY <1>0, <1>1, TimesMonotone
<1>6. retired * k \in Nat /\ NUM_RETIRED * k \in Nat /\ retired' * k \in Nat
    BY <1>0, <1>2, TimesNat
<1>7. ticks' <= NUM_RETIRED * k + k + 1
    BY <1>0, <1>1, <1>3, <1>5, <1>6
<1>8. retired' <= NUM_RETIRED => last_retired' <= retired' * k
  <2>1. CASE retired' = retired /\ last_retired' = last_retired
      BY <2>1, <1>1
  <2>2. CASE retired' >= retired + 1 /\ last_retired' = ticks
    <3>1. (retired + 1) * k <= retired' * k
      <4>1. retired + 1 \in Nat /\ retired + 1 <= retired'
          BY <2>2, <1>0
      <4> QED
          BY <4>1, <1>0, <1>2, TimesMonotone
    <3>2. (retired + 1) * k = retired * k + k
        BY <1>0
    <3> QED
        BY <3>1, <3>2, <2>2, <1>0, <1>1, <1>6
  <2>3. CASE retired' = NUM_RETIRED + 1
      BY <2>3
  <2> QED
      BY <2>1, <2>2, <2>3, <1>3
<1> QED
    BY <1>0, <1>4, <1>6, <1>7, <1>8, <1>2, <1>3 DEF DeadlineInv, k

\* Every run of the cycle loop is over after NUM_RETIRED deadlines and one.
THEOREM TicksBounded == Spec => []TicksBound
<1>1. Init => DeadlineInv
  <2>1. NUM_RETIRED * (MAX_INSTR_TICKS - 1) \in Nat
      OBVIOUS
  <2> QED
      BY <2>1 DEF Init, DeadlineInv
<1>2. TypeOK /\ DeadlineInv /\ [Next]_vars => DeadlineInv'
  <2> SUFFICES ASSUME TypeOK, DeadlineInv, [Next]_vars PROVE DeadlineInv'
      OBVIOUS
  <2>1. CASE Iterate
      BY <2>1, DeadlineStep
  <2>2. CASE Detect \/ Leave
      BY <2>2 DEF Detect, Leave, counters, DeadlineInv
  <2>3. CASE Reset
    <3>1. NUM_RETIRED * (MAX_INSTR_TICKS - 1) \in Nat
        OBVIOUS
    <3> QED
        BY <2>3, <3>1 DEF Reset, DeadlineInv
  <2>4. CASE UNCHANGED vars
      BY <2>4 DEF vars, counters, DeadlineInv
  <2> QED
      BY <2>1, <2>2, <2>3, <2>4 DEF Next
<1>3. DeadlineInv => TicksBound
    BY DEF DeadlineInv, TicksBound
<1> QED
    BY <1>1, <1>2, <1>3, TypeCorrect, PTL DEF Spec

(***************************************************************************)
(* The stuck detector                                                      *)
(***************************************************************************)
\* With one port the source's counter is one behind the length of the run of
\* equal pcs, once the first instruction after reset retired; until then the
\* counter is stale, but its pc is not the boot pc.  A stuck loop cannot
\* iterate again.
SameInstInv ==
  ports = 1 =>
    /\ lastPC = NoPC => /\ sameRun = 0 /\ ~stuck
                        /\ last_retired_pc # BootPC
    /\ lastPC # NoPC => /\ lastPC = last_retired_pc
                        /\ sameRun = n_same_inst + 1
    /\ stuck => retired = NUM_RETIRED + 1
    /\ stuck <=> sameRun > SAME_INST

\* Simulator::step counts the repeats of a pc without losing one.
LEMMA SameInstStep == TypeOK /\ SameInstInv /\ Iterate => SameInstInv'
<1> SUFFICES ASSUME TypeOK, SameInstInv, Iterate, ports = 1 PROVE SameInstInv'
    BY DEF SameInstInv, Iterate
<1> PICK p0, p1 \in PCs \union {NoPC} :
        /\ CommitPair(p0, p1)
        /\ Step(p0, p1)
        /\ Remember(p0, IF IsStuck(p0) THEN NoPC ELSE p1)
    BY DEF Iterate
<1>1. ~stuck /\ sameRun <= SAME_INST
    BY DEF SameInstInv, Iterate, LoopGuard, TypeOK
<1>2. p1 = NoPC
    BY DEF CommitPair
<1>3. sameRun' = RunAfter(sameRun, lastPC, p0) /\ lastPC' = PCAfter(lastPC, p0)
    BY <1>2 DEF RunAfter, PCAfter, Remember
<1>4. CASE p0 = NoPC
    BY <1>1, <1>3, <1>4 DEF SameInstInv, Step, IsStuck, RunAfter, PCAfter, Iterate, TypeOK
<1>5. CASE p0 # NoPC
  <2>1. lastPC' = p0 /\ last_retired_pc' = p0 /\ n_same_inst' = SameAfter(p0)
      BY <1>3, <1>5 DEF PCAfter, Step
  <2>2. sameRun' = n_same_inst' + 1
    <3>1. CASE lastPC = NoPC
      <4>1. p0 = BootPC /\ last_retired_pc # BootPC /\ sameRun = 0
          BY <3>1, <1>5 DEF SameInstInv, CommitPair
      <4>2. sameRun' = 1
          BY <3>1, <4>1, <1>3, <1>5 DEF RunAfter
      <4>3. n_same_inst' = 0
          BY <2>1, <4>1 DEF SameAfter
      <4> QED
          BY <4>2, <4>3
    <3>2. CASE lastPC # NoPC
      <4>1. lastPC = last_retired_pc /\ sameRun = n_same_inst + 1
          BY <3>2 DEF SameInstInv
      <4>2. sameRun' = IF p0 = lastPC THEN sameRun + 1 ELSE 1
          BY <1>3, <1>5 DEF RunAfter
      <4>3. n_same_inst' = IF p0 = lastPC THEN n_same_inst + 1 ELSE 0
          BY <2>1, <4>1 DEF SameAfter
      <4> QED
          BY <4>1, <4>2, <4>3 DEF TypeOK
    <3> QED
        BY <3>1, <3>2
  <2>3. stuck' <=> n_same_inst' >= SAME_INST
      BY <2>1, <1>5 DEF Step, IsStuck
  <2>4. stuck' => retired' = NUM_RETIRED + 1
      BY DEF Step
  <2>5. n_same_inst' \in Nat
      BY <2>1 DEF SameAfter, TypeOK
  <2> QED
      BY <2>1, <2>2, <2>3, <2>4, <2>5, <1>5 DEF SameInstInv
<1> QED
    BY <1>4, <1>5

\* On a core with one commit port, step says stuck exactly when the last
\* SAME_INST + 1 instructions had one pc, also in a run that follows a reset.
THEOREM StuckIsExact == Spec => []StuckExact
<1>1. Init => SameInstInv
    BY DEF Init, SameInstInv
<1>2. TypeOK /\ SameInstInv /\ [Next]_vars => SameInstInv'
  <2> SUFFICES ASSUME TypeOK, SameInstInv, [Next]_vars PROVE SameInstInv'
      OBVIOUS
  <2>1. CASE Iterate
      BY <2>1, SameInstStep
  <2>2. CASE Detect \/ Leave
      BY <2>2 DEF Detect, Leave, counters, history, SameInstInv
  <2>3. CASE Reset
      BY <2>3 DEF Reset, SameInstInv
  <2>4. CASE UNCHANGED vars
      BY <2>4 DEF vars, counters, history, SameInstInv
  <2> QED
      BY <2>1, <2>2, <2>3, <2>4 DEF Next
<1>3. SameInstInv => StuckExact
    BY DEF SameInstInv, StuckExact
<1> QED
    BY <1>1, <1>2, <1>3, TypeCorrect, PTL DEF Spec
=============================================================================
