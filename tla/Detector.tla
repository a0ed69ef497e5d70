------------------------------ MODULE Detector ------------------------------
(***************************************************************************)
(* The detection loop of the harness: main.cc's cycle loop, the CrashInfo  *)
(* it fills in (Classification.h) and the decoding of a flush (Flushes.h). *)
(*                                                                         *)
(* Every iteration clocks the core once, looks for taint in the register   *)
(* files or follows the instruction that was blamed for it, and looks at   *)
(* the flush wires.  The counters that bound the loop are Stepper's: here  *)
(* the loop may end before any iteration.                                  *)
(***************************************************************************)
EXTENDS Core

CONSTANT Sources   \* the taint sources a run may be started with

VARIABLES
  pc,                \* where main is: loop, sinks, flush, report or done
  crash,             \* the CrashInfo
  busyInstructions,  \* the busy mask taken before the last step
  retired_pcs,       \* sim.retired_pcs
  source,            \* curTaintSrc
  verdict,           \* what main does with the run
  writer,            \* history: identity of the instruction that wrote the taint
  fate               \* history: what became of that instruction

history == <<writer, fate>>
vars == <<coreVars, pc, crash, busyInstructions, retired_pcs, source, verdict, history>>

(***************************************************************************)
(* FlushInfo                                                               *)
(***************************************************************************)
isFlushing(g) == g.flush # "none" \/ g.mask # {}

CauseOf(p) == CASE Uop[p] = "illegal"  -> "ILLEGAL_INSTRUCTION"
                [] Uop[p] = "badfetch" -> "FETCH_ACCESS"
                [] OTHER               -> "LOAD_PAGE_FAULT"

\* The entry that readFrom calls inst: the head for a flush, the branch that
\* the core obeys for a misprediction, and no entry if the mask is raised while
\* no branch reports one.
FlushInst(r, g) ==
  IF g.flush # "none"              THEN r.entry[HeadSlot(r)]
  ELSE IF MispredSlot(g) # NoSlot  THEN r.entry[MispredSlot(g)]
  ELSE ZeroEntry

FlushType(g) ==
  CASE g.flush = "exception" -> "EXCEPTION"
    [] g.flush = "commit"    -> "FLUSH"
    [] g.flush = "ordering"  -> "MEM_ORDERING"
    [] g.flush = "unknown"   -> "UNKNOWN_FLUSH"
    [] g.flush = "none"      -> "MISPREDICTION"

\* An unknown flush leaves cause as it was; nothing looks at it then.
readFrom(r, g) ==
  LET inst == FlushInst(r, g)
  IN [type  |-> FlushType(g),
      cause |-> CASE g.flush = "exception" -> CauseOf(inst.pc)
                  [] g.flush = "ordering"  -> "MINI_EXCEPTION_MEM_ORDERING"
                  [] g.flush \in {"commit", "unknown"} -> "CAUSE_UNKNOWN"
                  [] g.flush = "none"      -> "CAUSE_MISPREDICTION",
      pc    |-> inst.pc,
      mispredMask |-> IF g.flush = "none" THEN g.mask ELSE {},
      taken |-> g.flush = "none" /\ MispredSlot(g) # NoSlot /\ g.taken]

NoFlush == [type |-> "NONE", cause |-> "CAUSE_UNKNOWN", pc |-> NoPC,
            mispredMask |-> {}, taken |-> FALSE]

(***************************************************************************)
(* CrashInfo                                                               *)
(***************************************************************************)
EmptyCrash ==
  [taintFound |-> FALSE, taintInstr |-> NotFound, taintPc |-> NoPC,
   taintBrMask |-> {}, isTaintArchitectural |-> FALSE,
   flushFound |-> FALSE, flushInfo |-> NoFlush]

\* checkTaintSinks: the integer file first, then the lowest register.
FirstTaint(T) ==
  CHOOSE t \in T : \A u \in T :
    \/ t.sink = "int" /\ u.sink = "fp"
    \/ t.sink = u.sink /\ t.reg <= u.reg

\* Mutant of RecordTaint: the branch mask is left for updateTaintInstr to set.
RecordTaint_noMask(reg) ==
  LET slot == getTaintingInstruction(rob, busyInstructions, BusyMask(rob), reg)
  IN  crash' = [crash EXCEPT
        !.taintFound = TRUE, !.taintInstr = slot,
        !.taintPc = IF FoundTainting(rob, reg) THEN rob.entry[slot].pc ELSE NoPC]

\* Nothing found leaves the zero entry: slot [0][0], no pc, no branch mask.
RecordTaint(reg) ==
  LET slot  == getTaintingInstruction(rob, busyInstructions, BusyMask(rob), reg)
      found == FoundTainting(rob, reg)
  IN  crash' = [crash EXCEPT
        !.taintFound  = TRUE,
        !.taintInstr  = slot,
        !.taintPc     = IF found THEN rob.entry[slot].pc ELSE NoPC,
        !.taintBrMask = IF found THEN rob.entry[slot].brMask ELSE {}]

\* Mutant of AboutToRetire: an exception does not matter.
AboutToRetire_excepting(slot) ==
  isHead(rob, slot) /\ rob.entry[slot].valid /\ ~rob.entry[slot].busy

\* The tracked slot is at the head and about to retire without exception.
AboutToRetire(slot) ==
  /\ isHead(rob, slot)
  /\ rob.entry[slot].valid
  /\ ~rob.entry[slot].busy
  /\ rob.entry[slot].exception = "none"

\* Mutant of UpdateTaintInstr: the branch mask is not refreshed.
UpdateTaintInstr_stale ==
  crash' = [crash EXCEPT !.isTaintArchitectural = @ \/ AboutToRetire(crash.taintInstr)]

UpdateTaintInstr ==
  crash' = [crash EXCEPT
    !.taintBrMask = rob.entry[crash.taintInstr].brMask,
    !.isTaintArchitectural = @ \/ AboutToRetire(crash.taintInstr)]

\* Mutants of Irrelevant: FLUSH is kept; a memory-ordering flush is dropped;
\* every misprediction is kept.
Irrelevant_flushKept(info) ==
  info.type = "MISPREDICTION" /\ crash.taintBrMask \cap info.mispredMask = {}
Irrelevant_ordering(info) ==
  \/ info.type \in {"FLUSH", "MEM_ORDERING"}
  \/ info.type = "MISPREDICTION" /\ crash.taintBrMask \cap info.mispredMask = {}
Irrelevant_anyBranch(info) == info.type = "FLUSH"

\* recordFlush returns false for these.
Irrelevant(info) ==
  \/ info.type = "FLUSH"
  \/ info.type = "MISPREDICTION" /\ crash.taintBrMask \cap info.mispredMask = {}

RecordFlush(info) ==
  LET nested == /\ info.type = "MISPREDICTION"
                /\ rob.entry[crash.taintInstr].exception # "none"
  IN  crash' = [crash EXCEPT
        !.flushFound = TRUE,
        !.flushInfo  = IF nested
                       THEN [info EXCEPT !.cause = "CAUSE_MISPREDICTION_WITH_EXCEPTION"]
                       ELSE info]

(***************************************************************************)
(* classify: the class of the reason.  The text of an exception cause is   *)
(* the cause itself.                                                       *)
(***************************************************************************)
UopOf(p) == IF p = NoPC THEN "none" ELSE Uop[p]

SameInst == crash.flushInfo.pc = crash.taintPc

ClassifyMispred ==
  CASE UopOf(crash.flushInfo.pc) = "branch" ->
         IF crash.flushInfo.taken              THEN "Spectre_v1_static"
         ELSE IF crash.taintPc \in retired_pcs THEN "Spectre_v1_training"
         ELSE "Spectre_v1_new"
    [] UopOf(crash.flushInfo.pc) = "ret"  -> "Spectre_RSB"
    [] UopOf(crash.flushInfo.pc) = "jump" -> "Spectre_v2"
    [] OTHER -> "Spectre_Unknown"

ClassifyFlush ==
  CASE crash.flushInfo.type = "MISPREDICTION" -> ClassifyMispred
    [] crash.flushInfo.type = "MEM_ORDERING"  -> "Spectre_v4"
    [] crash.flushInfo.type = "EXCEPTION"     -> IF SameInst THEN "Meltdown" ELSE "OOO"
    [] crash.flushInfo.type = "FLUSH"         -> "ArchFlush"
    [] OTHER                                  -> "Flush_Unknown"

Classify ==
  IF ~crash.taintFound                     THEN "No_taint"
  ELSE IF ~crash.flushFound                THEN "No_flush"
  ELSE IF source \notin {"ALL", "MEMORY"} THEN "MDS"
  ELSE ClassifyFlush

(***************************************************************************)
(* The loop                                                                *)
(***************************************************************************)
\* What the next edge does to the instruction that wrote the taint.
FateAfterEdge ==
  LET at == {s \in Valid(rob) : rob.entry[s].id = writer}
  IN  IF fate # "inflight"                  THEN fate
      ELSE IF at \subseteq Committing(rob, sig) THEN "retired"
      ELSE IF at \subseteq Squashed(rob, sig)   THEN "squashed"
      ELSE "inflight"

\* sim.step(): commits are seen, and their pc noted, in the cycle before the
\* edge that carries them out.
Step ==
  /\ pc = "loop"
  /\ busyInstructions' = BusyMask(rob)
  /\ ClockEdge(~crash.taintFound)
  /\ retired_pcs' = retired_pcs \union {rob'.entry[s].pc : s \in Committing(rob', sig')}
  /\ fate' = FateAfterEdge
  /\ pc' = "sinks"
  /\ UNCHANGED <<crash, source, verdict, writer>>

\* retired or ticks reached its bound.
LoopEnd ==
  /\ pc = "loop"
  /\ pc' = "report"
  /\ UNCHANGED <<coreVars, crash, busyInstructions, retired_pcs, source, verdict, history>>

CheckSinks ==
  /\ pc = "sinks" /\ ~crash.taintFound
  /\ IF tainted = {}
     THEN UNCHANGED <<crash, history>>
     ELSE /\ RecordTaint(FirstTaint(tainted).reg)
          /\ writer' = FirstTaint(tainted).id
          /\ fate' = IF writer' = 0 THEN "stray" ELSE "inflight"
  /\ pc' = "flush"
  /\ UNCHANGED <<coreVars, busyInstructions, retired_pcs, source, verdict>>

TrackTaint ==
  /\ pc = "sinks" /\ crash.taintFound
  /\ UpdateTaintInstr
  /\ pc' = IF crash'.isTaintArchitectural THEN "report" ELSE "flush"
  /\ UNCHANGED <<coreVars, busyInstructions, retired_pcs, source, verdict, history>>

NoFlushNow ==
  /\ pc = "flush" /\ ~isFlushing(sig)
  /\ pc' = "loop"
  /\ UNCHANGED <<coreVars, crash, busyInstructions, retired_pcs, source, verdict, history>>

FlushAfterTaint ==
  LET info == readFrom(rob, sig)
  IN /\ pc = "flush" /\ isFlushing(sig) /\ crash.taintFound
     /\ IF Irrelevant(info)
        THEN pc' = "loop" /\ UNCHANGED crash
        ELSE pc' = "report" /\ RecordFlush(info)
     /\ UNCHANGED <<coreVars, busyInstructions, retired_pcs, source, verdict, history>>

\* Before any taint only an illegal instruction or a failed fetch matters:
\* main returns at once.
FlushBeforeTaint ==
  LET info == readFrom(rob, sig)
      ends == /\ info.type = "EXCEPTION"
              /\ info.cause \in {"ILLEGAL_INSTRUCTION", "FETCH_ACCESS"}
  IN /\ pc = "flush" /\ isFlushing(sig) /\ ~crash.taintFound
     /\ pc' = IF ends THEN "done" ELSE "loop"
     /\ verdict' = IF ends THEN "exit" ELSE verdict
     /\ UNCHANGED <<coreVars, crash, busyInstructions, retired_pcs, source, history>>

Report ==
  /\ pc = "report"
  /\ pc' = "done"
  /\ verdict' = IF crash.taintFound THEN Classify ELSE "clean"
  /\ UNCHANGED <<coreVars, crash, busyInstructions, retired_pcs, source, history>>

Init ==
  /\ CoreInit
  /\ pc = "loop"
  /\ crash = EmptyCrash
  /\ busyInstructions = {}
  /\ retired_pcs = {}
  /\ source \in Sources
  /\ verdict = "none"
  /\ writer = 0
  /\ fate = "none"

Next ==
  \/ Step \/ LoopEnd
  \/ CheckSinks \/ TrackTaint
  \/ NoFlushNow \/ FlushAfterTaint \/ FlushBeforeTaint
  \/ Report

Spec == Init /\ [][Next]_vars
-----------------------------------------------------------------------------
Verdicts == {"none", "clean", "exit", "No_flush", "MDS", "Spectre_v1_static",
  "Spectre_v1_training", "Spectre_v1_new", "Spectre_RSB", "Spectre_v2",
  "Spectre_v4", "Meltdown", "OOO", "Flush_Unknown"}

FlushInfos ==
  [type : {"NONE", "EXCEPTION", "FLUSH", "MEM_ORDERING", "UNKNOWN_FLUSH",
           "MISPREDICTION"},
   cause : {"CAUSE_UNKNOWN", "ILLEGAL_INSTRUCTION", "FETCH_ACCESS",
            "LOAD_PAGE_FAULT", "MINI_EXCEPTION_MEM_ORDERING", "CAUSE_MISPREDICTION",
            "CAUSE_MISPREDICTION_WITH_EXCEPTION"},
   pc : PCs \union {NoPC}, mispredMask : SUBSET BrTags, taken : BOOLEAN]

Crashes ==
  [taintFound : BOOLEAN, taintInstr : Slots, taintPc : PCs \union {NoPC},
   taintBrMask : SUBSET BrTags, isTaintArchitectural : BOOLEAN,
   flushFound : BOOLEAN, flushInfo : FlushInfos]

\* Type invariant.  The verdict never is No_taint, Spectre_Unknown or
\* ArchFlush: classify runs after a taint, mispredictions come from control
\* transfers, and recordFlush drops FLUSH.  It is Flush_Unknown only for a
\* flush that is neither an exception nor memory ordering.
TypeOK ==
  /\ CoreTypeOK
  /\ pc \in {"loop", "sinks", "flush", "report", "done"}
  /\ crash \in Crashes
  /\ busyInstructions \subseteq Slots
  /\ retired_pcs \subseteq PCs
  /\ source \in Sources
  /\ writer \in 0 .. MaxInsts
  /\ fate \in {"none", "stray", "inflight", "retired", "squashed"}
  /\ verdict \in Verdicts
  /\ verdict = "Flush_Unknown" => crash.flushInfo.type = "UNKNOWN_FLUSH"

TaintSlots == {s \in Valid(rob) : writer # 0 /\ rob.entry[s].id = writer}

\* While the instruction that wrote the taint is in the buffer, it is the one
\* that is tracked: getTaintingInstruction blamed the right slot, even where
\* the walk meets the head row twice or two entries name the register.
BlamesTheWriter == fate = "inflight" => TaintSlots = {crash.taintInstr}

\* The loop never steps over the squash of the tainting instruction: every
\* flush that kills it is recorded and ends the loop, so a transient taint
\* cannot be lost.
NoMissedSquash == fate # "squashed"

\* A recorded flush kills the tainting instruction, as long as it has not
\* retired: a misprediction on another path is not taken for its cause.
RecordedFlushKillsTaint ==
  crash.flushFound /\ fate = "inflight" => TaintSlots \subseteq Squashed(rob, sig)

\* A taint called architectural belongs to an instruction that retires.
ArchitecturalTaintRetires ==
  crash.isTaintArchitectural =>
    \/ fate \in {"retired", "stray"}
    \/ fate = "inflight" /\ TaintSlots \subseteq Committing(rob, sig)

\* "If the tainting instruction is retiring without an exception, the taint
\* is architectural" (main.cc:273): when the run is over, a tainting
\* instruction that retired was found to.
RetiredTaintIsArchitectural ==
  pc = "done" /\ fate = "retired" => crash.isTaintArchitectural
=============================================================================
