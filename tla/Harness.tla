------------------------------- MODULE Harness -------------------------------
(***************************************************************************)
(* The harness (main.cc): what happens to one test case.  It resets the    *)
(* core, loads init code and program, lets ArchSim run it, taints what the *)
(* program has no right to, simulates the core, and reports.  An MDS       *)
(* campaign runs a Meltdown a second time, with only the buffers tainted,  *)
(* in the same process and the same memories.                              *)
(*                                                                         *)
(* What the core does with the labels is Detector's business; here a       *)
(* cycle-accurate run ends in any way Detector allows.                     *)
(***************************************************************************)
EXTENDS ArchSim

CONSTANTS
  Configs,            \* what a campaign may be started with
  ForbiddenRegion     \* FORBIDDEN_REGION_START and _END

\* What the init files take before the program.
InitUnits(c) == c.init + (IF c.mds /\ c.mdsInit > 0 THEN c.mdsInit ELSE 0)

\* A configuration: sizes of the files, code regions in absolute units, cycles
\* per instruction, and the switches of the environment.  Everything fits into
\* the memory, and a list of code regions is about this program.
ASSUME ConfigsAssumption ==
  /\ ForbiddenRegion \in Nat \X Nat
  /\ \A c \in Configs :
       /\ {c.init, c.mdsInit, c.argInit, c.file, c.cpi} \subseteq Nat
       /\ {c.mds, c.jumps} \subseteq BOOLEAN
       /\ c.argInit <= c.file
       /\ c.init + c.mdsInit + c.file <= RamSize
       /\ c.regions \in Seq(Nat \X Nat)
       /\ \A r \in Range(c.regions) :
            /\ RamBase + InitUnits(c) + c.argInit <= r[1]
            /\ r[1] <= r[2] /\ r[2] <= RamBase + InitUnits(c) + c.file

VARIABLES
  cfg,            \* the configuration of this process
  pc,             \* where main is
  curTaintSrc,
  initSize, programSize, codeRegions,   \* Simulator's fields
  dram,           \* SimMem's content
  labels,         \* the tainted units of SimMem
  outcome,        \* what the process ends with
  \* History: the accesses of this run, its first offence and its way in; the
  \* layout of the first run; what the first run was reported as.
  hist, first

simVars == <<initSize, programSize, codeRegions, dram, labels>>
vars == <<archVars, cfg, pc, curTaintSrc, simVars, outcome, hist, first>>

NoHist == [read |-> {}, written |-> {}, executed |-> {}, offence |-> 0]
NoFirst == [runs |-> 0, layout |-> <<>>, reason |-> "none"]

Init ==
  /\ ArchInit
  /\ cfg \in Configs
  /\ pc = "warmup" /\ curTaintSrc = "ALL"
  /\ initSize = 0 /\ programSize = 0 /\ codeRegions = cfg.regions
  /\ dram = [u \in Ram |-> Zero]
  /\ labels = {}
  /\ outcome = "none"
  /\ hist = NoHist /\ first = NoFirst

(***************************************************************************)
(* Loading.                                                                *)
(***************************************************************************)
\* Unit k of a file.  The first argInit units of the program are init code.
Content(file, k) ==
  IF file = "program" /\ k < cfg.argInit THEN <<"own", k>> ELSE <<file, k>>

\* loadBytes: the memory after len units of a file, from unit k on, were copied
\* to start.
loadBytes(mem, file, k, start, len) ==
  [u \in Ram |-> IF u \in Units(start, len) THEN Content(file, k + u - start) ELSE mem[u]]

\* doWarmup, tainting all memory, init code, MDS init and the page it guards.
\* A file of length 0 stands for a path that is not set.
Warmup ==
  LET base == IF cfg.init > 0 THEN cfg.init ELSE initSize
      useMds == cfg.mds /\ cfg.mdsInit > 0
      mem == loadBytes(dram, "init", 0, RamBase, cfg.init)
  IN /\ pc = "warmup" /\ pc' = "load"
     /\ labels' = Ram
     /\ \/ /\ useMds
           /\ dram' = loadBytes(mem, "mds", 0, RamBase + base, cfg.mdsInit)
           /\ initSize' = base + cfg.mdsInit
           /\ setForbiddenRegion(ForbiddenRegion)
        \/ /\ ~useMds
           /\ dram' = mem
           /\ initSize' = base
           /\ UNCHANGED archVars
     /\ UNCHANGED <<cfg, curTaintSrc, programSize, codeRegions, outcome, hist, first>>

\* The loader's progress: what it has copied, up to where, and how much code.
Copy(acc, until) ==
  [acc EXCEPT !.dram = loadBytes(@, "program", cfg.argInit + acc.start - acc.bufAt,
                                 acc.start, until - acc.start),
              !.start = until]

addData(acc, until) ==
  LET next == Copy(acc, until)
  IN [next EXCEPT !.labels = @ \cup acc.start..(until - 1)]

addCode(acc, until) ==
  LET next == Copy(acc, until)
  IN [next EXCEPT !.codeSize = @ + until - acc.start]

\* Mutant: the data between two regions is skipped.
LoadRegion_noGap(acc, r) ==
  IF r[1] < acc.initSize THEN acc
  ELSE addCode([acc EXCEPT !.start = r[1]], r[2])

\* One round of loadProgramSections: the data before the region, then its
\* code.  The test for init code compares an address with a size.
LoadRegion(acc, r) ==
  IF r[1] < acc.initSize THEN acc
  ELSE addCode(IF r[1] > acc.start THEN addData(acc, r[1])
               ELSE [acc EXCEPT !.start = r[1]],
               r[2])

\* The loop over the regions.
LoadRegions(acc, regions) ==
  LET after[n \in 0..Len(regions)] ==
        IF n = 0 THEN acc ELSE LoadRegion(after[n - 1], regions[n])
  IN after[Len(regions)]

loadProgramSections(mem, lbls, init, size, regions) ==
  addData(LoadRegions([dram |-> mem, labels |-> lbls, initSize |-> init,
                       bufAt |-> RamBase + init, start |-> RamBase + init, codeSize |-> 0],
                      regions),
          RamBase + size)

\* The program is loaded: its own init code, its sections, and the copy the
\* architectural simulator runs.
Load ==
  LET size == initSize + cfg.file
      init == initSize + cfg.argInit
      regions == IF codeRegions = <<>> THEN <<<<RamBase + init, RamBase + size>>>>
                 ELSE codeRegions
      own == loadBytes(dram, "program", 0, RamBase + initSize, cfg.argInit)
      done == loadProgramSections(own, labels, init, size, regions)
  IN /\ pc = "load" /\ pc' = "arch"
     /\ programSize' = size /\ initSize' = init /\ codeRegions' = regions
     /\ dram' = done.dram /\ labels' = done.labels
     /\ loadProgram(done.dram, size, regions, init, done.codeSize * cfg.cpi)
     /\ hist' = NoHist
     /\ first' = IF first.runs = 0
                   THEN [first EXCEPT !.layout = <<init, size, regions>>] ELSE first
     /\ UNCHANGED <<cfg, curTaintSrc, outcome>>

(***************************************************************************)
(* The architectural run.                                                  *)
(***************************************************************************)
InRegions(us) == \E r \in Range(codeRegions) : \E u \in us : u >= r[1] /\ u < r[2]
ByProgram == proc.pc >= RamBase + initSize
Guarded == IF cfg.mds /\ cfg.mdsInit > 0
             THEN Units(ForbiddenRegion[1], ForbiddenRegion[2] - ForbiddenRegion[1])
             ELSE {}
Trusted == UNION {Units(d[1], d[2]) : d \in AllowedDevices}

\* The hooks look at the first unit of an access only, the check of a device
\* does not look at a device that begins inside of the access: they see
\* everything if pages, devices and code begin where granules do.  The jump
\* hook is off before the first code region, so the program has to begin with
\* code.
StartsOnGranules ==
  /\ ForbiddenRegion[1] % Granule = 0
  /\ \A u \in OnBus \ Trusted : u % Granule # 0 => u - 1 \in OnBus
  /\ \A c \in Configs :
       /\ (InitUnits(c) + c.argInit) % Granule = 0
       /\ \A r \in Range(c.regions) : r[1] % Granule = 0
       /\ c.regions # <<>> => c.regions[1][1] = RamBase + (InitUnits(c) + c.argInit)

\* What the filters are there to keep out of the detector: accesses and jumps
\* that are carried out, and whatever reaches for a device, carried out or not.
Offends(i) ==
  \/ /\ IsData(i) /\ i.ok /\ ByProgram
     /\ \/ Touched(i) \cap Guarded # {}
        \/ i.op = "store" /\ InRegions(Touched(i))
  \/ (Touched(i) \cup {proc.pc}) \cap (OnBus \ Trusted) # {}
  \/ /\ IsJump(i) /\ i.ok /\ cfg.jumps /\ ByProgram
     /\ \/ ~InRegions({i.to}) \/ i.odd
        \/ i.to \in (proc.pc - 1)..(proc.pc + 1)

Record(i) ==
  LET touched == IF ToRam(i) THEN Touched(i) ELSE {}
  IN [read     |-> IF i.op = "load" THEN hist.read \cup (touched \ hist.written)
                   ELSE hist.read,
      written  |-> IF i.op = "store" THEN hist.written \cup touched ELSE hist.written,
      executed |-> hist.executed \cup ({proc.pc} \cap Ram),
      offence  |-> IF hist.offence = 0 /\ Offends(i) THEN tick + 1 ELSE hist.offence]

ArchStep ==
  /\ pc = "arch"
  /\ \E i \in InstrsAt(proc.pc) : step(i, cfg.jumps) /\ hist' = Record(i)
  /\ UNCHANGED <<cfg, pc, curTaintSrc, simVars, outcome, first>>

\* untaintArchAddresses: whole granules, of the addresses inside the memory.
GranuleOf(u) == Units(u - (u % Granule), Granule)
Granules(us) == UNION {GranuleOf(u) : u \in us \cap Ram}

\* Mutant: the program is tainted again after its addresses were untainted.
TaintFor_late(insts, addrs) ==
  IF curTaintSrc \notin {"ALL", "MEMORY"} THEN {}
  ELSE (labels \ (Granules(insts) \cup Granules(addrs))) \cup Units(RamBase, programSize)

\* The labels a run starts with.
TaintFor(insts, addrs) ==
  IF curTaintSrc \notin {"ALL", "MEMORY"} THEN {}
  ELSE (labels \cup Units(RamBase, programSize)) \ (Granules(insts) \cup Granules(addrs))

Discard ==
  /\ pc = "arch" /\ status \in {"ended", "discarded"}
  /\ Addrs = {}
  /\ pc' = "done" /\ outcome' = "discarded"
  /\ UNCHANGED <<archVars, cfg, curTaintSrc, simVars, hist, first>>

Results ==
  /\ pc = "arch" /\ status \in {"ended", "discarded"}
  /\ Addrs # {}
  /\ labels' = TaintFor(Insts, Addrs)
  /\ pc' = "cycle"
  /\ UNCHANGED <<archVars, cfg, curTaintSrc, initSize, programSize, codeRegions, dram,
                 outcome, hist, first>>

(***************************************************************************)
(* The cycle-accurate run and its report.                                  *)
(***************************************************************************)
\* What classify may say; with the buffers as source there is no Meltdown.
Reasons == IF curTaintSrc = "STORE_BUFFER" THEN {"other"} ELSE {"Meltdown", "other"}

getNextTaintSource(src) == IF src = "ALL" THEN "STORE_BUFFER" ELSE "UNKNOWN"

\* Mutant: the size of the init code survives the reset.
simReset_keepSize == UNCHANGED initSize /\ reset

\* Simulator::reset, as far as it is not about the counters.
simReset == initSize' = 0 /\ reset

RunsAgain(reason) ==
  cfg.mds /\ reason = "Meltdown" /\ getNextTaintSource(curTaintSrc) # "UNKNOWN"

\* Some of what the program stored has left the caches.
WriteBack(units) == [u \in Ram |-> IF u \in units THEN Stored ELSE dram[u]]

CycleQuiet ==
  /\ pc = "cycle" /\ pc' = "done"
  /\ outcome' \in {"clean", "exit"}
  /\ UNCHANGED <<archVars, cfg, curTaintSrc, simVars, hist, first>>

\* crash.abort ends the process.
CycleReport(reason) ==
  /\ pc = "cycle" /\ pc' = "done"
  /\ ~RunsAgain(reason)
  /\ outcome' = "crash"
  /\ UNCHANGED <<archVars, cfg, curTaintSrc, simVars, hist, first>>

CycleAgain(reason) ==
  /\ pc = "cycle" /\ pc' = "warmup"
  /\ RunsAgain(reason)
  /\ curTaintSrc' = getNextTaintSource(curTaintSrc)
  /\ \E units \in SUBSET hist.written : dram' = WriteBack(units)
  /\ simReset
  /\ first' = [first EXCEPT !.runs = 1, !.reason = reason]
  /\ UNCHANGED <<cfg, programSize, codeRegions, labels, outcome, hist>>

\* The process is gone; nothing else may be without a next step.
Exited == pc = "done" /\ UNCHANGED vars

Next ==
  \/ Warmup \/ Load \/ ArchStep \/ Discard \/ Results
  \/ CycleQuiet
  \/ \E reason \in Reasons : CycleReport(reason) \/ CycleAgain(reason)
  \/ Exited

Spec == Init /\ [][Next]_vars

(***************************************************************************)
(* Properties.                                                             *)
(***************************************************************************)
\* Every variable has its type.  illegal_device and labels may be anything the
\* code leaves there.
TypeOK ==
  /\ pc \in {"warmup", "load", "arch", "cycle", "done"}
  /\ curTaintSrc \in {"ALL", "STORE_BUFFER"}
  /\ {initSize, programSize} \subseteq 0..RamSize
  /\ labels \subseteq Ram
  /\ DOMAIN dram = Ram /\ DOMAIN ram = Ram
  /\ tick \in 0..max_cycles /\ max_cycles \in Nat
  /\ status \in {"idle", "running", "ended", "discarded"}
  /\ outcome \in {"none", "discarded", "clean", "exit", "crash"}
  /\ memRecorder.loads \cup memRecorder.stores \subseteq Ram
  /\ proc.pc \in {0} \cup OnBus \cup JumpTargets \cup RamBase..(RamBase + RamSize)

\* When the core starts, exactly the memory is tainted that the program
\* neither read before writing it nor executed, up to granules of 8 bytes; in
\* the second run of an MDS campaign no memory is.  This ties ArchSim's
\* recorders, which reset unregisters, to main.cc:225-236.
TaintIsExact ==
  pc = "cycle" =>
    labels = IF first.runs = 0 THEN Ram \ Granules(hist.read \cup hist.executed) ELSE {}

\* A program that does what the filters are there to exclude does not reach the
\* core, in the first run or in the second, unless it does so in the very step
\* that ends the architectural run (ArchSim.h:193-202 exits before it filters).
\* A jump out of the code to where nothing answers is no offence: it traps in
\* jump_hook (processor.patch:224) and the handler ends the run.
FilteredIsDiscarded ==
  pc = "cycle" /\ hist.offence # 0 =>
    /\ hist.offence = tick
    /\ proc.illegal_inst \/ proc.unhandled_trap \/ proc.wfi \/ fetchRecorder.stuck

\* main takes an empty list of addresses to mean that the program was discarded
\* (main.cc:216).  A program that reads nothing is never taken for one:
\* the run was empty, a filter had cause, or the program touched the end of
\* an allowed device, which is_allowed_device excludes.
DiscardedHasCause ==
  outcome = "discarded" =>
    \/ max_cycles = 0
    \/ hist.offence = tick
    \/ \E d \in AllowedDevices : d[1] + d[2] - 1 \in mmio

\* Once loaded, both simulators hold the program's image, whatever the first
\* run stored over it: init code, MDS init and file follow each other.
ImageLoaded ==
  pc \in {"arch", "cycle"} =>
    LET mdsLen == IF cfg.mds THEN cfg.mdsInit ELSE 0
    IN \A n \in 0..(programSize - 1) :
         /\ dram[RamBase + n] =
              IF n < cfg.init THEN <<"init", n>>
              ELSE IF n < cfg.init + mdsLen THEN <<"mds", n - cfg.init>>
              ELSE Content("program", n - cfg.init - mdsLen)
         /\ ram[RamBase + n] \in {dram[RamBase + n], Stored}

\* The second run has the layout of the first: code regions are computed once
\* and kept, sizes are computed again (main.cc:120, Simulator.h:109).
RerunSameProgram ==
  pc \in {"arch", "cycle"} /\ first.runs = 1 =>
    first.layout = <<initSize, programSize, codeRegions>>

=============================================================================
