---------------------------- MODULE HarnessProofs ----------------------------
(***************************************************************************)
(* Three facts about the harness, for every program, layout and memory:    *)
(* the second run of an MDS campaign has the layout of the first, an empty *)
(* list of addresses means what main takes it to mean, and both memories   *)
(* hold the image of the program whenever it runs.                         *)
(*                                                                         *)
(* The layout a configuration leads to can be written down without the     *)
(* loader: sizes add up, and the default code region is computed only      *)
(* while there is none.  What the loader copies where is then proved from  *)
(* its loop, by induction over the regions.                                *)
(***************************************************************************)
EXTENDS Harness, WellFoundedInduction, TLAPS

\* Size of what Warmup loads, and the layout Load computes from it.
WarmSize == InitUnits(cfg)

Regions ==
  IF cfg.regions = <<>>
    THEN <<<<RamBase + (WarmSize + cfg.argInit), RamBase + (WarmSize + cfg.file)>>>>
    ELSE cfg.regions

Layout == <<WarmSize + cfg.argInit, WarmSize + cfg.file, Regions>>

\* Where the sizes and regions stand at each point of main.
LayoutInv ==
  /\ cfg \in Configs
  /\ pc = "warmup" => initSize = 0
  /\ pc = "load" => initSize = WarmSize
  /\ pc \in {"warmup", "load"} /\ first.runs = 0 => codeRegions = cfg.regions
  /\ pc \in {"warmup", "load"} /\ first.runs # 0 => codeRegions = Regions
  /\ pc \in {"arch", "cycle"} => <<initSize, programSize, codeRegions>> = Layout
  /\ pc \in {"arch", "cycle"} \/ first.runs # 0 => first.layout = Layout
  /\ first.runs \in {0, 1} /\ DOMAIN first = {"runs", "layout", "reason"}

\* The first step of every architectural run fetches the boot code, and leaves
\* an address behind.
BootInv ==
  /\ pc \in {"warmup", "load"} => proc.pc = Rom
  /\ DOMAIN proc = DOMAIN NewProc
  /\ tick \in Nat
  /\ pc = "arch" => (tick = 0 /\ proc.pc = Rom) \/ mmio # {}
  /\ pc = "arch" /\ tick = 0 /\ status # "running" => ~(max_cycles > 0)
  /\ outcome = "discarded" => status = "discarded" \/ ~(max_cycles > 0)
  /\ pc # "done" => outcome = "none"

IInv == LayoutInv /\ BootInv

\* No program is dropped for reading nothing: an empty list of addresses comes
\* from the filters, or from a run of no cycles (main.cc:215-220).
EmptyMeansDiscarded ==
  outcome = "discarded" => status = "discarded" \/ ~(max_cycles > 0)

\* Sizes of a configuration are numbers.
LEMMA ConfigSizes ==
  ASSUME cfg \in Configs
  PROVE  /\ cfg.init \in Nat /\ cfg.mdsInit \in Nat /\ cfg.argInit \in Nat
         /\ cfg.file \in Nat /\ WarmSize \in Nat
<1>1. cfg.init \in Nat /\ cfg.mdsInit \in Nat /\ cfg.argInit \in Nat /\ cfg.file \in Nat
  BY ConfigsAssumption
<1> QED BY <1>1 DEF WarmSize, InitUnits

\* There is always a region once the loader has computed them.
LEMMA RegionsExist == Regions # <<>>
<1>1. CASE cfg.regions = <<>>
  BY <1>1 DEF Regions
<1>2. CASE cfg.regions # <<>>
  BY <1>2 DEF Regions
<1> QED BY <1>1, <1>2

\* Both invariants hold when the process starts.
LEMMA InitInv == Init => IInv
<1> SUFFICES ASSUME Init PROVE IInv
  OBVIOUS
<1>1. LayoutInv
  BY DEF Init, LayoutInv, NoFirst
<1>2. BootInv
  BY DEF Init, ArchInit, BootInv, initProc, NewProc
<1> QED BY <1>1, <1>2 DEF IInv

\* The core is reset and init code is loaded.
LEMMA WarmupInv ==
  ASSUME IInv, Warmup PROVE IInv'
<1>1. /\ pc = "warmup" /\ pc' = "load"
      /\ UNCHANGED <<cfg, programSize, codeRegions, outcome, first>>
      /\ initSize' = (IF cfg.init > 0 THEN cfg.init ELSE initSize)
                       + (IF cfg.mds /\ cfg.mdsInit > 0 THEN cfg.mdsInit ELSE 0)
  <2>1. initSize = 0 /\ cfg \in Configs /\ pc = "warmup"
    BY DEF IInv, LayoutInv, Warmup
  <2>2. (IF cfg.init > 0 THEN cfg.init ELSE initSize) \in Nat
    BY <2>1, ConfigSizes
  <2> QED BY <2>1, <2>2, ConfigSizes DEF Warmup
<1>2. initSize' = WarmSize /\ WarmSize' = WarmSize /\ Layout' = Layout /\ Regions' = Regions
  <2>1. cfg \in Configs /\ initSize = 0
    BY <1>1 DEF IInv, LayoutInv
  <2> QED BY <1>1, <2>1, ConfigSizes DEF WarmSize, InitUnits, Layout, Regions
<1>3. LayoutInv'
  BY <1>1, <1>2 DEF IInv, LayoutInv
<1>4. proc'.pc = proc.pc /\ DOMAIN proc' = DOMAIN proc /\ UNCHANGED <<tick, status, max_cycles>>
  <2>1. "pc" \in DOMAIN proc
    BY DEF IInv, BootInv, NewProc
  <2> QED BY <2>1 DEF Warmup, setForbiddenRegion, archVars
<1>5. BootInv'
  BY <1>1, <1>4 DEF IInv, BootInv, NewProc
<1> QED BY <1>3, <1>5 DEF IInv

\* The program is loaded; the default region is computed only the first time.
LEMMA LoadInv ==
  ASSUME IInv, Load PROVE IInv'
<1>1. /\ pc = "load" /\ pc' = "arch"
      /\ programSize' = initSize + cfg.file
      /\ initSize' = initSize + cfg.argInit
      /\ codeRegions' = IF codeRegions = <<>>
                          THEN <<<<RamBase + (initSize + cfg.argInit),
                                   RamBase + (initSize + cfg.file)>>>>
                          ELSE codeRegions
      /\ UNCHANGED <<cfg, outcome>>
      /\ first' = IF first.runs = 0
                    THEN [first EXCEPT !.layout = <<initSize', programSize', codeRegions'>>]
                    ELSE first
  BY DEF Load
<1>2. initSize = WarmSize /\ Layout' = Layout /\ Regions' = Regions
  BY <1>1 DEF IInv, LayoutInv, WarmSize, Layout, Regions
<1>3. codeRegions' = Regions
  <2>1. CASE first.runs = 0
    BY <1>1, <1>2, <2>1 DEF IInv, LayoutInv, Regions
  <2>2. CASE first.runs # 0
    BY <1>1, <2>2, RegionsExist DEF IInv, LayoutInv
  <2> QED BY <2>1, <2>2
<1>4. <<initSize', programSize', codeRegions'>> = Layout
  BY <1>1, <1>2, <1>3 DEF Layout
<1>5. first'.layout = Layout /\ first'.runs = first.runs /\ DOMAIN first' = DOMAIN first
  BY <1>1, <1>4 DEF IInv, LayoutInv
<1>6. LayoutInv'
  BY <1>1, <1>2, <1>4, <1>5 DEF IInv, LayoutInv
<1>7. /\ proc'.pc = proc.pc /\ DOMAIN proc' = DOMAIN proc /\ tick' = 0
      /\ status' # "running" => ~(max_cycles' > 0)
  BY DEF Load, loadProgram
<1>8. BootInv'
  BY <1>1, <1>7 DEF IInv, BootInv, NewProc
<1> QED BY <1>6, <1>8 DEF IInv

\* An instruction keeps the shape of the processor.
LEMMA ExecuteKeepsFields ==
  ASSUME NEW i, DOMAIN proc = DOMAIN NewProc
  PROVE  DOMAIN Execute(i) = DOMAIN NewProc
BY DEF Execute, take_trap, NewProc

\* ArchSim takes a step: the first fetch is from the boot code, outside RAM.
LEMMA ArchStepInv ==
  ASSUME IInv, ArchStep PROVE IInv'
<1>1. PICK i \in InstrsAt(proc.pc) : step(i, cfg.jumps)
  BY DEF ArchStep
<1>2. /\ pc = "arch"
      /\ UNCHANGED <<cfg, pc, curTaintSrc, initSize, programSize, codeRegions, outcome, first>>
  BY DEF ArchStep, simVars
<1>3. LayoutInv'
  BY <1>2 DEF IInv, LayoutInv, Layout, Regions, WarmSize
<1>4. /\ proc' = Execute(i) /\ mmio' = mmio \cup MmioUnits(i)
      /\ tick' = tick + 1 /\ tick \in Nat
  BY <1>1 DEF step, IInv, BootInv
<1>5. mmio' # {}
  <2>1. CASE mmio # {}
    BY <2>1, <1>4
  <2>2. CASE proc.pc = Rom
    <3>1. Rom \in MmioUnits(i)
      BY <2>2, ArchSimAssumption DEF MmioUnits, FetchesMmio, Ram
    <3> QED BY <3>1, <1>4
  <2> QED BY <2>1, <2>2, <1>2 DEF IInv, BootInv
<1>6. DOMAIN proc' = DOMAIN NewProc
  BY <1>4, ExecuteKeepsFields DEF IInv, BootInv
<1>7. tick' \in Nat /\ tick' # 0
  BY <1>4
<1>8. BootInv'
  BY <1>2, <1>5, <1>6, <1>7 DEF IInv, BootInv, NewProc
<1> QED BY <1>3, <1>8 DEF IInv

\* The program is discarded for want of addresses.
LEMMA DiscardInv ==
  ASSUME IInv, Discard PROVE IInv'
<1>1. /\ pc = "arch" /\ pc' = "done" /\ Addrs = {} /\ status # "running"
      /\ UNCHANGED <<proc, tick, mmio, status, max_cycles, cfg, initSize,
                     programSize, codeRegions, first>>
  BY DEF Discard, archVars, simVars
<1>2. LayoutInv'
  BY <1>1 DEF IInv, LayoutInv, Layout, Regions, WarmSize
<1>3. status = "discarded" \/ ~(max_cycles > 0)
  <2>1. Ticks = 0 \/ mmio = {}
    BY <1>1 DEF Addrs, getAccessedMem
  <2>2. CASE mmio = {}
    BY <1>1, <2>2 DEF IInv, BootInv
  <2>3. CASE Ticks = 0 /\ status # "discarded"
    BY <1>1, <2>3 DEF IInv, BootInv, Ticks
  <2> QED BY <2>1, <2>2, <2>3
<1>4. BootInv'
  BY <1>1, <1>3 DEF IInv, BootInv, NewProc
<1> QED BY <1>2, <1>4 DEF IInv

\* Labels are set and the core runs; or it has run and the process ends.
LEMMA EndInv ==
  ASSUME IInv, Results \/ CycleQuiet \/ \E reason \in Reasons : CycleReport(reason)
  PROVE  IInv'
<1>1. /\ \/ pc = "arch" /\ pc' = "cycle" /\ outcome' = outcome
         \/ pc = "cycle" /\ pc' = "done" /\ outcome' # "discarded"
      /\ UNCHANGED <<proc, tick, mmio, status, max_cycles, cfg, initSize,
                     programSize, codeRegions, first>>
  BY DEF Results, CycleQuiet, CycleReport, archVars, simVars
<1>2. LayoutInv'
  BY <1>1 DEF IInv, LayoutInv, Layout, Regions, WarmSize
<1>3. BootInv'
  BY <1>1 DEF IInv, BootInv, NewProc
<1> QED BY <1>2, <1>3 DEF IInv

\* A Meltdown is run again.
LEMMA AgainInv ==
  ASSUME IInv, NEW reason \in Reasons, CycleAgain(reason)
  PROVE  IInv'
<1>1. /\ pc = "cycle" /\ pc' = "warmup" /\ initSize' = 0
      /\ first' = [first EXCEPT !.runs = 1, !.reason = reason]
      /\ proc' = NewProc
      /\ UNCHANGED <<cfg, codeRegions, outcome, tick, status, max_cycles>>
  BY DEF CycleAgain, simReset, reset
<1>2. codeRegions = Regions /\ first.layout = Layout
  BY <1>1 DEF IInv, LayoutInv, Layout
<1>3. /\ first'.runs = 1 /\ first'.layout = first.layout
      /\ DOMAIN first' = {"runs", "layout", "reason"}
  BY <1>1 DEF IInv, LayoutInv
<1>4. LayoutInv'
  BY <1>1, <1>2, <1>3 DEF IInv, LayoutInv, Layout, Regions, WarmSize
<1>5. BootInv'
  BY <1>1 DEF IInv, BootInv, NewProc
<1> QED BY <1>4, <1>5 DEF IInv

\* Every step of the harness keeps the invariant.
LEMMA NextInv == IInv /\ [Next]_vars => IInv'
<1> SUFFICES ASSUME IInv, [Next]_vars PROVE IInv'
  OBVIOUS
<1>1. CASE Warmup
  BY <1>1, WarmupInv
<1>2. CASE Load
  BY <1>2, LoadInv
<1>3. CASE ArchStep
  BY <1>3, ArchStepInv
<1>4. CASE Discard
  BY <1>4, DiscardInv
<1>5. CASE Results \/ CycleQuiet \/ \E reason \in Reasons : CycleReport(reason)
  BY <1>5, EndInv
<1>6. ASSUME NEW reason \in Reasons, CycleAgain(reason) PROVE IInv'
  BY <1>6, AgainInv
<1>7. CASE UNCHANGED vars
  BY <1>7 DEF vars, archVars, simVars, IInv, LayoutInv, BootInv, Layout, Regions,
              WarmSize, NewProc
<1> QED BY <1>1, <1>2, <1>3, <1>4, <1>5, <1>6, <1>7 DEF Next, Exited

\* Layout and boot code are as described in every state of a test case.
THEOREM HarnessInvariant == Spec => []IInv
BY InitInv, NextInv, PTL DEF Spec

\* The second run of an MDS campaign runs the program where the first did, with
\* the same code regions (main.cc:114-121 and 319-326).
THEOREM SameProgramTwice == Spec => []RerunSameProgram
<1>1. IInv => RerunSameProgram
  BY DEF IInv, LayoutInv, RerunSameProgram
<1> QED BY <1>1, HarnessInvariant, PTL

\* Reading nothing never gets a program dropped.
THEOREM NothingReadIsKept == Spec => []EmptyMeansDiscarded
<1>1. IInv => EmptyMeansDiscarded
  BY DEF IInv, BootInv, EmptyMeansDiscarded
<1> QED BY <1>1, HarnessInvariant, PTL

(***************************************************************************)
(* The loader.                                                             *)
(***************************************************************************)
\* A nonempty set of natural numbers has a least element.
LEMMA LeastNat ==
  ASSUME NEW T, T \subseteq Nat, T # {}
  PROVE  \E x \in T : \A y \in T : x <= y
<1>1. OpToRel(<, Nat) = {p \in Nat \X Nat : p[1] < p[2]}
  BY DEF OpToRel
<1>2. PICK x \in T : \A y \in T : <<y, x>> \notin OpToRel(<, Nat)
  BY WFMin, NatLessThanWellFounded
<1>3. \A y \in T : ~ (y < x)
  BY <1>1, <1>2
<1> QED BY <1>3

\* f holds what the loader has after each of the first m regions.
FollowsLoad(f, acc, regions, m) ==
  f = [n \in 0..m |-> IF n = 0 THEN acc ELSE LoadRegion(f[n - 1], regions[n])]

\* One more region can always be loaded.
LEMMA LoadOneMore ==
  ASSUME NEW acc, NEW regions, NEW m \in Nat, m # 0, NEW g,
         FollowsLoad(g, acc, regions, m - 1)
  PROVE  \E f : FollowsLoad(f, acc, regions, m)
<1> DEFINE f == [n \in 0..m |-> IF n = m THEN LoadRegion(g[m - 1], regions[m]) ELSE g[n]]
<1>1. \A n \in 0..(m - 1) :
        g[n] = IF n = 0 THEN acc ELSE LoadRegion(g[n - 1], regions[n])
  <2>1. g = [n \in 0..(m - 1) |-> IF n = 0 THEN acc ELSE LoadRegion(g[n - 1], regions[n])]
    BY DEF FollowsLoad
  <2> QED BY <2>1
<1>2. \A n \in 0..m : n # m => f[n] = g[n]
  OBVIOUS
<1>3. f[m] = LoadRegion(g[m - 1], regions[m])
  OBVIOUS
<1>4. \A n \in 0..m : f[n] = IF n = 0 THEN acc ELSE LoadRegion(f[n - 1], regions[n])
  <2> SUFFICES ASSUME NEW n \in 0..m
               PROVE  f[n] = IF n = 0 THEN acc ELSE LoadRegion(f[n - 1], regions[n])
    OBVIOUS
  <2> HIDE DEF f
  <2>1. CASE n = m
    <3>1. m - 1 \in 0..m /\ m - 1 # m
      OBVIOUS
    <3>2. f[m - 1] = g[m - 1]
      BY <3>1, <1>2
    <3> QED BY <2>1, <3>2, <1>3
  <2>2. CASE n # m
    <3>1. n \in 0..(m - 1) /\ f[n] = g[n]
      BY <2>2, <1>2
    <3>2. n # 0 => n - 1 \in 0..m /\ n - 1 # m
      OBVIOUS
    <3>3. n # 0 => f[n - 1] = g[n - 1]
      BY <3>2, <1>2
    <3> QED BY <3>1, <3>3, <1>1
  <2> QED BY <2>1, <2>2
<1>5. FollowsLoad(f, acc, regions, m)
  <2>1. f = [n \in 0..m |-> f[n]]
    OBVIOUS
  <2> HIDE DEF f
  <2> QED BY <2>1, <1>4 DEF FollowsLoad
<1> QED BY <1>5

\* The loop of the loader can be run over any number of regions.
LEMMA LoopExists ==
  ASSUME NEW acc, NEW regions, NEW m \in Nat
  PROVE  \E f : FollowsLoad(f, acc, regions, m)
<1> DEFINE T == {n \in Nat : ~ \E f : FollowsLoad(f, acc, regions, n)}
<1> SUFFICES ASSUME T # {} PROVE FALSE
  OBVIOUS
<1>1. PICK k \in T : \A y \in T : k <= y
  BY LeastNat
<1>2. CASE k = 0
  <2> DEFINE f == [n \in 0..0 |-> acc]
  <2>1. f = [n \in 0..0 |-> IF n = 0 THEN acc ELSE LoadRegion(f[n - 1], regions[n])]
    OBVIOUS
  <2>2. FollowsLoad(f, acc, regions, 0)
    BY <2>1 DEF FollowsLoad
  <2> QED BY <2>2, <1>2
<1>3. CASE k # 0
  <2>1. k - 1 \in Nat /\ k - 1 \notin T
    BY <1>1, <1>3
  <2>2. PICK g : FollowsLoad(g, acc, regions, k - 1)
    BY <2>1
  <2>3. \E f : FollowsLoad(f, acc, regions, k)
    BY <2>2, <1>3, LoadOneMore
  <2> QED BY <2>3
<1> QED BY <1>2, <1>3

\* What is true of the loader's progress, at any time: all of memory is tainted,
\* what is behind it is the program, and what is before it is as it was.
Loading(acc, mem, init, size) ==
  /\ acc = [dram |-> acc.dram, labels |-> Ram, initSize |-> init,
            bufAt |-> RamBase + init, start |-> acc.start, codeSize |-> acc.codeSize]
  /\ acc.start \in Nat /\ RamBase + init <= acc.start /\ acc.start <= RamBase + size
  /\ acc.codeSize \in Nat
  /\ acc.dram = [u \in Ram |-> acc.dram[u]]
  /\ \A u \in Ram :
       /\ u < RamBase + init => acc.dram[u] = mem[u]
       /\ RamBase + init <= u /\ u < acc.start =>
            acc.dram[u] = Content("program", cfg.argInit + (u - (RamBase + init)))

\* A list of regions that lie between the init code and the end of the program.
InProgram(regions, init, size) ==
  \A i \in 1..Len(regions) :
    /\ regions[i][1] \in Nat /\ regions[i][2] \in Nat
    /\ RamBase + init <= regions[i][1]
    /\ regions[i][1] <= regions[i][2] /\ regions[i][2] <= RamBase + size

\* A section is copied to where it belongs in the program.
LEMMA CopyLoads ==
  ASSUME cfg \in Configs, NEW mem, NEW init \in Nat, NEW size \in Nat, size <= RamSize,
         NEW acc, Loading(acc, mem, init, size),
         NEW until \in Nat, acc.start <= until, until <= RamBase + size
  PROVE  /\ Loading(Copy(acc, until), mem, init, size)
         /\ Copy(acc, until).codeSize = acc.codeSize
         /\ Copy(acc, until).start = until
         /\ acc.start..(until - 1) \subseteq Ram
<1>0. /\ RamBase \in Nat /\ RamSize \in Nat /\ cfg.argInit \in Nat
      /\ acc.start \in Nat /\ RamBase + init <= acc.start
  BY ArchSimAssumption, ConfigSizes DEF Loading
<1> DEFINE first0 == cfg.argInit + acc.start - (RamBase + init)
           loaded == loadBytes(acc.dram, "program", first0, acc.start, until - acc.start)
<1>1. Copy(acc, until) =
        [dram |-> loaded, labels |-> Ram, initSize |-> init, bufAt |-> RamBase + init,
         start |-> until, codeSize |-> acc.codeSize]
  <2> DEFINE d == acc.dram
             s == acc.start
             c == acc.codeSize
  <2>1. acc = [dram |-> d, labels |-> Ram, initSize |-> init,
               bufAt |-> RamBase + init, start |-> s, codeSize |-> c]
    BY DEF Loading
  <2>2. Copy(acc, until) =
          [acc EXCEPT !.dram = loadBytes(acc.dram, "program",
                                         cfg.argInit + acc.start - acc.bufAt,
                                         acc.start, until - acc.start),
                      !.start = until]
    BY <2>1 DEF Copy
  <2>3. acc.bufAt = RamBase + init
    BY <2>1
  <2> HIDE DEF loaded
  <2>4. Copy(acc, until) = [acc EXCEPT !.dram = loaded, !.start = until]
    BY <2>2, <2>3 DEF loaded
  <2> HIDE DEF d, s, c
  <2> QED BY <2>1, <2>4
<1>2. \A u \in Ram : loaded[u] = IF acc.start <= u /\ u < until
                                   THEN Content("program", first0 + u - acc.start)
                                   ELSE acc.dram[u]
  <2> SUFFICES ASSUME NEW u \in Ram
               PROVE  loaded[u] = IF acc.start <= u /\ u < until
                                    THEN Content("program", first0 + u - acc.start)
                                    ELSE acc.dram[u]
    OBVIOUS
  <2>1. loaded[u] = IF u \in Units(acc.start, until - acc.start)
                      THEN Content("program", first0 + u - acc.start) ELSE acc.dram[u]
    BY DEF loadBytes
  <2>2. u \in Units(acc.start, until - acc.start) <=> acc.start <= u /\ u < until
    BY <1>0 DEF Units, Ram
  <2> QED BY <2>1, <2>2
<1>3. loaded = [u \in Ram |-> loaded[u]]
  BY DEF loadBytes
<1> HIDE DEF loaded
<1>4. \A u \in Ram :
        /\ u < RamBase + init => loaded[u] = mem[u]
        /\ RamBase + init <= u /\ u < until =>
             loaded[u] = Content("program", cfg.argInit + (u - (RamBase + init)))
  <2> SUFFICES ASSUME NEW u \in Ram
               PROVE  /\ u < RamBase + init => loaded[u] = mem[u]
                      /\ RamBase + init <= u /\ u < until =>
                           loaded[u] = Content("program", cfg.argInit + (u - (RamBase + init)))
    OBVIOUS
  <2>0. u \in Int
    BY <1>0 DEF Ram
  <2>1. first0 + u - acc.start = cfg.argInit + (u - (RamBase + init))
    BY <1>0, <2>0
  <2>2. /\ u < RamBase + init => acc.dram[u] = mem[u]
        /\ RamBase + init <= u /\ u < acc.start =>
             acc.dram[u] = Content("program", cfg.argInit + (u - (RamBase + init)))
    BY DEF Loading
  <2> HIDE DEF first0
  <2> QED BY <1>0, <1>2, <2>0, <2>1, <2>2
<1>5. Loading(Copy(acc, until), mem, init, size)
  <2>1. acc.codeSize \in Nat
    BY DEF Loading
  <2> QED BY <1>0, <1>1, <1>3, <1>4, <2>1 DEF Loading
<1>6. acc.start..(until - 1) \subseteq Ram
  BY <1>0 DEF Ram
<1> QED BY <1>1, <1>5, <1>6

\* Data is loaded with its label, code without.
LEMMA SectionLoads ==
  ASSUME cfg \in Configs, NEW mem, NEW init \in Nat, NEW size \in Nat, size <= RamSize,
         NEW acc, Loading(acc, mem, init, size),
         NEW until \in Nat, acc.start <= until, until <= RamBase + size
  PROVE  /\ Loading(addData(acc, until), mem, init, size)
         /\ Loading(addCode(acc, until), mem, init, size)
         /\ addData(acc, until).start = until
<1> DEFINE next == Copy(acc, until)
           d == next.dram
           s == next.start
           c == next.codeSize
<1>1. /\ Loading(next, mem, init, size) /\ c = acc.codeSize /\ s = until
      /\ acc.start..(until - 1) \subseteq Ram
  <2>1. /\ Loading(Copy(acc, until), mem, init, size)
        /\ Copy(acc, until).codeSize = acc.codeSize
        /\ Copy(acc, until).start = until
        /\ acc.start..(until - 1) \subseteq Ram
    BY ONLY CopyLoads, cfg \in Configs, init \in Nat, size \in Nat, size <= RamSize,
            Loading(acc, mem, init, size), until \in Nat, acc.start <= until,
            until <= RamBase + size
  <2> QED BY <2>1
<1>2. next = [dram |-> d, labels |-> Ram, initSize |-> init, bufAt |-> RamBase + init,
              start |-> s, codeSize |-> c]
  BY <1>1 DEF Loading
<1>3. /\ addData(acc, until) = [next EXCEPT !.labels = @ \cup acc.start..(until - 1)]
      /\ addCode(acc, until) = [next EXCEPT !.codeSize = @ + until - acc.start]
  BY DEF addData, addCode
<1>4. c \in Nat /\ acc.start \in Nat /\ c + until - acc.start \in Nat
  BY <1>1 DEF Loading
<1>5. /\ s \in Nat /\ RamBase + init <= s /\ s <= RamBase + size
      /\ d = [u \in Ram |-> d[u]]
      /\ \A u \in Ram :
           /\ u < RamBase + init => d[u] = mem[u]
           /\ RamBase + init <= u /\ u < s =>
                d[u] = Content("program", cfg.argInit + (u - (RamBase + init)))
  BY <1>1 DEF Loading
<1> HIDE DEF next, d, s, c
<1>6. addData(acc, until) = [dram |-> d, labels |-> Ram, initSize |-> init,
                             bufAt |-> RamBase + init, start |-> s, codeSize |-> c]
  <2>1. Ram \cup acc.start..(until - 1) = Ram
    BY <1>1
  <2> QED BY <1>2, <1>3, <2>1
<1>7. addCode(acc, until) = [dram |-> d, labels |-> Ram, initSize |-> init,
                             bufAt |-> RamBase + init, start |-> s,
                             codeSize |-> c + until - acc.start]
  BY <1>2, <1>3
<1>8. Loading(addData(acc, until), mem, init, size)
  BY <1>4, <1>5, <1>6 DEF Loading
<1>9. Loading(addCode(acc, until), mem, init, size)
  BY <1>4, <1>5, <1>7 DEF Loading
<1> QED BY <1>1, <1>6, <1>8, <1>9

\* One round of the loop.
LEMMA RegionLoads ==
  ASSUME cfg \in Configs, NEW mem, NEW init \in Nat, NEW size \in Nat, size <= RamSize,
         NEW acc, Loading(acc, mem, init, size), NEW r,
         r[1] \in Nat, r[2] \in Nat, RamBase + init <= r[1], r[1] <= r[2],
         r[2] <= RamBase + size
  PROVE  Loading(LoadRegion(acc, r), mem, init, size)
<1>0. RamBase \in Nat /\ acc.start \in Nat
  BY ArchSimAssumption DEF Loading
<1>1. CASE r[1] < acc.initSize
  BY <1>1 DEF LoadRegion
<1>2. CASE ~(r[1] < acc.initSize)
  <2> DEFINE from == IF r[1] > acc.start THEN addData(acc, r[1])
                     ELSE [acc EXCEPT !.start = r[1]]
  <2>1. LoadRegion(acc, r) = addCode(from, r[2])
    BY <1>2 DEF LoadRegion
  <2>2. Loading(from, mem, init, size) /\ from.start = r[1]
    <3>1. CASE r[1] > acc.start
      <4>1. acc.start <= r[1] /\ r[1] <= RamBase + size
        BY <3>1, <1>0
      <4> QED BY <3>1, <4>1, SectionLoads
    <3>2. CASE ~(r[1] > acc.start)
      <4> DEFINE d == acc.dram
                 s == acc.start
                 c == acc.codeSize
      <4>1. acc = [dram |-> d, labels |-> Ram, initSize |-> init, bufAt |-> RamBase + init,
                   start |-> s, codeSize |-> c]
        BY DEF Loading
      <4>2. /\ c \in Nat /\ s \in Nat /\ r[1] <= s /\ d = [u \in Ram |-> d[u]]
            /\ \A u \in Ram :
                 /\ u < RamBase + init => d[u] = mem[u]
                 /\ RamBase + init <= u /\ u < s =>
                      d[u] = Content("program", cfg.argInit + (u - (RamBase + init)))
        BY <3>2 DEF Loading
      <4>3. from = [acc EXCEPT !.start = r[1]]
        BY <3>2
      <4> HIDE DEF d, s, c, from
      <4>4. from = [dram |-> d, labels |-> Ram, initSize |-> init,
                    bufAt |-> RamBase + init, start |-> r[1], codeSize |-> c]
        BY <4>1, <4>3
      <4>5. r[1] <= RamBase + size
        BY <1>0
      <4>6. \A u \in Ram : u < r[1] => u < s
        BY <1>0, <4>2 DEF Ram
      <4> QED BY <4>2, <4>4, <4>5, <4>6 DEF Loading
    <3> QED BY <3>1, <3>2
  <2> HIDE DEF from
  <2> QED BY <2>1, <2>2, SectionLoads
<1> QED BY <1>1, <1>2

\* All rounds of it.
LEMMA RegionsLoad ==
  ASSUME cfg \in Configs, NEW mem, NEW init \in Nat, NEW size \in Nat, size <= RamSize,
         NEW acc, Loading(acc, mem, init, size),
         NEW regions, Len(regions) \in Nat, InProgram(regions, init, size)
  PROVE  Loading(LoadRegions(acc, regions), mem, init, size)
<1> DEFINE L == Len(regions)
           after == CHOOSE f : f = [n \in 0..L |-> IF n = 0 THEN acc
                                                   ELSE LoadRegion(f[n - 1], regions[n])]
<1>1. LoadRegions(acc, regions) = after[L]
  BY DEF LoadRegions
<1>2. after = [n \in 0..L |-> IF n = 0 THEN acc ELSE LoadRegion(after[n - 1], regions[n])]
  <2>1. \E f : f = [n \in 0..L |-> IF n = 0 THEN acc ELSE LoadRegion(f[n - 1], regions[n])]
    <3>1. L \in Nat
      OBVIOUS
    <3> HIDE DEF L
    <3>2. PICK f : FollowsLoad(f, acc, regions, L)
      BY <3>1, LoopExists
    <3>3. f = [n \in 0..L |-> IF n = 0 THEN acc ELSE LoadRegion(f[n - 1], regions[n])]
      BY <3>2 DEF FollowsLoad
    <3> QED BY <3>3
  <2> QED BY <2>1, Zenon
<1> HIDE DEF after
<1>3. \A n \in 0..L : after[n] = IF n = 0 THEN acc ELSE LoadRegion(after[n - 1], regions[n])
  BY <1>2
<1> DEFINE T == {n \in 0..L : ~ Loading(after[n], mem, init, size)}
<1>4. T = {}
  <2> SUFFICES ASSUME T # {} PROVE FALSE
    OBVIOUS
  <2>0. T \subseteq Nat
    OBVIOUS
  <2>1. PICK k \in T : \A y \in T : k <= y
    <3> HIDE DEF T
    <3> QED BY <2>0, LeastNat
  <2>2. CASE k = 0
    <3>1. 0 \in 0..L
      OBVIOUS
    <3>2. after[0] = acc
      BY <3>1, <1>3
    <3> QED BY <2>1, <2>2, <3>2
  <2>3. CASE k # 0
    <3>1. k \in 0..L /\ k \in 1..L /\ k - 1 \in 0..L /\ k - 1 \notin T
      BY <2>1, <2>3
    <3>2. Loading(after[k - 1], mem, init, size)
      BY <3>1
    <3>3. after[k] = LoadRegion(after[k - 1], regions[k])
      BY <3>1, <1>3, <2>3
    <3>4. /\ regions[k][1] \in Nat /\ regions[k][2] \in Nat
          /\ RamBase + init <= regions[k][1] /\ regions[k][1] <= regions[k][2]
          /\ regions[k][2] <= RamBase + size
      BY <3>1 DEF InProgram
    <3>5. Loading(LoadRegion(after[k - 1], regions[k]), mem, init, size)
      BY <3>2, <3>4, RegionLoads
    <3> QED BY <3>3, <3>5, <3>1
  <2> QED BY <2>2, <2>3
<1>5. L \in 0..L
  OBVIOUS
<1> QED BY <1>1, <1>4, <1>5

\* When loadProgramSections returns, the memory holds the whole program behind the
\* init code, all of it is tainted, and the amount of code is a number.
LEMMA ProgramLoads ==
  ASSUME cfg \in Configs, NEW mem, mem = [u \in Ram |-> mem[u]],
         NEW init \in Nat, NEW size \in Nat, init <= size, size <= RamSize,
         NEW regions, Len(regions) \in Nat, InProgram(regions, init, size)
  PROVE  LET done == loadProgramSections(mem, Ram, init, size, regions)
         IN Loading(done, mem, init, size) /\ done.start = RamBase + size
<1> DEFINE acc0 == [dram |-> mem, labels |-> Ram, initSize |-> init,
                    bufAt |-> RamBase + init, start |-> RamBase + init, codeSize |-> 0]
           acc == LoadRegions(acc0, regions)
<1>0. RamBase \in Nat
  BY ArchSimAssumption
<1>1. Loading(acc0, mem, init, size)
  <2>1. /\ acc0.dram = mem /\ acc0.start = RamBase + init /\ acc0.codeSize = 0
        /\ acc0 = [dram |-> mem, labels |-> Ram, initSize |-> init,
                   bufAt |-> RamBase + init, start |-> RamBase + init, codeSize |-> 0]
    OBVIOUS
  <2> HIDE DEF acc0
  <2>2. \A u \in Ram : ~(RamBase + init <= u /\ u < RamBase + init)
    BY <1>0 DEF Ram
  <2> QED BY <1>0, <2>1, <2>2 DEF Loading
<1> HIDE DEF acc0
<1>2. Loading(acc, mem, init, size)
  BY <1>1, RegionsLoad
<1>3. loadProgramSections(mem, Ram, init, size, regions) = addData(acc, RamBase + size)
  BY DEF loadProgramSections, acc0
<1>4. RamBase + size \in Nat /\ acc.start <= RamBase + size
  BY <1>0, <1>2 DEF Loading
<1> HIDE DEF acc
<1> QED BY <1>0, <1>2, <1>3, <1>4, SectionLoads

(***************************************************************************)
(* The image.                                                              *)
(***************************************************************************)
\* Unit n of the image: init code, MDS init and file follow each other.
FileAt(n) ==
  IF n < cfg.init THEN <<"init", n>>
  ELSE IF n < WarmSize THEN <<"mds", n - cfg.init>>
  ELSE Content("program", n - WarmSize)

\* What the memories hold and what is tainted until the labels are set.
ImageInv ==
  /\ dram = [u \in Ram |-> dram[u]] /\ ram = [u \in Ram |-> ram[u]]
  /\ pc = "load" => \A n \in 0..(WarmSize - 1) : dram[RamBase + n] = FileAt(n)
  /\ pc \in {"arch", "cycle"} =>
       \A n \in 0..(programSize - 1) :
         dram[RamBase + n] = FileAt(n) /\ ram[RamBase + n] \in {dram[RamBase + n], Stored}
  /\ pc \in {"load", "arch"} => labels = Ram

\* A memory into which a part of a file was copied.
Copied(new, mem, file, k, start, len) ==
  /\ new = [u \in Ram |-> new[u]]
  /\ \A u \in Ram : new[u] = IF start <= u /\ u < start + len
                               THEN Content(file, k + u - start) ELSE mem[u]

\* loadBytes does that and nothing else.
LEMMA LoadBytesAt ==
  ASSUME NEW mem, NEW file, NEW k, NEW start \in Nat, NEW len \in Nat
  PROVE  Copied(loadBytes(mem, file, k, start, len), mem, file, k, start, len)
<1> DEFINE new == loadBytes(mem, file, k, start, len)
<1>1. new = [u \in Ram |-> new[u]]
  BY DEF loadBytes
<1>2. ASSUME NEW u \in Ram
      PROVE  new[u] = IF start <= u /\ u < start + len
                        THEN Content(file, k + u - start) ELSE mem[u]
  <2>1. new[u] = IF u \in Units(start, len) THEN Content(file, k + u - start) ELSE mem[u]
    BY DEF loadBytes
  <2>2. u \in Units(start, len) <=> start <= u /\ u < start + len
    BY ArchSimAssumption DEF Units, Ram
  <2> QED BY <2>1, <2>2
<1> HIDE DEF new
<1> QED BY <1>1, <1>2 DEF Copied, new

\* The layout of a configuration: the regions are in the program, which fits.
LEMMA LayoutFits ==
  ASSUME cfg \in Configs
  PROVE  /\ WarmSize + cfg.argInit \in Nat /\ WarmSize + cfg.file \in Nat
         /\ WarmSize + cfg.argInit <= WarmSize + cfg.file
         /\ WarmSize + cfg.file <= RamSize
         /\ Len(Regions) \in Nat /\ Len(Regions) > 0
         /\ InProgram(Regions, WarmSize + cfg.argInit, WarmSize + cfg.file)
<1>0. /\ RamBase \in Nat /\ RamSize \in Nat /\ cfg.argInit \in Nat /\ cfg.file \in Nat
      /\ cfg.init \in Nat /\ cfg.mdsInit \in Nat /\ WarmSize \in Nat
  BY ArchSimAssumption, ConfigSizes
<1>1. /\ cfg.argInit <= cfg.file /\ cfg.init + cfg.mdsInit + cfg.file <= RamSize
      /\ cfg.regions \in Seq(Nat \X Nat)
      /\ \A r \in Range(cfg.regions) :
           /\ RamBase + InitUnits(cfg) + cfg.argInit <= r[1]
           /\ r[1] <= r[2] /\ r[2] <= RamBase + InitUnits(cfg) + cfg.file
  BY ConfigsAssumption
<1>2. WarmSize <= cfg.init + cfg.mdsInit
  BY <1>0 DEF WarmSize, InitUnits
<1>3. /\ Len(Regions) \in Nat /\ Len(Regions) > 0
      /\ InProgram(Regions, WarmSize + cfg.argInit, WarmSize + cfg.file)
  <2>1. CASE cfg.regions = <<>>
    <3> DEFINE r == <<RamBase + (WarmSize + cfg.argInit), RamBase + (WarmSize + cfg.file)>>
    <3>1. Regions = <<r>>
      BY <2>1 DEF Regions
    <3>2. Len(Regions) = 1 /\ Regions[1] = r
      BY <3>1
    <3>3. \A i \in 1..1 : i = 1
      OBVIOUS
    <3>4. r[1] = RamBase + (WarmSize + cfg.argInit) /\ r[2] = RamBase + (WarmSize + cfg.file)
      OBVIOUS
    <3> HIDE DEF r
    <3>5. /\ r[1] \in Nat /\ r[2] \in Nat /\ RamBase + (WarmSize + cfg.argInit) <= r[1]
          /\ r[1] <= r[2] /\ r[2] <= RamBase + (WarmSize + cfg.file)
      <4>1. cfg.argInit <= cfg.file
        BY <1>1
      <4>2. RamBase + (WarmSize + cfg.argInit) \in Nat /\ RamBase + (WarmSize + cfg.file) \in Nat
        BY <1>0
      <4>3. RamBase + (WarmSize + cfg.argInit) <= RamBase + (WarmSize + cfg.file)
        BY <1>0, <4>1
      <4> QED BY <3>4, <4>2, <4>3
    <3>6. \A i \in 1..Len(Regions) : Regions[i] = r
      BY <3>2, <3>3
    <3>7. InProgram(Regions, WarmSize + cfg.argInit, WarmSize + cfg.file)
      BY <3>5, <3>6 DEF InProgram
    <3> QED BY <3>2, <3>7
  <2>2. CASE cfg.regions # <<>>
    <3>1. Regions = cfg.regions
      BY <2>2 DEF Regions
    <3>2. Len(cfg.regions) \in Nat /\ Len(cfg.regions) > 0
      BY <1>1, <2>2
    <3>3. ASSUME NEW i \in 1..Len(cfg.regions)
          PROVE  /\ cfg.regions[i][1] \in Nat /\ cfg.regions[i][2] \in Nat
                 /\ RamBase + (WarmSize + cfg.argInit) <= cfg.regions[i][1]
                 /\ cfg.regions[i][1] <= cfg.regions[i][2]
                 /\ cfg.regions[i][2] <= RamBase + (WarmSize + cfg.file)
      <4>1. i \in DOMAIN cfg.regions /\ cfg.regions[i] \in Nat \X Nat
        BY <1>1
      <4>2. cfg.regions[i] \in Range(cfg.regions)
        BY <4>1 DEF Range
      <4> DEFINE r == cfg.regions[i]
      <4>3. r[1] \in Nat /\ r[2] \in Nat
        BY <4>1
      <4>4. /\ RamBase + WarmSize + cfg.argInit <= r[1]
            /\ r[1] <= r[2] /\ r[2] <= RamBase + WarmSize + cfg.file
        BY <1>1, <4>2 DEF WarmSize
      <4> HIDE DEF r
      <4>5. /\ RamBase + (WarmSize + cfg.argInit) <= r[1]
            /\ r[2] <= RamBase + (WarmSize + cfg.file)
        BY <1>0, <4>3, <4>4
      <4> QED BY <4>3, <4>4, <4>5 DEF r
    <3> QED BY <3>1, <3>2, <3>3 DEF InProgram
  <2> QED BY <2>1, <2>2
<1> QED BY <1>0, <1>1, <1>2, <1>3

\* Warmup copies the init files to where the image has them.
LEMMA WarmupImage ==
  ASSUME IInv, ImageInv, Warmup PROVE ImageInv'
<1> DEFINE mem == loadBytes(dram, "init", 0, RamBase, cfg.init)
           mds == loadBytes(mem, "mds", 0, RamBase + cfg.init, cfg.mdsInit)
<1>0. /\ cfg \in Configs /\ cfg.init \in Nat /\ cfg.mdsInit \in Nat /\ WarmSize \in Nat
      /\ RamBase \in Nat /\ RamSize \in Nat /\ initSize = 0 /\ pc = "warmup"
      /\ cfg.argInit \in Nat /\ cfg.file \in Nat
  BY ConfigSizes, ArchSimAssumption DEF IInv, LayoutInv, Warmup
<1>1. WarmSize <= RamSize
  BY <1>0, LayoutFits
<1>2. (IF cfg.init > 0 THEN cfg.init ELSE initSize) = cfg.init
  BY <1>0
<1>3. /\ pc' = "load" /\ labels' = Ram /\ UNCHANGED <<cfg, ram, programSize>>
      /\ dram' = IF cfg.mds /\ cfg.mdsInit > 0 THEN mds ELSE mem
  BY <1>2 DEF Warmup, setForbiddenRegion, archVars
<1>4. /\ mem = [u \in Ram |-> mem[u]]
      /\ \A u \in Ram : mem[u] = IF RamBase <= u /\ u < RamBase + cfg.init
                                   THEN Content("init", 0 + u - RamBase) ELSE dram[u]
  <2>1. Copied(mem, dram, "init", 0, RamBase, cfg.init)
    BY <1>0, LoadBytesAt
  <2> HIDE DEF mem
  <2> QED BY <2>1 DEF Copied
<1>5. /\ mds = [u \in Ram |-> mds[u]]
      /\ \A u \in Ram : mds[u] = IF RamBase + cfg.init <= u
                                      /\ u < RamBase + cfg.init + cfg.mdsInit
                                   THEN Content("mds", 0 + u - (RamBase + cfg.init))
                                   ELSE mem[u]
  <2>1. RamBase + cfg.init \in Nat
    BY <1>0
  <2>2. Copied(mds, mem, "mds", 0, RamBase + cfg.init, cfg.mdsInit)
    <3> HIDE DEF mem
    <3> QED BY <1>0, <2>1, LoadBytesAt
  <2> HIDE DEF mem, mds
  <2> QED BY <2>2 DEF Copied
<1>6. \A k : Content("init", k) = <<"init", k>> /\ Content("mds", k) = <<"mds", k>>
  BY DEF Content
<1> HIDE DEF mem, mds
<1>7. ASSUME NEW n \in 0..(WarmSize - 1) PROVE dram'[RamBase + n] = FileAt(n)
  <2> DEFINE u == RamBase + n
  <2>0. n \in Nat /\ n < WarmSize /\ u \in Ram /\ u \in Nat
    BY <1>0, <1>1 DEF Ram
  <2>1. CASE n < cfg.init
    <3>1. mem[u] = <<"init", n>>
      <4>1. RamBase <= u /\ u < RamBase + cfg.init /\ 0 + u - RamBase = n
        BY <1>0, <2>0, <2>1
      <4> HIDE DEF u
      <4> QED BY <1>4, <1>6, <2>0, <4>1
    <3>2. mds[u] = mem[u]
      <4>1. ~(RamBase + cfg.init <= u)
        BY <1>0, <2>0, <2>1
      <4> HIDE DEF u
      <4> QED BY <1>5, <2>0, <4>1
    <3> QED BY <1>3, <2>1, <3>1, <3>2 DEF FileAt
  <2>2. CASE ~(n < cfg.init)
    <3>1. cfg.mds /\ cfg.mdsInit > 0 /\ WarmSize = cfg.init + cfg.mdsInit
      BY <1>0, <2>0, <2>2 DEF WarmSize, InitUnits
    <3>2. /\ RamBase + cfg.init <= u /\ u < RamBase + cfg.init + cfg.mdsInit
          /\ 0 + u - (RamBase + cfg.init) = n - cfg.init
      BY <1>0, <2>0, <2>2, <3>1
    <3>3. mds[u] = <<"mds", n - cfg.init>>
      <4> HIDE DEF u
      <4> QED BY <1>5, <1>6, <2>0, <3>2
    <3> QED BY <1>3, <2>0, <2>2, <3>1, <3>3 DEF FileAt
  <2> QED BY <2>1, <2>2
<1>8. WarmSize' = WarmSize /\ \A n : FileAt(n)' = FileAt(n)
  BY <1>3 DEF WarmSize, FileAt, Content
<1>9. dram' = [u \in Ram |-> dram'[u]] /\ ram' = [u \in Ram |-> ram'[u]]
  BY <1>3, <1>4, <1>5 DEF ImageInv
<1> QED BY <1>3, <1>7, <1>8, <1>9 DEF ImageInv

\* Load completes the image and gives ArchSim a copy.
LEMMA LoadImage ==
  ASSUME IInv, ImageInv, Load
  PROVE  ImageInv' /\ max_cycles' \in Nat
<1> DEFINE init == WarmSize + cfg.argInit
           size == WarmSize + cfg.file
           own == loadBytes(dram, "program", 0, RamBase + WarmSize, cfg.argInit)
           done == loadProgramSections(own, Ram, init, size, Regions)
<1>0. /\ cfg \in Configs /\ cfg.init \in Nat /\ cfg.mdsInit \in Nat /\ WarmSize \in Nat
      /\ RamBase \in Nat /\ RamSize \in Nat /\ pc = "load"
      /\ cfg.argInit \in Nat /\ cfg.file \in Nat /\ cfg.cpi \in Nat
      /\ initSize = WarmSize /\ labels = Ram
  <2>1. cfg \in Configs /\ pc = "load" /\ initSize = WarmSize /\ labels = Ram
    BY DEF IInv, LayoutInv, ImageInv, Load
  <2> QED BY <2>1, ConfigSizes, ArchSimAssumption, ConfigsAssumption
<1>1. /\ init \in Nat /\ size \in Nat /\ init <= size /\ size <= RamSize
      /\ Len(Regions) \in Nat /\ InProgram(Regions, init, size)
  BY <1>0, LayoutFits
<1>2. /\ pc' = "arch" /\ UNCHANGED cfg /\ programSize' = size /\ codeRegions' = Regions
  <2>1. pc' = "arch" /\ UNCHANGED cfg
    BY DEF Load
  <2>2. IInv'
    BY LoadInv
  <2>3. <<initSize', programSize', codeRegions'>> = Layout'
    BY <2>1, <2>2 DEF IInv, LayoutInv
  <2>4. Layout' = Layout
    BY <2>1 DEF Layout, Regions, WarmSize
  <2> QED BY <2>1, <2>3, <2>4 DEF Layout
<1>3. /\ dram' = done.dram /\ labels' = done.labels
      /\ loadProgram(done.dram, size, Regions, init, done.codeSize * cfg.cpi)
  <2>1. /\ dram' = loadProgramSections(own, labels, initSize + cfg.argInit,
                                       initSize + cfg.file, codeRegions').dram
        /\ labels' = loadProgramSections(own, labels, initSize + cfg.argInit,
                                         initSize + cfg.file, codeRegions').labels
        /\ loadProgram(loadProgramSections(own, labels, initSize + cfg.argInit,
                                           initSize + cfg.file, codeRegions').dram,
                       initSize + cfg.file, codeRegions', initSize + cfg.argInit,
                       loadProgramSections(own, labels, initSize + cfg.argInit,
                                           initSize + cfg.file, codeRegions').codeSize
                         * cfg.cpi)
    BY <1>0 DEF Load
  <2> QED BY <1>0, <1>2, <2>1
<1>4. /\ own = [u \in Ram |-> own[u]]
      /\ \A u \in Ram : own[u] = IF RamBase + WarmSize <= u
                                      /\ u < RamBase + WarmSize + cfg.argInit
                                   THEN Content("program", 0 + u - (RamBase + WarmSize))
                                   ELSE dram[u]
  <2>1. RamBase + WarmSize \in Nat
    BY <1>0
  <2>2. Copied(own, dram, "program", 0, RamBase + WarmSize, cfg.argInit)
    BY <1>0, <2>1, LoadBytesAt
  <2> HIDE DEF own
  <2> QED BY <2>2 DEF Copied
<1> HIDE DEF own
<1>5. Loading(done, own, init, size) /\ done.start = RamBase + size
  <2> HIDE DEF init, size
  <2> QED BY <1>0, <1>1, <1>4, ProgramLoads
<1> DEFINE mem == done.dram
           code == done.codeSize
<1>6. /\ done.labels = Ram /\ code \in Nat /\ mem = [u \in Ram |-> mem[u]]
      /\ \A u \in Ram :
           /\ u < RamBase + init => mem[u] = own[u]
           /\ RamBase + init <= u /\ u < RamBase + size =>
                mem[u] = Content("program", cfg.argInit + (u - (RamBase + init)))
  <2> HIDE DEF done, init, size
  <2>1. done = [dram |-> done.dram, labels |-> Ram, initSize |-> init,
                bufAt |-> RamBase + init, start |-> done.start, codeSize |-> done.codeSize]
    BY <1>5 DEF Loading
  <2>2. done.labels = Ram
    BY <2>1
  <2> QED BY <1>5, <2>2 DEF Loading
<1>7. /\ dram' = mem /\ labels' = Ram /\ max_cycles' = code * cfg.cpi
      /\ ram' = [u \in Ram |-> IF u < RamBase + size THEN mem[u] ELSE ram[u]]
  <2> HIDE DEF init, size, done
  <2> QED BY <1>3, <1>6 DEF loadProgram
<1> HIDE DEF done, mem, code
<1>8. max_cycles' \in Nat
  <2>1. \A a, b \in Nat : a * b \in Nat
    OBVIOUS
  <2> QED BY <1>0, <1>6, <1>7, <2>1
<1>9. ASSUME NEW n \in 0..(size - 1) PROVE mem[RamBase + n] = FileAt(n)
  <2> DEFINE u == RamBase + n
  <2>0. n \in Nat /\ n < size /\ u \in Ram /\ u \in Nat
    BY <1>0, <1>1 DEF Ram
  <2>1. CASE n < WarmSize
    <3>1. dram[u] = FileAt(n)
      <4>1. n \in 0..(WarmSize - 1)
        BY <1>0, <2>0, <2>1
      <4> QED BY <1>0, <4>1 DEF ImageInv
    <3>2. u < RamBase + init /\ ~(RamBase + WarmSize <= u)
      BY <1>0, <2>0, <2>1
    <3> HIDE DEF u, init
    <3>3. mem[u] = own[u] /\ own[u] = dram[u]
      BY <1>4, <1>6, <2>0, <3>2
    <3> QED BY <3>1, <3>3 DEF u
  <2>2. CASE ~(n < WarmSize)
    <3>1. FileAt(n) = Content("program", n - WarmSize)
      <4>1. ~(n < cfg.init)
        BY <1>0, <2>0, <2>2 DEF WarmSize, InitUnits
      <4> QED BY <2>2, <4>1 DEF FileAt
    <3>2. CASE n < init
      <4>1. /\ u < RamBase + init /\ RamBase + WarmSize <= u
            /\ u < RamBase + WarmSize + cfg.argInit /\ 0 + u - (RamBase + WarmSize) = n - WarmSize
        BY <1>0, <2>0, <2>2, <3>2
      <4> HIDE DEF u, init
      <4>2. mem[u] = own[u] /\ own[u] = Content("program", n - WarmSize)
        BY <1>4, <1>6, <2>0, <4>1
      <4> QED BY <3>1, <4>2 DEF u
    <3>3. CASE ~(n < init)
      <4>1. /\ RamBase + init <= u /\ u < RamBase + size
            /\ cfg.argInit + (u - (RamBase + init)) = n - WarmSize
        BY <1>0, <2>0, <2>2, <3>3
      <4> HIDE DEF u, init
      <4>2. mem[u] = Content("program", n - WarmSize)
        BY <1>6, <2>0, <4>1
      <4> QED BY <3>1, <4>2 DEF u
    <3> QED BY <3>2, <3>3
  <2> QED BY <2>1, <2>2
<1>10. ASSUME NEW n \in 0..(size - 1)
       PROVE  /\ dram'[RamBase + n] = FileAt(n)'
              /\ ram'[RamBase + n] \in {dram'[RamBase + n], Stored}
  <2>1. RamBase + n \in Ram /\ RamBase + n < RamBase + size
    BY <1>0, <1>1 DEF Ram
  <2>2. FileAt(n)' = FileAt(n)
    BY <1>2 DEF FileAt, Content, WarmSize
  <2> HIDE DEF size
  <2> QED BY <1>7, <1>9, <2>1, <2>2
<1>11. dram' = [u \in Ram |-> dram'[u]] /\ ram' = [u \in Ram |-> ram'[u]]
  BY <1>6, <1>7
<1>12. ImageInv'
  <2> HIDE DEF size
  <2> QED BY <1>2, <1>7, <1>10, <1>11 DEF ImageInv
<1> QED BY <1>8, <1>12

\* The program may store over its own image, in ArchSim's copy only.
LEMMA ArchStepImage ==
  ASSUME IInv, ImageInv, ArchStep PROVE ImageInv'
<1>1. PICK i \in InstrsAt(proc.pc) : step(i, cfg.jumps)
  BY DEF ArchStep
<1>2. /\ pc = "arch" /\ UNCHANGED <<cfg, pc, dram, labels, programSize>>
      /\ ram' = [u \in Ram |-> IF IsData(i) /\ i.op = "store" /\ u \in Units(i.addr, i.len)
                                 THEN Stored ELSE ram[u]]
  BY <1>1 DEF ArchStep, step, simVars
<1>3. \A u \in Ram : ram'[u] \in {ram[u], Stored}
  BY <1>2
<1>4. programSize \in Nat /\ programSize <= RamSize
  <2>1. cfg \in Configs /\ programSize = WarmSize + cfg.file
    BY <1>2 DEF IInv, LayoutInv, Layout
  <2> QED BY <2>1, LayoutFits
<1>5. \A n \in 0..(programSize - 1) : RamBase + n \in Ram
  BY <1>4, ArchSimAssumption DEF Ram
<1>6. ASSUME NEW n \in 0..(programSize - 1)
      PROVE  dram[RamBase + n] = FileAt(n) /\ ram'[RamBase + n] \in {dram[RamBase + n], Stored}
  <2>1. dram[RamBase + n] = FileAt(n) /\ ram[RamBase + n] \in {dram[RamBase + n], Stored}
    BY <1>2 DEF ImageInv
  <2> QED BY <1>3, <1>5, <2>1
<1>7. \A n : FileAt(n)' = FileAt(n)
  BY <1>2 DEF FileAt, Content, WarmSize
<1>8. ram' = [u \in Ram |-> ram'[u]]
  BY <1>2
<1> QED BY <1>2, <1>6, <1>7, <1>8 DEF ImageInv

\* The labels are set, or the core has run and the process ends.
LEMMA OthersImage ==
  ASSUME ImageInv,
         Discard \/ Results \/ CycleQuiet \/ \E reason \in Reasons : CycleReport(reason)
  PROVE  ImageInv'
<1>1. /\ \/ pc = "arch" /\ pc' = "cycle"
         \/ pc' = "done"
      /\ UNCHANGED <<cfg, dram, ram, programSize>>
  BY DEF Discard, Results, CycleQuiet, CycleReport, archVars, simVars
<1>2. \A n : FileAt(n)' = FileAt(n)
  BY <1>1 DEF FileAt, Content, WarmSize
<1> QED BY <1>1, <1>2 DEF ImageInv

\* What the caches wrote back is in the memory when the second run starts.
LEMMA AgainImage ==
  ASSUME ImageInv, NEW reason \in Reasons, CycleAgain(reason) PROVE ImageInv'
<1>1. /\ pc' = "warmup" /\ ram' = ram
      /\ dram' = [u \in Ram |-> dram'[u]]
  BY DEF CycleAgain, WriteBack, simReset, reset
<1> QED BY <1>1 DEF ImageInv

\* The image is as described in every state of a test case.
LEMMA ImageAlways == Spec => []ImageInv
<1>1. Init => ImageInv
  BY DEF Init, ArchInit, ImageInv
<1>2. IInv /\ ImageInv /\ [Next]_vars => ImageInv'
  <2> SUFFICES ASSUME IInv, ImageInv, [Next]_vars PROVE ImageInv'
    OBVIOUS
  <2>1. CASE Warmup
    BY <2>1, WarmupImage
  <2>2. CASE Load
    BY <2>2, LoadImage
  <2>3. CASE ArchStep
    BY <2>3, ArchStepImage
  <2>4. CASE Discard \/ Results \/ CycleQuiet \/ \E reason \in Reasons : CycleReport(reason)
    BY <2>4, OthersImage
  <2>5. ASSUME NEW reason \in Reasons, CycleAgain(reason) PROVE ImageInv'
    BY <2>5, AgainImage
  <2>6. CASE UNCHANGED vars
    BY <2>6 DEF vars, archVars, simVars, ImageInv, FileAt, Content, WarmSize
  <2> QED BY <2>1, <2>2, <2>3, <2>4, <2>5, <2>6 DEF Next, Exited
<1> QED BY <1>1, <1>2, HarnessInvariant, PTL DEF Spec

\* Simulator::addCode, addData and ArchSim's loadProgram: whatever the first run
\* left in the memories, the second one runs the same image.
THEOREM ImageIsLoaded == Spec => []ImageLoaded
<1>1. IInv /\ ImageInv => ImageLoaded
  <2> SUFFICES ASSUME IInv, ImageInv, pc \in {"arch", "cycle"},
                      NEW n \in 0..(programSize - 1)
               PROVE  LET mdsLen == IF cfg.mds THEN cfg.mdsInit ELSE 0
                      IN /\ dram[RamBase + n] =
                              IF n < cfg.init THEN <<"init", n>>
                              ELSE IF n < cfg.init + mdsLen THEN <<"mds", n - cfg.init>>
                              ELSE Content("program", n - cfg.init - mdsLen)
                         /\ ram[RamBase + n] \in {dram[RamBase + n], Stored}
    BY DEF ImageLoaded
  <2> DEFINE mdsLen == IF cfg.mds THEN cfg.mdsInit ELSE 0
  <2>0. cfg \in Configs /\ cfg.init \in Nat /\ cfg.mdsInit \in Nat
    BY ConfigSizes DEF IInv, LayoutInv
  <2>1. programSize \in Nat
    <3>1. programSize = WarmSize + cfg.file
      BY DEF IInv, LayoutInv, Layout
    <3> QED BY <2>0, <3>1, LayoutFits
  <2>2. WarmSize = cfg.init + mdsLen /\ mdsLen \in Nat /\ n \in Nat
    BY <2>0, <2>1 DEF WarmSize, InitUnits
  <2>3. n - cfg.init - mdsLen = n - WarmSize
    BY <2>0, <2>2
  <2> HIDE DEF mdsLen
  <2>4. dram[RamBase + n] = FileAt(n) /\ ram[RamBase + n] \in {dram[RamBase + n], Stored}
    BY DEF ImageInv
  <2> QED BY <2>2, <2>3, <2>4 DEF FileAt, mdsLen
<1> QED BY <1>1, HarnessInvariant, ImageAlways, PTL
=============================================================================
