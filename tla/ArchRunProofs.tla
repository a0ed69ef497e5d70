---------------------------- MODULE ArchRunProofs ----------------------------
(***************************************************************************)
(* What the architectural run is for: the labels the core starts with are  *)
(* exactly the memory the program had no right to, a program the filters   *)
(* are there to exclude never reaches the core, and none is dropped        *)
(* without a cause.  For every program, layout, map of devices and bound   *)
(* of cycles, in the first run of a campaign and in the second.            *)
(***************************************************************************)
EXTENDS HarnessProofs

\* Where a program counter can be.
PcRange == {0} \cup OnBus \cup JumpTargets \cup RamBase..(RamBase + RamSize)

\* The pages guarded in this campaign.
Pages == IF cfg.mds /\ cfg.mdsInit > 0 THEN {ForbiddenRegion} ELSE {}

Procs ==
  [pc : PcRange, tracers : BOOLEAN, code_regions : {<<>>, Regions}, init_end : Nat,
   forbidden : SUBSET {ForbiddenRegion}, mtvec : {0, TrapHandler}, wfi : BOOLEAN,
   illegal_inst : BOOLEAN, unhandled_trap : BOOLEAN, illegal_jump : BOOLEAN,
   self_modifying : BOOLEAN, accessed_forbidden : BOOLEAN]

\* A filter of the processor has fired; something ended the run.
Flagged(p) == (p.illegal_jump /\ cfg.jumps) \/ p.self_modifying \/ p.accessed_forbidden
Ending(p, stuck) == p.illegal_inst \/ p.unhandled_trap \/ p.wfi \/ stuck

(***************************************************************************)
(* Instructions.                                                           *)
(***************************************************************************)
\* What an instruction that ArchSim may execute at pc looks like.
Legal(i, at) ==
  /\ i.op \in {"nop", "wfi", "illegal", "trap", "csrw", "jump", "load", "store"}
  /\ IsData(i) => /\ at \in Ram /\ i.addr \in Nat /\ i.len \in {1, 2}
                  /\ i.len = 2 => i.addr % Granule = 0
                  /\ i.addr \in Ram => i.ok = TRUE
                  /\ i.ok \in BOOLEAN
                  /\ i.ok = TRUE => i.addr \in Ram \cup OnBus
  /\ IsJump(i) => i.to \in Nat /\ i.to \in PcRange /\ {i.odd, i.ok} \subseteq BOOLEAN
  /\ at \notin Ram => i.op \in {"illegal", "trap", "jump"}
  /\ at \notin Ram /\ IsJump(i) => i.to \in Ram

\* The numbers of the address map.
LEMMA AddressMap ==
  /\ RamBase \in Nat /\ RamSize \in Nat /\ StuckLimit \in Nat
  /\ RamBase % 2 = 0 /\ RamSize % 2 = 0
  /\ OnBus \subseteq Nat /\ OnBus \cap Ram = {} /\ Rom \in OnBus /\ Rom \in Nat
  /\ DataAddrs \subseteq Nat /\ JumpTargets \subseteq Nat
  /\ MdsPage \in Ram /\ TrapHandler \in Ram /\ Ram \subseteq Nat
  /\ AllowedDevices \subseteq Nat \X Nat
  /\ PcRange \subseteq Nat /\ TrapHandler + 1 \in PcRange /\ TrapHandler \in PcRange
  /\ Rom \in PcRange /\ RamBase \in PcRange /\ RamBase \in Ram
  /\ \A u \in Ram : u \in PcRange /\ u + 1 \in PcRange
<1>1. /\ RamBase \in Nat /\ RamSize \in Nat /\ StuckLimit \in Nat
      /\ RamBase % 2 = 0 /\ RamSize % 2 = 0
      /\ OnBus \subseteq 0..(RamBase - 1) /\ Rom \in OnBus
      /\ DataAddrs \subseteq Nat /\ JumpTargets \subseteq Nat
      /\ MdsPage \in Ram /\ TrapHandler \in Ram
      /\ AllowedDevices \subseteq Nat \X Nat
  BY ArchSimAssumption DEF Granule
<1>2. OnBus \subseteq Nat /\ OnBus \cap Ram = {} /\ Rom \in Nat /\ Ram \subseteq Nat
  BY <1>1 DEF Ram
<1>3. \A u \in Ram : u \in PcRange /\ u + 1 \in PcRange
  BY <1>1 DEF Ram, PcRange
<1>4. PcRange \subseteq Nat /\ Rom \in PcRange /\ RamBase \in PcRange /\ RamBase \in Ram
  BY <1>1, <1>2 DEF PcRange, Ram
<1> QED BY <1>1, <1>2, <1>3, <1>4

\* Every instruction there is at a place is one of that shape.
LEMMA InstrsLegal ==
  ASSUME NEW at \in PcRange, NEW i \in InstrsAt(at)
  PROVE  Legal(i, at)
<1>1. CASE at \in Rom..(Rom + 1)
  <2>1. i = Jump(RamBase, FALSE, TRUE)
    BY <1>1 DEF InstrsAt
  <2>2. i.op = "jump" /\ i.to = RamBase /\ i.odd = FALSE /\ i.ok = TRUE
    BY <2>1 DEF Jump
  <2> QED BY <2>2, AddressMap DEF Legal, IsData, IsJump
<1>2. CASE at \notin Rom..(Rom + 1) /\ at \notin Ram
  <2>1. i \in {Plain("trap"), Plain("illegal")}
    <3>1. CASE at \in OnBus
      BY <1>2, <3>1 DEF InstrsAt
    <3>2. CASE at \notin OnBus
      BY <1>2, <3>2 DEF InstrsAt
    <3> QED BY <3>1, <3>2
  <2>2. i.op \in {"trap", "illegal"}
    BY <2>1 DEF Plain
  <2> QED BY <2>2, <1>2 DEF Legal, IsData, IsJump
<1>3. CASE at \notin Rom..(Rom + 1) /\ at \in Ram /\ ram[at][1] \in InitFiles
  <2>1. i \in InitInstrs(ram[at])
    BY <1>3, AddressMap DEF InstrsAt
  <2>2. CASE i \in {Plain("csrw"), Plain("illegal"), Plain("nop")}
    <3>1. i.op \in {"csrw", "illegal", "nop"}
      BY <2>2 DEF Plain
    <3> QED BY <3>1, <1>3 DEF Legal, IsData, IsJump
  <2>3. CASE i \in {Access(op, MdsPage, 1, TRUE) : op \in {"load", "store"}}
    <3>1. /\ i.op \in {"load", "store"} /\ i.addr = MdsPage /\ i.len = 1 /\ i.ok = TRUE
      BY <2>3 DEF Access
    <3>2. MdsPage \in Ram /\ MdsPage \in Nat
      BY AddressMap
    <3>3. i.addr \in Ram /\ i.addr \in Nat /\ i.len \in {1, 2} /\ i.len # 2
      BY <3>1, <3>2
    <3>4. i.ok \in BOOLEAN
      BY <3>1
    <3>5. IsData(i) /\ ~IsJump(i)
      BY <3>1 DEF IsData, IsJump
    <3> QED BY <3>1, <3>3, <3>4, <3>5, <1>3 DEF Legal
  <2> QED BY <2>1, <2>2, <2>3 DEF InitInstrs
<1>4. CASE at \notin Rom..(Rom + 1) /\ at \in Ram /\ ram[at][1] \notin InitFiles
  <2>1. i \in ProgramInstrs
    BY <1>4, AddressMap DEF InstrsAt
  <2>2. CASE i \in {Plain("nop"), Plain("wfi"), Plain("illegal"), Plain("trap")}
    <3>1. i.op \in {"nop", "wfi", "illegal", "trap"}
      BY <2>2 DEF Plain
    <3> QED BY <3>1, <1>4 DEF Legal, IsData, IsJump
  <2>3. CASE i \in UNION {{Jump(to, odd, ok) : ok \in Answers(to)} :
                             to \in JumpTargets, odd \in BOOLEAN}
    <3>1. PICK to \in JumpTargets, odd \in BOOLEAN :
            i \in {Jump(to, odd, ok) : ok \in Answers(to)}
      BY <2>3
    <3>2. i.op = "jump" /\ i.to = to /\ i.odd = odd /\ i.ok \in Answers(to)
      BY <3>1 DEF Jump
    <3>3. i.ok \in BOOLEAN
      BY <3>2 DEF Answers
    <3> QED BY <3>2, <3>3, <1>4, AddressMap DEF Legal, IsData, IsJump, PcRange
  <2>4. CASE i \in {j \in Accesses : j.len = 2 => j.addr % Granule = 0}
    <3>1. PICK op \in {"load", "store"}, len \in {1, 2}, a \in DataAddrs :
            i \in {Access(op, a, len, ok) : ok \in Answers(a)}
      BY <2>4 DEF Accesses
    <3>2. /\ i.op = op /\ i.addr = a /\ i.len = len /\ i.ok \in Answers(a)
      BY <3>1 DEF Access
    <3>3. i.len = 2 => i.addr % Granule = 0
      BY <2>4
    <3>4. /\ a \in Ram => i.ok = TRUE
          /\ i.ok \in BOOLEAN
          /\ i.ok = TRUE => a \in Ram \cup OnBus
      BY <3>2 DEF Answers
    <3> QED BY <3>2, <3>3, <3>4, <1>4, AddressMap DEF Legal, IsData, IsJump
  <2> QED BY <2>1, <2>2, <2>3, <2>4 DEF ProgramInstrs
<1> QED BY <1>1, <1>2, <1>3, <1>4

\* An aligned access is inside of RAM or outside of it.
LEMMA WholeAccess ==
  ASSUME NEW a \in Nat, NEW len \in {1, 2}, len = 2 => a % Granule = 0
  PROVE  IF a \in Ram THEN Units(a, len) \subseteq Ram ELSE Units(a, len) \cap Ram = {}
<1>1. RamBase \in Nat /\ RamSize \in Nat /\ RamBase % 2 = 0 /\ RamSize % 2 = 0
  BY AddressMap
<1>2. \A u : u \in Units(a, len) => u = a \/ (len = 2 /\ u = a + 1)
  BY DEF Units
<1>3. len = 2 => a % 2 = 0
  BY DEF Granule
<1>4. \A u \in {a, a + 1} : u \in Ram <=> RamBase <= u /\ u < RamBase + RamSize
  BY <1>1 DEF Ram
<1>5. len = 2 => (a \in Ram <=> a + 1 \in Ram)
  BY <1>1, <1>3, <1>4
<1> QED BY <1>2, <1>5

\* What executing an instruction does to the processor, flag by flag.
LEMMA ExecuteEffect ==
  ASSUME proc \in Procs, NEW i, Legal(i, proc.pc)
  PROVE  LET p == Execute(i)
         IN /\ p \in Procs
            /\ p.tracers = proc.tracers /\ p.code_regions = proc.code_regions
            /\ p.init_end = proc.init_end /\ p.forbidden = proc.forbidden
            /\ p.illegal_jump <=> proc.illegal_jump \/ (IsJump(i) /\ i.ok /\ jump_hook(i))
            /\ p.self_modifying <=>
                 proc.self_modifying \/ (i.op = "store" /\ i.ok /\ store_hook(i.addr))
            /\ p.accessed_forbidden <=>
                 proc.accessed_forbidden \/ (IsData(i) /\ i.ok /\ forbidden_hook(i.addr))
<1> DEFINE p == Execute(i)
           next == [proc EXCEPT !.pc = @ + 1]
<1>0. /\ proc.pc \in PcRange /\ proc.mtvec \in {0, TrapHandler} /\ proc.pc \in Nat
      /\ 0 \in PcRange
  BY AddressMap DEF Procs, PcRange
<1>1. CASE Fails(i)
  <2>1. p = [proc EXCEPT !.pc = proc.mtvec,
                         !.illegal_inst = proc.illegal_inst \/ i.op = "illegal",
                         !.unhandled_trap = proc.unhandled_trap \/ proc.mtvec = 0]
    <3>1. p = take_trap(proc, i.op = "illegal")
      BY <1>1 DEF Execute
    <3> HIDE DEF p
    <3> QED BY <3>1 DEF take_trap
  <2>2. proc.mtvec \in PcRange
    BY <1>0, AddressMap
  <2>3. p \in Procs
    BY <2>1, <2>2 DEF Procs
  <2>4. (IsJump(i) => ~i.ok) /\ (IsData(i) => ~i.ok)
    BY <1>1 DEF Fails
  <2> QED BY <2>1, <2>3, <2>4 DEF Procs, IsData
<1>2. CASE ~Fails(i) /\ IsJump(i)
  <2>1. i.ok /\ i.op = "jump"
    BY <1>2 DEF Fails, IsJump
  <2>2. p = [proc EXCEPT !.pc = i.to, !.illegal_jump = proc.illegal_jump \/ jump_hook(i)]
    BY <1>2, <2>1 DEF Execute
  <2>3. i.to \in PcRange
    BY <1>2 DEF Legal
  <2> QED BY <1>2, <2>1, <2>2, <2>3 DEF Procs, IsData
<1>3. CASE ~Fails(i) /\ i.op \in {"csrw", "wfi", "nop"}
  <2>0. proc.pc \in Ram
    BY <1>3 DEF Legal
  <2>1. proc.pc + 1 \in PcRange
    BY <2>0, AddressMap
  <2>2. CASE i.op = "csrw"
    <3>1. p = [next EXCEPT !.mtvec = TrapHandler, !.pc = TrapHandler + 1]
      BY <1>3, <2>2 DEF Execute, IsJump
    <3> QED BY <2>2, <3>1, AddressMap DEF Procs, IsData, IsJump
  <2>3. CASE i.op = "wfi"
    <3>1. p = [next EXCEPT !.wfi = TRUE]
      BY <1>3, <2>3 DEF Execute, IsJump
    <3> QED BY <2>1, <2>3, <3>1 DEF Procs, IsData, IsJump
  <2>4. CASE i.op = "nop"
    <3>1. p = next
      BY <1>3, <2>4 DEF Execute, IsJump
    <3> QED BY <2>1, <2>4, <3>1 DEF Procs, IsData, IsJump
  <2> QED BY <1>3, <2>2, <2>3, <2>4
<1>4. CASE ~Fails(i) /\ i.op \in {"load", "store"}
  <2>0. proc.pc \in Ram /\ IsData(i) /\ i.ok
    BY <1>4 DEF Legal, IsData, Fails
  <2>a. ~IsJump(i)
    BY <1>4 DEF IsJump
  <2>1. proc.pc + 1 \in PcRange
    BY <2>0, AddressMap
  <2>2. p = [next EXCEPT !.self_modifying = next.self_modifying
                                              \/ (i.op = "store" /\ store_hook(i.addr)),
                         !.accessed_forbidden = next.accessed_forbidden
                                                  \/ forbidden_hook(i.addr)]
    BY <1>4, <2>a DEF Execute
  <2> QED BY <1>4, <2>0, <2>1, <2>2, <2>a DEF Procs
<1>5. i.op \notin {"trap", "illegal"} \/ Fails(i)
  BY DEF Fails, IsData, IsJump
<1>6. \/ Fails(i) \/ IsJump(i) \/ i.op \in {"csrw", "wfi", "nop"}
      \/ i.op \in {"load", "store"}
  BY <1>5 DEF IsJump, Legal
<1> QED BY <1>1, <1>2, <1>3, <1>4, <1>6

(***************************************************************************)
(* The filters.                                                            *)
(***************************************************************************)
\* The processor and the harness agree on pages, regions and the end of the
\* init code, as they do while the program runs.
SetUp ==
  /\ cfg \in Configs /\ proc \in Procs
  /\ proc.forbidden = Pages
  /\ proc.code_regions = Regions /\ codeRegions = Regions
  /\ proc.init_end = RamBase + initSize /\ initSize = WarmSize + cfg.argInit

\* Where the regions of the program begin.
LEMMA RegionBounds ==
  ASSUME cfg \in Configs
  PROVE  /\ \A r \in Range(Regions) : /\ r[1] \in Nat /\ r[2] \in Nat
                                      /\ RamBase + (WarmSize + cfg.argInit) <= r[1]
         /\ Regions[1] \in Range(Regions)
         /\ WarmSize + cfg.argInit \in Nat
<1>1. /\ Len(Regions) \in Nat /\ Len(Regions) > 0
      /\ InProgram(Regions, WarmSize + cfg.argInit, WarmSize + cfg.file)
      /\ WarmSize + cfg.argInit \in Nat
  BY LayoutFits
<1>2. DOMAIN Regions = 1..Len(Regions)
  <2>1. CASE cfg.regions = <<>>
    BY <2>1 DEF Regions
  <2>2. CASE cfg.regions # <<>>
    <3>1. cfg.regions \in Seq(Nat \X Nat)
      BY ConfigsAssumption
    <3> QED BY <2>2, <3>1 DEF Regions
  <2> QED BY <2>1, <2>2
<1>3. \A r \in Range(Regions) : \E k \in 1..Len(Regions) : r = Regions[k]
  BY <1>2 DEF Range
<1>4. 1 \in DOMAIN Regions
  BY <1>1, <1>2
<1>5. Regions[1] \in Range(Regions)
  BY <1>4 DEF Range
<1>6. ASSUME NEW r \in Range(Regions)
      PROVE  /\ r[1] \in Nat /\ r[2] \in Nat
             /\ RamBase + (WarmSize + cfg.argInit) <= r[1]
  BY <1>1, <1>3 DEF InProgram
<1> QED BY <1>1, <1>5, <1>6

\* The same of the regions of this program, its default region included.
LEMMA RegionsOnGranules ==
  ASSUME cfg \in Configs, StartsOnGranules
  PROVE  /\ \A r \in Range(Regions) : r[1] % Granule = 0
         /\ Regions[1][1] = RamBase + (WarmSize + cfg.argInit)
<1>1. CASE cfg.regions = <<>>
  <2> DEFINE from == RamBase + (WarmSize + cfg.argInit)
             r1 == <<from, RamBase + (WarmSize + cfg.file)>>
  <2>1. Regions = <<r1>>
    BY <1>1 DEF Regions
  <2>2. r1[1] = from
    OBVIOUS
  <2>3. from % Granule = 0
    <3>1. (WarmSize + cfg.argInit) % 2 = 0 /\ RamBase % 2 = 0
      BY AddressMap DEF StartsOnGranules, WarmSize, Granule
    <3>2. WarmSize + cfg.argInit \in Nat /\ RamBase \in Nat
      BY RegionBounds, AddressMap
    <3>3. \A a, b \in Nat : a % 2 = 0 /\ b % 2 = 0 => (a + b) % 2 = 0
      OBVIOUS
    <3> QED BY <3>1, <3>2, <3>3 DEF Granule
  <2> HIDE DEF r1, from
  <2>4. Range(Regions) = {r1} /\ Regions[1] = r1
    BY <2>1 DEF Range
  <2> QED BY <2>2, <2>3, <2>4 DEF from
<1>2. CASE cfg.regions # <<>>
  <2>1. Regions = cfg.regions
    BY <1>2 DEF Regions
  <2> QED BY <1>2, <2>1 DEF StartsOnGranules, WarmSize
<1> QED BY <1>1, <1>2

\* The units of an access.
LEMMA AccessUnits ==
  ASSUME NEW a \in Nat, NEW len \in {1, 2}, NEW u
  PROVE  u \in Units(a, len) <=> u = a \/ (len = 2 /\ u = a + 1)
BY DEF Units

\* An access that reaches into something that starts on a granule starts in it.
LEMMA StartsInside ==
  ASSUME NEW a \in Nat, NEW len \in {1, 2}, len = 2 => a % Granule = 0,
         NEW lo \in Nat, lo % Granule = 0, NEW hi \in Nat,
         NEW u \in Units(a, len), lo <= u, u < hi
  PROVE  lo <= a /\ a < hi
<1>1. u = a \/ (len = 2 /\ u = a + 1)
  BY AccessUnits
<1>2. CASE u = a
  BY <1>2
<1>3. CASE len = 2 /\ u = a + 1
  <2>1. a % 2 = 0 /\ lo % 2 = 0
    BY <1>3 DEF Granule
  <2> QED BY <1>3, <2>1
<1> QED BY <1>1, <1>2, <1>3

\* What it means for an allowed device to be touched.
LEMMA TrustedUnit ==
  ASSUME NEW u \in Nat
  PROVE  u \in Trusted <=> \E d \in AllowedDevices : d[1] <= u /\ u < d[1] + d[2]
<1>1. \A d \in AllowedDevices : d[1] \in Nat /\ d[2] \in Nat
  BY AddressMap
<1>2. \A d \in AllowedDevices : u \in Units(d[1], d[2]) <=> d[1] <= u /\ u < d[1] + d[2]
  BY <1>1 DEF Units
<1> QED BY <1>2 DEF Trusted

\* The filters see every offence, of whatever kind.
LEMMA FiltersSee ==
  ASSUME SetUp, StartsOnGranules, NEW i, Legal(i, proc.pc), Offends(i)
  PROVE  Flagged(Execute(i)) \/ IllegalDevice(i)
<1> DEFINE p == Execute(i)
<1>0. /\ RamBase \in Nat /\ proc.pc \in Nat /\ initSize \in Nat
      /\ IsData(i) => i.addr \in Nat /\ i.len \in {1, 2} /\ (i.len = 2 => i.addr % Granule = 0)
  <2>1. proc.pc \in PcRange
    BY DEF SetUp, Procs
  <2> QED BY <2>1, AddressMap, RegionBounds DEF SetUp, Legal
<1>1. /\ p.illegal_jump <=> proc.illegal_jump \/ (IsJump(i) /\ i.ok /\ jump_hook(i))
      /\ p.self_modifying <=>
           proc.self_modifying \/ (i.op = "store" /\ i.ok /\ store_hook(i.addr))
      /\ p.accessed_forbidden <=>
           proc.accessed_forbidden \/ (IsData(i) /\ i.ok /\ forbidden_hook(i.addr))
  BY ExecuteEffect DEF SetUp
<1> HIDE DEF p
<1>2. CASE IsData(i) /\ i.ok /\ ByProgram /\ Touched(i) \cap Guarded # {}
  <2>1. PICK u \in Units(i.addr, i.len) : u \in Guarded
    BY <1>2 DEF Touched
  <2>2. Pages = {ForbiddenRegion}
        /\ u \in Units(ForbiddenRegion[1], ForbiddenRegion[2] - ForbiddenRegion[1])
    BY <2>1 DEF Guarded, Pages
  <2>3. ForbiddenRegion[1] \in Nat /\ ForbiddenRegion[2] \in Nat
    BY ConfigsAssumption
  <2>4. ForbiddenRegion[1] <= u /\ u < ForbiddenRegion[2]
    BY <2>2, <2>3 DEF Units
  <2>5. ForbiddenRegion[1] <= i.addr /\ i.addr < ForbiddenRegion[2]
    BY <1>0, <1>2, <2>3, <2>4, StartsInside DEF StartsOnGranules
  <2>6. ~(proc.pc < proc.init_end)
    BY <1>0, <1>2 DEF ByProgram, SetUp
  <2>7. forbidden_hook(i.addr)
    BY <1>0, <1>2, <2>2, <2>3, <2>5, <2>6 DEF forbidden_hook, SetUp
  <2> QED BY <1>1, <1>2, <2>7 DEF Flagged, p
<1>3. CASE IsData(i) /\ i.ok /\ ByProgram /\ i.op = "store" /\ InRegions(Touched(i))
  <2>1. PICK r \in Range(Regions) : \E u \in Units(i.addr, i.len) : u >= r[1] /\ u < r[2]
    BY <1>3 DEF InRegions, Touched, SetUp
  <2>2. PICK u \in Units(i.addr, i.len) : u >= r[1] /\ u < r[2]
    BY <2>1
  <2>3. r[1] \in Nat /\ r[2] \in Nat /\ r[1] % Granule = 0
    BY RegionBounds, RegionsOnGranules DEF SetUp
  <2>4. u \in Nat
    BY <1>0, <1>3, AccessUnits
  <2>5. r[1] <= i.addr /\ i.addr < r[2]
    BY <1>0, <1>3, <2>2, <2>3, <2>4, StartsInside
  <2>6. ~(proc.pc < proc.init_end)
    BY <1>0, <1>3 DEF ByProgram, SetUp
  <2>7. store_hook(i.addr)
    BY <1>0, <1>3, <2>3, <2>5, <2>6 DEF store_hook, is_inside_code_region, SetUp
  <2> QED BY <1>1, <1>3, <2>7 DEF Flagged, p
<1>4. CASE (Touched(i) \cup {proc.pc}) \cap (OnBus \ Trusted) # {}
  <2>1. PICK u \in Touched(i) \cup {proc.pc} : u \in OnBus /\ u \notin Trusted
    BY <1>4
  <2>2. u \in Nat /\ u \notin Ram
    BY <2>1, AddressMap
  <2>3. \A d \in AllowedDevices : d[1] \in Nat /\ d[2] \in Nat
    BY AddressMap
  <2>4. \A d \in AllowedDevices : ~(d[1] <= u /\ u < d[1] + d[2])
    BY <2>1, <2>2, TrustedUnit
  <2>5. CASE u = proc.pc
    <3>1. ~AccessesMmio(i) /\ ~TargetsMmio(i)
      BY <2>2, <2>5 DEF Legal, AccessesMmio, TargetsMmio
    <3>2. ~is_allowed_device(proc.pc, 1)
      BY <2>1, <2>2, <2>3, <2>4, <2>5 DEF is_allowed_device
    <3> QED BY <2>2, <2>5, <3>1, <3>2 DEF IllegalDevice, FetchesMmio
  <2>6. CASE IsData(i) /\ u \in Units(i.addr, i.len)
    <3>1. u = i.addr \/ (i.len = 2 /\ u = i.addr + 1)
      BY <1>0, <2>6, AccessUnits
    <3>2. i.addr \notin Ram
      BY <1>0, <2>2, <2>6, WholeAccess
    <3>3. i.addr \in OnBus
      <4>1. CASE u = i.addr
        BY <2>1, <4>1
      <4>2. CASE i.len = 2 /\ u = i.addr + 1
        <5>1. u % Granule # 0 /\ u - 1 = i.addr
          BY <1>0, <2>6, <4>2 DEF Granule
        <5> QED BY <2>1, <5>1 DEF StartsOnGranules
      <4> QED BY <3>1, <4>1, <4>2
    <3>4. ~is_allowed_device(i.addr, i.len)
      <4>1. ASSUME NEW d \in AllowedDevices, i.addr >= d[1], i.addr + i.len < d[1] + d[2]
            PROVE  FALSE
        <5>1. d[1] <= u /\ u < d[1] + d[2]
          BY <1>0, <2>3, <2>6, <3>1, <4>1
        <5> QED BY <2>4, <5>1
      <4> QED BY <3>3, <4>1 DEF is_allowed_device
    <3> QED BY <2>6, <3>2, <3>4 DEF IllegalDevice, AccessesMmio
  <2>7. CASE IsJump(i) /\ u = i.to
    <3>1. ~AccessesMmio(i) /\ TargetsMmio(i)
      BY <2>2, <2>7 DEF AccessesMmio, TargetsMmio, IsData, IsJump
    <3>2. \A len \in {0, 1} : ~is_allowed_device(i.to, len)
      BY <2>1, <2>2, <2>3, <2>4, <2>7 DEF is_allowed_device
    <3> QED BY <3>1, <3>2 DEF IllegalDevice
  <2> QED BY <2>1, <2>5, <2>6, <2>7 DEF Touched
<1>5. CASE /\ IsJump(i) /\ i.ok /\ cfg.jumps /\ ByProgram
           /\ \/ ~InRegions({i.to}) \/ i.odd
              \/ i.to \in (proc.pc - 1)..(proc.pc + 1)
  <2>1. ~(proc.pc < proc.code_regions[1][1])
    <3>1. proc.code_regions[1][1] = RamBase + initSize
      BY RegionsOnGranules DEF SetUp
    <3> QED BY <1>0, <1>5, <3>1 DEF ByProgram
  <2>2. i.to \in Nat
    BY <1>5 DEF Legal
  <2>3. is_inside_code_region(i.to) => InRegions({i.to})
    BY DEF is_inside_code_region, InRegions, SetUp
  <2>4. i.to \in (proc.pc - 1)..(proc.pc + 1) =>
          \/ i.to >= proc.pc /\ i.to < proc.pc + Granule
          \/ i.to < proc.pc /\ i.to > proc.pc - Granule
    BY <1>0, <2>2 DEF Granule
  <2>5. jump_hook(i)
    BY <1>5, <2>1, <2>3, <2>4 DEF jump_hook
  <2> QED BY <1>1, <1>5, <2>5 DEF Flagged, p
<1> QED BY <1>2, <1>3, <1>4, <1>5 DEF Offends

\* And they see nothing else, except the last unit of an allowed device.
LEMMA FiltersHaveCause ==
  ASSUME SetUp, NEW i, Legal(i, proc.pc), ~Flagged(proc),
         proc.pc = Rom \/ ~illegal_device,
         Flagged(Execute(i)) \/ IllegalDevice(i)
  PROVE  Offends(i) \/ \E d \in AllowedDevices : d[1] + d[2] - 1 \in MmioUnits(i)
<1> DEFINE p == Execute(i)
<1>0. /\ RamBase \in Nat /\ proc.pc \in Nat /\ initSize \in Nat
      /\ IsData(i) => i.addr \in Nat /\ i.len \in {1, 2} /\ (i.len = 2 => i.addr % Granule = 0)
  <2>1. proc.pc \in PcRange
    BY DEF SetUp, Procs
  <2> QED BY <2>1, AddressMap, RegionBounds DEF SetUp, Legal
<1>1. /\ p.illegal_jump <=> proc.illegal_jump \/ (IsJump(i) /\ i.ok /\ jump_hook(i))
      /\ p.self_modifying <=>
           proc.self_modifying \/ (i.op = "store" /\ i.ok /\ store_hook(i.addr))
      /\ p.accessed_forbidden <=>
           proc.accessed_forbidden \/ (IsData(i) /\ i.ok /\ forbidden_hook(i.addr))
  BY ExecuteEffect DEF SetUp
<1> HIDE DEF p
<1>a. IsData(i) => i.addr \in Units(i.addr, i.len)
  BY <1>0, AccessUnits
<1>b. ~(proc.pc < proc.init_end) => ByProgram
  BY <1>0 DEF ByProgram, SetUp
<1>2. CASE IsJump(i) /\ i.ok /\ cfg.jumps /\ jump_hook(i)
  <2>1. ~(proc.pc < Regions[1][1])
    BY <1>2 DEF jump_hook, SetUp
  <2>2. ByProgram
    <3>1. Regions[1][1] \in Nat /\ RamBase + initSize <= Regions[1][1]
      BY RegionBounds DEF SetUp
    <3> QED BY <1>0, <2>1, <3>1 DEF ByProgram
  <2>3. InRegions({i.to}) => is_inside_code_region(i.to)
    BY DEF is_inside_code_region, InRegions, SetUp
  <2>4. i.to \in Nat
    BY <1>2 DEF Legal
  <2>5. \/ ~InRegions({i.to}) \/ i.odd
        \/ i.to \in (proc.pc - 1)..(proc.pc + 1)
    <3>1. (i.to >= proc.pc /\ i.to < proc.pc + Granule)
            \/ (i.to < proc.pc /\ i.to > proc.pc - Granule)
          => i.to \in (proc.pc - 1)..(proc.pc + 1)
      BY <1>0, <2>4 DEF Granule
    <3> QED BY <1>2, <2>3, <3>1 DEF jump_hook
  <2> QED BY <1>2, <2>2, <2>5 DEF Offends
<1>3. CASE i.op = "store" /\ i.ok /\ store_hook(i.addr)
  <2>1. IsData(i)
    BY <1>3 DEF IsData
  <2>2. InRegions(Units(i.addr, i.len))
    BY <1>3, <1>a, <2>1 DEF InRegions, store_hook, is_inside_code_region, SetUp
  <2>3. ByProgram
    BY <1>3, <1>b DEF store_hook
  <2> QED BY <1>3, <2>1, <2>2, <2>3 DEF Offends, Touched
<1>4. CASE IsData(i) /\ i.ok /\ forbidden_hook(i.addr)
  <2>1. PICK r \in Pages : i.addr >= r[1] /\ i.addr < r[2]
    BY <1>4 DEF forbidden_hook, SetUp
  <2>2. r = ForbiddenRegion
        /\ Guarded = Units(ForbiddenRegion[1], ForbiddenRegion[2] - ForbiddenRegion[1])
    BY <2>1 DEF Pages, Guarded
  <2>3. ForbiddenRegion[1] \in Nat /\ ForbiddenRegion[2] \in Nat
    BY ConfigsAssumption
  <2>4. i.addr \in Guarded
    BY <1>0, <1>4, <2>1, <2>2, <2>3 DEF Units
  <2>5. ByProgram
    BY <1>4, <1>b DEF forbidden_hook
  <2> QED BY <1>4, <1>a, <2>4, <2>5 DEF Offends, Touched
<1>5. CASE IllegalDevice(i) /\ AccessesMmio(i)
  <2>1. /\ IsData(i) /\ i.addr \notin Ram
        /\ i.addr \in OnBus
        /\ \A d \in AllowedDevices : ~(i.addr >= d[1] /\ i.addr + i.len < d[1] + d[2])
    BY <1>5 DEF IllegalDevice, AccessesMmio, is_allowed_device
  <2>2. CASE i.addr \notin Trusted
    BY <1>a, <2>1, <2>2 DEF Offends, Touched
  <2>3. CASE i.addr \in Trusted
    <3>1. PICK d \in AllowedDevices : d[1] <= i.addr /\ i.addr < d[1] + d[2]
      BY <1>0, <2>1, <2>3, TrustedUnit
    <3>2. d[1] \in Nat /\ d[2] \in Nat
      BY AddressMap
    <3>3. ~(i.addr + i.len < d[1] + d[2])
      BY <1>0, <2>1, <3>1, <3>2
    <3>4. d[1] + d[2] - 1 \in Units(i.addr, i.len)
      BY <1>0, <2>1, <3>1, <3>2, <3>3 DEF Units
    <3> QED BY <1>5, <2>1, <3>4 DEF MmioUnits, Touched
  <2> QED BY <2>2, <2>3
<1>c. CASE IllegalDevice(i) /\ TargetsMmio(i)
  <2> DEFINE len == IF i.odd THEN 1 ELSE 0
  <2>1. /\ IsJump(i) /\ ~IsData(i) /\ i.to \in Nat /\ i.to \notin Ram
        /\ i.to \in Touched(i) /\ len \in {0, 1}
    BY <1>c DEF TargetsMmio, Touched, IsJump, IsData, Legal
  <2>2. ~is_allowed_device(i.to, len)
    BY <1>c, <2>1 DEF IllegalDevice, AccessesMmio
  <2> HIDE DEF len
  <2>3. /\ i.to \in OnBus
        /\ \A d \in AllowedDevices : ~(i.to >= d[1] /\ i.to + len < d[1] + d[2])
    BY <2>2 DEF is_allowed_device
  <2>4. CASE i.to \notin Trusted
    BY <2>1, <2>3, <2>4 DEF Offends
  <2>5. CASE i.to \in Trusted
    <3>1. PICK d \in AllowedDevices : d[1] <= i.to /\ i.to < d[1] + d[2]
      BY <2>1, <2>5, TrustedUnit
    <3>2. d[1] \in Nat /\ d[2] \in Nat
      BY AddressMap
    <3>3. d[1] + d[2] - 1 = i.to
      BY <2>1, <2>3, <3>1, <3>2
    <3> QED BY <1>c, <2>1, <3>3 DEF MmioUnits
  <2> QED BY <2>4, <2>5
<1>6. CASE IllegalDevice(i) /\ ~AccessesMmio(i) /\ ~TargetsMmio(i) /\ FetchesMmio
  <2>1. /\ proc.pc \in OnBus
        /\ \A d \in AllowedDevices : ~(proc.pc >= d[1] /\ proc.pc + 1 < d[1] + d[2])
    BY <1>6 DEF IllegalDevice, is_allowed_device
  <2>2. CASE proc.pc \notin Trusted
    BY <2>1, <2>2 DEF Offends
  <2>3. CASE proc.pc \in Trusted
    <3>1. PICK d \in AllowedDevices : d[1] <= proc.pc /\ proc.pc < d[1] + d[2]
      BY <1>0, <2>3, TrustedUnit
    <3>2. d[1] \in Nat /\ d[2] \in Nat
      BY AddressMap
    <3>3. d[1] + d[2] - 1 = proc.pc
      BY <1>0, <2>1, <3>1, <3>2
    <3> QED BY <1>6, <3>3 DEF MmioUnits
  <2> QED BY <2>2, <2>3
<1>7. CASE IllegalDevice(i) /\ ~AccessesMmio(i) /\ ~TargetsMmio(i) /\ ~FetchesMmio
  <2>1. illegal_device
    BY <1>7 DEF IllegalDevice
  <2>2. proc.pc # Rom
    BY <1>7, AddressMap DEF FetchesMmio
  <2> QED BY <2>1, <2>2
<1> QED BY <1>1, <1>2, <1>3, <1>4, <1>5, <1>c, <1>6, <1>7 DEF Flagged, p

(***************************************************************************)
(* The inductive invariant.                                                *)
(***************************************************************************)
\* The processor: what it is told at Load, and what it has not done before.
ProcInv ==
  /\ proc \in Procs
  /\ proc.forbidden = IF pc = "warmup" THEN {} ELSE Pages
  /\ pc \in {"arch", "cycle"} =>
       proc.code_regions = Regions /\ proc.init_end = RamBase + initSize
  /\ first.runs = 0 => proc.tracers = TRUE
  /\ pc \in {"warmup", "load"} => ~Flagged(proc)

\* main and the loop of the architectural run.
LoopInv ==
  /\ pc \in {"warmup", "load", "arch", "cycle", "done"}
  /\ curTaintSrc = IF first.runs = 0 THEN "ALL" ELSE "STORE_BUFFER"
  /\ outcome \in {"none", "discarded", "clean", "exit", "crash"}
  /\ {initSize, programSize} \subseteq 0..RamSize
  /\ labels \subseteq Ram
  /\ max_cycles \in Nat /\ tick \in 0..max_cycles
  /\ status \in {"idle", "running", "ended", "discarded"}
  /\ status = "running" => pc = "arch" /\ tick < max_cycles
  /\ pc = "cycle" => status = "ended"

\* The recorders agree with what the program did, as long as they are
\* registered; what they hold is of this run.
RecordInv ==
  /\ memRecorder = [loads |-> memRecorder.loads, stores |-> memRecorder.stores]
  /\ memRecorder.loads \subseteq Ram /\ memRecorder.stores \subseteq Ram
  /\ fetchRecorder = [fetches |-> fetchRecorder.fetches,
                      last_accessed |-> fetchRecorder.last_accessed,
                      n_same_inst |-> fetchRecorder.n_same_inst,
                      stuck |-> fetchRecorder.stuck]
  /\ mmio \cap Ram = {}
  /\ hist = [read |-> hist.read, written |-> hist.written, executed |-> hist.executed,
             offence |-> hist.offence]
  /\ pc \in {"warmup", "load"} =>
       fetchRecorder.fetches = {} /\ memRecorder = NoData /\ mmio = {}
  /\ pc \in {"arch", "cycle"} /\ first.runs = 0 =>
       /\ fetchRecorder.fetches \cap Ram = hist.executed
       /\ memRecorder.loads = hist.read /\ memRecorder.stores = hist.written
  /\ pc = "cycle" =>
       labels = IF first.runs = 0 THEN Ram \ Granules(hist.read \cup hist.executed) ELSE {}

RunInv == IInv /\ ImageInv /\ ProcInv /\ LoopInv /\ RecordInv

\* The test case starts like that.
LEMMA RunInit == Init => ProcInv /\ LoopInv /\ RecordInv
<1> SUFFICES ASSUME Init PROVE ProcInv /\ LoopInv /\ RecordInv
  OBVIOUS
<1>1. proc = [pc |-> Rom, tracers |-> TRUE, code_regions |-> <<>>, init_end |-> 0,
              forbidden |-> {}, mtvec |-> 0, wfi |-> FALSE, illegal_inst |-> FALSE,
              unhandled_trap |-> FALSE, illegal_jump |-> FALSE, self_modifying |-> FALSE,
              accessed_forbidden |-> FALSE]
  BY DEF Init, ArchInit, initProc, NewProc
<1>2. Rom \in PcRange
  BY AddressMap
<1>3. pc = "warmup"
  BY DEF Init
<1>4. ProcInv
  <2>1. proc \in Procs
    BY <1>1, <1>2 DEF Procs
  <2> QED BY <1>1, <1>3, <2>1 DEF ProcInv, Flagged
<1>5. LoopInv
  BY ArchSimAssumption DEF Init, ArchInit, LoopInv, NoFirst
<1>6. RecordInv
  <2>1. /\ fetchRecorder = [fetches |-> {}, last_accessed |-> 0, n_same_inst |-> 0,
                            stuck |-> FALSE]
        /\ memRecorder = [loads |-> {}, stores |-> {}] /\ mmio = {}
        /\ hist = [read |-> {}, written |-> {}, executed |-> {}, offence |-> 0]
    BY DEF Init, ArchInit, NoData, NoHist
  <2> QED BY <1>3, <2>1 DEF RecordInv, NoData
<1> QED BY <1>4, <1>5, <1>6

\* Init code is loaded, a page may be guarded.
LEMMA WarmupRun ==
  ASSUME RunInv, Warmup PROVE ProcInv' /\ LoopInv' /\ RecordInv'
<1>0. /\ cfg \in Configs /\ pc = "warmup" /\ initSize = 0
      /\ cfg.init \in Nat /\ cfg.mdsInit \in Nat /\ cfg.argInit \in Nat /\ cfg.file \in Nat
      /\ WarmSize \in Nat /\ WarmSize + cfg.file <= RamSize
      /\ RamBase \in Nat /\ RamSize \in Nat
  <2>1. cfg \in Configs /\ pc = "warmup" /\ initSize = 0
    BY DEF RunInv, IInv, LayoutInv, Warmup
  <2> QED BY <2>1, ConfigSizes, LayoutFits, AddressMap
<1>1. /\ pc' = "load" /\ labels' = Ram
      /\ UNCHANGED <<cfg, curTaintSrc, programSize, codeRegions, outcome, hist, first,
                     fetchRecorder, memRecorder, mmio, max_cycles, tick, status>>
  BY <1>0 DEF Warmup, setForbiddenRegion, archVars
<1>2. initSize' = WarmSize
  <2>1. IInv'
    BY WarmupInv DEF RunInv
  <2>2. WarmSize' = WarmSize
    BY <1>1 DEF WarmSize
  <2> QED BY <1>1, <2>1, <2>2 DEF IInv, LayoutInv
<1>3. proc' = [proc EXCEPT !.forbidden = Pages]
  <2>1. proc \in Procs /\ proc.forbidden = {}
    BY <1>0 DEF RunInv, ProcInv
  <2>2. CASE cfg.mds /\ cfg.mdsInit > 0
    <3>1. proc' = [proc EXCEPT !.forbidden = @ \cup {ForbiddenRegion}]
      BY <2>2 DEF Warmup, setForbiddenRegion
    <3> QED BY <2>1, <2>2, <3>1 DEF Pages, Procs
  <2>3. CASE ~(cfg.mds /\ cfg.mdsInit > 0)
    <3>1. proc' = proc
      BY <2>3 DEF Warmup, archVars
    <3> QED BY <2>1, <2>3, <3>1 DEF Pages, Procs
  <2> QED BY <2>2, <2>3
<1>4. Pages' = Pages /\ Regions' = Regions /\ Procs' = Procs
  BY <1>1 DEF Pages, Regions, WarmSize, Procs
<1>5. ProcInv'
  <2>1. Pages \in SUBSET {ForbiddenRegion}
    BY DEF Pages
  <2>2. proc' \in Procs /\ proc'.forbidden = Pages /\ proc'.tracers = proc.tracers
    BY <1>3, <2>1 DEF RunInv, ProcInv, Procs
  <2>3. Flagged(proc)' <=> Flagged(proc)
    BY <1>1, <1>3 DEF Flagged, RunInv, ProcInv, Procs
  <2> QED BY <1>0, <1>1, <1>4, <2>2, <2>3 DEF RunInv, ProcInv
<1>6. LoopInv'
  BY <1>0, <1>1, <1>2 DEF RunInv, LoopInv
<1>7. RecordInv'
  BY <1>0, <1>1 DEF RunInv, RecordInv, NoData
<1> QED BY <1>5, <1>6, <1>7

\* The program is loaded and ArchSim told about it.
LEMMA LoadRun ==
  ASSUME RunInv, Load PROVE ProcInv' /\ LoopInv' /\ RecordInv'
<1>0. /\ cfg \in Configs /\ pc = "load"
      /\ cfg.init \in Nat /\ cfg.mdsInit \in Nat /\ cfg.argInit \in Nat /\ cfg.file \in Nat
      /\ WarmSize \in Nat /\ WarmSize + cfg.file <= RamSize
      /\ WarmSize + cfg.argInit <= WarmSize + cfg.file
      /\ RamBase \in Nat /\ RamSize \in Nat
  <2>1. cfg \in Configs /\ pc = "load"
    BY DEF RunInv, IInv, LayoutInv, Load
  <2> QED BY <2>1, ConfigSizes, LayoutFits, AddressMap
<1>1. /\ pc' = "arch" /\ hist' = NoHist /\ UNCHANGED <<cfg, curTaintSrc, outcome>>
      /\ first'.runs = first.runs
  BY DEF Load, RunInv, IInv, LayoutInv
<1>2. <<initSize', programSize', codeRegions'>> = Layout
  <2>1. IInv'
    BY LoadInv DEF RunInv
  <2>2. Layout' = Layout
    BY <1>1 DEF Layout, Regions, WarmSize
  <2> QED BY <1>1, <2>1, <2>2 DEF IInv, LayoutInv
<1>3. /\ initSize' = WarmSize + cfg.argInit /\ programSize' = WarmSize + cfg.file
      /\ codeRegions' = Regions
  BY <1>2 DEF Layout
<1>4. /\ proc' = [proc EXCEPT !.code_regions = codeRegions', !.init_end = RamBase + initSize']
      /\ tick' = 0 /\ status' = IF max_cycles' > 0 THEN "running" ELSE "ended"
      /\ UNCHANGED <<fetchRecorder, memRecorder, mmio>>
  BY DEF Load, loadProgram
<1>5. max_cycles' \in Nat /\ labels' = Ram
  <2>1. ImageInv' /\ max_cycles' \in Nat
    BY LoadImage DEF RunInv
  <2> QED BY <1>1, <2>1 DEF ImageInv
<1>6. Pages' = Pages /\ Regions' = Regions /\ Procs' = Procs
  BY <1>1 DEF Pages, Regions, WarmSize, Procs
<1>7. ProcInv'
  <2>1. proc \in Procs /\ proc.forbidden = Pages /\ RamBase + initSize' \in Nat
    BY <1>0, <1>3 DEF RunInv, ProcInv
  <2>2. /\ proc' \in Procs /\ proc'.forbidden = Pages /\ proc'.tracers = proc.tracers
        /\ proc'.code_regions = Regions /\ proc'.init_end = RamBase + initSize'
    BY <1>3, <1>4, <2>1 DEF Procs
  <2> QED BY <1>1, <1>6, <2>2 DEF RunInv, ProcInv
<1>8. LoopInv'
  BY <1>0, <1>1, <1>3, <1>4, <1>5 DEF RunInv, LoopInv
<1>9. RecordInv'
  <2>1. hist' = [read |-> {}, written |-> {}, executed |-> {}, offence |-> 0]
    BY <1>1 DEF NoHist
  <2> QED BY <1>0, <1>1, <1>4, <2>1 DEF RunInv, RecordInv, NoData
<1> QED BY <1>7, <1>8, <1>9

\* A run that ends in labels or in a report.
LEMMA EndRun ==
  ASSUME RunInv,
         Discard \/ CycleQuiet \/ \E reason \in Reasons : CycleReport(reason)
  PROVE  ProcInv' /\ LoopInv' /\ RecordInv'
<1>1. /\ pc' = "done" /\ pc # "warmup" /\ pc # "load" /\ status # "running"
      /\ outcome' \in {"discarded", "clean", "exit", "crash"}
      /\ UNCHANGED <<archVars, cfg, curTaintSrc, simVars, hist, first>>
  BY DEF Discard, CycleQuiet, CycleReport, RunInv, LoopInv
<1>2. Pages' = Pages /\ Regions' = Regions /\ Procs' = Procs
  BY <1>1 DEF Pages, Regions, WarmSize, Procs
<1>3. ProcInv'
  BY <1>1, <1>2 DEF RunInv, ProcInv, archVars
<1>4. LoopInv'
  BY <1>1 DEF RunInv, LoopInv, archVars, simVars
<1>5. RecordInv'
  BY <1>1 DEF RunInv, RecordInv, archVars
<1> QED BY <1>3, <1>4, <1>5

\* A unit is untainted with its granule.
LEMMA GranulesOnlyRam ==
  ASSUME NEW us, NEW vs, us \cap Ram = vs \cap Ram
  PROVE  Granules(us) = Granules(vs)
BY DEF Granules

\* What the lists together untaint.
LEMMA GranulesUnion ==
  ASSUME NEW us, NEW vs
  PROVE  Granules(us) \cup Granules(vs) = Granules(us \cup vs)
BY DEF Granules

\* The labels are set from what the recorders hold.
LEMMA ResultsRun ==
  ASSUME RunInv, Results PROVE ProcInv' /\ LoopInv' /\ RecordInv'
<1>1. /\ pc = "arch" /\ pc' = "cycle" /\ status \in {"ended", "discarded"} /\ Addrs # {}
      /\ labels' = TaintFor(Insts, Addrs)
      /\ UNCHANGED <<archVars, cfg, curTaintSrc, initSize, programSize, codeRegions,
                     outcome, hist, first>>
  BY DEF Results
<1>2. /\ Addrs = memRecorder.loads \cup mmio /\ Insts = fetchRecorder.fetches \cap Ram
      /\ status = "ended"
  BY <1>1 DEF Addrs, Insts, Ticks, getAccessedMem, getExecutedInsts
<1>3. labels = Ram /\ Units(RamBase, programSize) \subseteq Ram
  <2>1. labels = Ram
    BY <1>1 DEF RunInv, ImageInv
  <2>2. programSize \in 0..RamSize
    BY DEF RunInv, LoopInv
  <2> QED BY <2>1, <2>2, AddressMap DEF Units, Ram
<1>4. labels' = IF first.runs = 0 THEN Ram \ Granules(hist.read \cup hist.executed) ELSE {}
  <2>1. CASE first.runs # 0
    <3>1. curTaintSrc = "STORE_BUFFER"
      BY <2>1 DEF RunInv, LoopInv
    <3> QED BY <1>1, <2>1, <3>1 DEF TaintFor
  <2>2. CASE first.runs = 0
    <3>1. curTaintSrc = "ALL"
      BY <2>2 DEF RunInv, LoopInv
    <3>2. labels' = Ram \ (Granules(Insts) \cup Granules(Addrs))
      BY <1>1, <1>3, <3>1 DEF TaintFor
    <3>3. (Insts \cup Addrs) \cap Ram = (hist.read \cup hist.executed) \cap Ram
      BY <1>1, <1>2, <2>2 DEF RunInv, RecordInv
    <3>4. Granules(Insts) \cup Granules(Addrs) = Granules(Insts \cup Addrs)
      BY GranulesUnion
    <3>5. Granules(Insts \cup Addrs) = Granules(hist.read \cup hist.executed)
      BY <3>3, GranulesOnlyRam
    <3> QED BY <2>2, <3>2, <3>4, <3>5
  <2> QED BY <2>1, <2>2
<1>5. Pages' = Pages /\ Regions' = Regions /\ Procs' = Procs
  BY <1>1 DEF Pages, Regions, WarmSize, Procs
<1>6. ProcInv'
  BY <1>1, <1>5 DEF RunInv, ProcInv, archVars
<1>7. LoopInv'
  <2>1. labels' \subseteq Ram
    BY <1>4
  <2> QED BY <1>1, <1>2, <2>1 DEF RunInv, LoopInv, archVars
<1>8. RecordInv'
  <2>1. \A us : Granules(us)' = Granules(us)
    BY DEF Granules, GranuleOf
  <2> QED BY <1>1, <1>4, <2>1 DEF RunInv, RecordInv, archVars
<1> QED BY <1>6, <1>7, <1>8

\* The second run: ArchSim has a new processor, and nothing recorded.
LEMMA AgainRun ==
  ASSUME RunInv, NEW reason \in Reasons, CycleAgain(reason)
  PROVE  ProcInv' /\ LoopInv' /\ RecordInv'
<1>1. /\ pc = "cycle" /\ pc' = "warmup" /\ initSize' = 0
      /\ RunsAgain(reason) /\ curTaintSrc' = getNextTaintSource(curTaintSrc)
      /\ first' = [first EXCEPT !.runs = 1, !.reason = reason]
      /\ proc' = NewProc
      /\ fetchRecorder' = [fetchRecorder EXCEPT !.fetches = {}]
      /\ memRecorder' = NoData /\ mmio' = {}
      /\ UNCHANGED <<cfg, programSize, codeRegions, labels, outcome, hist,
                     max_cycles, tick, status>>
  BY DEF CycleAgain, simReset, reset
<1>2. first'.runs = 1
  BY <1>1 DEF RunInv, IInv, LayoutInv
<1>3. curTaintSrc' = "STORE_BUFFER"
  BY <1>1 DEF RunsAgain, getNextTaintSource
<1>4. Regions' = Regions /\ Procs' = Procs
  BY <1>1 DEF Regions, WarmSize, Procs
<1>5. ProcInv'
  <2>1. proc' = [pc |-> Rom, tracers |-> FALSE, code_regions |-> <<>>, init_end |-> 0,
                 forbidden |-> {}, mtvec |-> 0, wfi |-> FALSE, illegal_inst |-> FALSE,
                 unhandled_trap |-> FALSE, illegal_jump |-> FALSE,
                 self_modifying |-> FALSE, accessed_forbidden |-> FALSE]
    BY <1>1 DEF NewProc
  <2>2. proc' \in Procs
    BY <2>1, AddressMap DEF Procs
  <2>3. ~Flagged(proc)'
    BY <2>1 DEF Flagged
  <2> QED BY <1>1, <1>2, <1>4, <2>1, <2>2, <2>3 DEF ProcInv
<1>6. LoopInv'
  BY <1>1, <1>2, <1>3, AddressMap DEF RunInv, LoopInv
<1>7. RecordInv'
  <2>1. fetchRecorder' = [fetches |-> {}, last_accessed |-> fetchRecorder.last_accessed,
                          n_same_inst |-> fetchRecorder.n_same_inst,
                          stuck |-> fetchRecorder.stuck]
    BY <1>1 DEF RunInv, RecordInv
  <2>2. memRecorder' = [loads |-> {}, stores |-> {}] /\ mmio' = {} /\ hist' = hist
    BY <1>1 DEF NoData
  <2>3. /\ fetchRecorder'.fetches = {}
        /\ fetchRecorder'.last_accessed = fetchRecorder.last_accessed
        /\ fetchRecorder'.n_same_inst = fetchRecorder.n_same_inst
        /\ fetchRecorder'.stuck = fetchRecorder.stuck
    BY <2>1
  <2>4. memRecorder'.loads = {} /\ memRecorder'.stores = {} /\ memRecorder' = NoData
    BY <2>2 DEF NoData
  <2>5. hist' = [read |-> hist'.read, written |-> hist'.written, executed |-> hist'.executed,
                 offence |-> hist'.offence]
    BY <2>2 DEF RunInv, RecordInv
  <2>6. fetchRecorder' = [fetches |-> fetchRecorder'.fetches,
                          last_accessed |-> fetchRecorder'.last_accessed,
                          n_same_inst |-> fetchRecorder'.n_same_inst,
                          stuck |-> fetchRecorder'.stuck]
    BY <2>1, <2>3
  <2>7. memRecorder' = [loads |-> memRecorder'.loads, stores |-> memRecorder'.stores]
    BY <2>2, <2>4
  <2> HIDE DEF NoData
  <2> QED BY <1>1, <2>2, <2>3, <2>4, <2>5, <2>6, <2>7 DEF RecordInv
<1> QED BY <1>5, <1>6, <1>7

\* The fetch recorder sees the fetches of one program.
LEMMA FetchTraced ==
  ASSUME NEW r, NEW at
  PROVE  LET t == TraceFetch(r, at)
         IN /\ t = [fetches |-> t.fetches, last_accessed |-> t.last_accessed,
                    n_same_inst |-> t.n_same_inst, stuck |-> t.stuck]
            /\ t.fetches = r.fetches \cup {at}
BY DEF TraceFetch

\* ArchSim takes a step: what the recorders note down is what the program did.
LEMMA ArchStepRun ==
  ASSUME RunInv, ArchStep PROVE ProcInv' /\ LoopInv' /\ RecordInv'
<1>1. PICK i \in InstrsAt(proc.pc) : step(i, cfg.jumps) /\ hist' = Record(i)
  BY DEF ArchStep
<1>2. /\ pc = "arch" /\ pc' = "arch"
      /\ UNCHANGED <<cfg, curTaintSrc, initSize, programSize, codeRegions, labels,
                     outcome, first>>
  BY DEF ArchStep, simVars
<1>3. /\ status = "running" /\ proc' = Execute(i)
      /\ fetchRecorder' = IF proc.tracers /\ proc.pc \in Ram \cup OnBus
                            THEN TraceFetch(fetchRecorder, proc.pc) ELSE fetchRecorder
      /\ memRecorder' = IF proc.tracers /\ ToRam(i) THEN TraceData(memRecorder, i)
                        ELSE memRecorder
      /\ mmio' = mmio \cup MmioUnits(i)
      /\ tick' = tick + 1 /\ max_cycles' = max_cycles
      /\ status' = HowItEnds(proc', fetchRecorder'.stuck, illegal_device', cfg.jumps)
  BY <1>1 DEF step
<1>4. proc \in Procs /\ proc.pc \in PcRange /\ proc.pc \in Nat
  <2>1. proc \in Procs
    BY DEF RunInv, ProcInv
  <2> QED BY <2>1, AddressMap DEF Procs
<1>5. Legal(i, proc.pc)
  BY <1>1, <1>4, InstrsLegal
<1>6. Pages' = Pages /\ Regions' = Regions /\ Procs' = Procs
  BY <1>2 DEF Pages, Regions, WarmSize, Procs
<1>7. ProcInv'
  <2>1. /\ proc' \in Procs
        /\ proc'.tracers = proc.tracers /\ proc'.code_regions = proc.code_regions
        /\ proc'.init_end = proc.init_end /\ proc'.forbidden = proc.forbidden
    BY <1>3, <1>4, <1>5, ExecuteEffect
  <2> QED BY <1>2, <1>6, <2>1 DEF RunInv, ProcInv
<1>8. LoopInv'
  <2>1. max_cycles \in Nat /\ tick \in 0..max_cycles /\ tick < max_cycles
    BY <1>3 DEF RunInv, LoopInv
  <2>2. /\ status' \in {"ended", "discarded", "running"}
        /\ status' = "running" => tick' < max_cycles'
    BY <1>3 DEF HowItEnds
  <2>3. tick' \in 0..max_cycles'
    BY <1>3, <2>1
  <2> QED BY <1>2, <1>3, <2>2, <2>3 DEF RunInv, LoopInv
<1>9. RecordInv'
  <2>1. IsData(i) => IF i.addr \in Ram THEN Units(i.addr, i.len) \subseteq Ram
                     ELSE Units(i.addr, i.len) \cap Ram = {}
    BY <1>5, WholeAccess DEF Legal
  <2>2. ToRam(i) => Units(i.addr, i.len) \subseteq Ram
    BY <2>1 DEF ToRam
  <2>3. MmioUnits(i) \cap Ram = {}
    BY <2>1 DEF MmioUnits, FetchesMmio, AccessesMmio, TargetsMmio, Touched, IsData, IsJump
  <2>4. mmio' \cap Ram = {}
    BY <1>3, <2>3 DEF RunInv, RecordInv
  <2>5. /\ memRecorder = [loads |-> memRecorder.loads, stores |-> memRecorder.stores]
        /\ memRecorder.loads \subseteq Ram /\ memRecorder.stores \subseteq Ram
    BY DEF RunInv, RecordInv
  <2>6. /\ TraceData(memRecorder, i).stores =
             IF i.op = "store" THEN memRecorder.stores \cup Units(i.addr, i.len)
             ELSE memRecorder.stores
        /\ TraceData(memRecorder, i).loads =
             IF i.op = "store" THEN memRecorder.loads
             ELSE memRecorder.loads \cup (Units(i.addr, i.len) \ memRecorder.stores)
        /\ TraceData(memRecorder, i) = [loads |-> TraceData(memRecorder, i).loads,
                                        stores |-> TraceData(memRecorder, i).stores]
    BY <2>5 DEF TraceData
  <2>7. /\ memRecorder' = [loads |-> memRecorder'.loads, stores |-> memRecorder'.stores]
        /\ memRecorder'.loads \subseteq Ram /\ memRecorder'.stores \subseteq Ram
    BY <1>3, <2>2, <2>5, <2>6
  <2>8. fetchRecorder' = [fetches |-> fetchRecorder'.fetches,
                          last_accessed |-> fetchRecorder'.last_accessed,
                          n_same_inst |-> fetchRecorder'.n_same_inst,
                          stuck |-> fetchRecorder'.stuck]
    BY <1>3, FetchTraced DEF RunInv, RecordInv
  <2>9. /\ hist' = [read |-> hist'.read, written |-> hist'.written,
                    executed |-> hist'.executed, offence |-> hist'.offence]
        /\ hist'.read = IF i.op = "load" /\ ToRam(i)
                          THEN hist.read \cup (Units(i.addr, i.len) \ hist.written)
                          ELSE hist.read
        /\ hist'.written = IF i.op = "store" /\ ToRam(i)
                             THEN hist.written \cup Units(i.addr, i.len) ELSE hist.written
        /\ hist'.executed = hist.executed \cup ({proc.pc} \cap Ram)
    BY <1>1 DEF Record, ToRam, Touched
  <2>10. ASSUME first.runs = 0
         PROVE  /\ fetchRecorder'.fetches \cap Ram = hist'.executed
                /\ memRecorder'.loads = hist'.read /\ memRecorder'.stores = hist'.written
    <3>1. /\ proc.tracers = TRUE
          /\ fetchRecorder.fetches \cap Ram = hist.executed
          /\ memRecorder.loads = hist.read /\ memRecorder.stores = hist.written
      BY <1>2, <2>10 DEF RunInv, ProcInv, RecordInv
    <3>2. fetchRecorder'.fetches \cap Ram = hist'.executed
      BY <1>3, <2>9, <3>1, FetchTraced
    <3>3. CASE ToRam(i)
      <4>1. i.op \in {"load", "store"} /\ memRecorder' = TraceData(memRecorder, i)
        BY <1>3, <3>1, <3>3 DEF ToRam, IsData
      <4> QED BY <2>6, <2>9, <3>1, <3>2, <3>3, <4>1
    <3>4. CASE ~ToRam(i)
      BY <1>3, <2>9, <3>1, <3>2, <3>4
    <3> QED BY <3>3, <3>4
  <2> QED BY <1>2, <2>4, <2>7, <2>8, <2>9, <2>10 DEF RecordInv
<1> QED BY <1>7, <1>8, <1>9

\* Every step keeps the invariant of the run.
LEMMA RunNext ==
  ASSUME RunInv, [Next]_vars PROVE ProcInv' /\ LoopInv' /\ RecordInv'
<1>1. CASE Warmup
  BY <1>1, WarmupRun
<1>2. CASE Load
  BY <1>2, LoadRun
<1>3. CASE ArchStep
  BY <1>3, ArchStepRun
<1>4. CASE Results
  BY <1>4, ResultsRun
<1>5. CASE Discard \/ CycleQuiet \/ \E reason \in Reasons : CycleReport(reason)
  BY <1>5, EndRun
<1>6. ASSUME NEW reason \in Reasons, CycleAgain(reason)
      PROVE  ProcInv' /\ LoopInv' /\ RecordInv'
  BY <1>6, AgainRun
<1>7. CASE UNCHANGED vars
  <2>1. /\ UNCHANGED <<cfg, pc, curTaintSrc, outcome, hist, first>>
        /\ UNCHANGED <<proc, fetchRecorder, memRecorder, mmio, illegal_device,
                       max_cycles, tick, status>>
        /\ UNCHANGED <<initSize, programSize, codeRegions, labels>>
    BY <1>7 DEF vars, archVars, simVars
  <2>2. Pages' = Pages /\ Regions' = Regions /\ Procs' = Procs
    BY <2>1 DEF Pages, Regions, WarmSize, Procs
  <2>3. ProcInv'
    BY <2>1, <2>2 DEF RunInv, ProcInv, Flagged
  <2>4. LoopInv'
    BY <2>1 DEF RunInv, LoopInv
  <2>5. RecordInv'
    <3>1. \A us : Granules(us)' = Granules(us)
      BY DEF Granules, GranuleOf
    <3> QED BY <2>1, <3>1 DEF RunInv, RecordInv
  <2> QED BY <2>3, <2>4, <2>5
<1> QED BY <1>1, <1>2, <1>3, <1>4, <1>5, <1>6, <1>7 DEF Next, Exited

\* The architectural run is as described in every state of a test case.
LEMMA RunAlways == Spec => []RunInv
<1>1. Init => ProcInv /\ LoopInv /\ RecordInv
  BY RunInit
<1>2. IInv /\ ImageInv /\ (ProcInv /\ LoopInv /\ RecordInv) /\ [Next]_vars
        => (ProcInv /\ LoopInv /\ RecordInv)'
  BY RunNext DEF RunInv
<1>3. Spec => [](ProcInv /\ LoopInv /\ RecordInv)
  BY <1>1, <1>2, HarnessInvariant, ImageAlways, PTL DEF Spec
<1>4. IInv /\ ImageInv /\ (ProcInv /\ LoopInv /\ RecordInv) => RunInv
  BY DEF RunInv
<1> QED BY <1>3, <1>4, HarnessInvariant, ImageAlways, PTL

\* Every variable of the harness and of ArchSim has its type, in particular no
\* count, size or program counter leaves its range.
THEOREM HarnessTypes == Spec => []TypeOK
<1>1. RunInv => TypeOK
  <2> SUFFICES ASSUME RunInv PROVE TypeOK
    OBVIOUS
  <2>1. DOMAIN dram = Ram /\ DOMAIN ram = Ram
    <3>1. dram = [u \in Ram |-> dram[u]] /\ ram = [u \in Ram |-> ram[u]]
      BY DEF RunInv, ImageInv
    <3> QED BY <3>1
  <2>2. proc.pc \in PcRange
    BY DEF RunInv, ProcInv, Procs
  <2>3. memRecorder.loads \cup memRecorder.stores \subseteq Ram
    BY DEF RunInv, RecordInv
  <2> QED BY <2>1, <2>2, <2>3 DEF TypeOK, RunInv, LoopInv, PcRange
<1> QED BY <1>1, RunAlways, PTL

\* main.cc:225-236: what the recorders hold, and so what is untainted, is what
\* the program read before writing it and what it executed, although the reset
\* before a second run unregisters the recorders.
THEOREM TaintIsWhatIsNotRead == Spec => []TaintIsExact
<1>1. RunInv => TaintIsExact
  BY DEF RunInv, RecordInv, TaintIsExact
<1> QED BY <1>1, RunAlways, PTL

(***************************************************************************)
(* The verdict of the filters.                                             *)
(***************************************************************************)
\* What the process may be discarded for.
Cause == hist.offence = tick \/ \E d \in AllowedDevices : d[1] + d[2] - 1 \in mmio

\* As long as the run goes on no filter had anything to see.  It goes on after
\* an offence in no way but one: the step that offends also ends it.
FilterInv ==
  /\ pc = "arch" /\ status = "running" =>
       /\ hist.offence = 0
       /\ ~Flagged(proc)
       /\ proc.pc = Rom \/ ~illegal_device
  /\ pc \in {"arch", "cycle"} /\ status = "ended" /\ hist.offence # 0 =>
       /\ hist.offence = tick
       /\ Ending(proc, fetchRecorder.stuck)
  /\ pc = "arch" /\ status = "discarded" => Cause
  /\ outcome = "discarded" => max_cycles = 0 \/ Cause

\* The program is loaded; the boot code comes first.
LEMMA LoadFilter ==
  ASSUME RunInv, FilterInv, Load PROVE FilterInv'
<1>1. /\ pc = "load" /\ pc' = "arch" /\ hist' = NoHist
      /\ UNCHANGED <<cfg, outcome>>
      /\ proc' = [proc EXCEPT !.code_regions = codeRegions', !.init_end = RamBase + initSize']
      /\ status' \in {"running", "ended"}
  BY DEF Load, loadProgram
<1>2. proc \in Procs /\ ~Flagged(proc) /\ proc.pc = Rom /\ outcome = "none"
  BY <1>1 DEF RunInv, ProcInv, IInv, BootInv
<1>3. /\ proc'.pc = proc.pc /\ proc'.illegal_jump = proc.illegal_jump
      /\ proc'.self_modifying = proc.self_modifying
      /\ proc'.accessed_forbidden = proc.accessed_forbidden
  BY <1>1, <1>2 DEF Procs
<1>4. ~Flagged(proc)'
  BY <1>1, <1>2, <1>3 DEF Flagged
<1>5. hist'.offence = 0
  BY <1>1 DEF NoHist
<1> QED BY <1>1, <1>2, <1>3, <1>4, <1>5 DEF FilterInv

\* ArchSim takes a step: it stops at the first offence, and at nothing else.
LEMMA ArchStepFilter ==
  ASSUME StartsOnGranules, RunInv, FilterInv, ArchStep PROVE FilterInv'
<1>1. PICK i \in InstrsAt(proc.pc) : step(i, cfg.jumps) /\ hist' = Record(i)
  BY DEF ArchStep
<1>2. /\ pc = "arch" /\ pc' = "arch" /\ UNCHANGED <<cfg, outcome>>
      /\ status = "running" /\ proc' = Execute(i)
      /\ mmio' = mmio \cup MmioUnits(i) /\ illegal_device' = IllegalDevice(i)
      /\ tick' = tick + 1 /\ max_cycles' = max_cycles
      /\ status' = HowItEnds(proc', fetchRecorder'.stuck, illegal_device', cfg.jumps)
  BY <1>1 DEF ArchStep, step
<1>3. /\ hist.offence = 0 /\ ~Flagged(proc)
      /\ proc.pc = Rom \/ ~illegal_device
      /\ outcome = "none"
  BY <1>2 DEF FilterInv, RunInv, IInv, BootInv
<1>4. SetUp
  <2>1. <<initSize, programSize, codeRegions>> = Layout /\ cfg \in Configs
    BY <1>2 DEF RunInv, IInv, LayoutInv
  <2>2. initSize = WarmSize + cfg.argInit /\ codeRegions = Regions
    BY <2>1 DEF Layout
  <2> QED BY <1>2, <2>1, <2>2 DEF SetUp, RunInv, ProcInv
<1>5. Legal(i, proc.pc)
  <2>1. proc.pc \in PcRange
    BY <1>4 DEF SetUp, Procs
  <2> QED BY <1>1, <2>1, InstrsLegal
<1>6. hist'.offence = IF Offends(i) THEN tick' ELSE 0
  BY <1>1, <1>2, <1>3 DEF Record
<1>7. Offends(i) => Flagged(proc') \/ illegal_device'
  BY <1>2, <1>4, <1>5, FiltersSee
<1>8. Flagged(proc') \/ illegal_device' => Cause'
  <2> SUFFICES ASSUME Flagged(proc') \/ illegal_device' PROVE Cause'
    OBVIOUS
  <2>1. Offends(i) \/ \E d \in AllowedDevices : d[1] + d[2] - 1 \in MmioUnits(i)
    BY <1>2, <1>3, <1>4, <1>5, FiltersHaveCause
  <2> QED BY <1>2, <1>6, <2>1 DEF Cause
<1>9. Flagged(proc)' <=> Flagged(proc')
  BY <1>2 DEF Flagged
<1>10. /\ status' = "running" =>
            ~Ending(proc', fetchRecorder'.stuck) /\ ~Flagged(proc') /\ ~illegal_device'
       /\ status' = "ended" =>
            \/ Ending(proc', fetchRecorder'.stuck)
            \/ ~Flagged(proc') /\ ~illegal_device'
       /\ status' = "discarded" => Flagged(proc') \/ illegal_device'
  BY <1>2 DEF HowItEnds, Ending, Flagged
<1>11. status' = "running" =>
         hist'.offence = 0 /\ ~Flagged(proc)' /\ (proc'.pc = Rom \/ ~illegal_device')
  BY <1>6, <1>7, <1>9, <1>10
<1>12. status' = "ended" /\ hist'.offence # 0 =>
         hist'.offence = tick' /\ Ending(proc, fetchRecorder.stuck)'
  BY <1>6, <1>7, <1>10 DEF Ending
<1>13. status' = "discarded" => Cause'
  BY <1>8, <1>10
<1> QED BY <1>2, <1>3, <1>11, <1>12, <1>13 DEF FilterInv

\* main sees no addresses: the run was empty, or ArchSim discarded it.
LEMMA DiscardFilter ==
  ASSUME RunInv, FilterInv, Discard PROVE FilterInv'
<1>1. /\ pc = "arch" /\ pc' = "done" /\ outcome' = "discarded"
      /\ UNCHANGED <<hist, tick, mmio, status, max_cycles>>
  BY DEF Discard, archVars
<1>2. status' = "discarded" \/ ~(max_cycles' > 0)
  <2>1. IInv'
    BY DiscardInv DEF RunInv
  <2> QED BY <1>1, <2>1 DEF IInv, BootInv
<1>3. max_cycles = 0 \/ Cause
  <2>1. max_cycles \in Nat
    BY DEF RunInv, LoopInv
  <2> QED BY <1>1, <1>2, <2>1 DEF FilterInv
<1>4. Cause' <=> Cause
  BY <1>1 DEF Cause
<1> QED BY <1>1, <1>3, <1>4 DEF FilterInv

\* The other steps leave what the filters saw alone.
LEMMA OthersFilter ==
  ASSUME RunInv, FilterInv,
         \/ Warmup \/ Results \/ CycleQuiet
         \/ \E reason \in Reasons : CycleReport(reason) \/ CycleAgain(reason)
  PROVE  FilterInv'
<1>1. CASE Results
  <2>1. /\ pc = "arch" /\ pc' = "cycle" /\ outcome = "none"
        /\ UNCHANGED <<cfg, outcome, hist, tick, status, proc, fetchRecorder>>
    BY <1>1 DEF Results, archVars, RunInv, IInv, BootInv
  <2> QED BY <2>1 DEF FilterInv, Ending
<1>2. CASE \/ Warmup \/ CycleQuiet
           \/ \E reason \in Reasons : CycleReport(reason) \/ CycleAgain(reason)
  <2>1. pc' \notin {"arch", "cycle"} /\ outcome' # "discarded"
    BY <1>2 DEF Warmup, CycleQuiet, CycleReport, CycleAgain, RunInv, IInv, BootInv
  <2> QED BY <2>1 DEF FilterInv
<1> QED BY <1>1, <1>2

\* What the filters saw is as described in every state of a test case.
LEMMA FilterAlways ==
  ASSUME StartsOnGranules PROVE Spec => []FilterInv
<1>1. Init => FilterInv
  BY DEF Init, ArchInit, FilterInv
<1>2. RunInv /\ FilterInv /\ [Next]_vars => FilterInv'
  <2> SUFFICES ASSUME RunInv, FilterInv, [Next]_vars PROVE FilterInv'
    OBVIOUS
  <2>1. CASE Load
    BY <2>1, LoadFilter
  <2>2. CASE ArchStep
    BY <2>2, ArchStepFilter
  <2>3. CASE Discard
    BY <2>3, DiscardFilter
  <2>4. CASE \/ Warmup \/ Results \/ CycleQuiet
             \/ \E reason \in Reasons : CycleReport(reason) \/ CycleAgain(reason)
    BY <2>4, OthersFilter
  <2>5. CASE UNCHANGED vars
    BY <2>5 DEF vars, archVars, FilterInv, Cause, Ending, Flagged
  <2> QED BY <2>1, <2>2, <2>3, <2>4, <2>5 DEF Next, Exited
<1> QED BY <1>1, <1>2, RunAlways, PTL DEF Spec

\* ArchSim.h:193-213 and the hooks of processor.patch: if pages, devices and
\* code begin on granules and the program with code, no program that stores
\* to its code, leaves it, or touches a device or page it must not, reaches
\* the core, but for the step that ends the architectural run anyway.
THEOREM NoOffenderReachesTheCore ==
  ASSUME StartsOnGranules PROVE Spec => []FilteredIsDiscarded
<1>1. RunInv /\ FilterInv => FilteredIsDiscarded
  BY DEF RunInv, LoopInv, FilterInv, FilteredIsDiscarded, Ending
<1> QED BY <1>1, RunAlways, FilterAlways, PTL

\* main.cc:215-220: no program is dropped but for a reason the filters are there
\* for, or the last unit of an allowed device, or because it has no cycles.
THEOREM NoneDroppedWithoutCause ==
  ASSUME StartsOnGranules PROVE Spec => []DiscardedHasCause
<1>1. FilterInv => DiscardedHasCause
  BY DEF FilterInv, Cause, DiscardedHasCause
<1> QED BY <1>1, FilterAlways, PTL
=============================================================================
