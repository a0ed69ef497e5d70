------------------------------- MODULE ArchSim -------------------------------
(***************************************************************************)
(* The architectural simulator (src/ArchSim): a patched Spike that runs    *)
(* the program before the core does.  It discards programs the detector    *)
(* could not judge (self-modifying code, jumps out of the code, accesses   *)
(* to devices or to the forbidden page) and records what the others read   *)
(* and execute.                                                            *)
(*                                                                         *)
(* An address is a unit of 4 bytes: an instruction takes one unit, an      *)
(* access one or two, and the granule of taint (8 bytes) two.  What a unit *)
(* of RAM holds matters only as far as the kind of code it may be.  Reset  *)
(* keeps what the code keeps; Harness composes these operations.           *)
(***************************************************************************)
EXTENDS Integers, Sequences, Functions

CONSTANTS
  RamBase, RamSize,    \* the simulated DRAM
  Rom,                 \* ROM_ADDR: where the boot code is
  OnBus,               \* units below RAM that belong to a device
  AllowedDevices,      \* pairs <<first, size>> (ArchSim.h:90-92)
  StuckLimit,          \* 10 in the code (Mem.h:174)
  TrapHandler,         \* what the init code writes to mtvec
  MdsPage,             \* the unit the MDS init code touches
  DataAddrs,           \* units the program may load from and store to
  JumpTargets          \* units it may jump to

VARIABLES
  proc,            \* processor_t: the patched hart
  fetchRecorder,   \* FetchRecorder
  memRecorder,     \* MemRecorder
  mmio,            \* mmio_loads and mmio_stores, as units
  illegal_device,
  ram,             \* FileMem: the content of each unit
  max_cycles, tick, status   \* run: its bound, its count and how it ended

archVars == <<proc, fetchRecorder, memRecorder, mmio, illegal_device, ram,
              max_cycles, tick, status>>

Ram == RamBase..(RamBase + RamSize - 1)
Granule == 2

\* The devices are below RAM, where the init code and its page are.
ASSUME ArchSimAssumption ==
  /\ {RamBase, RamSize, StuckLimit} \subseteq Nat
  /\ RamBase % Granule = 0 /\ RamSize % Granule = 0
  /\ OnBus \subseteq 0..(RamBase - 1) /\ Rom \in OnBus /\ Rom # 0
  /\ AllowedDevices \subseteq Nat \X Nat
  /\ DataAddrs \cup JumpTargets \subseteq Nat
  /\ {MdsPage, TrapHandler} \subseteq Ram

\* Contents of a unit: a unit of a file, or what no file put there.
Zero == <<"zero", 0>>
Stored == <<"stored", 0>>
InitFiles == {"init", "mds", "own"}

Units(a, len) == a..(a + len - 1)

\* A processor after its constructor: no tracer, no region, no page to guard.
NewProc ==
  [pc |-> Rom, tracers |-> FALSE, code_regions |-> <<>>, init_end |-> 0,
   forbidden |-> {}, mtvec |-> 0, wfi |-> FALSE, illegal_inst |-> FALSE,
   unhandled_trap |-> FALSE, illegal_jump |-> FALSE, self_modifying |-> FALSE,
   accessed_forbidden |-> FALSE]

initProc(p) == [p EXCEPT !.tracers = TRUE]

NoData == [loads |-> {}, stores |-> {}]

\* illegal_device is not initialised; the boot code's first fetch writes it.
ArchInit ==
  /\ proc = initProc(NewProc)
  /\ fetchRecorder = [fetches |-> {}, last_accessed |-> 0, n_same_inst |-> 0,
                      stuck |-> FALSE]
  /\ memRecorder = NoData
  /\ mmio = {}
  /\ illegal_device \in BOOLEAN
  /\ ram = [u \in Ram |-> Zero]
  /\ max_cycles = 0 /\ tick = 0 /\ status = "idle"

\* reset installs a processor that initProc has not seen, and keeps the
\* content of the memory and the recorder's idea of being stuck.
reset ==
  /\ proc' = NewProc
  /\ fetchRecorder' = [fetchRecorder EXCEPT !.fetches = {}]
  /\ memRecorder' = NoData
  /\ mmio' = {}
  /\ illegal_device' = FALSE
  /\ UNCHANGED <<ram, max_cycles, tick, status>>

setForbiddenRegion(region) ==
  /\ proc' = [proc EXCEPT !.forbidden = @ \cup {region}]
  /\ UNCHANGED <<fetchRecorder, memRecorder, mmio, illegal_device, ram,
                 max_cycles, tick, status>>

\* loadProgram and the start of run: image is what the harness's memory holds.
loadProgram(image, len, regions, init_size, cycles) ==
  /\ ram' = [u \in Ram |-> IF u < RamBase + len THEN image[u] ELSE ram[u]]
  /\ proc' = [proc EXCEPT !.code_regions = regions, !.init_end = RamBase + init_size]
  /\ max_cycles' = cycles /\ tick' = 0
  /\ status' = IF cycles > 0 THEN "running" ELSE "ended"
  /\ UNCHANGED <<fetchRecorder, memRecorder, mmio, illegal_device>>

(***************************************************************************)
(* Instructions.                                                           *)
(***************************************************************************)
Plain(op) == [op |-> op]
Jump(to, odd, ok) == [op |-> "jump", to |-> to, odd |-> odd, ok |-> ok]
Access(op, a, len, ok) == [op |-> op, addr |-> a, len |-> len, ok |-> ok]

\* Whether the bus answers: RAM does, no device does not, a device may.
Answers(a) == IF a \in Ram THEN {TRUE} ELSE IF a \in OnBus THEN BOOLEAN ELSE {FALSE}

\* Accesses of two units are aligned, as the core and Spike require.
Accesses ==
  UNION {{Access(op, a, len, ok) : ok \in Answers(a)} :
           op \in {"load", "store"}, len \in {1, 2}, a \in DataAddrs}

ProgramInstrs ==
  {Plain("nop"), Plain("wfi"), Plain("illegal"), Plain("trap")}
    \cup (UNION {{Jump(to, odd, ok) : ok \in Answers(to)} :
                   to \in JumpTargets, odd \in BOOLEAN})
    \cup {i \in Accesses : i.len = 2 => i.addr % Granule = 0}

\* A device holds no code, so a fetch from it ends in an illegal instruction.
\* Of the init code two things are kept: it sets mtvec, and leaves its trap
\* handler behind.  Its other registers, the page tables, the way down to user
\* mode and the load from its own data are not.  The MDS init code touches the
\* forbidden page; code a file brings along does neither.
InitInstrs(content) ==
  IF content[1] = "init"
    THEN IF content[2] = 0 THEN {Plain("csrw")} ELSE {Plain("illegal")}
  ELSE IF content[1] = "mds"
    THEN {Access(op, MdsPage, 1, TRUE) : op \in {"load", "store"}}
  ELSE {Plain("nop")}

InstrsAt(pc) ==
  IF pc \in Rom..(Rom + 1)       THEN {Jump(RamBase, FALSE, TRUE)}
  ELSE IF pc \notin Ram \cup OnBus THEN {Plain("trap")}
  ELSE IF pc \in OnBus            THEN {Plain("illegal"), Plain("trap")}
  ELSE IF ram[pc][1] \in InitFiles THEN InitInstrs(ram[pc])
  ELSE ProgramInstrs

IsData(i) == i.op \in {"load", "store"}
IsJump(i) == i.op = "jump"
Fails(i) == IF IsData(i) \/ IsJump(i) THEN ~i.ok ELSE i.op \in {"trap", "illegal"}

\* The units an instruction reaches for besides its own: the hook of a jump
\* fetches the target.
Touched(i) ==
  IF IsData(i) THEN Units(i.addr, i.len) ELSE IF IsJump(i) THEN {i.to} ELSE {}

(***************************************************************************)
(* The hooks of processor.patch, called by the instruction at proc.pc.     *)
(***************************************************************************)
is_inside_code_region(a) ==
  \E r \in Range(proc.code_regions) : a >= r[1] /\ a < r[2]

\* The target has been translated, that is fetched, when the hook decides: a
\* jump whose target does not answer traps in the hook (Fails).
jump_hook(i) ==
  /\ ~(proc.pc < proc.code_regions[1][1])
  /\ \/ ~is_inside_code_region(i.to)
     \/ (i.to >= proc.pc /\ i.to < proc.pc + Granule)
     \/ (i.to < proc.pc /\ i.to > proc.pc - Granule)
     \/ i.odd

store_hook(a) == ~(proc.pc < proc.init_end) /\ is_inside_code_region(a)

\* Mutant: the first unit of the page is not guarded.
forbidden_hook_open(a) ==
  ~(proc.pc < proc.init_end) /\ \E r \in proc.forbidden : a > r[1] /\ a < r[2]

forbidden_hook(a) ==
  ~(proc.pc < proc.init_end) /\ \E r \in proc.forbidden : a >= r[1] /\ a < r[2]

\* take_trap with trap_hook.
take_trap(p, illegal) ==
  [p EXCEPT !.pc = p.mtvec,
            !.illegal_inst = @ \/ illegal,
            !.unhandled_trap = @ \/ p.mtvec = 0]

Execute(i) ==
  LET next == [proc EXCEPT !.pc = @ + 1]
  IN IF Fails(i) THEN take_trap(proc, i.op = "illegal")
     ELSE CASE IsJump(i)     -> [proc EXCEPT !.pc = i.to, !.illegal_jump = @ \/ jump_hook(i)]
            [] i.op = "csrw" -> [next EXCEPT !.mtvec = TrapHandler, !.pc = TrapHandler + 1]
            [] i.op = "wfi"  -> [next EXCEPT !.wfi = TRUE]
            [] i.op = "nop"  -> next
            [] OTHER         ->
                 [next EXCEPT
                    !.self_modifying = @ \/ (i.op = "store" /\ store_hook(i.addr)),
                    !.accessed_forbidden = @ \/ forbidden_hook(i.addr)]

(***************************************************************************)
(* What a step records.                                                    *)
(***************************************************************************)
is_allowed_device(a, len) ==
  \/ a \notin OnBus
  \/ \E d \in AllowedDevices : a >= d[1] /\ a + len < d[1] + d[2]

FetchesMmio == proc.pc \notin Ram
AccessesMmio(i) == IsData(i) /\ i.addr \notin Ram
TargetsMmio(i) == IsJump(i) /\ i.to \notin Ram

\* Each check overwrites the one before: the access, or the fetch of a jump's
\* target, comes after the fetch of the instruction.  The target is fetched by
\* two bytes, which end inside of its unit or, if it is odd, with it.
IllegalDevice(i) ==
  IF AccessesMmio(i) THEN ~is_allowed_device(i.addr, i.len)
  ELSE IF TargetsMmio(i) THEN ~is_allowed_device(i.to, IF i.odd THEN 1 ELSE 0)
  ELSE IF FetchesMmio THEN ~is_allowed_device(proc.pc, 1)
  ELSE illegal_device

\* Mutant: only loads and stores are recorded, not the fetches of boot code.
MmioUnits_data(i) == IF AccessesMmio(i) THEN Touched(i) ELSE {}

MmioUnits(i) ==
  (IF FetchesMmio THEN {proc.pc} ELSE {})
    \cup (IF AccessesMmio(i) \/ TargetsMmio(i) THEN Touched(i) ELSE {})

TraceFetch(r, pc) ==
  LET n == IF pc = r.last_accessed THEN r.n_same_inst + 1 ELSE 0
  IN [fetches |-> r.fetches \cup {pc}, last_accessed |-> pc,
      n_same_inst |-> IF n > StuckLimit THEN StuckLimit + 1 ELSE n,
      stuck |-> r.stuck \/ n > StuckLimit]

\* A load is recorded only where nothing was stored before.
TraceData(r, i) ==
  IF i.op = "store" THEN [r EXCEPT !.stores = @ \cup Units(i.addr, i.len)]
  ELSE [r EXCEPT !.loads = @ \cup (Units(i.addr, i.len) \ r.stores)]

\* Mutant: accesses to devices are traced like those to memory.
ToRam_any(i) == IsData(i)

ToRam(i) == IsData(i) /\ i.addr \in Ram

\* One turn of run's loop: the early exit is looked at before the filters.
HowItEnds(p, stuck, device, jumps) ==
  IF p.illegal_inst \/ p.unhandled_trap \/ p.wfi \/ stuck THEN "ended"
  ELSE IF (p.illegal_jump /\ jumps) \/ p.self_modifying \/ device \/ p.accessed_forbidden
    THEN "discarded"
  ELSE IF tick + 1 < max_cycles THEN "running" ELSE "ended"

step(i, discard_illegal_jumps) ==
  /\ status = "running"
  /\ proc' = Execute(i)
  /\ fetchRecorder' = IF proc.tracers /\ proc.pc \in Ram \cup OnBus
                        THEN TraceFetch(fetchRecorder, proc.pc) ELSE fetchRecorder
  /\ memRecorder' = IF proc.tracers /\ ToRam(i) THEN TraceData(memRecorder, i)
                    ELSE memRecorder
  /\ mmio' = mmio \cup MmioUnits(i)
  /\ illegal_device' = IllegalDevice(i)
  /\ ram' = [u \in Ram |-> IF IsData(i) /\ i.op = "store" /\ u \in Units(i.addr, i.len)
                             THEN Stored ELSE ram[u]]
  /\ tick' = tick + 1
  /\ status' = HowItEnds(proc', fetchRecorder'.stuck, illegal_device',
                         discard_illegal_jumps)
  /\ UNCHANGED max_cycles

\* runSpikeSim's result: a run of no ticks has no addresses.
getAccessedMem == memRecorder.loads \cup mmio
getExecutedInsts == fetchRecorder.fetches \cap Ram
Ticks == IF status = "discarded" THEN 0 ELSE tick
Addrs == IF Ticks = 0 THEN {} ELSE getAccessedMem
Insts == IF Ticks = 0 THEN {} ELSE getExecutedInsts
=============================================================================
