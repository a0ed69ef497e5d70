-------------------------------- MODULE Core --------------------------------
(***************************************************************************)
(* The simulated core, as far as the harness looks at it: the reorder      *)
(* buffer, the flush and misprediction wires, and the taint that reaches a *)
(* register file.  The core is Verilator output generated from BOOM and is *)
(* not part of the repository: this module is the environment of Detector. *)
(*                                                                         *)
(* One clock edge (ClockEdge) applies the wires raised in the last cycle,  *)
(* commits what can commit, and lets at most one more thing happen:        *)
(* a row is dispatched, or one or two instructions complete.  The wires of *)
(* the new cycle follow from the new state.                                *)
(***************************************************************************)
EXTENDS Rob, Sequences

CONSTANTS
  PCs,       \* program counters of the tiny program
  NoPC,      \* the pc of the zero entry
  Uop,       \* [PCs -> micro-op class]
  Faults,    \* what can go wrong with a load: "fault", "ordering", "replay"
  BrTags,    \* branch tags, the bits of a branch mask
  MaxInsts,  \* bound: instructions dispatched in a behaviour
  MaxRegs    \* physical registers per register file

UopClasses ==
  {"branch", "jump", "ret", "load", "fpload", "illegal", "badfetch", "fence"}

ASSUME CoreAssumption ==
  /\ NoPC \notin PCs
  /\ Uop \in [PCs -> UopClasses]
  /\ Faults \subseteq {"fault", "ordering", "replay"}
  /\ BrTags \subseteq Nat \ {0}
  /\ MaxInsts \in Nat
  /\ MaxRegs \in Nat \ {0}

NoSlot == <<>>

VARIABLES
  rob,      \* the snapshot the harness would read now
  sig,      \* the wires it would read now
  tainted,  \* registers written with taint by the last edge
  nextId    \* identity of the next instruction (not visible to the harness)

coreVars == <<rob, sig, tainted, nextId>>

Branches == {"branch", "jump", "ret"}

DestOf(p) == CASE Uop[p] = "load"   -> "int"
               [] Uop[p] = "fpload" -> "fp"
               [] OTHER             -> "unused"

ZeroEntry ==
  [valid |-> FALSE, busy |-> FALSE, exception |-> "none", pc |-> NoPC,
   brMask |-> {}, dst |-> 0, dst_type |-> "unused", tag |-> 0, id |-> 0]

QuietSig ==
  [flush |-> "none", mask |-> {}, br0 |-> NoSlot, br1 |-> NoSlot,
   useSecond |-> FALSE, taken |-> FALSE, resolved |-> {}]

Valid(r) == {s \in Slots : r.entry[s].valid}

Ready(e) == e.valid /\ ~e.busy

CanCommit(e) == Ready(e) /\ e.exception = "none"

\* The slots a raised misprediction kills.
Mispredicted(r, g) == {s \in Valid(r) : r.entry[s].brMask \cap g.mask # {}}

\* The slots that leave the buffer by retiring at the next edge.  A branch is
\* never ahead of its own misprediction: what it kills does not retire with it.
Committing(r, g) ==
  IF g.flush \in {"exception", "ordering", "unknown"} THEN {}
  ELSE {s \in ({r.head} \X Banks) \ Mispredicted(r, g) :
          /\ CanCommit(r.entry[s])
          /\ \A b \in Banks : b < s[2] /\ r.entry[<<r.head, b>>].valid
                                => CanCommit(r.entry[<<r.head, b>>])}

\* The slots whose instruction is squashed at the next edge.
Squashed(r, g) ==
  IF g.flush # "none" THEN Valid(r) \ Committing(r, g)
  ELSE Mispredicted(r, g)

MispredSlot(g) == IF g.useSecond THEN g.br1 ELSE g.br0

\* The buffer after the raised wires and the commits took effect.
Settle(r, g) ==
  LET gone == Committing(r, g) \union Squashed(r, g)
      head == IF /\ Committing(r, g) # {}
                 /\ \A b \in Banks : <<r.head, b>> \in Valid(r) => <<r.head, b>> \in gone
              THEN (r.head + 1) % ROB_SIZE ELSE r.head
  IN [head  |-> head,
      tail  |-> IF g.flush # "none" THEN head
                ELSE IF g.mask # {} THEN (MispredSlot(g)[1] + 1) % ROB_SIZE
                ELSE r.tail,
      entry |-> [s \in Slots |->
                   [r.entry[s] EXCEPT !.valid  = @ /\ s \notin gone,
                                      !.id     = IF s \in gone THEN 0 ELSE @,
                                      !.tag    = IF s \in gone THEN 0 ELSE @,
                                      !.brMask = @ \ g.resolved]]]

(***************************************************************************)
(* Dispatch into the tail row.                                             *)
(***************************************************************************)
OpenTags(r) ==
  {r.entry[s].tag : s \in {t \in Valid(r) : r.entry[t].busy}} \ {0}

UsedRegs(r, type) ==
  {r.entry[s].dst : s \in {t \in Slots : r.entry[t].dst_type = type}}

FreshReg(used) == Min((1 .. MaxRegs) \ used)
FreshTag(used) == Min(BrTags \ used)

Fits(r, row, bank) ==
  \* a new instruction in bank finds a register and, for a branch, a tag
  /\ DestOf(row[bank]) # "unused"
       => (1 .. MaxRegs) \ UsedRegs(r, DestOf(row[bank])) # {}
  /\ Uop[row[bank]] \in Branches => BrTags \ OpenTags(r) # {}

Insert(r, bank, p, id) ==
  [r EXCEPT !.entry[<<r.tail, bank>>] =
    [valid |-> TRUE, busy |-> TRUE, exception |-> "none", pc |-> p,
     brMask |-> OpenTags(r),
     dst |-> IF DestOf(p) = "unused" THEN 0 ELSE FreshReg(UsedRegs(r, DestOf(p))),
     dst_type |-> DestOf(p),
     tag |-> IF Uop[p] \in Branches THEN FreshTag(OpenTags(r)) ELSE 0,
     id |-> id]]

\* A fence is dispatched alone and keeps everything younger out.
Serialises(r, row) ==
  /\ \A s \in Valid(r) : Uop[r.entry[s].pc] # "fence"
  /\ (\E b \in DOMAIN row : Uop[row[b]] = "fence")
       => Valid(r) = {} /\ Cardinality(DOMAIN row) = 1

\* A row of one or two instructions, one per bank in the domain of row.
DispatchRow(r, row) ==
  LET banks == DOMAIN row
      first == Min(banks)
      last  == Max(banks)
      r1    == Insert(r, first, row[first], nextId)
      r2    == IF first = last THEN r1 ELSE Insert(r1, last, row[last], nextId + 1)
  IN /\ Serialises(r, row)
     /\ nextId + Cardinality(banks) - 1 <= MaxInsts
     /\ Fits(r, row, first)
     /\ first # last => Fits(r1, row, last)
     /\ rob' = [r2 EXCEPT !.tail = (@ + 1) % ROB_SIZE]
     /\ nextId' = nextId + Cardinality(banks)

Dispatch(r) ==
  /\ sig = QuietSig
  /\ \A b \in Banks : ~r.entry[<<r.tail, b>>].valid
  /\ \E banks \in (SUBSET (0 .. N_ROBS - 1)) \ {{}} :
       \E row \in [banks -> PCs] : DispatchRow(r, row)
  /\ tainted' = {}

(***************************************************************************)
(* Completion of one or two instructions.  A load (any instruction that    *)
(* writes a register) may fault, break the memory order or be replayed for *)
(* another reason inside the core, and may, in the same cycle, write a     *)
(* tainted value; an illegal instruction, or one that could not be         *)
(* fetched, always faults.                                                 *)
(***************************************************************************)
\* watched is FALSE once the harness no longer reads the register files: taint
\* that nobody looks at is left out.
Outcomes(p, watched) ==
  [exception : CASE Uop[p] \in {"load", "fpload"} -> Faults \union {"none"}
                 [] Uop[p] \in {"illegal", "badfetch"} -> {"fault"}
                 [] OTHER                         -> {"none"},
   taint     : IF Uop[p] \in {"load", "fpload"} /\ watched THEN BOOLEAN ELSE {FALSE},
   mispred   : IF Uop[p] \in Branches THEN BOOLEAN ELSE {FALSE}]

\* Slot s holds an older instruction than slot t.
OlderSlot(r, s, t) == r.entry[s].id < r.entry[t].id

\* The flush wires: raised by a head that cannot simply retire.  A replay
\* squashes the head like the others, but it is neither an exception, nor a
\* flush on commit, nor does its cause say memory ordering.
FlushWire(r) ==
  LET h == r.entry[HeadSlot(r)]
  IN  IF ~Ready(h)                   THEN "none"
      ELSE IF h.exception = "fault"    THEN "exception"
      ELSE IF h.exception = "ordering" THEN "ordering"
      ELSE IF h.exception = "replay"   THEN "unknown"
      ELSE IF Uop[h.pc] = "fence"      THEN "commit"
      ELSE "none"

\* The busy instructions in the slots of done complete with the outcomes out.
\* Up to two branch units report; the core obeys the older misprediction.
CompleteWith(r, done, out) ==
  LET wrong == {s \in done : out[s].mispred}
      r1    == [r EXCEPT !.entry = [s \in Slots |->
                  IF s \in done
                  THEN [@[s] EXCEPT !.busy = FALSE, !.exception = out[s].exception]
                  ELSE @[s]]]
  IN /\ rob' = r1
     /\ tainted' = {[sink |-> r.entry[s].dst_type, reg |-> r.entry[s].dst,
                     id |-> r.entry[s].id] : s \in {t \in done : out[t].taint}}
     /\ \E order \in [1 .. 2 -> wrong \union {NoSlot}] :
          \E taken \in IF wrong = {} THEN {FALSE} ELSE BOOLEAN :
            /\ wrong \subseteq {order[1], order[2]}
            /\ wrong # {} => order[1] # order[2]
            /\ N_ROBS = 1 => order[2] = NoSlot
            /\ sig' = [flush |-> FlushWire(r1),
                       mask |-> {r.entry[s].tag : s \in wrong},
                       br0 |-> order[1], br1 |-> order[2],
                       useSecond |-> /\ order[2] # NoSlot
                                     /\ order[1] = NoSlot \/ OlderSlot(r, order[2], order[1]),
                       taken |-> taken,
                       resolved |-> {r.entry[s].tag : s \in done} \ {0}]
     /\ UNCHANGED nextId

Complete(r, watched) ==
  \E done \in (SUBSET BusyMask(r)) \ {{}} :
    /\ Cardinality(done) <= N_ROBS
    /\ \E out \in [done -> UNION {Outcomes(r.entry[s].pc, watched) : s \in done}] :
         /\ \A s \in done : out[s] \in Outcomes(r.entry[s].pc, watched)
         /\ CompleteWith(r, done, out)

\* A register turns tainted although no instruction in flight writes it.
StrayTaint(r, watched) ==
  /\ watched
  /\ \E reg \in (1 .. MaxRegs) \ UsedRegs(r, "int") :
       tainted' = {[sink |-> "int", reg |-> reg, id |-> 0]}
  /\ rob' = r
  /\ sig' = [QuietSig EXCEPT !.flush = FlushWire(r)]
  /\ UNCHANGED nextId

ClockEdge(watched) ==
  LET r == Settle(rob, sig)
  IN  \/ Dispatch(r) /\ sig' = [QuietSig EXCEPT !.flush = FlushWire(rob')]
      \/ Complete(r, watched)
      \/ StrayTaint(r, watched)
      \/ /\ rob' = r
         /\ sig' = [QuietSig EXCEPT !.flush = FlushWire(r)]
         /\ tainted' = {}
         /\ UNCHANGED nextId

CoreInit ==
  /\ rob = [head |-> 0, tail |-> 0, entry |-> [s \in Slots |-> ZeroEntry]]
  /\ sig = QuietSig
  /\ tainted = {}
  /\ nextId = 1

Entries ==
  [valid : BOOLEAN, busy : BOOLEAN, exception : {"none", "fault", "ordering", "replay"},
   pc : PCs \union {NoPC}, brMask : SUBSET BrTags, dst : 0 .. MaxRegs,
   dst_type : DestTypes, tag : BrTags \union {0}, id : 0 .. MaxInsts]

Robs == [head : Rows, tail : Rows, entry : [Slots -> Entries]]

Signals ==
  [flush : {"none", "exception", "ordering", "commit", "unknown"}, mask : SUBSET BrTags,
   br0 : Slots \union {NoSlot}, br1 : Slots \union {NoSlot},
   useSecond : BOOLEAN, taken : BOOLEAN, resolved : SUBSET BrTags]

Taints == [sink : {"int", "fp"}, reg : 1 .. MaxRegs, id : 0 .. MaxInsts]

CoreTypeOK ==
  /\ rob \in Robs
  /\ sig \in Signals
  /\ tainted \subseteq Taints
  /\ nextId \in 1 .. MaxInsts + 1
=============================================================================
