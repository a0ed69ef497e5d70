---------------------------- MODULE DetectionProofs ----------------------------
(***************************************************************************)
(* The detection loop blames the right instruction, steps over no squash   *)
(* of it, and decides only what the core is about to carry out: for every  *)
(* buffer size, program, number of tags and registers and length of a run, *)
(* on a core with one bank, or as long as the program writes one register  *)
(* file only.                                                              *)
(***************************************************************************)
EXTENDS CoreProofs, DetectorRefines

\* The walk compares register numbers and not register files (the source has a
\* "TODO: Handle FP regfile!" in useTaintedRegister).  With two banks and loads
\* into both files it may blame the wrong one, as the run detector_regfiles
\* shows; with one bank (SmallFuzzConfig) only one instruction completes per
\* cycle.
FilesToldApart ==
  \/ N_ROBS = 1
  \/ \E file \in {"int", "fp"} : \A p \in PCs : DestOf(p) \in {file, "unused"}

(***************************************************************************)
(* The inductive invariant.                                                *)
(***************************************************************************)
\* CrashInfo points to the entry of the instruction that wrote the taint.
Tracked ==
  /\ writer # 0
  /\ crash.taintInstr \in Valid(rob)
  /\ rob.entry[crash.taintInstr].id = writer
  /\ rob.entry[crash.taintInstr].dst_type # "unused"

\* What main knows of an instruction in flight, at each place of the loop: the
\* branch mask is fresh when the wires are looked at, no edge is taken that
\* squashes it, and a decision is one the next edge carries out.
FlightInv ==
  /\ Tracked
  /\ pc = "flush" => crash.taintBrMask = rob.entry[crash.taintInstr].brMask
  /\ pc = "loop" => crash.taintInstr \notin Squashed(rob, sig)
  /\ crash.flushFound => crash.taintInstr \in Squashed(rob, sig)
  /\ crash.isTaintArchitectural => crash.taintInstr \in Committing(rob, sig)

\* A taint is not looked for twice, and a decision ends the loop.
PhaseInv ==
  /\ fate # "squashed"
  /\ crash.taintFound <=> fate # "none"
  /\ crash.flushFound \/ crash.isTaintArchitectural =>
       crash.taintFound /\ pc \in {"report", "done"}
  /\ ~ (crash.flushFound /\ crash.isTaintArchitectural)
  /\ pc = "sinks" /\ ~crash.taintFound => Written(tainted, rob, busyInstructions)

DetectionInv ==
  TypeInv /\ CoreInv /\ PhaseInv /\ (fate = "inflight" => FlightInv)

(***************************************************************************)
(* What the invariant says of one snapshot.                                *)
(***************************************************************************)
\* The walk gets to every valid entry.
LEMMA ValidIsWalked ==
  ASSUME NEW r, NEW n, RobOK(r), BufferInv(r, n), NEW s \in Valid(r)
  PROVE  s \in Walked(r)
<1>0. /\ r.head \in Rows /\ r.tail \in Rows /\ s \in Slots /\ r.entry[s].valid
      /\ Contiguous(r) /\ InBanks(r)
  BY EntryParts DEF BufferInv, EntriesInv, Valid
<1>1. s = <<s[1], s[2]>> /\ s[1] \in Rows /\ s[2] \in {0, 1}
  BY <1>0 DEF Slots, Banks
<1>2. s[2] \in 0 .. N_ROBS - 1
  BY <1>0, <1>1, RobAssumption DEF InBanks, RobAssumption
<1>3. s[1] \in WalkedRows(r)
  <2>1. Live(r, s[1])
    BY <1>0, <1>1 DEF Live, Banks
  <2>2. InRange(r, s[1])
    BY <1>0, <1>1, <2>1 DEF Contiguous
  <2>3. /\ (s[1] - r.head) % ROB_SIZE = Dist(r.head, s[1])
        /\ (r.tail - r.head) % ROB_SIZE = Dist(r.head, r.tail)
        /\ Dist(r.head, s[1]) \in Int /\ Dist(r.head, r.tail) \in Int
    BY <1>0, <1>1, DistMod, DistType
  <2> QED BY <1>1, <2>2, <2>3 DEF WalkedRows, InRange
<1>4. s[1] = r.head => s[2] >= getHeadBank(r)
  BY <1>0, <1>1 DEF getHeadBank
<1>5. s \in WalkedRows(r) \X (0 .. N_ROBS - 1)
  BY <1>1, <1>2, <1>3
<1> QED BY <1>4, <1>5 DEF Walked

\* With one bank, a stale entry leaves a gap: the buffer is not full.
LEMMA StaleLeavesRoom ==
  ASSUME NEW r, NEW n, RobOK(r), BufferInv(r, n), N_ROBS = 1, Valid(r) # {},
         NEW u \in Slots, u[2] = 0, u \notin Valid(r)
  PROVE  r.head # r.tail
<1>1. /\ u[1] \in Rows /\ u = <<u[1], 0>> /\ Contiguous(r) /\ InBanks(r)
  BY DEF Slots, BufferInv, EntriesInv
<1>2. ~Live(r, u[1])
  <2>1. SUFFICES ASSUME NEW b \in Banks, r.entry[<<u[1], b>>].valid PROVE FALSE
    BY DEF Live
  <2>2. <<u[1], b>> \in Valid(r)
    BY <1>1, <2>1 DEF Valid, Slots
  <2>3. b < 1
    BY <1>1, <2>2 DEF InBanks
  <2>4. b = 0
    BY <2>3 DEF Banks
  <2> QED BY <1>1, <2>2, <2>4
<1> QED BY <1>1, <1>2 DEF Contiguous, InRange

\* getTaintingInstruction blames the instruction that just completed with the
\* tainted register: the walk gets to it, no other entry of its file names the
\* register, stale ones included, and one of the other file is not valid or did
\* not complete in this cycle.
LEMMA BlamesTheCompleted ==
  ASSUME FilesToldApart, NEW r, NEW n, RobOK(r), BufferInv(r, n),
         NEW busy, busy \subseteq Slots,
         NEW s \in busy \ BusyMask(r), s \in Valid(r), r.entry[s].dst_type # "unused",
         Alone(s, r, busy)
  PROVE  /\ FoundTainting(r, r.entry[s].dst)
         /\ getTaintingInstruction(r, busy, BusyMask(r), r.entry[s].dst) = s
<1> DEFINE reg == r.entry[s].dst
           uses == UsesRegister(r, reg)
           unbusy == {u \in getDiff(busy, BusyMask(r)) : HasDest(r.entry[u], reg)}
<1>0. /\ s \in Slots /\ r.entry[s].valid /\ Valid(r) \subseteq Slots
      /\ Contiguous(r) /\ Ordered(r) /\ Registers(r) /\ Destinations(r)
  BY DEF BufferInv, EntriesInv, Valid
<1>1. HasDest(r.entry[s], reg)
  BY DEF HasDest
<1>2. uses \subseteq Valid(r) /\ \A u \in uses : HasDest(r.entry[u], reg)
  <2>1. Walked(r) \subseteq Slots
    BY RobAssumption DEF Walked, WalkedRows, Slots, Banks, RobAssumption
  <2> QED BY <2>1 DEF UsesRegister, Valid
<1>3. s \in uses
  BY <1>0, <1>1, ValidIsWalked DEF UsesRegister
<1>4. ~isEmpty(r)
  <2>1. HeadSlot(r) \in Valid(r)
    BY <1>0, HeadOldest
  <2> QED BY <2>1 DEF isEmpty, HeadSlot, Valid, Slots
<1>5. FoundTainting(r, reg)
  BY <1>3, <1>4 DEF FoundTainting
<1>6. s \in unbusy /\ unbusy \subseteq busy \ BusyMask(r)
      /\ \A u \in unbusy : u \in Slots /\ HasDest(r.entry[u], reg)
  <2>1. getDiff(busy, BusyMask(r)) = busy \ BusyMask(r)
    BY DEF getDiff
  <2> HIDE DEF reg
  <2>2. s \in unbusy
    BY <1>1, <2>1
  <2>3. unbusy \subseteq busy \ BusyMask(r)
    BY <2>1
  <2>4. ASSUME NEW u \in unbusy PROVE u \in Slots /\ HasDest(r.entry[u], reg)
    <3>1. HasDest(r.entry[u], reg)
      OBVIOUS
    <3>2. u \in busy
      BY <2>1
    <3> QED BY <3>1, <3>2
  <2> QED BY <2>2, <2>3, <2>4
<1>7. \A u \in Slots : HasDest(r.entry[u], reg) =>
        (r.entry[u].dst_type = r.entry[s].dst_type => u = s)
  <2>1. Registers(r) /\ s \in Slots
    BY <1>0
  <2> QED BY <2>1 DEF Registers, HasDest
<1>8. LastSlot({s}) = s /\ (CHOOSE u \in {s} : TRUE) = s
  BY <1>0, LastSlotInSet, RobAssumption
<1>9. getTaintingInstruction(r, busy, BusyMask(r), reg) =
        IF ~FoundTainting(r, reg) THEN NotFound
        ELSE IF UseCount(r, reg) = 1 THEN CHOOSE u \in uses : TRUE
        ELSE IF unbusy = {} THEN HeadSlot(r) ELSE LastSlot(unbusy)
  BY DEF getTaintingInstruction
<1>10. UseCount(r, reg) = Cardinality(uses)
         + (IF r.head = r.tail THEN Cardinality({u \in uses : u[1] = r.head}) ELSE 0)
  BY DEF UseCount
<1> HIDE DEF reg, uses, unbusy
<1>11. UseCount(r, reg) = 1 => uses = {s}
  <2>1. IsFiniteSet(uses) /\ IsFiniteSet({u \in uses : u[1] = r.head})
    <3>1. uses \in SUBSET Slots /\ {u \in uses : u[1] = r.head} \in SUBSET Slots
      BY <1>0, <1>2
    <3> QED BY <3>1, SlotsFinite, FS_Subset
  <2>2. Cardinality(uses) \in Nat /\ Cardinality({u \in uses : u[1] = r.head}) \in Nat
    BY <2>1, FS_CardinalityType
  <2>3. Cardinality(uses) # 0
    BY <1>3, <2>1, FS_EmptySet
  <2>4. UseCount(r, reg) = 1 => Cardinality(uses) = 1
    BY <1>10, <2>2, <2>3
  <2>5. Cardinality(uses) = 1 => \E x : uses = {x}
    BY <2>1, FS_Singleton
  <2> QED BY <1>3, <2>4, <2>5
<1>12. CASE unbusy = {s}
  BY <1>5, <1>8, <1>9, <1>11, <1>12 DEF reg
<1>13. CASE unbusy # {s}
  <2>1. PICK u \in unbusy : u # s
    BY <1>6, <1>13
  <2>2. /\ u \in Slots /\ HasDest(r.entry[u], reg)
        /\ u \in busy \ BusyMask(r)
    BY <1>6, <2>1
  <2>3. r.entry[u].dst_type # r.entry[s].dst_type
    BY <1>7, <2>1, <2>2
  <2>4. N_ROBS = 1
    <3>1. ASSUME NEW file \in {"int", "fp"},
                 \A p \in PCs : DestOf(p) \in {file, "unused"}
          PROVE  FALSE
      <4>1. r.entry[u].dst_type \in {file, "unused"} /\ r.entry[s].dst_type \in {file, "unused"}
        BY <1>0, <2>2, <3>1 DEF Destinations
      <4> QED BY <1>1, <2>2, <2>3, <4>1 DEF HasDest
    <3> QED BY <3>1 DEF FilesToldApart
  <2>5. u[2] = 0 /\ u \notin Valid(r)
    BY <2>1, <2>2, <2>4 DEF Alone
  <2>6. uses = {s}
    <3>1. ASSUME NEW t \in uses PROVE t = s
      <4>1. t \in Slots /\ t \in Valid(r) /\ HasDest(r.entry[t], reg)
        BY <1>0, <1>2
      <4>2. /\ r.entry[t].dst_type \in {"int", "fp", "unused"}
            /\ r.entry[u].dst_type \in {"int", "fp", "unused"}
            /\ r.entry[s].dst_type \in {"int", "fp", "unused"}
        BY <1>0, <2>2, <4>1, EntryParts DEF Entries, DestTypes
      <4>3. r.entry[t].dst_type = r.entry[u].dst_type => t = u
        BY <1>0, <2>2, <4>1 DEF Registers, HasDest
      <4> QED BY <1>1, <1>7, <2>2, <2>3, <2>5, <4>1, <4>2, <4>3 DEF HasDest
    <3> QED BY <1>3, <3>1
  <2>7. r.head # r.tail
    BY <2>2, <2>4, <2>5, StaleLeavesRoom
  <2>8. UseCount(r, reg) = 1
    BY <1>10, <2>6, <2>7, FS_Singleton
  <2> QED BY <1>5, <1>8, <1>9, <2>6, <2>8 DEF reg
<1> QED BY <1>12, <1>13

\* An instruction is in one slot.
LEMMA OneTaintSlot ==
  ASSUME CoreInv, Tracked
  PROVE  /\ TaintSlots = {crash.taintInstr}
         /\ {s \in Valid(rob) : rob.entry[s].id = writer} = {crash.taintInstr}
<1>1. RobOK(rob) /\ Ordered(rob)
  BY DEF CoreInv, BufferInv, EntriesInv
<1>2. \A s \in Valid(rob) : rob.entry[s].id = writer => s = crash.taintInstr
  BY <1>1, AgesFollow DEF Tracked
<1> QED BY <1>2 DEF Tracked, TaintSlots

\* What updateTaintInstr takes for about to retire does retire at the next edge:
\* the head depends on no branch, and the flush wire is not against it.
LEMMA RetiringCommits ==
  ASSUME CoreInv, NEW s \in Valid(rob), AboutToRetire(s)
  PROVE  s \in Committing(rob, sig)
<1>0. PICK done \in SUBSET Slots : WiresOK(rob, sig, done)
  BY DEF CoreInv
<1>1. /\ RobOK(rob) /\ Contiguous(rob) /\ Ordered(rob) /\ rob.head \in Rows
      /\ s = HeadSlot(rob) /\ CanCommit(rob.entry[s])
  BY EntryParts DEF CoreInv, BufferInv, EntriesInv, AboutToRetire, isHead, CanCommit, Ready
<1>2. rob.entry[s].brMask = {}
  <2>1. /\ BusyMask(rob) \union done \subseteq Valid(rob)
        /\ TagsHeld(rob, BusyMask(rob) \union done)
    BY <1>0 DEF WiresOK, TagsOK, BusyMask, Valid
  <2> QED BY <1>1, <2>1, HeadIndependent
<1>3. sig.flush \notin {"exception", "ordering", "unknown"}
  BY <1>0, <1>1 DEF WiresOK, FlushWire, CanCommit
<1>4. s = <<rob.head, getHeadBank(rob)>> /\ getHeadBank(rob) \in Banks
  BY <1>1 DEF HeadSlot, getHeadBank, Banks
<1>5. s \in ({rob.head} \X Banks) \ Mispredicted(rob, sig)
  BY <1>2, <1>4 DEF Mispredicted
<1>6. ASSUME NEW b \in Banks, b < s[2], rob.entry[<<rob.head, b>>].valid
      PROVE  CanCommit(rob.entry[<<rob.head, b>>])
  BY <1>4, <1>6 DEF getHeadBank, Banks
<1> QED BY <1>1, <1>3, <1>5, <1>6 DEF Committing

\* No wire is raised, so no instruction is squashed.
LEMMA QuietSquashesNone ==
  ASSUME ~isFlushing(sig)
  PROVE  Squashed(rob, sig) = {}
BY DEF isFlushing, Squashed, Mispredicted

\* What recordFlush drops spares the tracked instruction, and what it keeps
\* squashes it, as long as the branch mask is fresh.
LEMMA FlushDecides ==
  ASSUME CoreInv, Tracked, isFlushing(sig),
         crash.taintBrMask = rob.entry[crash.taintInstr].brMask
  PROVE  Irrelevant(readFrom(rob, sig)) <=> crash.taintInstr \notin Squashed(rob, sig)
<1> DEFINE s == crash.taintInstr
           info == readFrom(rob, sig)
<1>0. PICK done \in SUBSET Slots : WiresOK(rob, sig, done)
  BY DEF CoreInv
<1>1. RobOK(rob) /\ FenceAlone(rob) /\ s \in Valid(rob) /\ s \in Slots
        /\ rob.entry[s].dst_type # "unused"
  BY DEF CoreInv, BufferInv, Tracked, Valid
<1>2. /\ info.type = FlushType(sig)
      /\ info.mispredMask = IF sig.flush = "none" THEN sig.mask ELSE {}
  BY DEF readFrom
<1>3. sig.flush \in {"none", "exception", "ordering", "commit", "unknown"}
  BY DEF CoreInv, SigOK, Signals
<1> HIDE DEF s, info
<1>4. CASE sig.flush = "none"
  <2>1. Irrelevant(info) <=> crash.taintBrMask \cap sig.mask = {}
    BY <1>2, <1>4 DEF Irrelevant, FlushType
  <2>2. s \in Squashed(rob, sig) <=> rob.entry[s].brMask \cap sig.mask # {}
    BY <1>1, <1>4 DEF Squashed, Mispredicted
  <2> QED BY <2>1, <2>2 DEF s, info
<1>5. CASE sig.flush \in {"exception", "ordering", "unknown"}
  <2>1. ~Irrelevant(info)
    BY <1>2, <1>5 DEF Irrelevant, FlushType
  <2>2. s \in Squashed(rob, sig)
    BY <1>1, <1>5 DEF Squashed, Committing
  <2> QED BY <2>1, <2>2 DEF s, info
<1>6. CASE sig.flush = "commit"
  <2>1. FlushWire(rob) = "commit"
    BY <1>0, <1>6 DEF WiresOK
  <2>2. rob.entry[HeadSlot(rob)].valid /\ Uop[rob.entry[HeadSlot(rob)].pc] = "fence"
    BY <2>1 DEF FlushWire, Ready
  <2>3. HeadSlot(rob) \in Valid(rob)
    BY <1>1, <2>2, EntryParts, HeadSlotType DEF Valid
  <2>4. s = HeadSlot(rob)
    BY <1>1, <2>2, <2>3 DEF FenceAlone
  <2>5. EntryOK(rob.entry[s]) /\ rob.entry[s].valid
    BY <1>1 DEF RobOK, Valid
  <2>6. DestOf(rob.entry[s].pc) = "unused"
    BY <2>2, <2>4 DEF DestOf
  <2> QED BY <1>1, <2>5, <2>6 DEF EntryOK
<1> QED BY <1>3, <1>4, <1>5, <1>6

(***************************************************************************)
(* The steps.  TypeInv and CoreInv are taken care of by their own lemmas;  *)
(* here the rest of the invariant is at stake.                             *)
(***************************************************************************)
LoopInv == PhaseInv /\ (fate = "inflight" => FlightInv)

\* A run starts with nothing found.
LEMMA LoopInvInit ==
  ASSUME Init
  PROVE  LoopInv
BY DEF Init, EmptyCrash, LoopInv, PhaseInv

\* An instruction that no edge squashes retires or stays where it is.
LEMMA StepFollows ==
  ASSUME DetectionInv, Step
  PROVE  LoopInv' /\ CoreInv'
<1>0. /\ pc = "loop" /\ pc' = "sinks" /\ fate' = FateAfterEdge
      /\ crash' = crash /\ writer' = writer /\ busyInstructions' = BusyMask(rob)
      /\ ClockEdge(~crash.taintFound) /\ (~crash.taintFound) \in BOOLEAN
  BY DEF Step
<1>1. CoreInv' /\ Kept /\ Written(tainted', rob', BusyMask(rob))
  BY <1>0, CoreEdge DEF DetectionInv
<1>2. CASE fate # "inflight"
  <2>1. fate' = fate
    BY <1>0, <1>2 DEF FateAfterEdge
  <2> QED BY <1>0, <1>1, <1>2, <2>1 DEF DetectionInv, LoopInv, PhaseInv
<1>3. CASE fate = "inflight"
  <2> DEFINE s == crash.taintInstr
  <2>1. /\ Tracked /\ s \notin Squashed(rob, sig)
        /\ crash.taintFound /\ ~crash.flushFound /\ ~crash.isTaintArchitectural
    BY <1>0, <1>3 DEF DetectionInv, FlightInv, PhaseInv
  <2>2. fate' = IF s \in Committing(rob, sig) THEN "retired" ELSE "inflight"
    <3>1. {u \in Valid(rob) : rob.entry[u].id = writer} = {s}
      BY <2>1, OneTaintSlot DEF DetectionInv
    <3> QED BY <1>0, <1>3, <2>1, <3>1 DEF FateAfterEdge
  <2>3. PhaseInv'
    BY <1>0, <1>3, <2>1, <2>2 DEF PhaseInv
  <2>4. fate' = "inflight" => FlightInv'
    <3> SUFFICES ASSUME fate' = "inflight" PROVE FlightInv'
      OBVIOUS
    <3>1. s \in Valid(rob) \ Gone(rob, sig)
      BY <2>1, <2>2 DEF Tracked, Gone
    <3>2. Tracked'
      BY <1>0, <1>1, <2>1, <3>1 DEF Tracked, Kept
    <3> QED BY <1>0, <2>1, <3>2 DEF FlightInv
  <2> QED BY <1>1, <2>3, <2>4 DEF LoopInv
<1> QED BY <1>2, <1>3

\* The fields that recordTaint sets, and those it leaves alone.
LEMMA RecordedTaint ==
  ASSUME crash \in Crashes, NEW reg, RecordTaint(reg)
  PROVE  LET slot == getTaintingInstruction(rob, busyInstructions, BusyMask(rob), reg)
         IN  /\ crash'.taintFound
             /\ crash'.taintInstr = slot
             /\ FoundTainting(rob, reg) => crash'.taintBrMask = rob.entry[slot].brMask
             /\ crash'.flushFound = crash.flushFound
             /\ crash'.isTaintArchitectural = crash.isTaintArchitectural
<1> DEFINE slot == getTaintingInstruction(rob, busyInstructions, BusyMask(rob), reg)
           found == FoundTainting(rob, reg)
<1>1. crash' = [crash EXCEPT
        !.taintFound  = TRUE,
        !.taintInstr  = slot,
        !.taintPc     = IF found THEN rob.entry[slot].pc ELSE NoPC,
        !.taintBrMask = IF found THEN rob.entry[slot].brMask ELSE {}]
  BY DEF RecordTaint
<1> HIDE DEF slot, found
<1>2. /\ crash'.taintFound
      /\ crash'.taintInstr = slot
      /\ crash'.taintBrMask = IF found THEN rob.entry[slot].brMask ELSE {}
      /\ crash'.flushFound = crash.flushFound
      /\ crash'.isTaintArchitectural = crash.isTaintArchitectural
  BY <1>1 DEF Crashes
<1> QED BY <1>2 DEF slot, found

\* The taint that checkTaintSinks finds is traced to the instruction that wrote
\* it.
LEMMA CheckSinksFollows ==
  ASSUME FilesToldApart, DetectionInv, CheckSinks
  PROVE  LoopInv'
<1>0. /\ pc = "sinks" /\ pc' = "flush" /\ ~crash.taintFound /\ fate = "none"
      /\ ~crash.flushFound /\ ~crash.isTaintArchitectural
      /\ UNCHANGED <<rob, sig, tainted, busyInstructions>>
      /\ Written(tainted, rob, busyInstructions)
  BY DEF CheckSinks, coreVars, DetectionInv, PhaseInv
<1>1. /\ crash \in Crashes /\ tainted \subseteq Taints /\ busyInstructions \subseteq Slots
      /\ RobOK(rob) /\ BufferInv(rob, nextId)
  BY DEF DetectionInv, TypeInv, TypeOK, CoreTypeOK, CoreInv
<1>2. CASE tainted = {}
  <2>1. crash' = crash /\ fate' = fate
    BY <1>2 DEF CheckSinks, history
  <2> QED BY <1>0, <2>1 DEF LoopInv, PhaseInv
<1>3. CASE tainted # {}
  <2>1. PICK t \in tainted : t = FirstTaint(tainted)
    BY <1>1, <1>3, FirstTaintInSet, CoreAssumption
  <2>2. /\ RecordTaint(t.reg) /\ writer' = t.id
        /\ fate' = IF t.id = 0 THEN "stray" ELSE "inflight"
    BY <1>3, <2>1 DEF CheckSinks
  <2> DEFINE slot == getTaintingInstruction(rob, busyInstructions, BusyMask(rob), t.reg)
  <2>3. /\ crash'.taintFound /\ crash'.taintInstr = slot
        /\ FoundTainting(rob, t.reg) => crash'.taintBrMask = rob.entry[slot].brMask
        /\ ~crash'.flushFound /\ ~crash'.isTaintArchitectural
    BY <1>0, <1>1, <2>2, RecordedTaint
  <2> HIDE DEF slot
  <2>4. PhaseInv'
    BY <1>0, <2>2, <2>3 DEF PhaseInv
  <2>5. ASSUME t.id # 0 PROVE FlightInv'
    <3>1. PICK s \in busyInstructions \ BusyMask(rob) :
            /\ s \in Valid(rob) /\ rob.entry[s].id = t.id
            /\ rob.entry[s].dst = t.reg /\ rob.entry[s].dst_type = t.sink
            /\ Alone(s, rob, busyInstructions)
      BY <1>0, <2>5 DEF Written
    <3>2. t.sink # "unused"
      BY <1>1 DEF Taints
    <3>3. FoundTainting(rob, t.reg) /\ slot = s
      BY <1>1, <3>1, <3>2, BlamesTheCompleted DEF slot
    <3>4. Tracked'
      BY <1>0, <2>2, <2>3, <2>5, <3>1, <3>2, <3>3 DEF Tracked, Valid
    <3> QED BY <1>0, <2>3, <3>3, <3>4 DEF FlightInv
  <2> QED BY <2>2, <2>4, <2>5 DEF LoopInv
<1> QED BY <1>2, <1>3

\* updateTaintInstr refreshes the mask, and calls architectural only what
\* retires.
LEMMA TrackTaintFollows ==
  ASSUME DetectionInv, TrackTaint
  PROVE  LoopInv'
<1>0. /\ pc = "sinks" /\ pc' = (IF crash'.isTaintArchitectural THEN "report" ELSE "flush")
      /\ crash.taintFound /\ fate # "none"
      /\ ~crash.flushFound /\ ~crash.isTaintArchitectural
      /\ UNCHANGED <<rob, sig, writer, fate>>
      /\ crash \in Crashes
  BY DEF TrackTaint, coreVars, history, DetectionInv, PhaseInv, TypeInv, TypeOK
<1> DEFINE s == crash.taintInstr
<1>1. PICK retires \in BOOLEAN : retires <=> AboutToRetire(s)
  OBVIOUS
<1>2. crash' = [crash EXCEPT !.taintBrMask = rob.entry[s].brMask,
                             !.isTaintArchitectural = retires]
  <2>1. (crash.isTaintArchitectural \/ AboutToRetire(s)) = retires
    BY <1>0, <1>1 DEF AboutToRetire, isHead
  <2> QED BY <2>1 DEF TrackTaint, UpdateTaintInstr
<1>3. /\ crash'.taintFound /\ ~crash'.flushFound
      /\ crash'.taintInstr = s /\ crash'.taintBrMask = rob.entry[s].brMask
      /\ crash'.isTaintArchitectural = retires
  BY <1>0, <1>2 DEF Crashes
<1>4. PhaseInv'
  BY <1>0, <1>3 DEF PhaseInv, DetectionInv
<1>5. ASSUME fate' = "inflight" PROVE FlightInv'
  <2>1. Tracked
    BY <1>0, <1>5 DEF DetectionInv, FlightInv
  <2>2. Tracked'
    BY <1>0, <1>3, <2>1 DEF Tracked, Valid
  <2>3. retires => s \in Committing(rob, sig)
    BY <1>1, <2>1, RetiringCommits DEF DetectionInv, Tracked
  <2> QED BY <1>0, <1>3, <2>2, <2>3 DEF FlightInv
<1> QED BY <1>4, <1>5 DEF LoopInv

\* The next edge is taken only if it spares the tracked instruction.
LEMMA NoFlushFollows ==
  ASSUME DetectionInv, NoFlushNow
  PROVE  LoopInv'
<1>0. /\ pc = "flush" /\ pc' = "loop" /\ Squashed(rob, sig) = {}
      /\ UNCHANGED <<rob, sig, writer, fate, crash>>
  BY QuietSquashesNone DEF NoFlushNow, coreVars, history
<1>1. PhaseInv'
  BY <1>0 DEF PhaseInv, DetectionInv
<1>2. fate' = "inflight" => FlightInv'
  BY <1>0 DEF DetectionInv, PhaseInv, FlightInv, Tracked, Valid
<1> QED BY <1>1, <1>2 DEF LoopInv

\* recordFlush: a flush that squashes the tracked instruction is recorded, and
\* no other.
LEMMA FlushFollows ==
  ASSUME DetectionInv, FlushAfterTaint
  PROVE  LoopInv'
<1> DEFINE info == readFrom(rob, sig)
           s == crash.taintInstr
<1>0. /\ pc = "flush" /\ crash.taintFound /\ isFlushing(sig) /\ fate # "none"
      /\ ~crash.flushFound /\ ~crash.isTaintArchitectural
      /\ UNCHANGED <<rob, sig, writer, fate>>
      /\ crash \in Crashes
  BY DEF FlushAfterTaint, coreVars, history, DetectionInv, PhaseInv, TypeInv, TypeOK
<1>1. /\ Irrelevant(info)  => pc' = "loop" /\ crash' = crash
      /\ ~Irrelevant(info) => pc' = "report" /\ RecordFlush(info)
  BY DEF FlushAfterTaint
<1>2. fate = "inflight" => /\ Tracked
                           /\ Irrelevant(info) <=> s \notin Squashed(rob, sig)
  BY <1>0, FlushDecides DEF DetectionInv, FlightInv
<1> HIDE DEF info
<1>3. CASE Irrelevant(info)
  <2>1. PhaseInv'
    BY <1>0, <1>1, <1>3 DEF PhaseInv, DetectionInv
  <2>2. fate' = "inflight" => FlightInv'
    BY <1>0, <1>1, <1>2, <1>3 DEF FlightInv, Tracked, Valid
  <2> QED BY <2>1, <2>2 DEF LoopInv
<1>4. CASE ~Irrelevant(info)
  <2>1. /\ crash'.taintFound /\ crash'.flushFound /\ ~crash'.isTaintArchitectural
        /\ crash'.taintInstr = s
    <3>1. PICK new : crash' = [crash EXCEPT !.flushFound = TRUE, !.flushInfo = new]
      BY <1>1, <1>4 DEF RecordFlush
    <3> QED BY <1>0, <3>1 DEF Crashes
  <2>2. PhaseInv'
    BY <1>0, <1>1, <1>4, <2>1 DEF PhaseInv, DetectionInv
  <2>3. fate' = "inflight" => FlightInv'
    BY <1>0, <1>1, <1>2, <1>4, <2>1 DEF FlightInv, Tracked, Valid
  <2> QED BY <2>2, <2>3 DEF LoopInv
<1> QED BY <1>3, <1>4

\* The other steps find nothing and decide nothing.
LEMMA OthersFollow ==
  ASSUME DetectionInv, LoopEnd \/ FlushBeforeTaint \/ Report \/ UNCHANGED vars
  PROVE  LoopInv'
<1>1. UNCHANGED <<rob, sig, tainted, busyInstructions, writer, fate, crash>>
  BY DEF LoopEnd, FlushBeforeTaint, Report, vars, coreVars, history
<1>2. CASE UNCHANGED pc
  BY <1>1, <1>2 DEF DetectionInv, LoopInv, PhaseInv, FlightInv, Tracked, Valid, Written
<1>3. CASE LoopEnd \/ Report
  <2>1. pc \in {"loop", "report"} /\ pc' \in {"report", "done"}
    BY <1>3 DEF LoopEnd, Report
  <2> QED
    BY <1>1, <2>1 DEF DetectionInv, LoopInv, PhaseInv, FlightInv, Tracked, Valid
<1>4. CASE FlushBeforeTaint
  <2>1. pc = "flush" /\ pc' \in {"loop", "done"} /\ ~crash.taintFound
    BY <1>4 DEF FlushBeforeTaint
  <2> QED
    BY <1>1, <2>1 DEF DetectionInv, LoopInv, PhaseInv
<1> QED BY <1>2, <1>3, <1>4 DEF vars

(***************************************************************************)
(* The invariant holds throughout.                                         *)
(***************************************************************************)
\* It holds at the start.
LEMMA DetectionInvInit ==
  ASSUME Init
  PROVE  DetectionInv
<1>1. TypeInv /\ LoopInv
  BY TypeInvInit, LoopInvInit, RobAssumption, CoreAssumption
<1>2. CoreInv
  BY <1>1, CoreInvInit DEF TypeInv, Init
<1> QED BY <1>1, <1>2 DEF DetectionInv, LoopInv

\* A step that is not a clock edge leaves the core's part alone.
LEMMA CoreInvUnchanged ==
  ASSUME CoreInv, UNCHANGED coreVars
  PROVE  CoreInv'
<1>1. rob' = rob /\ sig' = sig /\ nextId' = nextId
  BY DEF coreVars
<1> QED BY <1>1 DEF CoreInv

\* Every step keeps it.
LEMMA DetectionInvNext ==
  ASSUME FilesToldApart, DetectionInv, [Next]_vars
  PROVE  DetectionInv'
<1>1. TypeInv'
  BY TypeInvNext DEF DetectionInv
<1>2. CASE Step
  BY <1>1, <1>2, StepFollows DEF DetectionInv, LoopInv
<1>3. CASE ~Step
  <2>1. UNCHANGED coreVars
    BY <1>3 DEF Next, vars, LoopEnd, CheckSinks, TrackTaint, NoFlushNow,
                FlushAfterTaint, FlushBeforeTaint, Report
  <2>2. CoreInv'
    BY <2>1, CoreInvUnchanged DEF DetectionInv
  <2>3. LoopInv'
    BY <1>3, CheckSinksFollows, TrackTaintFollows, NoFlushFollows, FlushFollows,
       OthersFollow DEF Next
  <2> QED BY <1>1, <2>2, <2>3 DEF DetectionInv, LoopInv
<1> QED BY <1>2, <1>3

\* The invariant of the detection loop, for the theorems below.
LEMMA DetectionCorrect ==
  ASSUME FilesToldApart
  PROVE  Spec => []DetectionInv
<1>1. Init => DetectionInv
  BY DetectionInvInit
<1>2. DetectionInv /\ [Next]_vars => DetectionInv'
  BY DetectionInvNext
<1> QED BY <1>1, <1>2, PTL DEF Spec

(***************************************************************************)
(* Classification.h, getTaintingInstruction: as long as the instruction    *)
(* that wrote the taint is in the buffer, it is the one that is tracked,   *)
(* however full the buffer is and wherever it wraps around.                *)
(***************************************************************************)
THEOREM WriterIsBlamed ==
  ASSUME FilesToldApart
  PROVE  Spec => []BlamesTheWriter
<1>1. DetectionInv => BlamesTheWriter
  BY OneTaintSlot DEF DetectionInv, FlightInv, BlamesTheWriter
<1> QED BY <1>1, DetectionCorrect, PTL

(***************************************************************************)
(* main.cc, the cycle loop: the instruction is never squashed while the    *)
(* loop goes on; a transient taint is not lost.                            *)
(***************************************************************************)
THEOREM NoSquashIsMissed ==
  ASSUME FilesToldApart
  PROVE  Spec => []NoMissedSquash
<1>1. DetectionInv => NoMissedSquash
  BY DEF DetectionInv, PhaseInv, NoMissedSquash
<1> QED BY <1>1, DetectionCorrect, PTL

(***************************************************************************)
(* CrashInfo::recordFlush: the flush that a report blames is one that      *)
(* squashes the tainting instruction, if that has not retired.             *)
(***************************************************************************)
THEOREM BlamedFlushKills ==
  ASSUME FilesToldApart
  PROVE  Spec => []RecordedFlushKillsTaint
<1>1. DetectionInv => RecordedFlushKillsTaint
  BY OneTaintSlot DEF DetectionInv, FlightInv, RecordedFlushKillsTaint
<1> QED BY <1>1, DetectionCorrect, PTL

(***************************************************************************)
(* CrashInfo::updateTaintInstr: a taint is called architectural only if    *)
(* the instruction retires, has retired, or never was in the buffer.       *)
(***************************************************************************)
THEOREM ArchitecturalRetires ==
  ASSUME FilesToldApart
  PROVE  Spec => []ArchitecturalTaintRetires
<1>1. DetectionInv => ArchitecturalTaintRetires
  <2> SUFFICES ASSUME DetectionInv, crash.isTaintArchitectural
               PROVE  \/ fate \in {"retired", "stray"}
                      \/ fate = "inflight" /\ TaintSlots \subseteq Committing(rob, sig)
    BY DEF ArchitecturalTaintRetires
  <2>1. fate \in {"stray", "inflight", "retired"}
    BY DEF DetectionInv, PhaseInv, TypeInv, TypeOK
  <2>2. fate = "inflight" => TaintSlots \subseteq Committing(rob, sig)
    BY OneTaintSlot DEF DetectionInv, FlightInv
  <2> QED BY <2>1, <2>2
<1> QED BY <1>1, DetectionCorrect, PTL

(***************************************************************************)
(* The detector implements Verdict.                                        *)
(***************************************************************************)
\* What is due to the tainting instruction, in terms of the slot that is
\* tracked.
LEMMA DueIs ==
  ASSUME DetectionInv, crash.taintFound
  PROVE  /\ Due \in {"stays", "commits", "dies", "gone"}
         /\ Due = "gone" <=> fate # "inflight"
         /\ Due = "commits" <=> fate = "inflight" /\ crash.taintInstr \in Committing(rob, sig)
         /\ Due = "dies" <=> fate = "inflight" /\ crash.taintInstr \in Squashed(rob, sig)
<1>1. CASE fate # "inflight"
  BY <1>1 DEF Due
<1>2. CASE fate = "inflight"
  <2>1. TaintSlots = {crash.taintInstr}
    BY <1>2, OneTaintSlot DEF DetectionInv, FlightInv
  <2>2. Committing(rob, sig) \cap Squashed(rob, sig) = {}
    BY CommittingIs DEF DetectionInv, CoreInv
  <2> QED BY <1>2, <2>1, <2>2 DEF Due
<1> QED BY <1>1, <1>2

\* The same of the state after a step.
LEMMA DueIsNext ==
  ASSUME crash'.taintFound
  PROVE  /\ Due' \in {"stays", "commits", "dies", "gone"}
         /\ Due' = "gone" <=> fate' # "inflight"
<1>1. CASE fate' # "inflight"
  BY <1>1 DEF Due
<1>2. CASE fate' = "inflight"
  BY <1>2 DEF Due
<1> QED BY <1>1, <1>2

\* Due is read off the buffer, the wires and the two history variables.
LEMMA DueUnchanged ==
  ASSUME UNCHANGED <<rob, sig, writer, fate>>, crash'.taintFound = crash.taintFound
  PROVE  Due' = Due
BY DEF Due, TaintSlots, Valid

\* The initial states map to initial states.
LEMMA VerdictInit ==
  ASSUME Init
  PROVE  Abs!Init
BY DEF Init, EmptyCrash, Abs!Init, Phase, Due, Decision

\* A clock edge is an edge: it never squashes the instruction unseen.
LEMMA StepIsEdge ==
  ASSUME DetectionInv, Step
  PROVE  Abs!Edge
<1>0. /\ pc = "loop" /\ pc' = "sinks" /\ fate' = FateAfterEdge
      /\ UNCHANGED <<crash, verdict, writer>>
  BY DEF Step
<1>1. UNCHANGED <<Phase, Decision, verdict>> /\ Phase \in {"watching", "tracking"}
  BY <1>0 DEF Phase, Decision
<1>2. CASE ~crash.taintFound
  <2>1. Due = "none" /\ Due' = "none"
    BY <1>0, <1>2 DEF Due
  <2> QED BY <1>1, <2>1 DEF Abs!Edge, Abs!AfterEdge
<1>3. CASE crash.taintFound /\ fate # "inflight"
  <2>1. fate' = fate
    BY <1>0, <1>3 DEF FateAfterEdge
  <2>2. Due = "gone" /\ Due' = "gone"
    BY <1>0, <1>3, <2>1 DEF Due
  <2> QED BY <1>1, <2>2 DEF Abs!Edge, Abs!AfterEdge
<1>4. CASE crash.taintFound /\ fate = "inflight"
  <2> DEFINE s == crash.taintInstr
  <2>1. Tracked /\ s \notin Squashed(rob, sig)
    BY <1>0, <1>4 DEF DetectionInv, FlightInv
  <2>2. fate' = IF s \in Committing(rob, sig) THEN "retired" ELSE "inflight"
    <3>1. {u \in Valid(rob) : rob.entry[u].id = writer} = {s}
      BY <2>1, OneTaintSlot DEF DetectionInv
    <3> QED BY <1>0, <1>4, <2>1, <3>1 DEF FateAfterEdge
  <2>3. Due = IF s \in Committing(rob, sig) THEN "commits" ELSE "stays"
    BY <1>4, <2>1, DueIs
  <2>4. crash'.taintFound
    BY <1>0, <1>4
  <2>5. Due' \in {"stays", "commits", "dies", "gone"} /\ (Due' = "gone" <=> fate' # "inflight")
    BY <2>4, DueIsNext
  <2>6. Due' \in Abs!AfterEdge(Due)
    BY <2>2, <2>3, <2>5 DEF Abs!AfterEdge
  <2> QED BY <1>1, <2>6 DEF Abs!Edge
<1> QED BY <1>2, <1>3, <1>4

\* The first taint seen begins the tracking; until then nothing happens.
LEMMA CheckSinksIsTaint ==
  ASSUME DetectionInv, CheckSinks
  PROVE  Abs!Taint \/ UNCHANGED Abs!vars
<1>0. /\ pc = "sinks" /\ pc' = "flush" /\ ~crash.taintFound
      /\ ~crash.flushFound /\ ~crash.isTaintArchitectural
      /\ crash \in Crashes /\ verdict' = verdict
  BY DEF CheckSinks, DetectionInv, PhaseInv, TypeInv, TypeOK
<1>1. Phase = "watching" /\ Decision = "none" /\ Due = "none"
  BY <1>0 DEF Phase, Decision, Due
<1>2. CASE tainted = {}
  <2>1. crash' = crash
    BY <1>2 DEF CheckSinks
  <2>2. Phase' = "watching" /\ Decision' = "none" /\ Due' = "none"
    BY <1>0, <2>1 DEF Phase, Decision, Due
  <2> QED BY <1>0, <1>1, <2>2 DEF Abs!vars
<1>3. CASE tainted # {}
  <2>1. RecordTaint(FirstTaint(tainted).reg)
    BY <1>3 DEF CheckSinks
  <2>2. crash'.taintFound /\ ~crash'.flushFound /\ ~crash'.isTaintArchitectural
    BY <1>0, <2>1, RecordedTaint
  <2>3. Phase' = "tracking" /\ Decision' = "none"
    BY <1>0, <2>2 DEF Phase, Decision
  <2>4. Due' \in {"stays", "commits", "dies", "gone"}
    BY <2>2, DueIsNext
  <2> QED BY <1>0, <1>1, <2>3, <2>4 DEF Abs!Taint, Abs!Dues
<1> QED BY <1>2, <1>3

\* The taint is called architectural when the instruction commits or is gone.
LEMMA TrackTaintIsDecision ==
  ASSUME DetectionInv, TrackTaint
  PROVE  Abs!DecideArchitectural \/ UNCHANGED Abs!vars
<1>0. /\ pc = "sinks" /\ pc' = (IF crash'.isTaintArchitectural THEN "report" ELSE "flush")
      /\ crash.taintFound /\ ~crash.flushFound /\ ~crash.isTaintArchitectural
      /\ UNCHANGED <<rob, sig, writer, fate, verdict>>
      /\ crash \in Crashes
  BY DEF TrackTaint, coreVars, history, DetectionInv, PhaseInv, TypeInv, TypeOK
<1>1. PICK retires \in BOOLEAN : retires <=> AboutToRetire(crash.taintInstr)
  OBVIOUS
<1>2. /\ crash'.taintFound /\ ~crash'.flushFound
      /\ crash'.isTaintArchitectural = retires
  <2>1. (crash.isTaintArchitectural \/ AboutToRetire(crash.taintInstr)) = retires
    BY <1>0, <1>1 DEF AboutToRetire, isHead
  <2>2. crash' = [crash EXCEPT !.taintBrMask = rob.entry[crash.taintInstr].brMask,
                               !.isTaintArchitectural = retires]
    BY <2>1 DEF TrackTaint, UpdateTaintInstr
  <2> QED BY <1>0, <2>2 DEF Crashes
<1>3. Phase = "tracking" /\ Decision = "none" /\ Due' = Due
  BY <1>0, <1>2, DueUnchanged DEF Phase, Decision
<1>4. CASE retires
  <2>1. fate = "inflight" => crash.taintInstr \in Committing(rob, sig)
    BY <1>1, <1>4, RetiringCommits DEF DetectionInv, FlightInv, Tracked
  <2>2. Due \in {"commits", "gone"}
    BY <1>0, <2>1, DueIs
  <2>3. Phase' = "decided" /\ Decision' = "architectural"
    BY <1>0, <1>2, <1>4 DEF Phase, Decision
  <2> QED BY <1>0, <1>3, <2>2, <2>3 DEF Abs!DecideArchitectural
<1>5. CASE ~retires
  <2>1. Phase' = "tracking" /\ Decision' = "none"
    BY <1>0, <1>2, <1>5 DEF Phase, Decision
  <2> QED BY <1>0, <1>3, <2>1 DEF Abs!vars
<1> QED BY <1>4, <1>5

\* A flush is recorded when the instruction dies or is gone.
LEMMA FlushIsDecision ==
  ASSUME DetectionInv, FlushAfterTaint
  PROVE  Abs!DecideFlush \/ UNCHANGED Abs!vars
<1> DEFINE info == readFrom(rob, sig)
<1>0. /\ pc = "flush" /\ crash.taintFound /\ isFlushing(sig)
      /\ ~crash.flushFound /\ ~crash.isTaintArchitectural
      /\ UNCHANGED <<rob, sig, writer, fate, verdict>>
      /\ crash \in Crashes
  BY DEF FlushAfterTaint, coreVars, history, DetectionInv, PhaseInv, TypeInv, TypeOK
<1>1. /\ Irrelevant(info)  => pc' = "loop" /\ crash' = crash
      /\ ~Irrelevant(info) => pc' = "report" /\ RecordFlush(info)
  BY DEF FlushAfterTaint
<1>2. fate = "inflight" =>
        (Irrelevant(info) <=> crash.taintInstr \notin Squashed(rob, sig))
  BY <1>0, FlushDecides DEF DetectionInv, FlightInv
<1>3. Phase = "tracking" /\ Decision = "none"
  BY <1>0 DEF Phase, Decision
<1> HIDE DEF info
<1>4. CASE Irrelevant(info)
  <2>1. Phase' = "tracking" /\ Decision' = "none" /\ Due' = Due
    BY <1>0, <1>1, <1>4, DueUnchanged DEF Phase, Decision
  <2> QED BY <1>0, <1>3, <2>1 DEF Abs!vars
<1>5. CASE ~Irrelevant(info)
  <2>1. crash'.taintFound /\ crash'.flushFound /\ ~crash'.isTaintArchitectural
    <3>1. PICK new : crash' = [crash EXCEPT !.flushFound = TRUE, !.flushInfo = new]
      BY <1>1, <1>5 DEF RecordFlush
    <3> QED BY <1>0, <3>1 DEF Crashes
  <2>2. Phase' = "decided" /\ Decision' = "flush" /\ Due' = Due
    BY <1>0, <1>1, <1>5, <2>1, DueUnchanged DEF Phase, Decision
  <2>3. Due \in {"dies", "gone"}
    BY <1>0, <1>2, <1>5, DueIs
  <2> QED BY <1>0, <1>3, <2>2, <2>3 DEF Abs!DecideFlush
<1> QED BY <1>4, <1>5

\* After a recorded flush classify answers with a transient class.
LEMMA ClassifyTransient ==
  ASSUME TypeInv, crash.taintFound, crash.flushFound
  PROVE  Classify \in Abs!Transient
<1>1. /\ crash.flushInfo.type \in
           {"EXCEPTION", "MEM_ORDERING", "UNKNOWN_FLUSH", "MISPREDICTION"}
      /\ crash.flushInfo.type = "MISPREDICTION" =>
           crash.flushInfo.pc \in PCs /\ Uop[crash.flushInfo.pc] \in Branches
  BY DEF TypeInv, CrashOK, FlushOK
<1>2. crash.flushInfo.type = "MISPREDICTION" => ClassifyMispred \in Abs!Transient
  <2>1. crash.flushInfo.type = "MISPREDICTION" => UopOf(crash.flushInfo.pc) \in Branches
    BY <1>1, CoreAssumption DEF UopOf, CoreAssumption
  <2> QED BY <2>1 DEF ClassifyMispred, Abs!Transient, Branches
<1>3. ClassifyFlush \in Abs!Transient
  BY <1>1, <1>2 DEF ClassifyFlush, Abs!Transient
<1> QED BY <1>3 DEF Classify, Abs!Transient

\* The verdict fits the decision.
LEMMA ReportIsClose ==
  ASSUME DetectionInv, Report
  PROVE  Abs!Close
<1>0. /\ pc = "report" /\ pc' = "done" /\ UNCHANGED <<rob, sig, writer, fate, crash>>
      /\ verdict' = IF crash.taintFound THEN Classify ELSE "clean"
  BY DEF Report, coreVars, history
<1>1. /\ ~ (crash.flushFound /\ crash.isTaintArchitectural)
      /\ crash.flushFound \/ crash.isTaintArchitectural => crash.taintFound
  BY DEF DetectionInv, PhaseInv
<1>2. Phase = "decided" /\ Phase' = "closed" /\ Decision' = Decision /\ Due' = Due
  BY <1>0, DueUnchanged DEF Phase, Decision
<1>3. Due # "none" <=> crash.taintFound
  BY DueIs DEF Due
<1>4. verdict' \in Abs!VerdictsFor(Decision, Due # "none")
  <2>1. CASE ~crash.taintFound
    BY <1>0, <1>3, <2>1 DEF Abs!VerdictsFor
  <2>2. CASE crash.taintFound /\ crash.flushFound
    <3>1. Decision = "flush" /\ Classify \in Abs!Transient
      BY <1>1, <2>2, ClassifyTransient DEF Decision, DetectionInv
    <3> QED BY <1>0, <1>3, <2>2, <3>1 DEF Abs!VerdictsFor
  <2>3. CASE crash.taintFound /\ ~crash.flushFound
    <3>1. Decision # "flush" /\ Classify = "No_flush"
      BY <2>3 DEF Decision, Classify
    <3> QED BY <1>0, <1>3, <2>3, <3>1 DEF Abs!VerdictsFor
  <2> QED BY <2>1, <2>2, <2>3
<1> QED BY <1>2, <1>4 DEF Abs!Close

\* The bound of the loop, the exit before any taint, and the steps that show
\* nothing.
LEMMA OthersAre ==
  ASSUME DetectionInv, LoopEnd \/ NoFlushNow \/ FlushBeforeTaint \/ UNCHANGED vars
  PROVE  Abs!GiveUp \/ Abs!Exit \/ UNCHANGED Abs!vars
<1>1. UNCHANGED <<rob, sig, writer, fate, crash>>
  BY DEF LoopEnd, NoFlushNow, FlushBeforeTaint, vars, coreVars, history
<1>2. Due' = Due /\ Decision' = Decision
  BY <1>1, DueUnchanged DEF Decision
<1>3. CASE LoopEnd
  <2>1. Phase \in {"watching", "tracking"} /\ Phase' = "decided" /\ verdict' = verdict
    BY <1>3 DEF LoopEnd, Phase
  <2> QED BY <1>2, <2>1 DEF Abs!GiveUp
<1>4. CASE NoFlushNow
  <2>1. Phase' = Phase /\ verdict' = verdict
    BY <1>1, <1>4 DEF NoFlushNow, Phase
  <2> QED BY <1>2, <2>1 DEF Abs!vars
<1>5. CASE FlushBeforeTaint
  <2>1. Phase = "watching" /\ pc = "flush" /\ ~crash.taintFound
    BY <1>5 DEF FlushBeforeTaint, Phase
  <2>2. \/ pc' = "loop" /\ verdict' = verdict
        \/ pc' = "done" /\ verdict' = "exit"
    BY <1>5 DEF FlushBeforeTaint
  <2> QED BY <1>1, <1>2, <2>1, <2>2 DEF Phase, Abs!Exit, Abs!vars
<1>6. CASE UNCHANGED vars
  <2>1. Phase' = Phase /\ verdict' = verdict
    BY <1>6 DEF vars, Phase
  <2> QED BY <1>2, <2>1 DEF Abs!vars
<1> QED BY <1>3, <1>4, <1>5, <1>6

(***************************************************************************)
(* main.cc and Classification.h implement Verdict: every step of a run is  *)
(* one that Verdict allows or shows nothing of it.                         *)
(***************************************************************************)
THEOREM DetectorImplementsVerdict ==
  ASSUME FilesToldApart
  PROVE  Spec => ImplementsVerdict
<1>1. Init => Abs!Init
  BY VerdictInit
<1>2. DetectionInv /\ [Next]_vars => [Abs!Next]_(Abs!vars)
  <2> SUFFICES ASSUME DetectionInv, [Next]_vars PROVE Abs!Next \/ UNCHANGED Abs!vars
    OBVIOUS
  <2>1. CASE Step
    BY <2>1, StepIsEdge DEF Abs!Next
  <2>2. CASE CheckSinks
    BY <2>2, CheckSinksIsTaint DEF Abs!Next
  <2>3. CASE TrackTaint
    BY <2>3, TrackTaintIsDecision DEF Abs!Next
  <2>4. CASE FlushAfterTaint
    BY <2>4, FlushIsDecision DEF Abs!Next
  <2>5. CASE Report
    BY <2>5, ReportIsClose DEF Abs!Next
  <2>6. CASE LoopEnd \/ NoFlushNow \/ FlushBeforeTaint \/ UNCHANGED vars
    BY <2>6, OthersAre DEF Abs!Next
  <2> QED BY <2>1, <2>2, <2>3, <2>4, <2>5, <2>6 DEF Next
<1> QED BY <1>1, <1>2, DetectionCorrect, PTL DEF Spec, Abs!Spec, ImplementsVerdict
=============================================================================
