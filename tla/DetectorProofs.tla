--------------------------- MODULE DetectorProofs ---------------------------
(***************************************************************************)
(* Type correctness of the detection loop, for every buffer size, program  *)
(* and bound.  The verdict is part of the type: that it is never one of    *)
(* classify's dead ends needs more than types (TypeInv below).             *)
(***************************************************************************)
EXTENDS Detector, FiniteSetTheorems, WellFoundedInduction, TLAPS

(***************************************************************************)
(* Least and greatest elements.                                            *)
(***************************************************************************)
\* The order of the natural numbers as the well-founded relation it is.
LEMMA NatOrder == OpToRel(<, Nat) = {p \in Nat \X Nat : p[1] < p[2]}
BY DEF OpToRel

\* A nonempty set of natural numbers has a least element, so Min finds one.
LEMMA MinNat ==
  ASSUME NEW T, T \subseteq Nat, T # {}
  PROVE  Min(T) \in T /\ \A y \in T : Min(T) <= y
<1>1. PICK x \in T : \A y \in T : <<y, x>> \notin OpToRel(<, Nat)
    BY WFMin, NatLessThanWellFounded
<1>2. \A y \in T : ~ (y < x)
    BY <1>1, NatOrder
<1>3. \A y \in T : x <= y
    BY <1>2
<1> QED
    BY <1>3 DEF Min

\* getDiff lists slots in a fixed order; a nonempty list has a last slot.
LEMMA LastSlotInSet ==
  ASSUME RobAssumption, NEW S, S \subseteq Slots, S # {}
  PROVE  LastSlot(S) \in S
<1> DEFINE rank(s) == 2 * s[1] + s[2]
           T == {2 * ROB_SIZE - rank(s) : s \in S}
<1>0. \A s \in Slots : s[1] \in 0 .. ROB_SIZE - 1 /\ s[2] \in 0 .. 1
    BY DEF Slots, Rows, Banks
<1>1. \A s \in S : rank(s) \in Nat /\ 2 * ROB_SIZE - rank(s) \in Nat
    BY <1>0 DEF RobAssumption
<1>2. T \subseteq Nat /\ T # {}
    BY <1>1
<1>3. PICK s \in S : Min(T) = 2 * ROB_SIZE - rank(s)
    BY <1>2, MinNat
<1>4. \A t \in S : Min(T) <= 2 * ROB_SIZE - rank(t)
    BY <1>2, MinNat
<1>5. \A t \in S : rank(t) <= rank(s)
    BY <1>1, <1>3, <1>4 DEF RobAssumption
<1> QED
    BY <1>5 DEF LastSlot

(***************************************************************************)
(* Queries on a snapshot.                                                  *)
(***************************************************************************)
\* The head is a slot.
LEMMA HeadSlotType ==
  ASSUME NEW r, r.head \in Rows
  PROVE  HeadSlot(r) \in Slots
BY DEF HeadSlot, getHeadBank, Slots, Banks

\* Whatever the register and the masks, getTaintingInstruction names a slot.
LEMMA BlamedSlotType ==
  ASSUME RobAssumption, NEW r, r.head \in Rows,
         NEW old, old \subseteq Slots, NEW new, NEW reg
  PROVE  getTaintingInstruction(r, old, new, reg) \in Slots
<1>1. NotFound \in Slots
    BY DEF NotFound, Slots, Rows, Banks, RobAssumption
<1>2. Walked(r) \subseteq Slots
    BY DEF Walked, WalkedRows, Slots, Banks, RobAssumption
<1>3. UsesRegister(r, reg) \subseteq Slots
    BY <1>2 DEF UsesRegister
<1>4. ASSUME UsesRegister(r, reg) # {}
      PROVE  (CHOOSE s \in UsesRegister(r, reg) : TRUE) \in Slots
    BY <1>3, <1>4
<1> DEFINE unbusy == {s \in getDiff(old, new) : HasDest(r.entry[s], reg)}
<1>5. unbusy \subseteq Slots
    BY DEF getDiff
<1>6. unbusy # {} => LastSlot(unbusy) \in Slots
    BY <1>5, LastSlotInSet
<1> HIDE DEF unbusy
<1>7. getTaintingInstruction(r, old, new, reg) =
        IF ~FoundTainting(r, reg) THEN NotFound
        ELSE IF UseCount(r, reg) = 1 THEN CHOOSE s \in UsesRegister(r, reg) : TRUE
        ELSE IF unbusy = {} THEN HeadSlot(r) ELSE LastSlot(unbusy)
    BY DEF getTaintingInstruction, unbusy
<1>8. FoundTainting(r, reg) => UsesRegister(r, reg) # {}
    BY DEF FoundTainting
<1> QED
    BY <1>1, <1>4, <1>6, <1>7, <1>8, HeadSlotType

(***************************************************************************)
(* The core keeps its entries meaningful: what is known of a valid entry,  *)
(* and of the branch that the misprediction wires point to.                *)
(***************************************************************************)
EntryOK(e) ==
  e.valid => /\ e.pc \in PCs
             /\ e.dst_type = DestOf(e.pc)
             /\ e.dst_type # "unused" => e.dst # 0
             /\ Uop[e.pc] \in Branches => e.tag # 0

RobOK(r) == r \in Robs /\ \A s \in Slots : EntryOK(r.entry[s])

SigOK(r, g) ==
  /\ g \in Signals
  /\ g.mask # {} => /\ MispredSlot(g) \in Slots
                    /\ r.entry[MispredSlot(g)].pc \in PCs
                    /\ Uop[r.entry[MispredSlot(g)].pc] \in Branches

\* No slot of the buffer is taken for none.
LEMMA NoSlotIsNone ==
  ASSUME NEW s \in Slots
  PROVE  s # NoSlot
BY DEF Slots, NoSlot

\* Commits and squashes leave a meaningful buffer.
LEMMA SettleOK ==
  ASSUME RobAssumption, CoreAssumption, NEW r, NEW g, RobOK(r), SigOK(r, g)
  PROVE  RobOK(Settle(r, g))
<1> DEFINE gone == Committing(r, g) \union Squashed(r, g)
           after(s) == [r.entry[s] EXCEPT !.valid  = @ /\ s \notin gone,
                                          !.id     = IF s \in gone THEN 0 ELSE @,
                                          !.tag    = IF s \in gone THEN 0 ELSE @,
                                          !.brMask = @ \ g.resolved]
           q == Settle(r, g)
<1>1. r.head \in Rows /\ r.tail \in Rows /\ \A s \in Slots : r.entry[s] \in Entries
    BY DEF RobOK, Robs
<1>2. \A i \in Rows : (i + 1) % ROB_SIZE \in Rows
    BY DEF Rows, RobAssumption
<1>3. g.mask # {} => MispredSlot(g)[1] \in Rows
    BY DEF SigOK, Slots
<1>4. \A s \in Slots : after(s) \in Entries /\ EntryOK(after(s))
  <2> SUFFICES ASSUME NEW s \in Slots PROVE after(s) \in Entries /\ EntryOK(after(s))
      OBVIOUS
  <2>1. r.entry[s] \in Entries /\ EntryOK(r.entry[s])
      BY <1>1 DEF RobOK
  <2> HIDE DEF gone
  <2>2. 0 \in 0 .. MaxInsts
      BY DEF CoreAssumption
  <2>3. after(s) \in Entries
      BY <2>1, <2>2 DEF Entries
  <2>4. EntryOK(after(s))
      BY <2>1 DEF EntryOK, Entries
  <2> QED
      BY <2>3, <2>4
<1>5. q.entry = [s \in Slots |-> after(s)]
    BY DEF Settle
<1>6. q.head \in Rows /\ q.tail \in Rows
    BY <1>1, <1>2, <1>3 DEF Settle
<1>7. q \in Robs
    BY <1>4, <1>5, <1>6 DEF Settle, Robs
<1>8. \A s \in Slots : q.entry[s] = after(s)
    BY <1>5
<1> HIDE DEF q, after
<1> QED
    BY <1>4, <1>7, <1>8 DEF RobOK, q

\* A new entry is meaningful if a register and a tag were to be had.
LEMMA InsertOK ==
  ASSUME CoreAssumption, NEW r, RobOK(r), NEW bank \in Banks,
         NEW p \in PCs, NEW id \in 0 .. MaxInsts,
         DestOf(p) # "unused" => (1 .. MaxRegs) \ UsedRegs(r, DestOf(p)) # {},
         Uop[p] \in Branches => BrTags \ OpenTags(r) # {}
  PROVE  RobOK(Insert(r, bank, p, id)) /\ Insert(r, bank, p, id).tail = r.tail
<1> DEFINE at == <<r.tail, bank>>
           new == Insert(r, bank, p, id).entry[at]
           reg == FreshReg(UsedRegs(r, DestOf(p)))
           tag == FreshTag(OpenTags(r))
<1>1. r \in Robs /\ r.tail \in Rows /\ at \in Slots
    BY DEF RobOK, Robs, Slots
<1>2. DestOf(p) # "unused" => reg \in 1 .. MaxRegs
    BY MinNat DEF FreshReg, CoreAssumption
<1>3. Uop[p] \in Branches => tag \in BrTags /\ tag # 0
    BY MinNat DEF FreshTag, CoreAssumption
<1>4. DestOf(p) \in DestTypes
    BY DEF DestOf, DestTypes
<1>5. OpenTags(r) \subseteq BrTags
    BY <1>1 DEF OpenTags, Valid, Robs, Entries
<1> HIDE DEF reg, tag
<1>6. new = [valid |-> TRUE, busy |-> TRUE, exception |-> "none", pc |-> p,
             brMask |-> OpenTags(r), dst |-> IF DestOf(p) = "unused" THEN 0 ELSE reg,
             dst_type |-> DestOf(p), tag |-> IF Uop[p] \in Branches THEN tag ELSE 0,
             id |-> id]
    BY <1>1 DEF Insert, Robs, reg, tag
<1>7. new \in Entries
    BY <1>2, <1>3, <1>4, <1>5, <1>6 DEF Entries, CoreAssumption
<1>8. EntryOK(new)
    BY <1>2, <1>3, <1>6 DEF EntryOK
<1>9. Insert(r, bank, p, id) = [r EXCEPT !.entry = [@ EXCEPT ![at] = new]]
    BY <1>1, <1>6 DEF Insert, Robs, reg, tag
<1> HIDE DEF new
<1> QED
    BY <1>1, <1>7, <1>8, <1>9 DEF RobOK, Robs

\* Wires that carry no misprediction are well formed.
LEMMA QuietOK ==
  ASSUME NEW r, NEW q
  PROVE  SigOK(q, [QuietSig EXCEPT !.flush = FlushWire(r)])
<1>1. FlushWire(r) \in {"none", "exception", "ordering", "commit", "unknown"}
    BY DEF FlushWire
<1> QED
    BY <1>1 DEF SigOK, Signals, QuietSig

\* What the buffer, the wires, the taint and the counter look like after an
\* edge.
EdgeOK == RobOK(rob') /\ SigOK(rob', sig') /\ tainted' \subseteq Taints
            /\ nextId' \in 1 .. MaxInsts + 1

\* A dispatched row is well formed: the bound on the number of instructions
\* leaves room for the identities it uses.
LEMMA DispatchOK ==
  ASSUME CoreAssumption, RobAssumption, NEW r, RobOK(r),
         nextId \in 1 .. MaxInsts + 1, Dispatch(r),
         sig' = [QuietSig EXCEPT !.flush = FlushWire(rob')]
  PROVE  EdgeOK
<1>1. PICK banks \in (SUBSET (0 .. N_ROBS - 1)) \ {{}} :
        \E row \in [banks -> PCs] : DispatchRow(r, row)
    BY DEF Dispatch
<1>0. PICK row \in [banks -> PCs] : DispatchRow(r, row)
    BY <1>1
<1> DEFINE first == Min(banks)
           last  == Max(banks)
           n     == Cardinality(banks)
           r1    == Insert(r, first, row[first], nextId)
           r2    == IF first = last THEN r1 ELSE Insert(r1, last, row[last], nextId + 1)
<1>2. banks \subseteq {0, 1} /\ banks # {} /\ banks \subseteq Banks
    BY DEF RobAssumption, Banks
<1>3. first \in banks
    BY <1>2, MinNat
<1>4. last \in banks
  <2>1. \E x \in banks : \A y \in banks : x >= y
    <3>1. CASE 1 \in banks
        BY <1>2, <3>1
    <3>2. CASE 1 \notin banks
        BY <1>2, <3>2
    <3> QED
        BY <3>1, <3>2
  <2> QED
      BY <2>1 DEF Max
<1>5. IsFiniteSet(banks)
  <2>1. IsFiniteSet({0} \union {1})
      BY FS_Singleton, FS_AddElement
  <2>2. banks \in SUBSET ({0} \union {1})
      BY <1>2
  <2> QED
      BY <2>1, <2>2, FS_Subset
<1>6. n \in Nat /\ n # 0
    BY <1>2, <1>5, FS_CardinalityType, FS_EmptySet
<1>7. first # last => n # 1
    BY <1>3, <1>4, <1>5, FS_Singleton
<1> HIDE DEF n, first, last
<1>8. /\ n + nextId - 1 <= MaxInsts
      /\ Fits(r, row, first)
      /\ first # last => Fits(r1, row, last)
      /\ rob' = [r2 EXCEPT !.tail = (@ + 1) % ROB_SIZE]
      /\ nextId' = nextId + n
    BY <1>0, <1>6 DEF DispatchRow, n, first, last
<1>9. nextId \in 0 .. MaxInsts /\ (first # last => nextId + 1 \in 0 .. MaxInsts)
    BY <1>6, <1>7, <1>8 DEF CoreAssumption
<1>10. RobOK(r1) /\ r1.tail = r.tail
    BY <1>2, <1>3, <1>8, <1>9, InsertOK DEF Fits
<1> HIDE DEF r1
<1>11. RobOK(r2)
    BY <1>2, <1>4, <1>8, <1>9, <1>10, InsertOK DEF Fits
<1> HIDE DEF r2
<1>12. RobOK(rob')
  <2>1. r2 \in Robs /\ r2.tail \in Rows
      BY <1>11 DEF RobOK, Robs
  <2>2. (r2.tail + 1) % ROB_SIZE \in Rows
      BY <2>1 DEF Rows, RobAssumption
  <2>3. rob' \in Robs /\ rob'.entry = r2.entry
      BY <1>8, <2>1, <2>2 DEF Robs
  <2> QED
      BY <1>11, <2>3 DEF RobOK
<1>13. nextId' \in 1 .. MaxInsts + 1
    BY <1>6, <1>8 DEF CoreAssumption
<1>14. tainted' \subseteq Taints
    BY DEF Dispatch
<1> QED
    BY <1>12, <1>13, <1>14, QuietOK DEF EdgeOK

\* Taint out of nowhere leaves everything else as it was.
LEMMA StrayOK ==
  ASSUME CoreAssumption, NEW r, NEW watched, RobOK(r),
         nextId \in 1 .. MaxInsts + 1, StrayTaint(r, watched)
  PROVE  EdgeOK
<1>1. tainted' \subseteq Taints
    BY DEF StrayTaint, Taints, CoreAssumption
<1> QED
    BY <1>1, QuietOK DEF StrayTaint, EdgeOK

\* Completion keeps the entries meaningful, and a misprediction wire points to
\* a control transfer: only those mispredict.
LEMMA CompleteOK ==
  ASSUME CoreAssumption, NEW r, NEW watched \in BOOLEAN, RobOK(r),
         nextId \in 1 .. MaxInsts + 1, Complete(r, watched)
  PROVE  EdgeOK
<1>1. PICK done \in (SUBSET BusyMask(r)) \ {{}} :
        \E out \in [done -> UNION {Outcomes(r.entry[s].pc, watched) : s \in done}] :
          /\ \A s \in done : out[s] \in Outcomes(r.entry[s].pc, watched)
          /\ CompleteWith(r, done, out)
    BY DEF Complete
<1>2. PICK out \in [done -> UNION {Outcomes(r.entry[s].pc, watched) : s \in done}] :
          /\ \A s \in done : out[s] \in Outcomes(r.entry[s].pc, watched)
          /\ CompleteWith(r, done, out)
    BY <1>1
<1> DEFINE wrong == {s \in done : out[s].mispred}
           after(s) == IF s \in done
                       THEN [r.entry[s] EXCEPT !.busy = FALSE,
                                               !.exception = out[s].exception]
                       ELSE r.entry[s]
           r1 == [r EXCEPT !.entry = [s \in Slots |-> after(s)]]
           taint(s) == [sink |-> r.entry[s].dst_type, reg |-> r.entry[s].dst,
                        id |-> r.entry[s].id]
<1>3. PICK order \in [1 .. 2 -> wrong \union {NoSlot}],
           taken \in IF wrong = {} THEN {FALSE} ELSE BOOLEAN :
            /\ wrong \subseteq {order[1], order[2]}
            /\ sig' = [flush |-> FlushWire(r1),
                       mask |-> {r.entry[s].tag : s \in wrong},
                       br0 |-> order[1], br1 |-> order[2],
                       useSecond |-> /\ order[2] # NoSlot
                                     /\ order[1] = NoSlot \/ OlderSlot(r, order[2], order[1]),
                       taken |-> taken,
                       resolved |-> {r.entry[s].tag : s \in done} \ {0}]
    BY <1>2 DEF CompleteWith
<1>4. rob' = r1 /\ tainted' = {taint(s) : s \in {t \in done : out[t].taint}}
        /\ nextId' = nextId
    BY <1>2 DEF CompleteWith
<1>5. r \in Robs /\ \A s \in Slots : r.entry[s] \in Entries /\ EntryOK(r.entry[s])
    BY DEF RobOK, Robs
<1>6. \A s \in done : s \in Slots /\ r.entry[s].valid /\ r.entry[s].pc \in PCs
    BY <1>5 DEF BusyMask, EntryOK
<1>7. \A s \in done :
        /\ out[s].exception \in {"none", "fault", "ordering", "replay"}
        /\ out[s].taint => DestOf(r.entry[s].pc) \in {"int", "fp"}
        /\ out[s].mispred => Uop[r.entry[s].pc] \in Branches
    BY <1>2 DEF Outcomes, CoreAssumption, DestOf
<1>8. wrong \subseteq done
    OBVIOUS
<1> HIDE DEF wrong
<1>9. \A s \in Slots : after(s) \in Entries /\ EntryOK(after(s))
                          /\ after(s).pc = r.entry[s].pc
  <2> SUFFICES ASSUME NEW s \in Slots
               PROVE  after(s) \in Entries /\ EntryOK(after(s))
                        /\ after(s).pc = r.entry[s].pc
      OBVIOUS
  <2>1. r.entry[s] \in Entries /\ EntryOK(r.entry[s])
      BY <1>5
  <2>2. s \in done => out[s].exception \in {"none", "fault", "ordering", "replay"}
      BY <1>7
  <2>3. after(s) \in Entries
      BY <2>1, <2>2 DEF Entries
  <2>4. EntryOK(after(s)) /\ after(s).pc = r.entry[s].pc
      BY <2>1 DEF EntryOK, Entries
  <2> QED
      BY <2>3, <2>4
<1> HIDE DEF after
<1>10. r1 \in Robs /\ \A s \in Slots : r1.entry[s] = after(s)
    BY <1>5, <1>9 DEF Robs
<1>11. RobOK(rob')
    BY <1>4, <1>9, <1>10 DEF RobOK
<1>12. tainted' \subseteq Taints
  <2> SUFFICES ASSUME NEW s \in done, out[s].taint PROVE taint(s) \in Taints
      BY <1>4
  <2>1. r.entry[s] \in Entries /\ EntryOK(r.entry[s]) /\ r.entry[s].valid
      BY <1>5, <1>6
  <2>2. r.entry[s].dst_type \in {"int", "fp"} /\ r.entry[s].dst # 0
      BY <1>7, <2>1 DEF EntryOK
  <2> QED
      BY <2>1, <2>2 DEF Taints, Entries, CoreAssumption
<1>13. SigOK(rob', sig')
  <2>1. \A s \in wrong : s \in Slots /\ r.entry[s].tag \in BrTags
                           /\ rob'.entry[s].pc \in PCs
                           /\ Uop[rob'.entry[s].pc] \in Branches
    <3> SUFFICES ASSUME NEW s \in wrong
                 PROVE  s \in Slots /\ r.entry[s].tag \in BrTags
                           /\ rob'.entry[s].pc \in PCs
                           /\ Uop[rob'.entry[s].pc] \in Branches
        OBVIOUS
    <3>1. s \in done /\ out[s].mispred
        BY <1>8 DEF wrong
    <3>2. s \in Slots /\ r.entry[s].pc \in PCs /\ Uop[r.entry[s].pc] \in Branches
            /\ r.entry[s] \in Entries /\ r.entry[s].tag # 0
        BY <3>1, <1>5, <1>6, <1>7 DEF EntryOK
    <3>3. r.entry[s].tag \in BrTags
        BY <3>2 DEF Entries
    <3>4. rob'.entry[s].pc = r.entry[s].pc
        BY <3>2, <1>4, <1>9, <1>10
    <3> QED
        BY <3>2, <3>3, <3>4
  <2>2. {r.entry[s].tag : s \in done} \ {0} \subseteq BrTags
    <3>1. \A s \in done : r.entry[s].tag \in BrTags \union {0}
        BY <1>5, <1>6 DEF Entries
    <3> QED
        BY <3>1
  <2>3. order[1] \in wrong \union {NoSlot} /\ order[2] \in wrong \union {NoSlot}
      OBVIOUS
  <2>4. FlushWire(r1) \in {"none", "exception", "ordering", "commit", "unknown"}
      BY DEF FlushWire
  <2>5. taken \in BOOLEAN
      OBVIOUS
  <2> HIDE DEF r1
  <2>6. sig' \in Signals
      BY <1>3, <2>1, <2>2, <2>3, <2>4, <2>5 DEF Signals
  <2>7. sig'.mask # {} => wrong # {}
      BY <1>3
  <2>8. NoSlot \notin Slots
      BY DEF NoSlot, Slots
  <2>9. wrong # {} => MispredSlot(sig') \in wrong
      BY <1>3, <2>1, <2>3, <2>8 DEF MispredSlot
  <2> QED
      BY <2>1, <2>6, <2>7, <2>9 DEF SigOK
<1> QED
    BY <1>4, <1>11, <1>12, <1>13 DEF EdgeOK

\* Every clock edge leaves a meaningful core.
LEMMA ClockEdgeOK ==
  ASSUME CoreAssumption, RobAssumption, NEW watched \in BOOLEAN,
         RobOK(rob), SigOK(rob, sig), nextId \in 1 .. MaxInsts + 1,
         ClockEdge(watched)
  PROVE  EdgeOK
<1> DEFINE r == Settle(rob, sig)
<1>1. RobOK(r)
    BY SettleOK
<1> HIDE DEF r
<1>2. \/ Dispatch(r) /\ sig' = [QuietSig EXCEPT !.flush = FlushWire(rob')]
      \/ Complete(r, watched)
      \/ StrayTaint(r, watched)
      \/ /\ rob' = r
         /\ sig' = [QuietSig EXCEPT !.flush = FlushWire(r)]
         /\ tainted' = {}
         /\ UNCHANGED nextId
    BY DEF ClockEdge, r
<1>3. CASE Dispatch(r) /\ sig' = [QuietSig EXCEPT !.flush = FlushWire(rob')]
    BY <1>1, <1>3, DispatchOK
<1>4. CASE Complete(r, watched)
    BY <1>1, <1>4, CompleteOK
<1>5. CASE StrayTaint(r, watched)
    BY <1>1, <1>5, StrayOK
<1>6. CASE /\ rob' = r
           /\ sig' = [QuietSig EXCEPT !.flush = FlushWire(r)]
           /\ tainted' = {}
           /\ UNCHANGED nextId
    BY <1>1, <1>6, QuietOK DEF EdgeOK
<1> QED
    BY <1>2, <1>3, <1>4, <1>5, <1>6

(***************************************************************************)
(* The harness.                                                            *)
(***************************************************************************)
\* checkTaintSinks finds one of the registers that turned tainted.
LEMMA FirstTaintInSet ==
  ASSUME CoreAssumption, NEW T, T \subseteq Taints, T # {}
  PROVE  FirstTaint(T) \in T
<1> DEFINE in(f) == {t \in T : t.sink = f}
           regs(f) == {t.reg : t \in in(f)}
<1>1. \A t \in T : t.sink \in {"int", "fp"} /\ t.reg \in Nat
    BY DEF Taints, CoreAssumption
<1>2. ASSUME NEW f \in {"int", "fp"}, in(f) # {}
      PROVE  \E t \in in(f) : \A u \in in(f) : t.reg <= u.reg
  <2>1. regs(f) \subseteq Nat /\ regs(f) # {}
      BY <1>1, <1>2
  <2>2. Min(regs(f)) \in regs(f) /\ \A y \in regs(f) : Min(regs(f)) <= y
      BY <2>1, MinNat
  <2>3. PICK t \in in(f) : Min(regs(f)) = t.reg
      BY <2>2
  <2>4. \A u \in in(f) : u.reg \in regs(f)
      OBVIOUS
  <2> HIDE DEF in
  <2>5. \A u \in in(f) : t.reg <= u.reg
      BY <2>2, <2>3, <2>4
  <2> QED
      BY <2>5
<1>3. \E t \in T : \A u \in T : \/ t.sink = "int" /\ u.sink = "fp"
                                \/ t.sink = u.sink /\ t.reg <= u.reg
  <2>1. CASE in("int") # {}
      BY <1>1, <1>2, <2>1
  <2>2. CASE in("int") = {}
    <3>1. in("fp") = T
        BY <1>1, <2>2
    <3> QED
        BY <1>1, <1>2, <3>1
  <2> QED
      BY <2>1, <2>2
<1> QED
    BY <1>3 DEF FirstTaint

\* A recorded flush is one that classify has a case for; a misprediction comes
\* from a control transfer.
FlushOK ==
  crash.flushFound =>
    /\ crash.flushInfo.type \in
         {"EXCEPTION", "MEM_ORDERING", "UNKNOWN_FLUSH", "MISPREDICTION"}
    /\ crash.flushInfo.type = "MISPREDICTION" =>
         /\ crash.flushInfo.pc \in PCs
         /\ Uop[crash.flushInfo.pc] \in Branches

\* The flush that a verdict of Flush_Unknown stands for stays recorded: nothing
\* is recorded once there is a verdict.
CrashOK ==
  /\ FlushOK
  /\ pc # "done" => verdict = "none"
  /\ verdict = "Flush_Unknown" => crash.flushInfo.type = "UNKNOWN_FLUSH"

\* The inductive invariant: TypeOK alone does not say that the wires point to
\* a branch when they report a misprediction, nor that an entry in use has a
\* program counter.
TypeInv == TypeOK /\ RobOK(rob) /\ SigOK(rob, sig) /\ CrashOK

\* A run starts with an empty buffer, quiet wires and an empty CrashInfo.
LEMMA TypeInvInit ==
  ASSUME RobAssumption, CoreAssumption, Init
  PROVE  TypeInv
<1>1. ZeroEntry \in Entries /\ EntryOK(ZeroEntry)
    BY DEF ZeroEntry, Entries, EntryOK, DestTypes, CoreAssumption
<1>2. RobOK(rob)
    BY <1>1 DEF RobOK, Robs, Init, CoreInit, Rows, RobAssumption
<1>3. SigOK(rob, sig)
    BY DEF SigOK, Signals, QuietSig, Init, CoreInit
<1>4. CoreTypeOK
    BY <1>2, <1>3 DEF CoreTypeOK, Init, CoreInit, RobOK, SigOK, CoreAssumption
<1>5. crash = EmptyCrash /\ CrashOK
    BY DEF Init, EmptyCrash, CrashOK, FlushOK
<1>6. NoFlush \in FlushInfos
    BY DEF NoFlush, FlushInfos
<1>7. NotFound \in Slots
    BY DEF NotFound, Slots, Rows, Banks, RobAssumption
<1>8. EmptyCrash \in Crashes
    BY <1>6, <1>7 DEF EmptyCrash, Crashes
<1>9. TypeOK
    BY <1>4, <1>5, <1>8 DEF TypeOK, Init, Verdicts, CoreAssumption
<1> QED
    BY <1>2, <1>3, <1>5, <1>9 DEF TypeInv

\* A step that leaves the core alone leaves what is known of it alone.
LEMMA CoreUnchanged ==
  ASSUME UNCHANGED coreVars, TypeInv
  PROVE  CoreTypeOK' /\ RobOK(rob)' /\ SigOK(rob, sig)'
BY DEF coreVars, TypeInv, TypeOK, CoreTypeOK, RobOK, SigOK

\* sim.step() reads a meaningful core, and only pcs of the program retire.
LEMMA StepType ==
  ASSUME RobAssumption, CoreAssumption, TypeInv, Step
  PROVE  TypeInv'
<1>1. crash \in Crashes /\ nextId \in 1 .. MaxInsts + 1
    BY DEF TypeInv, TypeOK, CoreTypeOK
<1>2. (~crash.taintFound) \in BOOLEAN
    OBVIOUS
<1>3. EdgeOK
    BY <1>1, <1>2, ClockEdgeOK DEF Step, TypeInv
<1>4. CoreTypeOK' /\ RobOK(rob)' /\ SigOK(rob, sig)'
    BY <1>3 DEF EdgeOK, CoreTypeOK, RobOK, SigOK
<1>5. busyInstructions' \subseteq Slots
    BY DEF Step, BusyMask
<1>6. retired_pcs' \subseteq PCs
  <2>1. \A s \in Committing(rob', sig') :
          s \in Slots /\ rob'.entry[s].valid
      BY <1>3 DEF Committing, CanCommit, Ready, Slots, EdgeOK, RobOK, Robs
  <2>2. \A s \in Committing(rob', sig') : rob'.entry[s].pc \in PCs
      BY <1>3, <2>1 DEF EdgeOK, RobOK, EntryOK
  <2> QED
      BY <2>2 DEF Step, TypeInv, TypeOK
<1>7. fate' \in {"none", "stray", "inflight", "retired", "squashed"}
    BY DEF Step, FateAfterEdge, TypeInv, TypeOK
<1>8. TypeOK'
    BY <1>1, <1>4, <1>5, <1>6, <1>7 DEF TypeOK, TypeInv, Step, Crashes
<1>9. CrashOK'
    BY DEF Step, CrashOK, FlushOK, TypeInv
<1> QED
    BY <1>4, <1>8, <1>9 DEF TypeInv

\* Every other step of the harness leaves the core alone: only its own state
\* is at stake.
LEMMA HarnessType ==
  ASSUME TypeInv, UNCHANGED <<coreVars, busyInstructions, retired_pcs, source>>,
         pc' \in {"loop", "sinks", "flush", "report", "done"}, crash' \in Crashes,
         writer' \in 0 .. MaxInsts,
         fate' \in {"none", "stray", "inflight", "retired", "squashed"},
         verdict' \in Verdicts, CrashOK'
  PROVE  TypeInv'
<1>1. CoreTypeOK' /\ RobOK(rob)' /\ SigOK(rob, sig)'
    BY CoreUnchanged
<1> QED
    BY <1>1 DEF TypeInv, TypeOK, CrashOK

\* recordTaint: whatever register was found, the slot it blames exists.
LEMMA CheckSinksType ==
  ASSUME RobAssumption, CoreAssumption, TypeInv, CheckSinks
  PROVE  TypeInv'
<1>1. crash \in Crashes /\ tainted \subseteq Taints /\ rob \in Robs
        /\ busyInstructions \subseteq Slots /\ writer \in 0 .. MaxInsts
        /\ fate \in {"none", "stray", "inflight", "retired", "squashed"}
        /\ verdict \in Verdicts
    BY DEF TypeInv, TypeOK, CoreTypeOK
<1>2. CASE tainted = {}
    BY <1>1, <1>2, HarnessType DEF CheckSinks, history, TypeInv, CrashOK, FlushOK
<1>3. CASE tainted # {}
  <2> DEFINE first == FirstTaint(tainted)
             slot  == getTaintingInstruction(rob, busyInstructions, BusyMask(rob), first.reg)
  <2>1. first.id \in 0 .. MaxInsts
      BY <1>1, <1>3, FirstTaintInSet DEF Taints
  <2>2. slot \in Slots
      BY <1>1, BlamedSlotType DEF Robs
  <2>3. /\ writer' = first.id
        /\ fate' \in {"stray", "inflight"}
        /\ RecordTaint(first.reg)
      BY <1>3 DEF CheckSinks
  <2> HIDE DEF first
  <2>4. crash' = [crash EXCEPT
          !.taintFound  = TRUE,
          !.taintInstr  = slot,
          !.taintPc     = IF FoundTainting(rob, first.reg) THEN rob.entry[slot].pc ELSE NoPC,
          !.taintBrMask = IF FoundTainting(rob, first.reg)
                          THEN rob.entry[slot].brMask ELSE {}]
      BY <2>3 DEF RecordTaint
  <2> HIDE DEF slot
  <2>5. rob.entry[slot].pc \in PCs \union {NoPC} /\ rob.entry[slot].brMask \subseteq BrTags
      BY <1>1, <2>2 DEF Robs, Entries
  <2>6. crash' \in Crashes
      BY <1>1, <2>2, <2>4, <2>5 DEF Crashes
  <2>7. crash'.flushFound = crash.flushFound /\ crash'.flushInfo = crash.flushInfo
      BY <1>1, <2>4 DEF Crashes
  <2>8. CrashOK'
      BY <2>7 DEF CheckSinks, CrashOK, FlushOK, TypeInv
  <2> QED
      BY <1>1, <2>1, <2>3, <2>6, <2>8, HarnessType DEF CheckSinks
<1> QED
    BY <1>2, <1>3

\* updateTaintInstr rereads the tracked slot.
LEMMA TrackTaintType ==
  ASSUME TypeInv, TrackTaint
  PROVE  TypeInv'
<1>1. crash \in Crashes /\ rob \in Robs /\ writer \in 0 .. MaxInsts
        /\ fate \in {"none", "stray", "inflight", "retired", "squashed"}
        /\ verdict \in Verdicts
    BY DEF TypeInv, TypeOK, CoreTypeOK
<1>2. rob.entry[crash.taintInstr].brMask \subseteq BrTags
    BY <1>1 DEF Crashes, Robs, Entries
<1>3. AboutToRetire(crash.taintInstr) \in BOOLEAN
    BY DEF AboutToRetire, isHead
<1>4. crash' = [crash EXCEPT
        !.taintBrMask = rob.entry[crash.taintInstr].brMask,
        !.isTaintArchitectural = @ \/ AboutToRetire(crash.taintInstr)]
    BY DEF TrackTaint, UpdateTaintInstr
<1>5. crash' \in Crashes
    BY <1>1, <1>2, <1>3, <1>4 DEF Crashes
<1>6. crash'.flushFound = crash.flushFound /\ crash'.flushInfo = crash.flushInfo
    BY <1>1, <1>4 DEF Crashes
<1>7. CrashOK'
    BY <1>6 DEF TrackTaint, CrashOK, FlushOK, TypeInv
<1> QED
    BY <1>1, <1>5, <1>7, HarnessType DEF TrackTaint, history

\* What readFrom reports of a flushing core.
LEMMA ReadFromType ==
  ASSUME TypeInv, isFlushing(sig)
  PROVE  /\ readFrom(rob, sig) \in FlushInfos
         /\ readFrom(rob, sig).type # "NONE"
         /\ readFrom(rob, sig).type = "MISPREDICTION" =>
              /\ readFrom(rob, sig).pc \in PCs
              /\ Uop[readFrom(rob, sig).pc] \in Branches
<1> DEFINE inst == FlushInst(rob, sig)
           info == readFrom(rob, sig)
<1>1. rob \in Robs /\ sig \in Signals /\ SigOK(rob, sig)
    BY DEF TypeInv, TypeOK, CoreTypeOK
<1>2. sig.flush = "none" => sig.mask # {}
    BY DEF isFlushing
<1>3. sig.flush # "none" => inst.pc \in PCs \union {NoPC}
  <2>1. HeadSlot(rob) \in Slots
      BY <1>1, HeadSlotType DEF Robs
  <2> QED
      BY <1>1, <2>1 DEF FlushInst, Robs, Entries
<1>4. sig.flush = "none" => inst.pc \in PCs /\ Uop[inst.pc] \in Branches
  <2> DEFINE at == MispredSlot(sig)
  <2> SUFFICES ASSUME sig.flush = "none"
               PROVE  inst.pc \in PCs /\ Uop[inst.pc] \in Branches
      OBVIOUS
  <2>1. at \in Slots /\ rob.entry[at].pc \in PCs /\ Uop[rob.entry[at].pc] \in Branches
      BY <1>1, <1>2 DEF SigOK
  <2>2. at # NoSlot
      BY <2>1, NoSlotIsNone
  <2> QED
      BY <2>1, <2>2 DEF FlushInst
<1>5. inst.pc \in PCs \union {NoPC}
    BY <1>3, <1>4
<1>6. CauseOf(inst.pc) \in {"ILLEGAL_INSTRUCTION", "FETCH_ACCESS", "LOAD_PAGE_FAULT"}
    BY DEF CauseOf
<1>7. sig.flush \in {"none", "exception", "ordering", "commit", "unknown"}
        /\ sig.mask \subseteq BrTags
    BY <1>1 DEF Signals
<1> HIDE DEF inst
<1>8. /\ FlushType(sig) \in {"EXCEPTION", "FLUSH", "MEM_ORDERING", "UNKNOWN_FLUSH",
                             "MISPREDICTION"}
      /\ FlushType(sig) = "MISPREDICTION" => sig.flush = "none"
    BY <1>7 DEF FlushType
<1>9. /\ info.type = FlushType(sig) /\ info.pc = inst.pc
      /\ info \in FlushInfos
  <2> DEFINE cause == CASE sig.flush = "exception" -> CauseOf(inst.pc)
                        [] sig.flush = "ordering"  -> "MINI_EXCEPTION_MEM_ORDERING"
                        [] sig.flush \in {"commit", "unknown"} -> "CAUSE_UNKNOWN"
                        [] sig.flush = "none"      -> "CAUSE_MISPREDICTION"
             mask  == IF sig.flush = "none" THEN sig.mask ELSE {}
             taken == sig.flush = "none" /\ MispredSlot(sig) # NoSlot /\ sig.taken
  <2>1. info = [type |-> FlushType(sig), cause |-> cause, pc |-> inst.pc,
                mispredMask |-> mask, taken |-> taken]
      BY DEF readFrom, inst
  <2>2. cause \in {"CAUSE_UNKNOWN", "ILLEGAL_INSTRUCTION", "FETCH_ACCESS",
                   "LOAD_PAGE_FAULT", "MINI_EXCEPTION_MEM_ORDERING", "CAUSE_MISPREDICTION"}
      BY <1>6, <1>7
  <2>3. mask \subseteq BrTags
      BY <1>7
  <2>4. taken \in BOOLEAN
    <3>1. sig.taken \in BOOLEAN
        BY <1>1 DEF Signals
    <3> QED
        BY <3>1
  <2> HIDE DEF cause, mask, taken
  <2> QED
      BY <1>5, <1>8, <2>1, <2>2, <2>3, <2>4 DEF FlushInfos
<1> HIDE DEF info
<1>10. info.type # "NONE" /\ (info.type = "MISPREDICTION" => sig.flush = "none")
    BY <1>8, <1>9
<1> QED
    BY <1>4, <1>9, <1>10 DEF info

\* recordFlush keeps only flushes that classify has a case for.
LEMMA FlushAfterTaintType ==
  ASSUME TypeInv, FlushAfterTaint
  PROVE  TypeInv'
<1> DEFINE info == readFrom(rob, sig)
<1>1. crash \in Crashes /\ writer \in 0 .. MaxInsts
        /\ fate \in {"none", "stray", "inflight", "retired", "squashed"}
        /\ verdict \in Verdicts
    BY DEF TypeInv, TypeOK
<1>2. /\ info \in FlushInfos
      /\ info.type # "NONE"
      /\ info.type = "MISPREDICTION" => info.pc \in PCs /\ Uop[info.pc] \in Branches
    BY ReadFromType DEF FlushAfterTaint
<1>3. CASE Irrelevant(info)
    BY <1>1, <1>3, HarnessType DEF FlushAfterTaint, history, TypeInv, CrashOK, FlushOK
<1>4. CASE ~Irrelevant(info)
  <2>1. info.type \in {"EXCEPTION", "MEM_ORDERING", "UNKNOWN_FLUSH", "MISPREDICTION"}
      BY <1>2, <1>4 DEF Irrelevant, FlushInfos
  <2>2. RecordFlush(info) /\ pc' = "report"
      BY <1>4 DEF FlushAfterTaint
  <2> HIDE DEF info
  <2>3. PICK new \in {info, [info EXCEPT !.cause = "CAUSE_MISPREDICTION_WITH_EXCEPTION"]} :
          crash' = [crash EXCEPT !.flushFound = TRUE, !.flushInfo = new]
      BY <2>2 DEF RecordFlush
  <2>4. new \in FlushInfos /\ new.type = info.type /\ new.pc = info.pc
      BY <1>2 DEF FlushInfos
  <2>5. crash' \in Crashes /\ crash'.flushInfo = new
      BY <1>1, <2>3, <2>4 DEF Crashes
  <2>6. FlushOK'
      BY <1>2, <2>1, <2>4, <2>5 DEF FlushOK
  <2>7. verdict = "none" /\ verdict' = verdict
      BY DEF FlushAfterTaint, TypeInv, CrashOK
  <2>8. CrashOK'
      BY <2>6, <2>7 DEF CrashOK
  <2> QED
      BY <1>1, <2>2, <2>5, <2>8, HarnessType DEF FlushAfterTaint, history
<1> QED
    BY <1>3, <1>4

\* Classify has a class for every taint and every recorded flush.
LEMMA ReportType ==
  ASSUME TypeInv, Report
  PROVE  TypeInv'
<1>1. crash \in Crashes /\ writer \in 0 .. MaxInsts
        /\ fate \in {"none", "stray", "inflight", "retired", "squashed"}
    BY DEF TypeInv, TypeOK
<1>2. CrashOK
    BY DEF TypeInv
<1>3. ASSUME crash.flushFound, crash.flushInfo.type = "MISPREDICTION"
      PROVE  ClassifyMispred \in Verdicts
  <2>1. UopOf(crash.flushInfo.pc) \in Branches
      BY <1>2, <1>3, CoreAssumption DEF CrashOK, FlushOK, UopOf, CoreAssumption
  <2> QED
      BY <2>1 DEF ClassifyMispred, Verdicts, Branches
<1>4. crash.flushFound =>
        /\ ClassifyFlush \in Verdicts
        /\ ClassifyFlush = "Flush_Unknown" => crash.flushInfo.type = "UNKNOWN_FLUSH"
  <2> SUFFICES ASSUME crash.flushFound
               PROVE  /\ ClassifyFlush \in Verdicts
                      /\ ClassifyFlush = "Flush_Unknown" => crash.flushInfo.type = "UNKNOWN_FLUSH"
      OBVIOUS
  <2>1. CASE crash.flushInfo.type = "MISPREDICTION"
    <3>1. ClassifyMispred # "Flush_Unknown"
        BY DEF ClassifyMispred
    <3> QED
        BY <1>3, <2>1, <3>1 DEF ClassifyFlush
  <2>2. CASE crash.flushInfo.type # "MISPREDICTION"
      BY <1>2, <2>2 DEF ClassifyFlush, CrashOK, FlushOK, Verdicts
  <2> QED
      BY <2>1, <2>2
<1>5. crash.taintFound =>
        /\ Classify \in Verdicts
        /\ Classify = "Flush_Unknown" => crash.flushInfo.type = "UNKNOWN_FLUSH"
    BY <1>4 DEF Classify, Verdicts
<1>6. /\ verdict' \in Verdicts /\ pc' = "done" /\ crash' = crash
      /\ verdict' = "Flush_Unknown" => crash.flushInfo.type = "UNKNOWN_FLUSH"
    BY <1>5 DEF Report, Verdicts
<1>7. CrashOK'
    BY <1>2, <1>6 DEF CrashOK, FlushOK
<1> QED
    BY <1>1, <1>6, <1>7, HarnessType DEF Report, history

\* The steps that only move main along.
LEMMA MoveType ==
  ASSUME TypeInv, LoopEnd \/ NoFlushNow \/ FlushBeforeTaint
  PROVE  TypeInv'
<1>1. crash \in Crashes /\ writer \in 0 .. MaxInsts
        /\ fate \in {"none", "stray", "inflight", "retired", "squashed"}
        /\ verdict \in Verdicts /\ CrashOK
    BY DEF TypeInv, TypeOK
<1>2. UNCHANGED <<crash, history>> /\ CrashOK'
    BY <1>1 DEF LoopEnd, NoFlushNow, FlushBeforeTaint, history, CrashOK, FlushOK
<1>3. pc' \in {"loop", "report", "done"} /\ verdict' \in Verdicts
    BY <1>1 DEF LoopEnd, NoFlushNow, FlushBeforeTaint, Verdicts
<1>4. UNCHANGED <<coreVars, busyInstructions, retired_pcs, source>>
    BY DEF LoopEnd, NoFlushNow, FlushBeforeTaint
<1> QED
    BY <1>1, <1>2, <1>3, <1>4, HarnessType DEF history

\* Every step keeps the inductive invariant.
LEMMA TypeInvNext ==
  ASSUME TypeInv, [Next]_vars
  PROVE  TypeInv'
<1> USE RobAssumption, CoreAssumption
<1>1. CASE Step
    BY <1>1, StepType
<1>2. CASE LoopEnd \/ NoFlushNow \/ FlushBeforeTaint
    BY <1>2, MoveType
<1>3. CASE CheckSinks
    BY <1>3, CheckSinksType
<1>4. CASE TrackTaint
    BY <1>4, TrackTaintType
<1>5. CASE FlushAfterTaint
    BY <1>5, FlushAfterTaintType
<1>6. CASE Report
    BY <1>6, ReportType
<1>7. CASE UNCHANGED vars
    BY <1>7 DEF vars, coreVars, history, TypeInv, TypeOK, CoreTypeOK, RobOK, SigOK, CrashOK, FlushOK
<1> QED
    BY <1>1, <1>2, <1>3, <1>4, <1>5, <1>6, <1>7 DEF Next

(***************************************************************************)
(* Every variable keeps its type, no run ends in one of the classes that   *)
(* classify calls impossible, and Flush_Unknown stands for a flush that is *)
(* neither an exception nor memory ordering: for every buffer size, every  *)
(* program, every number of tags and registers and every run.              *)
(***************************************************************************)
THEOREM TypeCorrect == Spec => []TypeOK
<1>1. Init => TypeInv
    BY TypeInvInit, RobAssumption, CoreAssumption
<1>2. TypeInv /\ [Next]_vars => TypeInv'
    BY TypeInvNext
<1>3. TypeInv => TypeOK
    BY DEF TypeInv
<1> QED
    BY <1>1, <1>2, <1>3, PTL DEF Spec
=============================================================================
