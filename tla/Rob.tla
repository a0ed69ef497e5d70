-------------------------------- MODULE Rob --------------------------------
(***************************************************************************)
(* The snapshot of BOOM's reorder buffer that the harness takes after each *)
(* clock cycle (uarch/Rob.h), and the queries it makes of one snapshot.    *)
(*                                                                         *)
(* A snapshot r is a record [head, tail, entry]: head and tail are row     *)
(* numbers and entry maps every slot <<robIdx, robBank>> to an entry.      *)
(* Register addresses are register numbers: the source divides a byte      *)
(* offset by 8.  Nothing here changes state.                               *)
(***************************************************************************)
EXTENDS Integers, FiniteSets, FiniteSetsExt

CONSTANTS
  ROB_SIZE,  \* rows of the buffer (32 in the source)
  N_ROBS     \* banks in use: 2, or 1 under SmallFuzzConfig

ASSUME RobAssumption ==
  /\ ROB_SIZE \in Nat \ {0, 1}
  /\ N_ROBS \in {1, 2}

Rows  == 0 .. ROB_SIZE - 1
Banks == 0 .. 1          \* the second bank exists, all zero, even if unused
Slots == Rows \X Banks

\* dst_type: an integer, a floating-point or no destination (DEST_UNUSED).
DestTypes == {"int", "fp", "unused"}

isEmpty(r) == \A b \in Banks : ~r.entry[<<r.head, b>>].valid

getHeadBank(r) == IF r.entry[<<r.head, 0>>].valid THEN 0 ELSE 1

HeadSlot(r) == <<r.head, getHeadBank(r)>>

isHead(r, slot) == slot = HeadSlot(r)

\* Slots that are both valid and busy (getRobBusyMask).
BusyMask(r) == {s \in Slots : r.entry[s].valid /\ r.entry[s].busy}

\* Mutant of getDiff: the masks swapped.
getDiff_swapped(oldMask, newMask) == newMask \ oldMask

\* Slots that left the mask between two cycles: completed, or invalidated.
getDiff(oldMask, newMask) == oldMask \ newMask

(***************************************************************************)
(* The walk from head to tail.  It leaves out the banks of the head row in *)
(* front of the head.  When head = tail it goes once round the whole       *)
(* buffer and then through the head row a second time.                     *)
(***************************************************************************)
\* Mutant of WalkedRows: a full buffer looks like an empty one.
WalkedRows_full(r) == {i \in Rows : (i - r.head) % ROB_SIZE <= (r.tail - r.head) % ROB_SIZE}

WalkedRows(r) ==
  IF r.head = r.tail
  THEN Rows
  ELSE {i \in Rows : (i - r.head) % ROB_SIZE <= (r.tail - r.head) % ROB_SIZE}

Walked(r) ==
  {s \in WalkedRows(r) \X (0 .. N_ROBS - 1) : s[1] = r.head => s[2] >= getHeadBank(r)}

HasDest(e, reg) == e.dst = reg /\ e.dst_type # "unused"

\* useTaintedRegister, without and with the repetitions of the second visit.
UsesRegister(r, reg) ==
  {s \in Walked(r) : r.entry[s].valid /\ HasDest(r.entry[s], reg)}

UseCount(r, reg) ==
  LET uses == UsesRegister(r, reg)
  IN  Cardinality(uses)
        + IF r.head = r.tail
          THEN Cardinality({s \in uses : s[1] = r.head})
          ELSE 0

\* The last slot of a set in the order getDiff lists them.
LastSlot(S) == CHOOSE s \in S : \A t \in S : 2 * t[1] + t[2] <= 2 * s[1] + s[2]

\* The zero entry {0} that stands for "not found" claims to be slot [0][0].
NotFound == <<0, 0>>

(***************************************************************************)
(* The slot that getTaintingInstruction blames for a taint of register     *)
(* reg, and whether it found one at all.                                   *)
(***************************************************************************)
FoundTainting(r, reg) == ~isEmpty(r) /\ UsesRegister(r, reg) # {}

getTaintingInstruction(r, previouslyBusy, currentlyBusy, reg) ==
  LET uses   == UsesRegister(r, reg)
      unbusy == {s \in getDiff(previouslyBusy, currentlyBusy) : HasDest(r.entry[s], reg)}
  IN  IF ~FoundTainting(r, reg)   THEN NotFound
      ELSE IF UseCount(r, reg) = 1 THEN CHOOSE s \in uses : TRUE
      ELSE IF unbusy = {}          THEN HeadSlot(r)
      ELSE LastSlot(unbusy)
=============================================================================
