------------------------------ MODULE CoreProofs ------------------------------
(***************************************************************************)
(* What every clock edge keeps of the reorder buffer and its wires: the    *)
(* order of the entries, the rows in use, the branch tags, the identities. *)
(* These are facts about the environment; DetectionProofs builds on them.  *)
(***************************************************************************)
EXTENDS DetectorProofs

(***************************************************************************)
(* Positions.  Dist counts the rows from the head, h, to row i.            *)
(***************************************************************************)
Dist(h, i) == IF i >= h THEN i - h ELSE i - h + ROB_SIZE

NextRow(i) == (i + 1) % ROB_SIZE

Before(h, s, t) ==
  \/ Dist(h, s[1]) < Dist(h, t[1])
  \/ s[1] = t[1] /\ s[2] < t[2]

\* The distance is what the walk computes.
LEMMA DistMod ==
  ASSUME NEW h \in Rows, NEW i \in Rows
  PROVE  (i - h) % ROB_SIZE = Dist(h, i)
BY RobAssumption DEF Dist, Rows, RobAssumption

\* Distances number the rows.
LEMMA DistType ==
  ASSUME NEW h \in Rows, NEW i \in Rows
  PROVE  /\ Dist(h, i) \in 0 .. ROB_SIZE - 1
         /\ Dist(h, i) = 0 <=> i = h
         /\ \A j \in Rows : Dist(h, i) = Dist(h, j) => i = j
BY RobAssumption DEF Dist, Rows, RobAssumption

\* The row after the last is the first.
LEMMA NextRowIs ==
  ASSUME NEW i \in Rows
  PROVE  /\ NextRow(i) = IF i = ROB_SIZE - 1 THEN 0 ELSE i + 1
         /\ NextRow(i) \in Rows
BY RobAssumption DEF NextRow, Rows, RobAssumption

\* A row further on is one further away.
LEMMA DistNext ==
  ASSUME NEW h \in Rows, NEW i \in Rows
  PROVE  Dist(h, NextRow(i)) = IF Dist(h, i) = ROB_SIZE - 1 THEN 0 ELSE Dist(h, i) + 1
BY NextRowIs, RobAssumption DEF Dist, Rows, RobAssumption

\* When the head moves on, every row but the old head comes nearer by one.
LEMMA DistMoved ==
  ASSUME NEW h \in Rows, NEW i \in Rows
  PROVE  Dist(NextRow(h), i) = IF i = h THEN ROB_SIZE - 1 ELSE Dist(h, i) - 1
BY NextRowIs, RobAssumption DEF Dist, Rows, RobAssumption

\* Two slots are in order one way or the other, and not both.
LEMMA BeforeTotal ==
  ASSUME NEW h \in Rows, NEW s \in Slots, NEW t \in Slots, s # t
  PROVE  /\ Before(h, s, t) \/ Before(h, t, s)
         /\ ~ (Before(h, s, t) /\ Before(h, t, s))
<1>1. /\ s[1] \in Rows /\ t[1] \in Rows /\ s[2] \in {0, 1} /\ t[2] \in {0, 1}
      /\ s[1] # t[1] \/ s[2] # t[2]
  BY DEF Slots, Banks
<1>2. /\ Dist(h, s[1]) \in Int /\ Dist(h, t[1]) \in Int
      /\ Dist(h, s[1]) = Dist(h, t[1]) => s[1] = t[1]
  BY <1>1, DistType
<1> QED BY <1>1, <1>2 DEF Before

(***************************************************************************)
(* The invariant of the buffer.                                            *)
(***************************************************************************)
Live(r, i) == \E b \in Banks : r.entry[<<i, b>>].valid

InRange(r, i) ==
  IF r.head = r.tail THEN Valid(r) # {} ELSE Dist(r.head, i) < Dist(r.head, r.tail)

\* The rows from the head up to the tail are those with a valid entry; with
\* head = tail that is all of them or none.
Contiguous(r) == \A i \in Rows : InRange(r, i) <=> Live(r, i)

\* Positions follow ages.
Ordered(r) == \A s, t \in Valid(r) : Before(r.head, s, t) => OlderSlot(r, s, t)

\* Valid entries have an identity given out before n, the others none.
Identified(r, n) ==
  \A s \in Slots : IF r.entry[s].valid THEN r.entry[s].id \in 1 .. n - 1
                                       ELSE r.entry[s].id = 0

InBanks(r) == \A s \in Valid(r) : s[2] < N_ROBS

\* A register is named by one entry of its file, stale entries included.
Registers(r) ==
  \A s, t \in Slots :
    /\ s # t
    /\ r.entry[s].dst_type # "unused"
    /\ r.entry[s].dst_type = r.entry[t].dst_type
    => r.entry[s].dst # r.entry[t].dst

\* Every entry, valid or stale, has a destination of some instruction, or none.
Destinations(r) ==
  \A s \in Slots : r.entry[s].dst_type \in {DestOf(p) : p \in PCs} \union {"unused"}

FenceAlone(r) == \A s \in Valid(r) : Uop[r.entry[s].pc] = "fence" => Valid(r) = {s}

\* The branch masks, for the slots whose branches are not resolved yet: tags
\* are distinct, a branch is in the masks of all younger entries, and every tag
\* in a mask is the one of an older open branch.
TagsDistinct(r, open) ==
  \A s, t \in open : r.entry[s].tag = r.entry[t].tag /\ r.entry[s].tag # 0 => s = t

TagsReach(r, open) ==
  \A s \in open, t \in Valid(r) :
    r.entry[s].tag # 0 /\ OlderSlot(r, s, t) => r.entry[s].tag \in r.entry[t].brMask

TagsHeld(r, open) ==
  \A t \in Valid(r) : \A k \in r.entry[t].brMask :
    \E s \in open : r.entry[s].tag = k /\ OlderSlot(r, s, t)

TagsOK(r, open) == TagsDistinct(r, open) /\ TagsReach(r, open) /\ TagsHeld(r, open)

Wrong(g) == {g.br0, g.br1} \ {NoSlot}

\* The wires, when the instructions in done have just completed.
WiresOK(r, g, done) ==
  /\ g.flush = FlushWire(r)
  /\ done \subseteq Valid(r)
  /\ \A s \in done : ~r.entry[s].busy
  /\ TagsOK(r, BusyMask(r) \union done)
  /\ g.resolved = {r.entry[s].tag : s \in done} \ {0}
  /\ Wrong(g) \subseteq done
  /\ g.mask = {r.entry[s].tag : s \in Wrong(g)}
  /\ \A w \in Wrong(g) : r.entry[w].exception = "none" /\ r.entry[w].tag # 0
  /\ Wrong(g) # {} =>
       /\ MispredSlot(g) \in Wrong(g)
       /\ \A w \in Wrong(g) : w # MispredSlot(g) => OlderSlot(r, MispredSlot(g), w)

\* Everything but the place of the rows.
EntriesInv(r, n) ==
  Ordered(r) /\ Identified(r, n) /\ InBanks(r) /\ Registers(r) /\ Destinations(r)

BufferInv(r, n) == EntriesInv(r, n) /\ Contiguous(r) /\ FenceAlone(r)

\* The buffer between the effect of the wires and what happens next.
Settled(r, n) == RobOK(r) /\ BufferInv(r, n) /\ TagsOK(r, BusyMask(r))

CoreInv ==
  /\ RobOK(rob) /\ SigOK(rob, sig) /\ nextId \in 1 .. MaxInsts + 1
  /\ BufferInv(rob, nextId)
  /\ \E done \in SUBSET Slots : WiresOK(rob, sig, done)

(***************************************************************************)
(* What the invariant says of one buffer.                                  *)
(***************************************************************************)
\* Types of the parts that are compared below.
LEMMA EntryParts ==
  ASSUME NEW r, RobOK(r)
  PROVE  /\ r.head \in Rows /\ r.tail \in Rows
         /\ \A s \in Slots : /\ r.entry[s] \in Entries
                             /\ r.entry[s].valid \in BOOLEAN
                             /\ r.entry[s].busy \in BOOLEAN
                             /\ r.entry[s].id \in Nat
                             /\ r.entry[s].brMask \subseteq BrTags
BY CoreAssumption DEF RobOK, Robs, Entries, CoreAssumption

\* Two valid entries have different identities, ordered as their slots are.
LEMMA AgesFollow ==
  ASSUME NEW r, RobOK(r), Ordered(r), NEW s \in Valid(r), NEW t \in Valid(r), s # t
  PROVE  /\ OlderSlot(r, s, t) <=> Before(r.head, s, t)
         /\ OlderSlot(r, s, t) \/ OlderSlot(r, t, s)
         /\ ~ (OlderSlot(r, s, t) /\ OlderSlot(r, t, s))
         /\ r.entry[s].id # r.entry[t].id
<1>1. s \in Slots /\ t \in Slots /\ r.head \in Rows
  BY EntryParts DEF Valid
<1>2. Before(r.head, s, t) \/ Before(r.head, t, s)
  BY <1>1, BeforeTotal
<1>3. /\ Before(r.head, s, t) => OlderSlot(r, s, t)
      /\ Before(r.head, t, s) => OlderSlot(r, t, s)
  BY DEF Ordered
<1>4. r.entry[s].id \in Nat /\ r.entry[t].id \in Nat
  BY <1>1, EntryParts
<1>5. ~ (OlderSlot(r, s, t) /\ OlderSlot(r, t, s))
  BY <1>4 DEF OlderSlot
<1> QED BY <1>2, <1>3, <1>4, <1>5 DEF OlderSlot

\* A buffer with a valid entry has one at the head, and it is the oldest.
LEMMA HeadOldest ==
  ASSUME NEW r, RobOK(r), Contiguous(r), Ordered(r), Valid(r) # {}
  PROVE  /\ HeadSlot(r) \in Valid(r)
         /\ \A t \in Valid(r) : t # HeadSlot(r) => OlderSlot(r, HeadSlot(r), t)
<1>0. r.head \in Rows /\ r.tail \in Rows
  BY EntryParts
<1>1. Live(r, r.head)
  <2>1. InRange(r, r.head)
    BY <1>0, DistType DEF InRange
  <2> QED BY <1>0, <2>1 DEF Contiguous
<1>2. HeadSlot(r) \in Valid(r)
  BY <1>0, <1>1 DEF Live, HeadSlot, getHeadBank, Valid, Slots, Banks
<1>3. ASSUME NEW t \in Valid(r), t # HeadSlot(r)
      PROVE  Before(r.head, HeadSlot(r), t)
  <2>1. t \in Rows \X {0, 1} /\ t = <<t[1], t[2]>> /\ r.entry[t].valid
    BY DEF Valid, Slots, Banks
  <2>2. Dist(r.head, t[1]) \in 0 .. ROB_SIZE - 1 /\ Dist(r.head, r.head) = 0
        /\ (Dist(r.head, t[1]) = 0 => t[1] = r.head)
    BY <1>0, <2>1, DistType
  <2>3. CASE t[1] = r.head
    <3>1. t[2] = 1 /\ getHeadBank(r) = 0
      BY <1>3, <2>1, <2>3 DEF HeadSlot, getHeadBank
    <3> QED BY <2>3, <3>1 DEF Before, HeadSlot
  <2>4. CASE t[1] # r.head
    BY <2>2, <2>4, RobAssumption DEF Before, HeadSlot, RobAssumption
  <2> QED BY <2>3, <2>4
<1> QED BY <1>2, <1>3 DEF Ordered

\* Nothing is older than the head, so it depends on no branch.
LEMMA HeadIndependent ==
  ASSUME NEW r, RobOK(r), Contiguous(r), Ordered(r), Valid(r) # {},
         NEW open, open \subseteq Valid(r), TagsHeld(r, open)
  PROVE  r.entry[HeadSlot(r)].brMask = {}
<1>1. HeadSlot(r) \in Valid(r)
  BY HeadOldest
<1>2. SUFFICES ASSUME NEW k \in r.entry[HeadSlot(r)].brMask PROVE FALSE
  OBVIOUS
<1>3. PICK s \in open : OlderSlot(r, s, HeadSlot(r))
  BY <1>1 DEF TagsHeld
<1>4. s # HeadSlot(r)
  <2>1. r.entry[s].id \in Nat
    BY EntryParts DEF Valid
  <2> QED BY <1>3, <2>1 DEF OlderSlot
<1> QED BY <1>1, <1>3, <1>4, HeadOldest, AgesFollow

(***************************************************************************)
(* The wires and commits take effect.                                      *)
(***************************************************************************)
Gone(r, g) == Committing(r, g) \union Squashed(r, g)

\* The head row is done with.
Moves(r, g) ==
  /\ Committing(r, g) # {}
  /\ \A b \in Banks : <<r.head, b>> \in Valid(r) => <<r.head, b>> \in Gone(r, g)

\* What stays is what was, but for the resolved tags.
LEMMA SettleEntry ==
  ASSUME NEW r, NEW g, RobOK(r)
  PROVE  /\ \A s \in Slots :
              LET e == r.entry[s]
                  f == Settle(r, g).entry[s]
              IN  /\ f.valid <=> e.valid /\ s \notin Gone(r, g)
                  /\ f.busy = e.busy /\ f.exception = e.exception /\ f.pc = e.pc
                  /\ f.dst = e.dst /\ f.dst_type = e.dst_type
                  /\ f.brMask = e.brMask \ g.resolved
                  /\ f.id = (IF s \in Gone(r, g) THEN 0 ELSE e.id)
                  /\ f.tag = (IF s \in Gone(r, g) THEN 0 ELSE e.tag)
         /\ Settle(r, g).head = IF Moves(r, g) THEN NextRow(r.head) ELSE r.head
         /\ Settle(r, g).tail = IF g.flush # "none" THEN Settle(r, g).head
                                ELSE IF g.mask # {} THEN NextRow(MispredSlot(g)[1])
                                ELSE r.tail
<1> DEFINE gone == Gone(r, g)
           q == Settle(r, g)
<1>1. \A s \in Slots : r.entry[s] \in Entries
  BY EntryParts
<1>2. gone = Committing(r, g) \union Squashed(r, g)
  BY DEF Gone
<1>3. /\ q.head = IF Moves(r, g) THEN NextRow(r.head) ELSE r.head
      /\ q.tail = IF g.flush # "none" THEN q.head
                  ELSE IF g.mask # {} THEN NextRow(MispredSlot(g)[1]) ELSE r.tail
  BY <1>2 DEF Settle, Moves, NextRow
<1>4. ASSUME NEW s \in Slots
      PROVE  q.entry[s] = [r.entry[s] EXCEPT !.valid  = @ /\ s \notin gone,
                                             !.id     = IF s \in gone THEN 0 ELSE @,
                                             !.tag    = IF s \in gone THEN 0 ELSE @,
                                             !.brMask = @ \ g.resolved]
  BY <1>2 DEF Settle
<1> HIDE DEF q, gone
<1>5. ASSUME NEW s \in Slots
      PROVE  LET e == r.entry[s]
                 f == q.entry[s]
             IN  /\ f.valid <=> e.valid /\ s \notin gone
                 /\ f.busy = e.busy /\ f.exception = e.exception /\ f.pc = e.pc
                 /\ f.dst = e.dst /\ f.dst_type = e.dst_type
                 /\ f.brMask = e.brMask \ g.resolved
                 /\ f.id = (IF s \in gone THEN 0 ELSE e.id)
                 /\ f.tag = (IF s \in gone THEN 0 ELSE e.tag)
  <2>1. PICK e \in Entries : e = r.entry[s]
    BY <1>1
  <2>2. PICK valid \in BOOLEAN : valid <=> e.valid /\ s \notin gone
    OBVIOUS
  <2>3. PICK id : id = IF s \in gone THEN 0 ELSE e.id
    OBVIOUS
  <2>4. PICK tag : tag = IF s \in gone THEN 0 ELSE e.tag
    OBVIOUS
  <2>5. q.entry[s] = [e EXCEPT !.valid = valid, !.id = id, !.tag = tag,
                               !.brMask = @ \ g.resolved]
    <3>1. valid = (e.valid /\ s \notin gone)
      BY <2>2
    <3> QED BY <1>4, <2>1, <2>3, <2>4, <3>1
  <2>6. q.entry[s] = [valid |-> valid, busy |-> e.busy, exception |-> e.exception,
                      pc |-> e.pc, brMask |-> e.brMask \ g.resolved, dst |-> e.dst,
                      dst_type |-> e.dst_type, tag |-> tag, id |-> id]
    BY <2>5 DEF Entries
  <2> QED BY <2>1, <2>2, <2>3, <2>4, <2>6
<1> QED BY <1>3, <1>5 DEF q, gone

\* The entries that are left.
LEMMA SettleValid ==
  ASSUME NEW r, NEW g, RobOK(r)
  PROVE  /\ Valid(Settle(r, g)) = Valid(r) \ Gone(r, g)
         /\ BusyMask(Settle(r, g)) = BusyMask(r) \ Gone(r, g)
         /\ \A s, t \in Valid(Settle(r, g)) :
              OlderSlot(Settle(r, g), s, t) <=> OlderSlot(r, s, t)
<1>1. Valid(Settle(r, g)) = Valid(r) \ Gone(r, g)
  BY SettleEntry DEF Valid
<1>2. BusyMask(Settle(r, g)) = BusyMask(r) \ Gone(r, g)
  BY SettleEntry DEF BusyMask
<1>3. \A s \in Valid(Settle(r, g)) : Settle(r, g).entry[s].id = r.entry[s].id
  BY <1>1, SettleEntry DEF Valid
<1> QED BY <1>1, <1>2, <1>3 DEF OlderSlot

\* Only entries of the head row retire, in order, and none that is busy.
LEMMA CommittingIs ==
  ASSUME NEW r, NEW g, RobOK(r)
  PROVE  /\ Committing(r, g) \subseteq Valid(r)
         /\ Squashed(r, g) \subseteq Valid(r)
         /\ \A s \in Committing(r, g) : s[1] = r.head /\ ~r.entry[s].busy
         /\ Committing(r, g) \cap Squashed(r, g) = {}
<1>1. \A s \in Committing(r, g) : /\ s \in {r.head} \X Banks
                                  /\ r.entry[s].valid /\ ~r.entry[s].busy
                                  /\ s \notin Mispredicted(r, g)
  BY DEF Committing, CanCommit, Ready
<1>2. {r.head} \X Banks \subseteq Slots
  BY EntryParts DEF Slots
<1> QED BY <1>1, <1>2 DEF Valid, Squashed, Mispredicted

\* A flush of the whole buffer leaves nothing.
LEMMA FlushEmpties ==
  ASSUME NEW r, NEW g, RobOK(r), g.flush # "none"
  PROVE  Gone(r, g) = Valid(r)
BY CommittingIs DEF Gone, Squashed

\* Masks hold tags, and no tag is 0.
LEMMA NoZeroTag ==
  ASSUME NEW r, RobOK(r), NEW u \in Slots
  PROVE  0 \notin r.entry[u].brMask
BY EntryParts, CoreAssumption DEF CoreAssumption

\* In a buffer that keeps the tags, a mask grows with the age of the entry:
\* what kills an entry kills all younger ones.
LEMMA YoungerDependMore ==
  ASSUME NEW r, RobOK(r), NEW open, open \subseteq Valid(r), TagsOK(r, open),
         NEW s \in Valid(r), NEW t \in Valid(r), OlderSlot(r, s, t)
  PROVE  r.entry[s].brMask \subseteq r.entry[t].brMask
<1> SUFFICES ASSUME NEW k \in r.entry[s].brMask PROVE k \in r.entry[t].brMask
  OBVIOUS
<1>1. PICK h \in open : r.entry[h].tag = k /\ OlderSlot(r, h, s)
  BY DEF TagsOK, TagsHeld
<1>2. s \in Slots /\ t \in Slots /\ h \in Slots
  BY DEF Valid
<1>3. r.entry[h].id \in Nat /\ r.entry[s].id \in Nat /\ r.entry[t].id \in Nat
  BY <1>2, EntryParts
<1>4. OlderSlot(r, h, t)
  BY <1>1, <1>3 DEF OlderSlot
<1>5. k # 0
  BY <1>2, NoZeroTag
<1> QED BY <1>1, <1>4, <1>5 DEF TagsOK, TagsReach

\* A misprediction kills exactly what is younger than the branch that the
\* core obeys, and that branch was about to retire when it reaches the head.
LEMMA SquashedAreYounger ==
  ASSUME NEW r, NEW g, NEW done, RobOK(r), Ordered(r), WiresOK(r, g, done),
         g.flush = "none", g.mask # {}
  PROVE  /\ MispredSlot(g) \in Valid(r)
         /\ CanCommit(r.entry[MispredSlot(g)])
         /\ MispredSlot(g) \notin Squashed(r, g)
         /\ \A s \in Valid(r) :
              s \in Squashed(r, g) <=> OlderSlot(r, MispredSlot(g), s)
<1> DEFINE w == MispredSlot(g)
           open == BusyMask(r) \union done
<1>1. Wrong(g) # {} /\ w \in Wrong(g) /\ w \in done
  BY DEF WiresOK
<1>2. /\ w \in Valid(r) /\ ~r.entry[w].busy /\ r.entry[w].exception = "none"
      /\ r.entry[w].tag # 0 /\ r.entry[w].tag \in g.mask
  BY <1>1 DEF WiresOK
<1>3. CanCommit(r.entry[w])
  BY <1>2 DEF CanCommit, Ready, Valid
<1>4. open \subseteq Valid(r) /\ TagsOK(r, open)
  BY DEF WiresOK, BusyMask, Valid
<1>5. Squashed(r, g) = {s \in Valid(r) : r.entry[s].brMask \cap g.mask # {}}
  BY DEF Squashed, Mispredicted
<1>6. ASSUME NEW s \in Valid(r), OlderSlot(r, w, s)
      PROVE  s \in Squashed(r, g)
  BY <1>1, <1>2, <1>4, <1>5, <1>6 DEF TagsOK, TagsReach
<1>7. ASSUME NEW s \in Squashed(r, g)
      PROVE  OlderSlot(r, w, s)
  <2>1. PICK k \in g.mask : k \in r.entry[s].brMask
    BY <1>5
  <2>2. PICK v \in Wrong(g) : r.entry[v].tag = k
    BY DEF WiresOK
  <2>3. v \in done /\ r.entry[v].tag # 0 /\ (v = w \/ OlderSlot(r, w, v))
    BY <1>1, <2>2 DEF WiresOK
  <2>4. PICK h \in open : r.entry[h].tag = k /\ OlderSlot(r, h, s)
    BY <1>4, <1>5, <2>1 DEF TagsOK, TagsHeld
  <2>5. h = v
    BY <1>4, <2>2, <2>3, <2>4 DEF TagsOK, TagsDistinct
  <2>6. w \in Slots /\ v \in Slots /\ s \in Slots
    BY <1>2, <1>4, <1>5, <2>4, <2>5 DEF Valid
  <2>7. r.entry[w].id \in Nat /\ r.entry[v].id \in Nat /\ r.entry[s].id \in Nat
    BY <2>6, EntryParts
  <2> QED BY <2>3, <2>4, <2>5, <2>7 DEF OlderSlot
<1>8. w \notin Squashed(r, g)
  <2>1. r.entry[w].id \in Nat
    BY <1>2, EntryParts DEF Valid
  <2> QED BY <1>7, <2>1 DEF OlderSlot
<1> QED BY <1>2, <1>3, <1>5, <1>6, <1>7, <1>8

\* The tags after the wires took effect: what was resolved is in no mask, and
\* the branch behind a tag that is left was killed by nothing that spared the
\* entry.
LEMMA SettleTags ==
  ASSUME NEW r, NEW g, NEW done, RobOK(r), WiresOK(r, g, done)
  PROVE  TagsOK(Settle(r, g), BusyMask(Settle(r, g)))
<1> DEFINE q == Settle(r, g)
           open == BusyMask(r) \union done
<1>1. /\ done \subseteq Valid(r) /\ TagsOK(r, open)
      /\ g.resolved = {r.entry[s].tag : s \in done} \ {0}
      /\ \A s \in done : ~r.entry[s].busy
  BY DEF WiresOK
<1>2. /\ Valid(q) = Valid(r) \ Gone(r, g) /\ BusyMask(q) = BusyMask(r) \ Gone(r, g)
      /\ \A s, t \in Valid(q) : OlderSlot(q, s, t) <=> OlderSlot(r, s, t)
  BY SettleValid
<1>3. BusyMask(q) \subseteq Valid(q) /\ BusyMask(r) \subseteq Valid(r)
        /\ Valid(r) \subseteq Slots
  BY DEF BusyMask, Valid
<1>4. \A s \in Valid(q) : /\ q.entry[s].tag = r.entry[s].tag
                          /\ q.entry[s].brMask = r.entry[s].brMask \ g.resolved
  BY <1>2, <1>3, SettleEntry
<1>5. \A s \in done : s \notin BusyMask(r)
  BY <1>1 DEF BusyMask
<1> HIDE DEF q
<1>6. TagsDistinct(q, BusyMask(q))
  BY <1>1, <1>2, <1>3, <1>4 DEF TagsOK, TagsDistinct
<1>7. TagsReach(q, BusyMask(q))
  <2> SUFFICES ASSUME NEW s \in BusyMask(q), NEW t \in Valid(q),
                      q.entry[s].tag # 0, OlderSlot(q, s, t)
               PROVE  q.entry[s].tag \in q.entry[t].brMask
    BY DEF TagsReach
  <2>1. s \in open /\ s \in Valid(q) /\ t \in Valid(r)
    BY <1>2, <1>3
  <2>2. r.entry[s].tag \in r.entry[t].brMask
    BY <1>1, <1>2, <1>4, <2>1 DEF TagsOK, TagsReach
  <2>3. r.entry[s].tag \notin g.resolved
    <3> SUFFICES ASSUME NEW d \in done, r.entry[d].tag = r.entry[s].tag PROVE FALSE
      BY <1>1
    <3>1. d = s
      BY <1>1, <1>4, <2>1 DEF TagsOK, TagsDistinct
    <3> QED BY <1>2, <1>5, <3>1
  <2> QED BY <1>4, <2>1, <2>2, <2>3
<1>8. TagsHeld(q, BusyMask(q))
  <2> SUFFICES ASSUME NEW t \in Valid(q), NEW k \in q.entry[t].brMask
               PROVE  \E s \in BusyMask(q) : q.entry[s].tag = k /\ OlderSlot(q, s, t)
    BY DEF TagsHeld
  <2>1. t \in Valid(r) /\ t \notin Gone(r, g) /\ k \in r.entry[t].brMask /\ k \notin g.resolved
    BY <1>2, <1>4
  <2>2. PICK s \in open : r.entry[s].tag = k /\ OlderSlot(r, s, t)
    BY <1>1, <2>1 DEF TagsOK, TagsHeld
  <2>3. k # 0
    BY <1>3, <2>1, NoZeroTag
  <2>4. s \in BusyMask(r) /\ s \in Valid(r)
    BY <1>1, <1>3, <2>1, <2>2, <2>3
  <2>5. s \notin Committing(r, g)
    BY <2>4, CommittingIs DEF BusyMask
  <2>6. s \notin Squashed(r, g)
    <3>1. g.flush = "none"
      BY <2>1, FlushEmpties
    <3>2. /\ Squashed(r, g) = {u \in Valid(r) : r.entry[u].brMask \cap g.mask # {}}
          /\ t \notin Squashed(r, g)
      BY <2>1, <3>1 DEF Squashed, Mispredicted, Gone
    <3>3. open \subseteq Valid(r)
      BY <1>1, <1>3
    <3>4. r.entry[s].brMask \subseteq r.entry[t].brMask
      BY <1>1, <2>1, <2>2, <2>4, <3>3, YoungerDependMore
    <3> QED BY <2>1, <3>2, <3>4
  <2>7. s \in BusyMask(q)
    BY <1>2, <2>4, <2>5, <2>6 DEF Gone
  <2> QED BY <1>2, <1>3, <1>4, <2>2, <2>7
<1> QED BY <1>6, <1>7, <1>8 DEF TagsOK, q

(***************************************************************************)
(* The rows in use, from the distance of the last one and whether the head *)
(* row has been left.                                                      *)
(***************************************************************************)
LEMMA ContiguousIf ==
  ASSUME NEW q, NEW h \in Rows, NEW last \in 0 .. ROB_SIZE - 1, NEW moves \in BOOLEAN,
         q.head = IF moves THEN NextRow(h) ELSE h,
         q.tail \in Rows,
         Dist(h, q.tail) = IF last = ROB_SIZE - 1 THEN 0 ELSE last + 1,
         \A i \in Rows : Live(q, i) <=> Dist(h, i) <= last /\ ~ (moves /\ i = h),
         \A i \in Rows : Live(q, i) => Valid(q) # {},
         Valid(q) # {} => \E i \in Rows : Live(q, i)
  PROVE  Contiguous(q)
<1>0. ROB_SIZE \in Nat /\ ROB_SIZE >= 2
  BY RobAssumption DEF RobAssumption
<1>1. \A i \in Rows : Dist(h, i) \in 0 .. ROB_SIZE - 1 /\ (Dist(h, i) = 0 <=> i = h)
  BY DistType
<1>2. CASE ~moves
  <2>1. q.head = h
    BY <1>2
  <2>2. CASE last = ROB_SIZE - 1
    <3>1. q.tail = h
      BY <1>1, <2>2
    <3>2. \A i \in Rows : Live(q, i)
      BY <1>0, <1>1, <1>2, <2>2
    <3> QED BY <2>1, <3>1, <3>2 DEF Contiguous, InRange
  <2>3. CASE last # ROB_SIZE - 1
    <3>1. q.tail # h /\ Dist(h, q.tail) = last + 1
      BY <1>0, <1>1, <2>3
    <3>2. \A i \in Rows : Live(q, i) <=> Dist(h, i) < last + 1
      BY <1>0, <1>1, <1>2
    <3> QED BY <2>1, <3>1, <3>2 DEF Contiguous, InRange
  <2> QED BY <2>2, <2>3
<1>3. CASE moves
  <2>1. q.head = NextRow(h) /\ q.head \in Rows /\ q.head # h
    BY <1>0, <1>3, NextRowIs DEF Rows
  <2>2. \A i \in Rows :
          Dist(q.head, i) = IF i = h THEN ROB_SIZE - 1 ELSE Dist(h, i) - 1
    BY <2>1, DistMoved
  <2>3. Dist(h, q.head) = 1
    BY <1>0, <1>1, <2>1, DistNext
  <2>4. CASE last = 0
    <3>1. Dist(h, q.tail) = 1
      BY <1>0, <2>4
    <3>2. q.tail = q.head
      BY <2>1, <2>3, <3>1, DistType
    <3>3. \A i \in Rows : ~Live(q, i)
      BY <1>1, <1>3, <2>4
    <3> QED BY <3>2, <3>3 DEF Contiguous, InRange
  <2>5. CASE last # 0
    <3>1. Dist(h, q.tail) # 1
      BY <1>0, <2>5
    <3>2. q.tail # q.head
      BY <2>3, <3>1
    <3>3. Dist(q.head, q.tail) = last
      BY <1>0, <1>1, <2>2, <2>5
    <3>4. ASSUME NEW i \in Rows
          PROVE  Dist(q.head, i) < last <=> Live(q, i)
      BY <1>0, <1>1, <1>3, <2>2
    <3> QED BY <3>2, <3>3, <3>4 DEF Contiguous, InRange
  <2> QED BY <2>4, <2>5
<1> QED BY <1>2, <1>3

\* A row is live when a slot of it is valid.
LEMMA LiveIs ==
  ASSUME NEW r
  PROVE  /\ \A i \in Rows : Live(r, i) <=> \E s \in Valid(r) : s[1] = i
         /\ Valid(r) # {} => \E i \in Rows : Live(r, i)
<1>1. \A s \in Valid(r) : s[1] \in Rows /\ s[2] \in Banks /\ s = <<s[1], s[2]>> /\ r.entry[s].valid
  BY DEF Valid, Slots
<1>2. \A i \in Rows, b \in Banks : r.entry[<<i, b>>].valid => <<i, b>> \in Valid(r)
  BY DEF Valid, Slots
<1>3. \A i \in Rows : Live(r, i) <=> \E s \in Valid(r) : s[1] = i
  BY <1>1, <1>2 DEF Live
<1> QED BY <1>1, <1>3

\* An empty buffer has its head at its tail.
LEMMA EmptyMeets ==
  ASSUME NEW r, RobOK(r), Contiguous(r), Valid(r) = {}
  PROVE  r.head = r.tail
<1>1. r.head \in Rows /\ r.tail \in Rows
  BY EntryParts
<1>2. Dist(r.head, r.head) = 0 /\ Dist(r.head, r.tail) \in Nat
        /\ (Dist(r.head, r.tail) = 0 => r.tail = r.head)
  BY <1>1, DistType
<1>3. ~Live(r, r.head)
  BY <1>1, LiveIs
<1> QED BY <1>1, <1>2, <1>3 DEF Contiguous, InRange

\* The rows in use of a buffer that is not empty, by their distance.
LEMMA LastRow ==
  ASSUME NEW r, RobOK(r), Contiguous(r), Valid(r) # {}
  PROVE  \E last \in 0 .. ROB_SIZE - 1 :
           /\ Dist(r.head, r.tail) = IF last = ROB_SIZE - 1 THEN 0 ELSE last + 1
           /\ \A i \in Rows : Live(r, i) <=> Dist(r.head, i) <= last
<1>0. ROB_SIZE \in Nat /\ ROB_SIZE >= 2
  BY RobAssumption DEF RobAssumption
<1>1. r.head \in Rows /\ r.tail \in Rows
  BY EntryParts
<1>2. \A i \in Rows : Dist(r.head, i) \in 0 .. ROB_SIZE - 1
                        /\ (Dist(r.head, i) = 0 <=> i = r.head)
  BY <1>1, DistType
<1>3. CASE r.head = r.tail
  <2>1. \A i \in Rows : Live(r, i)
    BY <1>3 DEF Contiguous, InRange
  <2>2. /\ Dist(r.head, r.tail) = 0 /\ ROB_SIZE - 1 \in 0 .. ROB_SIZE - 1
        /\ \A i \in Rows : Live(r, i) <=> Dist(r.head, i) <= ROB_SIZE - 1
    BY <1>0, <1>1, <1>2, <1>3, <2>1
  <2> QED BY <2>2
<1>4. CASE r.head # r.tail
  <2> DEFINE last == Dist(r.head, r.tail) - 1
  <2>1. Dist(r.head, r.tail) \in 1 .. ROB_SIZE - 1
    BY <1>0, <1>1, <1>2, <1>4
  <2>2. /\ last \in 0 .. ROB_SIZE - 1 /\ last # ROB_SIZE - 1
        /\ Dist(r.head, r.tail) = last + 1
    BY <1>0, <2>1
  <2>3. \A i \in Rows : Live(r, i) <=> Dist(r.head, i) <= last
    BY <1>0, <1>2, <1>4, <2>1 DEF Contiguous, InRange
  <2> QED BY <2>2, <2>3
<1> QED BY <1>3, <1>4

\* As long as the head row is not left, something of it stays.
LEMMA HeadStays ==
  ASSUME NEW r, NEW g, NEW done, RobOK(r), Contiguous(r), Ordered(r),
         WiresOK(r, g, done), Valid(r) # {}, g.flush = "none", ~Moves(r, g)
  PROVE  \E s \in Valid(r) \ Gone(r, g) : s[1] = r.head
<1>1. CASE Committing(r, g) # {}
  BY <1>1 DEF Moves
<1>2. CASE Committing(r, g) = {}
  <2>1. HeadSlot(r) \in Valid(r) /\ HeadSlot(r)[1] = r.head
    BY HeadOldest DEF HeadSlot
  <2>2. r.entry[HeadSlot(r)].brMask = {}
    <3>1. BusyMask(r) \union done \subseteq Valid(r)
            /\ TagsHeld(r, BusyMask(r) \union done)
      BY DEF WiresOK, TagsOK, BusyMask, Valid
    <3> QED BY <3>1, HeadIndependent
  <2>3. HeadSlot(r) \notin Gone(r, g)
    BY <1>2, <2>2 DEF Gone, Squashed, Mispredicted
  <2> QED BY <2>1, <2>3
<1> QED BY <1>1, <1>2

\* Retiring and squashing leave the rows in use in one piece: what retires is
\* in front, what is squashed is behind.
LEMMA SettleContiguous ==
  ASSUME NEW r, NEW g, NEW done, RobOK(r), Contiguous(r), Ordered(r),
         WiresOK(r, g, done)
  PROVE  Contiguous(Settle(r, g))
<1> DEFINE q == Settle(r, g)
           h == r.head
           w == MispredSlot(g)
<1>0. ROB_SIZE \in Nat /\ ROB_SIZE >= 2
  BY RobAssumption DEF RobAssumption
<1>1. h \in Rows /\ r.tail \in Rows
  BY EntryParts
<1>2. Valid(q) = Valid(r) \ Gone(r, g)
  BY SettleValid
<1>3. /\ q.head = IF Moves(r, g) THEN NextRow(h) ELSE h
      /\ q.tail = IF g.flush # "none" THEN q.head
                  ELSE IF g.mask # {} THEN NextRow(w[1]) ELSE r.tail
  BY SettleEntry
<1>4. \A i \in Rows : Live(q, i) <=> \E s \in Valid(q) : s[1] = i
  BY LiveIs
<1>5. Valid(q) # {} => \E i \in Rows : Live(q, i)
  BY LiveIs
<1>6. \A s \in Valid(r) : s \in Slots /\ s[1] \in Rows
  BY DEF Valid, Slots
<1>7. \A i \in Rows : Dist(h, i) \in 0 .. ROB_SIZE - 1 /\ (Dist(h, i) = 0 <=> i = h)
                        /\ (\A j \in Rows : Dist(h, i) = Dist(h, j) => i = j)
  BY <1>1, DistType
<1> HIDE DEF q
<1>8. CASE g.flush # "none"
  <2>1. Valid(q) = {} /\ q.tail = q.head
    BY <1>2, <1>3, <1>8, FlushEmpties
  <2> QED BY <1>4, <2>1 DEF Contiguous, InRange, q
<1>9. CASE g.flush = "none" /\ Valid(r) = {}
  <2>1. Committing(r, g) = {}
    BY <1>9, CommittingIs
  <2>2. g.mask = {}
    BY <1>9, SquashedAreYounger
  <2>3. Valid(q) = {} /\ q.head = h /\ q.tail = r.tail /\ r.head = r.tail
    BY <1>2, <1>3, <1>9, <2>1, <2>2, EmptyMeets DEF Moves
  <2> QED BY <1>4, <2>3 DEF Contiguous, InRange, q
<1>10. CASE g.flush = "none" /\ Valid(r) # {}
  <2>1. PICK end \in 0 .. ROB_SIZE - 1 :
          /\ Dist(h, r.tail) = IF end = ROB_SIZE - 1 THEN 0 ELSE end + 1
          /\ \A i \in Rows : Live(r, i) <=> Dist(h, i) <= end
    BY <1>10, LastRow
  <2>2. \A i \in Rows : Live(r, i) <=> \E s \in Valid(r) : s[1] = i
    BY LiveIs
  <2>3. g.mask # {} => /\ w \in Valid(r) /\ CanCommit(r.entry[w])
                       /\ w \notin Squashed(r, g)
                       /\ \A s \in Valid(r) : s \in Squashed(r, g) <=> OlderSlot(r, w, s)
    BY <1>10, SquashedAreYounger
  <2>4. g.mask = {} => Squashed(r, g) = {}
    BY <1>10 DEF Squashed, Mispredicted
  <2>5. PICK last \in 0 .. ROB_SIZE - 1 :
          last = IF g.mask # {} THEN Dist(h, w[1]) ELSE end
    BY <1>6, <1>7, <2>3
  <2>6. q.tail \in Rows /\ Dist(h, q.tail) = IF last = ROB_SIZE - 1 THEN 0 ELSE last + 1
    <3>1. CASE g.mask = {}
      BY <1>1, <1>3, <1>10, <2>1, <2>5, <3>1
    <3>2. CASE g.mask # {}
      <4>1. q.tail = NextRow(w[1]) /\ w[1] \in Rows /\ last = Dist(h, w[1])
        BY <1>3, <1>6, <1>10, <2>3, <2>5, <3>2
      <4> QED BY <1>1, <4>1, DistNext, NextRowIs
    <3> QED BY <3>1, <3>2
  \* A row up to the last keeps something unless the head row is left.
  <2>7. ASSUME NEW i \in Rows, Dist(h, i) <= last, ~ (Moves(r, g) /\ i = h)
        PROVE  \E s \in Valid(q) : s[1] = i
    <3>1. CASE i = h
      BY <1>2, <1>10, <2>7, <3>1, HeadStays
    <3>2. CASE i # h
      <4>1. \A s \in Valid(r) : s[1] = i => s \notin Committing(r, g)
        BY <3>2, CommittingIs
      <4>2. CASE g.mask = {}
        BY <1>2, <2>1, <2>2, <2>4, <2>5, <2>7, <4>1, <4>2 DEF Gone
      <4>3. CASE g.mask # {} /\ i = w[1]
        BY <1>2, <2>3, <4>1, <4>3 DEF Gone
      <4>4. CASE g.mask # {} /\ i # w[1]
        <5>1. w \in Valid(r) /\ w[1] \in Rows /\ last = Dist(h, w[1])
          BY <1>6, <2>3, <2>5, <4>4
        <5>2. Dist(h, i) < Dist(h, w[1]) /\ Dist(h, w[1]) <= end
          <6>1. Dist(h, i) \in Int /\ Dist(h, w[1]) \in Int /\ Dist(h, i) # Dist(h, w[1])
            BY <1>7, <4>4, <5>1
          <6>2. Live(r, w[1])
            BY <2>2, <5>1
          <6> QED BY <2>1, <2>7, <5>1, <6>1, <6>2
        <5>3. Dist(h, i) <= end
          BY <1>7, <5>1, <5>2
        <5>4. PICK s \in Valid(r) : s[1] = i
          BY <2>1, <2>2, <5>3
        <5>5. s # w /\ Before(h, s, w)
          BY <4>4, <5>2, <5>4 DEF Before
        <5>6. ~OlderSlot(r, w, s)
          BY <5>1, <5>5, AgesFollow
        <5> QED BY <1>2, <2>3, <4>1, <4>4, <5>4, <5>6 DEF Gone
      <4> QED BY <4>2, <4>3, <4>4
    <3> QED BY <3>1, <3>2
  \* A row beyond the last, or the head row that is left, keeps nothing.
  <2>8. ASSUME NEW s \in Valid(q)
        PROVE  Dist(h, s[1]) <= last /\ ~ (Moves(r, g) /\ s[1] = h)
    <3>1. s \in Valid(r) /\ s \notin Gone(r, g) /\ s[1] \in Rows
      BY <1>2, <1>6
    <3>2. ~ (Moves(r, g) /\ s[1] = h)
      <4>1. s = <<s[1], s[2]>> /\ s[2] \in Banks
        BY <3>1 DEF Valid, Slots
      <4> QED BY <3>1, <4>1 DEF Moves
    <3>3. CASE g.mask = {}
      BY <2>1, <2>2, <2>5, <3>1, <3>2, <3>3
    <3>4. CASE g.mask # {}
      <4>1. w \in Valid(r) /\ w[1] \in Rows /\ last = Dist(h, w[1]) /\ ~OlderSlot(r, w, s)
        BY <1>6, <2>3, <2>5, <3>1, <3>4 DEF Gone
      <4>2. s # w => ~Before(h, w, s)
        BY <3>1, <4>1, AgesFollow
      <4>3. ~ (Dist(h, w[1]) < Dist(h, s[1]))
        <5>1. CASE s = w
          BY <1>7, <3>1, <5>1
        <5>2. CASE s # w
          BY <4>2, <5>2 DEF Before
        <5> QED BY <5>1, <5>2
      <4> QED BY <1>7, <3>1, <3>2, <4>1, <4>3
    <3> QED BY <3>3, <3>4
  <2>9. \A i \in Rows : Live(q, i) <=> Dist(h, i) <= last /\ ~ (Moves(r, g) /\ i = h)
    BY <1>4, <2>7, <2>8
  <2>10. Moves(r, g) \in BOOLEAN
    BY DEF Moves
  <2>11. \A i \in Rows : Live(q, i) => Valid(q) # {}
    BY <1>4
  <2>12. Contiguous(q)
    BY <1>1, <1>3, <1>5, <2>6, <2>9, <2>10, <2>11, ContiguousIf
  <2> QED BY <2>12 DEF q
<1> QED BY <1>8, <1>9, <1>10

\* Positions keep following ages: nothing is in the old head row any more when
\* the head has moved, and all other rows come nearer by the same.
LEMMA SettleOrdered ==
  ASSUME NEW r, NEW g, RobOK(r), Ordered(r)
  PROVE  Ordered(Settle(r, g))
<1> DEFINE q == Settle(r, g)
           h == r.head
<1>1. h \in Rows
  BY EntryParts
<1>2. /\ Valid(q) = Valid(r) \ Gone(r, g)
      /\ \A s, t \in Valid(q) : OlderSlot(q, s, t) <=> OlderSlot(r, s, t)
  BY SettleValid
<1>3. q.head = IF Moves(r, g) THEN NextRow(h) ELSE h
  BY SettleEntry
<1> HIDE DEF q
<1>4. SUFFICES ASSUME NEW s \in Valid(q), NEW t \in Valid(q), Before(q.head, s, t)
               PROVE  OlderSlot(r, s, t)
  BY <1>2 DEF Ordered, q
<1>5. Before(h, s, t)
  <2>1. CASE ~Moves(r, g)
    BY <1>3, <1>4, <2>1
  <2>2. CASE Moves(r, g)
    <3>1. ASSUME NEW u \in Valid(q) PROVE u[1] \in Rows /\ u[1] # h
      <4>1. u = <<u[1], u[2]>> /\ u[1] \in Rows /\ u[2] \in Banks
              /\ u \in Valid(r) /\ u \notin Gone(r, g)
        BY <1>2 DEF Valid, Slots
      <4> QED BY <2>2, <4>1 DEF Moves
    <3>2. /\ Dist(q.head, s[1]) = Dist(h, s[1]) - 1 /\ Dist(h, s[1]) \in Int
          /\ Dist(q.head, t[1]) = Dist(h, t[1]) - 1 /\ Dist(h, t[1]) \in Int
      BY <1>1, <1>3, <2>2, <3>1, DistMoved, DistType
    <3> QED BY <1>4, <3>2 DEF Before
  <2> QED BY <2>1, <2>2
<1> QED BY <1>2, <1>4, <1>5 DEF Ordered

\* After the wires and commits the buffer is in order, no branch is half
\* resolved, and the identities given out are still below n.
LEMMA SettleSettled ==
  ASSUME NEW r, NEW g, NEW done, NEW n, RobOK(r), SigOK(r, g), BufferInv(r, n),
         WiresOK(r, g, done)
  PROVE  Settled(Settle(r, g), n)
<1> DEFINE q == Settle(r, g)
<1>1. RobOK(q) /\ Ordered(q) /\ Contiguous(q) /\ TagsOK(q, BusyMask(q))
  BY SettleOK, SettleOrdered, SettleContiguous, SettleTags, RobAssumption, CoreAssumption
     DEF BufferInv, EntriesInv
<1>2. Valid(q) = Valid(r) \ Gone(r, g)
  BY SettleValid
<1>3. \A s \in Slots :
        /\ q.entry[s].valid <=> r.entry[s].valid /\ s \notin Gone(r, g)
        /\ q.entry[s].pc = r.entry[s].pc
        /\ q.entry[s].dst = r.entry[s].dst /\ q.entry[s].dst_type = r.entry[s].dst_type
        /\ q.entry[s].id = (IF s \in Gone(r, g) THEN 0 ELSE r.entry[s].id)
  BY SettleEntry
<1>4. Identified(r, n) /\ InBanks(r) /\ Registers(r) /\ Destinations(r) /\ FenceAlone(r)
  BY DEF BufferInv, EntriesInv
<1> HIDE DEF q
<1>5. Identified(q, n)
  BY <1>3, <1>4 DEF Identified
<1>6. InBanks(q) /\ Registers(q) /\ Destinations(q)
  BY <1>2, <1>3, <1>4 DEF InBanks, Registers, Destinations
<1>7. FenceAlone(q)
  BY <1>2, <1>3, <1>4 DEF FenceAlone, Valid
<1> QED BY <1>1, <1>5, <1>6, <1>7 DEF Settled, BufferInv, EntriesInv, q

(***************************************************************************)
(* Nothing more happens, or instructions complete.                         *)
(***************************************************************************)
\* A buffer that differs in what has completed is in the same order.
LEMMA SameShape ==
  ASSUME NEW r, NEW q, NEW n, BufferInv(r, n),
         q.head = r.head, q.tail = r.tail,
         \A s \in Slots :
           LET e == r.entry[s]
               f == q.entry[s]
           IN  /\ f.valid = e.valid /\ f.id = e.id /\ f.pc = e.pc
               /\ f.dst = e.dst /\ f.dst_type = e.dst_type
  PROVE  BufferInv(q, n) /\ Valid(q) = Valid(r)
<1>1. Valid(q) = Valid(r)
  BY DEF Valid
<1>2. \A i \in Rows : Live(q, i) <=> Live(r, i)
  BY DEF Live, Slots
<1>3. Contiguous(q)
  BY <1>1, <1>2 DEF BufferInv, Contiguous, InRange
<1>4. Ordered(q)
  BY <1>1 DEF BufferInv, EntriesInv, Ordered, OlderSlot, Valid
<1>5. Identified(q, n) /\ InBanks(q) /\ Registers(q) /\ Destinations(q)
  BY <1>1 DEF BufferInv, EntriesInv, Identified, InBanks, Registers, Destinations
<1>6. FenceAlone(q)
  BY <1>1 DEF BufferInv, FenceAlone, Valid
<1> QED BY <1>1, <1>3, <1>4, <1>5, <1>6 DEF BufferInv, EntriesInv

\* Wires with nothing resolved and nothing mispredicted.
LEMMA QuietWires ==
  ASSUME NEW r, TagsOK(r, BusyMask(r))
  PROVE  WiresOK(r, [QuietSig EXCEPT !.flush = FlushWire(r)], {})
<1> DEFINE g == [QuietSig EXCEPT !.flush = FlushWire(r)]
<1>1. g.flush = FlushWire(r) /\ g.mask = {} /\ g.resolved = {} /\ Wrong(g) = {}
  BY DEF QuietSig, Wrong
<1>2. BusyMask(r) \union {} = BusyMask(r)
  OBVIOUS
<1> HIDE DEF g
<1> QED BY <1>1, <1>2 DEF WiresOK, g

\* Buffer q is r with the instructions in done completed.
OnlyCompletes(r, q, done) ==
  \A s \in Slots :
    /\ q.entry[s].valid = r.entry[s].valid
    /\ q.entry[s].id = r.entry[s].id
    /\ q.entry[s].dst = r.entry[s].dst
    /\ q.entry[s].dst_type = r.entry[s].dst_type
    /\ s \in done => ~q.entry[s].busy
    /\ s \notin done => q.entry[s].busy = r.entry[s].busy

\* The instructions that complete stay accountable for one cycle: their tags
\* are resolved, and the mispredicted ones among them are named by the wires,
\* the oldest as the one that the core obeys.
LEMMA CompleteWires ==
  ASSUME NEW r, NEW n, Settled(r, n), NEW done, done \subseteq BusyMask(r), NEW out,
         NEW watched \in BOOLEAN,
         \A s \in done : out[s] \in Outcomes(r.entry[s].pc, watched),
         CompleteWith(r, done, out)
  PROVE  /\ WiresOK(rob', sig', done)
         /\ BufferInv(rob', n)
         /\ OnlyCompletes(r, rob', done)
<1> DEFINE wrong == {s \in done : out[s].mispred}
           after(s) == IF s \in done
                       THEN [r.entry[s] EXCEPT !.busy = FALSE,
                                               !.exception = out[s].exception]
                       ELSE r.entry[s]
           q == [r EXCEPT !.entry = [s \in Slots |-> after(s)]]
<1>1. PICK order \in [1 .. 2 -> wrong \union {NoSlot}],
           taken \in IF wrong = {} THEN {FALSE} ELSE BOOLEAN :
            /\ wrong \subseteq {order[1], order[2]}
            /\ wrong # {} => order[1] # order[2]
            /\ sig' = [flush |-> FlushWire(q),
                       mask |-> {r.entry[s].tag : s \in wrong},
                       br0 |-> order[1], br1 |-> order[2],
                       useSecond |-> /\ order[2] # NoSlot
                                     /\ order[1] = NoSlot \/ OlderSlot(r, order[2], order[1]),
                       taken |-> taken,
                       resolved |-> {r.entry[s].tag : s \in done} \ {0}]
  BY DEF CompleteWith
<1>2. rob' = q
  BY DEF CompleteWith
<1>3. RobOK(r) /\ BufferInv(r, n) /\ Ordered(r) /\ TagsOK(r, BusyMask(r))
  BY DEF Settled, BufferInv, EntriesInv
<1>4. r \in Robs /\ \A s \in Slots : r.entry[s] \in Entries /\ EntryOK(r.entry[s])
  BY <1>3 DEF RobOK, Robs
<1>5. /\ done \subseteq Valid(r) /\ Valid(r) \subseteq Slots
      /\ \A s \in done : r.entry[s].busy
  BY DEF BusyMask, Valid
<1>6. /\ q.head = r.head /\ q.tail = r.tail
      /\ \A s \in Slots : q.entry[s] = after(s)
  BY <1>4 DEF Robs
<1>7. ASSUME NEW s \in Slots
      PROVE  /\ after(s).valid = r.entry[s].valid /\ after(s).id = r.entry[s].id
             /\ after(s).pc = r.entry[s].pc /\ after(s).tag = r.entry[s].tag
             /\ after(s).dst = r.entry[s].dst /\ after(s).dst_type = r.entry[s].dst_type
             /\ after(s).brMask = r.entry[s].brMask
             /\ s \in done => ~after(s).busy /\ after(s).exception = out[s].exception
             /\ s \notin done => after(s).busy = r.entry[s].busy
  BY <1>4 DEF Entries
<1> HIDE DEF after, q, wrong
<1>8. BufferInv(q, n) /\ Valid(q) = Valid(r)
  BY <1>3, <1>6, <1>7, SameShape
<1>9. BusyMask(q) \union done = BusyMask(r)
  BY <1>5, <1>6, <1>7 DEF BusyMask, Valid
<1>10. \A s, t \in Slots : OlderSlot(q, s, t) <=> OlderSlot(r, s, t)
  BY <1>6, <1>7 DEF OlderSlot
<1>11. TagsOK(q, BusyMask(q) \union done)
  <2>1. \A s \in Slots : q.entry[s].tag = r.entry[s].tag
                           /\ q.entry[s].brMask = r.entry[s].brMask
    BY <1>6, <1>7
  <2>2. BusyMask(r) \subseteq Slots
    BY DEF BusyMask
  <2>3. TagsDistinct(q, BusyMask(r)) /\ TagsReach(q, BusyMask(r))
    BY <1>3, <1>5, <1>8, <1>10, <2>1, <2>2 DEF TagsOK, TagsDistinct, TagsReach
  <2>4. TagsHeld(q, BusyMask(r))
    BY <1>3, <1>5, <1>8, <1>10, <2>1, <2>2 DEF TagsOK, TagsHeld
  <2> QED BY <1>9, <2>3, <2>4 DEF TagsOK
<1>12. NoSlot \notin Slots
  <2>1. \A s \in Slots : s = <<s[1], s[2]>>
    BY DEF Slots
  <2> QED BY <2>1 DEF NoSlot
<1>13. wrong \subseteq done
  BY DEF wrong
<1>14. Wrong(sig') = wrong
  <2>1. sig'.br0 = order[1] /\ sig'.br1 = order[2]
    BY <1>1
  <2>2. order[1] \in wrong \union {NoSlot} /\ order[2] \in wrong \union {NoSlot}
    BY <1>1
  <2>3. NoSlot \notin wrong
    BY <1>5, <1>12, <1>13
  <2>4. wrong \subseteq {order[1], order[2]}
    BY <1>1
  <2> QED BY <2>1, <2>2, <2>3, <2>4 DEF Wrong
<1>15. ASSUME NEW w \in wrong
       PROVE  q.entry[w].exception = "none" /\ q.entry[w].tag # 0
  <2>1. w \in Slots /\ w \in done /\ out[w].mispred /\ r.entry[w].valid
    BY <1>5, <1>13 DEF wrong, Valid
  <2>2. Uop[r.entry[w].pc] \in Branches /\ out[w].exception = "none"
    BY <2>1 DEF Outcomes, Branches
  <2>3. r.entry[w].tag # 0
    BY <1>4, <2>1, <2>2 DEF EntryOK
  <2> QED BY <1>6, <1>7, <2>1, <2>2, <2>3
<1>16. ASSUME wrong # {}
       PROVE  /\ MispredSlot(sig') \in wrong
              /\ \A w \in wrong : w # MispredSlot(sig') => OlderSlot(r, MispredSlot(sig'), w)
  <2>1. /\ sig'.br0 = order[1] /\ sig'.br1 = order[2]
        /\ sig'.useSecond = (/\ order[2] # NoSlot
                             /\ order[1] = NoSlot \/ OlderSlot(r, order[2], order[1]))
    BY <1>1
  <2>2. order[1] \in wrong \union {NoSlot} /\ order[2] \in wrong \union {NoSlot}
          /\ order[1] # order[2]
          /\ wrong \subseteq {order[1], order[2]}
    BY <1>1, <1>16
  <2>3. \A s, t \in wrong : s # t => OlderSlot(r, s, t) \/ OlderSlot(r, t, s)
    BY <1>3, <1>5, <1>13, AgesFollow
  <2>4. NoSlot \notin wrong
    BY <1>5, <1>12, <1>13
  <2>5. CASE sig'.useSecond
    <3>1. MispredSlot(sig') = order[2]
      BY <2>1, <2>5 DEF MispredSlot
    <3> QED BY <2>1, <2>2, <2>4, <2>5, <3>1
  <2>6. CASE ~sig'.useSecond
    <3>1. MispredSlot(sig') = order[1]
      BY <2>1, <2>6 DEF MispredSlot
    <3> QED BY <2>1, <2>2, <2>3, <2>4, <2>6, <3>1
  <2> QED BY <2>5, <2>6
<1>17. /\ sig'.flush = FlushWire(q)
       /\ sig'.mask = {q.entry[s].tag : s \in wrong}
       /\ sig'.resolved = {q.entry[s].tag : s \in done} \ {0}
  <2>1. \A s \in done : s \in Slots /\ q.entry[s].tag = r.entry[s].tag
    BY <1>5, <1>6, <1>7
  <2>2. /\ {q.entry[s].tag : s \in wrong} = {r.entry[s].tag : s \in wrong}
        /\ {q.entry[s].tag : s \in done} = {r.entry[s].tag : s \in done}
    BY <1>13, <2>1
  <2> QED BY <1>1, <2>2
<1>18. WiresOK(q, sig', done)
  <2>1. \A s \in done : ~q.entry[s].busy
    BY <1>5, <1>6, <1>7
  <2>2. Wrong(sig') # {} =>
          /\ MispredSlot(sig') \in Wrong(sig')
          /\ \A w \in Wrong(sig') : w # MispredSlot(sig') => OlderSlot(q, MispredSlot(sig'), w)
    BY <1>5, <1>10, <1>13, <1>14, <1>16
  <2> QED BY <1>5, <1>8, <1>11, <1>13, <1>14, <1>15, <1>17, <2>1, <2>2 DEF WiresOK
<1> QED BY <1>2, <1>5, <1>6, <1>7, <1>8, <1>18 DEF OnlyCompletes

(***************************************************************************)
(* A row is dispatched.                                                    *)
(***************************************************************************)
\* Below, in a buffer r, the slot at is free and behind everything valid.
LastFree(r, at) ==
  at \in Slots /\ ~r.entry[at].valid /\ \A t \in Valid(r) : Before(r.head, t, at)

\* A new entry takes a register that no entry names and a tag that no open
\* branch has, depends on all open branches, and is the youngest.
LEMMA InsertKeeps ==
  ASSUME NEW r, NEW n \in 1 .. MaxInsts, NEW bank \in 0 .. N_ROBS - 1, NEW p \in PCs,
         RobOK(r), EntriesInv(r, n), TagsOK(r, BusyMask(r)),
         LastFree(r, <<r.tail, bank>>),
         DestOf(p) # "unused" => (1 .. MaxRegs) \ UsedRegs(r, DestOf(p)) # {},
         Uop[p] \in Branches => BrTags \ OpenTags(r) # {}
  PROVE  LET at == <<r.tail, bank>>
             q  == Insert(r, bank, p, n)
         IN  /\ EntriesInv(q, n + 1) /\ TagsOK(q, BusyMask(q))
             /\ Valid(q) = Valid(r) \union {at}
             /\ q.head = r.head /\ q.tail = r.tail
             /\ q.entry[at].pc = p
             /\ \A s \in Slots : s # at => q.entry[s] = r.entry[s]
<1> DEFINE at  == <<r.tail, bank>>
           q   == Insert(r, bank, p, n)
           reg == FreshReg(UsedRegs(r, DestOf(p)))
           tag == FreshTag(OpenTags(r))
           e   == q.entry[at]
<1>1. r \in Robs /\ at \in Slots /\ n \in Nat /\ ~r.entry[at].valid
  BY CoreAssumption DEF RobOK, LastFree, CoreAssumption
<1>2. DestOf(p) # "unused" => reg \notin UsedRegs(r, DestOf(p))
  BY MinNat, CoreAssumption DEF FreshReg, CoreAssumption
<1>3. Uop[p] \in Branches => tag \in BrTags \ OpenTags(r)
  BY MinNat, CoreAssumption DEF FreshTag, CoreAssumption
<1> HIDE DEF reg, tag
<1>4. e = [valid |-> TRUE, busy |-> TRUE, exception |-> "none", pc |-> p,
           brMask |-> OpenTags(r), dst |-> IF DestOf(p) = "unused" THEN 0 ELSE reg,
           dst_type |-> DestOf(p), tag |-> IF Uop[p] \in Branches THEN tag ELSE 0,
           id |-> n]
  BY <1>1 DEF Insert, Robs, reg, tag
<1>5. /\ q.head = r.head /\ q.tail = r.tail
      /\ \A s \in Slots : s # at => q.entry[s] = r.entry[s]
  BY <1>1 DEF Insert, Robs
<1>6. /\ e.valid /\ e.busy /\ e.pc = p /\ e.brMask = OpenTags(r) /\ e.id = n
      /\ e.dst_type = DestOf(p)
      /\ DestOf(p) # "unused" => e.dst = reg
      /\ e.tag # 0 => e.tag = tag /\ Uop[p] \in Branches
  BY <1>4
<1> HIDE DEF q, e, at
<1>7. e = q.entry[at]
  BY DEF e
<1>8. Valid(q) = Valid(r) \union {at} /\ at \notin Valid(r)
  BY <1>1, <1>5, <1>6, <1>7 DEF Valid
<1>9. BusyMask(q) = BusyMask(r) \union {at} /\ at \notin BusyMask(r)
  BY <1>1, <1>5, <1>6, <1>7 DEF BusyMask
<1>10. BusyMask(r) \subseteq Valid(r) /\ Valid(r) \subseteq Slots
  BY DEF BusyMask, Valid
<1>11. \A s \in Valid(r) : /\ q.entry[s] = r.entry[s] /\ s # at
                           /\ r.entry[s].id \in 1 .. n - 1
  <2>1. Identified(r, n)
    BY DEF EntriesInv
  <2> QED BY <1>5, <1>8, <1>10, <2>1 DEF Identified, Valid
<1>12. /\ \A s, t \in Valid(r) : OlderSlot(q, s, t) <=> OlderSlot(r, s, t)
       /\ \A s \in Valid(r) : OlderSlot(q, s, at) /\ ~OlderSlot(q, at, s)
       /\ ~OlderSlot(q, at, at)
  BY <1>1, <1>6, <1>7, <1>11 DEF OlderSlot
<1>13. OpenTags(r) = {r.entry[s].tag : s \in BusyMask(r)} \ {0}
  BY DEF OpenTags, BusyMask, Valid
<1>14. Ordered(q)
  <2>1. ASSUME NEW t \in Valid(r) PROVE ~Before(r.head, at, t)
    <3>1. Before(r.head, t, at) /\ r.head \in Rows /\ t \in Slots /\ t # at
      BY <1>8, <1>10, EntryParts DEF LastFree, at
    <3> QED BY <1>1, <3>1, BeforeTotal
  <2>2. ~Before(r.head, at, at)
    <3>1. at[2] \in Int /\ Dist(r.head, at[1]) \in Int
      <4>1. at[1] \in Rows /\ at[2] \in {0, 1} /\ r.head \in Rows
        BY <1>1, EntryParts DEF Slots, Banks
      <4> QED BY <4>1, DistType
    <3> QED BY <3>1 DEF Before
  <2>3. Ordered(r)
    BY DEF EntriesInv
  <2> QED BY <1>5, <1>8, <1>12, <2>1, <2>2, <2>3 DEF Ordered
<1>15. Identified(q, n + 1)
  <2>1. Identified(r, n)
    BY DEF EntriesInv
  <2>2. ASSUME NEW s \in Slots
        PROVE  IF q.entry[s].valid THEN q.entry[s].id \in 1 .. (n + 1) - 1
                                   ELSE q.entry[s].id = 0
    <3>1. CASE s = at
      BY <1>1, <1>6, <1>7, <3>1
    <3>2. CASE s # at
      BY <1>1, <1>5, <2>1, <3>2 DEF Identified
    <3> QED BY <3>1, <3>2
  <2> QED BY <2>2 DEF Identified
<1>16. InBanks(q)
  <2>1. at[2] < N_ROBS
    BY RobAssumption DEF at, RobAssumption
  <2> QED BY <1>8, <2>1 DEF InBanks, EntriesInv
<1>17. Registers(q)
  <2>1. ASSUME NEW s \in Slots, s # at, e.dst_type # "unused",
               r.entry[s].dst_type = e.dst_type
        PROVE  r.entry[s].dst # e.dst
    <3>1. r.entry[s].dst \in UsedRegs(r, DestOf(p))
      BY <1>6, <2>1 DEF UsedRegs
    <3> QED BY <1>2, <1>6, <2>1, <3>1
  <2>2. Registers(r)
    BY DEF EntriesInv
  <2> QED BY <1>5, <1>7, <2>1, <2>2 DEF Registers
<1>18. TagsDistinct(q, BusyMask(q))
  <2>1. ASSUME NEW s \in BusyMask(r), e.tag # 0 PROVE r.entry[s].tag # e.tag
    BY <1>3, <1>6, <1>13, <2>1
  <2> QED BY <1>7, <1>9, <1>10, <1>11, <2>1 DEF TagsOK, TagsDistinct
<1>19. TagsReach(q, BusyMask(q))
  <2>1. ASSUME NEW s \in BusyMask(r), r.entry[s].tag # 0 PROVE r.entry[s].tag \in e.brMask
    BY <1>6, <1>13, <2>1
  <2> QED BY <1>7, <1>8, <1>9, <1>10, <1>11, <1>12, <2>1 DEF TagsOK, TagsReach
<1>20. TagsHeld(q, BusyMask(q))
  <2>1. ASSUME NEW k \in e.brMask
        PROVE  \E s \in BusyMask(q) : q.entry[s].tag = k /\ OlderSlot(q, s, at)
    BY <1>6, <1>9, <1>10, <1>11, <1>12, <1>13
  <2>2. ASSUME NEW t \in Valid(r), NEW k \in r.entry[t].brMask
        PROVE  \E s \in BusyMask(q) : q.entry[s].tag = k /\ OlderSlot(q, s, t)
    <3>1. PICK s \in BusyMask(r) : r.entry[s].tag = k /\ OlderSlot(r, s, t)
      BY DEF TagsOK, TagsHeld
    <3> QED BY <1>9, <1>10, <1>11, <1>12, <3>1
  <2> QED BY <1>7, <1>8, <1>11, <2>1, <2>2 DEF TagsHeld
<1>21. Destinations(q)
  BY <1>5, <1>6, <1>7 DEF EntriesInv, Destinations
<1>22. EntriesInv(q, n + 1) /\ TagsOK(q, BusyMask(q))
  BY <1>14, <1>15, <1>16, <1>17, <1>18, <1>19, <1>20, <1>21 DEF EntriesInv, TagsOK
<1> QED BY <1>5, <1>6, <1>7, <1>8, <1>22 DEF q, at

\* The first and the last bank of a row, and how many it has.
LEMMA RowBanks ==
  ASSUME NEW banks \in (SUBSET (0 .. N_ROBS - 1)) \ {{}}
  PROVE  /\ Min(banks) \in banks /\ Max(banks) \in banks
         /\ banks = {Min(banks), Max(banks)}
         /\ Min(banks) # Max(banks) => Min(banks) = 0 /\ Max(banks) = 1
         /\ Cardinality(banks) = IF Min(banks) = Max(banks) THEN 1 ELSE 2
<1>1. banks \subseteq {0, 1} /\ banks # {} /\ 0 \in Nat /\ 1 \in Nat
  BY RobAssumption DEF RobAssumption
<1>2. Min(banks) \in banks /\ \A y \in banks : Min(banks) <= y
  BY <1>1, MinNat
<1>3. Max(banks) \in banks /\ \A y \in banks : Max(banks) >= y
  <2>1. \E x \in banks : \A y \in banks : x >= y
    <3>1. CASE 1 \in banks
      BY <1>1, <3>1
    <3>2. CASE 1 \notin banks
      BY <1>1, <3>2
    <3> QED BY <3>1, <3>2
  <2> QED BY <2>1 DEF Max
<1>4. /\ banks = {Min(banks), Max(banks)}
      /\ Min(banks) # Max(banks) => Min(banks) = 0 /\ Max(banks) = 1
  <2>1. PICK a \in {0, 1} : a = Min(banks)
    BY <1>1, <1>2
  <2>2. PICK z \in {0, 1} : z = Max(banks)
    BY <1>1, <1>3
  <2>3. a \in banks /\ z \in banks /\ \A y \in banks : a <= y /\ z >= y
    BY <1>2, <1>3, <2>1, <2>2
  <2>4. a # z => a = 0 /\ z = 1
    BY <2>3
  <2>5. ASSUME NEW y \in banks PROVE y = a \/ y = z
    <3>1. y \in {0, 1} /\ a <= y /\ z >= y
      BY <1>1, <2>3
    <3> QED BY <3>1
  <2>6. banks = {a, z}
    BY <2>3, <2>5
  <2> QED BY <2>1, <2>2, <2>4, <2>6
<1>5. CASE Min(banks) = Max(banks)
  <2>1. banks = {Min(banks)}
    BY <1>4, <1>5
  <2> QED BY <1>2, <1>3, <1>4, <1>5, <2>1, FS_Singleton
<1>6. CASE Min(banks) # Max(banks)
  <2>1. banks = {0} \union {1}
    BY <1>4, <1>6
  <2>2. IsFiniteSet({0}) /\ Cardinality({0}) = 1
    BY FS_Singleton
  <2>3. 1 \notin {0}
    OBVIOUS
  <2>4. Cardinality(banks) = Cardinality({0}) + 1
    BY <2>1, <2>2, <2>3, FS_AddElement
  <2>5. Cardinality(banks) = 2
    BY <2>2, <2>4
  <2> QED BY <1>2, <1>3, <1>4, <1>6, <2>5
<1> QED BY <1>5, <1>6

\* The tail row is behind all others.
LEMMA TailRowFree ==
  ASSUME NEW r, RobOK(r), Contiguous(r), \A b \in Banks : ~r.entry[<<r.tail, b>>].valid
  PROVE  /\ \A i \in Rows : Live(r, i) <=> Dist(r.head, i) < Dist(r.head, r.tail)
         /\ \A b \in Banks : LastFree(r, <<r.tail, b>>)
<1>1. r.head \in Rows /\ r.tail \in Rows
  BY EntryParts
<1>2. ~Live(r, r.tail)
  BY DEF Live
<1>3. \A i \in Rows : Live(r, i) <=> Dist(r.head, i) < Dist(r.head, r.tail)
  <2>1. CASE r.head = r.tail
    <3>1. \A i \in Rows : ~Live(r, i)
      BY <1>1, <1>2, <2>1 DEF Contiguous, InRange
    <3>2. \A i \in Rows : Dist(r.head, i) \in Nat /\ Dist(r.head, r.tail) = 0
      BY <1>1, <2>1, DistType
    <3> QED BY <3>1, <3>2
  <2>2. CASE r.head # r.tail
    BY <2>2 DEF Contiguous, InRange
  <2> QED BY <2>1, <2>2
<1>4. \A t \in Valid(r) : t[1] \in Rows /\ Live(r, t[1])
  BY LiveIs DEF Valid, Slots
<1>5. \A b \in Banks : <<r.tail, b>> \in Slots
  BY <1>1 DEF Slots
<1> QED BY <1>3, <1>4, <1>5 DEF LastFree, Before

\* Dispatch adds a row at the tail.
LEMMA DispatchSettled ==
  ASSUME NEW r, Settled(r, nextId), nextId \in 1 .. MaxInsts + 1, Dispatch(r), RobOK(rob')
  PROVE  /\ Settled(rob', nextId') /\ nextId' >= nextId
         /\ \A s \in Valid(r) : rob'.entry[s] = r.entry[s]
<1>1. PICK banks \in (SUBSET (0 .. N_ROBS - 1)) \ {{}} :
        \E row \in [banks -> PCs] : DispatchRow(r, row)
  BY DEF Dispatch
<1>2. PICK row \in [banks -> PCs] : DispatchRow(r, row)
  BY <1>1
<1> DEFINE first == Min(banks)
           last  == Max(banks)
           r1    == Insert(r, first, row[first], nextId)
           r2    == IF first = last THEN r1 ELSE Insert(r1, last, row[last], nextId + 1)
           m     == IF first = last THEN 1 ELSE 2
           new   == {<<r.tail, b>> : b \in banks}
<1>3. /\ first \in banks /\ last \in banks /\ banks = {first, last}
      /\ first # last => first = 0 /\ last = 1
      /\ Cardinality(banks) = m
  BY RowBanks
<1>4. banks \subseteq 0 .. N_ROBS - 1 /\ banks \subseteq Banks
  BY RobAssumption DEF RobAssumption, Banks
<1>5. DOMAIN row = banks /\ row[first] \in PCs /\ row[last] \in PCs
  BY <1>3
<1> HIDE DEF first, last
<1>6. /\ Serialises(r, row)
      /\ nextId + m - 1 <= MaxInsts
      /\ Fits(r, row, first)
      /\ first # last => Fits(r1, row, last)
      /\ rob' = [r2 EXCEPT !.tail = (@ + 1) % ROB_SIZE]
      /\ nextId' = nextId + m
  BY <1>2, <1>3, <1>5 DEF DispatchRow, first, last
<1>7. /\ nextId \in 1 .. MaxInsts /\ nextId + m \in Nat
      /\ first # last => nextId + 1 \in 1 .. MaxInsts
  BY <1>6, CoreAssumption DEF CoreAssumption
<1>8. /\ RobOK(r) /\ EntriesInv(r, nextId) /\ Contiguous(r) /\ FenceAlone(r)
      /\ TagsOK(r, BusyMask(r))
  BY DEF Settled, BufferInv
<1>9. /\ \A i \in Rows : Live(r, i) <=> Dist(r.head, i) < Dist(r.head, r.tail)
      /\ \A b \in Banks : LastFree(r, <<r.tail, b>>)
  BY <1>8, TailRowFree DEF Dispatch
<1>10. /\ EntriesInv(r1, nextId + 1) /\ TagsOK(r1, BusyMask(r1))
       /\ Valid(r1) = Valid(r) \union {<<r.tail, first>>}
       /\ r1.head = r.head /\ r1.tail = r.tail
       /\ r1.entry[<<r.tail, first>>].pc = row[first]
       /\ \A s \in Slots : s # <<r.tail, first>> => r1.entry[s] = r.entry[s]
  BY <1>3, <1>4, <1>5, <1>6, <1>7, <1>8, <1>9, InsertKeeps DEF Fits
<1>11. RobOK(r1)
  BY <1>3, <1>4, <1>5, <1>6, <1>7, <1>8, InsertOK, CoreAssumption DEF Fits
<1> HIDE DEF r1
<1>12. /\ EntriesInv(r2, nextId + m) /\ TagsOK(r2, BusyMask(r2))
       /\ Valid(r2) = Valid(r) \union new
       /\ r2.head = r.head /\ r2.tail = r.tail
       /\ \A b \in banks : r2.entry[<<r.tail, b>>].pc = row[b]
       /\ \A s \in Slots \ new : r2.entry[s] = r.entry[s]
  <2>0. new = {<<r.tail, first>>, <<r.tail, last>>}
    BY <1>3
  <2> HIDE DEF new
  <2>1. CASE first = last
    BY <1>3, <1>10, <2>0, <2>1
  <2>2. CASE first # last
    <3>1. LastFree(r1, <<r1.tail, last>>)
      <4>1. /\ LastFree(r, <<r.tail, last>>) /\ <<r.tail, last>> \in Slots
            /\ ~r.entry[<<r.tail, last>>].valid
        BY <1>3, <1>4, <1>9 DEF LastFree
      <4>2. <<r.tail, last>> # <<r.tail, first>>
        BY <2>2
      <4>3. Before(r1.head, <<r.tail, first>>, <<r.tail, last>>)
        BY <1>3, <2>2 DEF Before
      <4>4. \A t \in Valid(r) : Before(r.head, t, <<r.tail, last>>)
        BY <4>1 DEF LastFree
      <4>5. ~r1.entry[<<r.tail, last>>].valid
        BY <1>10, <4>1, <4>2
      <4> QED BY <1>10, <4>1, <4>3, <4>4, <4>5 DEF LastFree
    <3> DEFINE q == Insert(r1, last, row[last], nextId + 1)
    <3>2. /\ EntriesInv(q, (nextId + 1) + 1) /\ TagsOK(q, BusyMask(q))
          /\ Valid(q) = Valid(r1) \union {<<r1.tail, last>>}
          /\ q.head = r1.head /\ q.tail = r1.tail
          /\ q.entry[<<r1.tail, last>>].pc = row[last]
          /\ \A s \in Slots : s # <<r1.tail, last>> => q.entry[s] = r1.entry[s]
      BY <1>3, <1>4, <1>5, <1>6, <1>7, <1>10, <1>11, <2>2, <3>1, InsertKeeps DEF Fits
    <3> HIDE DEF q
    <3>3. r2 = q /\ (nextId + 1) + 1 = nextId + m
      BY <1>7, <2>2 DEF q
    <3>4. Valid(q) = Valid(r) \union new
      BY <1>10, <2>0, <2>2, <3>2
    <3>5. q.entry[<<r.tail, first>>] = r1.entry[<<r.tail, first>>]
      <4>1. <<r.tail, first>> \in Slots /\ <<r.tail, first>> # <<r.tail, last>>
        BY <1>3, <1>4, <1>9, <2>2 DEF LastFree
      <4> QED BY <1>10, <3>2, <4>1
    <3>6. \A b \in banks : q.entry[<<r.tail, b>>].pc = row[b]
      BY <1>3, <1>10, <3>2, <3>5
    <3>7. \A s \in Slots \ new : q.entry[s] = r.entry[s]
      BY <1>10, <2>0, <2>2, <3>2
    <3> QED BY <1>10, <3>2, <3>3, <3>4, <3>6, <3>7
  <2> QED BY <2>1, <2>2
<1>13. new \subseteq Slots /\ new # {} /\ (\A s \in new : s[1] = r.tail)
         /\ (\A s \in new : s \notin Valid(r))
         /\ (\A s \in new : \E b \in banks : s = <<r.tail, b>>)
  <2>1. \A s \in new : \E b \in banks : s = <<r.tail, b>>
    OBVIOUS
  <2>4. <<r.tail, first>> \in new
    BY <1>3
  <2>5. \A s \in new : s[1] = r.tail
    <3> HIDE DEF new
    <3> QED BY <2>1
  <2>2. ASSUME NEW b \in banks
        PROVE  <<r.tail, b>> \in Slots /\ <<r.tail, b>> \notin Valid(r)
    <3>1. LastFree(r, <<r.tail, b>>)
      BY <1>4, <1>9
    <3> QED BY <3>1 DEF LastFree, Valid
  <2>3. ASSUME NEW s \in new PROVE s \in Slots /\ s \notin Valid(r)
    <3> HIDE DEF new
    <3>1. PICK b \in banks : s = <<r.tail, b>>
      BY <2>1
    <3> QED BY <2>2, <3>1
  <2> HIDE DEF new
  <2> QED BY <2>1, <2>3, <2>4, <2>5
<1>14. first = last => \A b \in banks : b = first
  BY <1>3
<1>15. first # last => Cardinality(banks) # 1
  BY <1>3
<1> HIDE DEF r2, m, new
<1>16. /\ rob'.entry = r2.entry /\ rob'.head = r.head
       /\ rob'.tail = NextRow(r.tail)
  <2>1. RobOK(r2)
    <3>1. CASE first = last
      BY <1>11, <3>1 DEF r2
    <3>2. CASE first # last
      BY <1>3, <1>4, <1>5, <1>6, <1>7, <1>11, <3>2, InsertOK, CoreAssumption DEF Fits, r2
    <3> QED BY <3>1, <3>2
  <2> QED BY <1>6, <1>12, <2>1 DEF RobOK, Robs, NextRow
<1>17. Valid(rob') = Valid(r2) /\ BusyMask(rob') = BusyMask(r2)
  BY <1>16 DEF Valid, BusyMask
<1>18. EntriesInv(rob', nextId + m) /\ TagsOK(rob', BusyMask(rob'))
  <2>1. \A s, t \in Slots : OlderSlot(rob', s, t) <=> OlderSlot(r2, s, t)
    BY <1>16 DEF OlderSlot
  <2>2. /\ Ordered(rob') /\ Identified(rob', nextId + m) /\ InBanks(rob')
        /\ Registers(rob') /\ Destinations(rob')
    BY <1>12, <1>16, <1>17, <2>1
       DEF EntriesInv, Ordered, Identified, InBanks, Registers, Destinations, Valid
  <2>3. TagsDistinct(rob', BusyMask(rob')) /\ TagsReach(rob', BusyMask(rob'))
    BY <1>12, <1>16, <1>17, <2>1 DEF TagsOK, TagsDistinct, TagsReach, Valid, BusyMask
  <2>4. TagsHeld(rob', BusyMask(rob'))
    BY <1>12, <1>16, <1>17, <2>1 DEF TagsOK, TagsHeld, Valid, BusyMask
  <2> QED BY <2>2, <2>3, <2>4 DEF EntriesInv, TagsOK
<1>19. Contiguous(rob')
  <2>1. r.head \in Rows /\ r.tail \in Rows
    BY <1>8, EntryParts
  <2>2. \A i \in Rows : Live(rob', i) <=> Live(r, i) \/ i = r.tail
    <3>1. \A i \in Rows : Live(rob', i) <=> \E s \in Valid(r) \union new : s[1] = i
      BY <1>12, <1>17, LiveIs
    <3>2. \A i \in Rows : Live(r, i) <=> \E s \in Valid(r) : s[1] = i
      BY LiveIs
    <3> QED BY <1>13, <3>1, <3>2
  <2>3. \A i \in Rows : Dist(r.head, i) \in 0 .. ROB_SIZE - 1
                          /\ (Dist(r.head, i) = Dist(r.head, r.tail) => i = r.tail)
    BY <2>1, DistType
  <2>4. \A i \in Rows : Live(rob', i) <=> Dist(r.head, i) <= Dist(r.head, r.tail)
    BY <1>9, <2>1, <2>2, <2>3
  <2>5. rob'.tail \in Rows
          /\ Dist(r.head, rob'.tail) = IF Dist(r.head, r.tail) = ROB_SIZE - 1 THEN 0
                                       ELSE Dist(r.head, r.tail) + 1
    BY <1>16, <2>1, DistNext, NextRowIs
  <2>6. /\ \A i \in Rows : Live(rob', i) => Valid(rob') # {}
        /\ Valid(rob') # {} => \E i \in Rows : Live(rob', i)
    BY LiveIs
  <2>7. Dist(r.head, r.tail) \in 0 .. ROB_SIZE - 1 /\ FALSE \in BOOLEAN
    BY <2>1, <2>3
  <2>8. \A i \in Rows : Live(rob', i) <=>
          Dist(r.head, i) <= Dist(r.head, r.tail) /\ ~ (FALSE /\ i = r.head)
    BY <2>4
  <2>9. rob'.head = IF FALSE THEN NextRow(r.head) ELSE r.head
    BY <1>16
  <2> HIDE DEF Dist
  <2> QED BY <2>1, <2>5, <2>6, <2>7, <2>8, <2>9, ContiguousIf
<1>20. FenceAlone(rob')
  <2> SUFFICES ASSUME NEW s \in Valid(rob'), Uop[rob'.entry[s].pc] = "fence"
               PROVE  Valid(rob') = {s}
    BY DEF FenceAlone
  <2>1. s \in Slots /\ s \in Valid(r) \union new
    BY <1>12, <1>17 DEF Valid
  <2>2. s \notin Valid(r)
    <3> SUFFICES ASSUME s \in Valid(r) PROVE FALSE
      OBVIOUS
    <3>1. rob'.entry[s] = r.entry[s]
      BY <1>12, <1>13, <1>16, <2>1
    <3> QED BY <1>6, <3>1 DEF Serialises
  <2>3. PICK b \in banks : s = <<r.tail, b>>
    BY <1>13, <2>1, <2>2
  <2>4. Uop[row[b]] = "fence"
    BY <1>12, <1>16, <2>3
  <2>5. Valid(r) = {} /\ Cardinality(banks) = 1
    BY <1>5, <1>6, <2>3, <2>4 DEF Serialises
  <2>6. new = {s}
    BY <1>14, <1>15, <2>3, <2>5 DEF new
  <2> QED BY <1>12, <1>17, <2>5, <2>6
<1>21. Settled(rob', nextId')
  BY <1>6, <1>18, <1>19, <1>20 DEF Settled, BufferInv
<1>22. \A s \in Valid(r) : rob'.entry[s] = r.entry[s]
  BY <1>12, <1>13, <1>16 DEF Valid
<1>23. nextId' >= nextId
  BY <1>6, <1>7 DEF m
<1> QED BY <1>21, <1>22, <1>23

\* There are finitely many slots.
LEMMA SlotsFinite == IsFiniteSet(Slots)
<1>1. ROB_SIZE - 1 \in Int /\ 0 \in Int /\ 1 \in Int
  BY RobAssumption DEF RobAssumption
<1>2. IsFiniteSet(Rows) /\ IsFiniteSet(Banks)
  BY <1>1, FS_Interval DEF Rows, Banks
<1> QED BY <1>2, FS_Product DEF Slots

\* A single instruction that completes is the one that completes.
LEMMA AtMostOne ==
  ASSUME NEW r, NEW D \in SUBSET BusyMask(r), NEW s \in D, Cardinality(D) <= 1
  PROVE  D = {s}
<1>1. IsFiniteSet(Slots)
  BY SlotsFinite
<1>2. D \in SUBSET Slots
  BY DEF BusyMask
<1>3. IsFiniteSet(D)
  BY <1>1, <1>2, FS_Subset
<1>4. Cardinality(D) \in Nat /\ Cardinality(D) # 0
  BY <1>3, FS_CardinalityType, FS_EmptySet
<1>5. \E x : D = {x}
  BY <1>3, <1>4, FS_Singleton
<1> QED BY <1>5

(***************************************************************************)
(* A clock edge.                                                           *)
(***************************************************************************)
\* What the edge does not take away stays what it is, and a register that turns
\* tainted through an instruction is the destination of one that completed.
Kept ==
  \A s \in Valid(rob) \ Gone(rob, sig) :
    /\ s \in Valid(rob')
    /\ rob'.entry[s].id = rob.entry[s].id
    /\ rob'.entry[s].dst_type = rob.entry[s].dst_type

\* With one bank, no other instruction completes in the same cycle.
Alone(s, r, busy) ==
  N_ROBS = 1 => \A u \in busy \ BusyMask(r) : u[2] = 0 /\ (u \in Valid(r) => u = s)

Written(T, r, busy) ==
  \A t \in T : t.id # 0 =>
    \E s \in busy \ BusyMask(r) :
      /\ s \in Valid(r)
      /\ r.entry[s].id = t.id
      /\ r.entry[s].dst = t.reg
      /\ r.entry[s].dst_type = t.sink
      /\ Alone(s, r, busy)

\* Every edge keeps the invariant of the core.
LEMMA CoreEdge ==
  ASSUME CoreInv, NEW watched \in BOOLEAN, ClockEdge(watched)
  PROVE  CoreInv' /\ Kept /\ Written(tainted', rob', BusyMask(rob))
<1> DEFINE r == Settle(rob, sig)
<1>1. RobOK(rob) /\ SigOK(rob, sig) /\ nextId \in 1 .. MaxInsts + 1 /\ BufferInv(rob, nextId)
  BY DEF CoreInv
<1>2. PICK done \in SUBSET Slots : WiresOK(rob, sig, done)
  BY DEF CoreInv
<1>3. Settled(r, nextId) /\ RobOK(r)
  BY <1>1, <1>2, SettleSettled DEF Settled
<1>4. EdgeOK
  BY <1>1, ClockEdgeOK, RobAssumption, CoreAssumption
<1>5. /\ Valid(r) = Valid(rob) \ Gone(rob, sig)
      /\ BusyMask(r) = BusyMask(rob) \ Gone(rob, sig)
  BY <1>1, SettleValid
<1>6. \A s \in Valid(r) : /\ r.entry[s].id = rob.entry[s].id
                         /\ r.entry[s].dst_type = rob.entry[s].dst_type
  BY <1>1, <1>5, SettleEntry DEF Valid
<1>7. \/ Dispatch(r) /\ sig' = [QuietSig EXCEPT !.flush = FlushWire(rob')]
      \/ Complete(r, watched)
      \/ StrayTaint(r, watched)
      \/ /\ rob' = r /\ sig' = [QuietSig EXCEPT !.flush = FlushWire(r)]
         /\ tainted' = {} /\ UNCHANGED nextId
  BY DEF ClockEdge
<1> HIDE DEF r
<1>8. SUFFICES /\ BufferInv(rob', nextId')
               /\ \E d \in SUBSET Slots : WiresOK(rob', sig', d)
               /\ \A s \in Valid(r) : /\ s \in Valid(rob')
                                      /\ rob'.entry[s].id = r.entry[s].id
                                      /\ rob'.entry[s].dst_type = r.entry[s].dst_type
               /\ Written(tainted', rob', BusyMask(rob))
  <2> SUFFICES ASSUME BufferInv(rob', nextId'),
                      \E d \in SUBSET Slots : WiresOK(rob', sig', d),
                      \A s \in Valid(r) : /\ s \in Valid(rob')
                                          /\ rob'.entry[s].id = r.entry[s].id
                                          /\ rob'.entry[s].dst_type = r.entry[s].dst_type,
                      Written(tainted', rob', BusyMask(rob))
               PROVE  CoreInv' /\ Kept /\ Written(tainted', rob', BusyMask(rob))
    OBVIOUS
  <2>1. CoreInv'
    BY <1>4 DEF CoreInv, EdgeOK
  <2>2. Kept
    BY <1>5, <1>6 DEF Kept
  <2> QED BY <2>1, <2>2
<1>9. CASE Dispatch(r) /\ sig' = [QuietSig EXCEPT !.flush = FlushWire(rob')]
  <2>1. Settled(rob', nextId') /\ \A s \in Valid(r) : rob'.entry[s] = r.entry[s]
    BY <1>1, <1>3, <1>4, <1>9, DispatchSettled DEF EdgeOK
  <2>2. BufferInv(rob', nextId') /\ WiresOK(rob', sig', {})
    BY <1>9, <2>1, QuietWires DEF Settled
  <2>3. Written(tainted', rob', BusyMask(rob))
    BY <1>9 DEF Dispatch, Written
  <2>4. {} \in SUBSET Slots
    OBVIOUS
  <2> QED BY <2>1, <2>2, <2>3, <2>4 DEF Valid
<1>10. CASE Complete(r, watched)
  <2>1. PICK done2 \in (SUBSET BusyMask(r)) \ {{}} :
          /\ Cardinality(done2) <= N_ROBS
          /\ \E out \in [done2 -> UNION {Outcomes(r.entry[s].pc, watched) : s \in done2}] :
               /\ \A s \in done2 : out[s] \in Outcomes(r.entry[s].pc, watched)
               /\ CompleteWith(r, done2, out)
    BY <1>10 DEF Complete
  <2>2. PICK out \in [done2 -> UNION {Outcomes(r.entry[s].pc, watched) : s \in done2}] :
            /\ \A s \in done2 : out[s] \in Outcomes(r.entry[s].pc, watched)
            /\ CompleteWith(r, done2, out)
    BY <2>1
  <2>3. /\ WiresOK(rob', sig', done2)
        /\ BufferInv(rob', nextId)
        /\ OnlyCompletes(r, rob', done2)
    <3>1. done2 \subseteq BusyMask(r)
      OBVIOUS
    <3> QED BY <1>3, <2>2, <3>1, CompleteWires
  <2>4. nextId' = nextId
          /\ tainted' = {[sink |-> r.entry[s].dst_type, reg |-> r.entry[s].dst,
                          id |-> r.entry[s].id] : s \in {t \in done2 : out[t].taint}}
    BY <2>2 DEF CompleteWith
  <2>5. Written(tainted', rob', BusyMask(rob))
    <3> SUFFICES ASSUME NEW t \in tainted'
                 PROVE  \E s \in BusyMask(rob) \ BusyMask(rob') :
                          /\ s \in Valid(rob')
                          /\ rob'.entry[s].id = t.id
                          /\ rob'.entry[s].dst = t.reg
                          /\ rob'.entry[s].dst_type = t.sink
                          /\ Alone(s, rob', BusyMask(rob))
      BY DEF Written
    <3>1. PICK s \in done2 : t = [sink |-> r.entry[s].dst_type, reg |-> r.entry[s].dst,
                                  id |-> r.entry[s].id]
      BY <2>4
    <3>2. s \in BusyMask(rob) /\ s \in Slots /\ r.entry[s].valid
      BY <1>5, <2>1 DEF BusyMask
    <3>3. s \in Valid(rob') /\ s \notin BusyMask(rob')
      BY <2>3, <3>2 DEF Valid, BusyMask, OnlyCompletes
    <3>4. ASSUME NEW u \in BusyMask(rob) \ BusyMask(rob'), N_ROBS = 1
          PROVE  u[2] = 0 /\ (u \in Valid(rob') => u = s)
      <4>1. u \in Valid(rob) /\ u \in Slots /\ u[2] \in Banks
        BY DEF BusyMask, Valid, Slots
      <4>2. u[2] = 0
        BY <1>1, <3>4, <4>1 DEF BufferInv, EntriesInv, InBanks, Banks
      <4>3. ASSUME u \in Valid(rob') PROVE u = s
        <5>1. u \in Valid(r) /\ ~rob'.entry[u].busy
          BY <2>3, <4>1, <4>3 DEF Valid, BusyMask, OnlyCompletes
        <5>2. u \in BusyMask(r)
          BY <1>5, <5>1
        <5>3. u \in done2
          BY <2>3, <4>1, <5>1, <5>2 DEF BusyMask, OnlyCompletes
        <5>4. done2 = {s}
          BY <2>1, <3>1, <3>4, AtMostOne
        <5> QED BY <5>3, <5>4
      <4> QED BY <4>2, <4>3
    <3>5. Alone(s, rob', BusyMask(rob))
      BY <3>4 DEF Alone
    <3> QED BY <2>3, <3>1, <3>2, <3>3, <3>5 DEF OnlyCompletes
  <2>6. \A s \in Valid(r) : /\ s \in Valid(rob')
                           /\ rob'.entry[s].id = r.entry[s].id
                           /\ rob'.entry[s].dst_type = r.entry[s].dst_type
    BY <2>3 DEF Valid, OnlyCompletes
  <2>7. done2 \in SUBSET Slots
    BY <2>1 DEF BusyMask
  <2> QED BY <2>3, <2>4, <2>5, <2>6, <2>7
<1>11. CASE \/ StrayTaint(r, watched)
            \/ /\ rob' = r /\ sig' = [QuietSig EXCEPT !.flush = FlushWire(r)]
               /\ tainted' = {} /\ UNCHANGED nextId
  <2>1. rob' = r /\ sig' = [QuietSig EXCEPT !.flush = FlushWire(r)] /\ nextId' = nextId
    BY <1>11 DEF StrayTaint
  <2>2. \A t \in tainted' : t.id = 0
    BY <1>11 DEF StrayTaint
  <2>3. WiresOK(rob', sig', {}) /\ BufferInv(rob', nextId')
    BY <1>3, <2>1, QuietWires DEF Settled
  <2>4. {} \in SUBSET Slots
    OBVIOUS
  <2>5. Written(tainted', rob', BusyMask(rob))
    BY <2>2 DEF Written
  <2> QED BY <2>1, <2>3, <2>4, <2>5
<1> QED BY <1>7, <1>9, <1>10, <1>11

\* The empty buffer is in order.
LEMMA CoreInvInit ==
  ASSUME CoreInit, RobOK(rob), SigOK(rob, sig)
  PROVE  CoreInv
<1>1. /\ rob.head = 0 /\ rob.tail = 0 /\ \A s \in Slots : rob.entry[s] = ZeroEntry
      /\ sig = QuietSig /\ nextId = 1
  BY DEF CoreInit
<1>2. Valid(rob) = {} /\ BusyMask(rob) = {}
  BY <1>1 DEF Valid, BusyMask, ZeroEntry
<1>3. EntriesInv(rob, nextId)
  BY <1>1, <1>2 DEF EntriesInv, Ordered, Identified, InBanks, Registers, Destinations, ZeroEntry
<1>4. Contiguous(rob)
  <2>1. \A i \in Rows : ~Live(rob, i)
    BY <1>2, LiveIs
  <2> QED BY <1>1, <1>2, <2>1 DEF Contiguous, InRange
<1>5. FenceAlone(rob) /\ TagsOK(rob, BusyMask(rob))
  BY <1>2 DEF FenceAlone, TagsOK, TagsDistinct, TagsReach, TagsHeld
<1>6. sig = [QuietSig EXCEPT !.flush = FlushWire(rob)]
  <2>1. HeadSlot(rob) \in Slots
    BY HeadSlotType, EntryParts
  <2>2. FlushWire(rob) = "none"
    BY <1>1, <2>1 DEF FlushWire, Ready, ZeroEntry
  <2>3. [QuietSig EXCEPT !.flush = "none"] = QuietSig
    <3>1. QuietSig \in Signals /\ QuietSig.flush = "none"
      BY DEF QuietSig, Signals
    <3> HIDE DEF QuietSig
    <3> QED BY <3>1 DEF Signals
  <2>4. sig = QuietSig
    BY <1>1
  <2> HIDE DEF QuietSig
  <2> QED BY <2>2, <2>3, <2>4
<1>7. WiresOK(rob, sig, {}) /\ {} \in SUBSET Slots
  BY <1>5, <1>6, QuietWires
<1>8. nextId \in 1 .. MaxInsts + 1
  BY <1>1, CoreAssumption DEF CoreAssumption
<1> QED BY <1>3, <1>4, <1>5, <1>7, <1>8 DEF CoreInv, BufferInv
=============================================================================
