--------------------------- MODULE FakeDRAMProofs ---------------------------
(***************************************************************************)
(* Proofs about FakeDRAM, for every memory, every set of transaction ids   *)
(* and burst lengths, and any amount of traffic: both sides of each        *)
(* channel agree on every transfer, and bursts never lose step, as long    *)
(* as a reset waits for what is outstanding.                               *)
(***************************************************************************)
EXTENDS FakeDRAM, SequenceTheorems, TLAPS

\* The beats still to come of the burst in flight, and of the one offered.
Left == IF curStore.inFlight THEN curStore.count ELSE 0
Offered == IF aw # None THEN aw.len + 1 ELSE 0

\* The master owes exactly the beats of the burst in flight, then those of the
\* burst it offers.
AlignInv ==
  /\ curStore.inFlight => curStore.count >= 1
  /\ Len(wBeats) = Left + Offered
  /\ \A i \in 1 .. Left : /\ wBeats[i].last <=> i = Left
                          /\ wBeats[i].id = curStore.id
  /\ \A i \in Left + 1 .. Left + Offered :
       /\ wBeats[i].last <=> i = Left + Offered
       /\ wBeats[i].id = aw.id

\* The registers show SimMem's state, or a reset that found nothing pending.
RegsInv ==
  \/ regs = Outputs(readQueue, writeRespQueue, curStore)
  \/ /\ regs = NoReg /\ ar = None /\ aw = None /\ wBeats = <<>>
     /\ readQueue = <<>> /\ writeRespQueue = <<>>

AgreeInv == owedReads = readQueue /\ owedResps = writeRespQueue

IInv ==
  /\ TypeOK
  /\ ~aborted => AlignInv /\ RegsInv /\ AgreeInv

-----------------------------------------------------------------------------
\* The assumption, in parts.
LEMMA Constants ==
  /\ NumWords \in Nat /\ NumWords >= 1 /\ Words = 0 .. NumWords - 1
  /\ Lens \subseteq Nat
  /\ Offsets \subseteq 0 .. 7
  /\ None \notin ReadReqs /\ None \notin WriteReqs
<1>1. /\ NumWords \in Nat \ {0} /\ Lens \subseteq Nat /\ Offsets \subseteq Lanes
      /\ None \notin ReadReqs /\ None \notin WriteReqs
  BY DRAMAssumption
<1>2. NumWords \in Nat /\ NumWords >= 1
  BY <1>1
<1>3. Lanes = 0 .. 7
  BY DEF Lanes, WordSize
<1> QED BY <1>1, <1>2, <1>3 DEF Words

\* A sequence that is not empty may be shortened before or after it grows.
LEMMA TailConcat ==
  ASSUME NEW S, NEW s \in Seq(S), NEW t \in Seq(S), s # <<>>
  PROVE  Tail(s \o t) = Tail(s) \o t
<1>1. /\ s \o t \in Seq(S) /\ Len(s \o t) = Len(s) + Len(t)
      /\ \A i \in 1 .. Len(s) + Len(t) :
           (s \o t)[i] = IF i <= Len(s) THEN s[i] ELSE t[i - Len(s)]
  BY ConcatProperties
<1>2. Len(s) \in Nat \ {0} /\ Len(t) \in Nat
  BY EmptySeq, LenProperties
<1>3. s \o t # <<>>
  BY <1>1, <1>2, EmptySeq
<1>4. /\ Tail(s \o t) \in Seq(S) /\ Len(Tail(s \o t)) = Len(s) + Len(t) - 1
      /\ \A i \in 1 .. Len(Tail(s \o t)) : Tail(s \o t)[i] = (s \o t)[i + 1]
  BY <1>1, <1>3, HeadTailProperties
<1>5. /\ Tail(s) \in Seq(S) /\ Len(Tail(s)) = Len(s) - 1
      /\ \A i \in 1 .. Len(Tail(s)) : Tail(s)[i] = s[i + 1]
  BY HeadTailProperties
<1>6. /\ Tail(s) \o t \in Seq(S) /\ Len(Tail(s) \o t) = Len(s) - 1 + Len(t)
      /\ \A i \in 1 .. Len(s) - 1 + Len(t) :
           (Tail(s) \o t)[i] = IF i <= Len(s) - 1 THEN Tail(s)[i] ELSE t[i - (Len(s) - 1)]
  BY <1>5, ConcatProperties
<1>7. \A i \in 1 .. Len(Tail(s \o t)) : Tail(s \o t)[i] = (Tail(s) \o t)[i]
  <2> TAKE i \in 1 .. Len(Tail(s \o t))
  <2>1. i \in 1 .. Len(s) - 1 + Len(t) /\ i + 1 \in 1 .. Len(s) + Len(t)
    BY <1>2, <1>4
  <2>2. CASE i <= Len(s) - 1
    BY <1>1, <1>2, <1>4, <1>5, <1>6, <2>1, <2>2
  <2>3. CASE ~(i <= Len(s) - 1)
    <3>1. i + 1 - Len(s) = i - (Len(s) - 1) /\ ~(i + 1 <= Len(s))
      BY <1>2, <2>1, <2>3
    <3> QED BY <1>1, <1>4, <1>6, <2>1, <2>3, <3>1
  <2> QED BY <2>2, <2>3
<1>8. Len(Tail(s \o t)) = Len(Tail(s) \o t)
  BY <1>2, <1>4, <1>6
<1> QED BY <1>4, <1>6, <1>7, <1>8, SeqEqual

\* A word of the memory is a function on the lanes.
LEMMA ReadWordType ==
  ASSUME TypeOK, NEW w \in Nat
  PROVE  ReadWord(w) \in [Lanes -> Words \union {Bus}]
<1>1. w % NumWords \in Words
  BY Constants
<1> QED BY <1>1 DEF ReadWord, TypeOK

\* The beats of a read burst.
LEMMA ReadBeatsType ==
  ASSUME TypeOK, NEW req \in ReadReqs
  PROVE  ReadBeats(req) \in Seq(Beats)
<1>1. req.len + 1 \in Nat /\ req.id \in IDs /\ req.word \in Nat
  <2>1. req.len \in Lens /\ req.id \in IDs /\ req.word \in Words
    BY DEF ReadReqs
  <2>2. req.len \in Nat
    BY <2>1, Constants
  <2>3. req.word \in Nat
    BY <2>1, Constants
  <2> QED BY <2>1, <2>2, <2>3
<1>2. \A i \in 1 .. req.len + 1 : req.word + i - 1 \in Nat
  BY <1>1
<1>3. \A i \in 1 .. req.len + 1 :
        [id |-> req.id, data |-> ReadWord(req.word + i - 1), last |-> i = req.len + 1]
          \in Beats
  BY <1>1, <1>2, ReadWordType DEF Beats
<1>4. ReadBeats(req) \in [1 .. req.len + 1 -> Beats]
  BY <1>3 DEF ReadBeats
<1> QED BY <1>1, <1>4, SeqDef

\* What the wrapper registers has the types of its ports.
LEMMA OutputsType ==
  ASSUME NEW q \in Seq(Beats), NEW respq \in Seq(IDs), NEW store \in Stores
  PROVE  Outputs(q, respq, store) \in Regs
<1>1. q # <<>> => Head(q) \in Beats
  BY HeadTailProperties
<1>2. respq # <<>> => Head(respq) \in IDs
  BY HeadTailProperties
<1>3. readAddrReady \in BOOLEAN /\ store.inFlight \in BOOLEAN
  BY DEF readAddrReady, Stores
<1> QED BY <1>1, <1>2, <1>3 DEF Outputs, Regs

-----------------------------------------------------------------------------
\* The transfers SimMem takes part in at an edge.
ArFire == ar # None /\ readAddrReady
AwFire == aw # None /\ writeAddrReady
WFire == wBeats # <<>> /\ writeDataReady

PushedReads == readQueue \o (IF ArFire THEN ReadBeats(ar) ELSE <<>>)
PushedResps ==
  writeRespQueue \o (IF WFire /\ curStore.count = 1 THEN <<curStore.id>> ELSE <<>>)

\* An edge, as SimMem and as the master see it.
Edge(rReady, bReady) ==
  /\ TickStores(WFire, AwFire)
  /\ readQueue' = IF readDataValid /\ rReady THEN Tail(PushedReads) ELSE PushedReads
  /\ writeRespQueue' = IF writeResponseValid /\ bReady
                         THEN Tail(PushedResps) ELSE PushedResps
  /\ regs' = Outputs(readQueue', writeRespQueue', curStore')
  /\ MasterEdge(rReady, bReady)

LEMMA TickIsEdge ==
  ASSUME Tick
  PROVE  ~aborted /\ \E rReady, bReady \in BOOLEAN : Edge(rReady, bReady)
BY DEF Tick, Edge, ArFire, AwFire, WFire, PushedReads, PushedResps

\* What the stores of an edge do to the burst in flight.
LEMMA StoreStep ==
  ASSUME TypeOK, ~aborted, AlignInv, TickStores(WFire, AwFire)
  PROVE  /\ WFire => curStore' = [curStore EXCEPT !.addr = @ + curStore.size,
                                                 !.count = curStore.count - 1,
                                                 !.inFlight = curStore.count - 1 # 0]
         /\ ~WFire /\ AwFire =>
              curStore' = [inFlight |-> TRUE, addr |-> aw.addr, id |-> aw.id,
                           size |-> aw.size, count |-> aw.len + 1]
         /\ ~WFire /\ ~AwFire => curStore' = curStore
         /\ curStore' \in Stores
         /\ aborted' \in BOOLEAN
         /\ data' \in [Words \X Lanes -> Words \union {Bus}]
<1>1. CASE WFire
  <2>1. /\ curStore' = [curStore EXCEPT !.addr = @ + curStore.size,
                                       !.count = curStore.count - 1,
                                       !.inFlight = curStore.count - 1 # 0]
        /\ aborted' \in BOOLEAN
        /\ \/ data' = data
           \/ \E mask \in StrobeMasks(curStore.addr, Beat.strb) :
                data' = Write(curStore.addr, Bits(curStore.size) \cap mask)
    BY <1>1 DEF TickStores
  <2>2. curStore \in Stores /\ curStore.inFlight /\ curStore.count >= 1
    BY <1>1 DEF TypeOK, WFire, writeDataReady, AlignInv
  <2>3. curStore.addr + curStore.size \in Nat /\ curStore.count - 1 \in Nat
    BY <2>2 DEF Stores
  <2>4. curStore' \in Stores
    BY <2>1, <2>2, <2>3 DEF Stores
  <2>5. \A lanes : Write(curStore.addr, lanes) \in [Words \X Lanes -> Words \union {Bus}]
    <3> TAKE lanes
    <3>1. 0 \in Words
      BY Constants
    <3>2. \A p \in Words \X Lanes : data[<<0, p[2]>>] \in Words \union {Bus}
      BY <3>1 DEF TypeOK
    <3>3. \A p \in Words \X Lanes : data[p] \in Words \union {Bus}
      BY DEF TypeOK
    <3> QED BY <3>2, <3>3 DEF Write
  <2>6. data' \in [Words \X Lanes -> Words \union {Bus}]
    BY <2>1, <2>5 DEF TypeOK
  <2> QED BY <1>1, <2>1, <2>4, <2>6
<1>2. CASE ~WFire /\ AwFire
  <2>1. /\ curStore' = [inFlight |-> TRUE, addr |-> aw.addr, id |-> aw.id,
                       size |-> aw.size, count |-> aw.len + 1]
        /\ data' = data /\ aborted' = aborted
    BY <1>2 DEF TickStores
  <2>2. aw \in WriteReqs
    BY <1>2 DEF TypeOK, AwFire
  <2>3. /\ aw.addr \in Nat /\ aw.id \in IDs /\ aw.size \in Nat
        /\ aw.len \in Lens
    BY <2>2 DEF WriteReqs, WordSize
  <2>4. aw.len \in Nat
    BY <2>3, Constants
  <2>5. aw.len + 1 \in Nat
    BY <2>4
  <2> QED BY <1>2, <2>1, <2>3, <2>5 DEF TypeOK, Stores
<1>3. CASE ~WFire /\ ~AwFire
  <2>1. UNCHANGED <<data, aborted, curStore>>
    BY <1>3 DEF TickStores
  <2> QED BY <1>3, <2>1 DEF TypeOK
<1> QED BY <1>1, <1>2, <1>3

\* Both sides see the same transfers: the registers are those SimMem stands by.
LEMMA SameTransfers ==
  ASSUME TypeOK, RegsInv
  PROVE  /\ (ar # None /\ regs.ar_ready) = ArFire
         /\ (aw # None /\ regs.aw_ready) = AwFire
         /\ (wBeats # <<>> /\ regs.w_ready) = WFire
         /\ \A rReady \in BOOLEAN :
              (regs.r_valid /\ rReady) = (readDataValid /\ rReady)
         /\ \A bReady \in BOOLEAN :
              (regs.b_valid /\ bReady) = (writeResponseValid /\ bReady)
<1>0. curStore.inFlight \in BOOLEAN
  BY DEF TypeOK, Stores
<1>1. CASE regs = Outputs(readQueue, writeRespQueue, curStore)
  <2>1. /\ regs.ar_ready = TRUE /\ regs.aw_ready = (~curStore.inFlight)
        /\ regs.w_ready = curStore.inFlight /\ regs.r_valid = (readQueue # <<>>)
        /\ regs.b_valid = (writeRespQueue # <<>>)
    BY <1>1 DEF Outputs, readAddrReady
  <2> QED BY <1>0, <2>1 DEF ArFire, AwFire, WFire, readAddrReady, writeAddrReady,
                           writeDataReady, readDataValid, writeResponseValid
<1>2. CASE /\ regs = NoReg /\ ar = None /\ aw = None /\ wBeats = <<>>
           /\ readQueue = <<>> /\ writeRespQueue = <<>>
  <2>1. regs.r_valid = FALSE /\ regs.b_valid = FALSE
    BY <1>2 DEF NoReg
  <2> QED BY <1>2, <2>1 DEF ArFire, AwFire, WFire, readDataValid, writeResponseValid
<1> QED BY <1>1, <1>2 DEF RegsInv

\* The master's side of an edge, in SimMem's terms.
LEMMA MasterStep ==
  ASSUME TypeOK, RegsInv, NEW rReady \in BOOLEAN, NEW bReady \in BOOLEAN,
         MasterEdge(rReady, bReady)
  PROVE  /\ ar' = IF ArFire THEN None ELSE ar
         /\ aw' = IF AwFire THEN None ELSE aw
         /\ wBeats' = IF WFire THEN Tail(wBeats) ELSE wBeats
         /\ owedReads' = (IF readDataValid /\ rReady THEN Tail(owedReads) ELSE owedReads)
                           \o (IF ArFire THEN ReadBeats(ar) ELSE <<>>)
         /\ owedResps' = (IF writeResponseValid /\ bReady THEN Tail(owedResps)
                          ELSE owedResps)
                           \o (IF WFire /\ Beat.last THEN <<Beat.id>> ELSE <<>>)
<1> DEFINE ard == ar # None /\ regs.ar_ready
           awd == aw # None /\ regs.aw_ready
           wd == wBeats # <<>> /\ regs.w_ready
           rd == regs.r_valid /\ rReady
           bd == regs.b_valid /\ bReady
<1>1. /\ ar' = IF ard THEN None ELSE ar
      /\ aw' = IF awd THEN None ELSE aw
      /\ wBeats' = IF wd THEN Tail(wBeats) ELSE wBeats
      /\ owedReads' = (IF rd THEN Tail(owedReads) ELSE owedReads)
                        \o (IF ard THEN ReadBeats(ar) ELSE <<>>)
      /\ owedResps' = (IF bd THEN Tail(owedResps) ELSE owedResps)
                        \o (IF wd /\ Beat.last THEN <<Beat.id>> ELSE <<>>)
  BY DEF MasterEdge
<1>2. /\ ard = ArFire /\ awd = AwFire /\ wd = WFire
      /\ rd = (readDataValid /\ rReady) /\ bd = (writeResponseValid /\ bReady)
  BY SameTransfers
<1> HIDE DEF ard, awd, wd, rd, bd
<1> QED BY <1>1, <1>2

\* The beats of the burst in flight go down by one, or the offered burst takes
\* their place.
LEMMA AlignStep ==
  ASSUME TypeOK, ~aborted, AlignInv, RegsInv, TickStores(WFire, AwFire),
         NEW rReady \in BOOLEAN, NEW bReady \in BOOLEAN, MasterEdge(rReady, bReady)
  PROVE  AlignInv'
<1>0. /\ aw' = (IF AwFire THEN None ELSE aw)
      /\ wBeats' = (IF WFire THEN Tail(wBeats) ELSE wBeats)
  BY MasterStep
<1>1. curStore \in Stores /\ wBeats \in Seq(WBeats)
  BY DEF TypeOK
<1>2. Left \in Nat /\ Offered \in Nat
  <2>1. CASE aw = None
    BY <1>1, <2>1 DEF Left, Offered, Stores
  <2>2. CASE aw # None
    <3>1. aw.len \in Lens
      BY <2>2 DEF TypeOK, WriteReqs
    <3>2. aw.len \in Nat
      BY <3>1, Constants
    <3> QED BY <1>1, <2>2, <3>2 DEF Left, Offered, Stores
  <2> QED BY <2>1, <2>2
<1>3. CASE WFire
  <2>1. /\ curStore' = [curStore EXCEPT !.addr = @ + curStore.size,
                                       !.count = curStore.count - 1,
                                       !.inFlight = curStore.count - 1 # 0]
        /\ curStore.inFlight /\ ~AwFire /\ wBeats # <<>>
    BY <1>3, StoreStep DEF WFire, AwFire, writeDataReady, writeAddrReady
  <2>2. /\ curStore'.inFlight = (curStore.count - 1 # 0)
        /\ curStore'.count = curStore.count - 1 /\ curStore'.id = curStore.id
        /\ curStore.count \in Nat /\ curStore.count >= 1 /\ Left = curStore.count
    BY <1>1, <2>1 DEF Stores, AlignInv, Left
  <2>3. Left' = Left - 1 /\ (curStore'.inFlight => curStore'.count >= 1)
    <3>1. CASE curStore.count = 1
      <4>0. (curStore.count - 1 # 0) = FALSE
        BY <3>1
      <4>1. ~curStore'.inFlight
        BY <2>2, <4>0
      <4> QED BY <2>2, <3>1, <4>1 DEF Left
    <3>2. CASE curStore.count # 1
      <4>1. curStore.count - 1 # 0 /\ curStore.count - 1 >= 1
        BY <2>2, <3>2
      <4>2. curStore'.inFlight
        BY <2>2, <4>1
      <4> QED BY <2>2, <4>1, <4>2 DEF Left
    <3> QED BY <3>1, <3>2
  <2>4. aw' = aw /\ Offered' = Offered
    BY <1>0, <2>1 DEF Offered
  <2>5. /\ Len(wBeats') = Len(wBeats) - 1
        /\ \A i \in 1 .. Len(wBeats') : wBeats'[i] = wBeats[i + 1]
    BY <1>0, <1>1, <1>3, <2>1, HeadTailProperties
  <2>6. Len(wBeats') = Left' + Offered'
    BY <1>2, <2>3, <2>4, <2>5 DEF AlignInv
  <2>7. \A i \in 1 .. Left' : /\ wBeats'[i].last <=> i = Left'
                              /\ wBeats'[i].id = curStore'.id
    <3> TAKE i \in 1 .. Left'
    <3>1. i + 1 \in 1 .. Left /\ i \in 1 .. Len(wBeats') /\ (i = Left' <=> i + 1 = Left)
      BY <1>2, <2>3, <2>4, <2>6
    <3> QED BY <2>2, <2>5, <3>1 DEF AlignInv
  <2>8. \A i \in Left' + 1 .. Left' + Offered' :
          /\ wBeats'[i].last <=> i = Left' + Offered'
          /\ wBeats'[i].id = aw'.id
    <3> TAKE i \in Left' + 1 .. Left' + Offered'
    <3>1. /\ i + 1 \in Left + 1 .. Left + Offered /\ i \in 1 .. Len(wBeats')
          /\ (i = Left' + Offered' <=> i + 1 = Left + Offered)
      BY <1>2, <2>2, <2>3, <2>4, <2>6
    <3> QED BY <2>4, <2>5, <3>1 DEF AlignInv
  <2> QED BY <2>3, <2>6, <2>7, <2>8 DEF AlignInv
<1>4. CASE ~WFire /\ AwFire
  <2>1. /\ curStore' = [inFlight |-> TRUE, addr |-> aw.addr, id |-> aw.id,
                       size |-> aw.size, count |-> aw.len + 1]
        /\ ~curStore.inFlight /\ aw # None
    BY <1>4, StoreStep DEF AwFire, writeAddrReady
  <2>2. Left = 0 /\ Left' = Offered /\ Offered = aw.len + 1
    BY <2>1 DEF Left, Offered
  <2>3. aw' = None /\ Offered' = 0 /\ wBeats' = wBeats
    BY <1>0, <1>4 DEF Offered
  <2>4. aw.len \in Nat
    <3>1. aw.len \in Lens
      BY <2>1 DEF TypeOK, WriteReqs
    <3> QED BY <3>1, Constants
  <2>5. curStore'.inFlight /\ curStore'.count = aw.len + 1 /\ curStore'.id = aw.id
    BY <2>1
  <2>6. \A i \in 1 .. Left' : /\ wBeats'[i].last <=> i = Left'
                              /\ wBeats'[i].id = curStore'.id
    BY <1>2, <2>2, <2>3, <2>5 DEF AlignInv
  <2>7. \A i \in Left' + 1 .. Left' + Offered' : FALSE
    BY <1>2, <2>2, <2>3
  <2>8. Len(wBeats') = Left' + Offered' /\ curStore'.count >= 1
    BY <1>2, <2>2, <2>3, <2>4, <2>5 DEF AlignInv
  <2> QED BY <2>6, <2>7, <2>8 DEF AlignInv
<1>5. CASE ~WFire /\ ~AwFire
  <2>1. curStore' = curStore /\ aw' = aw /\ wBeats' = wBeats
    BY <1>0, <1>5, StoreStep
  <2>2. Left' = Left /\ Offered' = Offered
    BY <2>1 DEF Left, Offered
  <2> QED BY <2>1, <2>2 DEF AlignInv
<1> QED BY <1>3, <1>4, <1>5

\* Both sides queue and deliver alike.
LEMMA AgreeStep ==
  ASSUME TypeOK, ~aborted, AlignInv, RegsInv, AgreeInv,
         NEW rReady \in BOOLEAN, NEW bReady \in BOOLEAN, Edge(rReady, bReady)
  PROVE  AgreeInv' /\ readQueue' \in Seq(Beats) /\ writeRespQueue' \in Seq(IDs)
<1>0. /\ readQueue \in Seq(Beats) /\ writeRespQueue \in Seq(IDs)
      /\ owedReads = readQueue /\ owedResps = writeRespQueue
  BY DEF TypeOK, AgreeInv
<1>1. /\ readQueue' = (IF readDataValid /\ rReady THEN Tail(PushedReads) ELSE PushedReads)
      /\ writeRespQueue' = (IF writeResponseValid /\ bReady
                            THEN Tail(PushedResps) ELSE PushedResps)
      /\ MasterEdge(rReady, bReady)
  BY DEF Edge
<1>2. /\ owedReads' = (IF readDataValid /\ rReady THEN Tail(owedReads) ELSE owedReads)
                         \o (IF ArFire THEN ReadBeats(ar) ELSE <<>>)
      /\ owedResps' = (IF writeResponseValid /\ bReady THEN Tail(owedResps) ELSE owedResps)
                         \o (IF WFire /\ Beat.last THEN <<Beat.id>> ELSE <<>>)
  BY <1>1, MasterStep
<1>3. owedReads' = readQueue' /\ readQueue' \in Seq(Beats)
  <2> DEFINE new == IF ArFire THEN ReadBeats(ar) ELSE <<>>
  <2>1. new \in Seq(Beats)
    <3>1. CASE ArFire
      <4>1. ar \in ReadReqs
        BY <3>1 DEF TypeOK, ArFire
      <4> QED BY <3>1, <4>1, ReadBeatsType
    <3>2. CASE ~ArFire
      BY <3>2, EmptySeq
    <3> QED BY <3>1, <3>2
  <2>2. PushedReads = readQueue \o new
    BY DEF PushedReads
  <2>3. owedReads' = (IF readDataValid /\ rReady THEN Tail(readQueue) ELSE readQueue) \o new
    BY <1>0, <1>2
  <2> HIDE DEF new
  <2>4. CASE readDataValid /\ rReady
    <3>1. readQueue # <<>>
      BY <2>4 DEF readDataValid
    <3>2. Tail(readQueue \o new) = Tail(readQueue) \o new
      BY <1>0, <2>1, <3>1, TailConcat
    <3>3. Tail(readQueue) \o new \in Seq(Beats)
      BY <1>0, <2>1, <3>1, HeadTailProperties, ConcatProperties
    <3> QED BY <1>1, <2>2, <2>3, <2>4, <3>2, <3>3
  <2>5. CASE ~(readDataValid /\ rReady)
    <3>1. readQueue \o new \in Seq(Beats)
      BY <1>0, <2>1, ConcatProperties
    <3> QED BY <1>1, <2>2, <2>3, <2>5, <3>1
  <2> QED BY <2>4, <2>5
<1>4. owedResps' = writeRespQueue' /\ writeRespQueue' \in Seq(IDs)
  <2> DEFINE new == IF WFire /\ curStore.count = 1 THEN <<curStore.id>> ELSE <<>>
  <2>1. WFire => /\ Beat.last <=> curStore.count = 1
                 /\ Beat.id = curStore.id /\ Beat.id \in IDs
    <3> SUFFICES ASSUME WFire
                 PROVE  /\ Beat.last <=> curStore.count = 1
                        /\ Beat.id = curStore.id /\ Beat.id \in IDs
      OBVIOUS
    <3>1. /\ curStore.inFlight /\ wBeats # <<>> /\ curStore.count \in Nat
          /\ curStore.count >= 1 /\ Left = curStore.count
      BY DEF WFire, writeDataReady, AlignInv, TypeOK, Stores, Left
    <3>2. Beat = wBeats[1] /\ Beat \in WBeats
      BY <3>1, HeadTailProperties DEF Beat, TypeOK
    <3>3. 1 \in 1 .. Left
      BY <3>1
    <3> QED BY <3>1, <3>2, <3>3 DEF AlignInv, WBeats
  <2>2. new = IF WFire /\ Beat.last THEN <<Beat.id>> ELSE <<>>
    BY <2>1
  <2>3. new \in Seq(IDs)
    <3>1. CASE WFire /\ curStore.count = 1
      BY <2>1, <3>1
    <3>2. CASE ~(WFire /\ curStore.count = 1)
      BY <3>2, EmptySeq
    <3> QED BY <3>1, <3>2
  <2>4. PushedResps = writeRespQueue \o new
    BY DEF PushedResps
  <2> HIDE DEF new
  <2>5. owedResps' = (IF writeResponseValid /\ bReady THEN Tail(writeRespQueue)
                      ELSE writeRespQueue) \o new
    BY <1>0, <1>2, <2>2
  <2>6. CASE writeResponseValid /\ bReady
    <3>1. writeRespQueue # <<>>
      BY <2>6 DEF writeResponseValid
    <3>2. Tail(writeRespQueue \o new) = Tail(writeRespQueue) \o new
      BY <1>0, <2>3, <3>1, TailConcat
    <3>3. Tail(writeRespQueue) \o new \in Seq(IDs)
      BY <1>0, <2>3, <3>1, HeadTailProperties, ConcatProperties
    <3> QED BY <1>1, <2>4, <2>5, <2>6, <3>2, <3>3
  <2>7. CASE ~(writeResponseValid /\ bReady)
    <3>1. writeRespQueue \o new \in Seq(IDs)
      BY <1>0, <2>3, ConcatProperties
    <3> QED BY <1>1, <2>4, <2>5, <2>7, <3>1
  <2> QED BY <2>6, <2>7
<1> QED BY <1>3, <1>4 DEF AgreeInv

\* An edge keeps the invariant.
LEMMA TickInv ==
  ASSUME IInv, Tick PROVE IInv'
<1>1. ~aborted /\ TypeOK /\ AlignInv /\ RegsInv /\ AgreeInv
  BY TickIsEdge DEF IInv
<1>2. PICK rReady \in BOOLEAN, bReady \in BOOLEAN : Edge(rReady, bReady)
  BY TickIsEdge
<1>3. /\ TickStores(WFire, AwFire) /\ MasterEdge(rReady, bReady)
      /\ regs' = Outputs(readQueue', writeRespQueue', curStore')
  BY <1>2 DEF Edge
<1>4. /\ curStore' \in Stores /\ aborted' \in BOOLEAN
      /\ data' \in [Words \X Lanes -> Words \union {Bus}]
  BY <1>1, <1>3, StoreStep
<1>5. AgreeInv' /\ readQueue' \in Seq(Beats) /\ writeRespQueue' \in Seq(IDs)
  BY <1>1, <1>2, AgreeStep
<1>6. AlignInv'
  BY <1>1, <1>3, AlignStep
<1>7. regs' \in Regs
  BY <1>3, <1>4, <1>5, OutputsType
<1>8. /\ ar' \in ReadReqs \union {None} /\ aw' \in WriteReqs \union {None}
      /\ wBeats' \in Seq(WBeats)
  <2>1. /\ ar' = (IF ArFire THEN None ELSE ar) /\ aw' = (IF AwFire THEN None ELSE aw)
        /\ wBeats' = (IF WFire THEN Tail(wBeats) ELSE wBeats)
    BY <1>1, <1>3, MasterStep
  <2>2. WFire => Tail(wBeats) \in Seq(WBeats)
    BY <1>1, HeadTailProperties DEF WFire, TypeOK
  <2> QED BY <1>1, <2>1, <2>2 DEF TypeOK
<1>9. RegsInv'
  BY <1>3 DEF RegsInv, Outputs, readAddrReady
<1> QED BY <1>4, <1>5, <1>6, <1>7, <1>8, <1>9 DEF IInv, TypeOK

\* The beats of a new burst follow those already owed.
LEMMA StoreBeatsFact ==
  ASSUME NEW addr \in Nat, NEW size \in {1, WordSize}, NEW len \in Lens, NEW id \in IDs
  PROVE  LET beats == StoreBeats(addr, size, len, id)
         IN /\ beats \in Seq(WBeats) /\ Len(beats) = len + 1
            /\ \A i \in 1 .. len + 1 :
                 (beats[i].last <=> i = len + 1) /\ beats[i].id = id
<1> DEFINE at(i) == addr + (i - 1) * size
           beat(i) == [word |-> (at(i) \div WordSize) % NumWords, id |-> id,
                       last |-> i = len + 1,
                       strb |-> IF size = WordSize THEN 255 ELSE OneHot[at(i) % WordSize]]
<1>1. len \in Nat
  BY Constants
<1>2. size \in Nat
  BY DEF WordSize
<1>3. \A i \in 1 .. len + 1 : beat(i) \in WBeats
  <2> TAKE i \in 1 .. len + 1
  <2>1. at(i) \in Nat
    <3>1. i - 1 \in Nat
      BY <1>1
    <3>2. \A m, n \in Nat : m * n \in Nat
      OBVIOUS
    <3> QED BY <1>2, <3>1, <3>2
  <2> HIDE DEF at
  <2>2. at(i) \div WordSize \in Nat
    BY <2>1 DEF WordSize
  <2>3. (at(i) \div WordSize) % NumWords \in Words
    BY <2>2, Constants
  <2>4. at(i) % WordSize \in 0 .. 7
    BY <2>1 DEF WordSize
  <2>5. \A l \in 0 .. 7 : OneHot[l] \in Nat
    BY DEF OneHot, Lanes, WordSize
  <2>6. (IF size = WordSize THEN 255 ELSE OneHot[at(i) % WordSize]) \in Nat
    BY <2>4, <2>5
  <2> QED BY <2>3, <2>6 DEF WBeats
<1>4. StoreBeats(addr, size, len, id) = [i \in 1 .. len + 1 |-> beat(i)]
  BY DEF StoreBeats
<1>5. \A i \in 1 .. len + 1 : (beat(i).last <=> i = len + 1) /\ beat(i).id = id
  OBVIOUS
<1> HIDE DEF beat
<1>6. StoreBeats(addr, size, len, id) \in [1 .. len + 1 -> WBeats]
  BY <1>3, <1>4
<1>7. StoreBeats(addr, size, len, id) \in Seq(WBeats)
  BY <1>1, <1>6, SeqDef
<1>8. Len(StoreBeats(addr, size, len, id)) = len + 1
  BY <1>1, <1>6, <1>7, LenProperties
<1> QED BY <1>4, <1>5, <1>7, <1>8

\* Nothing is offered before the registers show SimMem's state.
LEMMA OfferRegs ==
  ASSUME RegsInv, regs.ar_ready
  PROVE  regs = Outputs(readQueue, writeRespQueue, curStore)
BY DEF RegsInv, NoReg

\* A read request changes nothing SimMem has promised.
LEMMA OfferReadInv ==
  ASSUME IInv, OfferRead PROVE IInv'
<1>1. /\ ~aborted /\ regs.ar_ready /\ ar' \in ReadReqs
      /\ UNCHANGED <<simMem, regs, aw, wBeats, resets, history>>
  BY DEF OfferRead, May, ReadReqs
<1>2. UNCHANGED <<data, readQueue, writeRespQueue, curStore, aborted, regs, aw, wBeats,
                 owedReads, owedResps>>
  BY <1>1 DEF simMem, history
<1>3. TypeOK'
  BY <1>1, <1>2 DEF IInv, TypeOK
<1>4. regs = Outputs(readQueue, writeRespQueue, curStore)
  BY <1>1, OfferRegs DEF IInv
<1>5. RegsInv'
  BY <1>2, <1>4 DEF RegsInv, Outputs, readAddrReady
<1>6. Left' = Left /\ Offered' = Offered
  BY <1>2 DEF Left, Offered
<1>7. AlignInv' /\ AgreeInv'
  BY <1>1, <1>2, <1>6 DEF IInv, AlignInv, AgreeInv
<1> QED BY <1>3, <1>5, <1>7 DEF IInv

\* A write request comes with its beats, behind those of the burst in flight.
LEMMA OfferWriteInv ==
  ASSUME IInv, OfferWrite PROVE IInv'
<1>1. /\ ~aborted /\ regs.ar_ready /\ aw = None
      /\ UNCHANGED <<simMem, regs, ar, resets, history>>
  BY DEF OfferWrite, May
<1>2. UNCHANGED <<data, readQueue, writeRespQueue, curStore, aborted, regs, ar,
                 owedReads, owedResps>>
  BY <1>1 DEF simMem, history
<1>3. PICK id \in IDs, addr \in Nat, size \in {1, WordSize}, len \in Lens :
        /\ aw' = [id |-> id, addr |-> addr, size |-> size, len |-> len]
        /\ wBeats' = wBeats \o StoreBeats(addr, size, len, id)
  <2>1. PICK id \in IDs, w \in Words, len \in Lens,
             kind \in {[off |-> o, size |-> 1] : o \in Offsets}
                       \union (IF FullStores THEN {[off |-> 0, size |-> WordSize]} ELSE {}) :
          /\ aw' = [id |-> id, addr |-> w * WordSize + kind.off, size |-> kind.size,
                    len |-> len]
          /\ wBeats' = wBeats \o StoreBeats(w * WordSize + kind.off, kind.size, len, id)
    BY DEF OfferWrite
  <2>2. kind.off \in Nat /\ kind.size \in {1, WordSize}
    <3>1. CASE kind \in {[off |-> o, size |-> 1] : o \in Offsets}
      <4>1. PICK o \in Offsets : kind = [off |-> o, size |-> 1]
        BY <3>1
      <4>2. o \in Nat
        BY Constants
      <4> QED BY <4>1, <4>2
    <3>2. CASE kind = [off |-> 0, size |-> WordSize]
      BY <3>2
    <3> QED BY <3>1, <3>2
  <2>3. w * WordSize + kind.off \in Nat
    <3>1. w \in Nat
      BY Constants
    <3> QED BY <2>2, <3>1 DEF WordSize
  <2> QED BY <2>1, <2>2, <2>3
<1> DEFINE beats == StoreBeats(addr, size, len, id)
<1>4. /\ beats \in Seq(WBeats) /\ Len(beats) = len + 1
      /\ \A i \in 1 .. len + 1 : (beats[i].last <=> i = len + 1) /\ beats[i].id = id
  BY StoreBeatsFact
<1>5. wBeats' = wBeats \o beats
  BY <1>3
<1> HIDE DEF beats
<1>6. /\ wBeats' \in Seq(WBeats) /\ Len(wBeats') = Len(wBeats) + Len(beats)
      /\ \A i \in 1 .. Len(wBeats) + Len(beats) :
           wBeats'[i] = IF i <= Len(wBeats) THEN wBeats[i] ELSE beats[i - Len(wBeats)]
  <2>1. wBeats \in Seq(WBeats)
    BY DEF IInv, TypeOK
  <2> QED BY <1>4, <1>5, <2>1, ConcatProperties
<1>7. aw' \in WriteReqs
  BY <1>3 DEF WriteReqs
<1>8. TypeOK'
  BY <1>2, <1>6, <1>7 DEF IInv, TypeOK
<1>9. RegsInv'
  <2>1. regs = Outputs(readQueue, writeRespQueue, curStore)
    BY <1>1, OfferRegs DEF IInv
  <2> QED BY <1>2, <2>1 DEF RegsInv, Outputs, readAddrReady
<1>10. AlignInv'
  <2>1. Offered = 0 /\ Left' = Left /\ Left \in Nat
    BY <1>1, <1>2 DEF Offered, Left, IInv, TypeOK, Stores
  <2>2. len \in Nat /\ aw' # None
    BY <1>7, Constants
  <2>3. Offered' = len + 1 /\ aw'.id = id
    BY <1>3, <2>2 DEF Offered
  <2>4. Len(wBeats) = Left /\ Len(wBeats') = Left' + Offered'
    BY <1>1, <1>4, <1>6, <2>1, <2>3 DEF IInv, AlignInv
  <2>5. \A i \in 1 .. Left' : wBeats'[i] = wBeats[i]
    BY <1>4, <1>6, <2>1, <2>2, <2>4
  <2>6. \A i \in Left' + 1 .. Left' + Offered' :
          /\ wBeats'[i].last <=> i = Left' + Offered'
          /\ wBeats'[i].id = aw'.id
    <3> TAKE i \in Left' + 1 .. Left' + Offered'
    <3>1. /\ i - Left \in 1 .. len + 1 /\ ~(i <= Len(wBeats))
          /\ i \in 1 .. Len(wBeats) + Len(beats)
          /\ (i = Left' + Offered' <=> i - Left = len + 1)
      BY <1>4, <2>1, <2>2, <2>3, <2>4
    <3>2. wBeats'[i] = beats[i - Left]
      BY <1>6, <2>4, <3>1
    <3> QED BY <1>4, <2>3, <3>1, <3>2
  <2>7. \A i \in 1 .. Left' : /\ wBeats'[i].last <=> i = Left'
                              /\ wBeats'[i].id = curStore'.id
    BY <1>1, <1>2, <2>1, <2>5 DEF IInv, AlignInv
  <2> QED BY <1>1, <1>2, <2>4, <2>6, <2>7 DEF IInv, AlignInv
<1>11. AgreeInv'
  BY <1>1, <1>2 DEF IInv, AgreeInv
<1> QED BY <1>8, <1>9, <1>10, <1>11 DEF IInv

\* A reset that waits for what is outstanding finds nothing in SimMem.
LEMMA ResetInv ==
  ASSUME IInv, Reset, DrainedReset PROVE IInv'
<1>1. /\ ~aborted /\ owedReads = <<>> /\ owedResps = <<>> /\ wBeats = <<>> /\ aw = None
      /\ regs' = NoReg /\ ar' = None /\ aw' = None /\ wBeats' = <<>>
      /\ owedReads' = <<>> /\ owedResps' = <<>>
      /\ UNCHANGED <<data, readQueue, writeRespQueue, curStore, aborted>>
  BY DEF Reset, simMem
<1>2. /\ TypeOK /\ AlignInv /\ AgreeInv
  BY <1>1 DEF IInv
<1>3. readQueue = <<>> /\ writeRespQueue = <<>>
  BY <1>1, <1>2 DEF AgreeInv
<1>4. NoReg \in Regs
  BY DEF NoReg, Regs
<1>5. TypeOK'
  BY <1>1, <1>2, <1>4, EmptySeq DEF TypeOK
<1>6. RegsInv' /\ AgreeInv'
  BY <1>1, <1>3 DEF RegsInv, AgreeInv
<1>7. AlignInv'
  <2>1. Left' = Left /\ Offered' = Offered /\ Offered = 0
    BY <1>1 DEF Left, Offered
  <2> QED BY <1>1, <1>2, <2>1 DEF AlignInv
<1> QED BY <1>5, <1>6, <1>7 DEF IInv

\* The invariant holds at first.
LEMMA InitInv == Init => IInv
<1> SUFFICES ASSUME Init PROVE IInv
  OBVIOUS
<1>1. data \in [Words \X Lanes -> Words \union {Bus}]
  BY DEF Init
<1>2. curStore \in Stores /\ curStore.inFlight = FALSE
  BY DEF Init, Stores
<1>3. regs \in Regs
  BY DEF Init, NoReg, Regs
<1>4. TypeOK
  BY <1>1, <1>2, <1>3, EmptySeq DEF Init, TypeOK
<1>5. Left = 0 /\ Offered = 0 /\ Len(wBeats) = 0
  BY <1>2, EmptySeq DEF Init, Left, Offered
<1>6. AlignInv
  BY <1>2, <1>5 DEF AlignInv
<1>7. RegsInv /\ AgreeInv
  BY DEF Init, RegsInv, AgreeInv
<1> QED BY <1>4, <1>6, <1>7 DEF IInv

\* Every step keeps the invariant.
LEMMA NextInv == DrainedReset /\ IInv /\ [Next]_vars => IInv'
<1> SUFFICES ASSUME DrainedReset, IInv, [Next]_vars PROVE IInv'
  OBVIOUS
<1>1. CASE Tick
  BY <1>1, TickInv
<1>2. CASE Reset
  BY <1>2, ResetInv
<1>3. CASE OfferRead
  BY <1>3, OfferReadInv
<1>4. CASE OfferWrite
  BY <1>4, OfferWriteInv
<1>5. CASE UNCHANGED vars
  <2>1. UNCHANGED <<data, readQueue, writeRespQueue, curStore, aborted, regs, ar, aw,
                   wBeats, owedReads, owedResps>>
    BY <1>5 DEF vars, simMem, master, history
  <2>2. Left' = Left /\ Offered' = Offered
    BY <2>1 DEF Left, Offered
  <2>3. TypeOK'
    BY <2>1 DEF IInv, TypeOK
  <2>4. RegsInv' <=> RegsInv
    BY <2>1 DEF RegsInv, Outputs, readAddrReady
  <2> QED BY <2>1, <2>2, <2>3, <2>4 DEF IInv, AlignInv, AgreeInv
<1> QED BY <1>1, <1>2, <1>3, <1>4, <1>5 DEF Next

-----------------------------------------------------------------------------
\* If resets wait for what is outstanding, the invariant holds.
THEOREM DRAMInvariant == DrainedReset => (Spec => []IInv)
<1> SUFFICES ASSUME DrainedReset PROVE Spec => []IInv
  OBVIOUS
<1>1. IInv /\ [Next]_vars => IInv'
  BY NextInv
<1> QED BY InitInv, <1>1, PTL DEF Spec

\* The queues, registers and offers always have their types.
THEOREM TypeCorrect == DrainedReset => (Spec => []TypeOK)
<1> SUFFICES ASSUME DrainedReset PROVE Spec => []TypeOK
  OBVIOUS
<1>1. IInv => TypeOK
  BY DEF IInv
<1>2. Spec => []IInv
  BY DRAMInvariant
<1> QED BY <1>1, <1>2, PTL

\* Core and memory agree on every transfer, although the core looks at
\* registers that are one call of memory_tick old.
THEOREM TransfersAlwaysAgree == DrainedReset => (Spec => []TransfersAgree)
<1> SUFFICES ASSUME DrainedReset PROVE Spec => []TransfersAgree
  OBVIOUS
<1>1. IInv => TransfersAgree
  BY DEF IInv, AgreeInv, TransfersAgree
<1>2. Spec => []IInv
  BY DRAMInvariant
<1> QED BY <1>1, <1>2, PTL

\* The assertion on wLast never fails, and no beat is taken for one of another
\* burst.
THEOREM BurstsAlwaysAligned == DrainedReset => (Spec => []BurstsAligned)
<1> SUFFICES ASSUME DrainedReset PROVE Spec => []BurstsAligned
  OBVIOUS
<1>1. IInv => BurstsAligned
  <2> SUFFICES ASSUME IInv, curStore.inFlight, ~aborted
               PROVE  /\ curStore.count >= 1 /\ Len(wBeats) >= curStore.count
                      /\ \A i \in 1 .. curStore.count :
                           /\ wBeats[i].last <=> i = curStore.count
                           /\ wBeats[i].id = curStore.id
    BY DEF BurstsAligned
  <2>1. AlignInv /\ Left = curStore.count /\ Left \in Nat
    BY DEF IInv, Left, TypeOK, Stores
  <2>2. Offered \in Nat
    <3>1. CASE aw = None
      BY <3>1 DEF Offered
    <3>2. CASE aw # None
      <4>1. aw.len \in Lens
        BY <3>2 DEF IInv, TypeOK, WriteReqs
      <4>2. aw.len \in Nat
        BY <4>1, Constants
      <4> QED BY <3>2, <4>2 DEF Offered
    <3> QED BY <3>1, <3>2
  <2> QED BY <2>1, <2>2 DEF AlignInv
<1>2. Spec => []IInv
  BY DRAMInvariant
<1> QED BY <1>1, <1>2, PTL
=============================================================================
