------------------------------ MODULE FakeDRAM ------------------------------
(***************************************************************************)
(* The memory behind the simulated core: SimMem (dpi/SimMem.cc), the       *)
(* Verilog wrapper that calls it once per clock edge and registers its     *)
(* outputs (FakeDRAM.v), and an AXI master that keeps the protocol.        *)
(*                                                                         *)
(* The master believes in the registered outputs, SimMem acts on its own   *)
(* state: each side decides by itself which transfers take place.          *)
(***************************************************************************)
EXTENDS Integers, Sequences

CONSTANTS
  NumWords,      \* memory size in words
  IDs,           \* AXI transaction ids
  Lens,          \* burst lengths minus one (AxLEN)
  Offsets,       \* byte offsets of narrow stores
  FullStores,    \* does the master store full words?
  DrainedReset,  \* does a reset wait for outstanding transfers?
  MaxTraffic,    \* bound: transactions in a behaviour
  MaxResets,     \* bound: resets in a behaviour
  None           \* no offer on a channel

WordSize == 8    \* DRAM_WSIZE
MaxStrb  == 64   \* sizeof(uint64_t) * 8
Words    == 0 .. NumWords - 1
Lanes    == 0 .. WordSize - 1
Bus      == NumWords   \* a byte that came over the bus

\* What the master may offer on AR and AW.
ReadReqs  == [id : IDs, word : Words, len : Lens]
WriteReqs == [id : IDs, addr : Nat, size : {1, WordSize}, len : Lens]

ASSUME DRAMAssumption ==
  /\ NumWords \in Nat \ {0}
  /\ Lens \subseteq Nat
  /\ Offsets \subseteq Lanes
  /\ FullStores \in BOOLEAN /\ DrainedReset \in BOOLEAN
  /\ MaxTraffic \in Nat /\ MaxResets \in Nat
  /\ None \notin ReadReqs \union WriteReqs

VARIABLES
  data,           \* the bytes: [Words \X Lanes -> Words \union {Bus}], at
                  \* first every byte is the number of its word
  readQueue,      \* read beats to deliver
  writeRespQueue, \* ids of the stores to acknowledge
  curStore,       \* the burst being stored
  aborted,        \* an assertion of SimMem failed
  regs,           \* the wrapper's registered outputs
  ar, aw, wBeats, \* what the master offers on AR and AW, the beats it owes on W
  traffic, resets,\* bounds
  owedReads,      \* history: read beats the master is waiting for, in order
  owedResps,      \* history: ids of the bursts it sent in full, in order
  stored          \* history: the memory as the master means it to be

simMem == <<data, readQueue, writeRespQueue, curStore, aborted>>
master == <<ar, aw, wBeats>>
bounds == <<traffic, resets>>
history == <<owedReads, owedResps, stored>>
vars == <<simMem, regs, master, bounds, history>>

(***************************************************************************)
(* SimMem's signals                                                        *)
(***************************************************************************)
writeAddrReady     == ~curStore.inFlight
writeDataReady     == curStore.inFlight
writeResponseValid == writeRespQueue # <<>>
readAddrReady      == TRUE
readDataValid      == readQueue # <<>>

NoBeat == [id |-> 0, data |-> <<>>, last |-> FALSE]
NoReg  == [ar_ready |-> FALSE, aw_ready |-> FALSE, w_ready |-> FALSE,
           r_valid |-> FALSE, r |-> NoBeat, b_valid |-> FALSE, b_id |-> 0]

\* Mutant of Outputs: taken before the tick.
Outputs_early(q, respq, store) ==
  [ar_ready |-> readAddrReady, aw_ready |-> writeAddrReady, w_ready |-> writeDataReady,
   r_valid |-> readDataValid, r |-> IF readDataValid THEN Head(readQueue) ELSE NoBeat,
   b_valid |-> writeResponseValid,
   b_id |-> IF writeResponseValid THEN Head(writeRespQueue) ELSE 0]

\* What memory_tick hands to the wrapper after a tick.
Outputs(q, respq, store) ==
  [ar_ready |-> readAddrReady,
   aw_ready |-> ~store.inFlight,
   w_ready  |-> store.inFlight,
   r_valid  |-> q # <<>>,
   r        |-> IF q # <<>> THEN Head(q) ELSE NoBeat,
   b_valid  |-> respq # <<>>,
   b_id     |-> IF respq # <<>> THEN Head(respq) ELSE 0]

(***************************************************************************)
(* Memory                                                                  *)
(***************************************************************************)
ReadWord(w) == [l \in Lanes |-> data[<<w % NumWords, l>>]]

\* The beats of a read burst that starts at word w.
ReadBeats(req) ==
  [i \in 1 .. req.len + 1 |->
     [id |-> req.id, data |-> ReadWord(req.word + i - 1), last |-> i = req.len + 1]]

\* The strobe of a single lane, and the lanes of a number's bits.
OneHot == [l \in Lanes |-> <<1, 2, 4, 8, 16, 32, 64, 128>>[l + 1]]
Bits(n) == {l \in Lanes : (n \div OneHot[l]) % 2 = 1}

\* SimMem::write(dst, src, size, strb): the lanes the strobe may be cut down to.
\* The mask is computed in an int: a shift by 32 or more is undefined, and
\* gives what the processor makes of it (the count modulo 32) or no cut.
StrobeMasks(dst, size) ==
  LET from(n) == (dst % WordSize) .. (dst % WordSize) + n - 1
  IN  IF size = MaxStrb THEN {Lanes}
      ELSE IF size < 32 THEN {from(size)}
      ELSE {from(size % 32), Lanes}

\* It copies base[i] = data[i]: the bytes come from the start of the memory.
Write(dst, lanes) ==
  LET w == (dst \div WordSize) % NumWords
  IN  [p \in Words \X Lanes |->
         IF p[1] = w /\ p[2] \in lanes THEN data[<<0, p[2]>>] ELSE data[p]]

(***************************************************************************)
(* One clock edge out of reset: FakeDRAM.v calls memory_tick, which calls  *)
(* SimMem::tick.  All fire conditions are taken before any effect.         *)
(***************************************************************************)
Beat == Head(wBeats)

\* Mutant of TickStores: AxLEN is taken for the number of beats.
TickStores_short(wFire, awFire) ==
  LET size  == curStore.size
      count == curStore.count - 1
  IN  CASE wFire ->
             /\ aborted' = (Beat.strb > MaxStrb \/ (count = 0 /\ ~Beat.last))
             /\ IF Beat.strb > MaxStrb
                THEN UNCHANGED data
                ELSE \E mask \in StrobeMasks(curStore.addr, Beat.strb) :
                       data' = Write(curStore.addr, Bits(size) \cap mask)
             /\ curStore' = [curStore EXCEPT !.addr = @ + size, !.count = count,
                                             !.inFlight = count # 0]
        [] ~wFire /\ awFire ->
             /\ curStore' = [inFlight |-> TRUE, addr |-> aw.addr, id |-> aw.id,
                             size |-> aw.size, count |-> aw.len]
             /\ UNCHANGED <<data, aborted>>
        [] OTHER -> UNCHANGED <<data, aborted, curStore>>

\* Mutant of TickStores: the burst is never closed.
TickStores_open(wFire, awFire) ==
  LET size  == curStore.size
      count == curStore.count - 1
  IN  CASE wFire ->
             /\ aborted' = (Beat.strb > MaxStrb \/ (count = 0 /\ ~Beat.last))
             /\ IF Beat.strb > MaxStrb
                THEN UNCHANGED data
                ELSE \E mask \in StrobeMasks(curStore.addr, Beat.strb) :
                       data' = Write(curStore.addr, Bits(size) \cap mask)
             /\ curStore' = [curStore EXCEPT !.addr = @ + size, !.count = count]
        [] ~wFire /\ awFire ->
             /\ curStore' = [inFlight |-> TRUE, addr |-> aw.addr, id |-> aw.id,
                             size |-> aw.size, count |-> aw.len + 1]
             /\ UNCHANGED <<data, aborted>>
        [] OTHER -> UNCHANGED <<data, aborted, curStore>>

TickStores(wFire, awFire) ==
  LET size  == curStore.size
      count == curStore.count - 1
  IN  CASE wFire ->
             \* tick passes (addr, wData, wStrb, size) for (dst, src, size, strb)
             /\ aborted' = (Beat.strb > MaxStrb \/ (count = 0 /\ ~Beat.last))
             /\ IF Beat.strb > MaxStrb
                THEN UNCHANGED data
                ELSE \E mask \in StrobeMasks(curStore.addr, Beat.strb) :
                       data' = Write(curStore.addr, Bits(size) \cap mask)
             /\ curStore' = [curStore EXCEPT !.addr = @ + size, !.count = count,
                                             !.inFlight = count # 0]
        [] ~wFire /\ awFire ->
             /\ curStore' = [inFlight |-> TRUE, addr |-> aw.addr, id |-> aw.id,
                             size |-> aw.size, count |-> aw.len + 1]
             /\ UNCHANGED <<data, aborted>>
        [] OTHER -> UNCHANGED <<data, aborted, curStore>>

\* What the master sees of the same edge.
MasterEdge(rReady, bReady) ==
  LET arDone == ar # None /\ regs.ar_ready
      awDone == aw # None /\ regs.aw_ready
      wDone  == wBeats # <<>> /\ regs.w_ready
      rDone  == regs.r_valid /\ rReady
      bDone  == regs.b_valid /\ bReady
  IN  /\ ar' = IF arDone THEN None ELSE ar
      /\ aw' = IF awDone THEN None ELSE aw
      /\ wBeats' = IF wDone THEN Tail(wBeats) ELSE wBeats
      /\ owedReads' = (IF rDone THEN Tail(owedReads) ELSE owedReads)
                        \o (IF arDone THEN ReadBeats(ar) ELSE <<>>)
      /\ owedResps' = (IF bDone THEN Tail(owedResps) ELSE owedResps)
                        \o (IF wDone /\ Beat.last THEN <<Beat.id>> ELSE <<>>)
      /\ stored' = IF wDone
                   THEN [p \in Words \X Lanes |->
                           IF p[1] = Beat.word /\ p[2] \in Bits(Beat.strb)
                           THEN Bus ELSE stored[p]]
                   ELSE stored

Tick ==
  /\ ~aborted
  /\ \E rReady, bReady \in BOOLEAN :
       LET arFire == ar # None /\ readAddrReady
           awFire == aw # None /\ writeAddrReady
           wFire  == wBeats # <<>> /\ writeDataReady
           rFire  == readDataValid /\ rReady
           bFire  == writeResponseValid /\ bReady
           pushedReads == readQueue \o (IF arFire THEN ReadBeats(ar) ELSE <<>>)
           pushedResps == writeRespQueue
                            \o (IF wFire /\ curStore.count = 1 THEN <<curStore.id>> ELSE <<>>)
       IN /\ TickStores(wFire, awFire)
          /\ readQueue' = IF rFire THEN Tail(pushedReads) ELSE pushedReads
          /\ writeRespQueue' = IF bFire THEN Tail(pushedResps) ELSE pushedResps
          /\ regs' = Outputs(readQueue', writeRespQueue', curStore')
          /\ MasterEdge(rReady, bReady)
  /\ UNCHANGED bounds

\* While reset is high the wrapper clears its registers and does not call
\* SimMem, which keeps its queues and its burst; the core drops its offers.
Reset ==
  /\ ~aborted /\ resets < MaxResets
  /\ DrainedReset => owedReads = <<>> /\ owedResps = <<>> /\ wBeats = <<>> /\ aw = None
  /\ regs' = NoReg
  /\ ar' = None /\ aw' = None /\ wBeats' = <<>>
  /\ owedReads' = <<>> /\ owedResps' = <<>>
  /\ resets' = resets + 1
  /\ UNCHANGED <<simMem, traffic, stored>>

(***************************************************************************)
(* The master offers a transfer and holds it until the handshake; it does  *)
(* not offer at the first edge after reset.                                *)
(***************************************************************************)
May == ~aborted /\ traffic < MaxTraffic /\ regs.ar_ready

OfferRead ==
  /\ May /\ ar = None
  /\ \E id \in IDs, w \in Words, len \in Lens :
       ar' = [id |-> id, word |-> w, len |-> len]
  /\ traffic' = traffic + 1
  /\ UNCHANGED <<simMem, regs, aw, wBeats, resets, history>>

\* A narrow store writes one byte per beat, a full store whole words.
StoreBeats(addr, size, len, id) ==
  [i \in 1 .. len + 1 |->
     LET a == addr + (i - 1) * size
     IN [word |-> (a \div WordSize) % NumWords, id |-> id, last |-> i = len + 1,
         strb |-> IF size = WordSize THEN 255 ELSE OneHot[a % WordSize]]]

OfferWrite ==
  /\ May /\ aw = None
  /\ \E id \in IDs, w \in Words, len \in Lens,
        kind \in {[off |-> o, size |-> 1] : o \in Offsets}
                   \union (IF FullStores THEN {[off |-> 0, size |-> WordSize]} ELSE {}) :
       LET addr == w * WordSize + kind.off
       IN /\ aw' = [id |-> id, addr |-> addr, size |-> kind.size, len |-> len]
          /\ wBeats' = wBeats \o StoreBeats(addr, kind.size, len, id)
  /\ traffic' = traffic + 1
  /\ UNCHANGED <<simMem, regs, ar, resets, history>>

Init ==
  /\ data = [p \in Words \X Lanes |-> p[1]]
  /\ readQueue = <<>> /\ writeRespQueue = <<>>
  /\ curStore = [inFlight |-> FALSE, addr |-> 0, id |-> 0, size |-> 0, count |-> 0]
  /\ aborted = FALSE
  /\ regs = NoReg
  /\ ar = None /\ aw = None /\ wBeats = <<>>
  /\ traffic = 0 /\ resets = 0
  /\ owedReads = <<>> /\ owedResps = <<>>
  /\ stored = [p \in Words \X Lanes |-> p[1]]

Next == Tick \/ Reset \/ OfferRead \/ OfferWrite

Spec == Init /\ [][Next]_vars
-----------------------------------------------------------------------------
\* Type invariant.
Beats  == [id : IDs, data : [Lanes -> Words \union {Bus}], last : BOOLEAN]
WBeats == [word : Words, id : IDs, last : BOOLEAN, strb : Nat]
Stores == [inFlight : BOOLEAN, addr : Nat, id : IDs \union {0}, size : Nat, count : Nat]
Regs   == [ar_ready : BOOLEAN, aw_ready : BOOLEAN, w_ready : BOOLEAN,
           r_valid : BOOLEAN, r : Beats \union {NoBeat},
           b_valid : BOOLEAN, b_id : IDs \union {0}]

TypeOK ==
  /\ data \in [Words \X Lanes -> Words \union {Bus}]
  /\ readQueue \in Seq(Beats)
  /\ writeRespQueue \in Seq(IDs)
  /\ curStore \in Stores
  /\ aborted \in BOOLEAN
  /\ regs \in Regs
  /\ ar \in ReadReqs \union {None}
  /\ aw \in WriteReqs \union {None}
  /\ wBeats \in Seq(WBeats)

\* Both sides of every channel agree, cycle by cycle, on whether a transfer
\* takes place, although the master looks at registers that are one call of
\* memory_tick old: each read beat is delivered once, in order, with the
\* contents of the memory when the read was accepted, each burst
\* acknowledged once.
TransfersAgree ==
  ~aborted => owedReads = readQueue /\ owedResps = writeRespQueue

\* SimMem's count runs out with the beat the master marks as the last: the
\* assertion on wLast holds, and no beat is taken for another burst.
BurstsAligned ==
  curStore.inFlight /\ ~aborted =>
    /\ curStore.count >= 1
    /\ Len(wBeats) >= curStore.count
    /\ \A i \in 1 .. curStore.count :
         /\ wBeats[i].last <=> i = curStore.count
         /\ wBeats[i].id = curStore.id

\* "Write the content of src into dst, using strb as strobe" (SimMem.cc:39):
\* the memory holds what the master stored.
StoresReachMemory == ~aborted => data = stored

\* "Go to initial state" (main.cc:165): out of reset the memory owes nothing.
ResetDrops == regs = NoReg => readQueue = <<>> /\ writeRespQueue = <<>> /\ ~curStore.inFlight
=============================================================================
