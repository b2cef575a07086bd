----------------------------- MODULE FecReceiver -----------------------------
(***************************************************************************)
(* The receiver of receivedata.c with forward error correction: the        *)
(* network thread that files data and FEC blocks into slices, the FEC      *)
(* thread that repairs and cleans up finished slices, and the writer that  *)
(* empties the data buffer.  The two first share the states of the slices, *)
(* the queue of free slices, the queue of finished slices and the          *)
(* reservoir of block spaces, without a lock of their own.                 *)
(*                                                                         *)
(* Memory is counted in blocks; a block is one symbol of the field of      *)
(* FecCode.  Slices 0..LastSlice are sent; the last one is empty and marks *)
(* the end.  The sender starts slice n + Window when slice n was           *)
(* acknowledged, or at any time in asynchronous mode.                      *)
(***************************************************************************)
EXTENDS FecCode

CONSTANTS
  NrSlices,      \* NR_SLICES: slots for slices
  LastSlice,     \* number of the empty slice that ends the transmission
  SliceBlocks,   \* data blocks of a slice
  MAX_SLICE_SIZE,\* data memory, in blocks, that a new slice waits for
  Stripes,       \* FEC groups of a slice
  Redundancy,    \* FEC blocks of a group
  NR_BLOCKS,     \* block spaces for FEC blocks
  Memory,        \* data buffer, in blocks
  Window,        \* slices in flight: 1 half duplex, 2 full duplex
  Modes,         \* which of synchronous (FALSE) and asynchronous (TRUE) to try
  FecInOrder     \* FEC blocks do not arrive after blocks of a later slice

ASSUME ReceiverAssumption ==
  /\ NrSlices \in Nat \ {0} /\ LastSlice \in Nat \ {0} /\ SliceBlocks \in Nat \ {0, 1}
  /\ MAX_SLICE_SIZE \in Nat /\ MAX_SLICE_SIZE >= SliceBlocks
  /\ Memory \in Nat /\ Memory >= MAX_SLICE_SIZE
  /\ Stripes \in Nat \ {0} /\ Redundancy \in Nat \ {0} /\ NR_BLOCKS \in Nat \ {0}
  /\ SliceBlocks <= HIGH * Stripes /\ Redundancy <= HIGH
  /\ Window \in {1, 2} /\ Modes \subseteq BOOLEAN /\ FecInOrder \in BOOLEAN

VARIABLES
  slices,      \* the slots
  current,     \* slot of the slice begun last; its number is currentSliceNo
  receivedPtr, receivedSliceNo,   \* first slot not finished, last slice finished
  use_fec,
  freeSlices,  \* amount in free_slices_pc
  freePos,     \* its producer position: the next slot to clean up
  fecQueue,    \* slots in fec_data_pc
  freeBlocks, local, nextBlock,   \* reservoir, local stack, space for the next block
  heap,        \* what the block spaces in use hold
  freeMem, data, out,  \* free memory, blocks not yet written, slices handed over
  endReached,
  netPc, netMsg, netPos,   \* network thread: where it is, with which message
  seenDone,    \* it has found the slot at netPos neither FEC nor FEC_DONE, but DONE
  fecPc, fecSlot,          \* FEC thread
  async, top, acked        \* the sender's side

net == <<netPc, netMsg, netPos, seenDone>>
fecThread == <<fecPc, fecSlot>>
spaces == <<freeBlocks, local, nextBlock, heap>>
memory == <<freeMem, data, out>>
sender == <<async, top, acked>>
vars == <<slices, current, receivedPtr, receivedSliceNo, use_fec, freeSlices, freePos,
          fecQueue, spaces, memory, endReached, net, fecThread, sender>>

-----------------------------------------------------------------------------
(* Data and messages *)

Slots == 0..NrSlices - 1
NextSlotMutant(p) == p + 1
NextSlot(p) == (p + 1) % NrSlices
Groups == 0..Stripes - 1

\* Data blocks of slice n: the last but one is short, the last empty.
BlocksIn(n) == IF n = LastSlice THEN 0
               ELSE IF n = LastSlice - 1 THEN SliceBlocks - 1 ELSE SliceBlocks

Content(n, b) == (3 * n + 2 * b + 1) % (GF_SIZE + 1)

\* Data blocks of a slice in group g, and their place in the group.
GroupSize(n, g) == Cardinality({b \in 0..BlocksIn(n) - 1 : b % Stripes = g})
GroupData(mem, n, g) == [j \in 0..GroupSize(n, g) - 1 |-> mem[j * Stripes + g]]

\* fec_encode_all_stripes: what FEC block f of slice n holds.
Parity(n, f) ==
  LET g == f % Stripes
      original == [b \in 0..BlocksIn(n) - 1 |-> Content(n, b)]
  IN  fec_encode(GroupData(original, n, g), GroupSize(n, g), f \div Stripes)

DataMsg(n) == {[type |-> "data", sliceNo |-> n, block |-> b] : b \in 0..BlocksIn(n) - 1}
FecMsg(n) == {[type |-> "fec", sliceNo |-> n, block |-> f] : f \in 0..Stripes * Redundancy - 1}
ReqAckMsg(n) == {[type |-> "reqack", sliceNo |-> n, block |-> 0]}

Messages == UNION {DataMsg(n) \cup FecMsg(n) \cup ReqAckMsg(n) : n \in 0..LastSlice}
NoMsg == [type |-> "none", sliceNo |-> 0, block |-> 0]

\* What may arrive: any block of a slice that was begun, at any time and any
\* number of times.  Empty FEC blocks exist in asynchronous mode only, requests
\* for acknowledgement in the other only (transmitFecBlock, sendReqack).
OnTheWire ==
  UNION {DataMsg(n)
         \cup (IF (BlocksIn(n) = 0 /\ ~async) \/ (FecInOrder /\ n < slices[current].sliceNo)
               THEN {} ELSE FecMsg(n))
         \cup (IF async THEN {} ELSE ReqAckMsg(n)) : n \in 0..top}

-----------------------------------------------------------------------------
(* Slices *)

NoFec == [g \in Groups |-> <<>>]
NoMissing == [g \in Groups |-> 0]
NoMem == [b \in 0..SliceBlocks - 1 |-> 0]

FreeSlot == [state |-> "FREE", sliceNo |-> -1, bytesKnown |-> FALSE, map |-> {},
             blocksTransferred |-> 0, dataBlocksTransferred |-> 0, mem |-> NoMem,
             fec_stripes |-> FALSE, missing |-> NoMissing, fec |-> NoFec]

\* initSlice: a slot in use for slice n.
FreshSlice(n) == [FreeSlot EXCEPT !.state = "RECEIVING", !.sliceNo = n]

\* A slot given back.  What nothing reads before initSlice clears it is left out.
Released(s) == [FreeSlot EXCEPT !.sliceNo = s.sliceNo, !.bytesKnown = s.bytesKnown,
                                !.blocksTransferred = s.blocksTransferred,
                                !.dataBlocksTransferred = s.dataBlocksTransferred]

Unset(s) == 0..BlocksIn(s.sliceNo) - 1 \ s.map
UnsetIn(s, g) == {b \in Unset(s) : b % Stripes = g}

\* initSliceForFec: the data blocks each group misses.
WithFec(s) == IF s.fec_stripes THEN s
              ELSE [s EXCEPT !.fec_stripes = TRUE, !.fec = NoFec,
                             !.missing = [g \in Groups |-> Cardinality(UnsetIn(s, g))]]

CurrentNo == slices[current].sliceNo
Finished == {"DONE", "FEC", "FEC_DONE"}
Complete(s) == BlocksIn(s.sliceNo) = s.blocksTransferred

Init ==
  /\ slices = [p \in Slots |-> IF p = 0 THEN FreshSlice(0) ELSE FreeSlot]
  /\ current = 0 /\ receivedPtr = 0 /\ receivedSliceNo = -1 /\ use_fec = FALSE
  /\ freeSlices = NrSlices - 1 /\ freePos = 0 /\ fecQueue = <<>>
  /\ freeBlocks = 2..NR_BLOCKS /\ local = <<>> /\ nextBlock = 1
  /\ heap = [i \in 1..NR_BLOCKS |-> 0]
  /\ freeMem = Memory /\ data = 0 /\ out = <<>> /\ endReached = 0
  /\ netPc = "dispatch" /\ netMsg = NoMsg /\ netPos = 0 /\ seenDone = FALSE
  /\ fecPc = "absent" /\ fecSlot = 0
  /\ async \in Modes /\ top = 0 /\ acked = {}

-----------------------------------------------------------------------------
(* The network thread *)

\* The walk that starts one slot too far back.
FoundMutant(n) == {p \in Slots \ {current} : slices[p].sliceNo = n}

\* findSlice for a number not above the current one walks back from the current
\* slot: the slot that has the number, none when a free slot comes first.  While
\* neither is met it goes round.
Back(p) == (current + NrSlices - p) % NrSlices
FreeOnes == {p \in Slots : slices[p].state = "FREE"}
Found(n) == {p \in Slots : /\ slices[p].sliceNo = n
                           /\ \A q \in FreeOnes : Back(q) >= Back(p)}

\* findSlice for the next number: the slice before must be at most one behind.
Follows(n) == n <= receivedSliceNo + 2 /\ n = CurrentNo + 1

\* newSlice needs a free slot and memory for the largest slice.
SliceAvailable == freeSlices > 0 /\ freeMem >= MAX_SLICE_SIZE

\* processFecBlock takes a new block space for each block it keeps.
Useful(s, m) ==
  LET t == WithFec(s)
      g == m.block % Stripes
  IN  /\ m.type = "fec" /\ s.state \in {"RECEIVING", "FEC_DONE"}
      /\ t.missing[g] > Len(t.fec[g])
      /\ \A i \in DOMAIN t.fec[g] : t.fec[g][i].no # m.block

SpaceAvailable == local # <<>> \/ freeBlocks # {}

\* The call that handles m returns without waiting for another thread.
Ready(m) ==
  IF m.sliceNo > CurrentNo
  THEN Follows(m.sliceNo) =>
         /\ SliceAvailable
         /\ Useful(FreshSlice(m.sliceNo), m) => SpaceAvailable
  ELSE IF Found(m.sliceNo) = {} THEN FreeOnes # {}
  ELSE \A p \in Found(m.sliceNo) : Useful(slices[p], m) => SpaceAvailable

\* Memory taken for every block, known or not.
MemoryTakenMutant(s) == BlocksIn(s.sliceNo)

\* setSliceBytes: the memory of the slice is taken when its size is known.
WithBytes(s) == [s EXCEPT !.bytesKnown = TRUE]
MemoryTaken(s) == IF s.bytesKnown THEN 0 ELSE BlocksIn(s.sliceNo)

\* A FEC block too many, the data block not yet counted.
SurplusMutant(s, g) == s.fec_stripes /\ s.missing[g] < Len(s.fec[g])

\* processDataBlock for a block the slice lacks.  A FEC block too many goes to
\* the local stack.
Surplus(s, g) == s.fec_stripes /\ s.missing[g] - 1 < Len(s.fec[g])

WithData(s, b) ==
  LET g == b % Stripes
      t == [WithBytes(s) EXCEPT !.map = @ \cup {b}, !.mem[b] = Content(s.sliceNo, b),
                                !.dataBlocksTransferred = @ + 1,
                                !.missing[g] = IF s.fec_stripes THEN @ - 1 ELSE @]
  IN  IF Surplus(s, g) THEN [t EXCEPT !.fec[g] = Front(@)]
      ELSE [t EXCEPT !.blocksTransferred = @ + 1]

\* The block space is forgotten.
FreedByDataMutant(s, b) == <<>>

FreedByData(s, b) ==
  IF Surplus(s, b % Stripes) THEN <<Last(s.fec[b % Stripes]).adr>> ELSE <<>>

\* processFecBlock for a block the slice keeps.
WithParity(s, f) ==
  [WithFec(WithBytes(s)) EXCEPT !.fec[f % Stripes] = Append(@, [no |-> f, adr |-> nextBlock]),
                                !.blocksTransferred = @ + 1]

\* checkSliceComplete, up to advanceReceivedPointer.
Checked(s) ==
  IF s.state # "RECEIVING" \/ ~Complete(s) THEN s
  ELSE [s EXCEPT !.state = IF s.dataBlocksTransferred = BlocksIn(s.sliceNo)
                           THEN "DONE" ELSE "FEC"]

\* Where the handler of m goes on when slot p holds s after the check: through
\* advanceReceivedPointer for checkSliceComplete, then once more for the
\* handlers that call it themselves.
Continue(p, s, m, checks, advances) ==
  /\ slices' = [slices EXCEPT ![p] = IF checks THEN Checked(s) ELSE s]
  /\ IF checks /\ Checked(s).state # s.state
     THEN netPc' = "complete" /\ netPos' = receivedPtr /\ netMsg' = m
     ELSE IF advances THEN netPc' = "advance" /\ netPos' = receivedPtr /\ netMsg' = m
     ELSE netPc' = "dispatch" /\ netPos' = 0 /\ netMsg' = NoMsg

\* processDataBlock with s in slot p.
ProcessData(m, p, s) ==
  /\ IF s.state = "RECEIVING" /\ m.block \notin s.map
     THEN /\ Continue(p, WithData(s, m.block), m, TRUE, FALSE)
          /\ local' = local \o FreedByData(s, m.block)
          /\ heap' = [i \in DOMAIN heap |-> IF i \in Range(FreedByData(s, m.block))
                                            THEN 0 ELSE heap[i]]
          /\ freeMem' = freeMem - MemoryTaken(s)
     ELSE Continue(p, s, m, FALSE, FALSE) /\ UNCHANGED <<local, heap, freeMem>>
  /\ UNCHANGED <<freeBlocks, nextBlock, use_fec, fecPc, acked>>

\* processFecBlock with s in slot p: the first one starts the FEC thread.
ProcessFec(m, p, s) ==
  /\ IF s.state \in {"FREE", "DONE", "FEC"}
     THEN Continue(p, s, m, FALSE, FALSE) /\ UNCHANGED <<spaces, freeMem, use_fec, fecPc>>
     ELSE LET t == WithFec(WithBytes(s))
              g == m.block % Stripes
          IN  /\ freeMem' = freeMem - MemoryTaken(s)
              /\ use_fec' = TRUE
              /\ fecPc' = IF use_fec THEN fecPc ELSE "wait"
              /\ IF Useful(s, m)
                 THEN /\ Continue(p, WithParity(s, m.block), m, TRUE, TRUE)
                      /\ heap' = [heap EXCEPT ![nextBlock] = Parity(s.sliceNo, m.block)]
                      /\ IF local # <<>>
                         THEN /\ nextBlock' = Last(local) /\ local' = Front(local)
                              /\ UNCHANGED freeBlocks
                         ELSE /\ nextBlock' = Min(freeBlocks)
                              /\ freeBlocks' = freeBlocks \ {nextBlock'}
                              /\ UNCHANGED local
                 ELSE LET useless == t.missing[g] <= Len(t.fec[g])
                      IN  Continue(p, t, m, useless, useless) /\ UNCHANGED spaces
  /\ UNCHANGED acked

\* Every request is answered with an OK.
ProcessReqAckMutant(m, p, s) ==
  /\ acked' = acked \cup {m.sliceNo}
  /\ Continue(p, WithBytes(s), m, TRUE, TRUE)
  /\ freeMem' = freeMem - MemoryTaken(s)
  /\ UNCHANGED <<spaces, use_fec, fecPc>>

\* processReqAck with s in slot p: an answer, then the check the empty slice needs.
ProcessReqAck(m, p, s) ==
  /\ acked' = IF Complete(s) THEN acked \cup {m.sliceNo} ELSE acked
  /\ Continue(p, WithBytes(s), m, TRUE, TRUE)
  /\ freeMem' = freeMem - MemoryTaken(s)
  /\ UNCHANGED <<spaces, use_fec, fecPc>>

Process(m, p, s) ==
  \/ m.type = "data" /\ ProcessData(m, p, s)
  \/ m.type = "fec" /\ ProcessFec(m, p, s)
  \/ m.type = "reqack" /\ ProcessReqAck(m, p, s)

\* The free slot is not taken from the queue.
BeginSliceMutant(m) ==
  LET p == NextSlot(current)
  IN  current' = p /\ Process(m, p, FreshSlice(m.sliceNo)) /\ UNCHANGED freeSlices

\* The next slice is begun in the next slot.
BeginSlice(m) ==
  LET p == NextSlot(current)
  IN  /\ current' = p /\ freeSlices' = freeSlices - 1
      /\ Process(m, p, FreshSlice(m.sliceNo))

\* A message for a slice whose slot is free again: the requests are answered.
OldSlice(m) ==
  /\ acked' = IF m.type = "reqack" THEN acked \cup {m.sliceNo} ELSE acked
  /\ netPc' = "dispatch" /\ netPos' = 0 /\ netMsg' = NoMsg
  /\ UNCHANGED <<slices, spaces, freeMem, use_fec, fecPc>>

\* The process ends: dropped by the sender, or the size of the slice before is
\* not known.
Exit(m) ==
  /\ netPc' = "exit" /\ netMsg' = m /\ netPos' = 0
  /\ UNCHANGED <<slices, current, freeSlices, spaces, freeMem, use_fec, fecPc, acked>>

Handle(m) ==
  /\ Ready(m)
  /\ \/ /\ m.sliceNo > CurrentNo
        /\ IF Follows(m.sliceNo) /\ slices[current].bytesKnown THEN BeginSlice(m) ELSE Exit(m)
     \/ /\ m.sliceNo <= CurrentNo
        /\ \/ Found(m.sliceNo) = {} /\ OldSlice(m)
           \/ \E p \in Found(m.sliceNo) : Process(m, p, slices[p])
        /\ UNCHANGED <<current, freeSlices>>
  /\ UNCHANGED <<receivedPtr, receivedSliceNo, freePos, fecQueue, data, out, endReached,
                 seenDone, fecSlot, async, top>>

\* dispatchMessage: a message is handled at once, or waits for another thread.
Receive ==
  /\ netPc = "dispatch" /\ endReached < 3
  /\ \E m \in OnTheWire :
       \/ Handle(m)
       \/ /\ ~Ready(m) /\ netPc' = "find" /\ netMsg' = m /\ netPos' = 0
          /\ UNCHANGED <<slices, current, receivedPtr, receivedSliceNo, use_fec, freeSlices,
                         freePos, fecQueue, spaces, memory, endReached, seenDone, fecThread,
                         sender>>

Resume == netPc = "find" /\ Handle(netMsg)

\* The slice is handed to the FEC thread after each walk.
AfterAdvanceTwice ==
  LET completed == CHOOSE p \in Slots : slices[p].sliceNo = netMsg.sliceNo
  IN  /\ fecQueue' = IF use_fec THEN Append(fecQueue, completed) ELSE fecQueue
      /\ IF ~use_fec THEN netPc' = "clean" /\ UNCHANGED <<netMsg, netPos>>
         ELSE IF netPc = "complete" /\ netMsg.type # "data"
              THEN netPc' = "advance" /\ netPos' = receivedPtr' /\ UNCHANGED netMsg
         ELSE netPc' = "dispatch" /\ netPos' = 0 /\ netMsg' = NoMsg

\* What follows the walk of advanceReceivedPointer: checkSliceComplete hands the
\* slice to the FEC thread if there is one, else it cleans up, as do the handlers
\* that call advanceReceivedPointer themselves.
AfterAdvance ==
  LET completed == CHOOSE p \in Slots : slices[p].sliceNo = netMsg.sliceNo
  IN  /\ fecQueue' = IF netPc = "complete" /\ use_fec THEN Append(fecQueue, completed)
                     ELSE fecQueue
      /\ IF ~use_fec THEN netPc' = "clean" /\ UNCHANGED <<netMsg, netPos>>
         ELSE IF netPc = "complete" /\ netMsg.type # "data"
              THEN netPc' = "advance" /\ netPos' = receivedPtr' /\ UNCHANGED netMsg
         ELSE netPc' = "dispatch" /\ netPos' = 0 /\ netMsg' = NoMsg

\* advanceReceivedPointer reads the state of a slot, which is volatile, up to three
\* times: it compares it with FEC, then with FEC_DONE, then with DONE.  The FEC
\* thread may step in before the last comparison.
SeeDone ==
  /\ netPc \in {"complete", "advance"} /\ ~seenDone /\ slices[netPos].state = "DONE"
  /\ seenDone' = TRUE
  /\ UNCHANGED <<slices, current, receivedPtr, receivedSliceNo, use_fec, freeSlices, freePos,
                 fecQueue, spaces, memory, endReached, netPc, netMsg, netPos, fecThread, sender>>

\* The walk goes on to the next slot, or stops, also at a slot that has become
\* FEC_DONE after it was seen to be DONE.
AdvanceStep ==
  /\ netPc \in {"complete", "advance"} /\ seenDone' = FALSE
  /\ IF slices[netPos].state \in IF seenDone THEN {"DONE"} ELSE Finished
     THEN /\ receivedSliceNo' = slices[netPos].sliceNo /\ netPos' = NextSlot(netPos)
          /\ UNCHANGED <<receivedPtr, fecQueue, netPc, netMsg>>
     ELSE receivedPtr' = netPos /\ AfterAdvance /\ UNCHANGED receivedSliceNo
  /\ UNCHANGED <<slices, current, use_fec, freeSlices, freePos, spaces, memory, endReached,
                 fecThread, sender>>

\* cleanupSlices hands the slice in the next slot over to the writer.
CleanOne ==
  LET s == slices[freePos]
  IN  /\ out' = Append(out, [sliceNo |-> s.sliceNo,
                             content |-> [b \in 0..BlocksIn(s.sliceNo) - 1 |-> s.mem[b]]])
      /\ data' = data + BlocksIn(s.sliceNo)
      /\ endReached' = IF BlocksIn(s.sliceNo) = 0 THEN 2 ELSE endReached
      /\ slices' = [slices EXCEPT ![freePos] = Released(s)]
      /\ freeSlices' = freeSlices + 1 /\ freePos' = NextSlot(freePos)

\* cleanupSlices(SLICE_DONE), in the network thread while there is no other.
NetClean ==
  /\ netPc = "clean"
  /\ IF slices[freePos].state = "DONE" THEN CleanOne /\ UNCHANGED net
     ELSE /\ netPc' = "dispatch" /\ netPos' = 0 /\ netMsg' = NoMsg
          /\ UNCHANGED <<slices, freeSlices, freePos, data, out, endReached, seenDone>>
  /\ UNCHANGED <<current, receivedPtr, receivedSliceNo, use_fec, fecQueue, spaces, freeMem,
                 fecThread, sender>>

\* No message for exitWait after the end: the network thread joins the other.
Timeout ==
  /\ netPc = "dispatch" /\ endReached = 2
  /\ endReached' = 3
  /\ UNCHANGED <<slices, current, receivedPtr, receivedSliceNo, use_fec, freeSlices, freePos,
                 fecQueue, spaces, memory, net, fecThread, sender>>

NetThread == Receive \/ Resume \/ SeeDone \/ AdvanceStep \/ NetClean \/ Timeout

-----------------------------------------------------------------------------
(* The FEC thread *)

\* A slice that needed no repair is passed over.
FecTakeMutant ==
  /\ fecPc = "wait" /\ endReached < 2 /\ fecQueue # <<>>
  /\ fecQueue' = Tail(fecQueue) /\ fecSlot' = Head(fecQueue)
  /\ fecPc' = IF slices[Head(fecQueue)].state = "FEC" THEN "decode" ELSE "wait"
  /\ UNCHANGED <<slices, current, receivedPtr, receivedSliceNo, use_fec, freeSlices, freePos,
                 spaces, memory, endReached, net, sender>>

\* The next finished slice; one in another state is passed over.
FecTake ==
  /\ fecPc = "wait" /\ endReached < 2 /\ fecQueue # <<>>
  /\ fecQueue' = Tail(fecQueue) /\ fecSlot' = Head(fecQueue)
  /\ LET s == slices[Head(fecQueue)]
     IN  /\ fecPc' = IF s.state = "FEC" THEN "decode"
                     ELSE IF s.state = "DONE" THEN "cleanup" ELSE "wait"
         /\ slices' = IF s.state = "DONE" THEN [slices EXCEPT ![fecSlot'].state = "FEC_DONE"]
                      ELSE slices
  /\ UNCHANGED <<current, receivedPtr, receivedSliceNo, use_fec, freeSlices, freePos, spaces,
                 memory, endReached, net, sender>>

\* The number of a FEC block is not divided by the number of groups.
RepairedMutant(s, g) ==
  LET size == GroupSize(s.sliceNo, g)
  IN  IF s.fec[g] = <<>> THEN GroupData(s.mem, s.sliceNo, g)
      ELSE fec_decode(GroupData(s.mem, s.sliceNo, g), size,
                      [i \in DOMAIN s.fec[g] |-> heap[s.fec[g][i].adr]],
                      [i \in DOMAIN s.fec[g] |-> s.fec[g][i].no],
                      Ascending({b \div Stripes : b \in UnsetIn(s, g)}))

\* fec_decode_one_stripe: the data blocks of a group that did not arrive, from
\* as many FEC blocks.
Repaired(s, g) ==
  LET size == GroupSize(s.sliceNo, g)
  IN  IF s.fec[g] = <<>> THEN GroupData(s.mem, s.sliceNo, g)
      ELSE fec_decode(GroupData(s.mem, s.sliceNo, g), size,
                      [i \in DOMAIN s.fec[g] |-> heap[s.fec[g][i].adr]],
                      [i \in DOMAIN s.fec[g] |-> s.fec[g][i].no \div Stripes],
                      Ascending({b \div Stripes : b \in UnsetIn(s, g)}))

FecDecode ==
  /\ fecPc = "decode" /\ fecPc' = "release"
  /\ slices' = [slices EXCEPT ![fecSlot].state = "FEC_DONE",
                              ![fecSlot].mem = [b \in DOMAIN @ |->
                                IF b < BlocksIn(slices[fecSlot].sliceNo)
                                THEN Repaired(slices[fecSlot], b % Stripes)[b \div Stripes]
                                ELSE @[b]]]
  /\ UNCHANGED <<current, receivedPtr, receivedSliceNo, use_fec, freeSlices, freePos, fecQueue,
                 spaces, memory, endReached, net, fecSlot, sender>>

\* The block spaces of the slice go back to the reservoir.
FecRelease ==
  LET used == UNION {{d.adr : d \in Range(slices[fecSlot].fec[g])} : g \in Groups}
  IN  /\ fecPc = "release" /\ fecPc' = "cleanup"
      /\ freeBlocks' = freeBlocks \cup used
      /\ heap' = [i \in DOMAIN heap |-> IF i \in used THEN 0 ELSE heap[i]]
      /\ UNCHANGED <<slices, current, receivedPtr, receivedSliceNo, use_fec, freeSlices, freePos,
                     fecQueue, local, nextBlock, memory, endReached, net, fecSlot, sender>>

\* The slice behind the one just decoded is not looked at.
FecCleanMutant ==
  /\ fecPc = "cleanup" /\ fecPc' = "wait" /\ fecSlot' = 0
  /\ IF slices[freePos].state = "FEC_DONE" THEN CleanOne
     ELSE UNCHANGED <<slices, freeSlices, freePos, data, out, endReached>>
  /\ UNCHANGED <<current, receivedPtr, receivedSliceNo, use_fec, fecQueue, spaces, freeMem, net,
                 sender>>

\* cleanupSlices(SLICE_FEC_DONE), one slice in a step.
FecClean ==
  /\ fecPc = "cleanup"
  /\ IF slices[freePos].state = "FEC_DONE" THEN CleanOne /\ UNCHANGED fecThread
     ELSE /\ fecPc' = "wait" /\ fecSlot' = 0
          /\ UNCHANGED <<slices, freeSlices, freePos, data, out, endReached>>
  /\ UNCHANGED <<current, receivedPtr, receivedSliceNo, use_fec, fecQueue, spaces, freeMem, net,
                 sender>>

FecThread == FecTake \/ FecDecode \/ FecRelease \/ FecClean

-----------------------------------------------------------------------------
(* The writer and the sender *)

\* writer: the data it wrote is free memory again.
Writer ==
  /\ data > 0
  /\ data' = 0 /\ freeMem' = freeMem + data
  /\ UNCHANGED <<slices, current, receivedPtr, receivedSliceNo, use_fec, freeSlices, freePos,
                 fecQueue, spaces, out, endReached, net, fecThread, sender>>

\* netSenderMain begins the next slice.
SendSlice ==
  /\ top < LastSlice
  /\ async \/ top + 1 < Window \/ top + 1 - Window \in acked
  /\ top' = top + 1
  /\ UNCHANGED <<slices, current, receivedPtr, receivedSliceNo, use_fec, freeSlices, freePos,
                 fecQueue, spaces, memory, endReached, net, fecThread, async, acked>>

Next == netPc # "exit" /\ (NetThread \/ FecThread \/ Writer \/ SendSlice)

Spec == Init /\ [][Next]_vars

\* The threads run whenever they can, and decoding comes to an end; nothing need
\* arrive.
FairSpec ==
  /\ Spec
  /\ WF_vars(netPc # "exit" /\ (Resume \/ AdvanceStep \/ NetClean))
  /\ WF_vars(netPc # "exit" /\ (FecTake \/ FecRelease \/ FecClean))
  /\ []<>(fecPc # "decode" \/ netPc = "exit")
  /\ WF_vars(netPc # "exit" /\ Writer)

-----------------------------------------------------------------------------
(* Properties *)

\* The variables have their types.
TypeOK ==
  /\ current \in Slots /\ receivedPtr \in Slots /\ freePos \in Slots /\ netPos \in Slots
  /\ receivedSliceNo \in -1..LastSlice /\ freeSlices \in 0..NrSlices
  /\ \A p \in Slots :
       /\ slices[p].state \in Finished \cup {"FREE", "RECEIVING"}
       /\ slices[p].sliceNo \in -1..LastSlice
  /\ fecQueue \in Seq(Slots) /\ freeBlocks \subseteq 1..NR_BLOCKS
  /\ endReached \in {0, 2, 3} /\ seenDone \in BOOLEAN /\ freeMem \in 0..Memory
  /\ netPc \in {"dispatch", "find", "complete", "advance", "clean", "exit"}
  /\ fecPc \in {"absent", "wait", "decode", "release", "cleanup"}

\* The FEC blocks of a slice, each by its group and its place there.
Kept(s) == UNION {{g} \X DOMAIN s.fec[g] : g \in Groups}

\* Slots with FEC blocks that still need their block spaces, and these blocks.
Live(p) == \/ slices[p].state \in {"RECEIVING", "FEC"}
           \/ fecPc = "release" /\ fecSlot = p
Held == UNION {{p} \X Kept(slices[p]) : p \in {q \in Slots : Live(q)}}
SpaceOf(h) == slices[h[1]].fec[h[2][1]][h[2][2]].adr

\* Every block space is in one place: the reservoir, the local stack, a slice
\* being received or repaired, or it is where the next block goes; none is lost
\* and none is in two places, though one thread takes them and both return them
\* (getBlockSpace, freeBlockSpace, processDataBlock).
BlockSpaceConserved ==
  LET inSlices == {SpaceOf(h) : h \in Held}
  IN  /\ IsInjective(local) /\ \A h, k \in Held : SpaceOf(h) = SpaceOf(k) => h = k
      /\ nextBlock \notin Range(local) \cup inSlices \cup freeBlocks
      /\ Range(local) \cap inSlices = {}
      /\ freeBlocks \cap (Range(local) \cup inSlices) = {}
      /\ {nextBlock} \cup Range(local) \cup inSlices \cup freeBlocks = 1..NR_BLOCKS

\* The counters of a slice agree with its block map: a group never holds more
\* FEC blocks than it misses data blocks, so the decoder has as many as it needs
\* (assertions of processDataBlock, fec_decode_one_stripe and fecMain), and a
\* slice is finished exactly when data and FEC blocks make up its size.
FecCountsAgree ==
  \A p \in Slots : LET s == slices[p] IN
    s.state \in {"RECEIVING", "FEC"} =>
      /\ s.dataBlocksTransferred = Cardinality(s.map)
      /\ s.blocksTransferred = Cardinality(s.map) + Cardinality(Kept(s))
      /\ s.fec_stripes =>
           \A g \in Groups : /\ s.missing[g] = Cardinality(UnsetIn(s, g))
                             /\ Len(s.fec[g]) <= s.missing[g]
      /\ s.state = "FEC" =>
           /\ use_fec /\ s.fec_stripes
           /\ \A g \in Groups : Len(s.fec[g]) = s.missing[g]

\* The writer gets the slices in order, each once and with the data that was
\* sent, those repaired from FEC blocks included.
HandedOverInOrderIntact ==
  \A i \in DOMAIN out :
    /\ out[i].sliceNo = i - 1
    /\ out[i].content = [b \in 0..BlocksIn(i - 1) - 1 |-> Content(i - 1, b)]

\* A slice the receiver acknowledged is one it has: handed over, or complete in
\* a slot with what is needed to repair it.
AckMeansComplete ==
  \A n \in acked :
    \/ n < Len(out)
    \/ \E p \in Slots : slices[p].sliceNo = n /\ (slices[p].state \in Finished \/ Complete(slices[p]))

\* Free slots are those after the current one, as many as the queue says, so a
\* new slice always finds its slot free (assertion of newSlice); the slots in
\* use hold consecutive slices.
SlotsTurn ==
  /\ freeSlices = Cardinality(FreeOnes)
  /\ freeSlices < NrSlices => freePos = (current + freeSlices + 1) % NrSlices
  /\ \A p \in Slots \ FreeOnes :
       Back(p) < NrSlices - freeSlices /\ slices[p].sliceNo = CurrentNo - Back(p)

\* The queue of finished slices holds each at most once and in its first state,
\* so that it never overflows and nothing in it was cleaned up meanwhile.
FecQueueExact ==
  /\ IsInjective(fecQueue)
  /\ \A i \in DOMAIN fecQueue : slices[fecQueue[i]].state \in {"DONE", "FEC"}

\* Memory is free, unwritten, or taken by a slice whose size is known, block by
\* block.
MemoryConserved ==
  LET known == {p \in Slots : slices[p].state # "FREE" /\ slices[p].bytesKnown}
      taken == UNION {{p} \X (0..BlocksIn(slices[p].sliceNo) - 1) : p \in known}
  IN  Memory = freeMem + data + Cardinality(taken)

\* The slice to be handed over next does not stay finished for ever: the writer
\* gets it without another message, unless the receiver gives up.
FinishedIsHandedOver == []<>(slices[freePos].state \notin Finished \/ netPc = "exit")

\* The search for a slice older than those in the slots, which ends only at a free
\* slot, does not go round for ever: the FEC thread frees one (findSlice,
\* cleanupSlices).
SearchEnds ==
  []<>~(netPc = "find" /\ netMsg.sliceNo <= CurrentNo /\ Found(netMsg.sliceNo) = {})

\* Slice n was handed over, or is finished in a slot.
Received(n) == \/ n < Len(out)
               \/ \E p \in Slots : slices[p].sliceNo = n /\ slices[p].state \in Finished

\* How many slices were received without a gap.
Delivered == CHOOSE n \in 0..LastSlice + 1 : ~Received(n) /\ \A k \in 0..n - 1 : Received(k)

\* How many slices the sender gave up to make room for those it began.
Forgotten == IF top < Window THEN 0 ELSE top + 1 - Window

Multicast == INSTANCE ReliableMulticast WITH
  Receivers <- {0}, members <- {0}, delivered <- [r \in {0} |-> Delivered],
  released <- Forgotten

\* Where the sender waits for acknowledgements, this receiver keeps the promise
\* of the transfer: what it received it never loses again, whatever becomes of
\* the slot, and the sender forgets a slice only when it and all before it were
\* received (dispatchMessage, processReqAck, cleanupSlices).
ImplementsMulticast ==
  /\ ~async => Multicast!MulticastInit
  /\ [][~async => Multicast!MulticastNext]_(Multicast!multicastVars)

\* A message for the slice after the current one is not taken for a sign that
\* the sender has gone on without this receiver when every slice before it is
\* complete (receivedSliceNo, "Completely received slices").
DroppedOnlyWhenBehind ==
  netPc = "exit" /\ netMsg.sliceNo = CurrentNo + 1 /\ slices[current].bytesKnown
    => \E p \in Slots : slices[p].sliceNo < CurrentNo /\ slices[p].state = "RECEIVING"

\* The code the decoder relies on, evaluated once: its tables are those of the
\* field, and the unrolled loops of fec.c visit every symbol once.
FieldArithmetic == Init => TablesDescribeField /\ LoopsVisitEverySymbolOnce

\* Whatever blocks of a group of a slice were lost, as many of its FEC blocks
\* repair them.
SlicesRepairable ==
  \A n \in 0..LastSlice, g \in Groups :
    LET size == GroupSize(n, g)
        original == GroupData([b \in 0..BlocksIn(n) - 1 |-> Content(n, b)], n, g)
    IN  \A lost \in (SUBSET (0..size - 1)) \ {{}} :
          \A rows \in {s \in [1..Cardinality(lost) -> 0..Redundancy - 1] : IsInjective(s)} :
            fec_decode([j \in 0..size - 1 |-> IF j \in lost THEN 0 ELSE original[j]], size,
                       [i \in DOMAIN rows |-> fec_encode(original, size, rows[i])], rows,
                       Ascending(lost)) = original

\* invert_mat inverts every matrix that the decoder can build, in place and
\* whatever the pivots, so that any erasure of as many data blocks as parity
\* blocks arrived is repaired, those of the slices included (fec_encode,
\* reduce, resolve).
ErasuresRepaired ==
  Init => InversionIsExact(3) /\ AnyParityRepairsAnyErasure(HIGH) /\ SlicesRepairable
=============================================================================
