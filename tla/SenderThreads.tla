---------------------------- MODULE SenderThreads ----------------------------
(***************************************************************************)
(* The threads of the sender and the queues between them: the disk reader  *)
(* (sender-diskio.c), the FEC thread, the return channel thread and the    *)
(* network thread (senddata.c), the data buffer (fifo.c), two slices.      *)
(*                                                                         *)
(* The counters of the byte queues are written as totals that never wrap   *)
(* (Produconsum is about the wrapping), so a byte is named by its place in *)
(* the stream.  makeSlice looks at the amount and at the end mark in two   *)
(* steps, as _consumeAny does; "cut" records that data and end arrived     *)
(* between the two, so that a slice was made shorter than need be.         *)
(*                                                                         *)
(* A receiver is what answers a REQACK: once with OK or RETRANSMIT, or not *)
(* at all; Transfer is about what makes it do so.                          *)
(***************************************************************************)
EXTENDS Integers, Sequences, FiniteSets, FiniteSetsExt

CONSTANTS
  Receivers,
  Modes,          \* records of ModeType
  InputSizes,     \* lengths of the file
  BlockSize,      \* config->blockSize
  BufBlocks,      \* blocks in the buffer (4096)
  Page,           \* BLOCKSIZE of the disk reader (4096)
  MinBlocks,      \* what makeSlice waits for (10)
  InitialSize,    \* sliceSize at the start
  MaxSize,        \* max_slice_size
  LeastSize,      \* the least size sendReqack reduces to (32)
  Growth,         \* ackSlice grows the size by one part in Growth (4)
  FecSize,        \* sliceSize with FEC
  QueueSize,      \* QUEUE_SIZE of the return channel (256)
  RetriesUntilDrop,
  MaxRequests     \* bound: later requests are not answered by RETRANSMIT

ModeType == [fec : BOOLEAN, sn : BOOLEAN, async : BOOLEAN]
BufSize == BufBlocks * BlockSize
LargestSize == Max({MaxSize, LeastSize})

(* The buffer holds whole pages, and a slice, what makeSlice waits for and a
   page at the same time; the padding of a block fits into a page.  Without
   full duplex the asynchronous sender ends after one slice, see README. *)
ASSUME SizesAssumption ==
  /\ IsFiniteSet(Receivers) /\ Receivers # {}
  /\ InputSizes \subseteq Nat
  /\ {BlockSize, BufBlocks, Page, MinBlocks, MaxSize, LeastSize, Growth, QueueSize}
       \subseteq Nat \ {0}
  /\ {RetriesUntilDrop, MaxRequests} \subseteq Nat
  /\ BufSize % Page = 0 /\ BlockSize <= Page + 1
  /\ BufSize >= LargestSize * BlockSize + MinBlocks * BlockSize + Page
  /\ InitialSize \in 1..MaxSize /\ FecSize \in 1..MaxSize
  /\ Modes \subseteq {m \in ModeType : m.async => m.sn}

NrSlices == 2
Slots == 0..NrSlices - 1
NoSlice == -1
Padding == -1

VARIABLES
  mode,
  size,                               \* of the file
  buffer,                             \* the byte of the file each cell holds
  readerPc, chunk, taken,             \* localReader: bytes, freeMemQueue->consumed
  freed, freeEnd,                     \* freeMemQueue->produced, its atEnd
  read, dataEnd, made,                \* data->produced, atEnd, consumed
  slices, freeSlices, freePos,        \* free_slices_pc: amount, producer's position
  makePc, makePos, makeNo, amount,    \* makeSlice: free_slices_pc's consumer position
  parity, encoded, encodedPos,        \* slice each part of fec_data is of; fec_data_pc
  netPc, xmit, rexmit, atEnd,
  sliceSize, discovery,
  participants,
  rcPc, q, rcPos, freeMsgs, incoming, msgPos, \* the return channel
  pending, gone,                      \* requests to answer; receivers that left
  arrived, cut                        \* history: messages not yet handled

reader == <<readerPc, chunk>>
maker == <<makePc, makePos, makeNo, amount, made, cut>>
fecQueue == <<parity, encoded, encodedPos>>
slotQueue == <<freeSlices, freePos>>
sizing == <<sliceSize, discovery>>
channel == <<rcPc, q, rcPos, freeMsgs, incoming, msgPos, arrived>>
memory == <<buffer, taken, freed, freeEnd, read, dataEnd>>
vars == <<mode, size, memory, reader, maker, slices, slotQueue, fecQueue, netPc, xmit, rexmit,
          atEnd, sizing, participants, channel, pending, gone>>

-----------------------------------------------------------------------------
FreeSlice == [state |-> "FREE", no |-> 0, base |-> 0, bytes |-> 0, next |-> 0,
              ready |-> {}, answered |-> {}, needRxmit |-> FALSE, rxmitId |-> 0,
              rxmitMap |-> {}, xmitted |-> {}, lastGood |-> 0]

NoRequest == [no |-> -1, id |-> 0, blocks |-> 0]
NoMsg == [from |-> CHOOSE r \in Receivers : TRUE, type |-> "none", no |-> -1, id |-> 0]

Cells(first, n) == {i % BufSize : i \in first..first + n - 1}
Blocks(s) == (s.bytes + BlockSize - 1) \div BlockSize
LeftOver(s) == s.bytes % BlockSize

Init ==
  /\ mode \in Modes /\ size \in InputSizes
  /\ buffer = [c \in 0..BufSize - 1 |-> Padding]
  /\ readerPc = "wait" /\ chunk = 0 /\ taken = 0
  /\ freed = 0 /\ freeEnd = FALSE
  /\ read = 0 /\ dataEnd = FALSE /\ made = 0
  /\ slices = [s \in Slots |-> FreeSlice] /\ freeSlices = NrSlices /\ freePos = 0
  /\ makePc = IF mode.fec THEN "slot" ELSE "idle"
  /\ makePos = 0 /\ makeNo = 0 /\ amount = 0
  /\ parity = [s \in Slots |-> -1] /\ encoded = 0 /\ encodedPos = 0
  /\ netPc = "top" /\ xmit = NoSlice /\ rexmit = NoSlice /\ atEnd = FALSE
  /\ sliceSize = IF mode.fec THEN FecSize ELSE InitialSize
  /\ discovery = "DOUBLING"
  /\ participants = IF mode.async THEN {} ELSE Receivers
  /\ rcPc = "wait" /\ q = [s \in 0..QueueSize - 1 |-> NoMsg] /\ rcPos = 0
  /\ freeMsgs = QueueSize /\ incoming = 0 /\ msgPos = 0
  /\ pending = [r \in Receivers |-> NoRequest] /\ gone = {}
  /\ arrived = <<>> /\ cut = FALSE

-----------------------------------------------------------------------------
(* The disk reader *)

FreeMem == BufSize + freed - taken

\* pc_consumeContiguousMinAmount, rounded down to a page unless it is all there is
Readable ==
  LET pos == taken % BufSize
      n == Min({FreeMem, BufSize - pos})
      extra == (pos + n) % Page
  IN  IF n > extra THEN n - extra ELSE n

\* localReader waits for a page and reads: all it asked for, or less as from a
\* pipe; nothing at the end of the file
Read ==
  LET pos == taken % BufSize IN
  /\ readerPc = "wait" /\ (FreeMem >= Page \/ freeEnd)
  /\ IF Readable = 0
     THEN readerPc' = "done" /\ UNCHANGED <<buffer, chunk, dataEnd>>
     ELSE IF read = size
     THEN readerPc' = "done" /\ dataEnd' = TRUE /\ UNCHANGED <<buffer, chunk>>
     ELSE \E n \in {1, Min({Readable, size - read})} :
          /\ buffer' = [c \in DOMAIN buffer |->
               IF c \in pos .. pos + n - 1 THEN read + (c - pos) ELSE buffer[c]]
          /\ chunk' = n /\ readerPc' = "consumed" /\ UNCHANGED dataEnd
  /\ UNCHANGED <<mode, size, taken, freed, freeEnd, read, maker, slices, slotQueue, fecQueue,
                 netPc, xmit, rexmit, atEnd, sizing, participants, channel, pending, gone>>

ReaderConsumed ==
  /\ readerPc = "consumed"
  /\ taken' = taken + chunk /\ readerPc' = "produce"
  /\ UNCHANGED <<mode, size, buffer, freed, freeEnd, read, dataEnd, chunk, maker, slices,
                 slotQueue, fecQueue, netPc, xmit, rexmit, atEnd, sizing, participants, channel,
                 pending, gone>>

ReaderProduces ==
  /\ readerPc = "produce"
  /\ read' = read + chunk /\ readerPc' = "wait" /\ chunk' = 0
  /\ UNCHANGED <<mode, size, buffer, taken, freed, freeEnd, dataEnd, maker, slices, slotQueue,
                 fecQueue, netPc, xmit, rexmit, atEnd, sizing, participants, channel, pending,
                 gone>>

Reader == Read \/ ReaderConsumed \/ ReaderProduces

-----------------------------------------------------------------------------
(* makeSlice, run by the FEC thread if there is one, else by the network
   thread, and the encoding *)

LastMade == (makePos + NrSlices - 1) % NrSlices

\* assert(slice->state == SLICE_FREE) is part of MemoryIntact
TakeSlot ==
  /\ makePc = "slot" /\ freeSlices > 0
  /\ freeSlices' = freeSlices - 1 /\ makePos' = (makePos + 1) % NrSlices
  /\ slices' = [slices EXCEPT ![makePos] = FreeSlice]
  /\ makePc' = "amount"
  /\ UNCHANGED <<mode, size, memory, reader, makeNo, amount, made, cut, freePos, fecQueue,
                 netPc, xmit, rexmit, atEnd, sizing, participants, channel, pending, gone>>

\* _consumeAny looks at the amount, again when it was woken
LookAtAmount ==
  /\ \/ makePc = "amount"
     \/ makePc = "end" /\ amount < MinBlocks * BlockSize /\ amount # read - made
  /\ amount' = read - made
  /\ makePc' = "end"
  /\ UNCHANGED <<mode, size, memory, reader, makePos, makeNo, made, cut, slices, slotQueue,
                 fecQueue, netPc, xmit, rexmit, atEnd, sizing, participants, channel, pending,
                 gone>>

\* Mutant: the last block of a slice may be cut short
SliceBytesMutant(n) == Min({n, BlockSize * sliceSize})

\* At most a slice, and whole blocks if there is more than one
SliceBytes(n) ==
  LET m == Min({n, BlockSize * sliceSize})
  IN  IF m > BlockSize THEN m - (m % BlockSize) ELSE m

LookAtEnd ==
  /\ makePc = "end" /\ (amount >= MinBlocks * BlockSize \/ dataEnd)
  /\ slices' = [slices EXCEPT ![LastMade] =
                  [FreeSlice EXCEPT !.state = "NEW", !.no = makeNo, !.base = made,
                                    !.bytes = SliceBytes(amount)]]
  /\ made' = made + SliceBytes(amount)
  /\ cut' = (cut \/ (amount < MinBlocks * BlockSize /\ amount < read - made))
  /\ makeNo' = makeNo + 1 /\ amount' = 0
  /\ IF mode.fec
     THEN makePc' = "encode" /\ UNCHANGED <<netPc, xmit, atEnd>>
     ELSE /\ makePc' = "idle" /\ netPc' = "send" /\ xmit' = LastMade
          /\ atEnd' = (atEnd \/ SliceBytes(amount) = 0)
  /\ UNCHANGED <<mode, size, memory, reader, makePos, slotQueue, fecQueue, rexmit, sizing, participants,
                 channel, pending, gone>>

\* fec_encode_all_stripes: zeroes what the last block lacks, then the parity
FecEncode ==
  LET s == slices[LastMade] IN
    /\ makePc = "encode"
    /\ buffer' = IF LeftOver(s) = 0 THEN buffer
                 ELSE [c \in DOMAIN buffer |->
                   IF c \in Cells(s.base + s.bytes, BlockSize - LeftOver(s))
                   THEN Padding ELSE buffer[c]]
    /\ parity' = [parity EXCEPT ![LastMade] = s.no]
    /\ makePc' = "encoded"
    /\ UNCHANGED <<mode, size, taken, freed, freeEnd, read, dataEnd, reader, makePos, makeNo,
                   amount, made, cut, slices, slotQueue, encoded, encodedPos, netPc, xmit, rexmit,
                   atEnd, sizing, participants, channel, pending, gone>>

\* pc_produce(fec_data_pc); fecMain goes on for ever
FecProduce ==
  /\ makePc = "encoded"
  /\ encoded' = encoded + 1 /\ makePc' = "slot"
  /\ UNCHANGED <<mode, size, memory, reader, makePos, makeNo, amount, made, cut, slices, slotQueue,
                 parity, encodedPos, netPc, xmit, rexmit, atEnd, sizing, participants, channel,
                 pending, gone>>

Maker == TakeSlot \/ LookAtAmount \/ LookAtEnd \/ FecEncode \/ FecProduce

-----------------------------------------------------------------------------
(* The return channel thread *)

\* What receiver r can send now
CanSend(r, m) ==
  /\ r \notin gone
  /\ \/ m.type = "disconnect" /\ m.no = -1 /\ m.id = 0
     \/ /\ pending[r] # NoRequest /\ m.no = pending[r].no /\ m.id = pending[r].id
        /\ \/ m.type = "ok"
           \/ m.type = "retransmit" /\ m.id < MaxRequests /\ pending[r].blocks > 0

\* Mutant: receives without waiting
RoomForMessageMutant == freeMsgs >= 0
RoomForMessage == freeMsgs > 0

\* returnChannelMain waits for a free slot and receives into it
RcReceives ==
  /\ rcPc = "wait" /\ RoomForMessage
  /\ \E r \in Receivers, type \in {"ok", "retransmit", "disconnect"} :
       LET m == IF type = "disconnect"
                THEN [from |-> r, type |-> type, no |-> -1, id |-> 0]
                ELSE [from |-> r, type |-> type, no |-> pending[r].no, id |-> pending[r].id]
       IN  /\ CanSend(r, m)
           /\ q' = [q EXCEPT ![rcPos] = m]
           /\ gone' = IF type = "disconnect" THEN gone \cup {r} ELSE gone
           /\ pending' = [pending EXCEPT ![r] = NoRequest]
  /\ rcPc' = "lookup"
  /\ UNCHANGED <<mode, size, memory, reader, maker, slices, slotQueue, fecQueue, netPc, xmit,
                 rexmit, atEnd, sizing, participants, rcPos, freeMsgs, incoming, msgPos, arrived>>

\* Packets of unknown provenance leave their slot to the next one
RcLooksUp ==
  /\ rcPc = "lookup"
  /\ rcPc' = "wait"
  /\ IF q[rcPos].from \in participants
     THEN /\ rcPos' = (rcPos + 1) % QueueSize /\ freeMsgs' = freeMsgs - 1
          /\ incoming' = incoming + 1 /\ arrived' = Append(arrived, q[rcPos])
     ELSE UNCHANGED <<rcPos, freeMsgs, incoming, arrived>>
  /\ UNCHANGED <<mode, size, memory, reader, maker, slices, slotQueue, fecQueue, netPc, xmit,
                 rexmit, atEnd, sizing, participants, q, msgPos, pending, gone>>

ReturnChannel == RcReceives \/ RcLooksUp

-----------------------------------------------------------------------------
(* The network thread: netSenderMain *)

\* "continue" goes to the condition of the loop
Restart(people) == netPc' = IF people # {} \/ mode.async THEN "top" ELSE "exit"

Everybody(set) == Cardinality(set) = Cardinality(participants)

\* Mutant: grows beyond max_slice_size
GrownMutant == [sz |-> sliceSize + sliceSize \div Growth, d |-> discovery]

\* ackSlice in half duplex
Grown ==
  IF mode.sn \/ discovery # "DOUBLING" THEN [sz |-> sliceSize, d |-> discovery]
  ELSE LET g == sliceSize + sliceSize \div Growth
       IN  IF g >= MaxSize THEN [sz |-> MaxSize, d |-> "REDUCING"] ELSE [sz |-> g, d |-> discovery]

\* sendReqack, before its message
Reduced(s) ==
  IF ~mode.sn /\ s.rxmitId # 0 /\ s.lastGood # 0 /\ s.lastGood < Blocks(s)
  THEN [sz |-> Max({LeastSize, IF s.lastGood < sliceSize \div 2 THEN sliceSize \div 2
                                ELSE s.lastGood}),
        d |-> "REDUCING"]
  ELSE [sz |-> sliceSize, d |-> discovery]

\* ackSlice of a slice that is not acknowledged yet
Acked(i) ==
  /\ slices' = [slices EXCEPT ![i].state = "ACKED"]
  /\ freed' = freed + slices[i].bytes
  /\ sliceSize' = Grown.sz /\ discovery' = Grown.d

\* sendReqack of slice i as s has it
Asked(i, s) ==
  IF mode.async /\ s.bytes # 0
  THEN /\ IF s.state = "ACKED" THEN slices' = [slices EXCEPT ![i] = s] /\ UNCHANGED <<freed, sizing>>
          ELSE Acked(i)
       /\ UNCHANGED pending
  ELSE IF mode.async /\ mode.fec THEN slices' = [slices EXCEPT ![i] = s] /\ UNCHANGED <<freed, sizing, pending>>
  ELSE /\ sliceSize' = Reduced(s).sz /\ discovery' = Reduced(s).d
       /\ slices' = [slices EXCEPT ![i] =
            [s EXCEPT !.lastGood = 0, !.answered = s.ready, !.needRxmit = FALSE,
                      !.rxmitMap = {}, !.xmitted = {}]]
       /\ pending' = [r \in Receivers |->
            IF r \in participants \ (s.ready \cup gone) THEN [no |-> s.no, id |-> s.rxmitId, blocks |-> Blocks(s)]
            ELSE pending[r]]
       /\ UNCHANGED freed

CleanupDue == /\ rexmit # NoSlice
              /\ slices[rexmit].state = "ACKED" \/ Everybody(slices[rexmit].ready)

\* The clean-up of rexmitSlice, when everybody has it
Cleanup ==
  /\ netPc = "top" /\ CleanupDue
  /\ IF slices[rexmit].state = "ACKED" THEN UNCHANGED <<slices, freed, sizing>> ELSE Acked(rexmit)
  /\ netPc' = "free"
  /\ UNCHANGED <<mode, size, buffer, taken, freeEnd, read, dataEnd, reader, maker, slotQueue,
                 fecQueue, xmit, rexmit, atEnd, participants, channel, pending, gone>>

\* freeSlice: mark the slot ...
PreFree ==
  /\ netPc = "free"
  /\ slices' = [slices EXCEPT ![rexmit] = [FreeSlice EXCEPT !.state = "PRE_FREE"]]
  /\ netPc' = "give" /\ rexmit' = NoSlice
  /\ UNCHANGED <<mode, size, memory, reader, maker, slotQueue, fecQueue, xmit, atEnd, sizing,
                 participants, channel, pending, gone>>

\* ... then free those whose turn it is: in the order of the queue
GiveSlots ==
  /\ netPc = "give"
  /\ IF slices[freePos].state = "PRE_FREE"
     THEN slices' = [slices EXCEPT ![freePos].state = "FREE"] /\ netPc' = "produce"
     ELSE netPc' = "shift" /\ UNCHANGED slices
  /\ UNCHANGED <<mode, size, memory, reader, maker, slotQueue, fecQueue, xmit, rexmit, atEnd,
                 sizing, participants, channel, pending, gone>>

ProduceSlot ==
  /\ netPc = "produce"
  /\ freeSlices' = freeSlices + 1 /\ freePos' = (freePos + 1) % NrSlices
  /\ netPc' = "give"
  /\ UNCHANGED <<mode, size, memory, reader, maker, slices, fecQueue, xmit, rexmit, atEnd, sizing,
                 participants, channel, pending, gone>>

Shiftable == rexmit = NoSlice /\ xmit # NoSlice /\ slices[xmit].state = "XMITTED"

\* "then shift xmit slice to rexmit slot, if possible"
Shift ==
  /\ netPc = "shift" \/ (netPc = "top" /\ ~CleanupDue)
  /\ IF Shiftable
     THEN rexmit' = xmit /\ xmit' = NoSlice /\ Asked(xmit, slices[xmit])
     ELSE UNCHANGED <<rexmit, xmit, slices, freed, sizing, pending>>
  /\ netPc' = "messages"
  /\ UNCHANGED <<mode, size, buffer, taken, freeEnd, read, dataEnd, reader, maker, slotQueue,
                 fecQueue, atEnd, participants, channel, gone>>

\* "handle any messages": handleNextMessage has the slot until it gives it back
HandleMessage ==
  LET m == q[msgPos]
      late(s) == m.id = 0 /\ s.rxmitId > 0   \* the number is in network order, see README
      mine == {i \in {xmit, rexmit} \ {NoSlice} : slices[i].no = m.no}
      known == m.from \in participants
      Without(s) == [s EXCEPT !.ready = @ \ {m.from}, !.answered = @ \ {m.from}]
  IN  /\ netPc = "messages" /\ incoming > 0
      /\ arrived' = Tail(arrived)
      /\ IF m.type = "disconnect"
         THEN /\ slices' = [i \in Slots |-> IF i \in {xmit, rexmit} THEN Without(slices[i])
                                            ELSE slices[i]]
              /\ participants' = participants \ {m.from}
         ELSE /\ participants' = participants
              /\ IF ~known \/ mine = {} THEN slices' = slices
                 ELSE LET i == CHOOSE i \in mine : TRUE
                          s == slices[i]
                      IN  IF m.type = "ok"
                          THEN slices' = [slices EXCEPT ![i].ready = @ \cup {m.from},
                                                        ![i].answered = @ \cup {m.from}]
                          ELSE IF late(s) THEN slices' = slices
                          ELSE \E missing \in (SUBSET (0..Blocks(s) - 1)) \ {{}} :
                                 slices' = [slices EXCEPT
                                   ![i].rxmitMap = @ \cup missing, ![i].needRxmit = TRUE,
                                   ![i].answered = @ \cup {m.from}]
      /\ netPc' = "giveBack"
      /\ UNCHANGED <<mode, size, memory, reader, maker, slotQueue, fecQueue, xmit, rexmit, atEnd,
                     sizing, rcPc, q, rcPos, freeMsgs, incoming, msgPos, pending, gone>>

\* Nobody looks at the message again
GiveBack ==
  /\ netPc = "giveBack"
  /\ q' = [q EXCEPT ![msgPos] = NoMsg]
  /\ incoming' = incoming - 1 /\ msgPos' = (msgPos + 1) % QueueSize /\ freeMsgs' = freeMsgs + 1
  /\ Restart(participants)
  /\ UNCHANGED <<mode, size, memory, reader, maker, slices, slotQueue, fecQueue, xmit, rexmit,
                 atEnd, sizing, participants, rcPc, rcPos, arrived, pending, gone>>

\* doRetransmissions, sendSlice: all blocks asked for and not yet sent again
Retransmit ==
  LET s == slices[rexmit]
      skipped == {b \in 0..Blocks(s) - 1 : b \notin s.rxmitMap \/ b \in s.xmitted}
  IN  /\ netPc = "messages" /\ incoming = 0 /\ rexmit # NoSlice /\ s.needRxmit
      /\ slices' = [slices EXCEPT ![rexmit].needRxmit = FALSE,
                                  ![rexmit].xmitted = @ \cup s.rxmitMap,
                                  ![rexmit].lastGood = Max(skipped \cup {@})]
      /\ Restart(participants)
      /\ UNCHANGED <<mode, size, memory, reader, maker, slotQueue, fecQueue, xmit, rexmit, atEnd,
                     sizing, participants, channel, pending, gone>>

\* Everybody answered: ask again.  Then get a slice, if it is time.
Proceed ==
  LET s == slices[rexmit] IN
    /\ netPc = "messages" /\ incoming = 0 /\ (rexmit # NoSlice => ~s.needRxmit)
    /\ IF rexmit # NoSlice /\ Everybody(s.answered)
       THEN Asked(rexmit, [s EXCEPT !.rxmitId = @ + 1])
       ELSE UNCHANGED <<slices, freed, sizing, pending>>
    /\ IF xmit = NoSlice /\ ~atEnd /\ (mode.sn \/ rexmit = NoSlice)
       THEN netPc' = "make" /\ makePc' = IF mode.fec THEN makePc ELSE "slot"
       ELSE netPc' = "send" /\ UNCHANGED makePc
    /\ UNCHANGED <<mode, size, buffer, taken, freeEnd, read, dataEnd, reader, makePos, makeNo,
                   amount, made, cut, slotQueue, fecQueue, xmit, rexmit, atEnd, participants,
                   channel, gone>>

\* pc_consume(fec_data_pc)
TakeEncoded ==
  /\ netPc = "make" /\ mode.fec /\ encoded > 0
  /\ encoded' = encoded - 1 /\ encodedPos' = (encodedPos + 1) % NrSlices
  /\ xmit' = encodedPos
  /\ atEnd' = (atEnd \/ slices[encodedPos].bytes = 0)
  /\ netPc' = "send"
  /\ UNCHANGED <<mode, size, memory, reader, maker, slices, slotQueue, parity, rexmit, sizing,
                 participants, channel, pending, gone>>

Sendable == xmit # NoSlice /\ slices[xmit].state = "NEW"

\* sendSlice: the blocks left, or up to one after which a message waits
SendSlice ==
  LET s == slices[xmit]
      all == Blocks(s) + (IF mode.fec THEN 1 ELSE 0)   \* the FEC blocks count as one
  IN  /\ netPc = "send" /\ Sendable
      /\ \E n \in Min({s.next + 1, all})..all :
           /\ n < all => incoming > 0
           /\ slices' = [slices EXCEPT ![xmit].next = n,
                                       ![xmit].state = IF n = all THEN "XMITTED" ELSE @]
      /\ Restart(participants)
      /\ UNCHANGED <<mode, size, memory, reader, maker, slotQueue, fecQueue, xmit, rexmit, atEnd,
                     sizing, participants, channel, pending, gone>>

Finished == \/ atEnd /\ rexmit = NoSlice /\ xmit = NoSlice
            \/ mode.async

Wait ==
  /\ netPc = "send" /\ ~Sendable
  /\ netPc' = IF Finished THEN "exit" ELSE "wait"
  /\ UNCHANGED <<mode, size, memory, reader, maker, slices, slotQueue, fecQueue, xmit, rexmit,
                 atEnd, sizing, participants, channel, pending, gone>>

Wake ==
  /\ netPc = "wait" /\ incoming > 0
  /\ Restart(participants)
  /\ UNCHANGED <<mode, size, memory, reader, maker, slices, slotQueue, fecQueue, xmit, rexmit,
                 atEnd, sizing, participants, channel, pending, gone>>

\* The wait times out: ask again, or drop those who are not ready
TimeOut ==
  LET s == slices[rexmit] IN
    /\ netPc = "wait" /\ incoming = 0
    /\ IF s.rxmitId > RetriesUntilDrop
       THEN /\ participants' = participants \cap s.ready
            /\ UNCHANGED <<slices, freed, sizing, pending>>
       ELSE /\ UNCHANGED participants
            /\ Asked(rexmit, [s EXCEPT !.rxmitId = @ + 1])
    /\ Restart(participants')
    /\ UNCHANGED <<mode, size, buffer, taken, freeEnd, read, dataEnd, reader, maker, slotQueue,
                   fecQueue, xmit, rexmit, atEnd, channel, gone>>

\* Mutant: the reader is not told
FinishMutant ==
  /\ netPc = "exit"
  /\ netPc' = "done" /\ rcPc' = "cancelled"
  /\ UNCHANGED <<mode, size, buffer, taken, freed, freeEnd, read, dataEnd, reader, maker, slices, slotQueue,
                 fecQueue, xmit, rexmit, atEnd, sizing, participants, q, rcPos, freeMsgs, incoming,
                 msgPos, arrived, pending, gone>>

\* cancelReturnChannel, pc_produceEnd(freeMemQueue)
Finish ==
  /\ netPc = "exit"
  /\ netPc' = "done" /\ rcPc' = "cancelled" /\ freeEnd' = TRUE
  /\ UNCHANGED <<mode, size, buffer, taken, freed, read, dataEnd, reader, maker, slices, slotQueue,
                 fecQueue, xmit, rexmit, atEnd, sizing, participants, q, rcPos, freeMsgs, incoming,
                 msgPos, arrived, pending, gone>>

NetThread ==
  \/ Cleanup \/ PreFree \/ GiveSlots \/ ProduceSlot \/ Shift \/ HandleMessage \/ GiveBack
  \/ Retransmit \/ Proceed \/ TakeEncoded \/ SendSlice \/ Wait \/ Wake \/ TimeOut \/ Finish

Next == Reader \/ Maker \/ ReturnChannel \/ NetThread

Spec == Init /\ [][Next]_vars

(* The threads run; a read returns; a wait that nobody answers times out.
   Receivers need not answer. *)
FairSpec ==
  /\ Spec
  /\ WF_vars(Reader) /\ WF_vars(Maker) /\ WF_vars(NetThread) /\ WF_vars(RcLooksUp)

-----------------------------------------------------------------------------
(* Properties *)

\* The variables have their types; the slice size stays within its limits, and
\* the loop waits only for a slice there is.
TypeOK ==
  /\ readerPc \in {"wait", "consumed", "produce", "done"}
  /\ makePc \in {"idle", "slot", "amount", "end", "encode", "encoded"}
  /\ netPc \in {"top", "free", "give", "produce", "shift", "messages", "giveBack", "make", "send",
                "wait", "exit", "done"}
  /\ rcPc \in {"wait", "lookup", "cancelled"}
  /\ {xmit, rexmit} \subseteq Slots \cup {NoSlice}
  /\ xmit = rexmit => xmit = NoSlice
  /\ netPc = "wait" => rexmit # NoSlice
  /\ \A i \in Slots : slices[i].state \in {"FREE", "NEW", "XMITTED", "ACKED", "PRE_FREE"}
  /\ sliceSize \in 1..LargestSize
  /\ freeSlices \in 0..NrSlices /\ encoded \in 0..NrSlices
  /\ participants \subseteq Receivers

InUse == {i \in Slots : slices[i].state \in {"NEW", "XMITTED"}}
Held(i) == IF i \in InUse THEN slices[i].bytes ELSE 0
Bytes(first, n) == first..first + n - 1
Holds(b) == buffer[b % BufSize] = b

\* The buffer holds every byte that is still needed: those of slices not yet
\* acknowledged and those read but in no slice, whatever the reader, the FEC
\* thread's padding and the network thread do at the same time, until that
\* thread ends; the parity of a slice about to be sent is its own; memory and
\* slots are each in one place, and a slot that can be taken is free (assertion
\* of makeSlice).  A slice made too short because its thread saw an end of file
\* without the last bytes may have its padding in the bytes of the next: not then.
MemoryIntact ==
  /\ made <= read /\ read <= taken /\ taken <= freed + BufSize
  /\ made = freed + Held(0) + Held(1)
  /\ ~cut /\ netPc # "done" =>
       /\ \A b \in made..read - 1 : Holds(b)
       /\ \A i \in InUse : \A b \in Bytes(slices[i].base, slices[i].bytes) : Holds(b)
  /\ \A i \in InUse : mode.fec /\ slices[i].state = "NEW" =>
       parity[i] = slices[i].no \/ (makePc = "encode" /\ i = LastMade)
  /\ \A k \in 0..freeSlices - 1 : slices[(makePos + k) % NrSlices].state = "FREE"

\* Each message stays in its slot of the return channel until it was handled:
\* the channel's thread does not write over it, though it uses a slot again for
\* packets of unknown provenance.
MessagesIntact ==
  LET beingHandled == IF netPc = "giveBack" THEN 1 ELSE 0
  IN  /\ freeMsgs + incoming = QueueSize
      /\ Len(arrived) = incoming - beingHandled
      /\ \A k \in DOMAIN arrived : q[(msgPos + beingHandled + k - 1) % QueueSize] = arrived[k]

\* Sender and reader never wait for each other for ever, for memory, slices,
\* parity or messages: both end, and if receivers were left the whole file was
\* sent (acknowledged, or with --async sent once).
TransferEnds ==
  <>(/\ readerPc = "done" /\ netPc = "done"
     /\ (participants # {} \/ mode.async) /\ ~cut => freed = size)
=============================================================================
