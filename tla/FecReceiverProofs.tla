-------------------------- MODULE FecReceiverProofs --------------------------
(***************************************************************************)
(* Theorems about FecReceiver, for all values of its constants: the slots  *)
(* turn, the counters of a slice agree with what it holds, block spaces    *)
(* and memory are neither lost nor used twice, the two threads hand each   *)
(* finished slice over once, the writer gets the slices in order, and what *)
(* was received is never lost again (the refinement of ReliableMulticast). *)
(* That they hold the data that was sent uses that the code repairs any    *)
(* erasure (FecCodeProofs).                                                *)
(***************************************************************************)
EXTENDS FecReceiver, FecCodeProofs

-----------------------------------------------------------------------------
(* The inductive invariant *)

Fields == {"state", "sliceNo", "bytesKnown", "map", "blocksTransferred",
           "dataBlocksTransferred", "mem", "fec_stripes", "missing", "fec"}

Space == [no : 0..Stripes * Redundancy - 1, adr : 1..NR_BLOCKS]

\* The type of a slot, but for what its memory holds.
SlotTyped(s) ==
  /\ DOMAIN s = Fields
  /\ s.state \in Finished \cup {"FREE", "RECEIVING"}
  /\ s.sliceNo \in -1..LastSlice /\ s.bytesKnown \in BOOLEAN
  /\ s.map \subseteq 0..BlocksIn(s.sliceNo) - 1
  /\ s.blocksTransferred \in Nat /\ s.dataBlocksTransferred \in Nat
  /\ DOMAIN s.mem = 0..SliceBlocks - 1
  /\ s.fec_stripes \in BOOLEAN
  /\ s.missing \in [Groups -> Nat] /\ s.fec \in [Groups -> Seq(Space)]

\* The FEC blocks of group g are of that group, all different, and no more than
\* the data blocks it misses.
GroupCounted(s, g) ==
  /\ s.missing[g] = IF s.fec_stripes THEN Cardinality(UnsetIn(s, g)) ELSE 0
  /\ Len(s.fec[g]) <= s.missing[g]
  /\ \A i \in DOMAIN s.fec[g] : s.fec[g][i].no % Stripes = g
  /\ \A i, j \in DOMAIN s.fec[g] : s.fec[g][i].no = s.fec[g][j].no => i = j

\* The counters of a slice in use agree with its block map and its FEC blocks.
Counted(s) ==
  /\ s.sliceNo >= 0
  /\ s.dataBlocksTransferred = Cardinality(s.map)
  /\ s.blocksTransferred = Cardinality(s.map) + Cardinality(Kept(s))
  /\ \A g \in Groups : GroupCounted(s, g)

\* A slice changes its state with its last block, and a slot given back keeps
\* the counters of its slice.
SlotInv(s) ==
  /\ SlotTyped(s)
  /\ s.state # "FREE" => Counted(s)
  /\ s.state = "RECEIVING" => s.blocksTransferred < BlocksIn(s.sliceNo)
  /\ s.state \in Finished => s.bytesKnown /\ Complete(s)
  /\ s.state = "DONE" => s.dataBlocksTransferred = BlocksIn(s.sliceNo)
  /\ s.state = "FEC" => s.dataBlocksTransferred # BlocksIn(s.sliceNo)
  /\ s.state = "FREE" /\ s.sliceNo >= 0 => s.bytesKnown /\ Complete(s)

SlotsInv ==
  /\ DOMAIN slices = Slots
  /\ \A p \in Slots : SlotInv(slices[p])

\* The slots in use hold the slices up to the current one, those before were
\* handed over, and a free slot keeps the number of the slice it held.
RingInv ==
  /\ current \in Slots /\ freeSlices \in 0..NrSlices
  /\ freePos = (current + freeSlices + 1) % NrSlices
  /\ CurrentNo \in 0..LastSlice
  /\ \A p \in Slots :
       /\ slices[p].state = "FREE" <=> Back(p) >= NrSlices - freeSlices
       /\ slices[p].sliceNo = IF Back(p) <= CurrentNo THEN CurrentNo - Back(p) ELSE -1
  /\ out \in Seq(Range(out))
  /\ Len(out) = CurrentNo + 1 - (NrSlices - freeSlices)
  /\ \A i \in DOMAIN out : out[i].sliceNo = i - 1

PlacesInv ==
  /\ receivedPtr \in Slots /\ netPos \in Slots /\ fecSlot \in Slots
  /\ receivedSliceNo \in -1..LastSlice /\ top \in 0..LastSlice
  /\ endReached \in {0, 2, 3} /\ use_fec \in BOOLEAN /\ seenDone \in BOOLEAN
  /\ netPc \in {"dispatch", "find", "complete", "advance", "clean", "exit"}
  /\ fecPc \in {"absent", "wait", "decode", "release", "cleanup"}
  /\ netMsg \in Messages \cup {NoMsg}
  /\ netPc = "find" => netMsg \in Messages
  /\ fecQueue \in Seq(Slots)

\* The FEC thread appears with the first FEC block.
ModeInv ==
  /\ use_fec => fecPc # "absent"
  /\ ~use_fec => /\ fecPc = "absent" /\ fecQueue = <<>>
                 /\ \A p \in Slots : ~slices[p].fec_stripes /\ slices[p].state \notin {"FEC", "FEC_DONE"}
  /\ netPc = "clean" => ~use_fec

\* A finished slice is at one place between the threads: with the network
\* thread, in the queue, or with the FEC thread.
HandOverInv ==
  /\ FecQueueExact
  /\ netPc = "complete" =>
       \E p \in Slots : /\ slices[p].sliceNo = netMsg.sliceNo
                        /\ slices[p].state \in {"DONE", "FEC"}
                        /\ p \notin Range(fecQueue)
                        /\ fecPc = "decode" => p # fecSlot
  /\ fecPc = "decode" => slices[fecSlot].state = "FEC" /\ fecSlot \notin Range(fecQueue)
  /\ fecPc = "release" => slices[fecSlot].state = "FEC_DONE"

\* Only the first slice can be begun before its size is known.
MemoryInv ==
  /\ data \in Nat /\ freeMem \in Nat
  /\ MemoryConserved
  /\ \A p \in Slots : slices[p].state # "FREE" /\ ~slices[p].bytesKnown
                        => p = current /\ freeMem >= SliceBlocks

SpaceInv ==
  /\ BlockSpaceConserved
  /\ local \in Seq(1..NR_BLOCKS) /\ heap = [i \in 1..NR_BLOCKS |-> heap[i]]

AckInv ==
  /\ acked \subseteq 0..LastSlice
  /\ \A n \in acked :
       \/ n < Len(out)
       \/ \E p \in Slots : slices[p].sliceNo = n /\ slices[p].state \in Finished

IInv == /\ SlotsInv /\ RingInv /\ PlacesInv /\ ModeInv /\ HandOverInv
        /\ MemoryInv /\ SpaceInv /\ AckInv

\* The memory of a slice holds the blocks that arrived, and all of them once it
\* was repaired.
Filled(s) ==
  s.mem = [b \in 0..SliceBlocks - 1 |-> IF b \in s.map THEN Content(s.sliceNo, b) ELSE 0]
DataIntact(s) ==
  /\ s.state \in {"RECEIVING", "FEC", "DONE"} => Filled(s)
  /\ s.state = "FEC_DONE" =>
       \A b \in 0..BlocksIn(s.sliceNo) - 1 : s.mem[b] = Content(s.sliceNo, b)

\* Its block spaces in H hold what was sent.
SpacesIntact(s, H) ==
  s.state \in {"RECEIVING", "FEC"} =>
    \A g \in Groups : \A i \in DOMAIN s.fec[g] :
      H[s.fec[g][i].adr] = Parity(s.sliceNo, s.fec[g][i].no)

OutIntact(o) ==
  \A i \in DOMAIN o : o[i].content = [b \in 0..BlocksIn(i - 1) - 1 |-> Content(i - 1, b)]

IntactInv ==
  /\ \A p \in Slots : DataIntact(slices[p]) /\ SpacesIntact(slices[p], heap)
  /\ OutIntact(out)

-----------------------------------------------------------------------------
(* Numbers and places in the ring of slots *)

\* The constants are numbers of the sizes the arithmetic below needs.
LEMMA Sizes ==
  /\ NrSlices \in Nat \ {0} /\ LastSlice \in Nat \ {0} /\ SliceBlocks \in Nat \ {0, 1}
  /\ Stripes \in Nat \ {0} /\ Redundancy \in Nat \ {0} /\ NR_BLOCKS \in Nat \ {0}
  /\ MAX_SLICE_SIZE \in Nat /\ MAX_SLICE_SIZE >= SliceBlocks
  /\ Memory \in Nat /\ Memory >= MAX_SLICE_SIZE
  BY ReceiverAssumption

\* The sizes of memory are numbers once the code's order of them is known.
LEMMA BlocksInType ==
  \A n \in Int : BlocksIn(n) \in 0..SliceBlocks /\ BlocksIn(n) \in Nat
  BY Sizes DEF BlocksIn

\* The slice that is empty is the last one.
LEMMA FirstNotEmpty == BlocksIn(0) > 0
  BY Sizes DEF BlocksIn

LEMMA ModTwice ==
  ASSUME NEW N \in Nat \ {0}, NEW x \in 0..2 * N - 1
  PROVE  x % N = IF x < N THEN x ELSE x - N
  OBVIOUS

\* Distance from slot p back from slot c.
BackOf(c, p) == (c + NrSlices - p) % NrSlices

LEMMA BackIs ==
  ASSUME NEW c \in Slots, NEW p \in Slots
  PROVE  BackOf(c, p) = IF p <= c THEN c - p ELSE c + NrSlices - p
<1>1. PICK x \in 0..2 * NrSlices - 1 : x = c + NrSlices - p
  BY Sizes DEF Slots
<1>2. x % NrSlices = IF x < NrSlices THEN x ELSE x - NrSlices
  BY Sizes, ModTwice
<1> QED BY <1>1, <1>2, Sizes DEF BackOf, Slots

\* Distances are those of the ring, and different for different slots.
LEMMA BackRange ==
  ASSUME NEW c \in Slots
  PROVE  /\ \A p \in Slots : BackOf(c, p) \in 0..NrSlices - 1
         /\ \A p, q \in Slots : BackOf(c, p) = BackOf(c, q) => p = q
         /\ BackOf(c, c) = 0
         /\ \A d \in 0..NrSlices - 1 : \E p \in Slots : BackOf(c, p) = d
<1>1. \A p \in Slots : BackOf(c, p) = IF p <= c THEN c - p ELSE c + NrSlices - p
  BY BackIs
<1>2. \A d \in 0..NrSlices - 1 : \E p \in Slots : BackOf(c, p) = d
  <2> SUFFICES ASSUME NEW d \in 0..NrSlices - 1 PROVE \E p \in Slots : BackOf(c, p) = d
    OBVIOUS
  <2>1. CASE d <= c
    <3> c - d \in Slots
      BY <2>1, Sizes DEF Slots
    <3> QED BY <1>1, <2>1 DEF Slots
  <2>2. CASE d > c
    <3> c + NrSlices - d \in Slots /\ ~(c + NrSlices - d <= c)
      BY <2>2, Sizes DEF Slots
    <3> QED BY <1>1, <2>2, Sizes DEF Slots
  <2> QED BY <2>1, <2>2, Sizes DEF Slots
<1> QED BY <1>1, <1>2, Sizes DEF Slots

LEMMA NextSlotIs ==
  ASSUME NEW c \in Slots
  PROVE  NextSlot(c) \in Slots /\ NextSlot(c) = IF c + 1 = NrSlices THEN 0 ELSE c + 1
<1>1. PICK x \in 0..2 * NrSlices - 1 : x = c + 1
  BY Sizes DEF Slots
<1>2. x % NrSlices = IF x < NrSlices THEN x ELSE x - NrSlices
  BY Sizes, ModTwice
<1> QED BY <1>1, <1>2, Sizes DEF NextSlot, Slots

\* From the next slot every distance is one more, but for the slot itself.
LEMMA BackOfNext ==
  ASSUME NEW c \in Slots, NEW p \in Slots
  PROVE  BackOf(NextSlot(c), p) = IF p = NextSlot(c) THEN 0 ELSE BackOf(c, p) + 1
<1>1. /\ NextSlot(c) \in Slots /\ NextSlot(c) = IF c + 1 = NrSlices THEN 0 ELSE c + 1
      /\ BackOf(c, p) = IF p <= c THEN c - p ELSE c + NrSlices - p
  BY NextSlotIs, BackIs
<1>2. BackOf(NextSlot(c), p)
        = IF p <= NextSlot(c) THEN NextSlot(c) - p ELSE NextSlot(c) + NrSlices - p
  BY <1>1, BackIs
<1> QED BY <1>1, <1>2, Sizes DEF Slots

\* The slots after the current one are the next to be used, so that the slot
\* behind the free ones is the oldest in use.
LEMMA SlotAfterFree ==
  ASSUME NEW c \in Slots, NEW k \in 0..NrSlices
  PROVE  /\ (c + k + 1) % NrSlices \in Slots
         /\ BackOf(c, (c + k + 1) % NrSlices)
              = IF k = NrSlices THEN NrSlices - 1 ELSE NrSlices - 1 - k
         /\ k < NrSlices => NextSlot((c + k + 1) % NrSlices) = (c + k + 2) % NrSlices
<1>1. CASE c + k + 1 < 2 * NrSlices
  <2>1. (c + k + 1) % NrSlices = IF c + k + 1 < NrSlices THEN c + k + 1 ELSE c + k + 1 - NrSlices
    <3>1. PICK x \in 0..2 * NrSlices - 1 : x = c + k + 1
      BY <1>1, Sizes DEF Slots
    <3>2. x % NrSlices = IF x < NrSlices THEN x ELSE x - NrSlices
      BY Sizes, ModTwice
    <3> QED BY <3>1, <3>2, Sizes DEF Slots
  <2>2. (c + k + 1) % NrSlices \in Slots
    BY <1>1, <2>1, Sizes DEF Slots
  <2>3. BackOf(c, (c + k + 1) % NrSlices) = IF k = NrSlices THEN NrSlices - 1 ELSE NrSlices - 1 - k
    BY <1>1, <2>1, <2>2, BackIs, Sizes DEF Slots
  <2>4. k < NrSlices => NextSlot((c + k + 1) % NrSlices) = (c + k + 2) % NrSlices
    <3>1. CASE c + k + 2 < 2 * NrSlices
      <4>1. PICK x \in 0..2 * NrSlices - 1 : x = c + k + 2
        BY <3>1, Sizes DEF Slots
      <4>2. x % NrSlices = IF x < NrSlices THEN x ELSE x - NrSlices
        BY Sizes, ModTwice
      <4> QED BY <3>1, <2>1, <2>2, <4>1, <4>2, NextSlotIs, Sizes DEF Slots
    <3>2. CASE c + k + 2 = 2 * NrSlices
      <4> (2 * NrSlices) % NrSlices = 0
        BY Sizes
      <4> QED BY <3>2, <2>1, <2>2, NextSlotIs, Sizes DEF Slots
    <3> QED BY <1>1, <3>1, <3>2, Sizes DEF Slots
  <2> QED BY <2>2, <2>3, <2>4
<1>2. CASE c + k + 1 >= 2 * NrSlices
  <2> (2 * NrSlices) % NrSlices = 0
    BY Sizes
  <2>1. c = NrSlices - 1 /\ k = NrSlices
    BY <1>2, Sizes DEF Slots
  <2>2. c + k + 1 = 2 * NrSlices /\ 0 \in Slots
    BY <2>1, Sizes DEF Slots
  <2>3. BackOf(c, 0) = NrSlices - 1
    BY <2>1, <2>2, BackIs, Sizes DEF Slots
  <2> QED BY <2>1, <2>2, <2>3, Sizes
<1> QED BY <1>1, <1>2, Sizes DEF Slots

-----------------------------------------------------------------------------
(* Slices *)

LEMMA FreeSlotIs ==
  /\ DOMAIN FreeSlot = Fields /\ FreeSlot.state = "FREE" /\ FreeSlot.sliceNo = -1
  /\ FreeSlot.bytesKnown = FALSE /\ FreeSlot.map = {}
  /\ FreeSlot.blocksTransferred = 0 /\ FreeSlot.dataBlocksTransferred = 0
  /\ FreeSlot.mem = NoMem /\ FreeSlot.fec_stripes = FALSE
  /\ FreeSlot.missing = NoMissing /\ FreeSlot.fec = NoFec
  BY DEF FreeSlot, Fields

LooksFresh(s, n) ==
  /\ DOMAIN s = Fields /\ s.state = "RECEIVING" /\ s.sliceNo = n
  /\ s.bytesKnown = FALSE /\ s.map = {}
  /\ s.blocksTransferred = 0 /\ s.dataBlocksTransferred = 0
  /\ s.mem = NoMem /\ s.fec_stripes = FALSE
  /\ s.missing = NoMissing /\ s.fec = NoFec

LEMMA FreshSliceIs ==
  ASSUME NEW n, NEW s, s = FreshSlice(n)
  PROVE  LooksFresh(s, n)
  BY FreeSlotIs DEF FreshSlice, Fields, LooksFresh

LooksReleased(t, s) ==
  /\ DOMAIN t = Fields /\ t.state = "FREE" /\ t.sliceNo = s.sliceNo
  /\ t.bytesKnown = s.bytesKnown /\ t.map = {}
  /\ t.blocksTransferred = s.blocksTransferred
  /\ t.dataBlocksTransferred = s.dataBlocksTransferred
  /\ t.mem = NoMem /\ t.fec_stripes = FALSE
  /\ t.missing = NoMissing /\ t.fec = NoFec

LEMMA ReleasedIs ==
  ASSUME NEW s, NEW t, t = Released(s)
  PROVE  LooksReleased(t, s)
  BY FreeSlotIs DEF Released, Fields, LooksReleased

LooksSized(t, s) ==
  /\ DOMAIN t = Fields /\ t.state = s.state /\ t.sliceNo = s.sliceNo
  /\ t.bytesKnown = TRUE /\ t.map = s.map
  /\ t.blocksTransferred = s.blocksTransferred
  /\ t.dataBlocksTransferred = s.dataBlocksTransferred
  /\ t.mem = s.mem /\ t.fec_stripes = s.fec_stripes
  /\ t.missing = s.missing /\ t.fec = s.fec

LEMMA WithBytesIs ==
  ASSUME NEW s, DOMAIN s = Fields, NEW t, t = WithBytes(s)
  PROVE  LooksSized(t, s)
  BY DEF WithBytes, Fields, LooksSized

LooksPrepared(t, s) ==
  /\ DOMAIN t = Fields /\ t.state = s.state /\ t.sliceNo = s.sliceNo
  /\ t.bytesKnown = s.bytesKnown /\ t.map = s.map
  /\ t.blocksTransferred = s.blocksTransferred
  /\ t.dataBlocksTransferred = s.dataBlocksTransferred
  /\ t.mem = s.mem /\ t.fec_stripes = TRUE
  /\ t.missing = IF s.fec_stripes THEN s.missing
                 ELSE [g \in Groups |-> Cardinality(UnsetIn(s, g))]
  /\ t.fec = IF s.fec_stripes THEN s.fec ELSE NoFec
  /\ s.fec_stripes => t = s

LEMMA WithFecIs ==
  ASSUME NEW s, DOMAIN s = Fields, s.fec_stripes \in BOOLEAN, NEW t, t = WithFec(s)
  PROVE  LooksPrepared(t, s)
<1>1. CASE s.fec_stripes
  <2> t = s
    BY <1>1 DEF WithFec
  <2> QED BY <1>1 DEF LooksPrepared
<1>2. CASE ~s.fec_stripes
  <2>1. WithFec(s) = [s EXCEPT !.fec_stripes = TRUE, !.fec = NoFec,
                               !.missing = [g \in Groups |-> Cardinality(UnsetIn(s, g))]]
    BY <1>2 DEF WithFec
  <2>2. PICK missing : missing = [g \in Groups |-> Cardinality(UnsetIn(s, g))]
    OBVIOUS
  <2>3. PICK r : r = [s EXCEPT !.fec_stripes = TRUE, !.fec = NoFec, !.missing = missing]
    OBVIOUS
  <2>4. /\ DOMAIN r = Fields /\ r.state = s.state /\ r.sliceNo = s.sliceNo
        /\ r.bytesKnown = s.bytesKnown /\ r.map = s.map
        /\ r.blocksTransferred = s.blocksTransferred
        /\ r.dataBlocksTransferred = s.dataBlocksTransferred
        /\ r.mem = s.mem /\ r.fec_stripes = TRUE /\ r.missing = missing /\ r.fec = NoFec
    BY <2>3 DEF Fields
  <2> QED BY <1>2, <2>1, <2>2, <2>3, <2>4 DEF LooksPrepared
<1> QED BY <1>1, <1>2

LooksFiled(r, s, b, g) ==
  /\ DOMAIN r = Fields /\ r.state = s.state /\ r.sliceNo = s.sliceNo
  /\ r.bytesKnown = TRUE /\ r.map = s.map \cup {b}
  /\ r.blocksTransferred = IF Surplus(s, g) THEN s.blocksTransferred
                           ELSE s.blocksTransferred + 1
  /\ r.dataBlocksTransferred = s.dataBlocksTransferred + 1
  /\ r.mem = [s.mem EXCEPT ![b] = Content(s.sliceNo, b)]
  /\ r.fec_stripes = s.fec_stripes
  /\ r.missing = [s.missing EXCEPT ![g] = IF s.fec_stripes THEN @ - 1 ELSE @]
  /\ r.fec = IF Surplus(s, g) THEN [s.fec EXCEPT ![g] = Front(@)] ELSE s.fec

LEMMA WithDataIs ==
  ASSUME NEW s, DOMAIN s = Fields, s.fec_stripes \in BOOLEAN, NEW b,
         NEW g, g = b % Stripes, NEW r, r = WithData(s, b)
  PROVE  LooksFiled(r, s, b, g)
<1> DEFINE map == s.map \cup {b}
           mem == [s.mem EXCEPT ![b] = Content(s.sliceNo, b)]
           number == s.dataBlocksTransferred + 1
           missing == [s.missing EXCEPT ![g] = IF s.fec_stripes THEN @ - 1 ELSE @]
           fec == [s.fec EXCEPT ![g] = Front(@)]
<1>1. PICK t : t = [WithBytes(s) EXCEPT !.map = @ \cup {b}, !.mem[b] = Content(s.sliceNo, b),
                                        !.dataBlocksTransferred = @ + 1,
                                        !.missing[g] = IF s.fec_stripes THEN @ - 1 ELSE @]
  OBVIOUS
<1>2. WithData(s, b) = IF Surplus(s, g) THEN [t EXCEPT !.fec[g] = Front(@)]
                       ELSE [t EXCEPT !.blocksTransferred = @ + 1]
  BY <1>1 DEF WithData
<1>w. PICK w : w = WithBytes(s)
  OBVIOUS
<1>s. LooksSized(w, s)
  BY <1>w, WithBytesIs
<1>v. /\ DOMAIN w = Fields /\ w.state = s.state /\ w.sliceNo = s.sliceNo
      /\ w.bytesKnown = TRUE /\ w.map = s.map
      /\ w.blocksTransferred = s.blocksTransferred
      /\ w.dataBlocksTransferred = s.dataBlocksTransferred
      /\ w.mem = s.mem /\ w.fec_stripes = s.fec_stripes
      /\ w.missing = s.missing /\ w.fec = s.fec
  BY <1>s DEF LooksSized
<1>3. t = [w EXCEPT !.map = map, !.mem = mem, !.dataBlocksTransferred = number,
                    !.missing = missing]
  BY <1>1, <1>w, <1>v DEF Fields
<1> HIDE DEF map, mem, number, missing
<1>4. /\ DOMAIN t = Fields /\ t.state = s.state /\ t.sliceNo = s.sliceNo
      /\ t.bytesKnown = TRUE /\ t.map = map
      /\ t.blocksTransferred = s.blocksTransferred /\ t.dataBlocksTransferred = number
      /\ t.mem = mem /\ t.fec_stripes = s.fec_stripes /\ t.missing = missing /\ t.fec = s.fec
  BY <1>3, <1>v DEF Fields
<1>5. CASE Surplus(s, g)
  <2>1. WithData(s, b) = [t EXCEPT !.fec = fec]
    BY <1>2, <1>4, <1>5 DEF Fields
  <2> HIDE DEF fec
  <2>2. PICK u : u = [t EXCEPT !.fec = fec]
    OBVIOUS
  <2>3. /\ DOMAIN u = Fields /\ u.state = s.state /\ u.sliceNo = s.sliceNo
        /\ u.bytesKnown = TRUE /\ u.map = map
        /\ u.blocksTransferred = s.blocksTransferred /\ u.dataBlocksTransferred = number
        /\ u.mem = mem /\ u.fec_stripes = s.fec_stripes /\ u.missing = missing /\ u.fec = fec
    BY <2>2, <1>4 DEF Fields
  <2> QED BY <1>5, <2>1, <2>2, <2>3 DEF map, mem, number, missing, fec, LooksFiled
<1>6. CASE ~Surplus(s, g)
  <2>1. WithData(s, b) = [t EXCEPT !.blocksTransferred = s.blocksTransferred + 1]
    BY <1>2, <1>4, <1>6 DEF Fields
  <2>2. PICK u : u = [t EXCEPT !.blocksTransferred = s.blocksTransferred + 1]
    OBVIOUS
  <2>3. /\ DOMAIN u = Fields /\ u.state = s.state /\ u.sliceNo = s.sliceNo
        /\ u.bytesKnown = TRUE /\ u.map = map
        /\ u.blocksTransferred = s.blocksTransferred + 1 /\ u.dataBlocksTransferred = number
        /\ u.mem = mem /\ u.fec_stripes = s.fec_stripes /\ u.missing = missing /\ u.fec = s.fec
    BY <2>2, <1>4 DEF Fields
  <2> QED BY <1>6, <2>1, <2>2, <2>3 DEF map, mem, number, missing, LooksFiled
<1> QED BY <1>5, <1>6

LooksGrown(t, s, f, g, u) ==
  /\ DOMAIN t = Fields /\ t.state = s.state /\ t.sliceNo = s.sliceNo
  /\ t.bytesKnown = TRUE /\ t.map = s.map
  /\ t.blocksTransferred = s.blocksTransferred + 1
  /\ t.dataBlocksTransferred = s.dataBlocksTransferred
  /\ t.mem = s.mem /\ t.fec_stripes = TRUE
  /\ t.missing = u.missing
  /\ t.fec = [u.fec EXCEPT ![g] = Append(@, [no |-> f, adr |-> nextBlock])]

LEMMA WithParityIs ==
  ASSUME NEW s, DOMAIN s = Fields, s.fec_stripes \in BOOLEAN, NEW f,
         NEW g, g = f % Stripes, NEW t, t = WithParity(s, f), NEW u, u = WithFec(WithBytes(s))
  PROVE  LooksGrown(t, s, f, g, u)
<1>2. /\ DOMAIN u = Fields /\ u.state = s.state /\ u.sliceNo = s.sliceNo
      /\ u.bytesKnown = TRUE /\ u.map = s.map
      /\ u.blocksTransferred = s.blocksTransferred
      /\ u.dataBlocksTransferred = s.dataBlocksTransferred
      /\ u.mem = s.mem /\ u.fec_stripes = TRUE
  <2>1. PICK v : v = WithBytes(s)
    OBVIOUS
  <2>2. LooksSized(v, s)
    BY <2>1, WithBytesIs
  <2>3. DOMAIN v = Fields /\ v.fec_stripes \in BOOLEAN
    BY <2>2 DEF LooksSized
  <2>4. LooksPrepared(u, v)
    BY <2>1, <2>3, WithFecIs
  <2> QED BY <2>2, <2>4 DEF LooksSized, LooksPrepared
<1> DEFINE fec == [u.fec EXCEPT ![g] = Append(@, [no |-> f, adr |-> nextBlock])]
<1>3. WithParity(s, f) = [u EXCEPT !.fec = fec, !.blocksTransferred = u.blocksTransferred + 1]
  BY <1>2 DEF WithParity, Fields
<1> HIDE DEF fec
<1>4. PICK r : r = [u EXCEPT !.fec = fec, !.blocksTransferred = u.blocksTransferred + 1]
  OBVIOUS
<1>5. /\ DOMAIN r = Fields /\ r.state = s.state /\ r.sliceNo = s.sliceNo
      /\ r.bytesKnown = TRUE /\ r.map = s.map
      /\ r.blocksTransferred = s.blocksTransferred + 1
      /\ r.dataBlocksTransferred = s.dataBlocksTransferred
      /\ r.mem = s.mem /\ r.fec_stripes = TRUE /\ r.missing = u.missing /\ r.fec = fec
  BY <1>4, <1>2 DEF Fields
<1> QED BY <1>3, <1>4, <1>5 DEF fec, LooksGrown

LooksChecked(t, s) ==
  /\ DOMAIN t = Fields /\ t.sliceNo = s.sliceNo
  /\ t.state = IF s.state # "RECEIVING" \/ ~Complete(s) THEN s.state
               ELSE IF s.dataBlocksTransferred = BlocksIn(s.sliceNo) THEN "DONE" ELSE "FEC"
  /\ t.bytesKnown = s.bytesKnown /\ t.map = s.map
  /\ t.blocksTransferred = s.blocksTransferred
  /\ t.dataBlocksTransferred = s.dataBlocksTransferred
  /\ t.mem = s.mem /\ t.fec_stripes = s.fec_stripes
  /\ t.missing = s.missing /\ t.fec = s.fec
  /\ s.state # "RECEIVING" \/ ~Complete(s) => t = s

LEMMA CheckedIs ==
  ASSUME NEW s, DOMAIN s = Fields, NEW t, t = Checked(s)
  PROVE  LooksChecked(t, s)
<1>1. CASE s.state # "RECEIVING" \/ ~Complete(s)
  <2> t = s
    BY <1>1 DEF Checked
  <2> QED BY <1>1 DEF LooksChecked
<1>2. CASE s.state = "RECEIVING" /\ Complete(s)
  <2>1. PICK state : state = IF s.dataBlocksTransferred = BlocksIn(s.sliceNo) THEN "DONE" ELSE "FEC"
    OBVIOUS
  <2>2. t = [s EXCEPT !.state = state]
    BY <1>2, <2>1 DEF Checked
  <2> QED BY <1>2, <2>1, <2>2 DEF Fields, LooksChecked
<1> QED BY <1>1, <1>2

-----------------------------------------------------------------------------
(* Counting the blocks of a slice *)

LEMMA GroupOf ==
  \A b \in Nat : b % Stripes \in Groups
  BY Sizes DEF Groups

LEMMA KeptIs ==
  ASSUME NEW s, s.fec \in [Groups -> Seq(Space)]
  PROVE  /\ \A g \in Groups : DOMAIN s.fec[g] = 1..Len(s.fec[g]) /\ Len(s.fec[g]) \in Nat
         /\ \A k \in Kept(s) : /\ k[1] \in Groups /\ k[2] \in 1..Len(s.fec[k[1]])
                               /\ k = <<k[1], k[2]>>
         /\ \A g \in Groups : \A i \in 1..Len(s.fec[g]) : <<g, i>> \in Kept(s)
<1>1. \A g \in Groups : DOMAIN s.fec[g] = 1..Len(s.fec[g]) /\ Len(s.fec[g]) \in Nat
  <2> SUFFICES ASSUME NEW g \in Groups
               PROVE  DOMAIN s.fec[g] = 1..Len(s.fec[g]) /\ Len(s.fec[g]) \in Nat
    OBVIOUS
  <2> s.fec[g] \in Seq(Space)
    OBVIOUS
  <2> QED BY LenProperties
<1>2. ASSUME NEW k \in Kept(s)
      PROVE  k[1] \in Groups /\ k[2] \in 1..Len(s.fec[k[1]]) /\ k = <<k[1], k[2]>>
  <2> PICK g \in Groups : k \in {g} \X DOMAIN s.fec[g]
    BY DEF Kept
  <2> QED BY <1>1
<1>3. ASSUME NEW g \in Groups, NEW i \in 1..Len(s.fec[g]) PROVE <<g, i>> \in Kept(s)
  <2> <<g, i>> \in {g} \X DOMAIN s.fec[g]
    BY <1>1
  <2> QED BY DEF Kept
<1> QED BY <1>1, <1>2, <1>3

LEMMA IntervalCount ==
  ASSUME NEW k \in Nat
  PROVE  IsFiniteSet(0..k - 1) /\ Cardinality(0..k - 1) = k
  BY FS_Interval

\* The sets that are counted are finite.
LEMMA SlotFinite ==
  ASSUME NEW s, SlotTyped(s)
  PROVE  /\ IsFiniteSet(s.map) /\ IsFiniteSet(Unset(s))
         /\ BlocksIn(s.sliceNo) \in Nat
         /\ Cardinality(Unset(s)) = BlocksIn(s.sliceNo) - Cardinality(s.map)
         /\ Cardinality(s.map) \in Nat
         /\ \A g \in Groups : IsFiniteSet(UnsetIn(s, g))
<1>1. BlocksIn(s.sliceNo) \in Nat /\ s.sliceNo \in Int
  BY BlocksInType, Sizes DEF SlotTyped
<1>2. /\ IsFiniteSet(0..BlocksIn(s.sliceNo) - 1)
      /\ Cardinality(0..BlocksIn(s.sliceNo) - 1) = BlocksIn(s.sliceNo)
  <2> PICK k \in Nat : k = BlocksIn(s.sliceNo)
    BY <1>1
  <2> QED BY IntervalCount
<1>3. /\ s.map \subseteq 0..BlocksIn(s.sliceNo) - 1 /\ Unset(s) \subseteq 0..BlocksIn(s.sliceNo) - 1
      /\ \A g \in Groups : UnsetIn(s, g) \subseteq 0..BlocksIn(s.sliceNo) - 1
  BY DEF SlotTyped, Unset, UnsetIn
<1>4. /\ IsFiniteSet(s.map) /\ IsFiniteSet(Unset(s))
      /\ \A g \in Groups : IsFiniteSet(UnsetIn(s, g))
  BY <1>2, <1>3, FS_Subset
<1>5. Cardinality(Unset(s)) = BlocksIn(s.sliceNo) - Cardinality(s.map)
  <2> (0..BlocksIn(s.sliceNo) - 1) \cap s.map = s.map
    BY <1>3
  <2> QED BY <1>2, FS_Difference, ZenonT(60) DEF Unset
<1> QED BY <1>1, <1>4, <1>5, FS_CardinalityType

\* Each FEC block stands for a data block of its group that is missing.  So the
\* FEC blocks are no more than the missing data blocks, and when they are as
\* many, each group has as many as it misses.
LEMMA KeptBound ==
  ASSUME NEW s, SlotTyped(s), \A g \in Groups : GroupCounted(s, g)
  PROVE  /\ IsFiniteSet(Kept(s)) /\ Cardinality(Kept(s)) \in Nat
         /\ Cardinality(Kept(s)) <= Cardinality(Unset(s))
         /\ Cardinality(Kept(s)) = Cardinality(Unset(s)) =>
              \A g \in Groups : Len(s.fec[g]) = Cardinality(UnsetIn(s, g))
<1>0. /\ s.fec \in [Groups -> Seq(Space)] /\ s.missing \in [Groups -> Nat]
      /\ s.fec_stripes \in BOOLEAN
  BY DEF SlotTyped
<1>1. IsFiniteSet(Unset(s)) /\ \A g \in Groups : IsFiniteSet(UnsetIn(s, g))
  BY SlotFinite
<1>2. CASE ~s.fec_stripes
  <2>1. \A g \in Groups : Len(s.fec[g]) = 0
    BY <1>0, <1>2, KeptIs DEF GroupCounted
  <2>2. Kept(s) = {}
    BY <1>0, <2>1, KeptIs
  <2>3. IsFiniteSet(Kept(s)) /\ Cardinality(Kept(s)) = 0
    BY <2>2, FS_EmptySet
  <2>4. Cardinality(Unset(s)) \in Nat
    BY <1>1, FS_CardinalityType
  <2>5. Cardinality(Unset(s)) = 0 => \A g \in Groups : Cardinality(UnsetIn(s, g)) = 0
    <3> SUFFICES ASSUME Cardinality(Unset(s)) = 0, NEW g \in Groups
                 PROVE  Cardinality(UnsetIn(s, g)) = 0
      OBVIOUS
    <3> UnsetIn(s, g) = {}
      BY <1>1, FS_EmptySet DEF UnsetIn
    <3> QED BY FS_EmptySet
  <2> QED BY <2>1, <2>3, <2>4, <2>5
<1>3. CASE s.fec_stripes
  <2> DEFINE B == [g \in Groups |-> CHOOSE f : f \in Bijection(1..Cardinality(UnsetIn(s, g)),
                                                               UnsetIn(s, g))]
             F == [k \in Kept(s) |-> B[k[1]][k[2]]]
  <2>1. ASSUME NEW g \in Groups
        PROVE  /\ B[g] \in Bijection(1..s.missing[g], UnsetIn(s, g))
               /\ s.missing[g] = Cardinality(UnsetIn(s, g))
               /\ s.missing[g] \in Nat /\ Len(s.fec[g]) \in Nat /\ Len(s.fec[g]) <= s.missing[g]
    <3>1. ExistsBijection(1..Cardinality(UnsetIn(s, g)), UnsetIn(s, g))
      BY <1>1, FS_CardinalityType
    <3>2. B[g] \in Bijection(1..Cardinality(UnsetIn(s, g)), UnsetIn(s, g))
      BY <3>1 DEF ExistsBijection
    <3> HIDE DEF B
    <3>3. s.missing[g] = Cardinality(UnsetIn(s, g)) /\ Len(s.fec[g]) <= s.missing[g]
      BY <1>3 DEF GroupCounted
    <3> QED BY <1>0, <3>2, <3>3, KeptIs
  <2> HIDE DEF B
  <2>2. ASSUME NEW g \in Groups
        PROVE  /\ \A i \in 1..s.missing[g] : B[g][i] \in UnsetIn(s, g)
               /\ \A i, j \in 1..s.missing[g] : B[g][i] = B[g][j] => i = j
    BY <2>1 DEF Bijection, Injection, Surjection, IsInjective
  <2>3. ASSUME NEW k \in Kept(s)
        PROVE  k[1] \in Groups /\ k[2] \in 1..s.missing[k[1]] /\ k = <<k[1], k[2]>>
               /\ k[2] <= Len(s.fec[k[1]])
    BY <1>0, <2>1, KeptIs
  <2>4. ASSUME NEW g \in Groups, NEW h \in Groups, NEW i \in 1..s.missing[g],
               NEW j \in 1..s.missing[h], B[g][i] = B[h][j]
        PROVE  g = h /\ i = j
    <3> B[g][i] \in UnsetIn(s, g) /\ B[h][j] \in UnsetIn(s, h)
      BY <2>2
    <3> g = h
      BY <2>4 DEF UnsetIn
    <3> QED BY <2>2, <2>4
  <2>5. F \in Injection(Kept(s), Unset(s))
    <3>1. ASSUME NEW k \in Kept(s) PROVE F[k] \in Unset(s)
      BY <2>2, <2>3 DEF UnsetIn
    <3>2. ASSUME NEW k \in Kept(s), NEW l \in Kept(s), F[k] = F[l] PROVE k = l
      BY <2>3, <2>4, <3>2
    <3> QED BY <3>1, <3>2 DEF Injection, IsInjective
  <2>6. /\ IsFiniteSet(Kept(s)) /\ Cardinality(Kept(s)) <= Cardinality(Unset(s))
        /\ Cardinality(Kept(s)) = Cardinality(Unset(s)) <=> F \in Surjection(Kept(s), Unset(s))
    BY <1>1, <2>5, FS_Injection
  <2>7. ASSUME F \in Surjection(Kept(s), Unset(s)), NEW g \in Groups
        PROVE  Len(s.fec[g]) = Cardinality(UnsetIn(s, g))
    <3>1. SUFFICES ASSUME Len(s.fec[g]) < s.missing[g] PROVE FALSE
      BY <2>1
    <3>2. s.missing[g] \in 1..s.missing[g]
      BY <2>1, <3>1
    <3>3. B[g][s.missing[g]] \in Unset(s)
      BY <2>2, <3>2 DEF UnsetIn
    <3>4. PICK k \in Kept(s) : F[k] = B[g][s.missing[g]]
      BY <2>7, <3>3 DEF Surjection
    <3>5. k[1] = g /\ k[2] = s.missing[g]
      BY <2>3, <2>4, <3>2, <3>4
    <3> QED BY <2>1, <2>3, <3>1, <3>5
  <2> QED BY <2>6, <2>7, FS_CardinalityType
<1> QED BY <1>0, <1>2, <1>3

-----------------------------------------------------------------------------
(* What the handlers do to a slice *)

LEMMA FrontIs ==
  ASSUME NEW S, NEW q \in Seq(S), Len(q) > 0
  PROVE  /\ Front(q) \in Seq(S) /\ Len(Front(q)) = Len(q) - 1
         /\ DOMAIN Front(q) = 1..Len(q) - 1
         /\ \A i \in 1..Len(q) - 1 : Front(q)[i] = q[i]
         /\ Last(q) \in S /\ Last(q) = q[Len(q)]
<1>1. Len(q) \in Nat /\ Len(q) \in 1..Len(q) /\ DOMAIN q = 1..Len(q)
  BY LenProperties
<1>2. /\ Front(q) = SubSeq(q, 1, Len(q) - 1) /\ Front(q) \in Seq(S)
      /\ Len(Front(q)) = Len(q) - 1
      /\ \A i \in 1..Len(q) - 1 : Front(q)[i] = q[i]
  BY <1>1, SubSeqProperties DEF Front
<1>3. DOMAIN Front(q) = 1..Len(q) - 1
  BY <1>2, LenProperties
<1> QED BY <1>1, <1>2, <1>3, ElementOfSeq DEF Last

LEMMA NoFecTyped ==
  NoFec \in [Groups -> Seq(Space)] /\ NoMissing \in [Groups -> Nat]
  BY EmptySeq DEF NoFec, NoMissing

\* A slice that begins has no block.
LEMMA FreshCounted ==
  ASSUME NEW n \in 0..LastSlice
  PROVE  SlotTyped(FreshSlice(n)) /\ Counted(FreshSlice(n)) /\ Kept(FreshSlice(n)) = {}
<1>1. PICK s : s = FreshSlice(n)
  OBVIOUS
<1>2. /\ DOMAIN s = Fields /\ s.state = "RECEIVING" /\ s.sliceNo = n
      /\ s.bytesKnown = FALSE /\ s.map = {}
      /\ s.blocksTransferred = 0 /\ s.dataBlocksTransferred = 0
      /\ s.mem = NoMem /\ s.fec_stripes = FALSE
      /\ s.missing = NoMissing /\ s.fec = NoFec
  <2> LooksFresh(s, n)
    BY <1>1, FreshSliceIs
  <2> QED BY DEF LooksFresh
<1>3. SlotTyped(s)
  <2>1. n \in -1..LastSlice /\ DOMAIN NoMem = 0..SliceBlocks - 1
    BY Sizes DEF NoMem
  <2>2. s.state \in Finished \cup {"FREE", "RECEIVING"} /\ s.map \subseteq 0..BlocksIn(s.sliceNo) - 1
    BY <1>2
  <2>4. s.blocksTransferred \in Nat /\ s.dataBlocksTransferred \in Nat
    BY <1>2
  <2>5. s.bytesKnown \in BOOLEAN /\ s.fec_stripes \in BOOLEAN
    BY <1>2
  <2>3. /\ DOMAIN s.mem = 0..SliceBlocks - 1 /\ s.missing \in [Groups -> Nat]
        /\ s.fec \in [Groups -> Seq(Space)] /\ s.sliceNo \in -1..LastSlice /\ DOMAIN s = Fields
    BY <1>2, <2>1, NoFecTyped
  <2> QED BY <2>2, <2>3, <2>4, <2>5 DEF SlotTyped
<1>4. Kept(s) = {}
  BY <1>2 DEF Kept, NoFec
<1>5. \A g \in Groups : GroupCounted(s, g)
  BY <1>2 DEF GroupCounted, NoFec, NoMissing
<1> QED BY <1>1, <1>2, <1>3, <1>4, <1>5, FS_EmptySet, Sizes DEF Counted

\* Preparing a slice for FEC blocks leaves the blocks it has.
IsPrepared(u, s) ==
  /\ SlotTyped(u) /\ Counted(u) /\ Kept(u) = Kept(s)
  /\ u.state = s.state /\ u.sliceNo = s.sliceNo /\ u.bytesKnown /\ u.fec_stripes
  /\ u.map = s.map /\ u.mem = s.mem /\ u.fec = s.fec
  /\ u.blocksTransferred = s.blocksTransferred
  /\ u.dataBlocksTransferred = s.dataBlocksTransferred
  /\ u.missing = WithFec(s).missing /\ WithFec(s).fec = s.fec

LEMMA PreparedCounted ==
  ASSUME NEW s, SlotTyped(s), Counted(s), NEW u, u = WithFec(WithBytes(s))
  PROVE  IsPrepared(u, s)
<1>1. PICK v : v = WithBytes(s)
  OBVIOUS
<1>0. /\ DOMAIN s = Fields /\ s.fec_stripes \in BOOLEAN /\ s.fec \in [Groups -> Seq(Space)]
      /\ s.missing \in [Groups -> Nat]
  BY DEF SlotTyped
<1>2. /\ DOMAIN v = Fields /\ v.state = s.state /\ v.sliceNo = s.sliceNo
      /\ v.bytesKnown = TRUE /\ v.map = s.map
      /\ v.blocksTransferred = s.blocksTransferred
      /\ v.dataBlocksTransferred = s.dataBlocksTransferred
      /\ v.mem = s.mem /\ v.fec_stripes = s.fec_stripes /\ v.missing = s.missing /\ v.fec = s.fec
  <2> LooksSized(v, s)
    BY <1>0, <1>1, WithBytesIs
  <2> QED BY DEF LooksSized
<1>3. u = WithFec(v)
  BY <1>1
<1>4. /\ DOMAIN u = Fields /\ u.state = s.state /\ u.sliceNo = s.sliceNo
      /\ u.bytesKnown = TRUE /\ u.map = s.map
      /\ u.blocksTransferred = s.blocksTransferred
      /\ u.dataBlocksTransferred = s.dataBlocksTransferred
      /\ u.mem = s.mem /\ u.fec_stripes = TRUE
      /\ u.missing = (IF s.fec_stripes THEN s.missing
                      ELSE [g \in Groups |-> Cardinality(UnsetIn(v, g))])
      /\ u.fec = IF s.fec_stripes THEN s.fec ELSE NoFec
  <2> LooksPrepared(u, v)
    BY <1>0, <1>2, <1>3, WithFecIs
  <2> QED BY <1>2 DEF LooksPrepared
<1>5. /\ \A g \in Groups : UnsetIn(v, g) = UnsetIn(s, g) /\ UnsetIn(u, g) = UnsetIn(s, g)
  BY <1>2, <1>4 DEF UnsetIn, Unset
<1>6. \A g \in Groups : Cardinality(UnsetIn(s, g)) \in Nat
  BY SlotFinite, FS_CardinalityType
<1>7. u.fec = s.fec
  <2>1. CASE ~s.fec_stripes
    <3>1. \A g \in Groups : Len(s.fec[g]) <= 0 /\ s.fec[g] \in Seq(Space)
      BY <1>0, <2>1 DEF Counted, GroupCounted
    <3>2. \A g \in Groups : s.fec[g] = <<>>
      BY <3>1, EmptySeq, LenProperties
    <3> QED BY <1>0, <1>4, <2>1, <3>2 DEF NoFec
  <2> QED BY <1>4, <2>1
<1>8. SlotTyped(u)
  <2> u.missing \in [Groups -> Nat]
    BY <1>0, <1>4, <1>5, <1>6
  <2> QED BY <1>0, <1>4, <1>7 DEF SlotTyped
<1>9. Kept(u) = Kept(s)
  BY <1>7 DEF Kept
<1>10. ASSUME NEW g \in Groups PROVE GroupCounted(u, g)
  <2>1. CASE s.fec_stripes
    BY <1>4, <1>5, <1>7, <2>1 DEF Counted, GroupCounted
  <2>2. CASE ~s.fec_stripes
    <3>1. u.missing[g] = Cardinality(UnsetIn(u, g)) /\ u.fec[g] = <<>>
      BY <1>4, <1>5, <2>2 DEF NoFec
    <3> QED BY <1>4, <1>5, <1>6, <3>1 DEF GroupCounted
  <2> QED BY <1>0, <2>1, <2>2
<1>11. Counted(u)
  BY <1>4, <1>9, <1>10 DEF Counted
<1>12. u.missing = WithFec(s).missing /\ WithFec(s).fec = s.fec
  <2>1. PICK x : x = WithFec(s)
    OBVIOUS
  <2>2. LooksPrepared(x, s)
    BY <1>0, <2>1, WithFecIs
  <2>3. /\ x.missing = (IF s.fec_stripes THEN s.missing
                       ELSE [g \in Groups |-> Cardinality(UnsetIn(s, g))])
        /\ x.fec = IF s.fec_stripes THEN s.fec ELSE NoFec
    BY <2>2 DEF LooksPrepared
  <2>4. x.missing = u.missing /\ x.fec = u.fec
    BY <1>4, <1>5, <2>3
  <2> QED BY <1>7, <2>1, <2>4
<1> QED BY <1>4, <1>7, <1>8, <1>9, <1>11, <1>12 DEF IsPrepared

IsFiled(t, s, b, g) ==
  /\ SlotTyped(t) /\ Counted(t) /\ g \in Groups
  /\ t.state = s.state /\ t.sliceNo = s.sliceNo /\ t.bytesKnown
  /\ t.fec_stripes = s.fec_stripes /\ t.map = s.map \cup {b}
  /\ t.mem = [s.mem EXCEPT ![b] = Content(s.sliceNo, b)]
  /\ Surplus(s, g) => /\ Len(s.fec[g]) > 0
                      /\ t.fec = [s.fec EXCEPT ![g] = Front(@)]
                      /\ Kept(t) = Kept(s) \ {<<g, Len(s.fec[g])>>}
  /\ ~Surplus(s, g) => t.fec = s.fec /\ Kept(t) = Kept(s)

\* A data block: the group lacks one less, and gives back a FEC block if it had
\* as many as it lacked.
LEMMA WithDataCounted ==
  ASSUME NEW s, SlotTyped(s), Counted(s),
         NEW b \in 0..BlocksIn(s.sliceNo) - 1, b \notin s.map,
         NEW t, t = WithData(s, b), NEW g, g = b % Stripes
  PROVE  IsFiled(t, s, b, g)
<1>0. /\ DOMAIN s = Fields /\ s.fec_stripes \in BOOLEAN /\ s.fec \in [Groups -> Seq(Space)]
      /\ s.missing \in [Groups -> Nat] /\ s.dataBlocksTransferred \in Nat
      /\ s.blocksTransferred \in Nat /\ s.map \subseteq 0..BlocksIn(s.sliceNo) - 1
      /\ DOMAIN s.mem = 0..SliceBlocks - 1 /\ s.sliceNo \in -1..LastSlice
  BY DEF SlotTyped
<1>1. g \in Groups /\ b \in Nat
  BY GroupOf
<1>3. /\ DOMAIN t = Fields /\ t.state = s.state /\ t.sliceNo = s.sliceNo
      /\ t.bytesKnown = TRUE /\ t.map = s.map \cup {b}
      /\ t.blocksTransferred = (IF Surplus(s, g) THEN s.blocksTransferred
                               ELSE s.blocksTransferred + 1)
      /\ t.dataBlocksTransferred = s.dataBlocksTransferred + 1
      /\ t.mem = [s.mem EXCEPT ![b] = Content(s.sliceNo, b)]
      /\ t.fec_stripes = s.fec_stripes
      /\ t.missing = [s.missing EXCEPT ![g] = IF s.fec_stripes THEN @ - 1 ELSE @]
      /\ t.fec = IF Surplus(s, g) THEN [s.fec EXCEPT ![g] = Front(@)] ELSE s.fec
  <2> LooksFiled(t, s, b, g)
    BY <1>0, WithDataIs
  <2> QED BY DEF LooksFiled
<1>4. /\ UnsetIn(t, g) = UnsetIn(s, g) \ {b} /\ b \in UnsetIn(s, g)
      /\ \A h \in Groups \ {g} : UnsetIn(t, h) = UnsetIn(s, h)
  BY <1>3 DEF UnsetIn, Unset
<1>5. /\ \A h \in Groups : Cardinality(UnsetIn(s, h)) \in Nat
      /\ Cardinality(UnsetIn(t, g)) = Cardinality(UnsetIn(s, g)) - 1
      /\ Cardinality(UnsetIn(s, g)) - 1 \in Nat
  <2> IsFiniteSet(UnsetIn(s, g)) /\ \A h \in Groups : Cardinality(UnsetIn(s, h)) \in Nat
    BY <1>1, SlotFinite, FS_CardinalityType
  <2> IsFiniteSet(UnsetIn(t, g)) /\ Cardinality(UnsetIn(t, g)) = Cardinality(UnsetIn(s, g)) - 1
    BY <1>4, FS_RemoveElement
  <2> QED BY FS_CardinalityType
<1>6. /\ s.fec[g] \in Seq(Space) /\ Len(s.fec[g]) \in Nat /\ DOMAIN s.fec[g] = 1..Len(s.fec[g])
      /\ s.missing[g] \in Nat /\ Len(s.fec[g]) <= s.missing[g]
      /\ s.missing[g] = IF s.fec_stripes THEN Cardinality(UnsetIn(s, g)) ELSE 0
  BY <1>0, <1>1, KeptIs DEF Counted, GroupCounted
<1>7. Surplus(s, g) => /\ s.fec_stripes /\ Len(s.fec[g]) = s.missing[g] /\ Len(s.fec[g]) > 0
                       /\ Front(s.fec[g]) \in Seq(Space)
                       /\ Len(Front(s.fec[g])) = Len(s.fec[g]) - 1
                       /\ DOMAIN Front(s.fec[g]) = 1..Len(s.fec[g]) - 1
                       /\ \A i \in 1..Len(s.fec[g]) - 1 : Front(s.fec[g])[i] = s.fec[g][i]
  <2> SUFFICES ASSUME Surplus(s, g)
               PROVE  /\ s.fec_stripes /\ Len(s.fec[g]) = s.missing[g] /\ Len(s.fec[g]) > 0
                      /\ Front(s.fec[g]) \in Seq(Space)
                      /\ Len(Front(s.fec[g])) = Len(s.fec[g]) - 1
                      /\ DOMAIN Front(s.fec[g]) = 1..Len(s.fec[g]) - 1
                      /\ \A i \in 1..Len(s.fec[g]) - 1 : Front(s.fec[g])[i] = s.fec[g][i]
    OBVIOUS
  <2>1. s.fec_stripes /\ Len(s.fec[g]) = s.missing[g] /\ Len(s.fec[g]) > 0
    BY <1>5, <1>6 DEF Surplus
  <2> QED BY <1>6, <2>1, FrontIs
<1>8. t.fec \in [Groups -> Seq(Space)] /\ t.missing \in [Groups -> Nat]
  <2>1. t.fec \in [Groups -> Seq(Space)]
    BY <1>0, <1>1, <1>3, <1>7
  <2>2. t.missing \in [Groups -> Nat]
    BY <1>0, <1>1, <1>3, <1>5, <1>6
  <2> QED BY <2>1, <2>2
<1>9. /\ Surplus(s, g) => Kept(t) = Kept(s) \ {<<g, Len(s.fec[g])>>}
      /\ ~Surplus(s, g) => Kept(t) = Kept(s)
  <2>1. CASE ~Surplus(s, g)
    BY <1>3, <2>1 DEF Kept
  <2>2. CASE Surplus(s, g)
    <3>1. /\ Len(t.fec[g]) = Len(s.fec[g]) - 1 /\ \A h \in Groups \ {g} : t.fec[h] = s.fec[h]
      BY <1>0, <1>1, <1>3, <1>7, <2>2
    <3>2. ASSUME NEW k \in Kept(t) PROVE k \in Kept(s) \ {<<g, Len(s.fec[g])>>}
      <4>1. k[1] \in Groups /\ k[2] \in 1..Len(t.fec[k[1]]) /\ k = <<k[1], k[2]>>
        BY <1>8, KeptIs
      <4>2. k[2] \in 1..Len(s.fec[k[1]]) /\ ~(k[1] = g /\ k[2] = Len(s.fec[g]))
        BY <1>6, <3>1, <4>1
      <4>3. <<k[1], k[2]>> \in Kept(s)
        BY <1>0, <4>1, <4>2, KeptIs
      <4> QED BY <4>1, <4>2, <4>3
    <3>3. ASSUME NEW k \in Kept(s) \ {<<g, Len(s.fec[g])>>} PROVE k \in Kept(t)
      <4>1. k[1] \in Groups /\ k[2] \in 1..Len(s.fec[k[1]]) /\ k = <<k[1], k[2]>>
        BY <1>0, KeptIs
      <4>2. k[2] \in 1..Len(t.fec[k[1]])
        BY <1>6, <3>1, <4>1
      <4>3. <<k[1], k[2]>> \in Kept(t)
        BY <1>8, <4>1, <4>2, KeptIs
      <4> QED BY <4>1, <4>3
    <3> QED BY <2>2, <3>2, <3>3
  <2> QED BY <2>1, <2>2
<1>10. ASSUME NEW h \in Groups PROVE GroupCounted(t, h)
  <2>1. CASE h # g
    <3>1. t.missing[h] = s.missing[h] /\ t.fec[h] = s.fec[h] /\ UnsetIn(t, h) = UnsetIn(s, h)
      BY <1>0, <1>1, <1>3, <1>4, <2>1
    <3> QED BY <1>3, <3>1 DEF Counted, GroupCounted
  <2>2. CASE h = g
    <3>1. /\ t.missing[g] = IF s.fec_stripes THEN Cardinality(UnsetIn(t, g)) ELSE 0
      BY <1>0, <1>1, <1>3, <1>5, <1>6
    <3>2. CASE Surplus(s, g)
      <4>1. /\ Len(t.fec[g]) = Len(s.fec[g]) - 1 /\ DOMAIN t.fec[g] = 1..Len(s.fec[g]) - 1
            /\ \A i \in 1..Len(s.fec[g]) - 1 : t.fec[g][i] = s.fec[g][i]
            /\ Len(t.fec[g]) <= t.missing[g]
        BY <1>0, <1>1, <1>3, <1>5, <1>6, <1>7, <3>1, <3>2, SMTT(30)
      <4>2. /\ \A i \in 1..Len(s.fec[g]) : s.fec[g][i].no % Stripes = g
            /\ \A i, j \in 1..Len(s.fec[g]) : s.fec[g][i].no = s.fec[g][j].no => i = j
        BY <1>1, <1>6 DEF Counted, GroupCounted
      <4>3. \A i \in DOMAIN t.fec[g] : i \in 1..Len(s.fec[g]) /\ t.fec[g][i] = s.fec[g][i]
        BY <1>6, <4>1
      <4>4. /\ \A i \in DOMAIN t.fec[g] : t.fec[g][i].no % Stripes = g
            /\ \A i, j \in DOMAIN t.fec[g] : t.fec[g][i].no = t.fec[g][j].no => i = j
        <5>1. ASSUME NEW i \in DOMAIN t.fec[g] PROVE t.fec[g][i].no % Stripes = g
          <6>1. i \in 1..Len(s.fec[g]) /\ t.fec[g][i] = s.fec[g][i]
            BY <4>3
          <6> QED BY <4>2, <6>1
        <5>2. ASSUME NEW i \in DOMAIN t.fec[g], NEW j \in DOMAIN t.fec[g],
                     t.fec[g][i].no = t.fec[g][j].no
              PROVE  i = j
          <6>1. /\ i \in 1..Len(s.fec[g]) /\ t.fec[g][i] = s.fec[g][i]
                /\ j \in 1..Len(s.fec[g]) /\ t.fec[g][j] = s.fec[g][j]
            BY <4>3
          <6> QED BY <4>2, <5>2, <6>1
        <5> QED BY <5>1, <5>2
      <4>5. t.missing[g] = IF t.fec_stripes THEN Cardinality(UnsetIn(t, g)) ELSE 0
        BY <1>3, <3>1
      <4>6. GroupCounted(t, g)
        BY <4>1, <4>4, <4>5 DEF GroupCounted
      <4> QED BY <2>2, <4>6
    <3>3. CASE ~Surplus(s, g)
      <4>1. t.fec[g] = s.fec[g] /\ Len(t.fec[g]) <= t.missing[g]
        BY <1>0, <1>1, <1>3, <1>6, <3>3 DEF Surplus
      <4> QED BY <1>1, <1>3, <2>2, <3>1, <4>1, SMTT(30) DEF Counted, GroupCounted
    <3> QED BY <3>2, <3>3
  <2> QED BY <2>1, <2>2
<1>11. Cardinality(t.map) = Cardinality(s.map) + 1 /\ Cardinality(s.map) \in Nat
  <2> IsFiniteSet(s.map) /\ Cardinality(s.map) \in Nat
    BY SlotFinite
  <2> Cardinality(s.map \cup {b}) = Cardinality(s.map) + 1
    BY FS_AddElement
  <2> QED BY <1>3
<1>12. IsFiniteSet(Kept(s)) /\ Cardinality(Kept(s)) \in Nat
  BY KeptBound DEF Counted
<1>13. t.blocksTransferred = Cardinality(t.map) + Cardinality(Kept(t))
  <2>1. CASE Surplus(s, g)
    <3>1. <<g, Len(s.fec[g])>> \in Kept(s)
      BY <1>0, <1>1, <1>6, <1>7, <2>1, KeptIs
    <3>2. Cardinality(Kept(t)) = Cardinality(Kept(s)) - 1
      BY <1>9, <1>12, <2>1, <3>1, FS_RemoveElement
    <3> QED BY <1>3, <1>11, <1>12, <2>1, <3>2 DEF Counted
  <2>2. CASE ~Surplus(s, g)
    BY <1>3, <1>9, <1>11, <1>12, <2>2 DEF Counted
  <2> QED BY <2>1, <2>2
<1>14. SlotTyped(t)
  <2>1. t.map \subseteq 0..BlocksIn(t.sliceNo) - 1 /\ t.blocksTransferred \in Nat
        /\ t.dataBlocksTransferred \in Nat
    BY <1>0, <1>3
  <2>2. DOMAIN t.mem = 0..SliceBlocks - 1
    BY <1>0, <1>3
  <2>3. t.state = s.state /\ s.state \in Finished \cup {"FREE", "RECEIVING"}
    BY <1>3 DEF SlotTyped
  <2> QED BY <1>0, <1>3, <1>8, <2>1, <2>2, <2>3 DEF SlotTyped
<1>15. Counted(t)
  <2>1. t.sliceNo >= 0 /\ t.dataBlocksTransferred = Cardinality(t.map)
    BY <1>3, <1>11 DEF Counted
  <2> QED BY <1>10, <1>13, <2>1 DEF Counted
<1> QED BY <1>1, <1>3, <1>7, <1>9, <1>14, <1>15 DEF IsFiled

IsGrown(t, s, f, g) ==
  /\ SlotTyped(t) /\ Counted(t) /\ g \in Groups
  /\ t.state = s.state /\ t.sliceNo = s.sliceNo /\ t.bytesKnown /\ t.fec_stripes
  /\ t.map = s.map /\ t.mem = s.mem
  /\ t.fec = [s.fec EXCEPT ![g] = Append(@, [no |-> f, adr |-> nextBlock])]
  /\ Kept(t) = Kept(s) \cup {<<g, Len(s.fec[g]) + 1>>}

\* A FEC block that a group can use.
LEMMA WithParityCounted ==
  ASSUME NEW s, SlotTyped(s), Counted(s), nextBlock \in 1..NR_BLOCKS,
         NEW f \in 0..Stripes * Redundancy - 1,
         WithFec(s).missing[f % Stripes] > Len(s.fec[f % Stripes]),
         \A i \in DOMAIN s.fec[f % Stripes] : s.fec[f % Stripes][i].no # f,
         NEW t, t = WithParity(s, f), NEW g, g = f % Stripes
  PROVE  IsGrown(t, s, f, g)
<1> DEFINE d == [no |-> f, adr |-> nextBlock]
<1>1. g \in Groups /\ f \in Nat
  BY GroupOf
<1>2. d \in Space /\ d.no = f /\ f % Stripes = g
  BY DEF Space
<1> HIDE DEF d
<1>3. PICK u : u = WithFec(WithBytes(s))
  OBVIOUS
<1>4. /\ SlotTyped(u) /\ Counted(u) /\ Kept(u) = Kept(s)
      /\ u.state = s.state /\ u.sliceNo = s.sliceNo /\ u.bytesKnown /\ u.fec_stripes
      /\ u.map = s.map /\ u.mem = s.mem /\ u.fec = s.fec
      /\ u.blocksTransferred = s.blocksTransferred
      /\ u.dataBlocksTransferred = s.dataBlocksTransferred
      /\ u.missing = WithFec(s).missing
  <2> IsPrepared(u, s)
    BY <1>3, PreparedCounted
  <2> QED BY DEF IsPrepared
<1>6. /\ DOMAIN t = Fields /\ t.state = s.state /\ t.sliceNo = s.sliceNo
      /\ t.bytesKnown = TRUE /\ t.map = s.map
      /\ t.blocksTransferred = s.blocksTransferred + 1
      /\ t.dataBlocksTransferred = s.dataBlocksTransferred
      /\ t.mem = s.mem /\ t.fec_stripes = TRUE
      /\ t.missing = u.missing
      /\ t.fec = [s.fec EXCEPT ![g] = Append(@, d)]
  <2> DOMAIN s = Fields /\ s.fec_stripes \in BOOLEAN
    BY DEF SlotTyped
  <2> LooksGrown(t, s, f, g, u)
    BY <1>3, WithParityIs
  <2> QED BY <1>4 DEF d, LooksGrown
<1>7. /\ s.fec \in [Groups -> Seq(Space)] /\ u.missing \in [Groups -> Nat]
      /\ s.fec[g] \in Seq(Space) /\ Len(s.fec[g]) \in Nat /\ DOMAIN s.fec[g] = 1..Len(s.fec[g])
      /\ u.missing[g] \in Nat /\ u.missing[g] > Len(s.fec[g])
      /\ \A i \in DOMAIN s.fec[g] : s.fec[g][i].no # f
  <2>1. s.fec \in [Groups -> Seq(Space)] /\ u.missing \in [Groups -> Nat]
    BY <1>4 DEF SlotTyped
  <2>2. Len(s.fec[g]) \in Nat /\ DOMAIN s.fec[g] = 1..Len(s.fec[g])
    BY <1>1, <2>1, KeptIs
  <2> QED BY <1>1, <1>4, <2>1, <2>2
<1>8. /\ t.fec[g] = Append(s.fec[g], d) /\ \A h \in Groups \ {g} : t.fec[h] = s.fec[h]
      /\ t.fec[g] \in Seq(Space) /\ Len(t.fec[g]) = Len(s.fec[g]) + 1
      /\ DOMAIN t.fec[g] = 1..Len(s.fec[g]) + 1
      /\ \A i \in 1..Len(s.fec[g]) : t.fec[g][i] = s.fec[g][i]
      /\ t.fec[g][Len(s.fec[g]) + 1] = d
  <2>1. t.fec[g] = Append(s.fec[g], d) /\ \A h \in Groups \ {g} : t.fec[h] = s.fec[h]
    BY <1>1, <1>6, <1>7
  <2> QED BY <1>2, <1>7, <2>1, AppendProperties, LenProperties
<1>9. t.fec \in [Groups -> Seq(Space)]
  BY <1>1, <1>6, <1>7, <1>8
<1>10. Kept(t) = Kept(s) \cup {<<g, Len(s.fec[g]) + 1>>} /\ <<g, Len(s.fec[g]) + 1>> \notin Kept(s)
  <2>1. ASSUME NEW k \in Kept(t) PROVE k \in Kept(s) \cup {<<g, Len(s.fec[g]) + 1>>}
    <3>1. k[1] \in Groups /\ k[2] \in 1..Len(t.fec[k[1]]) /\ k = <<k[1], k[2]>>
      BY <1>9, KeptIs
    <3>2. CASE k[2] \in 1..Len(s.fec[k[1]])
      BY <1>7, <3>1, <3>2, KeptIs
    <3>3. CASE k[2] \notin 1..Len(s.fec[k[1]])
      <4> k[1] = g /\ k[2] = Len(s.fec[g]) + 1
        BY <1>7, <1>8, <3>1, <3>3
      <4> QED BY <3>1
    <3> QED BY <3>2, <3>3
  <2>2. ASSUME NEW k \in Kept(s) PROVE k \in Kept(t) /\ k # <<g, Len(s.fec[g]) + 1>>
    <3>1. k[1] \in Groups /\ k[2] \in 1..Len(s.fec[k[1]]) /\ k = <<k[1], k[2]>>
      BY <1>7, KeptIs
    <3>2. k[2] \in 1..Len(t.fec[k[1]]) /\ ~(k[1] = g /\ k[2] = Len(s.fec[g]) + 1)
      BY <1>7, <1>8, <3>1
    <3>3. <<k[1], k[2]>> \in Kept(t)
      BY <1>9, <3>1, <3>2, KeptIs
    <3> QED BY <3>1, <3>2, <3>3
  <2>3. <<g, Len(s.fec[g]) + 1>> \in Kept(t)
    <3> Len(s.fec[g]) + 1 \in 1..Len(t.fec[g])
      BY <1>7, <1>8
    <3> QED BY <1>1, <1>9, KeptIs
  <2> QED BY <2>1, <2>2, <2>3
<1>11. \A h \in Groups : UnsetIn(t, h) = UnsetIn(u, h)
  BY <1>4, <1>6 DEF UnsetIn, Unset
<1>12. ASSUME NEW h \in Groups PROVE GroupCounted(t, h)
  <2>1. t.missing[h] = Cardinality(UnsetIn(t, h))
    BY <1>4, <1>6, <1>11 DEF Counted, GroupCounted
  <2>2. CASE h # g
    <3> t.fec[h] = u.fec[h] /\ t.missing[h] = u.missing[h]
      BY <1>4, <1>6, <1>8, <2>2
    <3> QED BY <1>4, <1>6, <2>1 DEF Counted, GroupCounted
  <2>3. CASE h = g
    <3>1. \A i \in DOMAIN s.fec[g] : s.fec[g][i].no % Stripes = g
      BY <1>1, <1>4 DEF Counted, GroupCounted
    <3>2. \A i, j \in DOMAIN s.fec[g] : s.fec[g][i].no = s.fec[g][j].no => i = j
      BY <1>1, <1>4 DEF Counted, GroupCounted
    <3>3. ASSUME NEW i \in DOMAIN t.fec[g] PROVE t.fec[g][i].no % Stripes = g
      <4>1. CASE i = Len(s.fec[g]) + 1
        BY <1>2, <1>8, <4>1
      <4>2. CASE i # Len(s.fec[g]) + 1
        <5>1. i \in 1..Len(s.fec[g]) /\ i \in DOMAIN s.fec[g] /\ t.fec[g][i] = s.fec[g][i]
          BY <1>7, <1>8, <4>2
        <5> QED BY <3>1, <5>1
      <4> QED BY <4>1, <4>2
    <3>4. \A i, j \in DOMAIN t.fec[g] : t.fec[g][i].no = t.fec[g][j].no => i = j
      <4>1. \A i \in DOMAIN t.fec[g] :
              \/ i \in DOMAIN s.fec[g] /\ t.fec[g][i] = s.fec[g][i] /\ t.fec[g][i].no # f
              \/ i = Len(s.fec[g]) + 1 /\ t.fec[g][i].no = f
        BY <1>2, <1>7, <1>8
      <4> QED BY <3>2, <4>1
    <3>5. Len(t.fec[g]) <= t.missing[g]
      BY <1>6, <1>7, <1>8
    <3> QED BY <1>6, <2>1, <2>3, <3>3, <3>4, <3>5, SMTT(30) DEF GroupCounted
  <2> QED BY <2>2, <2>3
<1>13. IsFiniteSet(Kept(s)) /\ Cardinality(Kept(s)) \in Nat
  BY KeptBound DEF Counted
<1>14. Cardinality(Kept(t)) = Cardinality(Kept(s)) + 1
  BY <1>10, <1>13, FS_AddElement, ZenonT(60)
<1>15. Cardinality(s.map) \in Nat
  BY SlotFinite
<1>16. Counted(t)
  BY <1>6, <1>12, <1>13, <1>14, <1>15 DEF Counted
<1>17. SlotTyped(t)
  <2>1. /\ s.state \in Finished \cup {"FREE", "RECEIVING"} /\ s.sliceNo \in -1..LastSlice
        /\ s.map \subseteq 0..BlocksIn(s.sliceNo) - 1 /\ s.dataBlocksTransferred \in Nat
        /\ s.blocksTransferred \in Nat /\ DOMAIN s.mem = 0..SliceBlocks - 1
    BY DEF SlotTyped
  <2>2. s.blocksTransferred + 1 \in Nat
    BY <2>1
  <2> QED BY <1>6, <1>7, <1>9, <2>1, <2>2 DEF SlotTyped
<1> QED BY <1>1, <1>6, <1>10, <1>16, <1>17 DEF d, IsGrown

\* The least free block space is one of them.
LEMMA LeastIsOne ==
  ASSUME NEW S \in SUBSET Nat, S # {}
  PROVE  Min(S) \in S
<1>1. PICK x \in S : \A y \in S : x <= y
  BY HasLeast
<1> QED BY <1>1 DEF Min

\* A complete slice has for each group as many FEC blocks as it misses data
\* blocks, and a slice with all its data has no FEC block.
LEMMA CompleteGroups ==
  ASSUME NEW s, SlotTyped(s), Counted(s), Complete(s)
  PROVE  /\ \A g \in Groups : Len(s.fec[g]) = Cardinality(UnsetIn(s, g))
         /\ s.dataBlocksTransferred = BlocksIn(s.sliceNo) => Kept(s) = {} /\ Unset(s) = {}
         /\ s.dataBlocksTransferred # BlocksIn(s.sliceNo) => s.fec_stripes
<1>1. /\ Cardinality(Unset(s)) = BlocksIn(s.sliceNo) - Cardinality(s.map)
      /\ BlocksIn(s.sliceNo) \in Nat /\ Cardinality(s.map) \in Nat /\ IsFiniteSet(Unset(s))
  BY SlotFinite
<1>2. /\ IsFiniteSet(Kept(s)) /\ Cardinality(Kept(s)) \in Nat
      /\ Cardinality(Kept(s)) = Cardinality(Unset(s)) =>
           \A g \in Groups : Len(s.fec[g]) = Cardinality(UnsetIn(s, g))
  BY KeptBound DEF Counted
<1>3. /\ s.dataBlocksTransferred = Cardinality(s.map)
      /\ BlocksIn(s.sliceNo) = Cardinality(s.map) + Cardinality(Kept(s))
  BY DEF Counted, Complete
<1>4. Cardinality(Kept(s)) = Cardinality(Unset(s))
  BY <1>1, <1>2, <1>3
<1>5. ASSUME s.dataBlocksTransferred = BlocksIn(s.sliceNo) PROVE Kept(s) = {} /\ Unset(s) = {}
  <2> Cardinality(Kept(s)) = 0 /\ Cardinality(Unset(s)) = 0
    BY <1>1, <1>2, <1>3, <1>5
  <2> QED BY <1>1, <1>2, FS_EmptySet
<1>6. ASSUME s.dataBlocksTransferred # BlocksIn(s.sliceNo), ~s.fec_stripes PROVE FALSE
  <2>1. s.fec \in [Groups -> Seq(Space)]
    BY DEF SlotTyped
  <2>2. \A g \in Groups : Len(s.fec[g]) <= 0
    BY <1>6 DEF Counted, GroupCounted
  <2>3. Kept(s) = {}
    BY <2>1, <2>2, KeptIs
  <2>4. Cardinality(Kept(s)) = 0
    BY <2>3, FS_EmptySet
  <2> QED BY <1>1, <1>3, <1>6, <2>4
<1>7. s.fec_stripes \in BOOLEAN
  BY DEF SlotTyped
<1> QED BY <1>2, <1>4, <1>5, <1>6, <1>7

IsChecked(t, s) ==
  /\ SlotInv(t)
  /\ t.sliceNo = s.sliceNo /\ t.fec = s.fec /\ Kept(t) = Kept(s)
  /\ t.map = s.map /\ t.mem = s.mem /\ t.bytesKnown = s.bytesKnown
  /\ t.fec_stripes = s.fec_stripes
  /\ t.state = s.state \/ (s.state = "RECEIVING" /\ t.state \in {"DONE", "FEC"})
  /\ s.state = "RECEIVING" /\ Complete(s) => t.state # "RECEIVING"

\* checkSliceComplete establishes the invariant of a slot.
LEMMA CheckedKeeps ==
  ASSUME NEW s, SlotTyped(s), s.state = "RECEIVING" => Counted(s) /\ s.bytesKnown,
         s.state # "RECEIVING" => SlotInv(s), NEW t, t = Checked(s)
  PROVE  IsChecked(t, s)
<1>1. CASE s.state # "RECEIVING"
  <2> t = s
    BY <1>1 DEF Checked
  <2> QED BY <1>1 DEF IsChecked
<1>2. CASE s.state = "RECEIVING"
  <2>1. /\ DOMAIN t = Fields /\ t.sliceNo = s.sliceNo
        /\ t.state = (IF ~Complete(s) THEN s.state
                     ELSE IF s.dataBlocksTransferred = BlocksIn(s.sliceNo) THEN "DONE" ELSE "FEC")
        /\ t.bytesKnown = s.bytesKnown /\ t.map = s.map
        /\ t.blocksTransferred = s.blocksTransferred
        /\ t.dataBlocksTransferred = s.dataBlocksTransferred
        /\ t.mem = s.mem /\ t.fec_stripes = s.fec_stripes
        /\ t.missing = s.missing /\ t.fec = s.fec
    <3> DOMAIN s = Fields
      BY DEF SlotTyped
    <3> LooksChecked(t, s)
      BY CheckedIs
    <3> QED BY <1>2 DEF LooksChecked
  <2>2. Kept(t) = Kept(s) /\ (Complete(t) <=> Complete(s))
    BY <2>1 DEF Kept, Complete
  <2>3. SlotTyped(t)
    <3>1. t.state \in Finished \cup {"FREE", "RECEIVING"}
      BY <1>2, <2>1 DEF Finished
    <3> QED BY <2>1, <3>1 DEF SlotTyped
  <2>4. \A g \in Groups : UnsetIn(t, g) = UnsetIn(s, g)
    BY <2>1 DEF UnsetIn, Unset
  <2>5. Counted(t)
    BY <1>2, <2>1, <2>2, <2>4 DEF Counted, GroupCounted
  <2>6. t.state = "RECEIVING" => t.blocksTransferred < BlocksIn(t.sliceNo)
    <3> SUFFICES ASSUME ~Complete(s) PROVE s.blocksTransferred < BlocksIn(s.sliceNo)
      BY <2>1
    <3>1. Cardinality(Unset(s)) = BlocksIn(s.sliceNo) - Cardinality(s.map)
          /\ BlocksIn(s.sliceNo) \in Nat /\ Cardinality(s.map) \in Nat
      BY SlotFinite
    <3>2. Cardinality(Kept(s)) <= Cardinality(Unset(s)) /\ Cardinality(Kept(s)) \in Nat
      BY <1>2, KeptBound DEF Counted
    <3>3. s.blocksTransferred = Cardinality(s.map) + Cardinality(Kept(s))
      BY <1>2 DEF Counted
    <3> QED BY <3>1, <3>2, <3>3 DEF Complete
  <2>7. /\ t.state \in Finished => t.bytesKnown /\ Complete(t)
        /\ t.state = "DONE" => t.dataBlocksTransferred = BlocksIn(t.sliceNo)
        /\ t.state = "FEC" => t.dataBlocksTransferred # BlocksIn(t.sliceNo)
        /\ t.state # "FREE"
    BY <1>2, <2>1, <2>2 DEF Finished
  <2>8. SlotInv(t)
    BY <2>3, <2>5, <2>6, <2>7 DEF SlotInv
  <2> QED BY <1>2, <2>1, <2>2, <2>8 DEF IsChecked
<1> QED BY <1>1, <1>2

-----------------------------------------------------------------------------
(* What the handlers do to the state *)

LEMMA MessageIs ==
  ASSUME NEW m \in Messages
  PROVE  /\ m.sliceNo \in 0..LastSlice /\ m.type \in {"data", "fec", "reqack"}
         /\ m.type = "data" => m.block \in 0..BlocksIn(m.sliceNo) - 1
         /\ m.type = "fec" => m.block \in 0..Stripes * Redundancy - 1
<1>1. PICK n \in 0..LastSlice : m \in DataMsg(n) \cup FecMsg(n) \cup ReqAckMsg(n)
  BY DEF Messages
<1> QED BY <1>1 DEF DataMsg, FecMsg, ReqAckMsg

\* The network thread goes on to check a slice that changed its state.
NetEffect(m, s, t) ==
  /\ netPc' \in {"dispatch", "complete", "advance"}
  /\ netPos' \in Slots /\ netMsg' \in Messages \cup {NoMsg}
  /\ netPc' = "complete" => /\ netMsg' = m /\ s.state = "RECEIVING"
                            /\ t.state \in {"DONE", "FEC"}

Stored(m, p, s, t) == slices' = [slices EXCEPT ![p] = t] /\ NetEffect(m, s, t)
Continues(p, s, m, checks) == \E advances \in BOOLEAN : Continue(p, s, m, checks, advances)

LEMMA ContinueEffect ==
  ASSUME NEW m \in Messages, NEW p, NEW s, NEW checks \in BOOLEAN,
         receivedPtr \in Slots, Continues(p, s, m, checks),
         NEW t, t = IF checks THEN Checked(s) ELSE s,
         checks => IsChecked(t, s), NEW r, r.state = s.state
  PROVE  Stored(m, p, r, t)
<1>1. slices' = [slices EXCEPT ![p] = t]
  BY DEF Continue, Continues
<1>2. 0 \in Slots
  BY Sizes DEF Slots
<1>3. /\ checks /\ t.state # s.state => netPc' = "complete" /\ netPos' = receivedPtr /\ netMsg' = m
      /\ ~(checks /\ t.state # s.state) =>
           \/ netPc' = "advance" /\ netPos' = receivedPtr /\ netMsg' = m
           \/ netPc' = "dispatch" /\ netPos' = 0 /\ netMsg' = NoMsg
  BY DEF Continue, Continues
<1>4. checks => t.state = s.state \/ (s.state = "RECEIVING" /\ t.state \in {"DONE", "FEC"})
  BY DEF IsChecked
<1> QED BY <1>1, <1>2, <1>3, <1>4 DEF NetEffect, Stored

\* A slot keeps its slice, which may become complete.
SlotEffect(s, t) ==
  /\ SlotInv(t)
  /\ t.sliceNo = s.sliceNo
  /\ t.state = s.state \/ (s.state = "RECEIVING" /\ t.state \in {"DONE", "FEC"})
  /\ s.bytesKnown => t.bytesKnown
  /\ t.bytesKnown \/ t = s
  /\ s.state = "RECEIVING" /\ s.map = {} => t.bytesKnown

\* Its data: one more block, or the same.
MemEffect(s, t) ==
  \/ t.map = s.map /\ t.mem = s.mem
  \/ /\ s.state = "RECEIVING"
     /\ \E b \in 0..BlocksIn(s.sliceNo) - 1 :
          /\ t.map = s.map \cup {b}
          /\ t.mem = [s.mem EXCEPT ![b] = Content(s.sliceNo, b)]

\* Its FEC blocks: the same, one less for the local stack, or one more from it
\* or from the reservoir.
SurplusEffect(s, t, g) ==
  /\ s.state = "RECEIVING" /\ g \in Groups /\ Len(s.fec[g]) > 0
  /\ t.fec = [s.fec EXCEPT ![g] = Front(@)]
  /\ Kept(t) = Kept(s) \ {<<g, Len(s.fec[g])>>}
  /\ local' = Append(local, Last(s.fec[g]).adr)
  /\ heap' = [heap EXCEPT ![Last(s.fec[g]).adr] = 0]
  /\ UNCHANGED <<freeBlocks, nextBlock>>

ParityEffect(m, s, t, g) ==
  /\ s.state = "RECEIVING" /\ g \in Groups
  /\ t.fec = [s.fec EXCEPT ![g] = Append(@, [no |-> m.block, adr |-> nextBlock])]
  /\ Kept(t) = Kept(s) \cup {<<g, Len(s.fec[g]) + 1>>}
  /\ heap' = [heap EXCEPT ![nextBlock] = Parity(s.sliceNo, m.block)]
  /\ \/ /\ local # <<>> /\ nextBlock' = Last(local) /\ local' = Front(local)
        /\ UNCHANGED freeBlocks
     \/ /\ nextBlock' \in freeBlocks /\ freeBlocks' = freeBlocks \ {nextBlock'}
        /\ UNCHANGED local

SpaceEffect(m, s, t) ==
  \/ t.fec = s.fec /\ Kept(t) = Kept(s) /\ UNCHANGED spaces
  \/ \E g \in Groups : SurplusEffect(s, t, g)
  \/ \E g \in Groups : ParityEffect(m, s, t, g)

\* The FEC thread appears with the first FEC block.
ModeEffect(s, t) ==
  /\ use_fec' \in BOOLEAN /\ (use_fec => use_fec')
  /\ fecPc' = IF use_fec' /\ ~use_fec THEN "wait" ELSE fecPc
  /\ ~use_fec' /\ ~s.fec_stripes => ~t.fec_stripes

MemoryEffect(s, t) ==
  freeMem' = freeMem - IF t.bytesKnown THEN MemoryTaken(s) ELSE 0

AckEffect(m, t) ==
  \/ acked' = acked
  \/ acked' = acked \cup {m.sliceNo} /\ t.state \in Finished \cup {"FREE"}

Effect(m, p, s, t) ==
  /\ Stored(m, p, s, t) /\ SlotEffect(s, t) /\ MemEffect(s, t) /\ SpaceEffect(m, s, t)
  /\ ModeEffect(s, t) /\ MemoryEffect(s, t) /\ AckEffect(m, t)

\* What a handler may rely on: a slice as the invariant has it, or one that
\* begins, and a space for a FEC block it can use.
Entering(m, s) ==
  /\ SlotTyped(s)
  /\ m \in Messages /\ s.sliceNo = m.sliceNo
  /\ s.state # "FREE" => Counted(s)
  /\ s.state # "RECEIVING" => SlotInv(s)
  /\ SlotInv(s) \/ (s.state = "RECEIVING" /\ s.map = {} /\ s.fec = NoFec)
  /\ Useful(s, m) => SpaceAvailable

StateTyped ==
  /\ receivedPtr \in Slots /\ use_fec \in BOOLEAN
  /\ nextBlock \in 1..NR_BLOCKS /\ local \in Seq(1..NR_BLOCKS)
  /\ freeBlocks \subseteq 1..NR_BLOCKS /\ heap = [i \in 1..NR_BLOCKS |-> heap[i]]
  /\ freeMem \in Nat

LEMMA DataEffect ==
  ASSUME NEW m, NEW p, NEW s, Entering(m, s), StateTyped, m.type = "data",
         ProcessData(m, p, s)
  PROVE  \E t : Effect(m, p, s, t)
<1>0. /\ m \in Messages /\ SlotTyped(s) /\ s.sliceNo = m.sliceNo
      /\ m.block \in 0..BlocksIn(s.sliceNo) - 1 /\ receivedPtr \in Slots
      /\ UNCHANGED <<freeBlocks, nextBlock, use_fec, fecPc, acked>>
  BY MessageIs DEF Entering, StateTyped, ProcessData
<1>u. AckEffect(m, s) /\ \A t : AckEffect(m, t)
  BY <1>0 DEF AckEffect
<1>m. ASSUME NEW t, t.fec_stripes = s.fec_stripes PROVE ModeEffect(s, t)
  BY <1>0, <1>m DEF ModeEffect, StateTyped
<1>1. CASE s.state = "RECEIVING" /\ m.block \notin s.map
  <2> DEFINE g == m.block % Stripes
  <2>1. PICK r : r = WithData(s, m.block)
    OBVIOUS
  <2>2. IsFiled(r, s, m.block, g)
    <3> Counted(s)
      BY <1>1 DEF Entering
    <3> QED BY <1>0, <1>1, <2>1, WithDataCounted
  <2> HIDE DEF g
  <2>3. /\ SlotTyped(r) /\ Counted(r) /\ g \in Groups
        /\ r.state = s.state /\ r.sliceNo = s.sliceNo /\ r.bytesKnown
        /\ r.fec_stripes = s.fec_stripes /\ r.map = s.map \cup {m.block}
        /\ r.mem = [s.mem EXCEPT ![m.block] = Content(s.sliceNo, m.block)]
        /\ Surplus(s, g) => /\ Len(s.fec[g]) > 0
                            /\ r.fec = [s.fec EXCEPT ![g] = Front(@)]
                            /\ Kept(r) = Kept(s) \ {<<g, Len(s.fec[g])>>}
        /\ ~Surplus(s, g) => r.fec = s.fec /\ Kept(r) = Kept(s)
    BY <2>2 DEF IsFiled
  <2>4. PICK t : t = Checked(r)
    OBVIOUS
  <2>5. IsChecked(t, r)
    BY <1>1, <2>3, <2>4, CheckedKeeps
  <2>6. /\ SlotInv(t) /\ t.sliceNo = r.sliceNo /\ t.fec = r.fec /\ Kept(t) = Kept(r)
        /\ t.map = r.map /\ t.mem = r.mem /\ t.bytesKnown = r.bytesKnown
        /\ t.fec_stripes = r.fec_stripes
        /\ t.state = r.state \/ (r.state = "RECEIVING" /\ t.state \in {"DONE", "FEC"})
    BY <2>5 DEF IsChecked
  <2>7. /\ Continue(p, r, m, TRUE, FALSE)
        /\ local' = local \o FreedByData(s, m.block)
        /\ heap' = [i \in DOMAIN heap |-> IF i \in Range(FreedByData(s, m.block))
                                          THEN 0 ELSE heap[i]]
        /\ freeMem' = freeMem - MemoryTaken(s)
    BY <1>1, <2>1 DEF ProcessData
  <2>8. Stored(m, p, s, t)
    <3> Continues(p, r, m, TRUE)
      BY <2>7 DEF Continues
    <3> QED BY <1>0, <2>3, <2>4, <2>5, ContinueEffect
  <2>9. SlotEffect(s, t) /\ MemEffect(s, t) /\ MemoryEffect(s, t)
    <3>1. SlotEffect(s, t)
      BY <1>1, <2>3, <2>6 DEF SlotEffect
    <3>2. MemEffect(s, t)
      BY <1>0, <1>1, <2>3, <2>6 DEF MemEffect
    <3> QED BY <2>3, <2>6, <2>7, <3>1, <3>2 DEF MemoryEffect
  <2>10. SpaceEffect(m, s, t)
    <3>1. CASE Surplus(s, g)
      <4>1. FreedByData(s, m.block) = <<Last(s.fec[g]).adr>>
        BY <3>1 DEF FreedByData, g
      <4>2. PICK a : a = Last(s.fec[g]).adr
        OBVIOUS
      <4>3. Range(<<a>>) = {a} /\ local \o <<a>> = Append(local, a)
        <5> local \in Seq(1..NR_BLOCKS)
          BY DEF StateTyped
        <5> QED BY DEF Range
      <4>4. heap' = [heap EXCEPT ![a] = 0] /\ local' = Append(local, a)
        BY <2>7, <4>1, <4>2, <4>3
      <4>5. SurplusEffect(s, t, g)
        BY <1>0, <1>1, <2>3, <2>6, <3>1, <4>2, <4>4 DEF SurplusEffect
      <4> QED BY <2>3, <4>5 DEF SpaceEffect
    <3>2. CASE ~Surplus(s, g)
      <4>1. FreedByData(s, m.block) = <<>>
        BY <3>2 DEF FreedByData, g
      <4>2. local \o <<>> = local /\ Range(<<>>) = {} /\ heap = [i \in DOMAIN heap |-> heap[i]]
        <5>1. local \in Seq(1..NR_BLOCKS)
          BY DEF StateTyped
        <5>3. Range(<<>>) = {}
          BY DEF Range
        <5>4. DOMAIN heap = 1..NR_BLOCKS /\ heap = [i \in 1..NR_BLOCKS |-> heap[i]]
          BY DEF StateTyped
        <5> QED BY <5>1, <5>3, <5>4, ConcatEmptySeq
      <4>3. local' = local /\ heap' = heap
        BY <2>7, <4>1, <4>2
      <4> QED BY <1>0, <2>3, <2>6, <3>2, <4>3 DEF SpaceEffect, spaces
    <3> QED BY <3>1, <3>2
  <2> QED BY <1>u, <1>m, <2>3, <2>6, <2>8, <2>9, <2>10 DEF Effect
<1>2. CASE ~(s.state = "RECEIVING" /\ m.block \notin s.map)
  <2>1. Continue(p, s, m, FALSE, FALSE) /\ UNCHANGED <<local, heap, freeMem>>
    BY <1>2 DEF ProcessData
  <2>2. Stored(m, p, s, s)
    <3> Continues(p, s, m, FALSE)
      BY <2>1 DEF Continues
    <3> QED BY <1>0, ContinueEffect
  <2>3. SlotInv(s) /\ ~(s.state = "RECEIVING" /\ s.map = {})
    BY <1>2 DEF Entering
  <2>4. SlotEffect(s, s) /\ MemEffect(s, s)
    BY <2>3 DEF SlotEffect, MemEffect
  <2>5. SpaceEffect(m, s, s)
    BY <1>0, <2>1 DEF SpaceEffect, spaces
  <2>6. MemoryEffect(s, s)
    BY <2>1 DEF MemoryEffect, MemoryTaken, StateTyped
  <2> QED BY <1>u, <1>m, <2>2, <2>4, <2>5, <2>6 DEF Effect
<1> QED BY <1>1, <1>2

LEMMA PreparedInv ==
  ASSUME NEW s, SlotInv(s), s.state # "FREE", NEW u, IsPrepared(u, s)
  PROVE  SlotInv(u)
  BY DEF SlotInv, IsPrepared, Complete

\* A repaired slice uses no more FEC blocks.
LEMMA RepairedUsesNone ==
  ASSUME NEW m \in Messages, NEW s, SlotInv(s), s.state = "FEC_DONE"
  PROVE  ~Useful(s, m)
<1> SUFFICES ASSUME Useful(s, m) PROVE FALSE
  OBVIOUS
<1>1. PICK g : g = m.block % Stripes
  OBVIOUS
<1>2. m.type = "fec" /\ WithFec(s).missing[g] > Len(WithFec(s).fec[g])
  BY <1>1 DEF Useful
<1>3. g \in Groups
  BY <1>1, <1>2, MessageIs, GroupOf
<1>4. SlotTyped(s) /\ Counted(s) /\ Complete(s)
  BY DEF SlotInv, Finished
<1>5. PICK u : u = WithFec(WithBytes(s))
  OBVIOUS
<1>6. IsPrepared(u, s)
  BY <1>4, <1>5, PreparedCounted
<1>7. /\ u.missing = WithFec(s).missing /\ WithFec(s).fec = s.fec /\ u.fec_stripes
      /\ UnsetIn(u, g) = UnsetIn(s, g) /\ GroupCounted(u, g)
  BY <1>3, <1>6 DEF IsPrepared, Counted, UnsetIn, Unset
<1>8. Len(s.fec[g]) = Cardinality(UnsetIn(s, g)) /\ Len(s.fec[g]) \in Nat
  <2> s.fec \in [Groups -> Seq(Space)]
    BY <1>4 DEF SlotTyped
  <2> QED BY <1>3, <1>4, CompleteGroups, KeptIs
<1> QED BY <1>2, <1>7, <1>8 DEF GroupCounted

LEMMA FecEffect ==
  ASSUME NEW m, NEW p, NEW s, Entering(m, s), StateTyped, m.type = "fec",
         ProcessFec(m, p, s)
  PROVE  \E t : Effect(m, p, s, t)
<1>0. /\ m \in Messages /\ SlotTyped(s) /\ s.sliceNo = m.sliceNo
      /\ m.block \in 0..Stripes * Redundancy - 1 /\ receivedPtr \in Slots
      /\ s.state \in Finished \cup {"FREE", "RECEIVING"} /\ s.bytesKnown \in BOOLEAN
      /\ acked' = acked /\ nextBlock \in 1..NR_BLOCKS
  <2> s.state \in Finished \cup {"FREE", "RECEIVING"} /\ s.bytesKnown \in BOOLEAN
    BY DEF Entering, SlotTyped
  <2> QED BY MessageIs DEF Entering, StateTyped, ProcessFec
<1>u. \A t : AckEffect(m, t)
  BY <1>0 DEF AckEffect
<1>1. CASE s.state \in {"FREE", "DONE", "FEC"}
  <2>1. Continue(p, s, m, FALSE, FALSE) /\ UNCHANGED <<spaces, freeMem, use_fec, fecPc>>
    BY <1>1 DEF ProcessFec
  <2>2. Stored(m, p, s, s)
    <3> Continues(p, s, m, FALSE)
      BY <2>1 DEF Continues
    <3> QED BY <1>0, ContinueEffect
  <2>3. SlotInv(s) /\ s.state # "RECEIVING"
    BY <1>1 DEF Entering
  <2>4. SlotEffect(s, s) /\ MemEffect(s, s)
    BY <2>3 DEF SlotEffect, MemEffect
  <2>5. SpaceEffect(m, s, s)
    BY <2>1 DEF SpaceEffect
  <2>6. MemoryEffect(s, s) /\ ModeEffect(s, s)
    BY <2>1 DEF MemoryEffect, MemoryTaken, ModeEffect, StateTyped
  <2> QED BY <1>u, <2>2, <2>4, <2>5, <2>6 DEF Effect
<1>2. CASE s.state \in {"RECEIVING", "FEC_DONE"}
  <2> DEFINE g == m.block % Stripes
  <2>1. PICK u : u = WithFec(WithBytes(s))
    OBVIOUS
  <2>2. Counted(s) /\ IsPrepared(u, s)
    <3> Counted(s)
      BY <1>2 DEF Entering
    <3> QED BY <1>0, <2>1, PreparedCounted
  <2>3. /\ SlotTyped(u) /\ Counted(u) /\ Kept(u) = Kept(s)
        /\ u.state = s.state /\ u.sliceNo = s.sliceNo /\ u.bytesKnown /\ u.fec_stripes
        /\ u.map = s.map /\ u.mem = s.mem /\ u.fec = s.fec
        /\ u.missing = WithFec(s).missing /\ WithFec(s).fec = s.fec
    BY <2>2 DEF IsPrepared
  <2>4. /\ freeMem' = freeMem - MemoryTaken(s) /\ use_fec' = TRUE
        /\ fecPc' = IF use_fec THEN fecPc ELSE "wait"
    BY <1>2 DEF ProcessFec
  <2>5. g \in Groups
    BY <1>0, GroupOf
  <2>6. ASSUME NEW t, t.bytesKnown PROVE MemoryEffect(s, t) /\ ModeEffect(s, t)
    BY <2>4, <2>6 DEF MemoryEffect, ModeEffect, StateTyped
  <2>7. CASE Useful(s, m)
    <3>1. s.state = "RECEIVING"
      BY <1>0, <1>2, <2>7, RepairedUsesNone DEF Entering
    <3>2. PICK r : r = WithParity(s, m.block)
      OBVIOUS
    <3>3. WithFec(s).missing[g] > Len(s.fec[g]) /\ \A i \in DOMAIN s.fec[g] : s.fec[g][i].no # m.block
      BY <2>3, <2>7 DEF Useful
    <3>4. IsGrown(r, s, m.block, g)
      BY <1>0, <2>2, <3>2, <3>3, WithParityCounted
    <3> HIDE DEF g
    <3>5. /\ SlotTyped(r) /\ Counted(r)
          /\ r.state = s.state /\ r.sliceNo = s.sliceNo /\ r.bytesKnown /\ r.fec_stripes
          /\ r.map = s.map /\ r.mem = s.mem
          /\ r.fec = [s.fec EXCEPT ![g] = Append(@, [no |-> m.block, adr |-> nextBlock])]
          /\ Kept(r) = Kept(s) \cup {<<g, Len(s.fec[g]) + 1>>}
      BY <3>4 DEF IsGrown
    <3>6. PICK t : t = Checked(r)
      OBVIOUS
    <3>7. IsChecked(t, r)
      BY <3>1, <3>5, <3>6, CheckedKeeps
    <3>8. /\ SlotInv(t) /\ t.sliceNo = r.sliceNo /\ t.fec = r.fec /\ Kept(t) = Kept(r)
          /\ t.map = r.map /\ t.mem = r.mem /\ t.bytesKnown = r.bytesKnown
          /\ t.state = r.state \/ (r.state = "RECEIVING" /\ t.state \in {"DONE", "FEC"})
      BY <3>7 DEF IsChecked
    <3>9. /\ Continue(p, r, m, TRUE, TRUE)
          /\ heap' = [heap EXCEPT ![nextBlock] = Parity(s.sliceNo, m.block)]
          /\ \/ /\ local # <<>> /\ nextBlock' = Last(local) /\ local' = Front(local)
                /\ UNCHANGED freeBlocks
             \/ /\ local = <<>> /\ nextBlock' = Min(freeBlocks)
                /\ freeBlocks' = freeBlocks \ {nextBlock'}
                /\ UNCHANGED local
      BY <1>2, <2>7, <3>2 DEF ProcessFec
    <3>10. Stored(m, p, s, t)
      <4> Continues(p, r, m, TRUE)
        BY <3>9 DEF Continues
      <4> QED BY <1>0, <3>5, <3>6, <3>7, ContinueEffect
    <3>11. local = <<>> => Min(freeBlocks) \in freeBlocks
      <4> freeBlocks \in SUBSET Nat
        BY DEF StateTyped
      <4> local = <<>> => freeBlocks # {}
        BY <2>7 DEF Entering, SpaceAvailable
      <4> QED BY LeastIsOne
    <3>12. ParityEffect(m, s, t, g)
      BY <2>5, <3>1, <3>5, <3>8, <3>9, <3>11 DEF ParityEffect
    <3>13. SpaceEffect(m, s, t)
      BY <2>5, <3>12 DEF SpaceEffect
    <3>14. SlotEffect(s, t) /\ MemEffect(s, t)
      BY <3>1, <3>5, <3>8 DEF SlotEffect, MemEffect
    <3> QED BY <1>u, <2>6, <3>5, <3>8, <3>10, <3>13, <3>14 DEF Effect
  <2>8. CASE ~Useful(s, m)
    <3> DEFINE useless == u.missing[g] <= Len(u.fec[g])
    <3>2. useless \in BOOLEAN
      OBVIOUS
    <3>3. Continue(p, u, m, useless, useless) /\ UNCHANGED spaces
      BY <1>2, <2>1, <2>8 DEF ProcessFec
    <3> HIDE DEF useless
    <3>4. PICK t : t = IF useless THEN Checked(u) ELSE u
      OBVIOUS
    <3>5. SlotInv(s) => SlotInv(u)
      BY <1>2, <2>2, PreparedInv
    <3>6. useless => IsChecked(t, u)
      <4> u.state # "RECEIVING" => SlotInv(u)
        BY <1>2, <2>3, <3>5 DEF Entering
      <4> QED BY <2>3, <3>4, CheckedKeeps
    <3>7. ~useless => SlotInv(s)
      <4> SUFFICES ASSUME ~useless, s.fec = NoFec, s.state = "RECEIVING" PROVE FALSE
        BY DEF Entering
      <4>1. s.fec[g] = <<>>
        BY <2>5 DEF NoFec
      <4>2. u.missing[g] \in Nat
        BY <2>3, <2>5 DEF SlotTyped
      <4>3. u.missing[g] > 0
        <5> Len(u.fec[g]) = 0
          BY <2>3, <4>1
        <5> QED BY <4>2 DEF useless
      <4> QED BY <2>3, <2>8, <4>1, <4>3 DEF Useful
    <3>8. /\ SlotInv(t) /\ t.sliceNo = s.sliceNo /\ t.fec = s.fec /\ Kept(t) = Kept(s)
          /\ t.map = s.map /\ t.mem = s.mem /\ t.bytesKnown
          /\ t.state = s.state \/ (s.state = "RECEIVING" /\ t.state \in {"DONE", "FEC"})
      <4>1. CASE useless
        BY <2>3, <3>6, <4>1 DEF IsChecked
      <4>2. CASE ~useless
        BY <2>3, <3>4, <3>5, <3>7, <4>2
      <4> QED BY <3>2, <4>1, <4>2
    <3>9. Stored(m, p, s, t)
      <4> Continues(p, u, m, useless)
        BY <3>2, <3>3 DEF Continues
      <4> QED BY <1>0, <2>3, <3>2, <3>4, <3>6, ContinueEffect
    <3>10. SlotEffect(s, t) /\ MemEffect(s, t) /\ SpaceEffect(m, s, t)
      BY <3>3, <3>8 DEF SlotEffect, MemEffect, SpaceEffect
    <3> QED BY <1>u, <2>6, <3>8, <3>9, <3>10 DEF Effect
  <2> QED BY <2>7, <2>8
<1> QED BY <1>0, <1>1, <1>2 DEF Finished

LEMMA ReqAckEffect ==
  ASSUME NEW m, NEW p, NEW s, Entering(m, s), StateTyped, ProcessReqAck(m, p, s)
  PROVE  \E t : Effect(m, p, s, t)
<1>1. PICK w : w = WithBytes(s)
  OBVIOUS
<1>2. /\ DOMAIN w = Fields /\ w.state = s.state /\ w.sliceNo = s.sliceNo
      /\ w.bytesKnown = TRUE /\ w.map = s.map
      /\ w.blocksTransferred = s.blocksTransferred
      /\ w.dataBlocksTransferred = s.dataBlocksTransferred
      /\ w.mem = s.mem /\ w.fec_stripes = s.fec_stripes
      /\ w.missing = s.missing /\ w.fec = s.fec
  <2> DOMAIN s = Fields
    BY DEF Entering, SlotTyped
  <2> LooksSized(w, s)
    BY <1>1, WithBytesIs
  <2> QED BY DEF LooksSized
<1>3. SlotTyped(w) /\ Kept(w) = Kept(s) /\ (Complete(w) <=> Complete(s))
  BY <1>2 DEF Entering, SlotTyped, Kept, Complete
<1>4. Counted(s) => Counted(w)
  <2> \A g \in Groups : UnsetIn(w, g) = UnsetIn(s, g)
    BY <1>2 DEF UnsetIn, Unset
  <2> QED BY <1>2, <1>3 DEF Counted, GroupCounted
<1>5. s.state # "RECEIVING" => SlotInv(w)
  <2> SUFFICES ASSUME s.state # "RECEIVING" PROVE SlotInv(w)
    OBVIOUS
  <2> SlotInv(s)
    BY DEF Entering
  <2> QED BY <1>2, <1>3, <1>4 DEF SlotInv
<1>6. PICK t : t = Checked(w)
  OBVIOUS
<1>7. IsChecked(t, w)
  BY <1>2, <1>3, <1>4, <1>5, <1>6, CheckedKeeps DEF Entering
<1>8. /\ SlotInv(t) /\ t.sliceNo = s.sliceNo /\ t.fec = s.fec /\ Kept(t) = Kept(s)
      /\ t.map = s.map /\ t.mem = s.mem /\ t.bytesKnown
      /\ t.fec_stripes = s.fec_stripes
      /\ t.state = s.state \/ (s.state = "RECEIVING" /\ t.state \in {"DONE", "FEC"})
      /\ s.state = "RECEIVING" /\ Complete(s) => t.state # "RECEIVING"
  BY <1>2, <1>3, <1>7 DEF IsChecked
<1>9. /\ acked' = (IF Complete(s) THEN acked \cup {m.sliceNo} ELSE acked)
      /\ Continue(p, w, m, TRUE, TRUE)
      /\ freeMem' = freeMem - MemoryTaken(s)
      /\ UNCHANGED <<spaces, use_fec, fecPc>>
  BY <1>1 DEF ProcessReqAck
<1>10. Stored(m, p, s, t)
  <2>1. Continues(p, w, m, TRUE)
    BY <1>9 DEF Continues
  <2>2. m \in Messages /\ receivedPtr \in Slots
    BY DEF Entering, StateTyped
  <2> QED BY <1>2, <1>6, <1>7, <2>1, <2>2, ContinueEffect
<1>11. SlotEffect(s, t) /\ MemEffect(s, t) /\ SpaceEffect(m, s, t)
  BY <1>8, <1>9 DEF SlotEffect, MemEffect, SpaceEffect
<1>12. ModeEffect(s, t) /\ MemoryEffect(s, t)
  BY <1>8, <1>9 DEF ModeEffect, MemoryEffect, StateTyped
<1>13. AckEffect(m, t)
  <2> s.state \in Finished \cup {"FREE", "RECEIVING"}
    BY DEF Entering, SlotTyped
  <2> QED BY <1>8, <1>9 DEF AckEffect, Finished
<1> QED BY <1>10, <1>11, <1>12, <1>13 DEF Effect

\* Whatever block or request is processed.
LEMMA ProcessEffect ==
  ASSUME NEW m, NEW p, NEW s, Entering(m, s), StateTyped, Process(m, p, s)
  PROVE  \E t : Effect(m, p, s, t)
  BY DataEffect, FecEffect, ReqAckEffect DEF Process

-----------------------------------------------------------------------------
(* Block spaces *)

\* A says which space each FEC block that is held occupies, q is the local
\* stack, n the space for the next block, F the reservoir.
Shared(A, q, n, F) ==
  /\ IsInjective(q) /\ IsInjective(A)
  /\ n \notin Range(q) \cup Range(A) \cup F
  /\ Range(q) \cap Range(A) = {}
  /\ F \cap (Range(q) \cup Range(A)) = {}
  /\ {n} \cup Range(q) \cup Range(A) \cup F = 1..NR_BLOCKS

\* B is A without blocks R of slot p, or with block x in space a.
Without(B, A, p, R) == B = [h \in DOMAIN A \ ({p} \X R) |-> A[h]]

With(B, A, x, a) ==
  /\ B = [h \in DOMAIN A \cup {x} |-> IF h = x THEN a ELSE A[h]]
  /\ x \notin DOMAIN A

\* Blocks K return their spaces to the reservoir.
LEMMA SharedRelease ==
  ASSUME NEW A, NEW q, NEW n, NEW F, Shared(A, q, n, F), NEW K,
         NEW B, B = [h \in DOMAIN A \ K |-> A[h]]
  PROVE  Shared(B, q, n, F \cup {A[h] : h \in K \cap DOMAIN A})
<1>1. IsInjective(B)
  BY DEF Shared, IsInjective
<1>2. Range(A) = Range(B) \cup {A[h] : h \in K \cap DOMAIN A}
  BY DEF Range
<1>3. Range(B) \cap {A[h] : h \in K \cap DOMAIN A} = {}
  <2> SUFFICES ASSUME NEW h \in DOMAIN A \ K, NEW k \in K \cap DOMAIN A, A[h] = A[k] PROVE FALSE
    BY DEF Range
  <2> QED BY DEF Shared, IsInjective
<1> QED BY <1>1, <1>2, <1>3 DEF Shared

\* The space of one block goes to the local stack.
LEMMA SharedSurplus ==
  ASSUME NEW A, NEW q \in Seq(1..NR_BLOCKS), NEW n, NEW F, Shared(A, q, n, F),
         NEW k \in DOMAIN A, NEW B, B = [h \in DOMAIN A \ {k} |-> A[h]]
  PROVE  Shared(B, Append(q, A[k]), n, F)
<1>1. IsInjective(B)
  BY DEF Shared, IsInjective
<1>2. Range(A) = Range(B) \cup {A[k]} /\ A[k] \notin Range(B)
  BY DEF Range, Shared, IsInjective
<1>3. PICK a : a = A[k]
  OBVIOUS
<1>4. /\ DOMAIN Append(q, a) = 1..Len(q) + 1 /\ DOMAIN q = 1..Len(q) /\ Len(q) \in Nat
      /\ Append(q, a)[Len(q) + 1] = a /\ \A i \in 1..Len(q) : Append(q, a)[i] = q[i]
  <2> a \in 1..NR_BLOCKS
    BY <1>2, <1>3 DEF Shared
  <2> QED BY AppendProperties, LenProperties
<1>5. Range(Append(q, a)) = Range(q) \cup {a}
  <2>1. \A i \in 1..Len(q) + 1 : i \in 1..Len(q) \/ i = Len(q) + 1
    BY <1>4
  <2>2. \A i \in 1..Len(q) : i \in 1..Len(q) + 1
    BY <1>4
  <2>3. Len(q) + 1 \in 1..Len(q) + 1
    BY <1>4
  <2> QED BY <1>4, <2>1, <2>2, <2>3 DEF Range
<1>6. a \notin Range(q)
  BY <1>2, <1>3 DEF Shared
<1>7. IsInjective(Append(q, a))
  <2>1. \A i \in 1..Len(q) : Append(q, a)[i] # a /\ Append(q, a)[i] = q[i]
    BY <1>4, <1>6 DEF Range
  <2>2. \A i, j \in 1..Len(q) : q[i] = q[j] => i = j
    BY <1>4 DEF Shared, IsInjective
  <2>3. \A i \in 1..Len(q) + 1 : i \in 1..Len(q) \/ i = Len(q) + 1
    BY <1>4
  <2> QED BY <1>4, <2>1, <2>2, <2>3 DEF IsInjective
<1> QED BY <1>1, <1>2, <1>3, <1>5, <1>6, <1>7, ZenonT(60) DEF Shared

\* A block takes the space that waits for it, and another one comes from the
\* local stack or from the reservoir.
LEMMA SharedParity ==
  ASSUME NEW A, NEW q \in Seq(1..NR_BLOCKS), NEW n, NEW F, Shared(A, q, n, F),
         NEW k, NEW B, With(B, A, k, n)
  PROVE  /\ q # <<>> => Shared(B, Front(q), Last(q), F)
         /\ \A x \in F : Shared(B, q, x, F \ {x})
<1>1. IsInjective(B)
  <2> \A h \in DOMAIN A : A[h] # n
    BY DEF Shared, Range
  <2> QED BY DEF Shared, IsInjective, With
<1>2. Range(B) = Range(A) \cup {n}
  BY DEF Range, With
<1>3. ASSUME q # <<>> PROVE Shared(B, Front(q), Last(q), F)
  <2>1. Len(q) \in Nat /\ Len(q) > 0 /\ DOMAIN q = 1..Len(q)
    BY <1>3, EmptySeq, LenProperties
  <2>2. /\ DOMAIN Front(q) = 1..Len(q) - 1 /\ Last(q) = q[Len(q)]
        /\ \A i \in 1..Len(q) - 1 : Front(q)[i] = q[i]
    BY <2>1, FrontIs
  <2>3. \A i, j \in 1..Len(q) : q[i] = q[j] => i = j
    BY <2>1 DEF Shared, IsInjective
  <2>4. IsInjective(Front(q))
    BY <2>1, <2>2, <2>3 DEF IsInjective
  <2>5. Range(q) = Range(Front(q)) \cup {Last(q)} /\ Last(q) \notin Range(Front(q))
    <3>0. \A l \in Nat : /\ \A i \in 1..l : i \in 1..l - 1 \/ i = l
                        /\ \A i \in 1..l - 1 : i \in 1..l /\ i # l
      OBVIOUS
    <3>1. \A i \in 1..Len(q) : i \in 1..Len(q) - 1 \/ i = Len(q)
      BY <2>1, <3>0
    <3>2. \A i \in 1..Len(q) - 1 : i \in 1..Len(q) /\ i # Len(q)
      BY <2>1, <3>0
    <3>3. Len(q) \in 1..Len(q)
      BY <2>1
    <3>4. ASSUME NEW x \in Range(q) PROVE x \in Range(Front(q)) \cup {Last(q)}
      <4> PICK i \in 1..Len(q) : x = q[i]
        BY <2>1 DEF Range
      <4> QED BY <2>2, <3>1 DEF Range
    <3>5. ASSUME NEW x \in Range(Front(q)) PROVE x \in Range(q) /\ x # Last(q)
      <4> PICK i \in 1..Len(q) - 1 : x = q[i]
        BY <2>2 DEF Range
      <4> QED BY <2>1, <2>2, <2>3, <3>2, <3>3 DEF Range
    <3>6. Last(q) \in Range(q)
      BY <2>1, <2>2, <3>3 DEF Range
    <3> QED BY <3>4, <3>5, <3>6
  <2> QED BY <1>1, <1>2, <2>4, <2>5 DEF Shared
<1>4. ASSUME NEW x \in F PROVE Shared(B, q, x, F \ {x})
  BY <1>1, <1>2 DEF Shared
<1> QED BY <1>3, <1>4

\* The blocks that slots L of S hold, and their spaces.
HeldOf(S, L) == UNION {{p} \X Kept(S[p]) : p \in L}
Spaces(S, L) == [h \in HeldOf(S, L) |-> S[h[1]].fec[h[2][1]][h[2][2]].adr]
HeldIn(S, L, p) == IF p \in L THEN Kept(S[p]) ELSE {}
LiveSlots == {q \in Slots : Live(q)}

LEMMA ConservedIsShared ==
  /\ BlockSpaceConserved <=> Shared(Spaces(slices, LiveSlots), local, nextBlock, freeBlocks)
  /\ BlockSpaceConserved' <=> Shared(Spaces(slices', LiveSlots'), local', nextBlock', freeBlocks')
<1>1. /\ {SpaceOf(h) : h \in Held} = Range(Spaces(slices, LiveSlots))
      /\ (\A h, k \in Held : SpaceOf(h) = SpaceOf(k) => h = k)
           <=> IsInjective(Spaces(slices, LiveSlots))
  <2>1. Held = HeldOf(slices, LiveSlots)
    BY DEF Held, HeldOf, LiveSlots
  <2>2. /\ DOMAIN Spaces(slices, LiveSlots) = Held
        /\ \A h \in Held : Spaces(slices, LiveSlots)[h] = SpaceOf(h)
    BY <2>1 DEF Spaces, SpaceOf
  <2> QED BY <2>2 DEF Range, IsInjective
<1>2. /\ {SpaceOf(h) : h \in Held}' = Range(Spaces(slices', LiveSlots'))
      /\ (\A h, k \in Held : SpaceOf(h) = SpaceOf(k) => h = k)'
           <=> IsInjective(Spaces(slices', LiveSlots'))
  <2>1. Held' = HeldOf(slices', LiveSlots')
    BY DEF Held, HeldOf, LiveSlots
  <2>2. /\ DOMAIN Spaces(slices', LiveSlots') = Held'
        /\ \A h \in Held' : Spaces(slices', LiveSlots')[h] = SpaceOf(h)'
    BY <2>1 DEF Spaces, SpaceOf
  <2> QED BY <2>2 DEF Range, IsInjective
<1>3. BlockSpaceConserved <=> Shared(Spaces(slices, LiveSlots), local, nextBlock, freeBlocks)
  BY <1>1 DEF BlockSpaceConserved, Shared
<1>4. BlockSpaceConserved' <=> Shared(Spaces(slices', LiveSlots'), local', nextBlock', freeBlocks')
  BY <1>2 DEF BlockSpaceConserved, Shared
<1> QED BY <1>3, <1>4

\* Only what slot p holds changes.
OnlyHeldIn(p, S, L, T, M) ==
  /\ L \subseteq Slots /\ M \subseteq Slots /\ p \in Slots
  /\ \A q \in Slots \ {p} : T[q].fec = S[q].fec /\ (q \in L <=> q \in M)

LEMMA HeldOfIs ==
  ASSUME NEW S, NEW L
  PROVE  \A h : h \in HeldOf(S, L) <=>
                  h = <<h[1], h[2]>> /\ h[1] \in L /\ h[2] \in Kept(S[h[1]])
  BY DEF HeldOf

LEMMA HeldRemoved ==
  ASSUME NEW S, NEW L, NEW T, NEW M, NEW p, OnlyHeldIn(p, S, L, T, M), NEW R,
         HeldIn(T, M, p) = HeldIn(S, L, p) \ R,
         \A k \in HeldIn(T, M, p) : T[p].fec[k[1]][k[2]] = S[p].fec[k[1]][k[2]]
  PROVE  Without(Spaces(T, M), Spaces(S, L), p, R)
<1>1. \A q \in Slots \ {p} : Kept(T[q]) = Kept(S[q])
  BY DEF OnlyHeldIn, Kept
<1>2. ASSUME NEW h
      PROVE  h \in HeldOf(T, M) <=> h \in HeldOf(S, L) \ ({p} \X R)
  <2>1. CASE h[1] = p
    BY <2>1, HeldOfIs DEF HeldIn
  <2>2. CASE h[1] # p
    BY <1>1, <2>2, HeldOfIs DEF OnlyHeldIn
  <2> QED BY <2>1, <2>2
<1>3. HeldOf(T, M) = HeldOf(S, L) \ ({p} \X R)
  BY <1>2
<1>4. ASSUME NEW h \in HeldOf(T, M)
      PROVE  T[h[1]].fec[h[2][1]][h[2][2]] = S[h[1]].fec[h[2][1]][h[2][2]]
  <2>1. CASE h[1] = p
    BY <2>1, HeldOfIs DEF HeldIn
  <2>2. CASE h[1] # p
    BY <2>2, HeldOfIs DEF OnlyHeldIn
  <2> QED BY <2>1, <2>2
<1> QED BY <1>3, <1>4 DEF Spaces, Without

LEMMA HeldAdded ==
  ASSUME NEW S, NEW L, NEW T, NEW M, NEW p, OnlyHeldIn(p, S, L, T, M), NEW k, NEW a,
         k \notin HeldIn(S, L, p), HeldIn(T, M, p) = HeldIn(S, L, p) \cup {k},
         \A j \in HeldIn(S, L, p) : T[p].fec[j[1]][j[2]] = S[p].fec[j[1]][j[2]],
         T[p].fec[k[1]][k[2]].adr = a
  PROVE  With(Spaces(T, M), Spaces(S, L), <<p, k>>, a)
<1>1. \A q \in Slots \ {p} : Kept(T[q]) = Kept(S[q])
  BY DEF OnlyHeldIn, Kept
<1>2. ASSUME NEW h
      PROVE  h \in HeldOf(T, M) <=> h \in HeldOf(S, L) \cup {<<p, k>>}
  <2>1. CASE h[1] = p
    BY <2>1, HeldOfIs DEF HeldIn
  <2>2. CASE h[1] # p
    BY <1>1, <2>2, HeldOfIs DEF OnlyHeldIn
  <2> QED BY <2>1, <2>2
<1>3. HeldOf(T, M) = HeldOf(S, L) \cup {<<p, k>>} /\ <<p, k>> \notin HeldOf(S, L)
  <2> <<p, k>> \notin HeldOf(S, L)
    BY HeldOfIs DEF HeldIn
  <2> QED BY <1>2
<1>4. ASSUME NEW h \in HeldOf(S, L)
      PROVE  T[h[1]].fec[h[2][1]][h[2][2]] = S[h[1]].fec[h[2][1]][h[2][2]]
  <2>1. CASE h[1] = p
    BY <2>1, HeldOfIs DEF HeldIn
  <2>2. CASE h[1] # p
    BY <2>2, HeldOfIs DEF OnlyHeldIn
  <2> QED BY <2>1, <2>2
<1>5. /\ DOMAIN Spaces(T, M) = HeldOf(T, M) /\ DOMAIN Spaces(S, L) = HeldOf(S, L)
      /\ \A h \in HeldOf(S, L) : Spaces(T, M)[h] = Spaces(S, L)[h] /\ h # <<p, k>>
      /\ Spaces(T, M)[<<p, k>>] = a
  BY <1>3, <1>4 DEF Spaces
<1> QED BY <1>3, <1>5 DEF Spaces, With

\* What is processed is what the slot holds, or a slice that begins in a free
\* slot.
Enters(p, s) ==
  \/ s = slices[p]
  \/ /\ slices[p].state = "FREE" /\ s.state = "RECEIVING" /\ Kept(s) = {}
     /\ s.bytesKnown = FALSE /\ s.fec_stripes = FALSE /\ s.map = {} /\ s.mem = NoMem

LEMMA EffectHeld ==
  ASSUME SlotsInv, ModeInv, HandOverInv, use_fec \in BOOLEAN, NEW m, NEW p \in Slots, NEW s,
         NEW t, Effect(m, p, s, t), SlotTyped(s), Enters(p, s), UNCHANGED fecSlot
  PROVE  /\ OnlyHeldIn(p, slices, LiveSlots, slices', LiveSlots')
         /\ s.state = "RECEIVING" => /\ HeldIn(slices, LiveSlots, p) = Kept(s)
                                     /\ HeldIn(slices', LiveSlots', p) = Kept(t)
         /\ Kept(t) = Kept(s) => HeldIn(slices', LiveSlots', p) = HeldIn(slices, LiveSlots, p)
         /\ slices'[p] = t
<1>1. slices' = [slices EXCEPT ![p] = t] /\ DOMAIN slices = Slots /\ SlotInv(t)
  BY DEF Effect, Stored, SlotsInv, SlotEffect
<1>2. slices'[p] = t /\ \A q \in Slots \ {p} : slices'[q] = slices[q]
  BY <1>1
<1>3. (fecPc' = "release") <=> (fecPc = "release")
  BY DEF Effect, ModeEffect, ModeInv
<1>4. /\ LiveSlots' = {q \in Slots : slices'[q].state \in {"RECEIVING", "FEC"}
                                     \/ (fecPc = "release" /\ fecSlot = q)}
      /\ LiveSlots = {q \in Slots : slices[q].state \in {"RECEIVING", "FEC"}
                                     \/ (fecPc = "release" /\ fecSlot = q)}
  BY <1>3 DEF LiveSlots, Live
<1>5. OnlyHeldIn(p, slices, LiveSlots, slices', LiveSlots')
  BY <1>2, <1>4 DEF OnlyHeldIn
<1>6. s.state = "RECEIVING" => ~(fecPc = "release" /\ fecSlot = p)
  BY DEF HandOverInv, Enters
<1>7. /\ t.state = s.state \/ (s.state = "RECEIVING" /\ t.state \in {"DONE", "FEC"})
      /\ t.state = "DONE" => Kept(t) = {} \/ s.state = "DONE"
  <2>1. t.state = s.state \/ (s.state = "RECEIVING" /\ t.state \in {"DONE", "FEC"})
    BY DEF Effect, SlotEffect
  <2>2. ASSUME t.state = "DONE" PROVE Kept(t) = {}
    <3> SlotTyped(t) /\ Counted(t) /\ Complete(t) /\ t.dataBlocksTransferred = BlocksIn(t.sliceNo)
      BY <1>1, <2>2 DEF SlotInv, Finished
    <3> QED BY CompleteGroups
  <2> QED BY <2>1, <2>2
<1>8. s.state = "RECEIVING" => HeldIn(slices', LiveSlots', p) = Kept(t)
  BY <1>2, <1>4, <1>7 DEF HeldIn
<1>9. s.state = "RECEIVING" => HeldIn(slices, LiveSlots, p) = Kept(s)
  <2> SUFFICES ASSUME s.state = "RECEIVING" PROVE HeldIn(slices, LiveSlots, p) = Kept(s)
    OBVIOUS
  <2>1. CASE s = slices[p]
    BY <1>4, <2>1 DEF HeldIn
  <2>2. CASE slices[p].state = "FREE" /\ Kept(s) = {}
    BY <1>4, <1>6, <2>2 DEF HeldIn
  <2> QED BY <2>1, <2>2 DEF Enters
<1>10. s.state # "RECEIVING" /\ Kept(t) = Kept(s) =>
         HeldIn(slices', LiveSlots', p) = HeldIn(slices, LiveSlots, p)
  BY <1>2, <1>4, <1>7 DEF HeldIn, Enters
<1> QED BY <1>2, <1>5, <1>8, <1>9, <1>10

LEMMA EffectSpaces ==
  ASSUME SlotsInv, ModeInv, HandOverInv, SpaceInv, use_fec \in BOOLEAN, NEW m,
         NEW p \in Slots, NEW s, NEW t, Effect(m, p, s, t), SlotTyped(s), Enters(p, s),
         UNCHANGED fecSlot
  PROVE  SpaceInv'
<1> DEFINE A == Spaces(slices, LiveSlots)
           B == Spaces(slices', LiveSlots')
           K == HeldIn(slices, LiveSlots, p)
           J == HeldIn(slices', LiveSlots', p)
<1>1. /\ OnlyHeldIn(p, slices, LiveSlots, slices', LiveSlots')
      /\ s.state = "RECEIVING" => K = Kept(s) /\ J = Kept(t)
      /\ Kept(t) = Kept(s) => J = K
      /\ slices'[p] = t
  BY EffectHeld
<1>2. /\ Shared(A, local, nextBlock, freeBlocks)
      /\ local \in Seq(1..NR_BLOCKS) /\ heap = [i \in 1..NR_BLOCKS |-> heap[i]]
  BY ConservedIsShared DEF SpaceInv
<1>3. s.fec \in [Groups -> Seq(Space)] /\ (s = slices[p] \/ Kept(s) = {})
  BY DEF SlotTyped, Enters
<1>4. ASSUME NEW k \in K PROVE s = slices[p]
  <2> SUFFICES ASSUME slices[p].state = "FREE", s.state = "RECEIVING", Kept(s) = {} PROVE FALSE
    BY DEF Enters
  <2> QED BY <1>1, <1>4
<1> HIDE DEF K, J
<1>s. s.fec \in [Groups -> Seq(Space)]
  BY DEF SlotTyped
<1>5. CASE t.fec = s.fec /\ Kept(t) = Kept(s) /\ UNCHANGED spaces
  <2>1. J = K \ {} /\ \A k \in J : slices'[p].fec[k[1]][k[2]] = slices[p].fec[k[1]][k[2]]
    BY <1>1, <1>4, <1>5
  <2>2. Without(B, A, p, {})
    BY <1>1, <2>1, HeldRemoved DEF K, J
  <2>3. B = A
    BY <2>2 DEF Without, Spaces
  <2> QED BY <1>2, <1>5, <2>3, ConservedIsShared DEF SpaceInv, spaces
<1>6. ASSUME NEW g \in Groups, SurplusEffect(s, t, g) PROVE SpaceInv'
  <2> DEFINE l == Len(s.fec[g])
             k == <<g, l>>
  <2>1. /\ s.state = "RECEIVING" /\ l > 0
        /\ t.fec = [s.fec EXCEPT ![g] = Front(@)] /\ Kept(t) = Kept(s) \ {k}
        /\ local' = Append(local, Last(s.fec[g]).adr)
        /\ heap' = [heap EXCEPT ![Last(s.fec[g]).adr] = 0]
        /\ UNCHANGED <<freeBlocks, nextBlock>>
    BY <1>6 DEF SurplusEffect
  <2>2. /\ s.fec[g] \in Seq(Space) /\ l \in Nat /\ l \in 1..l
        /\ Last(s.fec[g]) = s.fec[g][l] /\ Last(s.fec[g]).adr \in 1..NR_BLOCKS
        /\ \A i \in 1..l - 1 : Front(s.fec[g])[i] = s.fec[g][i]
    <3>1. s.fec[g] \in Seq(Space) /\ l \in Nat
      BY <1>s, KeptIs
    <3>2. Last(s.fec[g]) = s.fec[g][l] /\ Last(s.fec[g]) \in Space
          /\ \A i \in 1..l - 1 : Front(s.fec[g])[i] = s.fec[g][i]
      BY <2>1, <3>1, FrontIs
    <3> QED BY <2>1, <3>1, <3>2 DEF Space
  <2>3. k \in K
    BY <1>1, <1>s, <2>1, <2>2, KeptIs, SMTT(30)
  <2>4. s = slices[p]
    BY <1>4, <2>3
  <2>5. J = K \ {k}
    BY <1>1, <2>1
  <2>6. ASSUME NEW j \in J PROVE slices'[p].fec[j[1]][j[2]] = slices[p].fec[j[1]][j[2]]
    <3>1. j[1] \in Groups /\ j[2] \in 1..Len(s.fec[j[1]]) /\ j = <<j[1], j[2]>> /\ j # k
      BY <1>1, <1>s, <2>1, <2>5, KeptIs
    <3>2. CASE j[1] # g
      BY <1>1, <1>s, <2>1, <2>4, <3>1, <3>2
    <3>3. CASE j[1] = g
      <4>1. j[2] \in 1..l - 1
        BY <2>2, <3>1, <3>3
      <4>2. t.fec[g][j[2]] = s.fec[g][j[2]]
        BY <1>s, <2>1, <2>2, <4>1
      <4> QED BY <1>1, <2>4, <3>3, <4>2
    <3> QED BY <3>2, <3>3
  <2>7. Without(B, A, p, {k})
    <3> HIDE DEF k
    <3> QED BY <1>1, <2>5, <2>6, HeldRemoved DEF K, J
  <2>8. <<p, k>> \in DOMAIN A /\ A[<<p, k>>] = Last(s.fec[g]).adr
    <3> <<p, k>> \in HeldOf(slices, LiveSlots)
      BY <2>3, HeldOfIs DEF K, HeldIn
    <3> QED BY <2>2, <2>4 DEF Spaces
  <2>9. {p} \X {k} = {<<p, k>>}
    OBVIOUS
  <2>10. B = [h \in DOMAIN A \ {<<p, k>>} |-> A[h]]
    BY <2>7, <2>9 DEF Without
  <2> HIDE DEF A, B, k, l
  <2>11. Shared(B, Append(local, A[<<p, k>>]), nextBlock, freeBlocks)
    BY <1>2, <2>8, <2>10, SharedSurplus
  <2>12. BlockSpaceConserved'
    BY <2>1, <2>8, <2>11, ConservedIsShared DEF B
  <2>13. local' \in Seq(1..NR_BLOCKS)
    BY <1>2, <2>1, <2>2, AppendProperties
  <2>14. heap' = [i \in 1..NR_BLOCKS |-> heap'[i]]
    BY <1>2, <2>1
  <2> QED BY <2>12, <2>13, <2>14 DEF SpaceInv
<1>7. ASSUME NEW g \in Groups, ParityEffect(m, s, t, g) PROVE SpaceInv'
  <2> DEFINE l == Len(s.fec[g])
             k == <<g, l + 1>>
             d == [no |-> m.block, adr |-> nextBlock]
  <2>1. /\ s.state = "RECEIVING" /\ t.fec = [s.fec EXCEPT ![g] = Append(@, d)]
        /\ Kept(t) = Kept(s) \cup {k}
        /\ heap' = [heap EXCEPT ![nextBlock] = Parity(s.sliceNo, m.block)]
        /\ \/ /\ local # <<>> /\ nextBlock' = Last(local) /\ local' = Front(local)
              /\ UNCHANGED freeBlocks
           \/ /\ nextBlock' \in freeBlocks /\ freeBlocks' = freeBlocks \ {nextBlock'}
              /\ UNCHANGED local
    BY <1>7 DEF ParityEffect
  <2>0. d.adr = nextBlock
    OBVIOUS
  <2> HIDE DEF d
  <2>2. s.fec[g] \in Seq(Space) /\ l \in Nat
    BY <1>s, KeptIs
  <2>3. Append(s.fec[g], d)[l + 1] = d /\ \A i \in 1..l : Append(s.fec[g], d)[i] = s.fec[g][i]
    <3> s.fec[g] \in Seq(Space \cup {d})
      BY <2>2, ElementOfSeq
    <3> QED BY <2>2, AppendProperties
  <2>4. k \notin K
    BY <1>1, <1>s, <2>1, <2>2, KeptIs
  <2>5. J = K \cup {k}
    BY <1>1, <2>1
  <2>6. ASSUME NEW j \in K PROVE slices'[p].fec[j[1]][j[2]] = slices[p].fec[j[1]][j[2]]
    <3>1. j[1] \in Groups /\ j[2] \in 1..Len(s.fec[j[1]]) /\ s = slices[p]
      BY <1>1, <1>4, <1>s, <2>1, KeptIs
    <3>2. t.fec[j[1]][j[2]] = s.fec[j[1]][j[2]]
      BY <1>s, <2>1, <2>3, <3>1
    <3> QED BY <1>1, <3>1, <3>2
  <2>7. slices'[p].fec[k[1]][k[2]].adr = nextBlock
    BY <1>1, <1>s, <2>0, <2>1, <2>3
  <2> HIDE DEF k
  <2>8. With(B, A, <<p, k>>, nextBlock)
    BY <1>1, <2>4, <2>5, <2>6, <2>7, HeldAdded DEF K, J
  <2> HIDE DEF A, B
  <2>9. /\ local # <<>> => Shared(B, Front(local), Last(local), freeBlocks)
        /\ \A x \in freeBlocks : Shared(B, local, x, freeBlocks \ {x})
    BY <1>2, <2>8, SharedParity
  <2>10. BlockSpaceConserved'
    BY <2>1, <2>9, ConservedIsShared DEF B
  <2>11. local' \in Seq(1..NR_BLOCKS)
    <3> local # <<>> => Front(local) \in Seq(1..NR_BLOCKS)
      <4> local # <<>> => Len(local) > 0
        BY <1>2, EmptySeq, LenProperties
      <4> QED BY <1>2, FrontIs
    <3> QED BY <1>2, <2>1
  <2>12. heap' = [i \in 1..NR_BLOCKS |-> heap'[i]]
    BY <1>2, <2>1
  <2> QED BY <2>10, <2>11, <2>12 DEF SpaceInv
<1> QED BY <1>5, <1>6, <1>7 DEF Effect, SpaceEffect

-----------------------------------------------------------------------------
(* The ring of slots *)

\* A slot that is free again held a slice that was handed over, and numbers
\* that are used are different.
LEMMA RingFacts ==
  ASSUME SlotsInv, RingInv
  PROVE  /\ \A p \in Slots : slices[p].state = "FREE" => slices[p].sliceNo < Len(out)
         /\ \A p, q \in Slots : slices[p].sliceNo = slices[q].sliceNo /\ slices[p].sliceNo >= 0
                                  => p = q
         /\ \A p \in Slots : slices[p].sliceNo <= CurrentNo
         /\ \A n \in 0..CurrentNo : Found(n) = {} => n < Len(out)
         /\ freeSlices > 0 => slices[NextSlot(current)].state = "FREE"
         /\ CurrentNo \in Nat /\ freeSlices \in Nat /\ Len(out) \in Nat
<1>0. /\ current \in Slots /\ freeSlices \in 0..NrSlices /\ CurrentNo \in 0..LastSlice
      /\ \A p \in Slots :
           /\ slices[p].state = "FREE" <=> BackOf(current, p) >= NrSlices - freeSlices
           /\ slices[p].sliceNo = IF BackOf(current, p) <= CurrentNo
                                  THEN CurrentNo - BackOf(current, p) ELSE -1
      /\ Len(out) = CurrentNo + 1 - (NrSlices - freeSlices) /\ Len(out) \in Nat
  <2> Len(out) \in Nat
    BY LenProperties DEF RingInv
  <2> QED BY DEF RingInv, Back, BackOf
<1>1. /\ \A p \in Slots : BackOf(current, p) \in 0..NrSlices - 1
      /\ \A p, q \in Slots : BackOf(current, p) = BackOf(current, q) => p = q
      /\ \A d \in 0..NrSlices - 1 : \E p \in Slots : BackOf(current, p) = d
  BY <1>0, BackRange
<1>a. /\ CurrentNo \in Int /\ freeSlices \in Int /\ NrSlices \in Int /\ freeSlices >= 0
      /\ freeSlices <= NrSlices /\ CurrentNo >= 0 /\ Len(out) \in Int
      /\ \A p \in Slots : BackOf(current, p) \in Int /\ BackOf(current, p) >= 0
  BY <1>0, <1>1, Sizes
<1>2. ASSUME NEW p \in Slots, slices[p].state = "FREE" PROVE slices[p].sliceNo < Len(out)
  <2>1. BackOf(current, p) \in Int /\ BackOf(current, p) >= NrSlices - freeSlices
    BY <1>0, <1>a, <1>2
  <2>2. Len(out) = CurrentNo + 1 - (NrSlices - freeSlices) /\ Len(out) >= 0
    BY <1>0
  <2>3. slices[p].sliceNo = CurrentNo - BackOf(current, p) \/ slices[p].sliceNo = -1
    BY <1>0, <1>2
  <2> QED BY <1>a, <2>1, <2>2, <2>3
<1>3. ASSUME NEW p \in Slots, NEW q \in Slots, slices[p].sliceNo = slices[q].sliceNo,
             slices[p].sliceNo >= 0
      PROVE  p = q
  <2>1. slices[p].sliceNo = CurrentNo - BackOf(current, p)
    BY <1>0, <1>a, <1>3
  <2>2. slices[q].sliceNo = CurrentNo - BackOf(current, q)
    BY <1>0, <1>a, <1>3
  <2>3. BackOf(current, p) = BackOf(current, q)
    <3>1. CurrentNo - BackOf(current, p) = CurrentNo - BackOf(current, q)
      BY <1>3, <2>1, <2>2
    <3>2. CurrentNo \in Int /\ BackOf(current, p) \in Int /\ BackOf(current, q) \in Int
      BY <1>a, <1>3
    <3>3. \A x, y, z \in Int : x - y = x - z => y = z
      OBVIOUS
    <3> QED BY <3>1, <3>2, <3>3
  <2> QED BY <1>1, <2>3
<1>4. ASSUME NEW p \in Slots PROVE slices[p].sliceNo <= CurrentNo
  BY <1>0, <1>a
<1>5. ASSUME NEW n \in 0..CurrentNo, ~(n < Len(out)) PROVE Found(n) # {}
  <2>1. CurrentNo - n \in 0..NrSlices - 1 /\ CurrentNo - n < NrSlices - freeSlices
    <3> n \in Int /\ n >= 0 /\ n <= CurrentNo
      BY <1>a, <1>5
    <3> QED BY <1>0, <1>a, <1>5
  <2>2. PICK p \in Slots : BackOf(current, p) = CurrentNo - n
    BY <1>1, <2>1
  <2>3. slices[p].sliceNo = n
    BY <1>0, <2>1, <2>2, Sizes
  <2>4. \A q \in FreeOnes : BackOf(current, q) >= BackOf(current, p)
    BY <1>0, <1>1, <2>1, <2>2, Sizes, SMTT(30) DEF FreeOnes
  <2> QED BY <2>3, <2>4 DEF Found, Back, BackOf
<1>6. ASSUME freeSlices > 0 PROVE slices[NextSlot(current)].state = "FREE"
  <2>1. (current + 0 + 1) % NrSlices = NextSlot(current)
    BY <1>0, Sizes DEF NextSlot, Slots
  <2>2. NextSlot(current) \in Slots /\ BackOf(current, NextSlot(current)) = NrSlices - 1
    BY <1>0, <2>1, SlotAfterFree, Sizes
  <2> QED BY <1>0, <1>6, <2>2, Sizes
<1> QED BY <1>0, <1>2, <1>3, <1>4, <1>5, <1>6

\* The place of the oldest slice stays when the current slot moves on.
LEMMA FreePosStays ==
  ASSUME NEW c \in Slots, NEW k \in 1..NrSlices
  PROVE  (NextSlot(c) + (k - 1) + 1) % NrSlices = (c + k + 1) % NrSlices
<1>1. NextSlot(c) \in Slots /\ NextSlot(c) = IF c + 1 = NrSlices THEN 0 ELSE c + 1
  BY NextSlotIs
<1>2. CASE c + 1 # NrSlices
  <2> NextSlot(c) + (k - 1) + 1 = c + k + 1
    BY <1>1, <1>2, Sizes DEF Slots
  <2> QED OBVIOUS
<1>3. CASE c + 1 = NrSlices
  <2>1. NextSlot(c) + (k - 1) + 1 = k /\ c + k + 1 = NrSlices + k
    BY <1>1, <1>3, Sizes DEF Slots
  <2>2. CASE k < NrSlices
    <3>1. k % NrSlices = k
      BY <2>2, Sizes
    <3>2. PICK x \in 0..2 * NrSlices - 1 : x = NrSlices + k
      BY <2>2, Sizes
    <3>3. x % NrSlices = k
      BY <3>2, ModTwice, Sizes
    <3> QED BY <2>1, <3>1, <3>2, <3>3
  <2>3. CASE k = NrSlices
    <3> NrSlices % NrSlices = 0 /\ (NrSlices + NrSlices) % NrSlices = 0
      BY Sizes
    <3> QED BY <2>1, <2>3
  <2> QED BY <2>2, <2>3, Sizes
<1> QED BY <1>2, <1>3

-----------------------------------------------------------------------------
(* The handlers of the network thread *)

\* The next slice is begun in the free slot after the current one.
Begins(m, p, s) ==
  /\ p = NextSlot(current) /\ slices[p].state = "FREE" /\ s = FreshSlice(m.sliceNo)
  /\ current' = p /\ freeSlices' = freeSlices - 1 /\ freeSlices > 0
  /\ m.sliceNo = CurrentNo + 1 /\ slices[current].bytesKnown /\ freeMem >= SliceBlocks

Stays(p, s) == s = slices[p] /\ UNCHANGED <<current, freeSlices>>

\* What every handler leaves to other steps.
Elsewhere == <<receivedPtr, receivedSliceNo, freePos, fecQueue, data, out, endReached,
               seenDone, fecSlot, async, top>>

Handled(m, p, s, t) ==
  /\ Effect(m, p, s, t) /\ Entering(m, s) /\ Enters(p, s) /\ p \in Slots
  /\ Begins(m, p, s) \/ Stays(p, s)
  /\ UNCHANGED Elsewhere

Ignored(m) ==
  /\ \/ OldSlice(m) /\ m.sliceNo < Len(out) /\ UNCHANGED <<current, freeSlices>>
     \/ Exit(m)
  /\ UNCHANGED Elsewhere

LEMMA IInvTyped ==
  ASSUME IInv
  PROVE  StateTyped
  BY DEF IInv, PlacesInv, SpaceInv, BlockSpaceConserved, MemoryInv, StateTyped

LEMMA HandleCases ==
  ASSUME IInv, NEW m \in Messages, Handle(m)
  PROVE  Ignored(m) \/ \E p, s, t : Handled(m, p, s, t)
<1>1. /\ SlotsInv /\ RingInv /\ StateTyped /\ m.sliceNo \in 0..LastSlice
      /\ CurrentNo \in Nat /\ UNCHANGED Elsewhere
  BY IInvTyped, MessageIs, RingFacts DEF IInv, Handle, Elsewhere
<1>2. CASE m.sliceNo > CurrentNo
  <2>1. CASE ~(Follows(m.sliceNo) /\ slices[current].bytesKnown)
    <3> Exit(m)
      BY <1>1, <1>2, <2>1 DEF Handle
    <3> QED BY <1>1 DEF Ignored
  <2>2. CASE Follows(m.sliceNo) /\ slices[current].bytesKnown
    <3>1. BeginSlice(m)
      BY <1>1, <1>2, <2>2 DEF Handle
    <3>2. PICK p : p = NextSlot(current)
      OBVIOUS
    <3>3. PICK s : s = FreshSlice(m.sliceNo)
      OBVIOUS
    <3>4. current' = p /\ freeSlices' = freeSlices - 1 /\ Process(m, p, s)
      BY <3>1, <3>2, <3>3 DEF BeginSlice
    <3>5. /\ freeSlices > 0 /\ freeMem >= SliceBlocks /\ m.sliceNo = CurrentNo + 1
          /\ Useful(s, m) => SpaceAvailable
      <4>1. SliceAvailable /\ (Useful(s, m) => SpaceAvailable)
        BY <1>2, <2>2, <3>3 DEF Handle, Ready
      <4>2. freeSlices > 0 /\ freeMem \in Nat /\ freeMem >= MAX_SLICE_SIZE
        BY <1>1, <4>1 DEF SliceAvailable, StateTyped
      <4> QED BY <2>2, <4>1, <4>2, Sizes DEF Follows
    <3>6. p \in Slots /\ slices[p].state = "FREE"
      BY <1>1, <3>2, <3>5, RingFacts, NextSlotIs DEF RingInv
    <3>7. SlotTyped(s) /\ Counted(s) /\ Kept(s) = {} /\ LooksFresh(s, m.sliceNo)
      BY <1>1, <3>3, FreshCounted, FreshSliceIs
    <3>8. Entering(m, s)
      BY <3>5, <3>7 DEF Entering, LooksFresh
    <3>9. Enters(p, s)
      BY <3>6, <3>7 DEF Enters, LooksFresh
    <3>10. \E t : Effect(m, p, s, t)
      BY <1>1, <3>4, <3>8, ProcessEffect
    <3>11. Begins(m, p, s)
      BY <2>2, <3>2, <3>3, <3>4, <3>5, <3>6 DEF Begins
    <3> QED BY <1>1, <3>6, <3>8, <3>9, <3>10, <3>11 DEF Handled
  <2> QED BY <2>1, <2>2
<1>3. CASE m.sliceNo <= CurrentNo
  <2>0. UNCHANGED <<current, freeSlices>>
    BY <1>1, <1>3 DEF Handle
  <2>1. CASE Found(m.sliceNo) = {} /\ OldSlice(m)
    <3> m.sliceNo < Len(out)
      BY <1>1, <1>3, <2>1, RingFacts
    <3> QED BY <1>1, <2>0, <2>1 DEF Ignored
  <2>2. CASE \E p \in Found(m.sliceNo) : Process(m, p, slices[p])
    <3>1. PICK p \in Found(m.sliceNo) : Process(m, p, slices[p])
      BY <2>2
    <3>2. PICK s : s = slices[p]
      OBVIOUS
    <3>3. p \in Slots /\ s.sliceNo = m.sliceNo /\ SlotInv(s)
      BY <1>1, <3>2 DEF Found, SlotsInv
    <3>4. Useful(s, m) => SpaceAvailable
      BY <1>1, <1>3, <3>1, <3>2 DEF Handle, Ready
    <3>5. Entering(m, s)
      BY <3>3, <3>4 DEF Entering, SlotInv
    <3>6. \E t : Effect(m, p, s, t)
      BY <1>1, <3>1, <3>2, <3>5, ProcessEffect
    <3>7. Enters(p, s) /\ Stays(p, s)
      BY <2>0, <3>2 DEF Enters, Stays
    <3> QED BY <1>1, <3>3, <3>5, <3>6, <3>7 DEF Handled
  <2> QED BY <1>1, <1>3, <2>1, <2>2 DEF Handle
<1> QED BY <1>1, <1>2, <1>3

LEMMA HandledSlots ==
  ASSUME SlotsInv, NEW m, NEW p, NEW s, NEW t, Handled(m, p, s, t)
  PROVE  /\ SlotsInv' /\ slices'[p] = t /\ \A q \in Slots \ {p} : slices'[q] = slices[q]
         /\ t.sliceNo = s.sliceNo /\ s.sliceNo = m.sliceNo
         /\ t.state = s.state \/ (s.state = "RECEIVING" /\ t.state \in {"DONE", "FEC"})
         /\ slices[p].state \in {s.state, "FREE"}
<1>1. slices' = [slices EXCEPT ![p] = t] /\ DOMAIN slices = Slots /\ SlotInv(t) /\ p \in Slots
  BY DEF Handled, Effect, Stored, SlotsInv, SlotEffect
<1>2. slices'[p] = t /\ \A q \in Slots \ {p} : slices'[q] = slices[q]
  BY <1>1
<1>3. SlotsInv'
  BY <1>1, <1>2 DEF SlotsInv
<1>4. /\ t.sliceNo = s.sliceNo /\ s.sliceNo = m.sliceNo
      /\ t.state = s.state \/ (s.state = "RECEIVING" /\ t.state \in {"DONE", "FEC"})
      /\ slices[p].state \in {s.state, "FREE"}
  BY DEF Handled, Effect, SlotEffect, Entering, Enters
<1> QED BY <1>2, <1>3, <1>4

LEMMA HandledRing ==
  ASSUME SlotsInv, RingInv, NEW m, NEW p, NEW s, NEW t, Handled(m, p, s, t)
  PROVE  RingInv'
<1>1. /\ p \in Slots /\ slices'[p] = t /\ \A q \in Slots \ {p} : slices'[q] = slices[q]
      /\ t.sliceNo = s.sliceNo /\ s.sliceNo = m.sliceNo /\ m \in Messages
      /\ t.state = s.state \/ (s.state = "RECEIVING" /\ t.state \in {"DONE", "FEC"})
      /\ UNCHANGED <<freePos, out>>
  BY HandledSlots DEF Handled, Elsewhere, Entering
<1>2. /\ current \in Slots /\ freeSlices \in 0..NrSlices /\ CurrentNo \in 0..LastSlice
      /\ freePos = (current + freeSlices + 1) % NrSlices
      /\ \A q \in Slots :
           /\ slices[q].state = "FREE" <=> BackOf(current, q) >= NrSlices - freeSlices
           /\ slices[q].sliceNo = IF BackOf(current, q) <= CurrentNo
                                  THEN CurrentNo - BackOf(current, q) ELSE -1
      /\ out \in Seq(Range(out)) /\ Len(out) = CurrentNo + 1 - (NrSlices - freeSlices)
      /\ \A i \in DOMAIN out : out[i].sliceNo = i - 1
  BY DEF RingInv, Back, BackOf
<1>3. \A q \in Slots : BackOf(current, q) \in 0..NrSlices - 1
  BY <1>2, BackRange
<1>a. /\ CurrentNo \in Nat /\ freeSlices \in Nat /\ NrSlices \in Nat /\ freeSlices <= NrSlices
      /\ \A q \in Slots : BackOf(current, q) \in Nat
  BY <1>2, <1>3, Sizes
<1>4. CASE Stays(p, s)
  <2>1. s = slices[p] /\ UNCHANGED <<current, freeSlices>>
    BY <1>4 DEF Stays
  <2>2. \A q \in Slots : /\ slices'[q].sliceNo = slices[q].sliceNo
                         /\ slices'[q].state = "FREE" <=> slices[q].state = "FREE"
    BY <1>1, <2>1
  <2>3. CurrentNo' = CurrentNo
    BY <1>2, <2>1, <2>2 DEF CurrentNo
  <2> QED BY <1>1, <1>2, <2>1, <2>2, <2>3 DEF RingInv, Back, BackOf
<1>5. CASE Begins(m, p, s)
  <2>1. /\ p = NextSlot(current) /\ slices[p].state = "FREE" /\ s.state = "RECEIVING"
        /\ current' = p /\ freeSlices' = freeSlices - 1 /\ freeSlices > 0
        /\ m.sliceNo = CurrentNo + 1
    <3> LooksFresh(s, m.sliceNo)
      BY <1>5, FreshSliceIs DEF Begins
    <3> QED BY <1>5 DEF Begins, LooksFresh
  <2>2. CurrentNo' = CurrentNo + 1 /\ CurrentNo' \in 0..LastSlice
    BY <1>1, <2>1, MessageIs DEF CurrentNo
  <2>3. BackOf(p, p) = 0 /\ \A q \in Slots \ {p} : BackOf(p, q) = BackOf(current, q) + 1
    BY <1>1, <1>2, <2>1, BackOfNext
  <2>4. freeSlices' \in 0..NrSlices /\ NrSlices - freeSlices' = NrSlices - freeSlices + 1
    BY <1>a, <2>1
  <2>5. freePos' = (current' + freeSlices' + 1) % NrSlices
    <3>1. freeSlices \in 1..NrSlices
      BY <1>2, <2>1
    <3>2. (NextSlot(current) + (freeSlices - 1) + 1) % NrSlices
            = (current + freeSlices + 1) % NrSlices
      BY <1>2, <3>1, FreePosStays
    <3> QED BY <1>1, <1>2, <2>1, <3>2
  <2>6. ASSUME NEW q \in Slots
        PROVE  /\ slices'[q].state = "FREE" <=> BackOf(p, q) >= NrSlices - freeSlices'
               /\ slices'[q].sliceNo = IF BackOf(p, q) <= CurrentNo'
                                       THEN CurrentNo' - BackOf(p, q) ELSE -1
    <3>1. CASE q = p
      <4>1. slices'[q].state # "FREE" /\ slices'[q].sliceNo = CurrentNo + 1
        BY <1>1, <2>1, <3>1
      <4>2. 0 < NrSlices - freeSlices' /\ CurrentNo' - 0 = CurrentNo + 1 /\ 0 <= CurrentNo'
        BY <1>a, <2>1, <2>2
      <4>3. ~(BackOf(p, q) >= NrSlices - freeSlices') /\ BackOf(p, q) <= CurrentNo'
            /\ CurrentNo' - BackOf(p, q) = CurrentNo + 1
        BY <1>a, <2>1, <2>2, <2>3, <3>1, <4>2
      <4> QED BY <4>1, <4>3
    <3>2. CASE q # p
      <4>1. slices'[q] = slices[q] /\ BackOf(p, q) = BackOf(current, q) + 1
        BY <1>1, <2>3, <3>2
      <4>2. BackOf(current, q) \in Nat /\ freeSlices' = freeSlices - 1
            /\ CurrentNo' = CurrentNo + 1
        BY <1>a, <2>1, <2>2
      <4>3. /\ BackOf(p, q) >= NrSlices - freeSlices'
                 <=> BackOf(current, q) >= NrSlices - freeSlices
            /\ BackOf(p, q) <= CurrentNo' <=> BackOf(current, q) <= CurrentNo
            /\ CurrentNo' - BackOf(p, q) = CurrentNo - BackOf(current, q)
        BY <1>a, <4>1, <4>2
      <4> QED BY <1>2, <4>1, <4>3
    <3> QED BY <3>1, <3>2
  <2>7. Len(out) = CurrentNo' + 1 - (NrSlices - freeSlices')
    BY <1>a, <1>2, <2>1, <2>2
  <2> QED BY <1>1, <1>2, <2>1, <2>2, <2>4, <2>5, <2>6, <2>7 DEF RingInv, Back, BackOf
<1> QED BY <1>4, <1>5 DEF Handled

LEMMA HandledPlaces ==
  ASSUME PlacesInv, NEW m, NEW p, NEW s, NEW t, Handled(m, p, s, t)
  PROVE  PlacesInv'
<1>1. /\ netPc' \in {"dispatch", "complete", "advance"} /\ netPos' \in Slots
      /\ netMsg' \in Messages \cup {NoMsg} /\ use_fec' \in BOOLEAN
      /\ fecPc' = fecPc \/ fecPc' = "wait"
  BY DEF Handled, Effect, Stored, NetEffect, ModeEffect
<1> QED BY <1>1 DEF PlacesInv, Handled, Elsewhere

LEMMA HandledMode ==
  ASSUME SlotsInv, PlacesInv, ModeInv, NEW m, NEW p, NEW s, NEW t, Handled(m, p, s, t)
  PROVE  ModeInv'
<1>1. /\ p \in Slots /\ slices'[p] = t /\ \A q \in Slots \ {p} : slices'[q] = slices[q]
      /\ t.state = s.state \/ (s.state = "RECEIVING" /\ t.state \in {"DONE", "FEC"})
      /\ UNCHANGED fecQueue /\ netPc' # "clean" /\ SlotInv(t)
  BY HandledSlots DEF Handled, Elsewhere, Effect, Stored, NetEffect, SlotEffect
<1>2. /\ use_fec' \in BOOLEAN /\ (use_fec => use_fec')
      /\ fecPc' = IF use_fec' /\ ~use_fec THEN "wait" ELSE fecPc
      /\ ~use_fec' /\ ~s.fec_stripes => ~t.fec_stripes
  BY DEF Handled, Effect, ModeEffect
<1>3. ASSUME ~use_fec' PROVE ~t.fec_stripes /\ t.state \notin {"FEC", "FEC_DONE"}
  <2>1. ~slices[p].fec_stripes /\ slices[p].state \notin {"FEC", "FEC_DONE"}
    BY <1>1, <1>2, <1>3 DEF ModeInv
  <2>2. ~s.fec_stripes /\ s.state \notin {"FEC", "FEC_DONE"}
    BY <2>1 DEF Handled, Enters
  <2>3. ~t.fec_stripes
    BY <1>2, <1>3, <2>2
  <2>4. ASSUME t.state = "FEC" PROVE FALSE
    <3> SlotTyped(t) /\ Counted(t) /\ Complete(t) /\ t.dataBlocksTransferred # BlocksIn(t.sliceNo)
      BY <1>1, <2>4 DEF SlotInv, Finished
    <3> QED BY <2>3, CompleteGroups
  <2>5. t.state # "FEC_DONE"
    BY <1>1, <2>2
  <2> QED BY <2>3, <2>4, <2>5
<1>4. use_fec' => fecPc' # "absent"
  BY <1>2 DEF ModeInv
<1>5. ASSUME ~use_fec'
      PROVE  /\ fecPc' = "absent" /\ fecQueue' = <<>>
             /\ \A q \in Slots : /\ ~slices'[q].fec_stripes
                                 /\ slices'[q].state \notin {"FEC", "FEC_DONE"}
  <2>1. ~use_fec
    BY <1>2, <1>5
  <2>2. fecPc' = "absent" /\ fecQueue' = <<>>
    BY <1>1, <1>2, <1>5, <2>1 DEF ModeInv
  <2>3. \A q \in Slots : ~slices'[q].fec_stripes /\ slices'[q].state \notin {"FEC", "FEC_DONE"}
    BY <1>1, <1>3, <1>5, <2>1 DEF ModeInv
  <2> QED BY <2>2, <2>3
<1> QED BY <1>1, <1>4, <1>5 DEF ModeInv

LEMMA HandledHandOver ==
  ASSUME SlotsInv, PlacesInv, ModeInv, HandOverInv,
         NEW m, NEW p, NEW s, NEW t, Handled(m, p, s, t)
  PROVE  HandOverInv'
<1>1. /\ p \in Slots /\ slices'[p] = t /\ \A q \in Slots \ {p} : slices'[q] = slices[q]
      /\ t.sliceNo = s.sliceNo /\ s.sliceNo = m.sliceNo
      /\ t.state = s.state \/ (s.state = "RECEIVING" /\ t.state \in {"DONE", "FEC"})
      /\ slices[p].state \in {s.state, "FREE"}
      /\ UNCHANGED <<fecQueue, fecSlot>>
  BY HandledSlots DEF Handled, Elsewhere
<1>2. \A q \in Slots : slices[q].state \in Finished => slices'[q].state = slices[q].state
  <2> slices[p].state \in Finished => t.state = slices[p].state
    BY <1>1 DEF Finished, Handled, Enters
  <2> QED BY <1>1
<1>3. /\ fecPc' = fecPc \/ fecPc' = "wait"
      /\ netPc' = "complete" => /\ netMsg' = m /\ s.state = "RECEIVING"
                                /\ t.state \in {"DONE", "FEC"}
  BY DEF Handled, Effect, Stored, NetEffect, ModeEffect
<1>4. FecQueueExact'
  <2> \A i \in DOMAIN fecQueue : fecQueue[i] \in Slots
    BY ElementOfSeq, LenProperties DEF PlacesInv
  <2> QED BY <1>1, <1>2 DEF HandOverInv, FecQueueExact, Finished
<1>5. /\ fecPc' = "decode" => slices'[fecSlot'].state = "FEC" /\ fecSlot' \notin Range(fecQueue')
      /\ fecPc' = "release" => slices'[fecSlot'].state = "FEC_DONE"
  BY <1>1, <1>2, <1>3 DEF HandOverInv, PlacesInv, Finished
<1>6. ASSUME netPc' = "complete"
      PROVE  /\ slices'[p].sliceNo = netMsg'.sliceNo /\ slices'[p].state \in {"DONE", "FEC"}
             /\ p \notin Range(fecQueue') /\ (fecPc' = "decode" => p # fecSlot')
  <2>1. slices[p].state \in {"RECEIVING", "FREE"}
    BY <1>1, <1>3, <1>6
  <2>2. p \notin Range(fecQueue)
    BY <2>1 DEF HandOverInv, FecQueueExact, Range
  <2>3. fecPc' = "decode" => p # fecSlot'
    BY <1>1, <1>3, <2>1 DEF HandOverInv
  <2> QED BY <1>1, <1>3, <1>6, <2>2, <2>3
<1> QED BY <1>1, <1>4, <1>5, <1>6 DEF HandOverInv

LEMMA HandledAck ==
  ASSUME SlotsInv, RingInv, AckInv, NEW m, NEW p, NEW s, NEW t, Handled(m, p, s, t)
  PROVE  AckInv'
<1>1. /\ p \in Slots /\ slices'[p] = t /\ \A q \in Slots \ {p} : slices'[q] = slices[q]
      /\ t.sliceNo = s.sliceNo /\ s.sliceNo = m.sliceNo /\ m.sliceNo \in 0..LastSlice
      /\ t.state = s.state \/ (s.state = "RECEIVING" /\ t.state \in {"DONE", "FEC"})
      /\ UNCHANGED out
  BY HandledSlots, MessageIs DEF Handled, Elsewhere, Entering
<1>2. \A q \in Slots : slices[q].state \in Finished =>
         slices'[q].state = slices[q].state /\ slices'[q].sliceNo = slices[q].sliceNo
  <2> slices[p].state \in Finished => t.state = slices[p].state /\ t.sliceNo = slices[p].sliceNo
    BY <1>1 DEF Finished, Handled, Enters
  <2> QED BY <1>1
<1>3. ASSUME NEW n \in acked
      PROVE  n < Len(out') \/ \E q \in Slots : slices'[q].sliceNo = n /\ slices'[q].state \in Finished
  <2>1. CASE n < Len(out)
    BY <1>1, <2>1
  <2>2. CASE \E q \in Slots : slices[q].sliceNo = n /\ slices[q].state \in Finished
    BY <1>2, <2>2
  <2> QED BY <2>1, <2>2 DEF AckInv
<1>4. ASSUME t.state \in Finished \cup {"FREE"}
      PROVE  \/ m.sliceNo < Len(out')
             \/ \E q \in Slots : slices'[q].sliceNo = m.sliceNo /\ slices'[q].state \in Finished
  <2>1. CASE t.state \in Finished
    BY <1>1, <2>1
  <2>2. CASE t.state = "FREE"
    <3> s = slices[p] /\ s.state = "FREE"
      BY <1>1, <2>2 DEF Handled, Enters
    <3> QED BY <1>1, RingFacts
  <2> QED BY <1>4, <2>1, <2>2
<1>5. acked' = acked \/ (acked' = acked \cup {m.sliceNo} /\ t.state \in Finished \cup {"FREE"})
  BY DEF Handled, Effect, AckEffect
<1>6. acked' \subseteq 0..LastSlice
  BY <1>1, <1>5 DEF AckInv
<1>7. \A n \in acked' : n \in acked \/ (n = m.sliceNo /\ t.state \in Finished \cup {"FREE"})
  BY <1>5
<1> QED BY <1>3, <1>4, <1>6, <1>7 DEF AckInv

-----------------------------------------------------------------------------
(* Memory *)

Known(s) == s.state # "FREE" /\ s.bytesKnown

\* The blocks that slots take memory for.
Room(S, p) == {p} \X (0..BlocksIn(S[p].sliceNo) - 1)
Taken(S) == UNION {Room(S, p) : p \in {q \in Slots : Known(S[q])}}

LEMMA ConservedMemory ==
  /\ MemoryConserved <=> Memory = freeMem + data + Cardinality(Taken(slices))
  /\ MemoryConserved' <=> Memory = freeMem' + data' + Cardinality(Taken(slices'))
  BY DEF MemoryConserved, Taken, Room, Known

LEMMA RoomIs ==
  ASSUME NEW S, NEW p, S[p].sliceNo \in -1..LastSlice
  PROVE  IsFiniteSet(Room(S, p)) /\ Cardinality(Room(S, p)) = BlocksIn(S[p].sliceNo)
<1>1. PICK k \in Nat : k = BlocksIn(S[p].sliceNo)
  BY BlocksInType, Sizes
<1>2. IsFiniteSet(0..k - 1) /\ Cardinality(0..k - 1) = k
  BY IntervalCount
<1>3. IsFiniteSet({p}) /\ Cardinality({p}) = 1
  BY FS_Singleton
<1>4. IsFiniteSet({p} \X (0..k - 1)) /\ Cardinality({p} \X (0..k - 1)) = 1 * k
  BY <1>2, <1>3, FS_Product, ZenonT(60)
<1> QED BY <1>1, <1>4 DEF Room

LEMMA TakenIs ==
  ASSUME NEW S, \A p \in Slots : S[p].sliceNo \in -1..LastSlice
  PROVE  IsFiniteSet(Taken(S)) /\ Cardinality(Taken(S)) \in Nat
<1>1. IsFiniteSet(Slots) /\ IsFiniteSet(0..SliceBlocks - 1)
  BY IntervalCount, Sizes DEF Slots
<1>2. IsFiniteSet(Slots \X (0..SliceBlocks - 1))
  BY <1>1, FS_Product
<1>3. ASSUME NEW p \in Slots PROVE Room(S, p) \subseteq Slots \X (0..SliceBlocks - 1)
  <2> BlocksIn(S[p].sliceNo) \in 0..SliceBlocks
    BY BlocksInType, Sizes
  <2> 0..BlocksIn(S[p].sliceNo) - 1 \subseteq 0..SliceBlocks - 1
    BY Sizes
  <2> QED BY DEF Room
<1>4. Taken(S) \subseteq Slots \X (0..SliceBlocks - 1)
  BY <1>3 DEF Taken
<1> QED BY <1>2, <1>4, FS_Subset, FS_CardinalityType

\* A slot whose size becomes known takes the memory of its slice.
LEMMA TakenMore ==
  ASSUME NEW S, NEW T, \A q \in Slots : S[q].sliceNo \in -1..LastSlice, NEW p \in Slots,
         T[p].sliceNo \in -1..LastSlice, \A q \in Slots \ {p} : T[q] = S[q],
         ~Known(S[p]), Known(T[p])
  PROVE  Cardinality(Taken(T)) = Cardinality(Taken(S)) + BlocksIn(T[p].sliceNo)
<1>1. Taken(T) = Taken(S) \cup Room(T, p)
  <2>1. \A q \in Slots \ {p} : (Known(T[q]) <=> Known(S[q])) /\ Room(T, q) = Room(S, q)
    BY DEF Room
  <2> QED BY <2>1 DEF Taken
<1>2. Taken(S) \cap Room(T, p) = {}
  BY DEF Taken, Room
<1>3. /\ IsFiniteSet(Taken(S)) /\ Cardinality(Taken(S)) \in Nat
      /\ IsFiniteSet(Room(T, p)) /\ Cardinality(Room(T, p)) = BlocksIn(T[p].sliceNo)
  BY TakenIs, RoomIs
<1>4. Cardinality(Taken(S) \cup Room(T, p))
        = Cardinality(Taken(S)) + Cardinality(Room(T, p)) - Cardinality(Taken(S) \cap Room(T, p))
  BY <1>3, FS_Union
<1>5. Cardinality(Taken(S) \cap Room(T, p)) = 0
  BY <1>2, FS_EmptySet
<1>6. BlocksIn(T[p].sliceNo) \in Nat
  BY BlocksInType, Sizes
<1> QED BY <1>1, <1>3, <1>4, <1>5, <1>6

LEMMA TakenSame ==
  ASSUME NEW S, NEW T,
         \A q \in Slots : T[q].sliceNo = S[q].sliceNo /\ (Known(T[q]) <=> Known(S[q]))
  PROVE  Taken(T) = Taken(S)
<1>1. \A q \in Slots : Room(T, q) = Room(S, q)
  BY DEF Room
<1> QED BY <1>1 DEF Taken

LEMMA HandledMemory ==
  ASSUME SlotsInv, RingInv, MemoryInv, NEW m, NEW p, NEW s, NEW t, Handled(m, p, s, t)
  PROVE  MemoryInv'
<1>1. /\ p \in Slots /\ slices'[p] = t /\ \A q \in Slots \ {p} : slices'[q] = slices[q]
      /\ t.sliceNo = s.sliceNo /\ s.sliceNo = m.sliceNo /\ m.sliceNo \in 0..LastSlice
      /\ t.state = s.state \/ (s.state = "RECEIVING" /\ t.state \in {"DONE", "FEC"})
      /\ UNCHANGED data /\ SlotsInv'
  BY HandledSlots, MessageIs DEF Handled, Elsewhere, Entering
<1>2. \A q \in Slots : /\ slices[q].sliceNo \in -1..LastSlice
                       /\ slices'[q].sliceNo \in -1..LastSlice
                       /\ slices[q].bytesKnown \in BOOLEAN
  BY <1>1 DEF SlotsInv, SlotInv, SlotTyped
<1>3. /\ freeMem' = freeMem - (IF t.bytesKnown THEN MemoryTaken(s) ELSE 0)
      /\ s.bytesKnown => t.bytesKnown
      /\ t.bytesKnown \/ t = s
      /\ s.state = "RECEIVING" /\ s.map = {} => t.bytesKnown
      /\ t.bytesKnown \in BOOLEAN /\ s.bytesKnown \in BOOLEAN /\ SlotInv(t)
      /\ s.state # "RECEIVING" => SlotInv(s)
  <2>1. SlotInv(t) /\ SlotTyped(s)
    BY DEF Handled, Effect, SlotEffect, Entering
  <2>2. t.bytesKnown \in BOOLEAN /\ s.bytesKnown \in BOOLEAN
    BY <2>1 DEF SlotInv, SlotTyped
  <2>3. MemoryEffect(s, t) /\ SlotEffect(s, t) /\ Entering(m, s)
    BY DEF Handled, Effect
  <2>4. freeMem' = freeMem - (IF t.bytesKnown THEN MemoryTaken(s) ELSE 0)
    BY <2>3 DEF MemoryEffect
  <2>5. /\ s.bytesKnown => t.bytesKnown
        /\ t.bytesKnown \/ t = s
        /\ s.state = "RECEIVING" /\ s.map = {} => t.bytesKnown
    BY <2>3 DEF SlotEffect
  <2>6. s.state # "RECEIVING" => SlotInv(s)
    BY <2>3 DEF Entering
  <2> QED BY <2>1, <2>2, <2>4, <2>5, <2>6
<1>4. /\ data \in Nat /\ freeMem \in Nat
      /\ Memory = freeMem + data + Cardinality(Taken(slices))
      /\ \A q \in Slots : slices[q].state # "FREE" /\ ~slices[q].bytesKnown
                            => q = current /\ freeMem >= SliceBlocks
  BY ConservedMemory DEF MemoryInv
<1>5. \/ s = slices[p] /\ UNCHANGED <<current, freeSlices>>
      \/ /\ slices[p].state = "FREE" /\ s.state = "RECEIVING" /\ s.map = {} /\ ~s.bytesKnown
         /\ slices[current].bytesKnown /\ freeMem >= SliceBlocks
  <2>1. CASE Stays(p, s)
    BY <2>1 DEF Stays
  <2>2. CASE Begins(m, p, s)
    <3> LooksFresh(s, m.sliceNo)
      BY <2>2, FreshSliceIs DEF Begins
    <3> QED BY <2>2 DEF Begins, LooksFresh
  <2> QED BY <2>1, <2>2 DEF Handled
<1>6. CASE t.bytesKnown /\ ~s.bytesKnown
  <2>1. PICK n \in 0..SliceBlocks : n = BlocksIn(s.sliceNo)
    BY <1>1, BlocksInType
  <2>2. freeMem' = freeMem - n
    BY <1>3, <1>6, <2>1 DEF MemoryTaken
  <2>3. s.state # "FREE" /\ t.state # "FREE"
    <3> s.state # "FREE"
      BY <1>1, <1>3, <1>6 DEF SlotInv
    <3> QED BY <1>1
  <2>4. freeMem >= SliceBlocks
    BY <1>1, <1>4, <1>5, <1>6, <2>3
  <2>5. ~Known(slices[p]) /\ Known(slices'[p])
    BY <1>1, <1>5, <1>6, <2>3 DEF Known
  <2>6. Cardinality(Taken(slices')) = Cardinality(Taken(slices)) + n
    BY <1>1, <1>2, <2>1, <2>5, TakenMore
  <2>7. Cardinality(Taken(slices)) \in Nat
    BY <1>2, TakenIs
  <2>8. freeMem' \in Nat /\ Memory = freeMem' + data' + Cardinality(Taken(slices'))
    BY <1>1, <1>4, <2>1, <2>2, <2>4, <2>6, <2>7, Sizes
  <2>9. ASSUME NEW q \in Slots, slices'[q].state # "FREE", ~slices'[q].bytesKnown PROVE FALSE
    <3>1. q # p /\ q = current /\ ~slices[current].bytesKnown
      BY <1>1, <1>4, <1>6, <2>9
    <3> QED BY <1>1, <1>4, <1>5, <1>6, <2>3, <3>1
  <2> QED BY <1>1, <1>4, <2>8, <2>9, ConservedMemory DEF MemoryInv
<1>7. CASE ~(t.bytesKnown /\ ~s.bytesKnown)
  <2>1. s = slices[p] /\ current' = current
    BY <1>3, <1>5, <1>7
  <2>2. freeMem' = freeMem
    BY <1>3, <1>4, <1>7 DEF MemoryTaken
  <2>3. (t.state = "FREE" <=> s.state = "FREE") /\ t.bytesKnown = s.bytesKnown
    BY <1>1, <1>3, <1>7
  <2>4. Taken(slices') = Taken(slices)
    <3> \A q \in Slots : /\ slices'[q].sliceNo = slices[q].sliceNo
                         /\ Known(slices'[q]) <=> Known(slices[q])
      BY <1>1, <2>1, <2>3 DEF Known
    <3> QED BY TakenSame
  <2>5. \A q \in Slots : slices'[q].state # "FREE" /\ ~slices'[q].bytesKnown
                            => q = current' /\ freeMem' >= SliceBlocks
    BY <1>1, <1>4, <2>1, <2>2, <2>3
  <2> QED BY <1>1, <1>4, <2>2, <2>4, <2>5, ConservedMemory DEF MemoryInv
<1> QED BY <1>6, <1>7

-----------------------------------------------------------------------------
(* Every step keeps the invariant *)

LEMMA RingSame ==
  ASSUME SlotsInv, RingInv, UNCHANGED <<slices, current, freeSlices, freePos, out>>
  PROVE  SlotsInv' /\ RingInv'
<1>1. SlotsInv'
  BY DEF SlotsInv
<1>2. RingInv'
  BY DEF RingInv, CurrentNo, Back
<1> QED BY <1>1, <1>2

LEMMA MemorySame ==
  ASSUME MemoryInv, UNCHANGED <<slices, current, freeMem, data>>
  PROVE  MemoryInv'
<1> MemoryConserved'
  BY ConservedMemory DEF MemoryInv
<1> QED BY DEF MemoryInv

LEMMA SpaceSame ==
  ASSUME SpaceInv, UNCHANGED <<slices, spaces, fecSlot>>,
         (fecPc' = "release") <=> (fecPc = "release")
  PROVE  SpaceInv'
<1>1. LiveSlots' = LiveSlots
  BY DEF LiveSlots, Live
<1>2. BlockSpaceConserved'
  BY <1>1, ConservedIsShared DEF SpaceInv, spaces
<1> QED BY <1>2 DEF SpaceInv, spaces

LEMMA AckSame ==
  ASSUME AckInv, UNCHANGED <<slices, out>>, acked' = acked
  PROVE  AckInv'
  BY DEF AckInv

LEMMA HandledKeeps ==
  ASSUME IInv, NEW m, NEW p, NEW s, NEW t, Handled(m, p, s, t)
  PROVE  IInv'
<1>1. SlotsInv' /\ RingInv' /\ PlacesInv' /\ ModeInv' /\ HandOverInv' /\ MemoryInv' /\ AckInv'
  BY HandledSlots, HandledRing, HandledPlaces, HandledMode, HandledHandOver, HandledMemory,
     HandledAck DEF IInv
<1>2. SpaceInv'
  <2>1. Effect(m, p, s, t) /\ SlotTyped(s) /\ Enters(p, s) /\ UNCHANGED fecSlot /\ p \in Slots
    BY DEF Handled, Entering, Elsewhere
  <2> QED BY <2>1, EffectSpaces DEF IInv, PlacesInv
<1> QED BY <1>1, <1>2 DEF IInv

LEMMA IgnoredKeeps ==
  ASSUME IInv, NEW m \in Messages, Ignored(m)
  PROVE  IInv'
<1>1. /\ UNCHANGED <<slices, current, freeSlices, freePos, out, spaces, freeMem, data, use_fec,
                     fecPc, fecSlot, fecQueue, receivedPtr, receivedSliceNo, top, endReached,
                     seenDone>>
      /\ netPc' \in {"exit", "dispatch"} /\ netMsg' \in Messages \cup {NoMsg} /\ netPos' = 0
      /\ acked' = acked \/ (acked' = acked \cup {m.sliceNo} /\ m.sliceNo < Len(out))
  BY DEF Ignored, Exit, OldSlice, Elsewhere
<1>2. SlotsInv' /\ RingInv' /\ MemoryInv' /\ SpaceInv'
  BY <1>1, RingSame, MemorySame, SpaceSame DEF IInv
<1>3. PlacesInv'
  <2> 0 \in Slots
    BY Sizes DEF Slots
  <2> QED BY <1>1 DEF IInv, PlacesInv
<1>4. ModeInv'
  BY <1>1 DEF IInv, ModeInv
<1>5. HandOverInv'
  BY <1>1 DEF IInv, HandOverInv, FecQueueExact
<1>6. AckInv'
  <2> m.sliceNo \in 0..LastSlice
    BY MessageIs
  <2> QED BY <1>1 DEF IInv, AckInv
<1> QED BY <1>2, <1>3, <1>4, <1>5, <1>6 DEF IInv

LEMMA HandleKeeps ==
  ASSUME IInv, NEW m \in Messages, Handle(m)
  PROVE  IInv'
  BY HandleCases, HandledKeeps, IgnoredKeeps

LEMMA WireIsMessages ==
  ASSUME PlacesInv
  PROVE  OnTheWire \subseteq Messages
<1> SUFFICES ASSUME NEW m \in OnTheWire PROVE m \in Messages
  OBVIOUS
<1>1. PICK n \in 0..top : m \in DataMsg(n) \cup FecMsg(n) \cup ReqAckMsg(n)
  BY DEF OnTheWire
<1>2. n \in 0..LastSlice
  BY <1>1, Sizes DEF PlacesInv
<1> QED BY <1>1, <1>2 DEF Messages

LEMMA ReceiveKeeps ==
  ASSUME IInv, Receive \/ Resume
  PROVE  IInv'
<1>1. CASE Resume
  <2> netMsg \in Messages
    BY <1>1 DEF Resume, IInv, PlacesInv
  <2> QED BY <1>1, HandleKeeps DEF Resume
<1>2. CASE Receive
  <2>1. PICK m \in OnTheWire :
           \/ Handle(m)
           \/ /\ netPc' = "find" /\ netMsg' = m /\ netPos' = 0
              /\ UNCHANGED <<slices, current, receivedPtr, receivedSliceNo, use_fec, freeSlices,
                             freePos, fecQueue, spaces, memory, endReached, seenDone, fecThread,
                             sender>>
    BY <1>2 DEF Receive
  <2>2. m \in Messages
    BY WireIsMessages DEF IInv
  <2>3. CASE Handle(m)
    BY <2>2, <2>3, HandleKeeps
  <2>4. CASE /\ netPc' = "find" /\ netMsg' = m /\ netPos' = 0
             /\ UNCHANGED <<slices, current, receivedPtr, receivedSliceNo, use_fec, freeSlices,
                            freePos, fecQueue, spaces, memory, endReached, seenDone, fecThread,
                            sender>>
    <3>1. UNCHANGED <<out, freeMem, data, fecPc, fecSlot, acked, top>>
      BY <2>4 DEF memory, fecThread, sender
    <3>2. SlotsInv' /\ RingInv' /\ MemoryInv' /\ SpaceInv' /\ AckInv'
      BY <2>4, <3>1, RingSame, MemorySame, SpaceSame, AckSame DEF IInv
    <3>3. PlacesInv'
      <4> 0 \in Slots
        BY Sizes DEF Slots
      <4> QED BY <2>2, <2>4, <3>1 DEF IInv, PlacesInv
    <3>4. ModeInv' /\ HandOverInv'
      BY <2>4, <3>1 DEF IInv, ModeInv, HandOverInv, FecQueueExact
    <3> QED BY <3>2, <3>3, <3>4 DEF IInv
  <2> QED BY <2>1, <2>3, <2>4
<1> QED BY <1>1, <1>2

\* The slot a message was filed in.
LEMMA CompletedIs ==
  ASSUME SlotsInv, RingInv, NEW p \in Slots, slices[p].sliceNo = netMsg.sliceNo,
         slices[p].sliceNo >= 0
  PROVE  (CHOOSE q \in Slots : slices[q].sliceNo = netMsg.sliceNo) = p
  BY RingFacts

LEMMA SeeDoneKeeps ==
  ASSUME IInv, SeeDone
  PROVE  IInv'
<1>1. /\ UNCHANGED <<slices, current, receivedPtr, receivedSliceNo, use_fec, freeSlices, freePos,
                     fecQueue, spaces, out, data, freeMem, endReached, netPc, netMsg, netPos,
                     fecPc, fecSlot, top, acked>>
      /\ seenDone' \in BOOLEAN
  BY DEF SeeDone, memory, fecThread, sender
<1>2. SlotsInv' /\ RingInv' /\ MemoryInv' /\ SpaceInv' /\ AckInv'
  BY <1>1, RingSame, MemorySame, SpaceSame, AckSame DEF IInv
<1>3. PlacesInv' /\ ModeInv' /\ HandOverInv'
  BY <1>1 DEF IInv, PlacesInv, ModeInv, HandOverInv, FecQueueExact
<1> QED BY <1>2, <1>3 DEF IInv

LEMMA AdvanceKeeps ==
  ASSUME IInv, AdvanceStep
  PROVE  IInv'
<1> DEFINE goesOn == IF seenDone THEN {"DONE"} ELSE Finished
<1>0. /\ UNCHANGED <<slices, current, use_fec, freeSlices, freePos, spaces, out, data, freeMem,
                     endReached, fecPc, fecSlot, top, acked>>
      /\ netPc \in {"complete", "advance"} /\ seenDone' \in BOOLEAN
  BY DEF AdvanceStep, memory, fecThread, sender
<1>1. SlotsInv' /\ RingInv' /\ MemoryInv' /\ SpaceInv' /\ AckInv'
  BY <1>0, RingSame, MemorySame, SpaceSame, AckSame DEF IInv
<1>2. CASE slices[netPos].state \in goesOn
  <2>1. /\ receivedSliceNo' = slices[netPos].sliceNo /\ netPos' = NextSlot(netPos)
        /\ UNCHANGED <<receivedPtr, fecQueue, netPc, netMsg>>
    BY <1>2 DEF AdvanceStep
  <2>2. netPos' \in Slots /\ receivedSliceNo' \in -1..LastSlice
    BY <2>1, NextSlotIs DEF IInv, PlacesInv, SlotsInv, SlotInv, SlotTyped
  <2>3. PlacesInv'
    BY <1>0, <2>1, <2>2 DEF IInv, PlacesInv
  <2>4. ModeInv' /\ HandOverInv'
    BY <1>0, <2>1 DEF IInv, ModeInv, HandOverInv, FecQueueExact
  <2> QED BY <1>1, <2>3, <2>4 DEF IInv
<1>3. CASE slices[netPos].state \notin goesOn
  <2> DEFINE completed == CHOOSE q \in Slots : slices[q].sliceNo = netMsg.sliceNo
  <2>1. /\ receivedPtr' = netPos /\ UNCHANGED receivedSliceNo
        /\ fecQueue' = IF netPc = "complete" /\ use_fec THEN Append(fecQueue, completed)
                       ELSE fecQueue
        /\ \/ ~use_fec /\ netPc' = "clean" /\ UNCHANGED <<netMsg, netPos>>
           \/ netPc' = "advance" /\ netPos' = receivedPtr' /\ UNCHANGED netMsg
           \/ netPc' = "dispatch" /\ netPos' = 0 /\ netMsg' = NoMsg
    BY <1>3 DEF AdvanceStep, AfterAdvance
  <2>2. netPc = "complete" => /\ completed \in Slots
                              /\ slices[completed].state \in {"DONE", "FEC"}
                              /\ completed \notin Range(fecQueue)
                              /\ fecPc = "decode" => completed # fecSlot
    <3> SUFFICES ASSUME netPc = "complete"
                 PROVE  /\ completed \in Slots
                        /\ slices[completed].state \in {"DONE", "FEC"}
                        /\ completed \notin Range(fecQueue)
                        /\ fecPc = "decode" => completed # fecSlot
      OBVIOUS
    <3>1. PICK p \in Slots : /\ slices[p].sliceNo = netMsg.sliceNo
                             /\ slices[p].state \in {"DONE", "FEC"}
                             /\ p \notin Range(fecQueue)
                             /\ fecPc = "decode" => p # fecSlot
      BY DEF IInv, HandOverInv
    <3>2. slices[p].sliceNo >= 0
      BY <3>1 DEF IInv, SlotsInv, SlotInv, Counted
    <3>3. completed = p
      BY <3>1, <3>2, CompletedIs DEF IInv
    <3> QED BY <3>1, <3>3
  <2> HIDE DEF completed
  <2>3. /\ fecQueue \in Seq(Slots) /\ IsInjective(fecQueue)
        /\ \A i \in DOMAIN fecQueue : slices[fecQueue[i]].state \in {"DONE", "FEC"}
        /\ DOMAIN fecQueue = 1..Len(fecQueue) /\ Len(fecQueue) \in Nat
    BY LenProperties DEF IInv, PlacesInv, HandOverInv, FecQueueExact
  <2>4. CASE netPc = "complete" /\ use_fec
    <3>1. fecQueue' = Append(fecQueue, completed) /\ fecQueue' \in Seq(Slots)
      BY <2>1, <2>2, <2>3, <2>4, AppendProperties
    <3>2. /\ DOMAIN fecQueue' = 1..Len(fecQueue) + 1
          /\ fecQueue'[Len(fecQueue) + 1] = completed
          /\ \A i \in 1..Len(fecQueue) : fecQueue'[i] = fecQueue[i]
          /\ \A i \in 1..Len(fecQueue) + 1 : i \in 1..Len(fecQueue) \/ i = Len(fecQueue) + 1
      BY <2>2, <2>3, <2>4, <3>1, AppendProperties, LenProperties
    <3>3. \A i \in 1..Len(fecQueue) : fecQueue[i] # completed
      BY <2>2, <2>3, <2>4 DEF Range
    <3>4. IsInjective(fecQueue')
      BY <2>3, <3>2, <3>3 DEF IsInjective
    <3>5. \A i \in DOMAIN fecQueue' : slices'[fecQueue'[i]].state \in {"DONE", "FEC"}
      BY <1>0, <2>2, <2>3, <2>4, <3>2
    <3>6. fecPc = "decode" => fecSlot \notin Range(fecQueue')
      <4> fecPc = "decode" => fecSlot \notin Range(fecQueue)
        BY DEF IInv, HandOverInv
      <4> QED BY <2>2, <2>3, <2>4, <3>2 DEF Range
    <3>7. HandOverInv'
      BY <1>0, <2>1, <2>4, <3>4, <3>5, <3>6 DEF IInv, HandOverInv, FecQueueExact
    <3>8. ModeInv'
      BY <1>0, <2>1, <2>4 DEF IInv, ModeInv
    <3>9. PlacesInv'
      <4> 0 \in Slots
        BY Sizes DEF Slots
      <4> QED BY <1>0, <2>1, <3>1 DEF IInv, PlacesInv
    <3> QED BY <1>1, <3>7, <3>8, <3>9 DEF IInv
  <2>5. CASE ~(netPc = "complete" /\ use_fec)
    <3>1. fecQueue' = fecQueue
      BY <2>1, <2>5
    <3>2. HandOverInv'
      BY <1>0, <2>1, <3>1 DEF IInv, HandOverInv, FecQueueExact
    <3>3. ModeInv'
      BY <1>0, <2>1, <3>1 DEF IInv, ModeInv
    <3>4. PlacesInv'
      <4> 0 \in Slots
        BY Sizes DEF Slots
      <4> QED BY <1>0, <2>1, <3>1 DEF IInv, PlacesInv
    <3> QED BY <1>1, <3>2, <3>3, <3>4 DEF IInv
  <2> QED BY <2>4, <2>5
<1> QED BY <1>2, <1>3

LEMMA SpacesSame ==
  ASSUME NEW S, NEW T, NEW L, \A q \in L : T[q].fec = S[q].fec
  PROVE  Spaces(T, L) = Spaces(S, L)
<1>1. \A q \in L : Kept(T[q]) = Kept(S[q])
  BY DEF Kept
<1>2. HeldOf(T, L) = HeldOf(S, L)
  BY <1>1 DEF HeldOf
<1>3. \A h \in HeldOf(S, L) :
        T[h[1]].fec[h[2][1]][h[2][2]].adr = S[h[1]].fec[h[2][1]][h[2][2]].adr
  BY HeldOfIs
<1> QED BY <1>2, <1>3 DEF Spaces

\* A sequence is one of its own elements, whatever is appended.
Appended(q, x, r) ==
  /\ r \in Seq(Range(r)) /\ Len(r) = Len(q) + 1 /\ Len(q) \in Nat
  /\ r[Len(q) + 1] = x /\ \A i \in 1..Len(q) : r[i] = q[i]
  /\ DOMAIN q = 1..Len(q) /\ DOMAIN r = 1..Len(q) + 1

LEMMA AppendRange ==
  ASSUME NEW q, q \in Seq(Range(q)), NEW x
  PROVE  Appended(q, x, Append(q, x))
<1>0. PICK r : r = Append(q, x)
  OBVIOUS
<1>1. q \in Seq(Range(q) \cup {x}) /\ DOMAIN q = 1..Len(q) /\ Len(q) \in Nat
  <2>1. DOMAIN q = 1..Len(q) /\ Len(q) \in Nat
    BY LenProperties
  <2>2. \A i \in 1..Len(q) : q[i] \in Range(q) \cup {x}
    BY <2>1 DEF Range
  <2>3. q = [i \in 1..Len(q) |-> q[i]]
    BY LenProperties
  <2>4. q \in [1..Len(q) -> Range(q) \cup {x}]
    BY <2>2, <2>3
  <2> QED BY <2>1, <2>4, SeqDef
<1>2. /\ r \in Seq(Range(q) \cup {x}) /\ Len(r) = Len(q) + 1
      /\ r[Len(q) + 1] = x /\ \A i \in 1..Len(q) : r[i] = q[i]
  BY <1>0, <1>1, AppendProperties
<1>3. DOMAIN r = 1..Len(q) + 1 /\ r = [i \in 1..Len(q) + 1 |-> r[i]]
  BY <1>1, <1>2, LenProperties
<1>4. r \in [1..Len(q) + 1 -> Range(r)]
  BY <1>3 DEF Range
<1>5. Len(q) + 1 \in Nat
  BY <1>1
<1>6. r \in Seq(Range(r))
  <2> PICK n \in Nat : n = Len(q) + 1
    BY <1>5
  <2> r \in [1..n -> Range(r)]
    BY <1>4
  <2> \A S : [1..n -> S] \subseteq Seq(S)
    BY SeqDef
  <2> QED OBVIOUS
<1> QED BY <1>0, <1>1, <1>2, <1>3, <1>6 DEF Appended

\* One of the two threads hands over a finished slice.
Cleans ==
  /\ CleanOne
  /\ \/ netPc = "clean" /\ slices[freePos].state = "DONE"
     \/ fecPc = "cleanup" /\ slices[freePos].state = "FEC_DONE"
  /\ UNCHANGED <<current, receivedPtr, receivedSliceNo, use_fec, fecQueue, local, nextBlock,
                 freeBlocks, heap, freeMem, fecPc, fecSlot, netPc, netMsg, netPos, seenDone,
                 top, acked>>

\* The oldest slice is the next to be handed over.
LEMMA CleansSlots ==
  ASSUME IInv, Cleans
  PROVE  /\ freePos \in Slots /\ freeSlices < NrSlices
         /\ LooksReleased(slices'[freePos], slices[freePos])
         /\ \A q \in Slots \ {freePos} : slices'[q] = slices[q]
         /\ DOMAIN slices' = Slots
         /\ slices[freePos].sliceNo = Len(out)
         /\ BackOf(current, freePos) = NrSlices - 1 - freeSlices
         /\ SlotsInv'
<1>1. /\ current \in Slots /\ freeSlices \in 0..NrSlices /\ CurrentNo \in 0..LastSlice
      /\ freePos = (current + freeSlices + 1) % NrSlices
      /\ Len(out) = CurrentNo + 1 - (NrSlices - freeSlices)
  BY DEF IInv, RingInv
<1>2. /\ freePos \in Slots
      /\ BackOf(current, freePos) = IF freeSlices = NrSlices THEN NrSlices - 1
                                    ELSE NrSlices - 1 - freeSlices
  BY <1>1, SlotAfterFree
<1>3. slices[freePos].state \in {"DONE", "FEC_DONE"} /\ SlotInv(slices[freePos])
  BY <1>2 DEF Cleans, IInv, SlotsInv
<1>4. /\ slices[freePos].state = "FREE" <=> BackOf(current, freePos) >= NrSlices - freeSlices
      /\ slices[freePos].sliceNo = IF BackOf(current, freePos) <= CurrentNo
                                   THEN CurrentNo - BackOf(current, freePos) ELSE -1
  BY <1>2 DEF IInv, RingInv, Back, BackOf
<1>5. freeSlices < NrSlices
  BY <1>1, <1>2, <1>3, <1>4, Sizes
<1>6. slices[freePos].sliceNo >= 0
  BY <1>3 DEF SlotInv, Counted
<1>7. slices[freePos].sliceNo = Len(out)
  BY <1>1, <1>2, <1>4, <1>5, <1>6, Sizes
<1>8. /\ slices' = [slices EXCEPT ![freePos] = Released(slices[freePos])]
      /\ DOMAIN slices = Slots /\ \A q \in Slots : SlotInv(slices[q])
  BY DEF Cleans, CleanOne, IInv, SlotsInv
<1>9. LooksReleased(slices'[freePos], slices[freePos])
  BY <1>2, <1>8, ReleasedIs
<1>10. SlotInv(slices'[freePos])
  <2> DEFINE s == slices[freePos]
             t == slices'[freePos]
  <2>1. /\ SlotTyped(s) /\ s.bytesKnown /\ Complete(s)
    BY <1>3 DEF SlotInv, Finished
  <2>2. LooksReleased(t, s)
    BY <1>9
  <2>3. DOMAIN NoMem = 0..SliceBlocks - 1
    BY DEF NoMem
  <2>4. NoMissing \in [Groups -> Nat] /\ NoFec \in [Groups -> Seq(Space)]
    BY NoFecTyped DEF NoMissing
  <2> HIDE DEF s, t
  <2>5. SlotTyped(t)
    BY <2>1, <2>2, <2>3, <2>4 DEF LooksReleased, SlotTyped
  <2>6. Complete(t) /\ t.bytesKnown /\ t.state = "FREE"
    BY <2>1, <2>2 DEF LooksReleased, Complete
  <2>7. SlotInv(t)
    BY <2>5, <2>6 DEF SlotInv, Finished
  <2> QED BY <2>7 DEF t
<1>11. BackOf(current, freePos) = NrSlices - 1 - freeSlices
  BY <1>1, <1>2, <1>5
<1>12. DOMAIN slices' = Slots /\ \A q \in Slots \ {freePos} : slices'[q] = slices[q]
  BY <1>8
<1>13. SlotsInv'
  BY <1>8, <1>10, <1>12 DEF SlotsInv
<1> QED BY <1>2, <1>5, <1>7, <1>9, <1>11, <1>12, <1>13

LEMMA CleansRing ==
  ASSUME IInv, Cleans
  PROVE  RingInv'
<1> DEFINE p == freePos
<1>1. /\ current \in Slots /\ freeSlices \in 0..NrSlices /\ CurrentNo \in 0..LastSlice
      /\ freePos = (current + freeSlices + 1) % NrSlices
      /\ \A q \in Slots :
           /\ slices[q].state = "FREE" <=> BackOf(current, q) >= NrSlices - freeSlices
           /\ slices[q].sliceNo = IF BackOf(current, q) <= CurrentNo
                                  THEN CurrentNo - BackOf(current, q) ELSE -1
      /\ out \in Seq(Range(out))
      /\ Len(out) = CurrentNo + 1 - (NrSlices - freeSlices)
      /\ \A i \in DOMAIN out : out[i].sliceNo = i - 1
  BY DEF IInv, RingInv, Back, BackOf
<1>2. /\ p \in Slots /\ freeSlices < NrSlices
      /\ LooksReleased(slices'[p], slices[p])
      /\ \A q \in Slots \ {p} : slices'[q] = slices[q]
      /\ slices[p].sliceNo = Len(out)
      /\ BackOf(current, p) = NrSlices - 1 - freeSlices
  BY CleansSlots
<1>3. /\ current' = current /\ freeSlices' = freeSlices + 1
      /\ freePos' = NextSlot(freePos)
  BY DEF Cleans, CleanOne
<1>4. /\ \A q \in Slots : BackOf(current, q) \in 0..NrSlices - 1
      /\ \A q \in Slots : BackOf(current, p) = BackOf(current, q) => p = q
  BY <1>1, <1>2, BackRange
<1>5. freePos' = (current' + freeSlices' + 1) % NrSlices
  <2>1. freeSlices \in Nat /\ current \in Nat /\ freeSlices < NrSlices
    BY <1>1, <1>2 DEF Slots
  <2>2. NextSlot(freePos) = (current + freeSlices + 2) % NrSlices
    BY <1>1, <1>2, SlotAfterFree
  <2>3. current' + freeSlices' + 1 = current + freeSlices + 2
    BY <1>3, <2>1
  <2> QED BY <1>3, <2>2, <2>3
<1>6. \A q \in Slots : slices'[q].sliceNo = slices[q].sliceNo
  BY <1>2 DEF LooksReleased
<1>7. CurrentNo' = CurrentNo
  BY <1>1, <1>3, <1>6 DEF CurrentNo
<1>8. ASSUME NEW q \in Slots
      PROVE  slices'[q].state = "FREE" <=> BackOf(current, q) >= NrSlices - freeSlices'
  <2>1. /\ freeSlices \in Int /\ NrSlices \in Int /\ BackOf(current, q) \in Int
        /\ BackOf(current, p) \in Int
    BY <1>1, <1>2, <1>4, Sizes
  <2>2. CASE q = p
    BY <1>2, <1>3, <2>1, <2>2 DEF LooksReleased
  <2>3. CASE q # p
    <3>1. BackOf(current, q) # BackOf(current, p) /\ slices'[q] = slices[q]
      BY <1>2, <1>4, <2>3
    <3>2. slices[q].state = "FREE" <=> BackOf(current, q) >= NrSlices - freeSlices
      BY <1>1
    <3>3. BackOf(current, q) >= NrSlices - freeSlices
            <=> BackOf(current, q) >= NrSlices - freeSlices'
      BY <1>2, <1>3, <2>1, <3>1
    <3> QED BY <3>1, <3>2, <3>3
  <2> QED BY <2>2, <2>3
<1>9. /\ out' \in Seq(Range(out')) /\ Len(out') = Len(out) + 1 /\ Len(out) \in Nat
      /\ \A i \in DOMAIN out' : out'[i].sliceNo = i - 1
  <2>1. PICK x : out' = Append(out, x) /\ x.sliceNo = slices[p].sliceNo
    BY DEF Cleans, CleanOne
  <2>2. /\ out' \in Seq(Range(out')) /\ Len(out') = Len(out) + 1 /\ Len(out) \in Nat
        /\ out'[Len(out) + 1] = x /\ \A i \in 1..Len(out) : out'[i] = out[i]
        /\ DOMAIN out = 1..Len(out) /\ DOMAIN out' = 1..Len(out) + 1
    <3>1. Appended(out, x, out')
      <4>1. Appended(out, x, Append(out, x))
        BY <1>1, AppendRange
      <4> QED BY <2>1, <4>1
    <3> QED BY <3>1 DEF Appended
  <2>3. ASSUME NEW i \in DOMAIN out' PROVE out'[i].sliceNo = i - 1
    <3>1. CASE i \in 1..Len(out)
      BY <1>1, <2>2, <3>1
    <3>2. CASE i = Len(out) + 1
      BY <1>2, <2>1, <2>2, <3>2
    <3> QED BY <2>2, <3>1, <3>2
  <2> QED BY <2>2, <2>3
<1>10. Len(out') = CurrentNo' + 1 - (NrSlices - freeSlices')
  BY <1>1, <1>3, <1>7, <1>9, Sizes
<1>11. freeSlices' \in 0..NrSlices
  BY <1>1, <1>2, <1>3, Sizes
<1> HIDE DEF p
<1>12. \A q \in Slots :
         /\ slices'[q].state = "FREE" <=> Back(q)' >= NrSlices - freeSlices'
         /\ slices'[q].sliceNo = IF Back(q)' <= CurrentNo' THEN CurrentNo' - Back(q)' ELSE -1
  BY <1>1, <1>3, <1>6, <1>7, <1>8 DEF Back, BackOf
<1> QED BY <1>1, <1>3, <1>5, <1>7, <1>9, <1>10, <1>11, <1>12 DEF RingInv

LEMMA CleansKeeps ==
  ASSUME IInv, Cleans
  PROVE  IInv'
<1>1. /\ freePos \in Slots /\ freeSlices < NrSlices
      /\ LooksReleased(slices'[freePos], slices[freePos])
      /\ \A q \in Slots \ {freePos} : slices'[q] = slices[q]
      /\ slices[freePos].sliceNo = Len(out)
      /\ SlotsInv' /\ SlotsInv /\ SlotInv(slices[freePos])
  BY CleansSlots DEF IInv, SlotsInv
<1>2. \/ netPc = "clean" /\ slices[freePos].state = "DONE" /\ fecPc = "absent"
         /\ fecQueue = <<>>
      \/ fecPc = "cleanup" /\ slices[freePos].state = "FEC_DONE"
  BY DEF Cleans, IInv, ModeInv
<1>3. /\ UNCHANGED <<current, receivedPtr, receivedSliceNo, use_fec, fecQueue, local, nextBlock,
                     freeBlocks, heap, freeMem, fecPc, fecSlot, netPc, netMsg, netPos, seenDone,
                     top, acked>>
      /\ data' = data + BlocksIn(slices[freePos].sliceNo)
      /\ endReached' \in {endReached, 2}
      /\ freePos' = NextSlot(freePos)
  BY DEF Cleans, CleanOne
<1>4. RingInv'
  BY CleansRing
<1>5. PlacesInv'
  BY <1>3 DEF IInv, PlacesInv
<1>6. ModeInv'
  <2> ~use_fec => \A q \in Slots : ~slices'[q].fec_stripes /\ slices'[q].state \notin {"FEC", "FEC_DONE"}
    BY <1>1 DEF IInv, ModeInv, LooksReleased
  <2> QED BY <1>3 DEF IInv, ModeInv
<1>7. HandOverInv'
  <2>1. \A i \in DOMAIN fecQueue : fecQueue[i] \in Slots
    <3> fecQueue \in Seq(Slots)
      BY DEF IInv, PlacesInv
    <3> QED BY LenProperties, ElementOfSeq
  <2>2. ASSUME NEW i \in DOMAIN fecQueue PROVE slices'[fecQueue[i]].state \in {"DONE", "FEC"}
    <3> slices[fecQueue[i]].state \in {"DONE", "FEC"}
      BY DEF IInv, HandOverInv, FecQueueExact
    <3> fecQueue # <<>>
      BY <2>2
    <3> fecQueue[i] # freePos
      BY <1>2
    <3> QED BY <1>1, <2>1
  <2>3. FecQueueExact'
    BY <1>3, <2>2 DEF IInv, HandOverInv, FecQueueExact
  <2>4. ASSUME netPc' = "complete"
        PROVE  \E q \in Slots : /\ slices'[q].sliceNo = netMsg'.sliceNo
                                /\ slices'[q].state \in {"DONE", "FEC"}
                                /\ q \notin Range(fecQueue')
                                /\ fecPc' = "decode" => q # fecSlot'
    <3>1. netPc = "complete" /\ slices[freePos].state = "FEC_DONE"
      BY <1>2, <1>3, <2>4
    <3> PICK q \in Slots : /\ slices[q].sliceNo = netMsg.sliceNo
                           /\ slices[q].state \in {"DONE", "FEC"}
                           /\ q \notin Range(fecQueue)
                           /\ fecPc = "decode" => q # fecSlot
      BY <3>1 DEF IInv, HandOverInv
    <3> slices'[q] = slices[q]
      BY <1>1, <3>1
    <3> QED BY <1>3
  <2>5. fecPc' # "decode" /\ fecPc' # "release"
    BY <1>2, <1>3
  <2> QED BY <2>3, <2>4, <2>5 DEF HandOverInv
<1>8. MemoryInv'
  <2>1. Known(slices[freePos]) /\ ~Known(slices'[freePos])
    BY <1>1, <1>2 DEF Known, SlotInv, Finished, LooksReleased
  <2>2. \A q \in Slots : slices[q].sliceNo \in -1..LastSlice /\ slices'[q].sliceNo \in -1..LastSlice
    BY <1>1 DEF SlotsInv, SlotInv, SlotTyped
  <2>3. Cardinality(Taken(slices))
          = Cardinality(Taken(slices')) + BlocksIn(slices[freePos].sliceNo)
    BY <1>1, <2>1, <2>2, TakenMore
  <2>4. Cardinality(Taken(slices')) \in Nat /\ BlocksIn(slices[freePos].sliceNo) \in Nat
    <3>1. slices[freePos].sliceNo \in Int
      BY <1>1, <2>2, Sizes
    <3>2. BlocksIn(slices[freePos].sliceNo) \in Nat
      BY <3>1, BlocksInType
    <3>3. Cardinality(Taken(slices')) \in Nat
      BY <2>2, TakenIs
    <3> QED BY <3>2, <3>3
  <2>5. data \in Nat /\ freeMem \in Nat /\ Memory = freeMem + data + Cardinality(Taken(slices))
    BY ConservedMemory DEF IInv, MemoryInv
  <2>6. data' \in Nat /\ Memory = freeMem' + data' + Cardinality(Taken(slices'))
    BY <1>3, <2>3, <2>4, <2>5
  <2>7. \A q \in Slots : slices'[q].state # "FREE" /\ ~slices'[q].bytesKnown
                           => q = current' /\ freeMem' >= SliceBlocks
    BY <1>1, <1>3 DEF IInv, MemoryInv, LooksReleased
  <2> QED BY <1>3, <2>5, <2>6, <2>7, ConservedMemory DEF MemoryInv
<1>9. SpaceInv'
  <2>1. freePos \notin LiveSlots /\ freePos \notin LiveSlots'
    BY <1>1, <1>2, <1>3 DEF LiveSlots, Live, LooksReleased
  <2>2. LiveSlots' = LiveSlots
    BY <1>1, <1>3, <2>1 DEF LiveSlots, Live
  <2>3. \A q \in LiveSlots : slices'[q].fec = slices[q].fec
    BY <1>1, <2>1 DEF LiveSlots
  <2>4. Spaces(slices', LiveSlots') = Spaces(slices, LiveSlots)
    BY <2>2, <2>3, SpacesSame
  <2>5. BlockSpaceConserved'
    BY <1>3, <2>4, ConservedIsShared DEF IInv, SpaceInv
  <2> QED BY <1>3, <2>5 DEF IInv, SpaceInv
<1>10. AckInv'
  <2>1. Len(out') = Len(out) + 1 /\ Len(out) \in Nat
    <3>1. PICK x : out' = Append(out, x)
      BY DEF Cleans, CleanOne
    <3>2. Appended(out, x, Append(out, x))
      BY AppendRange DEF IInv, RingInv
    <3> QED BY <3>1, <3>2 DEF Appended
  <2>2. acked' = acked /\ acked \subseteq 0..LastSlice
    BY <1>3 DEF IInv, AckInv
  <2>3. ASSUME NEW n \in acked
        PROVE  n < Len(out') \/ \E q \in Slots : slices'[q].sliceNo = n /\ slices'[q].state \in Finished
    <3>1. CASE n < Len(out)
      BY <2>1, <2>2, <3>1
    <3>2. CASE \E q \in Slots : slices[q].sliceNo = n /\ slices[q].state \in Finished
      <4> PICK q \in Slots : slices[q].sliceNo = n /\ slices[q].state \in Finished
        BY <3>2
      <4>1. CASE q = freePos
        BY <1>1, <2>1, <4>1
      <4>2. CASE q # freePos
        BY <1>1, <4>2
      <4> QED BY <4>1, <4>2
    <3> QED BY <3>1, <3>2 DEF IInv, AckInv
  <2> QED BY <2>2, <2>3 DEF AckInv
<1> QED BY <1>1, <1>4, <1>5, <1>6, <1>7, <1>8, <1>9, <1>10 DEF IInv

LEMMA NetCleanKeeps ==
  ASSUME IInv, NetClean
  PROVE  IInv'
<1>1. CASE slices[freePos].state = "DONE"
  <2> Cleans
    BY <1>1 DEF NetClean, Cleans, net, spaces, fecThread, sender
  <2> QED BY CleansKeeps
<1>2. CASE slices[freePos].state # "DONE"
  <2>1. /\ netPc = "clean" /\ netPc' = "dispatch" /\ netPos' = 0 /\ netMsg' = NoMsg
        /\ UNCHANGED <<slices, current, receivedPtr, receivedSliceNo, use_fec, freeSlices, freePos,
                       fecQueue, spaces, freeMem, data, out, endReached, seenDone, fecPc, fecSlot,
                       top, acked>>
    BY <1>2 DEF NetClean, fecThread, sender
  <2>2. SlotsInv' /\ RingInv' /\ MemoryInv' /\ SpaceInv' /\ AckInv'
    BY <2>1, RingSame, MemorySame, SpaceSame, AckSame DEF IInv
  <2>3. PlacesInv'
    <3> 0 \in Slots
      BY Sizes DEF Slots
    <3> QED BY <2>1 DEF IInv, PlacesInv
  <2>4. ModeInv' /\ HandOverInv'
    BY <2>1 DEF IInv, ModeInv, HandOverInv, FecQueueExact
  <2> QED BY <2>2, <2>3, <2>4 DEF IInv
<1> QED BY <1>1, <1>2

LEMMA FecCleanKeeps ==
  ASSUME IInv, FecClean
  PROVE  IInv'
<1>1. CASE slices[freePos].state = "FEC_DONE"
  <2> Cleans
    BY <1>1 DEF FecClean, Cleans, net, spaces, fecThread, sender
  <2> QED BY CleansKeeps
<1>2. CASE slices[freePos].state # "FEC_DONE"
  <2>1. /\ fecPc = "cleanup" /\ fecPc' = "wait" /\ fecSlot' = 0
        /\ UNCHANGED <<slices, current, receivedPtr, receivedSliceNo, use_fec, freeSlices, freePos,
                       fecQueue, local, nextBlock, freeBlocks, heap, freeMem, data, out, endReached,
                       netPc, netMsg, netPos, seenDone, top, acked>>
    BY <1>2 DEF FecClean, net, sender, spaces
  <2>2. SlotsInv' /\ RingInv' /\ MemoryInv' /\ AckInv'
    BY <2>1, RingSame, MemorySame, AckSame DEF IInv
  <2>3. SpaceInv'
    <3>1. LiveSlots' = LiveSlots
      BY <2>1 DEF LiveSlots, Live
    <3>2. BlockSpaceConserved'
      BY <2>1, <3>1, ConservedIsShared DEF IInv, SpaceInv
    <3> QED BY <2>1, <3>2 DEF IInv, SpaceInv
  <2>4. PlacesInv'
    <3> 0 \in Slots
      BY Sizes DEF Slots
    <3> QED BY <2>1 DEF IInv, PlacesInv
  <2>5. ModeInv' /\ HandOverInv'
    BY <2>1 DEF IInv, ModeInv, HandOverInv, FecQueueExact
  <2> QED BY <2>2, <2>3, <2>4, <2>5 DEF IInv
<1> QED BY <1>1, <1>2

\* The end, the writer and the sender touch what the slots do not hold.
LEMMA OutsideKeeps ==
  ASSUME IInv, Timeout \/ Writer \/ SendSlice
  PROVE  IInv'
<1>1. /\ UNCHANGED <<slices, current, receivedPtr, receivedSliceNo, use_fec, freeSlices, freePos,
                     fecQueue, spaces, out, netPc, netMsg, netPos, seenDone, fecPc, fecSlot,
                     acked>>
      /\ endReached' = endReached \/ endReached' = 3
      /\ top' = top \/ (top < LastSlice /\ top' = top + 1)
      /\ UNCHANGED <<data, freeMem>> \/ (data' = 0 /\ freeMem' = freeMem + data)
  BY DEF Timeout, Writer, SendSlice, memory, net, fecThread, sender
<1>2. SlotsInv' /\ RingInv' /\ SpaceInv' /\ AckInv'
  BY <1>1, RingSame, SpaceSame, AckSame DEF IInv
<1>3. PlacesInv'
  <2> top' \in 0..LastSlice
    BY <1>1, Sizes DEF IInv, PlacesInv
  <2> QED BY <1>1 DEF IInv, PlacesInv
<1>4. ModeInv' /\ HandOverInv'
  BY <1>1 DEF IInv, ModeInv, HandOverInv, FecQueueExact
<1>5. MemoryInv'
  <2>1. CASE UNCHANGED <<data, freeMem>>
    BY <1>1, <2>1, MemorySame DEF IInv
  <2>2. CASE data' = 0 /\ freeMem' = freeMem + data
    <3>1. data \in Nat /\ freeMem \in Nat /\ Memory = freeMem + data + Cardinality(Taken(slices))
      BY ConservedMemory DEF IInv, MemoryInv
    <3>2. Cardinality(Taken(slices)) \in Nat
      <4> \A q \in Slots : slices[q].sliceNo \in -1..LastSlice
        BY DEF IInv, SlotsInv, SlotInv, SlotTyped
      <4> QED BY TakenIs
    <3>3. data' \in Nat /\ freeMem' \in Nat /\ freeMem' >= freeMem
          /\ Memory = freeMem' + data' + Cardinality(Taken(slices'))
      BY <1>1, <2>2, <3>1, <3>2
    <3>4. \A q \in Slots : slices'[q].state # "FREE" /\ ~slices'[q].bytesKnown
                             => q = current' /\ freeMem' >= SliceBlocks
      <4> freeMem >= SliceBlocks => freeMem' >= SliceBlocks
        BY <3>1, <3>3, Sizes
      <4> QED BY <1>1 DEF IInv, MemoryInv
    <3> QED BY <3>3, <3>4, ConservedMemory DEF MemoryInv
  <2> QED BY <1>1, <2>1, <2>2
<1> QED BY <1>2, <1>3, <1>4, <1>5 DEF IInv

LEMMA StutterKeeps ==
  ASSUME IInv, UNCHANGED vars
  PROVE  IInv'
<1>1. UNCHANGED <<slices, current, receivedPtr, receivedSliceNo, use_fec, freeSlices, freePos,
                  fecQueue, spaces, out, data, freeMem, endReached, netPc, netMsg, netPos, seenDone,
                  fecPc, fecSlot, acked, top>>
  BY DEF vars, memory, net, fecThread, sender
<1>2. SlotsInv' /\ RingInv' /\ MemoryInv' /\ SpaceInv' /\ AckInv'
  BY <1>1, RingSame, MemorySame, SpaceSame, AckSame DEF IInv
<1>3. PlacesInv' /\ ModeInv' /\ HandOverInv'
  BY <1>1 DEF IInv, PlacesInv, ModeInv, HandOverInv, FecQueueExact
<1> QED BY <1>2, <1>3 DEF IInv

\* The FEC thread finishes a slot: its state and what its memory holds change.
Finishes(p, s) ==
  LET t == slices'[p]
  IN  /\ p \in Slots /\ s = slices[p] /\ s.state \in {"DONE", "FEC"}
      /\ DOMAIN t = Fields /\ t.state = "FEC_DONE" /\ t.sliceNo = s.sliceNo
      /\ t.bytesKnown = s.bytesKnown /\ t.map = s.map
      /\ t.blocksTransferred = s.blocksTransferred
      /\ t.dataBlocksTransferred = s.dataBlocksTransferred
      /\ DOMAIN t.mem = 0..SliceBlocks - 1 /\ t.fec_stripes = s.fec_stripes
      /\ t.missing = s.missing /\ t.fec = s.fec
      /\ DOMAIN slices' = Slots /\ \A q \in Slots \ {p} : slices'[q] = slices[q]

LEMMA FinishKeeps ==
  ASSUME IInv, NEW p, NEW s, Finishes(p, s),
         UNCHANGED <<current, freeSlices, freePos, freeMem, data, out, acked>>
  PROVE  SlotsInv' /\ RingInv' /\ MemoryInv' /\ AckInv'
<1>1. SlotInv(slices'[p])
  <2> DEFINE t == slices'[p]
  <2>1. SlotInv(s) /\ s.state \in {"DONE", "FEC"}
    BY DEF Finishes, IInv, SlotsInv
  <2>2. /\ DOMAIN t = Fields /\ t.state = "FEC_DONE" /\ t.sliceNo = s.sliceNo
        /\ t.bytesKnown = s.bytesKnown /\ t.map = s.map
        /\ t.blocksTransferred = s.blocksTransferred
        /\ t.dataBlocksTransferred = s.dataBlocksTransferred
        /\ DOMAIN t.mem = 0..SliceBlocks - 1 /\ t.fec_stripes = s.fec_stripes
        /\ t.missing = s.missing /\ t.fec = s.fec
    BY DEF Finishes
  <2> HIDE DEF t
  <2>3. SlotTyped(t)
    BY <2>1, <2>2 DEF SlotInv, SlotTyped, Finished
  <2>4. Counted(t)
    <3>1. Counted(s)
      BY <2>1 DEF SlotInv
    <3>2. Kept(t) = Kept(s) /\ \A g \in Groups : UnsetIn(t, g) = UnsetIn(s, g)
      BY <2>2 DEF Kept, UnsetIn, Unset
    <3>3. \A g \in Groups : GroupCounted(t, g)
      BY <2>2, <3>1, <3>2 DEF Counted, GroupCounted
    <3> QED BY <2>2, <3>1, <3>2, <3>3 DEF Counted
  <2>5. Complete(t) /\ t.bytesKnown
    BY <2>1, <2>2 DEF SlotInv, Complete, Finished
  <2>6. SlotInv(t)
    BY <2>2, <2>3, <2>4, <2>5 DEF SlotInv
  <2> QED BY <2>6 DEF t
<1>2. SlotsInv'
  BY <1>1 DEF Finishes, IInv, SlotsInv
<1>3. \A q \in Slots : /\ slices'[q].sliceNo = slices[q].sliceNo
                       /\ slices'[q].bytesKnown = slices[q].bytesKnown
                       /\ slices'[q].state = "FREE" <=> slices[q].state = "FREE"
                       /\ slices[q].state \in Finished => slices'[q].state \in Finished
  BY DEF Finishes, Finished
<1>4. RingInv'
  <2>1. current \in Slots
    BY DEF IInv, RingInv
  <2>2. CurrentNo' = CurrentNo
    BY <1>3, <2>1 DEF CurrentNo
  <2> QED BY <1>3, <2>2 DEF IInv, RingInv, Back
<1>5. MemoryInv'
  <2>1. Taken(slices') = Taken(slices)
    <3> \A q \in Slots : /\ slices'[q].sliceNo = slices[q].sliceNo
                         /\ Known(slices'[q]) <=> Known(slices[q])
      BY <1>3 DEF Known
    <3> QED BY TakenSame
  <2> QED BY <1>3, <2>1, ConservedMemory DEF IInv, MemoryInv
<1>6. AckInv'
  BY <1>3 DEF IInv, AckInv
<1> QED BY <1>2, <1>4, <1>5, <1>6

\* The first of the queue and the rest of it.
LEMMA QueueIs ==
  ASSUME PlacesInv, HandOverInv, fecQueue # <<>>
  PROVE  /\ Head(fecQueue) \in Slots /\ Tail(fecQueue) \in Seq(Slots)
         /\ Range(Tail(fecQueue)) \subseteq Range(fecQueue)
         /\ Head(fecQueue) \in Range(fecQueue) /\ Head(fecQueue) \notin Range(Tail(fecQueue))
         /\ IsInjective(Tail(fecQueue))
         /\ slices[Head(fecQueue)].state \in {"DONE", "FEC"}
         /\ \A i \in DOMAIN Tail(fecQueue) :
              slices[Tail(fecQueue)[i]].state \in {"DONE", "FEC"}
<1>1. /\ fecQueue \in Seq(Slots) /\ Len(fecQueue) \in Nat /\ Len(fecQueue) >= 1
      /\ DOMAIN fecQueue = 1..Len(fecQueue)
      /\ \A i, j \in DOMAIN fecQueue : fecQueue[i] = fecQueue[j] => i = j
      /\ \A i \in DOMAIN fecQueue : slices[fecQueue[i]].state \in {"DONE", "FEC"}
  BY LenProperties, EmptySeq DEF PlacesInv, HandOverInv, FecQueueExact, IsInjective
<1>2. /\ Head(fecQueue) = fecQueue[1] /\ Head(fecQueue) \in Slots
      /\ Tail(fecQueue) \in Seq(Slots) /\ Len(Tail(fecQueue)) = Len(fecQueue) - 1
      /\ \A i \in 1..Len(Tail(fecQueue)) : Tail(fecQueue)[i] = fecQueue[i + 1]
  BY <1>1, HeadTailProperties
<1>3. DOMAIN Tail(fecQueue) = 1..Len(fecQueue) - 1
  BY <1>2, LenProperties
<1>4. \A l \in Nat : \A i \in 1..l - 1 : i + 1 \in 1..l /\ i + 1 # 1
  OBVIOUS
<1>5. \A i \in DOMAIN Tail(fecQueue) :
        i \in Nat /\ i + 1 \in DOMAIN fecQueue /\ i + 1 # 1 /\ Tail(fecQueue)[i] = fecQueue[i + 1]
  BY <1>1, <1>2, <1>3, <1>4
<1>6. 1 \in DOMAIN fecQueue
  BY <1>1
<1>7. IsInjective(Tail(fecQueue))
  <2> SUFFICES ASSUME NEW i \in DOMAIN Tail(fecQueue), NEW j \in DOMAIN Tail(fecQueue),
                      Tail(fecQueue)[i] = Tail(fecQueue)[j]
               PROVE  i = j
    BY DEF IsInjective
  <2> i + 1 = j + 1 /\ i \in Nat /\ j \in Nat
    BY <1>1, <1>5
  <2> QED OBVIOUS
<1> QED BY <1>1, <1>2, <1>5, <1>6, <1>7 DEF Range

LEMMA TakeFinishes ==
  ASSUME IInv, FecTake, NEW p \in Slots, p = Head(fecQueue), slices[p].state = "DONE"
  PROVE  Finishes(p, slices[p])
<1>1. DOMAIN slices = Slots /\ SlotInv(slices[p])
  BY DEF IInv, SlotsInv
<1>2. DOMAIN slices[p] = Fields /\ DOMAIN slices[p].mem = 0..SliceBlocks - 1
  BY <1>1 DEF SlotInv, SlotTyped
<1>3. slices' = [slices EXCEPT ![p].state = "FEC_DONE"]
  BY DEF FecTake
<1>4. slices'[p] = [slices[p] EXCEPT !.state = "FEC_DONE"]
  BY <1>1, <1>3
<1>5. DOMAIN slices' = Slots /\ \A q \in Slots \ {p} : slices'[q] = slices[q]
  BY <1>1, <1>3
<1> QED BY <1>1, <1>2, <1>4, <1>5 DEF Finishes, Fields

LEMMA FecTakeKeeps ==
  ASSUME IInv, FecTake
  PROVE  IInv'
<1> DEFINE p == Head(fecQueue)
<1>1. /\ p \in Slots /\ Tail(fecQueue) \in Seq(Slots)
      /\ Range(Tail(fecQueue)) \subseteq Range(fecQueue)
      /\ p \in Range(fecQueue) /\ p \notin Range(Tail(fecQueue))
      /\ IsInjective(Tail(fecQueue))
      /\ slices[p].state \in {"DONE", "FEC"}
      /\ \A i \in DOMAIN Tail(fecQueue) : slices[Tail(fecQueue)[i]].state \in {"DONE", "FEC"}
  BY QueueIs DEF FecTake, IInv
<1>2. /\ fecPc = "wait" /\ fecQueue' = Tail(fecQueue) /\ fecSlot' = p
      /\ fecPc' = IF slices[p].state = "FEC" THEN "decode"
                  ELSE IF slices[p].state = "DONE" THEN "cleanup" ELSE "wait"
      /\ slices' = IF slices[p].state = "DONE" THEN [slices EXCEPT ![fecSlot'].state = "FEC_DONE"]
                   ELSE slices
      /\ UNCHANGED <<current, receivedPtr, receivedSliceNo, use_fec, freeSlices, freePos, local,
                     nextBlock, freeBlocks, heap, freeMem, data, out, endReached, netPc, netMsg,
                     netPos, seenDone, top, acked>>
  BY DEF FecTake, spaces, memory, net, sender
<1> HIDE DEF p
<1>3. DOMAIN slices = Slots /\ \A q \in Slots : SlotInv(slices[q])
  BY DEF IInv, SlotsInv
<1>4. /\ DOMAIN slices' = Slots /\ \A q \in Slots \ {p} : slices'[q] = slices[q]
      /\ slices'[p].fec = slices[p].fec /\ slices'[p].sliceNo = slices[p].sliceNo
      /\ slices'[p].fec_stripes = slices[p].fec_stripes
  <2> DOMAIN slices[p] = Fields
    BY <1>1, <1>3 DEF SlotInv, SlotTyped
  <2> QED BY <1>1, <1>2, <1>3 DEF Fields
<1>5. SlotsInv' /\ RingInv' /\ MemoryInv' /\ AckInv'
  <2>1. CASE slices[p].state = "DONE"
    <3>1. DOMAIN slices[p] = Fields /\ DOMAIN slices[p].mem = 0..SliceBlocks - 1
      BY <1>1, <1>3 DEF SlotInv, SlotTyped
    <3>2. slices'[p] = [slices[p] EXCEPT !.state = "FEC_DONE"]
      BY <1>1, <1>2, <1>3, <2>1
    <3>3. Finishes(p, slices[p])
      BY <1>1, <1>4, <3>1, <3>2 DEF Finishes, Fields
    <3> QED BY <1>2, <3>3, FinishKeeps
  <2>2. CASE slices[p].state # "DONE"
    BY <1>2, <2>2, RingSame, MemorySame, AckSame DEF IInv
  <2> QED BY <2>1, <2>2
<1>6. use_fec /\ use_fec' = use_fec
  BY <1>2 DEF IInv, ModeInv, PlacesInv
<1>7. PlacesInv'
  BY <1>1, <1>2 DEF IInv, PlacesInv
<1>8. ModeInv'
  BY <1>2, <1>6 DEF IInv, ModeInv
<1>9. \A q \in Range(Tail(fecQueue)) : q # p
  BY <1>1
<1>10. HandOverInv'
  <2>1. ASSUME NEW i \in DOMAIN fecQueue' PROVE slices'[fecQueue'[i]].state \in {"DONE", "FEC"}
    <3>1. Tail(fecQueue)[i] \in Range(Tail(fecQueue)) /\ fecQueue'[i] = Tail(fecQueue)[i]
      BY <1>2, <2>1 DEF Range
    <3>2. Tail(fecQueue)[i] \in Slots
      BY <1>1, <1>2, <2>1, LenProperties, ElementOfSeq
    <3>3. slices'[fecQueue'[i]] = slices[fecQueue'[i]]
      BY <1>4, <1>9, <3>1, <3>2
    <3> QED BY <1>1, <1>2, <2>1, <3>1, <3>3
  <2>2. FecQueueExact'
    BY <1>1, <1>2, <2>1 DEF FecQueueExact
  <2>3. Range(fecQueue') = Range(Tail(fecQueue))
    BY <1>2 DEF Range
  <2>4. ASSUME netPc' = "complete"
        PROVE  \E q \in Slots : /\ slices'[q].sliceNo = netMsg'.sliceNo
                                /\ slices'[q].state \in {"DONE", "FEC"}
                                /\ q \notin Range(fecQueue')
                                /\ fecPc' = "decode" => q # fecSlot'
    <3>1. PICK q \in Slots : /\ slices[q].sliceNo = netMsg.sliceNo
                             /\ slices[q].state \in {"DONE", "FEC"}
                             /\ q \notin Range(fecQueue)
      BY <1>2, <2>4 DEF IInv, HandOverInv
    <3>2. q # p /\ slices'[q] = slices[q] /\ q \notin Range(fecQueue')
      BY <1>1, <1>4, <2>3, <3>1
    <3> QED BY <1>2, <3>1, <3>2
  <2>5. fecPc' = "decode" => slices'[fecSlot'].state = "FEC" /\ fecSlot' \notin Range(fecQueue')
    <3> fecPc' = "decode" => slices[p].state = "FEC"
      BY <1>2
    <3> QED BY <1>1, <1>2, <2>3
  <2>6. fecPc' # "release"
    BY <1>2
  <2> QED BY <2>2, <2>4, <2>5, <2>6 DEF HandOverInv
<1>11. SpaceInv'
  <2>1. LiveSlots' = LiveSlots
    <3>1. \A q \in Slots : slices'[q].state \in {"RECEIVING", "FEC"} <=> slices[q].state \in {"RECEIVING", "FEC"}
      <4> slices[p].state = "DONE" => slices'[p].state = "FEC_DONE"
        <5> DOMAIN slices[p] = Fields
          BY <1>1, <1>3 DEF SlotInv, SlotTyped
        <5> QED BY <1>1, <1>2, <1>3 DEF Fields
      <4> slices[p].state # "DONE" => slices'[p] = slices[p]
        BY <1>2
      <4> QED BY <1>4
    <3>2. fecPc # "release" /\ fecPc' # "release"
      BY <1>2
    <3> QED BY <3>1, <3>2 DEF LiveSlots, Live
  <2>2. \A q \in LiveSlots : slices'[q].fec = slices[q].fec
    BY <1>4 DEF LiveSlots
  <2>3. Spaces(slices', LiveSlots') = Spaces(slices, LiveSlots)
    BY <2>1, <2>2, SpacesSame
  <2>4. BlockSpaceConserved'
    BY <1>2, <2>3, ConservedIsShared DEF IInv, SpaceInv
  <2> QED BY <1>2, <2>4 DEF IInv, SpaceInv
<1> QED BY <1>5, <1>7, <1>8, <1>10, <1>11 DEF IInv

\* What decoding does to its slot.
LEMMA DecodeFinishes ==
  ASSUME IInv, FecDecode
  PROVE  /\ Finishes(fecSlot, slices[fecSlot])
         /\ slices'[fecSlot].mem = [b \in 0..SliceBlocks - 1 |->
              IF b < BlocksIn(slices[fecSlot].sliceNo)
              THEN Repaired(slices[fecSlot], b % Stripes)[b \div Stripes]
              ELSE slices[fecSlot].mem[b]]
<1>1. slices[fecSlot].state = "FEC" /\ fecSlot \in Slots
  BY DEF FecDecode, IInv, HandOverInv, PlacesInv
<1>2. DOMAIN slices = Slots /\ SlotTyped(slices[fecSlot])
  BY <1>1 DEF IInv, SlotsInv, SlotInv
<1>3. PICK f : f = [b \in DOMAIN slices[fecSlot].mem |->
                      IF b < BlocksIn(slices[fecSlot].sliceNo)
                      THEN Repaired(slices[fecSlot], b % Stripes)[b \div Stripes]
                      ELSE slices[fecSlot].mem[b]]
  OBVIOUS
<1>4. slices' = [slices EXCEPT ![fecSlot].state = "FEC_DONE", ![fecSlot].mem = f]
  BY <1>3 DEF FecDecode
<1>5. slices'[fecSlot] = [slices[fecSlot] EXCEPT !.state = "FEC_DONE", !.mem = f]
  BY <1>1, <1>2, <1>4
<1>6. DOMAIN slices[fecSlot] = Fields /\ DOMAIN slices[fecSlot].mem = 0..SliceBlocks - 1
  BY <1>2 DEF SlotTyped
<1>7. Finishes(fecSlot, slices[fecSlot])
  <2>1. DOMAIN f = 0..SliceBlocks - 1
    BY <1>3, <1>6
  <2>2. DOMAIN slices' = Slots /\ \A q \in Slots \ {fecSlot} : slices'[q] = slices[q]
    BY <1>1, <1>2, <1>4
  <2> QED BY <1>1, <1>5, <1>6, <2>1, <2>2 DEF Finishes, Fields
<1>8. slices'[fecSlot].mem = f
  BY <1>5, <1>6 DEF Fields
<1> QED BY <1>3, <1>6, <1>7, <1>8

LEMMA FecDecodeKeeps ==
  ASSUME IInv, FecDecode
  PROVE  IInv'
<1>1. /\ fecPc = "decode" /\ fecPc' = "release" /\ fecSlot' = fecSlot
      /\ slices[fecSlot].state = "FEC" /\ fecSlot \notin Range(fecQueue) /\ fecSlot \in Slots
      /\ UNCHANGED <<current, receivedPtr, receivedSliceNo, use_fec, freeSlices, freePos, fecQueue,
                     local, nextBlock, freeBlocks, heap, freeMem, data, out, endReached, netPc,
                     netMsg, netPos, seenDone, top, acked>>
  BY DEF FecDecode, spaces, memory, net, sender, IInv, HandOverInv, PlacesInv
<1>2. Finishes(fecSlot, slices[fecSlot])
  BY DecodeFinishes
<1>3. SlotsInv' /\ RingInv' /\ MemoryInv' /\ AckInv'
  BY <1>1, <1>2, FinishKeeps
<1>4. /\ slices'[fecSlot].state = "FEC_DONE" /\ slices'[fecSlot].fec = slices[fecSlot].fec
      /\ \A q \in Slots \ {fecSlot} : slices'[q] = slices[q]
  BY <1>2 DEF Finishes
<1>5. PlacesInv' /\ ModeInv'
  <2> use_fec
    BY <1>1 DEF IInv, ModeInv, PlacesInv
  <2> QED BY <1>1 DEF IInv, PlacesInv, ModeInv
<1>6. HandOverInv'
  <2>1. ASSUME NEW i \in DOMAIN fecQueue' PROVE slices'[fecQueue'[i]].state \in {"DONE", "FEC"}
    <3>1. fecQueue[i] \in Range(fecQueue) /\ fecQueue' = fecQueue
      BY <1>1, <2>1 DEF Range
    <3>2. fecQueue[i] \in Slots
      BY <1>1, <2>1, LenProperties, ElementOfSeq DEF IInv, PlacesInv
    <3>3. slices'[fecQueue[i]] = slices[fecQueue[i]]
      BY <1>1, <1>4, <3>1, <3>2
    <3> QED BY <2>1, <3>1, <3>3 DEF IInv, HandOverInv, FecQueueExact
  <2>2. FecQueueExact'
    BY <1>1, <2>1 DEF FecQueueExact, IInv, HandOverInv
  <2>3. ASSUME netPc' = "complete"
        PROVE  \E q \in Slots : /\ slices'[q].sliceNo = netMsg'.sliceNo
                                /\ slices'[q].state \in {"DONE", "FEC"}
                                /\ q \notin Range(fecQueue')
                                /\ fecPc' = "decode" => q # fecSlot'
    <3>1. PICK q \in Slots : /\ slices[q].sliceNo = netMsg.sliceNo
                             /\ slices[q].state \in {"DONE", "FEC"}
                             /\ q \notin Range(fecQueue) /\ q # fecSlot
      BY <1>1, <2>3 DEF IInv, HandOverInv
    <3> QED BY <1>1, <1>4, <3>1
  <2> QED BY <1>1, <1>4, <2>2, <2>3 DEF HandOverInv
<1>7. SpaceInv'
  <2>1. LiveSlots' = LiveSlots
    BY <1>1, <1>4 DEF LiveSlots, Live
  <2>2. \A q \in LiveSlots : slices'[q].fec = slices[q].fec
    BY <1>4 DEF LiveSlots
  <2>3. Spaces(slices', LiveSlots') = Spaces(slices, LiveSlots)
    BY <2>1, <2>2, SpacesSame
  <2>4. BlockSpaceConserved'
    BY <1>1, <2>3, ConservedIsShared DEF IInv, SpaceInv
  <2> QED BY <1>1, <2>4 DEF IInv, SpaceInv
<1> QED BY <1>3, <1>5, <1>6, <1>7 DEF IInv

LEMMA FecReleaseKeeps ==
  ASSUME IInv, FecRelease
  PROVE  IInv'
<1> DEFINE used == UNION {{d.adr : d \in Range(slices[fecSlot].fec[g])} : g \in Groups}
           R == Kept(slices[fecSlot])
           A == Spaces(slices, LiveSlots)
           B == Spaces(slices', LiveSlots')
<1>1. /\ fecPc = "release" /\ fecPc' = "cleanup" /\ freeBlocks' = freeBlocks \cup used
      /\ heap' = [i \in DOMAIN heap |-> IF i \in used THEN 0 ELSE heap[i]]
      /\ UNCHANGED <<slices, current, receivedPtr, receivedSliceNo, use_fec, freeSlices, freePos,
                     fecQueue, local, nextBlock, freeMem, data, out, endReached, netPc, netMsg,
                     netPos, seenDone, fecSlot, top, acked>>
      /\ slices[fecSlot].state = "FEC_DONE" /\ fecSlot \in Slots
  BY DEF FecRelease, memory, net, sender, IInv, HandOverInv, PlacesInv
<1>2. SlotsInv' /\ RingInv' /\ MemoryInv' /\ AckInv'
  BY <1>1, RingSame, MemorySame, AckSame DEF IInv
<1>3. PlacesInv' /\ ModeInv' /\ HandOverInv'
  BY <1>1 DEF IInv, PlacesInv, ModeInv, HandOverInv, FecQueueExact
<1>4. fecSlot \in LiveSlots /\ LiveSlots' = LiveSlots \ {fecSlot} /\ LiveSlots \subseteq Slots
  BY <1>1 DEF LiveSlots, Live
<1>5. Without(B, A, fecSlot, R)
  <2>1. OnlyHeldIn(fecSlot, slices, LiveSlots, slices', LiveSlots')
    BY <1>1, <1>4 DEF OnlyHeldIn
  <2>2. HeldIn(slices', LiveSlots', fecSlot) = {} /\ HeldIn(slices, LiveSlots, fecSlot) = R
    BY <1>4 DEF HeldIn
  <2>3. HeldIn(slices', LiveSlots', fecSlot) = HeldIn(slices, LiveSlots, fecSlot) \ R
    BY <2>2
  <2>4. \A k \in HeldIn(slices', LiveSlots', fecSlot) :
          slices'[fecSlot].fec[k[1]][k[2]] = slices[fecSlot].fec[k[1]][k[2]]
    BY <2>2
  <2> HIDE DEF R
  <2> QED BY <2>1, <2>3, <2>4, HeldRemoved
<1>6. Shared(A, local, nextBlock, freeBlocks)
  BY ConservedIsShared DEF IInv, SpaceInv
<1>7. used = {A[h] : h \in ({fecSlot} \X R) \cap DOMAIN A}
  <2>1. DOMAIN A = HeldOf(slices, LiveSlots)
    BY DEF Spaces
  <2>2. \A k \in R : <<fecSlot, k>> \in DOMAIN A
                     /\ A[<<fecSlot, k>>] = slices[fecSlot].fec[k[1]][k[2]].adr
    BY <1>4, <2>1, HeldOfIs DEF Spaces
  <2>3. slices[fecSlot].fec \in [Groups -> Seq(Space)]
    BY <1>1 DEF IInv, SlotsInv, SlotInv, SlotTyped
  <2>4. /\ \A g \in Groups : DOMAIN slices[fecSlot].fec[g] = 1..Len(slices[fecSlot].fec[g])
        /\ \A k \in R : /\ k[1] \in Groups /\ k[2] \in 1..Len(slices[fecSlot].fec[k[1]])
                        /\ k = <<k[1], k[2]>>
        /\ \A g \in Groups : \A i \in 1..Len(slices[fecSlot].fec[g]) : <<g, i>> \in R
    BY <2>3, KeptIs
  <2> HIDE DEF A, R
  <2>5. ASSUME NEW x \in used PROVE x \in {A[h] : h \in ({fecSlot} \X R) \cap DOMAIN A}
    <3>1. PICK g \in Groups : x \in {d.adr : d \in Range(slices[fecSlot].fec[g])}
      BY <2>5
    <3>2. PICK i \in DOMAIN slices[fecSlot].fec[g] : x = slices[fecSlot].fec[g][i].adr
      BY <3>1 DEF Range
    <3>3. <<g, i>> \in R
      BY <2>4, <3>2
    <3>4. A[<<fecSlot, <<g, i>>>>] = x /\ <<fecSlot, <<g, i>>>> \in DOMAIN A
      BY <2>2, <3>2, <3>3
    <3> QED BY <3>3, <3>4
  <2>6. ASSUME NEW h \in ({fecSlot} \X R) \cap DOMAIN A PROVE A[h] \in used
    <3>1. PICK k \in R : h = <<fecSlot, k>>
      BY <2>6
    <3>2. A[h] = slices[fecSlot].fec[k[1]][k[2]].adr /\ k[1] \in Groups
          /\ k[2] \in DOMAIN slices[fecSlot].fec[k[1]]
      BY <2>2, <2>4, <3>1
    <3>3. slices[fecSlot].fec[k[1]][k[2]] \in Range(slices[fecSlot].fec[k[1]])
      BY <3>2 DEF Range
    <3> QED BY <3>2, <3>3
  <2> QED BY <2>5, <2>6
<1>8. Shared(B, local, nextBlock, freeBlocks \cup used)
  <2>1. PICK K : K = {fecSlot} \X R
    OBVIOUS
  <2>2. B = [h \in DOMAIN A \ K |-> A[h]] /\ used = {A[h] : h \in K \cap DOMAIN A}
    BY <1>5, <1>7, <2>1 DEF Without
  <2> HIDE DEF used, A, B, R
  <2>3. Shared(B, local, nextBlock, freeBlocks \cup {A[h] : h \in K \cap DOMAIN A})
    BY <1>6, <2>2, SharedRelease
  <2> QED BY <2>2, <2>3
<1>9. SpaceInv'
  <2> HIDE DEF used
  <2>1. Shared(B, local', nextBlock', freeBlocks')
    BY <1>1, <1>8
  <2>2. BlockSpaceConserved'
    BY <2>1, ConservedIsShared
  <2>3. heap' = [i \in 1..NR_BLOCKS |-> heap'[i]] /\ local' \in Seq(1..NR_BLOCKS)
    BY <1>1 DEF IInv, SpaceInv
  <2> QED BY <2>2, <2>3 DEF SpaceInv
<1> QED BY <1>2, <1>3, <1>9 DEF IInv

-----------------------------------------------------------------------------
(* The initial states *)

LEMMA InitRing ==
  ASSUME Init
  PROVE  SlotsInv /\ RingInv
<1>1. /\ slices = [p \in Slots |-> IF p = 0 THEN FreshSlice(0) ELSE FreeSlot]
      /\ current = 0 /\ freeSlices = NrSlices - 1 /\ freePos = 0 /\ out = <<>> /\ 0 \in Slots
  BY Sizes DEF Init, Slots
<1>2. LooksFresh(slices[0], 0) /\ \A p \in Slots \ {0} : slices[p] = FreeSlot
  BY <1>1, FreshSliceIs
<1>3. SlotInv(slices[0])
  <2>1. SlotTyped(slices[0]) /\ Counted(slices[0])
    <3> slices[0] = FreshSlice(0) /\ 0 \in 0..LastSlice
      BY <1>1, Sizes
    <3> QED BY FreshCounted
  <2>2. 0 < BlocksIn(slices[0].sliceNo)
    BY <1>2, FirstNotEmpty, BlocksInType DEF LooksFresh
  <2> QED BY <1>2, <2>1, <2>2 DEF SlotInv, LooksFresh, Finished
<1>4. SlotInv(FreeSlot)
  <2>1. DOMAIN NoMem = 0..SliceBlocks - 1 /\ -1 \in -1..LastSlice
    BY Sizes DEF NoMem
  <2>2. SlotTyped(FreeSlot)
    <3>1. FreeSlot.map \subseteq 0..BlocksIn(FreeSlot.sliceNo) - 1
      BY FreeSlotIs
    <3>2. FreeSlot.missing \in [Groups -> Nat] /\ FreeSlot.fec \in [Groups -> Seq(Space)]
      BY FreeSlotIs, NoFecTyped
    <3>3. /\ FreeSlot.sliceNo \in -1..LastSlice /\ DOMAIN FreeSlot.mem = 0..SliceBlocks - 1
          /\ DOMAIN FreeSlot = Fields
      BY <2>1, FreeSlotIs
    <3>4. /\ FreeSlot.state = "FREE"
          /\ FreeSlot.blocksTransferred \in Nat /\ FreeSlot.dataBlocksTransferred \in Nat
      BY FreeSlotIs
    <3>5. FreeSlot.bytesKnown \in BOOLEAN /\ FreeSlot.fec_stripes \in BOOLEAN
      BY FreeSlotIs, Zenon
    <3>6. PICK s : s = FreeSlot
      OBVIOUS
    <3>7. SlotTyped(s)
      BY <3>1, <3>2, <3>3, <3>4, <3>5, <3>6 DEF SlotTyped
    <3> QED BY <3>6, <3>7
  <2> QED BY <2>2, FreeSlotIs DEF SlotInv, Finished
<1>5. SlotsInv
  BY <1>1, <1>2, <1>3, <1>4 DEF SlotsInv
<1>6. CurrentNo = 0
  BY <1>1, <1>2 DEF CurrentNo, LooksFresh
<1>7. ASSUME NEW p \in Slots
      PROVE  /\ slices[p].state = "FREE" <=> Back(p) >= NrSlices - freeSlices
             /\ slices[p].sliceNo = IF Back(p) <= CurrentNo THEN CurrentNo - Back(p) ELSE -1
  <2>1. Back(p) \in 0..NrSlices - 1 /\ (Back(p) = 0 <=> p = 0)
    <3> /\ BackOf(0, p) \in 0..NrSlices - 1 /\ BackOf(0, 0) = 0
        /\ BackOf(0, p) = BackOf(0, 0) => p = 0
      BY <1>1, BackRange
    <3> QED BY <1>1 DEF Back, BackOf
  <2>2. CASE p = 0
    BY <1>1, <1>2, <1>6, <2>1, <2>2, Sizes DEF LooksFresh
  <2>3. CASE p # 0
    <3> slices[p].state = "FREE" /\ slices[p].sliceNo = -1
      BY <1>2, <2>3, FreeSlotIs
    <3> QED BY <1>1, <1>6, <2>1, <2>3, Sizes
  <2> QED BY <2>2, <2>3
<1>8. /\ out \in Seq(Range(out)) /\ Len(out) = CurrentNo + 1 - (NrSlices - freeSlices)
      /\ \A i \in DOMAIN out : out[i].sliceNo = i - 1
  <2> <<>> \in Seq(Range(<<>>)) /\ Len(<<>>) = 0 /\ DOMAIN <<>> = {}
    BY EmptySeq
  <2> QED BY <1>1, <1>6, Sizes
<1>9. freePos = (current + freeSlices + 1) % NrSlices
  <2> NrSlices % NrSlices = 0
    BY Sizes
  <2> current + freeSlices + 1 = NrSlices
    BY <1>1, Sizes
  <2> QED BY <1>1
<1>10. current \in Slots /\ freeSlices \in 0..NrSlices /\ CurrentNo \in 0..LastSlice
  BY <1>1, <1>6, Sizes
<1> QED BY <1>5, <1>7, <1>8, <1>9, <1>10 DEF RingInv

LEMMA InitKeeps ==
  ASSUME Init
  PROVE  IInv
<1>1. SlotsInv /\ RingInv
  BY InitRing
<1>2. /\ \A p \in Slots : slices[p] = IF p = 0 THEN FreshSlice(0) ELSE FreeSlot
      /\ LooksFresh(FreshSlice(0), 0) /\ 0 \in Slots
  BY FreshSliceIs, Sizes DEF Init, Slots
<1>3. \A p \in Slots : /\ slices[p].fec = NoFec /\ ~slices[p].fec_stripes /\ ~slices[p].bytesKnown
                       /\ slices[p].state \in {"RECEIVING", "FREE"}
                       /\ slices[p].state # "FREE" => p = 0
  BY <1>2, FreeSlotIs DEF LooksFresh
<1>4. PlacesInv
  <2> <<>> \in Seq(Slots)
    BY EmptySeq
  <2> -1 \in -1..LastSlice /\ 0 \in 0..LastSlice
    BY Sizes
  <2> QED BY <1>2 DEF Init, PlacesInv
<1>5. ModeInv
  BY <1>3 DEF Init, ModeInv
<1>6. HandOverInv
  BY DEF Init, HandOverInv, FecQueueExact, IsInjective
<1>7. MemoryInv
  <2>1. Taken(slices) = {}
    BY <1>3 DEF Taken, Known
  <2>2. Cardinality(Taken(slices)) = 0
    BY <2>1, FS_EmptySet
  <2>3. freeMem = Memory /\ data = 0 /\ current = 0
    BY DEF Init
  <2>4. MemoryConserved
    BY <2>2, <2>3, ConservedMemory, Sizes
  <2> QED BY <1>3, <2>3, <2>4, Sizes DEF MemoryInv
<1>8. SpaceInv
  <2>1. HeldOf(slices, LiveSlots) = {}
    <3> \A p \in Slots : Kept(slices[p]) = {}
      BY <1>3 DEF Kept, NoFec
    <3> QED BY DEF HeldOf, LiveSlots
  <2>2. /\ DOMAIN Spaces(slices, LiveSlots) = {}
        /\ Range(Spaces(slices, LiveSlots)) = {} /\ IsInjective(Spaces(slices, LiveSlots))
    BY <2>1 DEF Spaces, Range, IsInjective
  <2>3. freeBlocks = 2..NR_BLOCKS /\ local = <<>> /\ nextBlock = 1
        /\ heap = [i \in 1..NR_BLOCKS |-> 0]
    BY DEF Init
  <2>4. Range(local) = {} /\ IsInjective(local) /\ local \in Seq(1..NR_BLOCKS)
    BY <2>3, EmptySeq DEF Range, IsInjective
  <2>5. {1} \cup 2..NR_BLOCKS = 1..NR_BLOCKS
    BY Sizes
  <2>6. Shared(Spaces(slices, LiveSlots), local, nextBlock, freeBlocks)
    BY <2>2, <2>3, <2>4, <2>5 DEF Shared
  <2>7. BlockSpaceConserved
    BY <2>6, ConservedIsShared
  <2> QED BY <2>3, <2>4, <2>7 DEF SpaceInv
<1>9. AckInv
  BY DEF Init, AckInv
<1> QED BY <1>1, <1>4, <1>5, <1>6, <1>7, <1>8, <1>9 DEF IInv

LEMMA NextKeeps ==
  ASSUME IInv, Next
  PROVE  IInv'
<1>1. CASE NetThread
  <2>1. CASE Receive \/ Resume
    BY <2>1, ReceiveKeeps
  <2>2. CASE AdvanceStep
    BY <2>2, AdvanceKeeps
  <2>3. CASE NetClean
    BY <2>3, NetCleanKeeps
  <2>4. CASE Timeout
    BY <2>4, OutsideKeeps
  <2>5. CASE SeeDone
    BY <2>5, SeeDoneKeeps
  <2> QED BY <1>1, <2>1, <2>2, <2>3, <2>4, <2>5 DEF NetThread
<1>2. CASE FecThread
  BY <1>2, FecTakeKeeps, FecDecodeKeeps, FecReleaseKeeps, FecCleanKeeps DEF FecThread
<1>3. CASE Writer \/ SendSlice
  BY <1>3, OutsideKeeps
<1> QED BY <1>1, <1>2, <1>3 DEF Next

-----------------------------------------------------------------------------
(* The blocks of a group *)

\* Division leaves the remainder.
LEMMA Division ==
  ASSUME NEW S \in Nat \ {0}, NEW b \in Nat
  PROVE  \E q, r \in Nat : q = b \div S /\ r = b % S /\ b = q * S + r /\ r < S
<1>1. b \div S \in Nat /\ b % S \in 0..S - 1
  OBVIOUS
<1>2. PICK q \in Nat, r \in Nat : q = b \div S /\ r = b % S
  BY <1>1
<1>3. r < S
  BY <1>1, <1>2
<1>4. b = S * q + r
  BY <1>2
<1>5. S * q = q * S
  OBVIOUS
<1> QED BY <1>2, <1>3, <1>4, <1>5

\* What a number is divided into gives it back.
LEMMA Quotient ==
  ASSUME NEW S \in Nat \ {0}, NEW q \in Nat, NEW r \in Nat, r < S
  PROVE  (q * S + r) \div S = q /\ (q * S + r) % S = r /\ q * S + r \in Nat
<1>1. PICK b \in Nat : b = q * S + r
  OBVIOUS
<1>2. b \div S = q
  BY <1>1
<1>3. b % S = r
  BY <1>1
<1> QED BY <1>1, <1>2, <1>3

\* A block is given by its place in its group and by its group.
LEMMA BlockOf ==
  /\ \A b \in Nat : /\ b \div Stripes \in Nat /\ b % Stripes \in Groups
                    /\ b = (b \div Stripes) * Stripes + (b % Stripes)
  /\ \A j \in Nat, g \in Groups : /\ j * Stripes + g \in Nat
                                  /\ (j * Stripes + g) \div Stripes = j
                                  /\ (j * Stripes + g) % Stripes = g
<1>0. Stripes \in Nat \ {0} /\ Groups = 0..Stripes - 1
  BY Sizes DEF Groups
<1>1. ASSUME NEW b \in Nat
      PROVE  /\ b \div Stripes \in Nat /\ b % Stripes \in Groups
             /\ b = (b \div Stripes) * Stripes + (b % Stripes)
  <2>1. PICK q, r \in Nat : q = b \div Stripes /\ r = b % Stripes /\ b = q * Stripes + r
                            /\ r < Stripes
    BY <1>0, Division
  <2> QED BY <1>0, <2>1
<1>2. ASSUME NEW j \in Nat, NEW g \in Groups
      PROVE  /\ j * Stripes + g \in Nat
             /\ (j * Stripes + g) \div Stripes = j
             /\ (j * Stripes + g) % Stripes = g
  <2> g \in Nat /\ g < Stripes
    BY <1>0
  <2> QED BY <1>0, Quotient
<1> QED BY <1>1, <1>2

\* A group has a block for each place whose number is one of the slice.
LEMMA GroupSizeIs ==
  ASSUME NEW n \in Int, NEW g \in Groups
  PROVE  /\ GroupSize(n, g) \in Nat
         /\ \A j \in Nat : j < GroupSize(n, g) <=> j * Stripes + g < BlocksIn(n)
<1>0. /\ Stripes \in Nat /\ Stripes > 0 /\ g \in Nat /\ g < Stripes
  BY Sizes DEF Groups
<1>1. PICK B \in Nat : B = BlocksIn(n)
  BY BlocksInType
<1>2. PICK k \in Nat : \A j \in Nat : j < k <=> j * Stripes + g < B
  <2>1. PICK x \in Nat : x = B + (Stripes - 1 - g)
    BY <1>0
  <2>2. PICK k, r \in Nat : x = k * Stripes + r /\ r < Stripes
    <3> Stripes \in Nat \ {0}
      BY Sizes
    <3> QED BY Division
  <2>3. ASSUME NEW j \in Nat PROVE j < k <=> j * Stripes + g < B
    <3>1. CASE j < k
      <4>1. (j + 1) * Stripes <= k * Stripes
        BY <1>0, <3>1
      <4>2. (j + 1) * Stripes = j * Stripes + Stripes /\ j * Stripes \in Nat /\ k * Stripes \in Nat
        BY <1>0
      <4> QED BY <1>0, <2>1, <2>2, <3>1, <4>1, <4>2
    <3>2. CASE ~(j < k)
      <4>1. k * Stripes <= j * Stripes
        BY <1>0, <3>2
      <4>2. j * Stripes \in Nat /\ k * Stripes \in Nat
        BY <1>0
      <4> QED BY <1>0, <2>1, <2>2, <3>2, <4>1, <4>2
    <3> QED BY <3>1, <3>2
  <2> QED BY <2>3
<1>3. PICK S : S = {b \in 0..B - 1 : b % Stripes = g}
  OBVIOUS
<1>4. PICK f : f = [j \in 0..k - 1 |-> j * Stripes + g]
  OBVIOUS
<1>5. IsFiniteSet(0..k - 1) /\ Cardinality(0..k - 1) = k /\ IsFiniteSet(0..B - 1)
  BY IntervalCount
<1>6. IsFiniteSet(S)
  BY <1>3, <1>5, FS_Subset
<1>7. \A j \in 0..k - 1 : /\ f[j] = j * Stripes + g /\ f[j] \in S
                          /\ f[j] \div Stripes = j
  <2> SUFFICES ASSUME NEW j \in 0..k - 1
               PROVE  f[j] = j * Stripes + g /\ f[j] \in S /\ f[j] \div Stripes = j
    OBVIOUS
  <2>1. j \in Nat /\ j < k /\ f[j] = j * Stripes + g
    BY <1>4
  <2>2. /\ f[j] \in Nat /\ f[j] % Stripes = g /\ f[j] \div Stripes = j /\ f[j] < B
    BY <1>2, <2>1, BlockOf
  <2> QED BY <1>3, <2>1, <2>2
<1>8. f \in Injection(0..k - 1, S)
  BY <1>4, <1>7 DEF Injection, IsInjective
<1>9. \A b \in S : \E j \in 0..k - 1 : f[j] = b
  <2> SUFFICES ASSUME NEW b \in S PROVE \E j \in 0..k - 1 : f[j] = b
    OBVIOUS
  <2>1. b \in Nat /\ b < B /\ b % Stripes = g
    BY <1>1, <1>3
  <2>2. PICK j \in Nat : j = b \div Stripes /\ b = j * Stripes + g
    <3> /\ b \div Stripes \in Nat
        /\ b = (b \div Stripes) * Stripes + (b % Stripes)
      BY <2>1, BlockOf
    <3> QED BY <2>1
  <2>3. j < k
    BY <1>2, <2>1, <2>2
  <2> QED BY <1>7, <2>2, <2>3
<1>10. f \in Surjection(0..k - 1, S)
  BY <1>4, <1>7, <1>9 DEF Surjection
<1>11. Cardinality(S) = k
  BY <1>5, <1>6, <1>8, <1>10, FS_Injection
<1> QED BY <1>1, <1>2, <1>3, <1>11 DEF GroupSize

\* The places of the blocks that a group misses.
LEMMA ErasedPlaces ==
  ASSUME NEW s, SlotTyped(s), NEW g \in Groups, NEW P,
         P = {b \div Stripes : b \in UnsetIn(s, g)}
  PROVE  /\ P \subseteq 0..GroupSize(s.sliceNo, g) - 1
         /\ IsFiniteSet(P) /\ Cardinality(P) = Cardinality(UnsetIn(s, g))
         /\ \A j \in 0..GroupSize(s.sliceNo, g) - 1 : j \in P <=> j * Stripes + g \notin s.map
<1>1. s.sliceNo \in Int /\ Stripes \in Nat
  BY Sizes DEF SlotTyped
<1>2. PICK k \in Nat : k = GroupSize(s.sliceNo, g)
  BY <1>1, GroupSizeIs
<1>3. \A j \in Nat : j < k <=> j * Stripes + g < BlocksIn(s.sliceNo)
  BY <1>1, <1>2, GroupSizeIs
<1>4. PICK B \in Nat : B = BlocksIn(s.sliceNo)
  BY <1>1, BlocksInType
<1>5. \A b \in UnsetIn(s, g) : /\ b \in Nat /\ b < B /\ b \notin s.map /\ b % Stripes = g
                               /\ b \div Stripes \in Nat /\ b = (b \div Stripes) * Stripes + g
  <2> SUFFICES ASSUME NEW b \in UnsetIn(s, g)
               PROVE  /\ b \in Nat /\ b < B /\ b \notin s.map /\ b % Stripes = g
                      /\ b \div Stripes \in Nat /\ b = (b \div Stripes) * Stripes + g
    OBVIOUS
  <2>1. b \in 0..B - 1 /\ b \notin s.map /\ b % Stripes = g
    BY <1>4 DEF UnsetIn, Unset
  <2>2. b \in Nat /\ b < B
    BY <1>4, <2>1
  <2> QED BY <2>1, <2>2, BlockOf
<1>6. ASSUME NEW j \in Nat, j < k, j * Stripes + g \notin s.map
      PROVE  j * Stripes + g \in UnsetIn(s, g) /\ (j * Stripes + g) \div Stripes = j
  <2>1. PICK b \in Nat : b = j * Stripes + g /\ b % Stripes = g /\ b \div Stripes = j
    BY BlockOf
  <2>2. b \in 0..B - 1
    BY <1>3, <1>4, <1>6, <2>1
  <2> QED BY <1>4, <1>6, <2>1, <2>2 DEF UnsetIn, Unset
<1>7. P \subseteq 0..k - 1
  <2> SUFFICES ASSUME NEW b \in UnsetIn(s, g) PROVE b \div Stripes \in 0..k - 1
    OBVIOUS
  <2>1. PICK j \in Nat : j = b \div Stripes /\ b = j * Stripes + g /\ b < B
    BY <1>5
  <2>2. j < k
    BY <1>3, <1>4, <2>1
  <2> QED BY <2>1, <2>2
<1>8. \A j \in 0..k - 1 : j \in P <=> j * Stripes + g \notin s.map
  <2> SUFFICES ASSUME NEW j \in Nat, j < k
               PROVE  j \in P <=> j * Stripes + g \notin s.map
    OBVIOUS
  <2>1. ASSUME j \in P PROVE j * Stripes + g \notin s.map
    BY <1>5, <2>1
  <2>2. ASSUME j * Stripes + g \notin s.map PROVE j \in P
    <3> PICK b \in UnsetIn(s, g) : b \div Stripes = j
      BY <1>6, <2>2
    <3> QED OBVIOUS
  <2> QED BY <2>1, <2>2
<1>9. IsFiniteSet(UnsetIn(s, g))
  BY SlotFinite
<1>10. PICK f : f = [b \in UnsetIn(s, g) |-> b \div Stripes]
  OBVIOUS
<1>11. f \in Surjection(UnsetIn(s, g), P)
  BY <1>10 DEF Surjection
<1>12. f \in Injection(UnsetIn(s, g), P)
  <2>1. \A b, c \in UnsetIn(s, g) : f[b] = f[c] => b = c
    BY <1>5, <1>10
  <2> QED BY <1>10, <2>1 DEF Injection, IsInjective
<1>13. IsFiniteSet(P) /\ Cardinality(P) = Cardinality(UnsetIn(s, g))
  BY <1>9, <1>11, <1>12, FS_Surjection
<1> QED BY <1>2, <1>7, <1>8, <1>13

\* What group g of slice n holds at the sender.
Original(n, g) == GroupData([b \in 0..BlocksIn(n) - 1 |-> Content(n, b)], n, g)

LEMMA OriginalIs ==
  ASSUME NEW n \in Int, NEW g \in Groups
  PROVE  Original(n, g) = [j \in 0..GroupSize(n, g) - 1 |-> Content(n, j * Stripes + g)]
<1>1. PICK k \in Nat : k = GroupSize(n, g)
  BY GroupSizeIs
<1>2. PICK B \in Nat : B = BlocksIn(n)
  BY BlocksInType
<1>3. \A j \in 0..k - 1 : j * Stripes + g \in 0..B - 1
  <2> SUFFICES ASSUME NEW j \in Nat, j < k PROVE j * Stripes + g \in 0..B - 1
    OBVIOUS
  <2>1. PICK b \in Nat : b = j * Stripes + g
    BY BlockOf
  <2>2. b < B
    BY <1>1, <1>2, <2>1, GroupSizeIs
  <2> QED BY <1>2, <2>1, <2>2
<1> QED BY <1>1, <1>2, <1>3 DEF Original, GroupData

\* A group without the blocks at places P.
ErasedAt(n, g, P) ==
  [j \in 0..GroupSize(n, g) - 1 |-> IF j \in P THEN 0 ELSE Original(n, g)[j]]

\* What the decoder takes from the memory of a slice for a group.
LEMMA GroupDataIs ==
  ASSUME NEW s, SlotTyped(s), NEW g \in Groups, NEW P,
         P = {b \div Stripes : b \in UnsetIn(s, g)}, Filled(s)
  PROVE  GroupData(s.mem, s.sliceNo, g) = ErasedAt(s.sliceNo, g, P)
<1>1. s.sliceNo \in Int
  BY Sizes DEF SlotTyped
<1>2. PICK k \in Nat : k = GroupSize(s.sliceNo, g)
  BY <1>1, GroupSizeIs
<1>3. PICK B \in 0..SliceBlocks : B = BlocksIn(s.sliceNo)
  BY <1>1, BlocksInType
<1>4. \A j \in 0..k - 1 : j * Stripes + g \in 0..SliceBlocks - 1
  <2> SUFFICES ASSUME NEW j \in Nat, j < k PROVE j * Stripes + g \in 0..SliceBlocks - 1
    OBVIOUS
  <2>1. PICK b \in Nat : b = j * Stripes + g
    BY BlockOf
  <2>2. b < B
    BY <1>1, <1>2, <1>3, <2>1, GroupSizeIs
  <2> QED BY <1>3, <2>1, <2>2, Sizes
<1>5. \A j \in 0..k - 1 : s.mem[j * Stripes + g]
        = IF j * Stripes + g \in s.map THEN Content(s.sliceNo, j * Stripes + g) ELSE 0
  BY <1>4 DEF Filled
<1>6. \A j \in 0..k - 1 : j \in P <=> j * Stripes + g \notin s.map
  BY <1>2, ErasedPlaces
<1>7. \A j \in 0..k - 1 : Original(s.sliceNo, g)[j] = Content(s.sliceNo, j * Stripes + g)
  BY <1>1, <1>2, OriginalIs
<1>8. \A j \in 0..k - 1 : s.mem[j * Stripes + g]
        = IF j \in P THEN 0 ELSE Original(s.sliceNo, g)[j]
  BY <1>5, <1>6, <1>7
<1> QED BY <1>2, <1>8 DEF GroupData, ErasedAt

\* A FEC block's place among those of its group.
LEMMA RowOf ==
  ASSUME NEW f \in 0..Stripes * Redundancy - 1
  PROVE  f \div Stripes \in 0..Redundancy - 1 /\ f \in Nat
<1>0. Stripes \in Nat \ {0} /\ Redundancy \in Nat /\ Stripes * Redundancy \in Nat
  BY Sizes
<1>1. f \in Nat /\ f < Stripes * Redundancy
  BY <1>0
<1>2. PICK q, r \in Nat : q = f \div Stripes /\ f = q * Stripes + r /\ r < Stripes
  BY <1>0, <1>1, Division
<1>3. q < Redundancy
  <2> SUFFICES ASSUME q >= Redundancy PROVE FALSE
    BY <1>0
  <2>1. q * Stripes >= Redundancy * Stripes
    BY <1>0
  <2>2. q * Stripes \in Nat /\ Redundancy * Stripes = Stripes * Redundancy
    BY <1>0
  <2> QED BY <1>0, <1>1, <1>2, <2>1, <2>2
<1> QED BY <1>0, <1>1, <1>2, <1>3

\* A group has no more blocks than the code has columns, and they are symbols
\* of the field.
LEMMA OriginalIn ==
  ASSUME NEW n \in 0..LastSlice, NEW g \in Groups
  PROVE  /\ GroupSize(n, g) \in 0..HIGH
         /\ Original(n, g) \in [0..GroupSize(n, g) - 1 -> gf]
<1>1. /\ HIGH \in Nat /\ Stripes \in Nat /\ Stripes > 0 /\ SliceBlocks <= HIGH * Stripes
      /\ g \in Nat /\ n \in Nat /\ gf = 0..GF_SIZE /\ GF_SIZE \in Nat
  BY Sizes, FieldSizes, ReceiverAssumption DEF Groups
<1>2. PICK k \in Nat : /\ k = GroupSize(n, g)
                       /\ \A j \in Nat : j < k => j * Stripes + g < BlocksIn(n)
  <2>1. n \in Int
    BY <1>1
  <2> QED BY <2>1, GroupSizeIs
<1>3. ~(HIGH < k)
  <2>1. HIGH * Stripes \in Nat /\ BlocksIn(n) <= SliceBlocks /\ BlocksIn(n) \in Nat
    BY <1>1, BlocksInType
  <2>2. ~(HIGH * Stripes + g < BlocksIn(n))
    BY <1>1, <2>1, Sizes
  <2> QED BY <1>1, <1>2, <2>2
<1>4. ASSUME NEW j \in 0..k - 1 PROVE Content(n, j * Stripes + g) \in gf
  <2>1. PICK b \in Nat : b = j * Stripes + g
    BY <1>1
  <2>2. PICK x \in Nat : x = 3 * n + 2 * b + 1
    BY <1>1
  <2>3. x % (GF_SIZE + 1) \in 0..GF_SIZE
    BY <1>1
  <2> QED BY <1>1, <2>1, <2>2, <2>3 DEF Content
<1>5. Original(n, g) = [j \in 0..k - 1 |-> Content(n, j * Stripes + g)]
  BY <1>1, <1>2, OriginalIs
<1> QED BY <1>1, <1>2, <1>3, <1>4, <1>5

\* Whatever was lost of a group, as many of its FEC blocks bring it back.
LEMMA SlicesRepaired == SlicesRepairable
<1> DEFINE Repairs(n, g, lost, rows) ==
             fec_decode([j \in 0..GroupSize(n, g) - 1 |-> IF j \in lost THEN 0 ELSE Original(n, g)[j]],
                        GroupSize(n, g),
                        [i \in DOMAIN rows |-> fec_encode(Original(n, g), GroupSize(n, g), rows[i])],
                        rows, Ascending(lost)) = Original(n, g)
<1>1. ASSUME NEW n \in 0..LastSlice, NEW g \in Groups,
             NEW lost \in SUBSET (0..GroupSize(n, g) - 1),
             NEW rows \in [1..Cardinality(lost) -> 0..Redundancy - 1], IsInjective(rows)
      PROVE  Repairs(n, g, lost, rows)
  <2>0. PICK size \in 0..HIGH : size = GroupSize(n, g)
    BY OriginalIn
  <2>1. PICK block \in [0..size - 1 -> gf] : block = Original(n, g)
    BY <2>0, OriginalIn
  <2>2. Redundancy \in 0..HIGH /\ 0 \in gf
    BY Sizes, FieldSizes, ReceiverAssumption
  <2> DEFINE parity == [i \in 1..Cardinality(lost) |-> fec_encode(block, size, rows[i])]
  <2>3. EncodedAs(parity, block, size, rows, Cardinality(lost))
    BY DEF EncodedAs
  <2>4. fec_decode(WithHoles(block, size, lost, 0), size, AtRows(parity, rows), rows,
                   Ascending(lost)) = block
    <3>1. lost \in SUBSET (0..size - 1)
      BY <2>0
    <3> HIDE DEF parity
    <3> QED BY <1>1, <2>2, <2>3, <3>1, LostRepaired
  <2>5. AtRows(parity, rows) = [i \in DOMAIN rows |-> fec_encode(block, size, rows[i])]
    BY DEF AtRows
  <2> HIDE DEF parity
  <2> QED BY <2>0, <2>1, <2>4, <2>5 DEF WithHoles
<1>2. SlicesRepairable
        <=> \A n \in 0..LastSlice, g \in Groups :
              \A lost \in (SUBSET (0..GroupSize(n, g) - 1)) \ {{}} :
                \A rows \in {s \in [1..Cardinality(lost) -> 0..Redundancy - 1] : IsInjective(s)} :
                  Repairs(n, g, lost, rows)
  BY DEF SlicesRepairable, Original
<1> HIDE DEF Repairs
<1> QED BY <1>1, <1>2

\* With as many FEC blocks as it misses, a group is repaired.
LEMMA RepairedIs ==
  ASSUME SlicesRepairable, NEW s, SlotInv(s), s.state = "FEC", DataIntact(s),
         SpacesIntact(s, heap), NEW g \in Groups, Len(s.fec[g]) = Cardinality(UnsetIn(s, g))
  PROVE  Repaired(s, g) = Original(s.sliceNo, g)
<1>1. SlotTyped(s) /\ s.sliceNo \in 0..LastSlice /\ GroupCounted(s, g)
  BY Sizes DEF SlotInv, SlotTyped, Counted
<1>2. PICK n \in 0..LastSlice : n = s.sliceNo
  BY <1>1
<1>3. PICK P : P = {b \div Stripes : b \in UnsetIn(s, g)}
  OBVIOUS
<1>4. /\ P \subseteq 0..GroupSize(n, g) - 1
      /\ IsFiniteSet(P) /\ Cardinality(P) = Len(s.fec[g])
  BY <1>1, <1>2, <1>3, ErasedPlaces
<1>5. Filled(s)
  BY DEF DataIntact
<1>6. GroupData(s.mem, n, g) = ErasedAt(n, g, P)
  BY <1>1, <1>2, <1>3, <1>5, GroupDataIs
<1>7. s.fec[g] \in Seq(Space) /\ DOMAIN s.fec[g] = 1..Len(s.fec[g]) /\ Len(s.fec[g]) \in Nat
      /\ \A i \in DOMAIN s.fec[g] : s.fec[g][i] \in Space
  <2>1. s.fec[g] \in Seq(Space)
    BY <1>1 DEF SlotTyped
  <2> QED BY <2>1, LenProperties, ElementOfSeq
<1>8. CASE s.fec[g] = <<>>
  <2>1. Cardinality(P) = 0
    BY <1>4, <1>8, EmptySeq
  <2>2. P = {}
    BY <1>4, <2>1, FS_EmptySet
  <2>3. Original(n, g) = [j \in 0..GroupSize(n, g) - 1 |-> Original(n, g)[j]]
    BY DEF Original, GroupData
  <2>4. GroupData(s.mem, n, g) = Original(n, g)
    BY <1>6, <2>2, <2>3 DEF ErasedAt
  <2> QED BY <1>2, <1>8, <2>4 DEF Repaired
<1>9. CASE s.fec[g] # <<>>
  <2>1. \A lost \in (SUBSET (0..GroupSize(n, g) - 1)) \ {{}} :
          \A rows \in {f \in [1..Cardinality(lost) -> 0..Redundancy - 1] : IsInjective(f)} :
            fec_decode(ErasedAt(n, g, lost), GroupSize(n, g),
                       [i \in DOMAIN rows |->
                          fec_encode(Original(n, g), GroupSize(n, g), rows[i])], rows,
                       Ascending(lost)) = Original(n, g)
    BY DEF SlicesRepairable, Original, ErasedAt
  <2>2. P \in (SUBSET (0..GroupSize(n, g) - 1)) \ {{}}
    <3>1. Len(s.fec[g]) # 0
      BY <1>7, <1>9, EmptySeq
    <3>2. P # {}
      BY <1>4, <3>1, FS_EmptySet
    <3> QED BY <1>4, <3>2
  <2>3. PICK rows : rows = [i \in DOMAIN s.fec[g] |-> s.fec[g][i].no \div Stripes]
    OBVIOUS
  <2>4. \A i \in DOMAIN s.fec[g] :
          LET f == s.fec[g][i].no
          IN  /\ f \in Nat /\ f % Stripes = g /\ f \div Stripes \in 0..Redundancy - 1
              /\ f = (f \div Stripes) * Stripes + g
    <3> SUFFICES ASSUME NEW i \in DOMAIN s.fec[g]
                 PROVE  LET f == s.fec[g][i].no
                        IN  /\ f \in Nat /\ f % Stripes = g /\ f \div Stripes \in 0..Redundancy - 1
                            /\ f = (f \div Stripes) * Stripes + g
      OBVIOUS
    <3>1. PICK f \in 0..Stripes * Redundancy - 1 : f = s.fec[g][i].no
      BY <1>7 DEF Space
    <3>2. f % Stripes = g
      BY <1>1, <3>1 DEF GroupCounted
    <3>3. f \in Nat /\ f \div Stripes \in 0..Redundancy - 1
      BY RowOf
    <3>4. f = (f \div Stripes) * Stripes + (f % Stripes)
      BY <3>3, BlockOf
    <3> QED BY <3>1, <3>2, <3>3, <3>4
  <2>5. rows \in [1..Cardinality(P) -> 0..Redundancy - 1]
    BY <1>4, <1>7, <2>3, <2>4
  <2>6. IsInjective(rows)
    <3> SUFFICES ASSUME NEW i \in DOMAIN s.fec[g], NEW j \in DOMAIN s.fec[g], rows[i] = rows[j]
                 PROVE  i = j
      BY <2>3 DEF IsInjective
    <3>1. s.fec[g][i].no = s.fec[g][j].no
      BY <2>3, <2>4
    <3> QED BY <1>1, <3>1 DEF GroupCounted
  <2>7. \A i \in DOMAIN s.fec[g] :
          heap[s.fec[g][i].adr] = fec_encode(Original(n, g), GroupSize(n, g), rows[i])
    <3> SUFFICES ASSUME NEW i \in DOMAIN s.fec[g]
                 PROVE  heap[s.fec[g][i].adr]
                          = fec_encode(Original(n, g), GroupSize(n, g), rows[i])
      OBVIOUS
    <3>1. heap[s.fec[g][i].adr] = Parity(n, s.fec[g][i].no)
      BY <1>2 DEF SpacesIntact
    <3>2. s.fec[g][i].no % Stripes = g
      BY <2>4
    <3> QED BY <2>3, <3>1, <3>2 DEF Parity, Original
  <2>8. DOMAIN rows = DOMAIN s.fec[g]
    BY <2>3
  <2>9. [i \in DOMAIN s.fec[g] |-> heap[s.fec[g][i].adr]]
          = [i \in DOMAIN rows |-> fec_encode(Original(n, g), GroupSize(n, g), rows[i])]
    BY <2>7, <2>8
  <2>10. fec_decode(GroupData(s.mem, n, g), GroupSize(n, g),
                    [i \in DOMAIN s.fec[g] |-> heap[s.fec[g][i].adr]], rows, Ascending(P))
           = Original(n, g)
    BY <1>6, <2>1, <2>2, <2>5, <2>6, <2>9
  <2> QED BY <1>2, <1>3, <1>9, <2>3, <2>10 DEF Repaired
<1> QED BY <1>2, <1>8, <1>9

-----------------------------------------------------------------------------
(* Every step keeps what the memory holds *)

\* With as many blocks as the slice has, of which one data block is missing,
\* each group has the FEC blocks it needs.
LEMMA CountsFollow == IInv => FecCountsAgree
<1> SUFFICES ASSUME IInv, NEW p \in Slots, NEW s, s = slices[p], s.state \in {"RECEIVING", "FEC"}
             PROVE  /\ s.dataBlocksTransferred = Cardinality(s.map)
                    /\ s.blocksTransferred = Cardinality(s.map) + Cardinality(Kept(s))
                    /\ s.fec_stripes =>
                         \A g \in Groups : /\ s.missing[g] = Cardinality(UnsetIn(s, g))
                                           /\ Len(s.fec[g]) <= s.missing[g]
                    /\ s.state = "FEC" =>
                         /\ use_fec /\ s.fec_stripes
                         /\ \A g \in Groups : Len(s.fec[g]) = s.missing[g]
  BY DEF FecCountsAgree
<1>1. SlotInv(s) /\ SlotTyped(s) /\ Counted(s)
  BY DEF IInv, SlotsInv, SlotInv
<1>2. /\ s.dataBlocksTransferred = Cardinality(s.map)
      /\ s.blocksTransferred = Cardinality(s.map) + Cardinality(Kept(s))
      /\ \A g \in Groups : GroupCounted(s, g)
  BY <1>1 DEF Counted
<1>3. s.fec_stripes => \A g \in Groups : /\ s.missing[g] = Cardinality(UnsetIn(s, g))
                                         /\ Len(s.fec[g]) <= s.missing[g]
  BY <1>2 DEF GroupCounted
<1>4. ASSUME s.state = "FEC"
      PROVE  use_fec /\ s.fec_stripes /\ \A g \in Groups : Len(s.fec[g]) = s.missing[g]
  <2>1. BlocksIn(s.sliceNo) = s.blocksTransferred /\ s.dataBlocksTransferred # BlocksIn(s.sliceNo)
    BY <1>1, <1>4 DEF SlotInv, Finished, Complete
  <2>2. /\ Cardinality(Kept(s)) \in Nat /\ IsFiniteSet(Kept(s))
        /\ Cardinality(Kept(s)) = Cardinality(Unset(s)) =>
             \A g \in Groups : Len(s.fec[g]) = Cardinality(UnsetIn(s, g))
    BY <1>1, <1>2, KeptBound
  <2>3. /\ Cardinality(Unset(s)) = BlocksIn(s.sliceNo) - Cardinality(s.map)
        /\ BlocksIn(s.sliceNo) \in Nat /\ Cardinality(s.map) \in Nat
    BY <1>1, SlotFinite
  <2>4. Cardinality(Kept(s)) = Cardinality(Unset(s)) /\ Cardinality(Kept(s)) # 0
    BY <1>2, <2>1, <2>2, <2>3
  <2>5. Kept(s) # {}
    BY <2>4, FS_EmptySet
  <2>6. s.fec_stripes
    <3>1. PICK k \in Kept(s) : TRUE
      BY <2>5
    <3>2. s.fec \in [Groups -> Seq(Space)]
      BY <1>1 DEF SlotTyped
    <3>3. k[1] \in Groups /\ k[2] \in 1..Len(s.fec[k[1]]) /\ Len(s.fec[k[1]]) \in Nat
      BY <3>1, <3>2, KeptIs
    <3>4. Len(s.fec[k[1]]) <= s.missing[k[1]]
          /\ (s.missing[k[1]] = IF s.fec_stripes THEN Cardinality(UnsetIn(s, k[1])) ELSE 0)
      BY <1>2, <3>3 DEF GroupCounted
    <3> QED BY <3>3, <3>4
  <2>7. use_fec
    BY <1>4 DEF IInv, ModeInv
  <2> QED BY <1>3, <2>2, <2>4, <2>6, <2>7
<1> QED BY <1>2, <1>3, <1>4

LEMMA DoneIsWhole ==
  ASSUME NEW s, SlotInv(s), s.state = "DONE", DataIntact(s)
  PROVE  \A b \in 0..BlocksIn(s.sliceNo) - 1 : s.mem[b] = Content(s.sliceNo, b)
<1>1. /\ SlotTyped(s) /\ Cardinality(s.map) = BlocksIn(s.sliceNo) /\ s.sliceNo \in Int
  BY Sizes DEF SlotInv, Counted, SlotTyped
<1>2. /\ IsFiniteSet(Unset(s)) /\ BlocksIn(s.sliceNo) \in Nat
      /\ Cardinality(Unset(s)) = BlocksIn(s.sliceNo) - Cardinality(s.map)
  BY <1>1, SlotFinite
<1>3. Unset(s) = {}
  <2> Cardinality(Unset(s)) = 0
    BY <1>1, <1>2
  <2> QED BY <1>2, FS_EmptySet
<1>4. PICK B \in 0..SliceBlocks : B = BlocksIn(s.sliceNo)
  BY <1>1, BlocksInType
<1>5. \A b \in 0..B - 1 : b \in s.map /\ b \in 0..SliceBlocks - 1
  BY <1>3, <1>4, Sizes DEF Unset
<1> QED BY <1>4, <1>5 DEF DataIntact, Filled

\* Block spaces are in one place only.
LEMMA SpacesApart ==
  ASSUME SlotsInv, SpaceInv
  PROVE  \A q \in Slots, g \in Groups : Live(q) =>
           \A i \in DOMAIN slices[q].fec[g] :
             /\ slices[q].fec[g][i].adr \in 1..NR_BLOCKS
             /\ slices[q].fec[g][i].adr # nextBlock
             /\ \A r \in Slots, h \in Groups : Live(r) =>
                  \A j \in DOMAIN slices[r].fec[h] :
                    slices[q].fec[g][i].adr = slices[r].fec[h][j].adr => q = r /\ g = h /\ i = j
<1>1. \A q \in Slots, g \in Groups : Live(q) =>
        \A i \in DOMAIN slices[q].fec[g] :
          <<q, <<g, i>>>> \in Held /\ SpaceOf(<<q, <<g, i>>>>) = slices[q].fec[g][i].adr
  <2> SUFFICES ASSUME NEW q \in Slots, NEW g \in Groups, Live(q),
                      NEW i \in DOMAIN slices[q].fec[g]
               PROVE  <<q, <<g, i>>>> \in Held
                      /\ SpaceOf(<<q, <<g, i>>>>) = slices[q].fec[g][i].adr
    OBVIOUS
  <2>1. <<g, i>> \in Kept(slices[q])
    BY DEF Kept
  <2>2. <<q, <<g, i>>>> \in Held
    BY <2>1 DEF Held
  <2> QED BY <2>2 DEF SpaceOf
<1>2. /\ \A h, k \in Held : SpaceOf(h) = SpaceOf(k) => h = k
      /\ \A h \in Held : SpaceOf(h) # nextBlock
  BY DEF SpaceInv, BlockSpaceConserved
<1>3. \A q \in Slots, g \in Groups : \A i \in DOMAIN slices[q].fec[g] :
        slices[q].fec[g][i].adr \in 1..NR_BLOCKS
  <2> SUFFICES ASSUME NEW q \in Slots, NEW g \in Groups, NEW i \in DOMAIN slices[q].fec[g]
               PROVE  slices[q].fec[g][i].adr \in 1..NR_BLOCKS
    OBVIOUS
  <2> slices[q].fec[g] \in Seq(Space)
    BY DEF SlotsInv, SlotInv, SlotTyped
  <2> slices[q].fec[g][i] \in Space
    BY LenProperties, ElementOfSeq
  <2> QED BY DEF Space
<1>4. ASSUME NEW q \in Slots, NEW g \in Groups, Live(q), NEW i \in DOMAIN slices[q].fec[g],
             NEW r \in Slots, NEW h \in Groups, Live(r), NEW j \in DOMAIN slices[r].fec[h],
             slices[q].fec[g][i].adr = slices[r].fec[h][j].adr
      PROVE  q = r /\ g = h /\ i = j
  <2>1. /\ <<q, <<g, i>>>> \in Held /\ SpaceOf(<<q, <<g, i>>>>) = slices[q].fec[g][i].adr
        /\ <<r, <<h, j>>>> \in Held /\ SpaceOf(<<r, <<h, j>>>>) = slices[r].fec[h][j].adr
    BY <1>1, <1>4
  <2>2. SpaceOf(<<q, <<g, i>>>>) = SpaceOf(<<r, <<h, j>>>>)
    BY <1>4, <2>1
  <2>3. <<q, <<g, i>>>> = <<r, <<h, j>>>>
    BY <1>2, <2>1, <2>2
  <2> QED BY <2>3
<1>5. \A q \in Slots, g \in Groups : Live(q) =>
        \A i \in DOMAIN slices[q].fec[g] : slices[q].fec[g][i].adr # nextBlock
  BY <1>1, <1>2
<1> QED BY <1>3, <1>4, <1>5

\* A slot that takes a block, or the first one of a slice that begins.
LEMMA EntersIntact ==
  ASSUME IntactInv, SlotsInv, NEW p \in Slots, NEW s, SlotTyped(s), Enters(p, s)
  PROVE  DataIntact(s) /\ SpacesIntact(s, heap)
<1>1. CASE s = slices[p]
  BY <1>1 DEF IntactInv
<1>2. CASE s.state = "RECEIVING" /\ Kept(s) = {} /\ s.map = {} /\ s.mem = NoMem
  <2>1. Filled(s)
    BY <1>2 DEF Filled, NoMem
  <2>2. \A g \in Groups : DOMAIN s.fec[g] = {}
    <3> SUFFICES ASSUME NEW g \in Groups, NEW i \in DOMAIN s.fec[g] PROVE FALSE
      OBVIOUS
    <3> <<g, i>> \in Kept(s)
      BY DEF Kept
    <3> QED BY <1>2
  <2> QED BY <1>2, <2>1, <2>2 DEF DataIntact, SpacesIntact
<1> QED BY <1>1, <1>2 DEF Enters

\* A block that arrives is filed where it belongs.
LEMMA EffectData ==
  ASSUME NEW s, NEW t, SlotTyped(s), SlotEffect(s, t), MemEffect(s, t), DataIntact(s)
  PROVE  DataIntact(t)
<1>1. /\ t.sliceNo = s.sliceNo
      /\ t.state = s.state \/ (s.state = "RECEIVING" /\ t.state \in {"DONE", "FEC"})
  BY DEF SlotEffect
<1>2. CASE t.map = s.map /\ t.mem = s.mem
  BY <1>1, <1>2 DEF DataIntact, Filled
<1>3. CASE s.state = "RECEIVING"
           /\ \E b \in 0..BlocksIn(s.sliceNo) - 1 :
                /\ t.map = s.map \cup {b}
                /\ t.mem = [s.mem EXCEPT ![b] = Content(s.sliceNo, b)]
  <2>1. PICK b \in 0..BlocksIn(s.sliceNo) - 1 :
               /\ t.map = s.map \cup {b}
               /\ t.mem = [s.mem EXCEPT ![b] = Content(s.sliceNo, b)]
    BY <1>3
  <2>2. Filled(s)
    BY <1>3 DEF DataIntact
  <2>3. Filled(t)
    BY <1>1, <2>1, <2>2 DEF Filled
  <2> QED BY <1>1, <1>3, <2>3 DEF DataIntact
<1> QED BY <1>2, <1>3 DEF MemEffect

\* Spaces that are not written to hold what they held.
LEMMA SpacesUntouched ==
  ASSUME NEW s, NEW H, SpacesIntact(s, heap),
         s.state \in {"RECEIVING", "FEC"} =>
           \A g \in Groups : \A i \in DOMAIN s.fec[g] : H[s.fec[g][i].adr] = heap[s.fec[g][i].adr]
  PROVE  SpacesIntact(s, H)
  BY DEF SpacesIntact

\* A data block makes a FEC block superfluous: only its space is cleared.
LEMMA SurplusIntact ==
  ASSUME SlotsInv, SpaceInv, IntactInv, NEW p \in Slots, NEW s, s = slices[p], NEW t,
         NEW g \in Groups, SurplusEffect(s, t, g), t.sliceNo = s.sliceNo
  PROVE  /\ SpacesIntact(t, heap')
         /\ \A q \in Slots \ {p} : SpacesIntact(slices[q], heap')
<1>1. /\ s.fec[g] \in Seq(Space) /\ s.fec \in [Groups -> Seq(Space)]
      /\ s.state = "RECEIVING" /\ Live(p)
  BY DEF SurplusEffect, SlotsInv, SlotInv, SlotTyped, Live
<1>2. PICK k \in Nat : /\ k = Len(s.fec[g]) /\ k > 0 /\ DOMAIN s.fec[g] = 1..k
                       /\ k \in DOMAIN s.fec[g]
  <2> Len(s.fec[g]) \in Nat /\ DOMAIN s.fec[g] = 1..Len(s.fec[g])
    BY <1>1, LenProperties
  <2> QED BY DEF SurplusEffect
<1>3. PICK a : a = Last(s.fec[g]).adr
  OBVIOUS
<1>4. a = s.fec[g][k].adr
  BY <1>2, <1>3 DEF Last
<1>5. /\ heap' = [heap EXCEPT ![a] = 0] /\ t.fec = [s.fec EXCEPT ![g] = Front(@)]
  BY <1>3 DEF SurplusEffect
<1>6. \A x : x # a => heap'[x] = heap[x]
  BY <1>5
<1>7. \A q \in Slots, h \in Groups : Live(q) =>
        \A j \in DOMAIN slices[q].fec[h] :
          slices[q].fec[h][j].adr = a => q = p /\ h = g /\ j = k
  BY <1>1, <1>2, <1>4, SpacesApart
<1>8. \A q \in Slots \ {p} : SpacesIntact(slices[q], heap')
  <2> SUFFICES ASSUME NEW q \in Slots \ {p} PROVE SpacesIntact(slices[q], heap')
    OBVIOUS
  <2>1. SpacesIntact(slices[q], heap)
    BY DEF IntactInv
  <2>2. slices[q].state \in {"RECEIVING", "FEC"} => Live(q)
    BY DEF Live
  <2> QED BY <1>6, <1>7, <2>1, <2>2, SpacesUntouched
<1>9. SpacesIntact(t, heap')
  <2> SUFFICES ASSUME NEW h \in Groups, NEW i \in DOMAIN t.fec[h]
               PROVE  heap'[t.fec[h][i].adr] = Parity(t.sliceNo, t.fec[h][i].no)
    BY DEF SpacesIntact
  <2>1. i \in DOMAIN s.fec[h] /\ t.fec[h][i] = s.fec[h][i] /\ (h = g => i # k)
    <3>1. CASE h # g
      BY <1>1, <1>5, <3>1
    <3>2. CASE h = g
      <4>1. t.fec[g] = Front(s.fec[g])
        BY <1>1, <1>5
      <4>2. /\ DOMAIN Front(s.fec[g]) = 1..k - 1
            /\ \A j \in 1..k - 1 : Front(s.fec[g])[j] = s.fec[g][j]
        BY <1>1, <1>2, FrontIs, LenProperties
      <4>3. i \in 1..k - 1 /\ i \in 1..k /\ i # k
        BY <1>2, <3>2, <4>1, <4>2
      <4> QED BY <1>2, <3>2, <4>1, <4>2, <4>3
    <3> QED BY <3>1, <3>2
  <2>2. s.fec[h][i].adr # a
    BY <1>1, <1>7, <2>1
  <2>3. heap[s.fec[h][i].adr] = Parity(s.sliceNo, s.fec[h][i].no)
    BY <1>1, <2>1 DEF IntactInv, SpacesIntact
  <2> QED BY <1>6, <2>1, <2>2, <2>3
<1> QED BY <1>8, <1>9

\* A FEC block is filed in the space that waited for it.
LEMMA ParityIntact ==
  ASSUME SlotsInv, SpaceInv, IntactInv, NEW p \in Slots, NEW s, SlotTyped(s), Enters(p, s),
         NEW m, NEW t, NEW g \in Groups, ParityEffect(m, s, t, g), t.sliceNo = s.sliceNo
  PROVE  /\ SpacesIntact(t, heap')
         /\ \A q \in Slots \ {p} : SpacesIntact(slices[q], heap')
<1>1. /\ s.fec \in [Groups -> Seq(Space)] /\ s.fec[g] \in Seq(Space) /\ s.state = "RECEIVING"
      /\ t.fec = [s.fec EXCEPT ![g] = Append(@, [no |-> m.block, adr |-> nextBlock])]
      /\ heap' = [heap EXCEPT ![nextBlock] = Parity(s.sliceNo, m.block)]
      /\ nextBlock \in DOMAIN heap
  <2> nextBlock \in 1..NR_BLOCKS /\ DOMAIN heap = 1..NR_BLOCKS
    BY DEF SpaceInv, BlockSpaceConserved
  <2> QED BY DEF ParityEffect, SlotTyped
<1>2. PICK k \in Nat : k = Len(s.fec[g]) /\ DOMAIN s.fec[g] = 1..k
  BY <1>1, LenProperties
<1>3. heap'[nextBlock] = Parity(s.sliceNo, m.block) /\ \A x : x # nextBlock => heap'[x] = heap[x]
  BY <1>1
<1>4. \A q \in Slots, h \in Groups : Live(q) =>
        \A j \in DOMAIN slices[q].fec[h] : slices[q].fec[h][j].adr # nextBlock
  BY SpacesApart
<1>5. \A h \in Groups : \A j \in DOMAIN s.fec[h] : s.fec[h][j].adr # nextBlock
  <2>1. CASE s = slices[p]
    <3> Live(p)
      BY <1>1, <2>1 DEF Live
    <3> QED BY <1>4, <2>1
  <2>2. CASE Kept(s) = {}
    <3> SUFFICES ASSUME NEW h \in Groups, NEW j \in DOMAIN s.fec[h] PROVE FALSE
      OBVIOUS
    <3> <<h, j>> \in Kept(s)
      BY DEF Kept
    <3> QED BY <2>2
  <2> QED BY <2>1, <2>2 DEF Enters
<1>6. \A q \in Slots \ {p} : SpacesIntact(slices[q], heap')
  <2> SUFFICES ASSUME NEW q \in Slots \ {p} PROVE SpacesIntact(slices[q], heap')
    OBVIOUS
  <2>1. SpacesIntact(slices[q], heap)
    BY DEF IntactInv
  <2>2. slices[q].state \in {"RECEIVING", "FEC"} => Live(q)
    BY DEF Live
  <2> QED BY <1>3, <1>4, <2>1, <2>2, SpacesUntouched
<1>7. SpacesIntact(s, heap)
  BY EntersIntact
<1>8. SpacesIntact(t, heap')
  <2> SUFFICES ASSUME NEW h \in Groups, NEW i \in DOMAIN t.fec[h]
               PROVE  heap'[t.fec[h][i].adr] = Parity(t.sliceNo, t.fec[h][i].no)
    BY DEF SpacesIntact
  <2>1. \/ i \in DOMAIN s.fec[h] /\ t.fec[h][i] = s.fec[h][i]
        \/ t.fec[h][i] = [no |-> m.block, adr |-> nextBlock]
    <3>1. CASE h # g
      BY <1>1, <3>1
    <3>2. CASE h = g
      <4>1. PICK x : x = [no |-> m.block, adr |-> nextBlock]
        OBVIOUS
      <4>2. t.fec[g] = Append(s.fec[g], x)
        BY <1>1, <4>1
      <4>3. s.fec[g] \in Seq(Space \cup {x})
        <5> s.fec[g] \in [1..k -> Space]
          BY <1>1, <1>2, LenProperties
        <5> s.fec[g] \in [1..k -> Space \cup {x}]
          OBVIOUS
        <5> QED BY <1>2, SeqDef
      <4>4. /\ t.fec[g] \in Seq(Space \cup {x}) /\ Len(t.fec[g]) = k + 1
            /\ t.fec[g][k + 1] = x /\ \A j \in 1..k : t.fec[g][j] = s.fec[g][j]
        BY <1>2, <4>2, <4>3, AppendProperties
      <4>5. DOMAIN t.fec[g] = 1..k + 1
        BY <4>4, LenProperties
      <4>6. i \in 1..k \/ i = k + 1
        BY <1>2, <3>2, <4>5
      <4> QED BY <1>2, <3>2, <4>1, <4>4, <4>6
    <3> QED BY <3>1, <3>2
  <2>2. CASE i \in DOMAIN s.fec[h] /\ t.fec[h][i] = s.fec[h][i]
    <3> heap[s.fec[h][i].adr] = Parity(s.sliceNo, s.fec[h][i].no)
      BY <1>1, <1>7, <2>2 DEF SpacesIntact
    <3> QED BY <1>3, <1>5, <2>2
  <2>3. CASE t.fec[h][i] = [no |-> m.block, adr |-> nextBlock]
    BY <1>3, <2>3
  <2> QED BY <2>1, <2>2, <2>3
<1> QED BY <1>6, <1>8

LEMMA HandledIntact ==
  ASSUME IInv, IntactInv, NEW m, NEW p, NEW s, NEW t, Handled(m, p, s, t)
  PROVE  IntactInv'
<1>1. /\ SlotsInv /\ SpaceInv /\ p \in Slots /\ SlotTyped(s) /\ Enters(p, s) /\ out' = out
      /\ SlotEffect(s, t) /\ MemEffect(s, t) /\ SpaceEffect(m, s, t) /\ t.sliceNo = s.sliceNo
      /\ t.state = s.state \/ (s.state = "RECEIVING" /\ t.state \in {"DONE", "FEC"})
  BY DEF IInv, Handled, Effect, SlotEffect, Entering, Elsewhere
<1>2. slices'[p] = t /\ \A q \in Slots \ {p} : slices'[q] = slices[q]
  BY <1>1, HandledSlots
<1>3. DataIntact(s) /\ SpacesIntact(s, heap)
  BY <1>1, EntersIntact
<1>4. DataIntact(t)
  BY <1>1, <1>3, EffectData
<1>5. SpacesIntact(t, heap') /\ \A q \in Slots \ {p} : SpacesIntact(slices[q], heap')
  <2>1. CASE t.fec = s.fec /\ UNCHANGED spaces
    <3>1. heap' = heap
      BY <2>1 DEF spaces
    <3>2. SpacesIntact(t, heap)
      BY <1>1, <1>3, <2>1 DEF SpacesIntact
    <3> QED BY <3>1, <3>2 DEF IntactInv
  <2>2. CASE \E g \in Groups : SurplusEffect(s, t, g)
    <3>1. PICK g \in Groups : SurplusEffect(s, t, g)
      BY <2>2
    <3>2. s = slices[p]
      <4>1. Len(s.fec[g]) > 0
        BY <3>1 DEF SurplusEffect
      <4>2. Len(s.fec[g]) \in 1..Len(s.fec[g]) /\ <<g, Len(s.fec[g])>> \in Kept(s)
        BY <1>1, <4>1, KeptIs DEF SlotTyped
      <4> QED BY <1>1, <4>2 DEF Enters
    <3> QED BY <1>1, <3>1, <3>2, SurplusIntact
  <2>3. CASE \E g \in Groups : ParityEffect(m, s, t, g)
    BY <1>1, <2>3, ParityIntact
  <2> QED BY <1>1, <2>1, <2>2, <2>3 DEF SpaceEffect
<1> QED BY <1>1, <1>2, <1>4, <1>5 DEF IntactInv

\* A finished slice is handed over as it was sent.
LEMMA CleansIntact ==
  ASSUME IInv, IntactInv, Cleans
  PROVE  IntactInv'
<1>1. /\ freePos \in Slots /\ LooksReleased(slices'[freePos], slices[freePos])
      /\ \A q \in Slots \ {freePos} : slices'[q] = slices[q]
      /\ slices[freePos].sliceNo = Len(out)
  BY CleansSlots
<1>2. SlotInv(slices[freePos]) /\ DataIntact(slices[freePos]) /\ heap' = heap
      /\ slices[freePos].state \in {"DONE", "FEC_DONE"} /\ slices[freePos].sliceNo \in Int
  BY <1>1, Sizes DEF Cleans, IInv, SlotsInv, SlotInv, SlotTyped, IntactInv
<1>3. \A b \in 0..BlocksIn(Len(out)) - 1 : slices[freePos].mem[b] = Content(Len(out), b)
  <2>1. CASE slices[freePos].state = "DONE"
    BY <1>1, <1>2, <2>1, DoneIsWhole
  <2>2. CASE slices[freePos].state = "FEC_DONE"
    BY <1>1, <1>2, <2>2 DEF DataIntact
  <2> QED BY <1>2, <2>1, <2>2
<1>4. PICK x : x = [sliceNo |-> Len(out),
                    content |-> [b \in 0..BlocksIn(Len(out)) - 1 |-> slices[freePos].mem[b]]]
  OBVIOUS
<1>5. x.content = [b \in 0..BlocksIn(Len(out)) - 1 |-> Content(Len(out), b)]
  BY <1>3, <1>4
<1>6. Appended(out, x, out')
  <2> out' = Append(out, x)
    BY <1>1, <1>4 DEF Cleans, CleanOne
  <2> out \in Seq(Range(out))
    BY DEF IInv, RingInv
  <2> QED BY AppendRange
<1>7. OutIntact(out')
  <2>1. PICK k \in Nat : k = Len(out) /\ DOMAIN out = 1..k /\ DOMAIN out' = 1..k + 1
    BY <1>6 DEF Appended
  <2>2. \A i \in 1..k : out'[i].content = [b \in 0..BlocksIn(i - 1) - 1 |-> Content(i - 1, b)]
    BY <1>6, <2>1 DEF Appended, IntactInv, OutIntact
  <2>3. out'[k + 1].content = [b \in 0..BlocksIn(k) - 1 |-> Content(k, b)]
    BY <1>5, <1>6, <2>1 DEF Appended
  <2>4. \A i \in 1..k + 1 : i \in 1..k \/ (i = k + 1 /\ i - 1 = k)
    OBVIOUS
  <2> QED BY <2>1, <2>2, <2>3, <2>4 DEF OutIntact
<1>8. DataIntact(slices'[freePos]) /\ SpacesIntact(slices'[freePos], heap)
  BY <1>1 DEF LooksReleased, DataIntact, SpacesIntact
<1> QED BY <1>1, <1>2, <1>7, <1>8 DEF IntactInv

\* The FEC thread leaves a slice whole.
LEMMA FinishIntact ==
  ASSUME IntactInv, NEW p, NEW s, Finishes(p, s), UNCHANGED <<heap, out>>,
         \A b \in 0..BlocksIn(s.sliceNo) - 1 : slices'[p].mem[b] = Content(s.sliceNo, b)
  PROVE  IntactInv'
<1>1. DataIntact(slices'[p]) /\ SpacesIntact(slices'[p], heap)
  BY DEF Finishes, DataIntact, SpacesIntact
<1> QED BY <1>1 DEF Finishes, IntactInv

LEMMA FecTakeIntact ==
  ASSUME IInv, IntactInv, FecTake
  PROVE  IntactInv'
<1>1. PICK p \in Slots : p = Head(fecQueue)
  BY QueueIs DEF FecTake, IInv
<1>2. SlotInv(slices[p]) /\ DOMAIN slices = Slots /\ DataIntact(slices[p])
      /\ DOMAIN slices[p] = Fields /\ DOMAIN slices[p].mem = 0..SliceBlocks - 1
  BY DEF IInv, SlotsInv, SlotInv, SlotTyped, IntactInv
<1>3. /\ slices' = IF slices[p].state = "DONE" THEN [slices EXCEPT ![p].state = "FEC_DONE"]
                   ELSE slices
      /\ UNCHANGED <<heap, out>>
  BY <1>1 DEF FecTake, spaces, memory
<1>4. CASE slices[p].state = "DONE"
  <2>1. slices' = [slices EXCEPT ![p] = [slices[p] EXCEPT !.state = "FEC_DONE"]]
    BY <1>2, <1>3, <1>4
  <2>2. Finishes(p, slices[p])
    BY <1>2, <1>4, <2>1 DEF Finishes, Fields
  <2>3. slices'[p].mem = slices[p].mem
    BY <1>2, <2>1 DEF Fields
  <2>4. \A b \in 0..BlocksIn(slices[p].sliceNo) - 1 :
          slices'[p].mem[b] = Content(slices[p].sliceNo, b)
    BY <1>2, <1>4, <2>3, DoneIsWhole
  <2> QED BY <1>3, <2>2, <2>4, FinishIntact
<1>5. CASE slices[p].state # "DONE"
  BY <1>3, <1>5 DEF IntactInv
<1> QED BY <1>4, <1>5

\* Decoding makes a slice whole: its groups have as many FEC blocks as they miss
\* data blocks.
LEMMA FecDecodeIntact ==
  ASSUME SlicesRepairable, IInv, IntactInv, FecDecode
  PROVE  IntactInv'
<1>1. PICK s : s = slices[fecSlot]
  OBVIOUS
<1>2. /\ fecSlot \in Slots /\ s.state = "FEC" /\ UNCHANGED <<heap, out>>
      /\ SlotInv(s) /\ DataIntact(s) /\ SpacesIntact(s, heap) /\ s.sliceNo \in Int
  <2>1. fecSlot \in Slots /\ s.state = "FEC" /\ UNCHANGED <<heap, out>>
    BY <1>1 DEF FecDecode, spaces, memory, IInv, HandOverInv, PlacesInv
  <2>2. SlotInv(s) /\ DataIntact(s) /\ SpacesIntact(s, heap)
    BY <1>1, <2>1 DEF IInv, SlotsInv, IntactInv
  <2>3. s.sliceNo \in -1..LastSlice
    BY <2>2 DEF SlotInv, SlotTyped
  <2> QED BY <2>1, <2>2, <2>3, Sizes
<1>3. /\ Finishes(fecSlot, s)
      /\ slices'[fecSlot].mem = [b \in 0..SliceBlocks - 1 |->
           IF b < BlocksIn(s.sliceNo) THEN Repaired(s, b % Stripes)[b \div Stripes] ELSE s.mem[b]]
  BY <1>1, DecodeFinishes
<1>4. \A g \in Groups : Repaired(s, g) = Original(s.sliceNo, g)
  <2> SUFFICES ASSUME NEW g \in Groups PROVE Repaired(s, g) = Original(s.sliceNo, g)
    OBVIOUS
  <2>1. s.fec_stripes /\ Len(s.fec[g]) = s.missing[g]
    BY <1>1, <1>2, CountsFollow DEF FecCountsAgree
  <2>2. s.missing[g] = Cardinality(UnsetIn(s, g))
    BY <1>1, <1>2, <2>1, CountsFollow DEF FecCountsAgree
  <2> QED BY <1>2, <2>1, <2>2, RepairedIs
<1>5. \A b \in 0..BlocksIn(s.sliceNo) - 1 : slices'[fecSlot].mem[b] = Content(s.sliceNo, b)
  <2>1. PICK B \in 0..SliceBlocks : B = BlocksIn(s.sliceNo)
    BY <1>2, BlocksInType
  <2> SUFFICES ASSUME NEW b \in Nat, b < B
               PROVE  slices'[fecSlot].mem[b] = Content(s.sliceNo, b)
    BY <2>1
  <2>2. b \in 0..SliceBlocks - 1
    BY <2>1, Sizes
  <2>3. PICK j \in Nat, g \in Groups : /\ j = b \div Stripes /\ g = b % Stripes
                                       /\ b = j * Stripes + g
    BY BlockOf
  <2>4. j < GroupSize(s.sliceNo, g)
    BY <1>2, <2>1, <2>3, GroupSizeIs
  <2>5. GroupSize(s.sliceNo, g) \in Nat
    BY <1>2, GroupSizeIs
  <2>6. j \in 0..GroupSize(s.sliceNo, g) - 1
    BY <2>4, <2>5
  <2>7. Original(s.sliceNo, g)[j] = Content(s.sliceNo, b)
    <3>1. Original(s.sliceNo, g)
            = [i \in 0..GroupSize(s.sliceNo, g) - 1 |-> Content(s.sliceNo, i * Stripes + g)]
      BY <1>2, OriginalIs
    <3>2. Original(s.sliceNo, g)[j] = Content(s.sliceNo, j * Stripes + g)
      BY <2>6, <3>1
    <3> QED BY <2>3, <3>2
  <2>8. slices'[fecSlot].mem[b] = Repaired(s, g)[j]
    BY <1>3, <2>1, <2>2, <2>3
  <2> QED BY <1>4, <2>7, <2>8
<1> QED BY <1>2, <1>3, <1>5, FinishIntact

\* The spaces given back are those of the slice that was repaired.
LEMMA FecReleaseIntact ==
  ASSUME IInv, IntactInv, FecRelease
  PROVE  IntactInv'
<1>1. PICK used : used = UNION {{d.adr : d \in Range(slices[fecSlot].fec[g])} : g \in Groups}
  OBVIOUS
<1>2. /\ fecPc = "release" /\ fecSlot \in Slots /\ slices[fecSlot].state = "FEC_DONE"
      /\ heap' = [i \in DOMAIN heap |-> IF i \in used THEN 0 ELSE heap[i]]
      /\ slices' = slices /\ out' = out /\ SlotsInv /\ SpaceInv /\ DOMAIN heap = 1..NR_BLOCKS
  BY <1>1 DEF FecRelease, memory, IInv, HandOverInv, PlacesInv, SpaceInv
<1>3. ASSUME NEW q \in Slots, slices[q].state \in {"RECEIVING", "FEC"}, NEW h \in Groups,
             NEW j \in DOMAIN slices[q].fec[h]
      PROVE  heap'[slices[q].fec[h][j].adr] = heap[slices[q].fec[h][j].adr]
  <2>1. Live(q) /\ Live(fecSlot) /\ q # fecSlot
    BY <1>2, <1>3 DEF Live
  <2>2. PICK a : a = slices[q].fec[h][j].adr
    OBVIOUS
  <2>3. a \in 1..NR_BLOCKS
    BY <1>2, <2>1, <2>2, SpacesApart
  <2>4. a \notin used
    <3> SUFFICES ASSUME a \in used PROVE FALSE
      OBVIOUS
    <3>1. PICK g \in Groups : a \in {d.adr : d \in Range(slices[fecSlot].fec[g])}
      BY <1>1
    <3>2. PICK i \in DOMAIN slices[fecSlot].fec[g] : a = slices[fecSlot].fec[g][i].adr
      BY <3>1 DEF Range
    <3>3. \A x \in Slots, k \in Groups : Live(x) =>
            \A l \in DOMAIN slices[x].fec[k] :
              slices[q].fec[h][j].adr = slices[x].fec[k][l].adr => q = x
      BY <1>2, <2>1, SpacesApart
    <3> QED BY <1>2, <2>1, <2>2, <3>2, <3>3
  <2> QED BY <1>2, <2>2, <2>3, <2>4
<1>4. \A q \in Slots : SpacesIntact(slices[q], heap')
  <2> SUFFICES ASSUME NEW q \in Slots PROVE SpacesIntact(slices[q], heap')
    OBVIOUS
  <2> SpacesIntact(slices[q], heap)
    BY DEF IntactInv
  <2> QED BY <1>3, SpacesUntouched
<1> QED BY <1>2, <1>4 DEF IntactInv

LEMMA InitIntact ==
  ASSUME Init
  PROVE  IntactInv
<1>1. /\ slices = [p \in Slots |-> IF p = 0 THEN FreshSlice(0) ELSE FreeSlot] /\ out = <<>>
  BY DEF Init
<1>2. LooksFresh(slices[0], 0) /\ 0 \in Slots /\ \A p \in Slots \ {0} : slices[p].state = "FREE"
  BY <1>1, FreshSliceIs, FreeSlotIs, Sizes DEF Slots
<1>3. Filled(slices[0]) /\ slices[0].state = "RECEIVING"
  BY <1>2 DEF LooksFresh, Filled, NoMem
<1>4. \A g \in Groups : slices[0].fec[g] = <<>>
  BY <1>2 DEF LooksFresh, NoFec
<1>5. DataIntact(slices[0]) /\ SpacesIntact(slices[0], heap)
  BY <1>3, <1>4 DEF DataIntact, SpacesIntact
<1>6. \A p \in Slots : DataIntact(slices[p]) /\ SpacesIntact(slices[p], heap)
  BY <1>2, <1>5 DEF DataIntact, SpacesIntact
<1>7. OutIntact(out)
  BY <1>1 DEF OutIntact
<1> QED BY <1>6, <1>7 DEF IntactInv

LEMMA IntactSame ==
  ASSUME IntactInv, UNCHANGED <<slices, heap, out>>
  PROVE  IntactInv'
  BY DEF IntactInv

LEMMA HandleIntact ==
  ASSUME IInv, IntactInv, NEW m \in Messages, Handle(m)
  PROVE  IntactInv'
<1>1. CASE Ignored(m)
  <2> UNCHANGED <<slices, heap, out>>
    BY <1>1 DEF Ignored, OldSlice, Exit, Elsewhere, spaces
  <2> QED BY IntactSame
<1>2. CASE \E p, s, t : Handled(m, p, s, t)
  BY <1>2, HandledIntact
<1> QED BY <1>1, <1>2, HandleCases

LEMMA NextIntact ==
  ASSUME SlicesRepairable, IInv, IntactInv, [Next]_vars
  PROVE  IntactInv'
<1>1. CASE Receive \/ Resume
  <2>1. CASE \E m \in Messages : Handle(m)
    BY <2>1, HandleIntact
  <2>2. CASE UNCHANGED <<slices, spaces, memory>>
    BY <2>2, IntactSame DEF spaces, memory
  <2>3. Receive => \/ \E m \in Messages : Handle(m)
                   \/ UNCHANGED <<slices, spaces, memory>>
    BY WireIsMessages DEF Receive, IInv
  <2>4. Resume => \E m \in Messages : Handle(m)
    BY DEF Resume, IInv, PlacesInv
  <2> QED BY <1>1, <2>1, <2>2, <2>3, <2>4
<1>2. CASE SeeDone \/ AdvanceStep \/ Timeout \/ Writer \/ SendSlice
  <2> UNCHANGED <<slices, heap, out>>
    BY <1>2 DEF SeeDone, AdvanceStep, Timeout, Writer, SendSlice, spaces, memory
  <2> QED BY IntactSame
<1>3. CASE NetClean
  <2>1. CASE slices[freePos].state = "DONE"
    <3> Cleans
      BY <1>3, <2>1 DEF NetClean, Cleans, net, spaces, fecThread, sender
    <3> QED BY CleansIntact
  <2>2. CASE slices[freePos].state # "DONE"
    <3> UNCHANGED <<slices, heap, out>>
      BY <1>3, <2>2 DEF NetClean, spaces
    <3> QED BY IntactSame
  <2> QED BY <2>1, <2>2
<1>4. CASE FecClean
  <2>1. CASE slices[freePos].state = "FEC_DONE"
    <3> Cleans
      BY <1>4, <2>1 DEF FecClean, Cleans, net, spaces, fecThread, sender
    <3> QED BY CleansIntact
  <2>2. CASE slices[freePos].state # "FEC_DONE"
    <3> UNCHANGED <<slices, heap, out>>
      BY <1>4, <2>2 DEF FecClean, spaces
    <3> QED BY IntactSame
  <2> QED BY <2>1, <2>2
<1>5. CASE FecTake \/ FecDecode \/ FecRelease
  BY <1>5, FecTakeIntact, FecDecodeIntact, FecReleaseIntact
<1>6. CASE UNCHANGED vars
  BY <1>6, IntactSame DEF vars, spaces, memory
<1> QED BY <1>1, <1>2, <1>3, <1>4, <1>5, <1>6 DEF Next, NetThread, FecThread

-----------------------------------------------------------------------------
(* What was received *)

\* Nothing arrives of a slice that was not begun.
TopInv ==
  /\ CurrentNo <= top
  /\ netPc = "find" => netMsg.sliceNo <= top

\* A step loses nothing that was received.
FinishedStays ==
  /\ Len(out) \in Nat /\ Len(out') \in Nat /\ Len(out) <= Len(out')
  /\ \A p \in Slots : slices[p].state \in Finished =>
       \/ slices'[p].state \in Finished /\ slices'[p].sliceNo = slices[p].sliceNo
       \/ slices[p].sliceNo < Len(out')

\* What a step does to the sender, and to what was received.
Progress ==
  /\ TopInv' /\ FinishedStays /\ async' = async
  /\ top' = top \/ (SendSlice /\ slices' = slices /\ out' = out)

\* The slots keep their numbers, and no message waits that did not before.
LEMMA NumbersStay ==
  ASSUME IInv, TopInv, current' = current, top' \in {top, top + 1},
         \A p \in Slots : slices'[p].sliceNo = slices[p].sliceNo,
         netPc' # "find" \/ (netPc' = netPc /\ netMsg' = netMsg)
                         \/ (netMsg'.sliceNo \in Int /\ netMsg'.sliceNo <= top')
  PROVE  TopInv'
<1>1. /\ current \in Slots /\ CurrentNo \in Int /\ top \in Int
      /\ netPc = "find" => netMsg.sliceNo \in Int
  BY MessageIs, Sizes DEF IInv, RingInv, PlacesInv
<1>2. CurrentNo' = CurrentNo
  BY <1>1 DEF CurrentNo
<1> QED BY <1>1, <1>2 DEF TopInv

\* The slots stay as they are.
LEMMA SlotsStay ==
  ASSUME IInv, TopInv, UNCHANGED <<slices, current, out, async>>,
         top' = top \/ SendSlice,
         netPc' # "find" \/ (netPc' = netPc /\ netMsg' = netMsg)
                         \/ (netMsg'.sliceNo \in Int /\ netMsg'.sliceNo <= top')
  PROVE  Progress
<1>1. top' \in {top, top + 1}
  BY DEF SendSlice
<1>2. TopInv'
  BY <1>1, NumbersStay
<1>3. FinishedStays
  <2> Len(out) \in Nat
    BY RingFacts DEF IInv
  <2> QED BY DEF FinishedStays
<1> QED BY <1>2, <1>3 DEF Progress

LEMMA HandleProgress ==
  ASSUME IInv, TopInv, NEW m \in Messages, m.sliceNo <= top, Handle(m)
  PROVE  Progress
<1>1. CASE Ignored(m)
  <2> UNCHANGED <<slices, current, out, async, top>> /\ netPc' # "find"
    BY <1>1 DEF Ignored, OldSlice, Exit, Elsewhere
  <2> QED BY SlotsStay
<1>2. CASE \E p, s, t : Handled(m, p, s, t)
  <2>1. PICK p, s, t : Handled(m, p, s, t)
    BY <1>2
  <2>2. /\ p \in Slots /\ slices'[p] = t /\ \A q \in Slots \ {p} : slices'[q] = slices[q]
        /\ t.sliceNo = m.sliceNo
        /\ t.state = s.state \/ (s.state = "RECEIVING" /\ t.state \in {"DONE", "FEC"})
        /\ Enters(p, s) /\ UNCHANGED <<out, async, top>> /\ netPc' # "find"
        /\ Begins(m, p, s) \/ Stays(p, s)
    <3>1. /\ slices'[p] = t /\ \A q \in Slots \ {p} : slices'[q] = slices[q]
          /\ t.sliceNo = m.sliceNo
          /\ t.state = s.state \/ (s.state = "RECEIVING" /\ t.state \in {"DONE", "FEC"})
      BY <2>1, HandledSlots DEF IInv
    <3>2. /\ p \in Slots /\ Enters(p, s) /\ UNCHANGED <<out, async, top>> /\ netPc' # "find"
          /\ Begins(m, p, s) \/ Stays(p, s)
      BY <2>1 DEF Handled, Elsewhere, Effect, Stored, NetEffect
    <3> QED BY <3>1, <3>2
  <2>3. TopInv'
    <3>1. CASE Begins(m, p, s)
      <4>1. CurrentNo' = m.sliceNo /\ m.sliceNo <= top
        BY <2>2, <3>1 DEF Begins, CurrentNo
      <4>2. top' = top /\ netPc' # "find"
        BY <2>2
      <4> QED BY <4>1, <4>2 DEF TopInv
    <3>2. CASE Stays(p, s)
      <4> t.sliceNo = slices[p].sliceNo
        BY <2>1, <2>2, <3>2, HandledSlots DEF Stays, IInv
      <4> \A q \in Slots : slices'[q].sliceNo = slices[q].sliceNo
        BY <2>2
      <4> current' = current /\ top' \in {top, top + 1}
        BY <2>2, <3>2 DEF Stays
      <4> QED BY <2>2, NumbersStay
    <3> QED BY <2>2, <3>1, <3>2
  <2>4. FinishedStays
    <3>1. Len(out) \in Nat
      BY RingFacts DEF IInv
    <3>2. slices[p].state \in Finished => slices'[p].state \in Finished
                                          /\ slices'[p].sliceNo = slices[p].sliceNo
      <4> SUFFICES ASSUME slices[p].state \in Finished
                   PROVE  slices'[p].state \in Finished /\ slices'[p].sliceNo = slices[p].sliceNo
        OBVIOUS
      <4>1. s = slices[p]
        BY <2>2 DEF Enters, Finished
      <4>2. t.sliceNo = s.sliceNo
        BY <2>1, HandledSlots DEF IInv
      <4> QED BY <2>2, <4>1, <4>2 DEF Finished
    <3> QED BY <2>2, <3>1, <3>2 DEF FinishedStays
  <2> QED BY <2>2, <2>3, <2>4 DEF Progress
<1> QED BY <1>1, <1>2, HandleCases

LEMMA CleansProgress ==
  ASSUME IInv, TopInv, Cleans, UNCHANGED async
  PROVE  Progress
<1>1. /\ freePos \in Slots /\ LooksReleased(slices'[freePos], slices[freePos])
      /\ \A q \in Slots \ {freePos} : slices'[q] = slices[q]
      /\ slices[freePos].sliceNo = Len(out)
  BY CleansSlots
<1>2. UNCHANGED <<current, top, netPc, netMsg>>
  BY DEF Cleans
<1>3. \A q \in Slots : slices'[q].sliceNo = slices[q].sliceNo
  BY <1>1 DEF LooksReleased
<1>4. TopInv'
  <2> top' \in {top, top + 1}
    BY <1>2
  <2> QED BY <1>2, <1>3, NumbersStay
<1>5. Len(out) \in Nat /\ Len(out') = Len(out) + 1
  <2>1. PICK x : out' = Append(out, x)
    BY DEF Cleans, CleanOne
  <2>2. Appended(out, x, out')
    BY <2>1, AppendRange DEF IInv, RingInv
  <2> QED BY <2>2 DEF Appended
<1>6. FinishedStays
  BY <1>1, <1>5 DEF FinishedStays
<1> QED BY <1>2, <1>4, <1>6 DEF Progress

LEMMA FinishProgress ==
  ASSUME IInv, TopInv, NEW p, NEW s, Finishes(p, s),
         UNCHANGED <<current, out, top, async, netPc, netMsg>>
  PROVE  Progress
<1>1. \A q \in Slots : /\ slices'[q].sliceNo = slices[q].sliceNo
                       /\ slices[q].state \in Finished => slices'[q].state \in Finished
  BY DEF Finishes, Finished
<1>2. TopInv'
  <2> top' \in {top, top + 1}
    OBVIOUS
  <2> QED BY <1>1, NumbersStay
<1>3. FinishedStays
  <2> Len(out) \in Nat
    BY RingFacts DEF IInv
  <2> QED BY <1>1 DEF FinishedStays
<1> QED BY <1>2, <1>3 DEF Progress

LEMMA NextProgress ==
  ASSUME IInv, TopInv, [Next]_vars
  PROVE  Progress
<1>1. CASE Resume
  <2> netMsg \in Messages /\ netMsg.sliceNo <= top
    BY <1>1 DEF Resume, IInv, PlacesInv, TopInv
  <2> QED BY <1>1, HandleProgress DEF Resume
<1>2. CASE Receive
  <2>1. PICK m \in OnTheWire :
           \/ Handle(m)
           \/ /\ netPc' = "find" /\ netMsg' = m
              /\ UNCHANGED <<slices, current, memory, sender>>
    BY <1>2 DEF Receive
  <2>2. m \in Messages
    BY WireIsMessages DEF IInv
  <2>3. m.sliceNo <= top
    <3>1. PICK n \in 0..top : m \in DataMsg(n) \cup FecMsg(n) \cup ReqAckMsg(n)
      BY DEF OnTheWire
    <3>2. m.sliceNo = n /\ top \in Int
      BY <3>1, Sizes DEF DataMsg, FecMsg, ReqAckMsg, IInv, PlacesInv
    <3> QED BY <3>1, <3>2
  <2>4. CASE Handle(m)
    BY <2>2, <2>3, <2>4, HandleProgress
  <2>5. CASE /\ netPc' = "find" /\ netMsg' = m
             /\ UNCHANGED <<slices, current, memory, sender>>
    <3>1. m.sliceNo \in Int
      BY <2>2, MessageIs
    <3>2. UNCHANGED <<slices, current, out, async, top>>
      BY <2>5 DEF memory, sender
    <3> QED BY <2>3, <2>5, <3>1, <3>2, SlotsStay
  <2> QED BY <2>1, <2>4, <2>5
<1>3. CASE AdvanceStep
  <2> UNCHANGED <<slices, current, out, async, top>> /\ netPc' # "find"
    BY <1>3 DEF AdvanceStep, AfterAdvance, memory, sender
  <2> QED BY SlotsStay
<1>4. CASE SeeDone \/ Timeout \/ Writer \/ SendSlice
  <2> /\ UNCHANGED <<slices, current, out, async, netPc, netMsg>>
      /\ top' = top \/ SendSlice
    BY <1>4 DEF SeeDone, Timeout, Writer, SendSlice, net, memory, sender
  <2> QED BY SlotsStay
<1>5. CASE NetClean
  <2>1. CASE slices[freePos].state = "DONE"
    <3> Cleans /\ UNCHANGED async
      BY <1>5, <2>1 DEF NetClean, Cleans, net, spaces, fecThread, sender
    <3> QED BY CleansProgress
  <2>2. CASE slices[freePos].state # "DONE"
    <3> UNCHANGED <<slices, current, out, async, top>> /\ netPc' # "find"
      BY <1>5, <2>2 DEF NetClean, sender
    <3> QED BY SlotsStay
  <2> QED BY <2>1, <2>2
<1>6. CASE FecClean
  <2>1. CASE slices[freePos].state = "FEC_DONE"
    <3> Cleans /\ UNCHANGED async
      BY <1>6, <2>1 DEF FecClean, Cleans, net, spaces, fecThread, sender
    <3> QED BY CleansProgress
  <2>2. CASE slices[freePos].state # "FEC_DONE"
    <3> UNCHANGED <<slices, current, out, async, top, netPc, netMsg>>
      BY <1>6, <2>2 DEF FecClean, net, sender
    <3> QED BY SlotsStay
  <2> QED BY <2>1, <2>2
<1>7. CASE FecTake
  <2>1. PICK p \in Slots : p = Head(fecQueue)
    BY <1>7, QueueIs DEF FecTake, IInv
  <2>2. UNCHANGED <<current, out, async, top, netPc, netMsg>>
    BY <1>7 DEF FecTake, memory, net, sender
  <2>3. slices' = IF slices[p].state = "DONE" THEN [slices EXCEPT ![p].state = "FEC_DONE"]
                  ELSE slices
    BY <1>7, <2>1 DEF FecTake
  <2>4. CASE slices[p].state = "DONE"
    BY <1>7, <2>1, <2>2, <2>4, TakeFinishes, FinishProgress
  <2>5. CASE slices[p].state # "DONE"
    <3> slices' = slices
      BY <2>3, <2>5
    <3> QED BY <2>2, SlotsStay
  <2> QED BY <2>4, <2>5
<1>8. CASE FecDecode
  <2> UNCHANGED <<current, out, async, top, netPc, netMsg>>
    BY <1>8 DEF FecDecode, memory, net, sender
  <2> QED BY <1>8, DecodeFinishes, FinishProgress
<1>9. CASE FecRelease
  <2> UNCHANGED <<slices, current, out, async, top, netPc, netMsg>>
    BY <1>9 DEF FecRelease, memory, net, sender
  <2> QED BY SlotsStay
<1>10. CASE UNCHANGED vars
  <2> UNCHANGED <<slices, current, out, async, top, netPc, netMsg>>
    BY <1>10 DEF vars, memory, net, sender
  <2> QED BY SlotsStay
<1> QED BY <1>1, <1>2, <1>3, <1>4, <1>5, <1>6, <1>7, <1>8, <1>9, <1>10
        DEF Next, NetThread, FecThread

\* Slice d is the first that was not received.
FirstGap(d) == d \in 0..LastSlice + 1 /\ ~Received(d) /\ \A k \in 0..d - 1 : Received(k)

\* No slice is received before it is begun.
LEMMA ReceivedBegun ==
  ASSUME IInv, NEW n \in Int, Received(n)
  PROVE  n <= CurrentNo
<1>1. /\ \A p \in Slots : slices[p].sliceNo <= CurrentNo
      /\ CurrentNo \in Nat /\ freeSlices \in Nat /\ Len(out) \in Nat
  BY RingFacts DEF IInv
<1>2. Len(out) <= CurrentNo + 1
  <2> /\ Len(out) = CurrentNo + 1 - (NrSlices - freeSlices) /\ freeSlices <= NrSlices
      /\ NrSlices \in Nat
    BY Sizes DEF IInv, RingInv
  <2> QED BY <1>1
<1> QED BY <1>1, <1>2 DEF Received

IsDelivered(d) == d = Delivered /\ FirstGap(d) /\ d <= CurrentNo + 1

\* The choice of Delivered is one of a slice.
LEMMA DeliveredIs ==
  IInv => \E d : IsDelivered(d)
<1> SUFFICES ASSUME IInv PROVE \E d : IsDelivered(d)
  OBVIOUS
<1>1. CurrentNo \in 0..LastSlice /\ LastSlice \in Nat
  BY Sizes DEF IInv, RingInv
<1>2. ~Received(LastSlice + 1)
  BY <1>1, ReceivedBegun
<1>3. PICK gaps : gaps = {n \in 0..LastSlice + 1 : ~Received(n)}
  OBVIOUS
<1>4. gaps \in SUBSET Nat /\ gaps # {}
  BY <1>1, <1>2, <1>3
<1>5. PICK x \in gaps : \A y \in gaps : x <= y
  BY <1>4, HasLeast
<1>6. FirstGap(x)
  <2>1. x \in 0..LastSlice + 1 /\ ~Received(x)
    BY <1>3, <1>5
  <2>2. ASSUME NEW k \in 0..x - 1 PROVE Received(k)
    <3> k \in 0..LastSlice + 1 /\ ~(x <= k)
      BY <1>1, <2>1
    <3> QED BY <1>3, <1>5
  <2> QED BY <2>1, <2>2 DEF FirstGap
<1>7. FirstGap(Delivered)
  BY <1>6 DEF Delivered, FirstGap
<1>8. PICK d : d = Delivered
  OBVIOUS
<1>9. FirstGap(d)
  BY <1>7, <1>8
<1>10. d <= CurrentNo + 1
  <2>1. d \in 0..LastSlice + 1 /\ \A k \in 0..d - 1 : Received(k)
    BY <1>9 DEF FirstGap
  <2>2. CASE d = 0
    BY <1>1, <2>2
  <2>3. CASE d # 0
    <3> d - 1 \in 0..d - 1 /\ d - 1 \in Int /\ d \in Int
      BY <1>1, <2>1, <2>3
    <3> d - 1 <= CurrentNo
      BY <2>1, ReceivedBegun
    <3> QED BY <1>1
  <2> QED BY <2>2, <2>3
<1> QED BY <1>8, <1>9, <1>10 DEF IsDelivered

\* What was received stays received.
LEMMA ReceivedStays ==
  ASSUME IInv, FinishedStays, NEW n \in Int, Received(n)
  PROVE  Received(n)'
<1>1. Len(out) \in Nat /\ Len(out') \in Nat /\ Len(out) <= Len(out')
  BY DEF FinishedStays
<1>2. CASE n < Len(out)
  BY <1>1, <1>2 DEF Received
<1>3. CASE ~(n < Len(out))
  <2>1. PICK p \in Slots : slices[p].sliceNo = n /\ slices[p].state \in Finished
    BY <1>3 DEF Received
  <2>2. \/ slices'[p].state \in Finished /\ slices'[p].sliceNo = slices[p].sliceNo
        \/ slices[p].sliceNo < Len(out')
    BY <2>1 DEF FinishedStays
  <2> QED BY <2>1, <2>2 DEF Received
<1> QED BY <1>2, <1>3

\* The sender gave up only what was received.
SenderInv == ~async => \A k \in 0..Forgotten - 1 : Received(k)

\* How far the sender is ahead.
LEMMA ForgottenIs ==
  ASSUME IInv
  PROVE  /\ Forgotten \in Nat /\ top + 1 <= Forgotten + Window /\ Window \in Nat
         /\ ~async /\ SendSlice => \/ Forgotten' = Forgotten
                                   \/ Forgotten' = Forgotten + 1 /\ Forgotten \in acked
<1>1. top \in Nat /\ Window \in {1, 2}
  BY Sizes, ReceiverAssumption DEF IInv, PlacesInv
<1>2. Forgotten \in Nat /\ top + 1 <= Forgotten + Window
  BY <1>1 DEF Forgotten
<1>3. ASSUME ~async, SendSlice
      PROVE  \/ Forgotten' = Forgotten
             \/ Forgotten' = Forgotten + 1 /\ Forgotten \in acked
  <2>1. top' = top + 1 /\ (top + 1 < Window \/ top + 1 - Window \in acked)
    BY <1>3 DEF SendSlice
  <2>2. CASE top + 1 < Window
    BY <1>1, <2>1, <2>2 DEF Forgotten
  <2>3. CASE ~(top + 1 < Window)
    <3> Forgotten = top + 1 - Window /\ Forgotten' = top' + 1 - Window
      BY <1>1, <2>1, <2>3 DEF Forgotten
    <3> QED BY <1>1, <2>1, <2>3
  <2> QED BY <2>2, <2>3
<1> QED BY <1>1, <1>2, <1>3

LEMMA SenderKeeps ==
  ASSUME IInv, SenderInv, Progress
  PROVE  SenderInv'
<1> SUFFICES ASSUME ~async, NEW k \in 0..Forgotten' - 1
             PROVE  Received(k)'
  BY DEF SenderInv, Progress
<1>1. FinishedStays
  BY DEF Progress
<1>2. /\ Forgotten \in Nat /\ \A i \in 0..Forgotten - 1 : Received(i)
      /\ Forgotten' = Forgotten \/ (Forgotten' = Forgotten + 1 /\ Forgotten \in acked)
  <2>1. Forgotten \in Nat /\ (top' = top => Forgotten' = Forgotten)
    BY ForgottenIs DEF Forgotten
  <2>2. SendSlice => \/ Forgotten' = Forgotten
                     \/ Forgotten' = Forgotten + 1 /\ Forgotten \in acked
    BY ForgottenIs
  <2> QED BY <2>1, <2>2 DEF Progress, SenderInv
<1>3. \A n \in acked : Received(n)
  BY DEF IInv, AckInv, Received
<1>4. k \in Int /\ Received(k)
  <2>1. CASE k \in 0..Forgotten - 1
    BY <1>2, <2>1
  <2>2. CASE k \notin 0..Forgotten - 1
    <3> k = Forgotten /\ Forgotten \in acked
      BY <1>2, <2>2
    <3> QED BY <1>2, <1>3
  <2> QED BY <2>1, <2>2
<1> QED BY <1>1, <1>4, ReceivedStays

\* A step of the receiver or the sender is one of the promise, or changes
\* nothing of it.
LEMMA PromiseKept ==
  ASSUME IInv, SenderInv, SenderInv', Progress, ~async, CurrentNo' \in Int,
         NEW d, IsDelivered(d), NEW e, IsDelivered(e)'
  PROVE  Multicast!MulticastNext \/ UNCHANGED Multicast!multicastVars
<1>1. PICK f, g : f = Forgotten /\ g = Forgotten'
  OBVIOUS
<1>n. d \in Nat /\ e \in Nat
  <2> d \in 0..LastSlice + 1 /\ e \in 0..LastSlice + 1
    BY DEF IsDelivered, FirstGap
  <2> QED BY Sizes
<1>2. /\ ~Received(d) /\ ~Received(e)'
      /\ \A k \in 0..d - 1 : Received(k)
      /\ \A k \in 0..e - 1 : Received(k)'
  BY DEF IsDelivered, FirstGap
<1>3. /\ \A k \in 0..g - 1 : Received(k)'
      /\ TopInv' /\ FinishedStays /\ ~async'
  BY <1>1 DEF SenderInv, Progress
<1>4. /\ f \in Nat /\ top + 1 <= f + Window /\ Window \in Nat
      /\ SendSlice => g = f \/ g = f + 1
  BY <1>1, ForgottenIs
<1>5. d <= e
  <2> SUFFICES ASSUME e < d PROVE FALSE
    BY <1>n
  <2>1. e \in 0..d - 1 /\ e \in Int
    BY <1>n
  <2>2. Received(e)
    BY <1>2, <2>1
  <2> QED BY <1>2, <1>3, <2>1, <2>2, ReceivedStays
<1>6. CASE top' = top
  <2>1. g = f
    BY <1>1, <1>6 DEF Forgotten
  <2>2. CurrentNo' <= top /\ CurrentNo' \in Int /\ top \in Int /\ e <= CurrentNo' + 1
    BY <1>3, <1>6, Sizes DEF TopInv, IInv, PlacesInv, IsDelivered
  <2>3. CASE e = d
    BY <1>1, <2>1, <2>3 DEF Multicast!multicastVars, IsDelivered
  <2>4. CASE e # d
    <3>1. e \in d + 1 .. f + Window
      <4>1. PICK c : c = CurrentNo'
        OBVIOUS
      <4>2. c \in Int /\ top \in Int /\ c <= top /\ e <= c + 1
        BY <2>2, <4>1
      <4> QED BY <1>n, <1>4, <1>5, <2>4, <4>2
    <3>2. [r \in {0} |-> e] = [[r \in {0} |-> d] EXCEPT ![0] = e]
      OBVIOUS
    <3>3. \E r \in {0} : \E n \in [i \in {0} |-> d][r] + 1 .. f + Window :
            [i \in {0} |-> e] = [[i \in {0} |-> d] EXCEPT ![r] = n]
      BY <3>1, <3>2
    <3>4. Multicast!Deliver
      BY <1>1, <2>1, <3>3 DEF Multicast!Deliver, IsDelivered
    <3> QED BY <3>4 DEF Multicast!MulticastNext
  <2> QED BY <2>3, <2>4
<1>7. CASE SendSlice /\ slices' = slices /\ out' = out
  <2>1. \A k : Received(k)' <=> Received(k)
    BY <1>7 DEF Received
  <2>2. e = d
    <3> ~(d < e)
      <4> SUFFICES ASSUME d < e PROVE FALSE
        OBVIOUS
      <4> d \in 0..e - 1
        BY <1>n
      <4> QED BY <1>2, <2>1
    <3> QED BY <1>n, <1>5
  <2>3. CASE g = f
    BY <1>1, <2>2, <2>3 DEF Multicast!multicastVars, IsDelivered
  <2>4. CASE g = f + 1
    <3>1. d > f
      <4> SUFFICES ASSUME d <= f PROVE FALSE
        BY <1>n, <1>4
      <4> d \in 0..g - 1
        BY <1>n, <1>4, <2>4
      <4> QED BY <1>2, <1>3, <2>1
    <3>2. \A r \in {0} : [i \in {0} |-> d][r] > f
      BY <3>1
    <3>3. Multicast!Release
      BY <1>1, <2>2, <2>4, <3>2 DEF Multicast!Release, IsDelivered
    <3> QED BY <3>3 DEF Multicast!MulticastNext
  <2> QED BY <1>4, <1>7, <2>3, <2>4
<1> QED BY <1>6, <1>7 DEF Progress

\* The transfer begins with nothing received and nothing given up.
LEMMA PromiseBegins ==
  ASSUME Init, IInv
  PROVE  TopInv /\ SenderInv /\ Multicast!MulticastInit
<1>1. /\ current = 0 /\ top = 0 /\ netPc = "dispatch" /\ out = <<>>
      /\ \A p \in Slots : slices[p].state \in {"RECEIVING", "FREE"}
  <2> \A p \in Slots : slices[p] = IF p = 0 THEN FreshSlice(0) ELSE FreeSlot
    BY Sizes DEF Init, Slots
  <2> QED BY FreshSliceIs, FreeSlotIs, ZenonT(60) DEF Init, LooksFresh
<1>2. CurrentNo = 0
  BY <1>1, Sizes DEF Init, CurrentNo, FreshSlice, FreeSlot, Slots
<1>3. Forgotten = 0
  BY <1>1, ReceiverAssumption DEF Forgotten
<1>4. Delivered = 0
  <2>1. ~Received(0)
    BY <1>1 DEF Received, Finished
  <2>2. PICK d : IsDelivered(d)
    BY DeliveredIs
  <2>3. d \in Nat /\ (d # 0 => 0 \in 0..d - 1)
    BY <2>2, Sizes DEF IsDelivered, FirstGap
  <2>4. d = 0
    BY <2>1, <2>2, <2>3 DEF IsDelivered, FirstGap
  <2> QED BY <2>2, <2>4 DEF IsDelivered
<1> QED BY <1>1, <1>2, <1>3, <1>4 DEF TopInv, SenderInv, Multicast!MulticastInit

-----------------------------------------------------------------------------
(* The theorems *)

(* IInv is an invariant of the receiver. *)
THEOREM Invariant == Spec => []IInv
<1>1. IInv /\ [Next]_vars => IInv'
  BY NextKeeps, StutterKeeps
<1> QED BY InitKeeps, <1>1, PTL DEF Spec

\* What is free, unwritten and taken makes up the memory, so none exceeds it.
LEMMA TypesFollow == IInv => TypeOK
<1> SUFFICES ASSUME IInv PROVE TypeOK
  OBVIOUS
<1>1. /\ current \in Slots /\ freeSlices \in 0..NrSlices
      /\ freePos = (current + freeSlices + 1) % NrSlices
  BY DEF IInv, RingInv
<1>2. freePos \in Slots
  BY <1>1, SlotAfterFree
<1>3. freeMem \in 0..Memory
  <2>1. /\ freeMem \in Nat /\ data \in Nat
        /\ Memory = freeMem + data + Cardinality(Taken(slices))
    BY ConservedMemory DEF IInv, MemoryInv
  <2>2. Cardinality(Taken(slices)) \in Nat
    <3> \A p \in Slots : slices[p].sliceNo \in -1..LastSlice
      BY DEF IInv, SlotsInv, SlotInv, SlotTyped
    <3> QED BY TakenIs
  <2> QED BY <2>1, <2>2, Sizes
<1>4. \A p \in Slots : /\ slices[p].state \in Finished \cup {"FREE", "RECEIVING"}
                       /\ slices[p].sliceNo \in -1..LastSlice
  BY DEF IInv, SlotsInv, SlotInv, SlotTyped
<1>5. freeBlocks \subseteq 1..NR_BLOCKS
  BY DEF IInv, SpaceInv, BlockSpaceConserved
<1> QED BY <1>1, <1>2, <1>3, <1>4, <1>5 DEF IInv, PlacesInv, TypeOK

(* Every variable keeps its type: the free memory and the count of free slots
   stay within their limits, whatever arrives how often (newSlice,
   setSliceBytes, cleanupSlices). *)
THEOREM TypeCorrect == Spec => []TypeOK
  BY Invariant, TypesFollow, PTL

(* No block space is lost and none is in two places, for every number of
   spaces, groups and slots (getBlockSpace, freeBlockSpace). *)
THEOREM BlockSpacesKept == Spec => []BlockSpaceConserved
<1>1. IInv => BlockSpaceConserved
  BY DEF IInv, SpaceInv
<1> QED BY Invariant, <1>1, PTL

(* No memory is lost and none is taken twice. *)
THEOREM MemoryKept == Spec => []MemoryConserved
<1>1. IInv => MemoryConserved
  BY DEF IInv, MemoryInv
<1> QED BY Invariant, <1>1, PTL

(* The counters of a slice agree with its block map and the FEC blocks it
   holds, and a slice that goes to the FEC thread has in every group exactly
   the FEC blocks it needs (processDataBlock, processFecBlock, fecMain). *)
THEOREM CountersAgree == Spec => []FecCountsAgree
  BY Invariant, CountsFollow, PTL

(* What the receiver acknowledged it has: handed over, or complete in a slot,
   although requests for slices whose slots are free again are answered
   without a look at them (processReqAck, findSlice). *)
THEOREM AcknowledgedIsComplete == Spec => []AckMeansComplete
<1>1. IInv => AckMeansComplete
  BY DEF IInv, AckInv, AckMeansComplete
<1> QED BY Invariant, <1>1, PTL

\* Distances back from the current slot number the free slots.
LEMMA FreeCount ==
  ASSUME IInv
  PROVE  freeSlices = Cardinality(FreeOnes)
<1>1. /\ current \in Slots /\ freeSlices \in Nat /\ freeSlices <= NrSlices /\ NrSlices \in Nat
      /\ \A p \in Slots : slices[p].state = "FREE" <=> BackOf(current, p) >= NrSlices - freeSlices
  BY Sizes DEF IInv, RingInv, Back, BackOf
<1>2. /\ \A p \in Slots : BackOf(current, p) \in 0..NrSlices - 1
      /\ \A p, q \in Slots : BackOf(current, p) = BackOf(current, q) => p = q
      /\ \A d \in 0..NrSlices - 1 : \E p \in Slots : BackOf(current, p) = d
  BY <1>1, BackRange
<1>3. PICK T : T = {d \in 0..NrSlices - 1 : d >= NrSlices - freeSlices}
  OBVIOUS
<1>4. IsFiniteSet(T) /\ Cardinality(T) = freeSlices
  <2>1. T = (NrSlices - freeSlices)..(NrSlices - 1)
    BY <1>1, <1>3
  <2>2. PICK a, b \in Int : a = NrSlices - freeSlices /\ b = NrSlices - 1
    BY <1>1
  <2>3. IsFiniteSet(a..b) /\ Cardinality(a..b) = IF a > b THEN 0 ELSE b - a + 1
    BY FS_Interval
  <2> QED BY <1>1, <2>1, <2>2, <2>3
<1>5. PICK f : f = [p \in FreeOnes |-> BackOf(current, p)]
  OBVIOUS
<1>6. f \in [FreeOnes -> T]
  BY <1>1, <1>2, <1>3, <1>5 DEF FreeOnes
<1>7. f \in Injection(FreeOnes, T)
  <2> \A p, q \in FreeOnes : f[p] = f[q] => p = q
    BY <1>2, <1>5 DEF FreeOnes
  <2> QED BY <1>6 DEF Injection, IsInjective
<1>8. f \in Surjection(FreeOnes, T)
  <2> ASSUME NEW d \in T PROVE \E p \in FreeOnes : f[p] = d
    <3> PICK p \in Slots : BackOf(current, p) = d
      BY <1>2, <1>3
    <3> p \in FreeOnes
      BY <1>1, <1>3 DEF FreeOnes
    <3> QED BY <1>5
  <2> QED BY <1>6 DEF Surjection
<1>9. Cardinality(FreeOnes) = Cardinality(T)
  BY <1>4, <1>7, <1>8, FS_Injection
<1> QED BY <1>4, <1>9

(* A new slice always finds its slot free (assertion of newSlice): the free
   slots are those after the current one, as many as the queue says, and the
   slots in use hold consecutive slices. *)
THEOREM SlotsTakeTurns == Spec => []SlotsTurn
<1>1. IInv => SlotsTurn
  <2> SUFFICES ASSUME IInv PROVE SlotsTurn
    OBVIOUS
  <2>1. freeSlices = Cardinality(FreeOnes)
    BY FreeCount
  <2>2. ASSUME NEW p \in Slots \ FreeOnes
        PROVE  Back(p) < NrSlices - freeSlices /\ slices[p].sliceNo = CurrentNo - Back(p)
    <3>1. /\ slices[p].state # "FREE" /\ current \in Slots
          /\ slices[p].state = "FREE" <=> Back(p) >= NrSlices - freeSlices
          /\ slices[p].sliceNo = IF Back(p) <= CurrentNo THEN CurrentNo - Back(p) ELSE -1
          /\ freeSlices \in 0..NrSlices
      BY <2>2 DEF IInv, RingInv, FreeOnes
    <3>2. Back(p) \in 0..NrSlices - 1
      BY <3>1, BackRange DEF Back, BackOf
    <3>3. slices[p].sliceNo >= 0
      BY <3>1 DEF IInv, SlotsInv, SlotInv, Counted
    <3> QED BY <3>1, <3>2, <3>3, Sizes
  <2> QED BY <2>1, <2>2 DEF SlotsTurn, IInv, RingInv
<1> QED BY Invariant, <1>1, PTL

(* Each finished slice is at most once in the queue to the FEC thread, in the
   state in which checkSliceComplete left it. *)
THEOREM FinishedQueuedOnce == Spec => []FecQueueExact
<1>1. IInv => FecQueueExact
  BY DEF IInv, HandOverInv
<1> QED BY Invariant, <1>1, PTL

\* Who raises the number of free slots is the thread that cleans up.
LEMMA OnlyCleaningFrees ==
  ASSUME IInv, Next, use_fec, freeSlices' > freeSlices
  PROVE  fecPc = "cleanup"
<1>1. freeSlices \in Int /\ (use_fec => netPc # "clean")
  BY Sizes DEF IInv, RingInv, ModeInv
<1>2. ASSUME fecPc # "cleanup" PROVE freeSlices' = freeSlices \/ freeSlices' = freeSlices - 1
  <2>1. \A m : Handle(m) => freeSlices' = freeSlices \/ freeSlices' = freeSlices - 1
    BY DEF Handle, BeginSlice, Exit
  <2>2. CASE Receive \/ Resume
    BY <2>1, <2>2 DEF Receive, Resume
  <2>3. CASE SeeDone \/ AdvanceStep \/ NetClean \/ Timeout
    BY <1>1, <2>3 DEF SeeDone, AdvanceStep, NetClean, Timeout
  <2>4. CASE FecThread
    BY <1>2, <2>4 DEF FecThread, FecTake, FecDecode, FecRelease, FecClean
  <2>5. CASE Writer \/ SendSlice
    BY <2>5 DEF Writer, SendSlice
  <2> QED BY <2>2, <2>3, <2>4, <2>5 DEF Next, NetThread
<1> QED BY <1>1, <1>2

(* Once the FEC thread runs, the network thread gives no slot back, so that no
   slice is handed over before it was repaired (advanceReceivedPointer,
   checkSliceComplete). *)
THEOREM FecThreadFrees ==
  Spec => [][use_fec /\ freeSlices' > freeSlices => fecPc = "cleanup"]_vars
<1>1. IInv /\ [Next]_vars => [use_fec /\ freeSlices' > freeSlices => fecPc = "cleanup"]_vars
  BY OnlyCleaningFrees
<1> QED BY Invariant, <1>1, PTL DEF Spec

(* The writer gets the slices in order and each once, whatever the code makes
   of lost blocks (cleanupSlices, advanceReceivedPointer). *)
THEOREM HandedOverInOrder == Spec => [](\A i \in DOMAIN out : out[i].sliceNo = i - 1)
<1>1. IInv => \A i \in DOMAIN out : out[i].sliceNo = i - 1
  BY DEF IInv, RingInv
<1> QED BY Invariant, <1>1, PTL

(* The writer gets the slices in order, each once and with the data that was
   sent, for every order of arrivals, every loss that the receiver repairs,
   every interleaving of the threads, every number of slots, block spaces and
   blocks of memory and every size of the field (processDataBlock,
   fec_decode_one_stripe, cleanupSlices). *)
THEOREM HandedOverIntact == Spec => []HandedOverInOrderIntact
<1>0. SlicesRepairable
  BY SlicesRepaired
<1>1. Init => IntactInv
  BY InitIntact
<1>2. IInv /\ IntactInv /\ [Next]_vars => IntactInv'
  BY <1>0, NextIntact
<1>3. IInv /\ IntactInv => HandedOverInOrderIntact
  BY DEF IInv, RingInv, IntactInv, OutIntact, HandedOverInOrderIntact
<1> QED BY Invariant, <1>1, <1>2, <1>3, PTL DEF Spec

(* Inversion is exact, any parity blocks repair as many lost data blocks and the
   groups of the slices are repaired whatever they lost, for every size of the
   field, of the slices and of their redundancy that the code allows
   (invert_mat, fec_encode, fec_decode). *)
THEOREM Repairable == Spec => []ErasuresRepaired
<1>1. InversionIsExact(3)
  BY InversionExact
<1>2. AnyParityRepairsAnyErasure(HIGH)
  BY FieldSizes, AnyParityRepairs
<1>3. ErasuresRepaired
  BY <1>1, <1>2, SlicesRepaired DEF ErasuresRepaired
<1> QED BY <1>3, PTL

(* The tables multiply polynomials modulo that of the field and hold inverses,
   and the unrolled loops with the loop that follows them visit every symbol of
   a block once, for every size of the field and every unrolling
   (generate_gf, init_mul_table, slow_addmul1, slow_mul1). *)
THEOREM FieldIsRight == Spec => []FieldArithmetic
<1>1. FieldArithmetic
  BY TablesAreAField, LoopsRight DEF FieldArithmetic
<1> QED BY <1>1, PTL

(* Where the sender waits for acknowledgements, the receiver keeps the promise
   of the transfer, for every number of slices and slots and for one or two
   slices in flight: no step of a thread loses a slice that was received, and
   the sender gives up a slice only when it and all before it were received.
   The network thread answers requests for slices whose slots are free again
   without a look at them (processReqAck, dispatchMessage), so this needs what
   IInv says of the slots. *)
THEOREM Refinement == Spec => ImplementsMulticast
<1>1. Init => TopInv /\ SenderInv /\ (~async => Multicast!MulticastInit)
  BY InitKeeps, PromiseBegins
<1>2. IInv /\ TopInv /\ SenderInv /\ [Next]_vars => TopInv' /\ SenderInv'
  BY NextProgress, SenderKeeps DEF Progress
<1>3. IInv => \E d : IsDelivered(d)
  BY DeliveredIs
<1>4. IInv' => (\E d : IsDelivered(d))'
  BY <1>3, PTL
<1>5. IInv /\ TopInv /\ SenderInv /\ [Next]_vars /\ IInv' /\ SenderInv'
        => [~async => Multicast!MulticastNext]_(Multicast!multicastVars)
  <2> SUFFICES ASSUME IInv, TopInv, SenderInv, [Next]_vars, IInv', SenderInv', ~async
               PROVE  Multicast!MulticastNext \/ UNCHANGED Multicast!multicastVars
    OBVIOUS
  <2>1. Progress
    BY NextProgress
  <2>2. PICK d : IsDelivered(d)
    BY <1>3
  <2>3. PICK e : IsDelivered(e)'
    BY <1>4
  <2>4. CurrentNo' \in Int
    BY Sizes DEF IInv, RingInv
  <2> QED BY <2>1, <2>2, <2>3, <2>4, PromiseKept
<1> QED BY Invariant, <1>1, <1>2, <1>5, PTL DEF Spec, ImplementsMulticast

=============================================================================
