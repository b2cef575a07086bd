------------------------- MODULE SenderThreadsProofs -------------------------
(***************************************************************************)
(* The queues and the memory of the sender's threads, proved for every     *)
(* size of the buffer, the blocks, the slices and the return channel,      *)
(* every length of the file and every number of receivers.                 *)
(***************************************************************************)
EXTENDS SenderThreads, FiniteSetTheorems, SequenceTheorems, WellFoundedInduction, TLAPS

-----------------------------------------------------------------------------
(* The inductive invariant *)

SliceType ==
  [state : {"FREE", "NEW", "XMITTED", "ACKED", "PRE_FREE"}, no : Nat, base : Nat, bytes : Nat,
   next : Nat, ready : SUBSET Receivers, answered : SUBSET Receivers, needRxmit : BOOLEAN,
   rxmitId : Nat, rxmitMap : SUBSET Nat, xmitted : SUBSET Nat, lastGood : Nat]
RequestType == [no : Int, id : Nat, blocks : Nat]
MessageType == [from : Receivers, type : {"none", "ok", "retransmit", "disconnect"},
                no : Int, id : Nat]
Making == makePc \in {"amount", "end", "encode", "encoded"}

Typed ==
  /\ mode \in ModeType /\ size \in Nat
  /\ buffer \in [0..BufSize - 1 -> Int]
  /\ chunk \in Nat /\ taken \in Nat /\ freed \in Nat /\ read \in Nat /\ made \in Nat
  /\ makeNo \in Nat /\ amount \in Nat
  /\ freeEnd \in BOOLEAN /\ dataEnd \in BOOLEAN /\ atEnd \in BOOLEAN /\ cut \in BOOLEAN
  /\ slices \in [Slots -> SliceType]
  /\ \A i \in Slots : slices[i].bytes <= BlockSize * LargestSize
  /\ freePos \in Slots /\ makePos \in Slots /\ encodedPos \in Slots
  /\ parity \in [Slots -> Int]
  /\ discovery \in {"DOUBLING", "REDUCING"}
  /\ pending \in [Receivers -> RequestType]
  /\ q \in [0..QueueSize - 1 -> MessageType] /\ arrived \in Seq(MessageType)

\* What is read, made into slices and freed is counted exactly.
CountersInv ==
  /\ read <= size /\ made <= read /\ taken <= freed + BufSize
  /\ readerPc \in {"wait", "done"} => taken = read /\ chunk = 0
  /\ readerPc = "consumed" => taken = read /\ read + chunk <= freed + BufSize
  /\ readerPc = "produce" => taken = read + chunk
  /\ read + chunk <= size
  /\ makePc = "end" => amount <= read - made
  /\ made = freed + Held(0) + Held(1)

\* A slot is with the network thread (about to be freed, to be sent again, to be
\* sent), encoded, with the maker or free, in this order round the two slots.
ToProduce == IF netPc = "produce" \/ (netPc = "give" /\ slices[freePos].state = "PRE_FREE")
             THEN 1 ELSE 0
ToResend == IF rexmit # NoSlice THEN 1 ELSE 0
ToSend == IF xmit # NoSlice THEN 1 ELSE 0
ToMake == IF Making THEN 1 ELSE 0
RingInv ==
  /\ ToProduce + ToResend + ToSend + encoded + ToMake + freeSlices = NrSlices
  /\ rexmit # NoSlice => rexmit = (freePos + ToProduce) % NrSlices
  /\ xmit # NoSlice => xmit = (freePos + ToProduce + ToResend) % NrSlices
  /\ mode.fec => encodedPos = (freePos + ToProduce + ToResend + ToSend) % NrSlices
  /\ makePos = (freePos + ToProduce + ToResend + ToSend + encoded + ToMake) % NrSlices

\* The state of each slot says where it is.
StateInv ==
  /\ netPc = "produce" => slices[freePos].state = "FREE"
  /\ rexmit # NoSlice => slices[rexmit].state \in {"XMITTED", "ACKED"}
  /\ xmit # NoSlice => slices[xmit].state \in {"NEW", "XMITTED"}
  /\ mode.fec /\ encoded > 0 => slices[encodedPos].state = "NEW"
  /\ encoded = NrSlices => \A i \in Slots : slices[i].state = "NEW"
  /\ makePc \in {"amount", "end"} => slices[LastMade].state = "FREE"
  /\ makePc \in {"encode", "encoded"} => slices[LastMade].state = "NEW"
  /\ freeSlices > 0 => slices[makePos].state = "FREE"
  /\ freeSlices = NrSlices => \A i \in Slots : slices[i].state = "FREE"

\* What the place of the network thread says of the slots.
ControlInv ==
  /\ mode.fec => makePc # "idle"
  /\ ~mode.fec => /\ encoded = 0 /\ makePc \in {"idle", "slot", "amount", "end"}
                  /\ makePc = "idle" <=> netPc # "make"
  /\ netPc = "make" => xmit = NoSlice /\ ~atEnd
  /\ netPc = "free" => rexmit # NoSlice /\ slices[rexmit].state = "ACKED"
  /\ netPc \in {"give", "produce", "shift"} => rexmit = NoSlice
  /\ netPc \in {"messages", "make", "send"} /\ rexmit = NoSlice /\ xmit # NoSlice
       => slices[xmit].state = "NEW"
  /\ netPc = "send" /\ rexmit = NoSlice /\ xmit = NoSlice => atEnd

ChannelInv ==
  /\ rcPos \in 0..QueueSize - 1 /\ msgPos \in 0..QueueSize - 1
  /\ freeMsgs \in 0..QueueSize /\ incoming \in 0..QueueSize
  /\ rcPos = (msgPos + incoming) % QueueSize
  /\ rcPc = "lookup" => freeMsgs > 0
  /\ netPc = "giveBack" => incoming > 0
  /\ MessagesIntact

\* The bytes of a slice follow those freed, or those of the slice before it.
Oldest == (freePos + ToProduce) % NrSlices
BaseInv ==
  /\ Oldest \in InUse => slices[Oldest].base = freed
  /\ 1 - Oldest \in InUse => slices[1 - Oldest].base = freed + Held(Oldest)

\* What is in the buffer, until the network thread ends; after the end of the
\* file there is room for the padding.
ContentInv ==
  /\ freeEnd => netPc = "done"
  /\ dataEnd => /\ readerPc = "done" /\ read = size
                /\ netPc # "done" => read + Page <= freed + BufSize
  /\ ~cut /\ netPc # "done" => \A b \in freed..read + chunk - 1 : Holds(b)
  /\ ~cut /\ makePc = "encode" /\ LeftOver(slices[LastMade]) # 0 =>
       /\ dataEnd /\ made = read
       /\ slices[LastMade].base + slices[LastMade].bytes = made
  /\ mode.fec => \A i \in Slots : slices[i].state = "NEW" =>
       parity[i] = slices[i].no \/ (makePc = "encode" /\ i = LastMade)

IInv == /\ TypeOK /\ Typed /\ CountersInv /\ RingInv /\ StateInv /\ ControlInv
        /\ ChannelInv /\ BaseInv /\ ContentInv

-----------------------------------------------------------------------------
(* Arithmetic and sets of numbers *)

\* The constants, each with its type.
LEMMA Sizes ==
  /\ BlockSize \in Nat \ {0} /\ BufBlocks \in Nat \ {0} /\ Page \in Nat \ {0}
  /\ MinBlocks \in Nat \ {0} /\ MaxSize \in Nat \ {0} /\ LeastSize \in Nat \ {0}
  /\ Growth \in Nat \ {0} /\ QueueSize \in Nat \ {0}
  /\ RetriesUntilDrop \in Nat /\ MaxRequests \in Nat
  BY SizesAssumption

LEMMA MaxOfTwo ==
  ASSUME NEW a \in Int, NEW b \in Int
  PROVE  Max({a, b}) = IF a >= b THEN a ELSE b
<1>1. \E x \in {a, b} : \A y \in {a, b} : x >= y
  OBVIOUS
<1> QED
  BY <1>1 DEF Max

LEMMA MinOfTwo ==
  ASSUME NEW a \in Int, NEW b \in Int
  PROVE  Min({a, b}) = IF a <= b THEN a ELSE b
<1>1. \E x \in {a, b} : \A y \in {a, b} : x <= y
  OBVIOUS
<1> QED
  BY <1>1 DEF Min

LessThan == {p \in Nat \X Nat : p[1] < p[2]}

\* A non-empty set of natural numbers below a bound has a greatest one.
LEMMA MaxOfBounded ==
  ASSUME NEW n \in Nat, NEW S \in SUBSET (0..n), S # {}
  PROVE  Max(S) \in S
<1> DEFINE T == {n - y : y \in S}
<1>1. T \subseteq Nat /\ T # {}
  OBVIOUS
<1>2. IsWellFoundedOn(LessThan, Nat)
  BY NatLessThanWellFounded DEF LessThan, OpToRel
<1>3. PICK x \in T : \A y \in T : ~(<<y, x>> \in LessThan)
  BY <1>1, <1>2, WFMin
<1>4. \A y \in T : x <= y
  <2>1. ASSUME NEW y \in T, y < x PROVE FALSE
    <3>1. <<y, x>> \in LessThan
      BY <1>1, <2>1 DEF LessThan
    <3> QED
      BY <3>1, <1>3
  <2> QED
    BY <1>1, <2>1
<1>5. PICK z \in S : x = n - z
  BY <1>3
<1>6. \A y \in S : z >= y
  <2> SUFFICES ASSUME NEW y \in S PROVE z >= y
    OBVIOUS
  <2>1. n - y \in T
    OBVIOUS
  <2>2. n - z <= n - y
    BY <1>4, <1>5, <2>1
  <2> QED
    BY <2>2
<1>7. \E m \in S : \A y \in S : m >= y
  BY <1>6
<1> QED
  BY <1>7 DEF Max

LEMMA BufSizeType == BufSize \in Nat \ {0} /\ LargestSize \in Nat \ {0}
                     /\ MaxSize <= LargestSize /\ LeastSize <= LargestSize
<1>1. LargestSize = IF MaxSize >= LeastSize THEN MaxSize ELSE LeastSize
  BY Sizes, MaxOfTwo DEF LargestSize
<1>2. BufBlocks * BlockSize \in Nat \ {0}
  BY Sizes
<1> QED
  BY <1>1, <1>2, Sizes DEF BufSize

LEMMA ProductMonotone ==
  ASSUME NEW b \in Nat, NEW x \in Nat, NEW y \in Nat, x <= y
  PROVE  b * x \in Nat /\ b * x <= b * y
<1>1. b * (y - x) \in Nat
  OBVIOUS
<1>2. b * (y - x) = b * y - b * x
  OBVIOUS
<1> QED
  BY <1>1, <1>2

LEMMA DivMod ==
  ASSUME NEW a \in Nat, NEW b \in Nat \ {0}
  PROVE  /\ a \div b \in Nat /\ a % b \in 0..b - 1
         /\ a = b * (a \div b) + (a % b)
  OBVIOUS

LEMMA ModMultiple ==
  ASSUME NEW b \in Nat \ {0}, NEW k \in Nat
  PROVE  (b * k) % b = 0
<1> SUFFICES ASSUME NEW a \in Nat, a = b * k PROVE a % b = 0
  OBVIOUS
<1>1. PICK d \in Nat, r \in 0..b - 1 : r = a % b /\ a = b * d + r
  BY DivMod
<1>2. b * (k - d) = b * k - b * d /\ b * d \in Nat
  OBVIOUS
<1>3. CASE k >= d + 1
  <2>1. b * 1 <= b * (k - d)
    BY <1>3, ProductMonotone
  <2> QED
    BY <1>1, <1>2, <2>1
<1>4. CASE k <= d
  <2>1. b * k <= b * d
    BY <1>4, ProductMonotone
  <2> QED
    BY <1>1, <1>2, <2>1
<1> QED
  BY <1>3, <1>4

\* Quotients of numbers that do not pass n times b.
LEMMA DivUpper ==
  ASSUME NEW a \in Nat, NEW b \in Nat \ {0}, NEW n \in Nat, a <= b * n
  PROVE  (a + b - 1) \div b \in 0..n
<1> DEFINE d == (a + b - 1) \div b
<1>1. d \in Nat /\ a + b - 1 >= b * d
  BY DivMod
<1>2. CASE d >= n + 1
  <2>1. b * (n + 1) <= b * d
    BY <1>1, <1>2, ProductMonotone
  <2>2. b * (n + 1) = b * n + b /\ b * n \in Nat /\ b * d \in Nat
    BY <1>1
  <2> QED
    BY <1>1, <2>1, <2>2
<1> QED
  BY <1>1, <1>2

LEMMA ModStep ==
  ASSUME NEW n \in Nat \ {0}, NEW a \in 0..2 * n - 1
  PROVE  a % n = IF a < n THEN a ELSE a - n
  OBVIOUS

\* Numbers less than a whole ring apart are in different places.
LEMMA ModDistinct ==
  ASSUME NEW n \in Nat \ {0}, NEW a \in Nat, NEW b \in Nat, a < b, b - a < n
  PROVE  a % n # b % n
<1> SUFFICES ASSUME a % n = b % n PROVE FALSE
  OBVIOUS
<1> DEFINE x == a \div n
           y == b \div n
<1>1. x \in Nat /\ y \in Nat /\ a = n * x + (a % n) /\ b = n * y + (b % n)
  BY DivMod
<1>2. n * x \in Nat /\ n * y \in Nat /\ a % n \in Nat
  BY <1>1
<1>3. b - a = n * y - n * x
  BY <1>1, <1>2
<1>4. n * (y - x) = n * y - n * x
  BY <1>1
<1>5. CASE y <= x
  BY <1>1, <1>2, <1>3, <1>5, ProductMonotone
<1>6. CASE y >= x + 1
  <2>1. n * 1 <= n * (y - x)
    BY <1>1, <1>6, ProductMonotone
  <2> QED
    BY <1>3, <1>4, <2>1
<1> QED
  BY <1>1, <1>5, <1>6

-----------------------------------------------------------------------------
(* What the steps of the network thread do to a slice *)

\* Nothing that the queues and the memory depend on.
SameSlice(i) ==
  /\ slices'[i].state = slices[i].state /\ slices'[i].no = slices[i].no
  /\ slices'[i].base = slices[i].base /\ slices'[i].bytes = slices[i].bytes

\* Slice i is acknowledged, and its memory freed.
Acknowledged(i) ==
  /\ slices[i].state # "ACKED" /\ slices'[i].state = "ACKED"
  /\ slices'[i].no = slices[i].no /\ slices'[i].base = slices[i].base
  /\ slices'[i].bytes = slices[i].bytes
  /\ \A j \in Slots \ {i} : SameSlice(j)
  /\ freed' = freed + slices[i].bytes

SlicesTyped ==
  slices \in [Slots -> SliceType] /\ \A i \in Slots : slices[i].bytes <= BlockSize * LargestSize
SizingTyped ==
  sliceSize \in 1..LargestSize /\ discovery \in {"DOUBLING", "REDUCING"}

LEMMA FreeSliceTyped == FreeSlice \in SliceType /\ NoMsg \in MessageType /\ NoRequest \in RequestType
<1>1. \E r \in Receivers : TRUE
  BY SizesAssumption
<1>2. (CHOOSE r \in Receivers : TRUE) \in Receivers
  BY <1>1
<1> QED
  BY <1>2 DEF FreeSlice, SliceType, NoMsg, MessageType, NoRequest, RequestType

LEMMA SliceBytesBounds ==
  ASSUME NEW n \in Nat, SizingTyped
  PROVE  /\ SliceBytes(n) \in 0..n /\ SliceBytes(n) <= BlockSize * LargestSize
         /\ SliceBytes(n) % BlockSize # 0 => SliceBytes(n) = n /\ n < BlockSize
<1> DEFINE m == Min({n, BlockSize * sliceSize})
<1>1. BlockSize * sliceSize \in Nat /\ BlockSize * sliceSize <= BlockSize * LargestSize
      /\ BlockSize * LargestSize \in Nat /\ BlockSize * 1 <= BlockSize * sliceSize
  BY Sizes, BufSizeType, ProductMonotone DEF SizingTyped
<1>2. m = IF n <= BlockSize * sliceSize THEN n ELSE BlockSize * sliceSize
  BY <1>1, MinOfTwo
<1>3. m \in Nat /\ m <= n /\ m <= BlockSize * LargestSize /\ (m < BlockSize => m = n)
  BY <1>1, <1>2, Sizes
<1>4. m % BlockSize \in 0..BlockSize - 1 /\ m \div BlockSize \in Nat
      /\ m = BlockSize * (m \div BlockSize) + (m % BlockSize)
  BY <1>3, Sizes, DivMod
<1>5. SliceBytes(n) = IF m > BlockSize THEN m - (m % BlockSize) ELSE m
  BY DEF SliceBytes
<1> HIDE DEF m
<1>6. CASE m > BlockSize
  <2>1. SliceBytes(n) = BlockSize * (m \div BlockSize) /\ SliceBytes(n) \in 0..m
    BY <1>3, <1>4, <1>5, <1>6, Sizes
  <2>2. SliceBytes(n) % BlockSize = 0
    BY <1>4, <2>1, Sizes, ModMultiple
  <2> QED
    BY <1>1, <1>3, <2>1, <2>2
<1>7. CASE m = BlockSize
  <2>1. m % BlockSize = 0
    BY <1>7, Sizes
  <2> QED
    BY <1>3, <1>5, <1>7, <2>1
<1>8. CASE m < BlockSize
  <2>1. SliceBytes(n) = n /\ m = n
    BY <1>3, <1>5, <1>8, Sizes
  <2> QED
    BY <1>3, <1>8, <2>1
<1>9. m > BlockSize \/ m = BlockSize \/ m < BlockSize
  <2>1. m \in Nat
    BY <1>3
  <2> QED
    BY <2>1, Sizes
<1> QED
  BY <1>6, <1>7, <1>8, <1>9

LEMMA BlocksBound ==
  ASSUME NEW s \in SliceType, s.bytes <= BlockSize * LargestSize
  PROVE  Blocks(s) \in 0..LargestSize
<1>1. s.bytes \in Nat
  BY DEF SliceType
<1> QED
  BY <1>1, DivUpper, Sizes, BufSizeType DEF Blocks

LEMMA GrownTyped ==
  ASSUME SizingTyped
  PROVE  Grown.sz \in 1..LargestSize /\ Grown.d \in {"DOUBLING", "REDUCING"}
<1>1. sliceSize \div Growth \in Nat
  BY Sizes, BufSizeType, DivMod DEF SizingTyped
<1>2. sliceSize \in 1..LargestSize
  BY DEF SizingTyped
<1> DEFINE g == sliceSize + sliceSize \div Growth
<1>3. g >= MaxSize \/ g \in 1..LargestSize
  BY <1>1, <1>2, Sizes, BufSizeType
<1>4. MaxSize \in 1..LargestSize
  BY Sizes, BufSizeType
<1> HIDE DEF g
<1>5. Grown = IF mode.sn \/ discovery # "DOUBLING" THEN [sz |-> sliceSize, d |-> discovery]
              ELSE IF g >= MaxSize THEN [sz |-> MaxSize, d |-> "REDUCING"]
                                   ELSE [sz |-> g, d |-> discovery]
  BY DEF Grown, g
<1> QED
  BY <1>2, <1>3, <1>4, <1>5 DEF SizingTyped

LEMMA ReducedTyped ==
  ASSUME SizingTyped, NEW s \in SliceType, s.bytes <= BlockSize * LargestSize
  PROVE  Reduced(s).sz \in 1..LargestSize /\ Reduced(s).d \in {"DOUBLING", "REDUCING"}
<1>1. sliceSize \in 1..LargestSize /\ sliceSize \div 2 \in 0..LargestSize
  BY BufSizeType DEF SizingTyped
<1>2. s.lastGood \in Nat /\ Blocks(s) \in 0..LargestSize
  BY BlocksBound DEF SliceType
<1> DEFINE z == IF s.lastGood < sliceSize \div 2 THEN sliceSize \div 2 ELSE s.lastGood
<1>3. CASE ~mode.sn /\ s.rxmitId # 0 /\ s.lastGood # 0 /\ s.lastGood < Blocks(s)
  <2>1. z \in 0..LargestSize
    BY <1>1, <1>2, <1>3, BufSizeType
  <2>2. Max({LeastSize, z}) \in 1..LargestSize
    BY <2>1, MaxOfTwo, Sizes, BufSizeType
  <2>3. Reduced(s) = [sz |-> Max({LeastSize, z}), d |-> "REDUCING"]
    BY <1>3 DEF Reduced
  <2> HIDE DEF z
  <2> QED
    BY <2>2, <2>3
<1>4. CASE ~(~mode.sn /\ s.rxmitId # 0 /\ s.lastGood # 0 /\ s.lastGood < Blocks(s))
  <2>1. Reduced(s) = [sz |-> sliceSize, d |-> discovery]
    BY <1>4 DEF Reduced
  <2> QED
    BY <2>1, <1>1 DEF SizingTyped
<1> QED
  BY <1>3, <1>4

LEMMA AckedKeeps ==
  ASSUME SlicesTyped, SizingTyped, NEW i \in Slots, slices[i].state # "ACKED", Acked(i)
  PROVE  SlicesTyped' /\ SizingTyped' /\ Acknowledged(i)
<1>1. slices' = [slices EXCEPT ![i] = [slices[i] EXCEPT !.state = "ACKED"]]
  BY DEF Acked
<1>2. [slices[i] EXCEPT !.state = "ACKED"] \in SliceType
  BY DEF SlicesTyped, SliceType
<1>3. /\ slices'[i] = [slices[i] EXCEPT !.state = "ACKED"]
      /\ \A j \in Slots \ {i} : slices'[j] = slices[j]
      /\ slices' \in [Slots -> SliceType]
  BY <1>1, <1>2 DEF SlicesTyped
<1>4. /\ slices'[i].state = "ACKED" /\ slices'[i].no = slices[i].no
      /\ slices'[i].base = slices[i].base /\ slices'[i].bytes = slices[i].bytes
  BY <1>3 DEF SlicesTyped, SliceType
<1>5. SlicesTyped'
  BY <1>3, <1>4 DEF SlicesTyped
<1>6. SizingTyped'
  BY GrownTyped DEF Acked, SizingTyped
<1> QED
  BY <1>3, <1>4, <1>5, <1>6 DEF Acknowledged, SameSlice, Acked

\* sendReqack of a slice that is like slice i.
LEMMA AskedKeeps ==
  ASSUME SlicesTyped, SizingTyped, pending \in [Receivers -> RequestType],
         freed \in Nat, NEW i \in Slots, NEW s \in SliceType, Asked(i, s),
         s.state = slices[i].state, s.no = slices[i].no, s.base = slices[i].base,
         s.bytes = slices[i].bytes
  PROVE  /\ SlicesTyped' /\ SizingTyped' /\ (pending \in [Receivers -> RequestType])'
         /\ \/ Acknowledged(i) /\ mode.async
            \/ (\A j \in Slots : SameSlice(j)) /\ freed' = freed
<1>1. ASSUME NEW t \in SliceType, slices' = [slices EXCEPT ![i] = t],
             t.state = s.state, t.no = s.no, t.base = s.base, t.bytes = s.bytes
      PROVE  SlicesTyped' /\ \A j \in Slots : SameSlice(j)
  <2>1. /\ slices'[i] = t /\ \A j \in Slots \ {i} : slices'[j] = slices[j]
        /\ slices' \in [Slots -> SliceType]
    BY <1>1 DEF SlicesTyped
  <2> QED
    BY <1>1, <2>1 DEF SlicesTyped, SameSlice
<1>2. CASE mode.async /\ s.bytes # 0 /\ s.state # "ACKED"
  BY <1>2, AckedKeeps DEF Asked, SizingTyped
<1>3. CASE mode.async /\ s.bytes # 0 /\ s.state = "ACKED"
  <2>1. slices' = [slices EXCEPT ![i] = s] /\ UNCHANGED <<freed, sizing, pending>>
    BY <1>3 DEF Asked
  <2> QED
    BY <2>1, <1>1 DEF sizing, SizingTyped
<1>4. CASE mode.async /\ s.bytes = 0 /\ mode.fec
  <2>1. slices' = [slices EXCEPT ![i] = s] /\ UNCHANGED <<freed, sizing, pending>>
    BY <1>4 DEF Asked
  <2> QED
    BY <2>1, <1>1 DEF sizing, SizingTyped
<1>5. CASE ~(mode.async /\ s.bytes # 0) /\ ~(mode.async /\ mode.fec)
  <2> DEFINE t == [s EXCEPT !.lastGood = 0, !.answered = s.ready, !.needRxmit = FALSE,
                            !.rxmitMap = {}, !.xmitted = {}]
  <2>1. /\ sliceSize' = Reduced(s).sz /\ discovery' = Reduced(s).d
        /\ slices' = [slices EXCEPT ![i] = t]
        /\ pending' = [r \in Receivers |->
             IF r \in participants \ (s.ready \cup gone)
             THEN [no |-> s.no, id |-> s.rxmitId, blocks |-> Blocks(s)] ELSE pending[r]]
        /\ freed' = freed
    BY <1>5 DEF Asked
  <2>2. t \in SliceType /\ t.state = s.state /\ t.no = s.no /\ t.base = s.base
        /\ t.bytes = s.bytes
    BY DEF SliceType
  <2>3. s.bytes <= BlockSize * LargestSize
    BY DEF SlicesTyped
  <2>4. SizingTyped'
    BY <2>1, <2>3, ReducedTyped DEF SizingTyped
  <2>5. [no |-> s.no, id |-> s.rxmitId, blocks |-> Blocks(s)] \in RequestType
    BY <2>3, BlocksBound, BufSizeType DEF SliceType, RequestType
  <2>6. (pending \in [Receivers -> RequestType])'
    BY <2>1, <2>5
  <2>7. slices' = [slices EXCEPT ![i] = t]
    BY <2>1
  <2> HIDE DEF t
  <2>8. SlicesTyped' /\ \A j \in Slots : SameSlice(j)
    BY <2>2, <2>7, <1>1
  <2> QED
    BY <2>1, <2>4, <2>6, <2>8
<1> QED
  BY <1>2, <1>3, <1>4, <1>5

\* A step that changes slice i, and not what the queues and the memory depend on.
LEMMA SliceChanged ==
  ASSUME SlicesTyped, NEW i \in Slots, NEW t \in SliceType, slices' = [slices EXCEPT ![i] = t],
         t.no = slices[i].no, t.base = slices[i].base, t.bytes = slices[i].bytes
  PROVE  /\ SlicesTyped'
         /\ slices'[i] = t /\ \A j \in Slots \ {i} : slices'[j] = slices[j]
         /\ t.state = slices[i].state => \A j \in Slots : SameSlice(j)
<1>1. /\ slices'[i] = t /\ \A j \in Slots \ {i} : slices'[j] = slices[j]
      /\ slices' \in [Slots -> SliceType]
  BY DEF SlicesTyped
<1> QED
  BY <1>1 DEF SlicesTyped, SameSlice

LEMMA HandleKeeps ==
  ASSUME SlicesTyped, q \in [0..QueueSize - 1 -> MessageType], msgPos \in 0..QueueSize - 1,
         rexmit \in Slots \cup {NoSlice}, xmit \in Slots \cup {NoSlice}, HandleMessage
  PROVE  SlicesTyped' /\ \A j \in Slots : SameSlice(j)
<1> DEFINE m == q[msgPos]
           late(s) == m.id = 0 /\ s.rxmitId > 0
           mine == {i \in {xmit, rexmit} \ {NoSlice} : slices[i].no = m.no}
           Without(s) == [s EXCEPT !.ready = @ \ {m.from}, !.answered = @ \ {m.from}]
<1>1. m.from \in Receivers
  BY DEF MessageType
<1>2. CASE slices' = slices
  BY <1>2 DEF SlicesTyped, SameSlice
<1>3. CASE m.type = "disconnect"
  <2>1. slices' = [i \in Slots |-> IF i \in {xmit, rexmit} THEN Without(slices[i]) ELSE slices[i]]
    BY <1>3 DEF HandleMessage
  <2>2. ASSUME NEW s \in SliceType
        PROVE  /\ Without(s) \in SliceType /\ Without(s).state = s.state
               /\ Without(s).no = s.no /\ Without(s).base = s.base /\ Without(s).bytes = s.bytes
    BY DEF SliceType
  <2> HIDE DEF Without
  <2>3. \A i \in Slots : slices[i] \in SliceType
    BY DEF SlicesTyped
  <2> QED
    BY <2>1, <2>2, <2>3 DEF SlicesTyped, SameSlice
<1>4. CASE m.type # "disconnect" /\ slices' # slices
  <2> DEFINE i == CHOOSE i \in mine : TRUE
             s == slices[i]
  <2>1. mine # {} /\ m.from \in participants
    BY <1>4 DEF HandleMessage
  <2>2. i \in mine
    BY <2>1
  <2>3. i \in Slots
    BY <2>2
  <2>4. s \in SliceType
    BY <2>3 DEF SlicesTyped
  <2>5. \/ slices' = [slices EXCEPT ![i].ready = @ \cup {m.from}, ![i].answered = @ \cup {m.from}]
        \/ \E missing \in (SUBSET (0..Blocks(s) - 1)) \ {{}} :
             slices' = [slices EXCEPT ![i].rxmitMap = @ \cup missing, ![i].needRxmit = TRUE,
                                      ![i].answered = @ \cup {m.from}]
    BY <1>4, <2>1 DEF HandleMessage
  <2> HIDE DEF i, m, s
  <2>6. CASE slices' = [slices EXCEPT ![i].ready = @ \cup {m.from}, ![i].answered = @ \cup {m.from}]
    <3> DEFINE t == [s EXCEPT !.ready = @ \cup {m.from}, !.answered = @ \cup {m.from}]
    <3>1. slices' = [slices EXCEPT ![i] = t]
      BY <2>3, <2>6 DEF SlicesTyped, s
    <3>2. t \in SliceType /\ t.state = s.state /\ t.no = s.no /\ t.base = s.base /\ t.bytes = s.bytes
      BY <1>1, <2>4 DEF SliceType
    <3> HIDE DEF t
    <3> QED
      BY <2>3, <3>1, <3>2, SliceChanged DEF s
  <2>7. ASSUME NEW missing \in (SUBSET (0..Blocks(s) - 1)) \ {{}},
               slices' = [slices EXCEPT ![i].rxmitMap = @ \cup missing, ![i].needRxmit = TRUE,
                                        ![i].answered = @ \cup {m.from}]
        PROVE  SlicesTyped' /\ \A j \in Slots : SameSlice(j)
    <3> DEFINE t == [s EXCEPT !.rxmitMap = @ \cup missing, !.needRxmit = TRUE,
                              !.answered = @ \cup {m.from}]
    <3>1. slices' = [slices EXCEPT ![i] = t]
      BY <2>3, <2>7 DEF SlicesTyped, s
    <3>2. Blocks(s) \in Nat
      BY <2>3, <2>4, BlocksBound, BufSizeType DEF SlicesTyped, s
    <3>3. missing \subseteq Nat
      BY <3>2
    <3>4. t \in SliceType /\ t.state = s.state /\ t.no = s.no /\ t.base = s.base /\ t.bytes = s.bytes
      BY <1>1, <2>4, <3>3 DEF SliceType
    <3> HIDE DEF t
    <3> QED
      BY <2>3, <3>1, <3>4, SliceChanged DEF s
  <2> QED
    BY <2>5, <2>6, <2>7
<1> QED
  BY <1>2, <1>3, <1>4

LEMMA RetransmitKeeps ==
  ASSUME SlicesTyped, rexmit \in Slots \cup {NoSlice}, Retransmit
  PROVE  SlicesTyped' /\ \A j \in Slots : SameSlice(j)
<1> DEFINE s == slices[rexmit]
           skipped == {b \in 0..Blocks(s) - 1 : b \notin s.rxmitMap \/ b \in s.xmitted}
           t == [s EXCEPT !.needRxmit = FALSE, !.xmitted = @ \cup s.rxmitMap,
                          !.lastGood = Max(skipped \cup {@})]
<1>1. rexmit \in Slots
  BY DEF Retransmit
<1>2. s \in SliceType /\ s.bytes <= BlockSize * LargestSize
  BY <1>1 DEF SlicesTyped
<1>3. Blocks(s) \in Nat /\ s.lastGood \in Nat
  BY <1>2, BlocksBound, BufSizeType DEF SliceType
<1>4. Max(skipped \cup {s.lastGood}) \in Nat
  <2> DEFINE n == Blocks(s) + s.lastGood
  <2>1. n \in Nat /\ skipped \cup {s.lastGood} \in SUBSET (0..n)
    BY <1>3
  <2> HIDE DEF n, skipped
  <2>2. Max(skipped \cup {s.lastGood}) \in skipped \cup {s.lastGood}
    BY <2>1, MaxOfBounded
  <2> QED
    BY <2>1, <2>2
<1>5. slices' = [slices EXCEPT ![rexmit] = t]
  BY <1>1 DEF Retransmit, SlicesTyped
<1> HIDE DEF skipped
<1>6. t \in SliceType /\ t.state = s.state /\ t.no = s.no /\ t.base = s.base /\ t.bytes = s.bytes
  BY <1>2, <1>4 DEF SliceType
<1> HIDE DEF t
<1> QED
  BY <1>1, <1>5, <1>6, SliceChanged

\* A slice is sent, at last completely.
LEMMA SendKeeps ==
  ASSUME SlicesTyped, xmit \in Slots \cup {NoSlice}, SendSlice
  PROVE  /\ SlicesTyped' /\ xmit \in Slots /\ slices[xmit].state = "NEW"
         /\ slices'[xmit].state \in {"NEW", "XMITTED"}
         /\ slices'[xmit].no = slices[xmit].no /\ slices'[xmit].base = slices[xmit].base
         /\ slices'[xmit].bytes = slices[xmit].bytes
         /\ \A j \in Slots \ {xmit} : SameSlice(j)
<1> DEFINE s == slices[xmit]
           all == Blocks(s) + (IF mode.fec THEN 1 ELSE 0)
<1>1. xmit \in Slots /\ s.state = "NEW"
  BY DEF SendSlice, Sendable
<1>2. s \in SliceType /\ s.bytes <= BlockSize * LargestSize
  BY <1>1 DEF SlicesTyped
<1>3. all \in Nat /\ s.next \in Nat
  BY <1>2, BlocksBound, BufSizeType DEF SliceType
<1>4. PICK n \in Min({s.next + 1, all})..all :
        slices' = [slices EXCEPT ![xmit].next = n,
                                 ![xmit].state = IF n = all THEN "XMITTED" ELSE @]
  BY DEF SendSlice
<1> HIDE DEF all
<1>5. n \in Nat
  <2>1. s.next + 1 \in Nat
    BY <1>3
  <2>2. Min({s.next + 1, all}) \in Nat
    BY <1>3, <2>1, MinOfTwo
  <2> QED
    BY <1>3, <2>2
<1> DEFINE t == [s EXCEPT !.next = n, !.state = IF n = all THEN "XMITTED" ELSE @]
<1>6. slices' = [slices EXCEPT ![xmit] = t]
  BY <1>1, <1>4 DEF SlicesTyped
<1>7. t \in SliceType /\ t.no = s.no /\ t.base = s.base /\ t.bytes = s.bytes
      /\ t.state \in {"NEW", "XMITTED"}
  BY <1>1, <1>2, <1>5 DEF SliceType
<1> HIDE DEF t
<1>8. SlicesTyped' /\ slices'[xmit] = t /\ \A j \in Slots \ {xmit} : slices'[j] = slices[j]
  BY <1>1, <1>6, <1>7, SliceChanged
<1> QED
  BY <1>1, <1>7, <1>8 DEF SameSlice

-----------------------------------------------------------------------------
(* The return channel *)

ChannelTyped ==
  /\ q \in [0..QueueSize - 1 -> MessageType] /\ arrived \in Seq(MessageType)

BeingHandled == IF netPc = "giveBack" THEN 1 ELSE 0

\* A place of the ring, some steps after a place of the ring.
LEMMA RingPlace ==
  ASSUME NEW p \in 0..QueueSize - 1, NEW n \in 0..QueueSize
  PROVE  /\ (p + n) % QueueSize = IF p + n < QueueSize THEN p + n ELSE p + n - QueueSize
         /\ (p + n) % QueueSize \in 0..QueueSize - 1
<1>1. QueueSize \in Nat \ {0}
  BY Sizes
<1>2. PICK a \in 0..2 * QueueSize - 1 : a = p + n
  BY <1>1
<1>3. a % QueueSize = IF a < QueueSize THEN a ELSE a - QueueSize
  BY <1>1, ModStep
<1> QED
  BY <1>1, <1>2, <1>3

LEMMA RingPlacesDiffer ==
  ASSUME NEW p \in 0..QueueSize - 1, NEW m \in 0..QueueSize, NEW n \in 0..QueueSize,
         m < n, n - m < QueueSize
  PROVE  (p + m) % QueueSize # (p + n) % QueueSize
<1>1. (p + m) % QueueSize = IF p + m < QueueSize THEN p + m ELSE p + m - QueueSize
  BY RingPlace
<1>2. (p + n) % QueueSize = IF p + n < QueueSize THEN p + n ELSE p + n - QueueSize
  BY RingPlace
<1> QED
  BY <1>1, <1>2, Sizes

\* The place after the n-th, and the n-th after the next one.
LEMMA RingNext ==
  ASSUME NEW p \in 0..QueueSize - 1, NEW n \in 0..QueueSize - 1
  PROVE  /\ (((p + n) % QueueSize) + 1) % QueueSize = (p + (n + 1)) % QueueSize
         /\ (((p + 1) % QueueSize) + n) % QueueSize = (p + (n + 1)) % QueueSize
<1>1. QueueSize \in Nat \ {0} /\ n \in 0..QueueSize /\ n + 1 \in 0..QueueSize /\ 1 \in 0..QueueSize
  BY Sizes
<1>2. PICK a \in 0..QueueSize - 1 : a = (p + n) % QueueSize
                                    /\ a = IF p + n < QueueSize THEN p + n ELSE p + n - QueueSize
  BY <1>1, RingPlace
<1>3. PICK b \in 0..QueueSize - 1 : b = (p + 1) % QueueSize
                                    /\ b = IF p + 1 < QueueSize THEN p + 1 ELSE p + 1 - QueueSize
  BY <1>1, RingPlace
<1>4. PICK m \in 0..QueueSize : m = n + 1
  BY <1>1
<1>5. (p + m) % QueueSize = IF p + m < QueueSize THEN p + m ELSE p + m - QueueSize
  BY <1>4, RingPlace
<1>6. (a + 1) % QueueSize = IF a + 1 < QueueSize THEN a + 1 ELSE a + 1 - QueueSize
  BY <1>1, RingPlace
<1>7. (b + n) % QueueSize = IF b + n < QueueSize THEN b + n ELSE b + n - QueueSize
  BY <1>1, RingPlace
<1>8. (a + 1) % QueueSize = (p + m) % QueueSize
  BY <1>1, <1>2, <1>4, <1>5, <1>6
<1>9. (b + n) % QueueSize = (p + m) % QueueSize
  BY <1>1, <1>3, <1>4, <1>5, <1>7
<1> QED
  BY <1>2, <1>3, <1>4, <1>8, <1>9

LEMMA MessagesFacts ==
  ASSUME ChannelInv, ChannelTyped
  PROVE  /\ freeMsgs + incoming = QueueSize /\ BeingHandled \in {0, 1}
         /\ Len(arrived) = incoming - BeingHandled /\ Len(arrived) \in Nat
         /\ DOMAIN arrived = 1..Len(arrived)
         /\ \A k \in DOMAIN arrived : q[(msgPos + BeingHandled + k - 1) % QueueSize] = arrived[k]
  BY DEF ChannelInv, ChannelTyped, MessagesIntact, BeingHandled

LEMMA ChannelStays ==
  ASSUME ChannelInv, ChannelTyped, UNCHANGED <<q, rcPos, freeMsgs, incoming, msgPos, arrived>>,
         netPc' = "giveBack" <=> netPc = "giveBack", rcPc' = rcPc \/ rcPc' = "cancelled"
  PROVE  ChannelInv' /\ ChannelTyped'
  BY DEF ChannelInv, ChannelTyped, MessagesIntact

LEMMA RcReceivesChannel ==
  ASSUME ChannelInv, ChannelTyped, pending \in [Receivers -> RequestType], RcReceives
  PROVE  ChannelInv' /\ ChannelTyped' /\ (pending \in [Receivers -> RequestType])'
<1>1. PICK r \in Receivers, m \in MessageType :
        q' = [q EXCEPT ![rcPos] = m] /\ pending' = [pending EXCEPT ![r] = NoRequest]
  <2>1. PICK r \in Receivers, type \in {"ok", "retransmit", "disconnect"} :
          /\ q' = [q EXCEPT ![rcPos] =
                IF type = "disconnect"
                THEN [from |-> r, type |-> type, no |-> -1, id |-> 0]
                ELSE [from |-> r, type |-> type, no |-> pending[r].no, id |-> pending[r].id]]
          /\ pending' = [pending EXCEPT ![r] = NoRequest]
    BY DEF RcReceives
  <2>2. [from |-> r, type |-> type, no |-> -1, id |-> 0] \in MessageType
    BY DEF MessageType
  <2>3. [from |-> r, type |-> type, no |-> pending[r].no, id |-> pending[r].id] \in MessageType
    BY DEF MessageType, RequestType
  <2> QED
    BY <2>1, <2>2, <2>3
<1>2. /\ freeMsgs > 0 /\ rcPc' = "lookup"
      /\ UNCHANGED <<rcPos, freeMsgs, incoming, msgPos, arrived, netPc>>
  BY DEF RcReceives, RoomForMessage
<1>3. \A k \in DOMAIN arrived : q'[(msgPos + BeingHandled + k - 1) % QueueSize] = arrived[k]
  <2> SUFFICES ASSUME NEW k \in DOMAIN arrived
               PROVE  q'[(msgPos + BeingHandled + k - 1) % QueueSize] = arrived[k]
    OBVIOUS
  <2>1. k \in 1..Len(arrived) /\ Len(arrived) = incoming - BeingHandled /\ BeingHandled \in {0, 1}
    BY MessagesFacts
  <2>2. incoming \in 0..QueueSize - 1
    BY <1>2, MessagesFacts, Sizes DEF ChannelInv
  <2>3. PICK n \in 0..QueueSize - 1 : n = BeingHandled + k - 1 /\ n < incoming
    BY <2>1, <2>2, Sizes
  <2>4. msgPos + BeingHandled + k - 1 = msgPos + n
    BY <2>1, <2>3 DEF ChannelInv
  <2>5. (msgPos + n) % QueueSize # rcPos /\ (msgPos + n) % QueueSize \in 0..QueueSize - 1
    <3>1. n \in 0..QueueSize /\ incoming \in 0..QueueSize /\ n < incoming
          /\ incoming - n < QueueSize
      BY <2>2, <2>3, Sizes
    <3> QED
      BY <3>1, RingPlace, RingPlacesDiffer DEF ChannelInv
  <2>6. q[(msgPos + n) % QueueSize] = arrived[k]
    BY <2>4, MessagesFacts
  <2> QED
    BY <1>1, <2>4, <2>5, <2>6 DEF ChannelTyped, ChannelInv
<1> QED
  BY <1>1, <1>2, <1>3, FreeSliceTyped
     DEF ChannelInv, ChannelTyped, MessagesIntact, BeingHandled

LEMMA RcLooksUpChannel ==
  ASSUME ChannelInv, ChannelTyped, RcLooksUp
  PROVE  ChannelInv' /\ ChannelTyped'
<1>1. CASE q[rcPos].from \notin participants
  BY <1>1 DEF RcLooksUp, ChannelInv, ChannelTyped, MessagesIntact
<1>2. CASE q[rcPos].from \in participants
  <2>1. /\ rcPc = "lookup" /\ rcPc' = "wait"
        /\ rcPos' = (rcPos + 1) % QueueSize /\ freeMsgs' = freeMsgs - 1
        /\ incoming' = incoming + 1 /\ arrived' = Append(arrived, q[rcPos])
        /\ UNCHANGED <<q, msgPos, netPc>>
    BY <1>2 DEF RcLooksUp
  <2>2. incoming \in 0..QueueSize - 1 /\ freeMsgs \in 1..QueueSize
    BY <2>1, Sizes DEF ChannelInv, MessagesIntact
  <2>3. rcPos' = (msgPos + (incoming + 1)) % QueueSize /\ rcPos' \in 0..QueueSize - 1
    <3>1. 1 \in 0..QueueSize
      BY Sizes
    <3>2. (rcPos + 1) % QueueSize \in 0..QueueSize - 1
      BY <3>1, RingPlace DEF ChannelInv
    <3>3. (rcPos + 1) % QueueSize = (msgPos + (incoming + 1)) % QueueSize
      BY <2>2, RingNext DEF ChannelInv
    <3> QED
      BY <2>1, <3>2, <3>3
  <2>4. q[rcPos] \in MessageType
    BY DEF ChannelInv, ChannelTyped
  <2>5. /\ arrived' \in Seq(MessageType) /\ Len(arrived') = Len(arrived) + 1
        /\ arrived'[Len(arrived) + 1] = q[rcPos]
        /\ \A k \in 1..Len(arrived) : arrived'[k] = arrived[k]
    BY <2>1, <2>4 DEF ChannelTyped
  <2>6. Len(arrived) = incoming - BeingHandled /\ BeingHandled \in {0, 1} /\ Len(arrived) \in Nat
        /\ BeingHandled' = BeingHandled
    BY <2>1 DEF ChannelInv, ChannelTyped, MessagesIntact, BeingHandled
  <2>7. \A k \in DOMAIN arrived' :
          q'[(msgPos' + BeingHandled' + k - 1) % QueueSize] = arrived'[k]
    <3> SUFFICES ASSUME NEW k \in DOMAIN arrived'
                 PROVE  q[(msgPos + BeingHandled + k - 1) % QueueSize] = arrived'[k]
      BY <2>1, <2>6
    <3>1. k \in 1..Len(arrived) + 1
      BY <2>5
    <3>2. CASE k \in 1..Len(arrived)
      BY <2>5, <3>2, MessagesFacts
    <3>3. CASE k = Len(arrived) + 1
      <4>1. msgPos + BeingHandled + k - 1 = msgPos + incoming
        BY <2>6, <3>3 DEF ChannelInv
      <4> QED
        BY <2>5, <3>3, <4>1 DEF ChannelInv
    <3> QED
      BY <3>1, <3>2, <3>3, <2>6
  <2>8. freeMsgs' + incoming' = QueueSize /\ Len(arrived') = incoming' - BeingHandled'
    BY <2>1, <2>2, <2>5, <2>6 DEF ChannelInv, MessagesIntact
  <2>9. MessagesIntact'
    BY <2>7, <2>8 DEF MessagesIntact, BeingHandled
  <2>10. incoming' \in 0..QueueSize /\ freeMsgs' \in 0..QueueSize
    BY <2>1, <2>2, Sizes
  <2> QED
    BY <2>1, <2>2, <2>3, <2>5, <2>9, <2>10 DEF ChannelInv, ChannelTyped
<1> QED
  BY <1>1, <1>2

LEMMA HandleMessageChannel ==
  ASSUME ChannelInv, ChannelTyped, HandleMessage
  PROVE  ChannelInv' /\ ChannelTyped'
<1>1. /\ netPc = "messages" /\ incoming > 0 /\ netPc' = "giveBack" /\ arrived' = Tail(arrived)
      /\ UNCHANGED <<rcPc, q, rcPos, freeMsgs, incoming, msgPos>>
  BY DEF HandleMessage
<1>2. Len(arrived) = incoming /\ incoming \in 1..QueueSize
  BY <1>1 DEF ChannelInv, MessagesIntact
<1>3. /\ arrived' \in Seq(MessageType) /\ Len(arrived') = incoming - 1
      /\ \A k \in 1..incoming - 1 : arrived'[k] = arrived[k + 1]
  BY <1>1, <1>2 DEF ChannelTyped
<1>4. \A k \in DOMAIN arrived' : q[(msgPos + 1 + k - 1) % QueueSize] = arrived'[k]
  <2> SUFFICES ASSUME NEW k \in 1..incoming - 1
               PROVE  q[(msgPos + 1 + k - 1) % QueueSize] = arrived[k + 1]
    BY <1>3
  <2>1. k + 1 \in DOMAIN arrived /\ msgPos + 1 + k - 1 = msgPos + 0 + (k + 1) - 1
    BY <1>2 DEF ChannelInv, ChannelTyped
  <2> QED
    BY <1>1, <2>1 DEF ChannelInv, MessagesIntact
<1> QED
  BY <1>1, <1>2, <1>3, <1>4 DEF ChannelInv, ChannelTyped, MessagesIntact

LEMMA GiveBackChannel ==
  ASSUME ChannelInv, ChannelTyped, GiveBack
  PROVE  ChannelInv' /\ ChannelTyped'
<1>1. /\ netPc = "giveBack" /\ netPc' # "giveBack"
      /\ q' = [q EXCEPT ![msgPos] = NoMsg] /\ incoming' = incoming - 1
      /\ msgPos' = (msgPos + 1) % QueueSize /\ freeMsgs' = freeMsgs + 1
      /\ UNCHANGED <<rcPc, rcPos, arrived>>
  BY DEF GiveBack, Restart
<1>2. incoming \in 1..QueueSize /\ Len(arrived) = incoming - 1 /\ freeMsgs \in 0..QueueSize - 1
  BY <1>1, Sizes DEF ChannelInv, MessagesIntact
<1>3. q' \in [0..QueueSize - 1 -> MessageType]
  BY <1>1, FreeSliceTyped DEF ChannelTyped
<1>4. msgPos' \in 0..QueueSize - 1 /\ rcPos = (msgPos' + incoming') % QueueSize
  <2>1. PICK n \in 0..QueueSize - 1 : n = incoming - 1 /\ n + 1 = incoming
    BY <1>2, Sizes
  <2>2. (((msgPos + 1) % QueueSize) + n) % QueueSize = (msgPos + incoming) % QueueSize
    BY <2>1, RingNext DEF ChannelInv
  <2>3. 1 \in 0..QueueSize
    BY Sizes
  <2>4. (msgPos + 1) % QueueSize \in 0..QueueSize - 1
    BY <2>3, RingPlace DEF ChannelInv
  <2> QED
    BY <1>1, <2>1, <2>2, <2>4 DEF ChannelInv
<1>5. \A k \in DOMAIN arrived : q'[(msgPos' + 0 + k - 1) % QueueSize] = arrived[k]
  <2> SUFFICES ASSUME NEW k \in 1..incoming - 1
               PROVE  q'[(msgPos' + 0 + k - 1) % QueueSize] = arrived[k]
    BY <1>2 DEF ChannelTyped
  <2>1. PICK n \in 0..QueueSize - 1 : n = k - 1 /\ n + 1 = k
    BY <1>2, Sizes
  <2>2. (((msgPos + 1) % QueueSize) + n) % QueueSize = (msgPos + k) % QueueSize
    BY <2>1, RingNext DEF ChannelInv
  <2>3. PICK z \in 0..QueueSize : z = 0
    BY Sizes
  <2>4. (msgPos + k) % QueueSize # msgPos /\ (msgPos + k) % QueueSize \in 0..QueueSize - 1
    <3>1. k \in 0..QueueSize /\ z < k /\ k - z < QueueSize
      BY <1>2, <2>1, <2>3, Sizes
    <3>2. (msgPos + z) % QueueSize = msgPos
      <4>1. msgPos + z = msgPos /\ msgPos < QueueSize
        BY <2>3, Sizes DEF ChannelInv
      <4> QED
        BY <4>1, RingPlace DEF ChannelInv
    <3> QED
      BY <3>1, <3>2, RingPlace, RingPlacesDiffer DEF ChannelInv
  <2>5. q[(msgPos + k) % QueueSize] = arrived[k]
    <3>1. k \in DOMAIN arrived /\ msgPos + 1 + k - 1 = msgPos + k
      BY <1>2 DEF ChannelTyped, ChannelInv
    <3> QED
      BY <1>1, <3>1 DEF ChannelInv, MessagesIntact
  <2>6. msgPos' + 0 + k - 1 = msgPos' + n
    BY <1>4, <2>1
  <2> QED
    BY <1>1, <2>2, <2>4, <2>5, <2>6 DEF ChannelTyped
<1>6. freeMsgs' + incoming' = QueueSize
  BY <1>1, <1>2, Sizes DEF ChannelInv, MessagesIntact
<1>7. MessagesIntact'
  <2>1. (IF netPc' = "giveBack" THEN 1 ELSE 0) = 0 /\ arrived' = arrived
    BY <1>1
  <2>2. Len(arrived') = incoming' - 0
    BY <1>1, <1>2
  <2> QED
    BY <1>5, <1>6, <2>1, <2>2 DEF MessagesIntact
<1>8. freeMsgs' \in 0..QueueSize /\ incoming' \in 0..QueueSize
  BY <1>1, <1>2, Sizes
<1> QED
  BY <1>1, <1>3, <1>4, <1>7, <1>8 DEF ChannelInv, ChannelTyped

-----------------------------------------------------------------------------
(* The ring of slots *)

RingTyped ==
  /\ freePos \in Slots /\ makePos \in Slots /\ encodedPos \in Slots
  /\ xmit \in Slots \cup {NoSlice} /\ rexmit \in Slots \cup {NoSlice}
  /\ encoded \in 0..NrSlices /\ freeSlices \in 0..NrSlices
  /\ \A i \in Slots : slices[i].state \in {"FREE", "NEW", "XMITTED", "ACKED", "PRE_FREE"}

LEMMA TakeSlotRing ==
  ASSUME RingTyped, SlicesTyped, RingInv, StateInv, ControlInv, TakeSlot
  PROVE  RingInv' /\ StateInv' /\ ControlInv'
<1> USE DEF NrSlices, Slots, NoSlice
<1>1. /\ makePc = "slot" /\ freeSlices > 0 /\ freeSlices' = freeSlices - 1
      /\ makePos' = (makePos + 1) % 2 /\ makePc' = "amount"
      /\ UNCHANGED <<mode, freePos, encoded, encodedPos, netPc, xmit, rexmit, atEnd>>
  BY DEF TakeSlot, fecQueue
<1>2. slices[makePos].state = "FREE"
  BY <1>1 DEF StateInv, RingTyped
<1>3. \A i \in Slots : slices'[i].state = slices[i].state
  BY <1>2 DEF TakeSlot, SlicesTyped, FreeSlice
<1>4. makePos' = 1 - makePos /\ LastMade' = makePos
  BY <1>1 DEF RingTyped, LastMade
<1>5. ToProduce' = ToProduce /\ ToResend' = ToResend /\ ToSend' = ToSend /\ ToMake = 0 /\ ToMake' = 1
  BY <1>1, <1>3 DEF ToProduce, ToResend, ToSend, ToMake, Making, RingTyped
<1>6. RingInv'
  BY <1>1, <1>4, <1>5 DEF RingInv, RingTyped, ToProduce, ToResend, ToSend
<1>7. StateInv'
  BY <1>1, <1>2, <1>3, <1>4 DEF StateInv, RingTyped
<1>8. ControlInv'
  BY <1>1, <1>3 DEF ControlInv, RingTyped
<1> QED
  BY <1>6, <1>7, <1>8

\* Steps of the other threads, which do not touch the ring.
LEMMA RingUntouched ==
  ASSUME RingInv, StateInv, ControlInv,
         UNCHANGED <<mode, slices, slotQueue, makePc, makePos, encoded, encodedPos, netPc, xmit,
                     rexmit, atEnd>>
  PROVE  RingInv' /\ StateInv' /\ ControlInv'
  BY DEF RingInv, StateInv, ControlInv, slotQueue, ToProduce, ToResend, ToSend, ToMake, Making,
         LastMade

LEMMA LookAtAmountRing ==
  ASSUME RingInv, StateInv, ControlInv, LookAtAmount
  PROVE  RingInv' /\ StateInv' /\ ControlInv'
<1>1. /\ makePc \in {"amount", "end"} /\ makePc' = "end"
      /\ UNCHANGED <<mode, slices, freeSlices, freePos, makePos, encoded, encodedPos, netPc, xmit,
                     rexmit, atEnd>>
  BY DEF LookAtAmount, slotQueue, fecQueue
<1>2. ToMake' = ToMake
  BY <1>1 DEF ToMake, Making
<1>3. RingInv'
  BY <1>1, <1>2 DEF RingInv, ToProduce, ToResend, ToSend
<1>4. StateInv'
  BY <1>1 DEF StateInv, LastMade
<1>5. ControlInv'
  BY <1>1 DEF ControlInv
<1> QED
  BY <1>3, <1>4, <1>5

LEMMA LookAtEndRing ==
  ASSUME RingTyped, SlicesTyped, RingInv, StateInv, ControlInv, LookAtEnd
  PROVE  /\ RingInv' /\ StateInv' /\ ControlInv'
         /\ LastMade \in Slots /\ slices[LastMade].state = "FREE"
         /\ ~mode.fec => netPc = "make" /\ xmit = NoSlice /\ rexmit # LastMade
<1> USE DEF NrSlices, Slots, NoSlice
<1>1. /\ makePc = "end"
      /\ UNCHANGED <<mode, freeSlices, freePos, makePos, encoded, encodedPos, rexmit>>
      /\ mode.fec => makePc' = "encode" /\ UNCHANGED <<netPc, xmit, atEnd>>
      /\ ~mode.fec => makePc' = "idle" /\ netPc' = "send" /\ xmit' = LastMade
  BY DEF LookAtEnd, slotQueue, fecQueue
<1>2. LastMade = 1 - makePos /\ LastMade' = LastMade /\ LastMade \in Slots
  BY <1>1 DEF LastMade, RingTyped
<1>3. slices[LastMade].state = "FREE"
  BY <1>1 DEF StateInv
<1>4. slices'[LastMade].state = "NEW" /\ slices'[1 - LastMade] = slices[1 - LastMade]
  BY <1>2 DEF LookAtEnd, SlicesTyped, FreeSlice
<1>5. ToProduce + ToResend + ToSend + encoded + freeSlices = 1
  BY <1>1 DEF RingInv, ToMake, Making, RingTyped, ToProduce, ToResend, ToSend
<1>6. CASE mode.fec
  <2>1. ToProduce' = ToProduce /\ ToResend' = ToResend /\ ToSend' = ToSend /\ ToMake' = ToMake
    <3>1. netPc = "give" => (slices'[freePos].state = "PRE_FREE" <=> slices[freePos].state = "PRE_FREE")
      BY <1>2, <1>3, <1>4 DEF RingTyped
    <3> QED
      BY <1>1, <1>6, <3>1 DEF ToProduce, ToResend, ToSend, ToMake, Making
  <2>2. RingInv'
    BY <1>1, <1>6, <2>1 DEF RingInv
  <2>3. netPc = "produce" => freePos # LastMade
    BY <1>1, <1>2, <1>5 DEF RingInv, RingTyped, ToProduce, ToResend, ToSend, ToMake, Making
  <2>4. /\ rexmit # NoSlice => rexmit # LastMade
        /\ xmit # NoSlice => xmit # LastMade
        /\ encoded > 0 => encodedPos # LastMade
        /\ freeSlices > 0 => makePos # LastMade
    BY <1>2, <1>3, <1>6, <1>1 DEF StateInv, RingTyped
  <2>5. StateInv'
    BY <1>1, <1>2, <1>3, <1>4, <1>5, <1>6, <2>3, <2>4
       DEF StateInv, RingTyped, ToProduce, ToResend, ToSend
  <2>6. ControlInv'
    BY <1>1, <1>2, <1>4, <1>6, <2>4 DEF ControlInv, RingTyped
  <2> QED
    BY <1>2, <1>3, <1>6, <2>2, <2>5, <2>6
<1>7. CASE ~mode.fec
  <2>1. netPc = "make" /\ xmit = NoSlice /\ encoded = 0
    BY <1>1, <1>7 DEF ControlInv
  <2>2. ToProduce = 0 /\ ToProduce' = 0 /\ ToSend = 0 /\ ToSend' = 1 /\ ToMake = 1 /\ ToMake' = 0
        /\ ToResend' = ToResend /\ ToResend + freeSlices = 1
    BY <1>1, <1>2, <1>5, <1>7, <2>1 DEF ToProduce, ToResend, ToSend, ToMake, Making
  <2>3. rexmit # NoSlice => rexmit # LastMade
    BY <1>3 DEF StateInv
  <2>4. RingInv'
    BY <1>1, <1>2, <1>7, <2>1, <2>2 DEF RingInv, RingTyped, ToResend
  <2>5. StateInv'
    BY <1>1, <1>2, <1>3, <1>4, <1>5, <1>7, <2>1, <2>2, <2>3
       DEF StateInv, RingTyped, ToProduce, ToResend, ToSend
  <2>6. ControlInv'
    BY <1>1, <1>2, <1>4, <1>7, <2>1 DEF ControlInv
  <2> QED
    BY <1>2, <1>3, <1>7, <2>1, <2>3, <2>4, <2>5, <2>6
<1> QED
  BY <1>6, <1>7

LEMMA EncodingRing ==
  ASSUME RingTyped, RingInv, StateInv, ControlInv, FecEncode \/ FecProduce
  PROVE  RingInv' /\ StateInv' /\ ControlInv'
<1> USE DEF NrSlices, Slots, NoSlice
<1>1. /\ makePc \in {"encode", "encoded"} /\ mode.fec
      /\ UNCHANGED <<mode, slices, freeSlices, freePos, makePos, encodedPos, netPc, xmit, rexmit,
                     atEnd>>
  BY DEF FecEncode, FecProduce, slotQueue, ControlInv
<1>2. LastMade = 1 - makePos /\ LastMade' = LastMade /\ slices[LastMade].state = "NEW"
  BY <1>1 DEF LastMade, RingTyped, StateInv
<1>3. CASE FecEncode
  <2>1. makePc' = "encoded" /\ encoded' = encoded
    BY <1>3 DEF FecEncode
  <2>2. ToProduce' = ToProduce /\ ToResend' = ToResend /\ ToSend' = ToSend /\ ToMake' = ToMake
    BY <1>1, <2>1 DEF ToProduce, ToResend, ToSend, ToMake, Making
  <2> QED
    BY <1>1, <1>2, <2>1, <2>2 DEF RingInv, StateInv, ControlInv
<1>4. CASE FecProduce
  <2>1. makePc' = "slot" /\ encoded' = encoded + 1
    BY <1>4 DEF FecProduce
  <2>2. ToProduce' = ToProduce /\ ToResend' = ToResend /\ ToSend' = ToSend /\ ToMake = 1 /\ ToMake' = 0
    BY <1>1, <2>1 DEF ToProduce, ToResend, ToSend, ToMake, Making
  <2>3. RingInv'
    <3>1. /\ ToProduce \in 0..1 /\ ToResend \in 0..1 /\ ToSend \in 0..1
      BY DEF ToProduce, ToResend, ToSend
    <3> QED
      BY <1>1, <2>1, <2>2, <3>1 DEF RingInv, RingTyped
  <2>4. encoded = 0 => encodedPos = LastMade
    BY <1>1, <1>2, <2>2 DEF RingInv, RingTyped, ToProduce, ToResend, ToSend
  <2>5. encoded' = 2 => encoded = 1 /\ encodedPos = 1 - LastMade
    BY <1>1, <1>2, <2>1, <2>2 DEF RingInv, RingTyped, ToProduce, ToResend, ToSend
  <2>6. StateInv'
    BY <1>1, <1>2, <2>1, <2>4, <2>5 DEF StateInv, RingTyped
  <2>7. ControlInv'
    BY <1>1, <2>1 DEF ControlInv
  <2> QED
    BY <2>3, <2>6, <2>7
<1> QED
  BY <1>3, <1>4

\* Steps of the network thread that leave the slots where they are; a slice may
\* be acknowledged or its last block sent.
LEMMA RingStays ==
  ASSUME RingTyped, RingInv, StateInv,
         UNCHANGED <<mode, slotQueue, makePc, makePos, encoded, encodedPos, xmit, rexmit>>,
         netPc \notin {"give", "produce"}, netPc' \notin {"give", "produce"},
         \A i \in Slots : \/ slices'[i].state = slices[i].state
                          \/ i = rexmit /\ slices'[i].state = "ACKED"
                          \/ i = xmit /\ slices[i].state = "NEW" /\ slices'[i].state = "XMITTED"
  PROVE  RingInv' /\ StateInv'
<1> USE DEF NrSlices, Slots, NoSlice
<1>1. UNCHANGED <<freeSlices, freePos>> /\ LastMade' = LastMade /\ LastMade \in Slots
  BY DEF slotQueue, LastMade, RingTyped
<1>2. ToProduce = 0 /\ ToProduce' = 0 /\ ToResend' = ToResend /\ ToSend' = ToSend /\ ToMake' = ToMake
      /\ ToResend \in 0..1 /\ ToSend \in 0..1 /\ ToMake \in 0..1
  BY DEF ToProduce, ToResend, ToSend, ToMake, Making
<1>3. RingInv'
  BY <1>1, <1>2 DEF RingInv
<1>4. /\ xmit # NoSlice /\ encoded > 0 /\ mode.fec => encodedPos # xmit
      /\ xmit # NoSlice => encoded # 2
      /\ xmit # NoSlice /\ Making => LastMade # xmit
      /\ xmit # NoSlice /\ rexmit # NoSlice => xmit # rexmit
  BY <1>2 DEF RingInv, RingTyped, ToResend, ToSend, ToMake, LastMade
<1>5. StateInv'
  BY <1>1, <1>4 DEF StateInv, RingTyped, Making
<1> QED
  BY <1>3, <1>5

LEMMA CleanupRing ==
  ASSUME RingTyped, SlicesTyped, SizingTyped, RingInv, StateInv, ControlInv, Cleanup
  PROVE  /\ RingInv' /\ StateInv' /\ ControlInv' /\ rexmit \in Slots
         /\ \/ slices[rexmit].state = "ACKED" /\ UNCHANGED <<slices, freed, sizing>>
            \/ slices[rexmit].state = "XMITTED" /\ Acknowledged(rexmit)
               /\ SlicesTyped' /\ SizingTyped'
<1>1. /\ netPc = "top" /\ netPc' = "free" /\ rexmit \in Slots
      /\ UNCHANGED <<mode, slotQueue, makePc, makePos, encoded, encodedPos, xmit, rexmit, atEnd>>
  BY DEF Cleanup, CleanupDue, RingTyped, maker, fecQueue
<1>2. slices[rexmit].state \in {"XMITTED", "ACKED"}
  BY <1>1 DEF StateInv, NoSlice, Slots
<1>3. \/ slices[rexmit].state = "ACKED" /\ UNCHANGED <<slices, freed, sizing>>
      \/ slices[rexmit].state = "XMITTED" /\ Acknowledged(rexmit) /\ SlicesTyped' /\ SizingTyped'
  BY <1>1, <1>2, AckedKeeps DEF Cleanup
<1>4. slices'[rexmit].state = "ACKED" /\ \A i \in Slots \ {rexmit} : slices'[i].state = slices[i].state
  BY <1>3 DEF Acknowledged, SameSlice
<1>5. RingInv' /\ StateInv'
  BY <1>1, <1>4, RingStays
<1>6. ControlInv'
  BY <1>1, <1>4 DEF ControlInv, NoSlice, Slots
<1> QED
  BY <1>1, <1>3, <1>5, <1>6

LEMMA PreFreeRing ==
  ASSUME RingTyped, SlicesTyped, RingInv, StateInv, ControlInv, PreFree
  PROVE  /\ RingInv' /\ StateInv' /\ ControlInv' /\ rexmit \in Slots
         /\ slices[rexmit].state = "ACKED" /\ slices'[rexmit].state = "PRE_FREE"
<1> USE DEF NrSlices, Slots, NoSlice
<1>1. /\ netPc = "free" /\ netPc' = "give" /\ rexmit' = NoSlice
      /\ UNCHANGED <<mode, freeSlices, freePos, makePc, makePos, encoded, encodedPos, xmit, atEnd>>
  BY DEF PreFree, maker, fecQueue, slotQueue
<1>2. rexmit \in Slots /\ slices[rexmit].state = "ACKED"
  BY <1>1 DEF ControlInv, RingTyped
<1>3. slices'[rexmit].state = "PRE_FREE" /\ slices'[1 - rexmit] = slices[1 - rexmit]
  BY <1>2 DEF PreFree, SlicesTyped, FreeSlice
<1>4. rexmit = freePos /\ ToProduce = 0
  BY <1>1, <1>2 DEF RingInv, RingTyped, ToProduce
<1>5. ToProduce' = 1 /\ ToResend = 1 /\ ToResend' = 0 /\ ToSend' = ToSend /\ ToMake' = ToMake
      /\ ToSend \in 0..1 /\ ToMake \in 0..1
  BY <1>1, <1>2, <1>3, <1>4 DEF ToProduce, ToResend, ToSend, ToMake, Making
<1>6. RingInv'
  BY <1>1, <1>4, <1>5 DEF RingInv, RingTyped
<1>7. LastMade' = LastMade /\ LastMade \in Slots
  BY <1>1 DEF LastMade, RingTyped
<1>8. StateInv'
  BY <1>1, <1>2, <1>3, <1>7 DEF StateInv, RingTyped
<1>9. ControlInv'
  BY <1>1 DEF ControlInv
<1> QED
  BY <1>2, <1>3, <1>6, <1>8, <1>9

LEMMA GiveSlotsRing ==
  ASSUME RingTyped, SlicesTyped, RingInv, StateInv, ControlInv, GiveSlots
  PROVE  /\ RingInv' /\ StateInv' /\ ControlInv' /\ SlicesTyped'
         /\ \A i \in Slots : \/ SameSlice(i)
                             \/ slices[i].state = "PRE_FREE" /\ slices'[i].state = "FREE"
<1> USE DEF NrSlices, Slots, NoSlice
<1>1. /\ netPc = "give" /\ freePos \in Slots
      /\ UNCHANGED <<mode, rexmit, freeSlices, freePos, makePc, makePos, encoded, encodedPos, xmit, atEnd>>
  BY DEF GiveSlots, maker, fecQueue, slotQueue, RingTyped
<1>2. LastMade' = LastMade /\ LastMade \in Slots
  BY <1>1 DEF LastMade, RingTyped
<1>3. CASE slices[freePos].state = "PRE_FREE"
  <2>1. slices' = [slices EXCEPT ![freePos] = [slices[freePos] EXCEPT !.state = "FREE"]]
        /\ netPc' = "produce"
    BY <1>1, <1>3 DEF GiveSlots
  <2>2. [slices[freePos] EXCEPT !.state = "FREE"] \in SliceType
    BY <1>1 DEF SlicesTyped, SliceType
  <2>3. slices'[freePos].state = "FREE" /\ slices'[1 - freePos] = slices[1 - freePos]
        /\ slices'[freePos].bytes = slices[freePos].bytes /\ slices' \in [Slots -> SliceType]
    BY <1>1, <2>1, <2>2 DEF SlicesTyped, SliceType
  <2>4. SlicesTyped'
    BY <1>1, <2>3 DEF SlicesTyped
  <2>5. ToProduce = 1 /\ ToProduce' = 1 /\ ToResend' = ToResend /\ ToSend' = ToSend /\ ToMake' = ToMake
    BY <1>1, <1>3, <2>1 DEF ToProduce, ToResend, ToSend, ToMake, Making
  <2>6. RingInv'
    BY <1>1, <2>5 DEF RingInv
  <2>7. StateInv'
    BY <1>1, <1>2, <1>3, <2>1, <2>3 DEF StateInv, RingTyped
  <2>8. ControlInv'
    BY <1>1, <2>1 DEF ControlInv
  <2> QED
    BY <1>1, <1>3, <2>3, <2>4, <2>6, <2>7, <2>8 DEF SameSlice
<1>4. CASE slices[freePos].state # "PRE_FREE"
  <2>1. slices' = slices /\ netPc' = "shift"
    BY <1>1, <1>4 DEF GiveSlots
  <2>2. ToProduce = 0 /\ ToProduce' = 0 /\ ToResend' = ToResend /\ ToSend' = ToSend /\ ToMake' = ToMake
    BY <1>1, <1>4, <2>1 DEF ToProduce, ToResend, ToSend, ToMake, Making
  <2>3. RingInv'
    BY <1>1, <2>2 DEF RingInv
  <2>4. StateInv' /\ SlicesTyped'
    BY <1>1, <1>2, <2>1 DEF StateInv, SlicesTyped
  <2>5. ControlInv'
    BY <1>1, <2>1 DEF ControlInv
  <2> QED
    BY <2>1, <2>3, <2>4, <2>5 DEF SameSlice
<1> QED
  BY <1>3, <1>4

LEMMA ProduceSlotRing ==
  ASSUME RingTyped, RingInv, StateInv, ControlInv, ProduceSlot
  PROVE  RingInv' /\ StateInv' /\ ControlInv'
<1> USE DEF NrSlices, Slots, NoSlice
<1>1. /\ netPc = "produce" /\ netPc' = "give" /\ freeSlices' = freeSlices + 1
      /\ freePos' = (freePos + 1) % 2
      /\ UNCHANGED <<mode, slices, rexmit, makePc, makePos, encoded, encodedPos, xmit, atEnd>>
  BY DEF ProduceSlot, maker, fecQueue, slotQueue
<1>2. LastMade' = LastMade /\ LastMade \in Slots /\ freePos' = 1 - freePos
  BY <1>1 DEF LastMade, RingTyped
<1>3. ToProduce = 1 /\ ToSend' = ToSend /\ ToMake' = ToMake /\ ToResend = 0 /\ ToResend' = 0
      /\ ToSend \in 0..1 /\ ToMake \in 0..1
  BY <1>1 DEF ToProduce, ToResend, ToSend, ToMake, Making, ControlInv
<1>4. slices[freePos].state = "FREE" /\ slices[freePos'].state # "PRE_FREE"
  <2>1. ToSend + encoded + ToMake + freeSlices = 1
    BY <1>1, <1>3 DEF RingInv, RingTyped
  <2>2. \/ ToSend = 1 /\ xmit = 1 - freePos
        \/ encoded = 1 /\ (mode.fec => encodedPos = 1 - freePos) /\ ToMake = 0
        \/ ToMake = 1 /\ LastMade = 1 - freePos
        \/ freeSlices = 1 /\ makePos = 1 - freePos
    BY <1>1, <1>3, <2>1 DEF RingInv, RingTyped, LastMade, ToSend
  <2>3. encoded = 1 => mode.fec
    BY DEF ControlInv
  <2> QED
    BY <1>1, <1>2, <2>2, <2>3 DEF StateInv, RingTyped, ToSend, ToMake, Making
<1>5. ToProduce' = 0
  BY <1>1, <1>4 DEF ToProduce
<1>6. RingInv'
  BY <1>1, <1>2, <1>3, <1>5 DEF RingInv, RingTyped
<1>7. freeSlices = 0 => makePos = freePos
  BY <1>1, <1>3 DEF RingInv, RingTyped
<1>8. freeSlices = 1 => makePos = 1 - freePos
  BY <1>1, <1>3 DEF RingInv, RingTyped
<1>9. StateInv'
  BY <1>1, <1>2, <1>4, <1>7, <1>8 DEF StateInv, RingTyped
<1>10. ControlInv'
  BY <1>1 DEF ControlInv
<1> QED
  BY <1>6, <1>9, <1>10

\* What a step of the network thread may do to the slices and their memory.
SlicesKept(i) ==
  /\ SlicesTyped' /\ SizingTyped' /\ (pending \in [Receivers -> RequestType])'
  /\ \/ i \in Slots /\ Acknowledged(i) /\ slices[i].state \in {"NEW", "XMITTED"}
     \/ (\A j \in Slots : SameSlice(j)) /\ freed' = freed

LEMMA ShiftRing ==
  ASSUME RingTyped, SlicesTyped, SizingTyped, pending \in [Receivers -> RequestType],
         freed \in Nat, RingInv, StateInv, ControlInv, Shift
  PROVE  RingInv' /\ StateInv' /\ ControlInv' /\ SlicesKept(xmit)
<1> USE DEF NrSlices, Slots, NoSlice
<1>1. /\ netPc \in {"shift", "top"} /\ netPc' = "messages"
      /\ UNCHANGED <<mode, freeSlices, freePos, makePc, makePos, encoded, encodedPos, atEnd>>
  BY DEF Shift, maker, fecQueue, slotQueue
<1>2. LastMade' = LastMade /\ LastMade \in Slots
  BY <1>1 DEF LastMade, RingTyped
<1>3. CASE Shiftable
  <2>1. /\ rexmit = NoSlice /\ xmit \in Slots /\ slices[xmit].state = "XMITTED"
        /\ rexmit' = xmit /\ xmit' = NoSlice /\ Asked(xmit, slices[xmit])
    BY <1>3 DEF Shift, Shiftable, RingTyped
  <2>2. slices[xmit] \in SliceType
    BY <2>1 DEF SlicesTyped
  <2>3. SlicesKept(xmit)
    BY <2>1, <2>2, AskedKeeps DEF SlicesKept
  <2>4. /\ slices'[xmit].state \in {"XMITTED", "ACKED"}
        /\ \A j \in Slots \ {xmit} : slices'[j].state = slices[j].state
    BY <2>1, <2>3 DEF SlicesKept, Acknowledged, SameSlice
  <2>5. ToProduce = 0 /\ ToProduce' = 0 /\ ToResend = 0 /\ ToResend' = 1 /\ ToSend = 1 /\ ToSend' = 0
        /\ ToMake' = ToMake /\ ToMake \in 0..1
    BY <1>1, <2>1 DEF ToProduce, ToResend, ToSend, ToMake, Making
  <2>6. RingInv'
    BY <1>1, <2>1, <2>5 DEF RingInv, RingTyped
  <2>7. StateInv'
    BY <1>1, <1>2, <2>1, <2>4 DEF StateInv, RingTyped
  <2>8. ControlInv'
    BY <1>1, <2>1 DEF ControlInv
  <2> QED
    BY <2>3, <2>6, <2>7, <2>8
<1>4. CASE ~Shiftable
  <2>1. UNCHANGED <<rexmit, xmit, slices, freed, sizing, pending>>
    BY <1>4 DEF Shift
  <2>2. \A i \in Slots : slices'[i].state = slices[i].state
    BY <2>1
  <2>3. RingInv' /\ StateInv'
    <3>1. netPc # "give" /\ netPc # "produce" /\ UNCHANGED slotQueue
      BY <1>1 DEF slotQueue
    <3> QED
      BY <1>1, <2>1, <2>2, <3>1, RingStays
  <2>4. xmit # NoSlice /\ rexmit = NoSlice => slices[xmit].state = "NEW"
    BY <1>4 DEF Shiftable, StateInv
  <2>5. ControlInv'
    BY <1>1, <2>1, <2>4 DEF ControlInv
  <2>6. SlicesKept(xmit)
    BY <2>1 DEF SlicesKept, SameSlice, SlicesTyped, SizingTyped, sizing
  <2> QED
    BY <2>3, <2>5, <2>6
<1> QED
  BY <1>3, <1>4

\* Steps after which the loop of the network thread starts anew, or goes on to
\* wait or to end.
LEMMA RestartRing ==
  ASSUME RingTyped, RingInv, StateInv, ControlInv,
         UNCHANGED <<mode, slotQueue, makePc, makePos, encoded, encodedPos, xmit, rexmit, atEnd>>,
         netPc \in {"messages", "giveBack", "send", "wait", "exit"},
         netPc' \in {"top", "exit", "giveBack", "wait", "done"},
         \A i \in Slots : \/ slices'[i].state = slices[i].state
                          \/ i = rexmit /\ slices'[i].state = "ACKED"
                          \/ i = xmit /\ slices[i].state = "NEW" /\ slices'[i].state = "XMITTED"
  PROVE  RingInv' /\ StateInv' /\ ControlInv'
<1>1. RingInv' /\ StateInv'
  BY RingStays
<1>2. ControlInv'
  BY DEF ControlInv
<1> QED
  BY <1>1, <1>2

LEMMA ProceedRing ==
  ASSUME RingTyped, SlicesTyped, SizingTyped, pending \in [Receivers -> RequestType],
         freed \in Nat, RingInv, StateInv, ControlInv, Proceed
  PROVE  RingInv' /\ StateInv' /\ ControlInv' /\ SlicesKept(rexmit)
<1> USE DEF NrSlices, Slots, NoSlice
<1> DEFINE s == slices[rexmit]
<1>1. /\ netPc = "messages" /\ netPc' \in {"make", "send"}
      /\ UNCHANGED <<mode, slotQueue, makePos, encoded, encodedPos, xmit, rexmit, atEnd>>
  BY DEF Proceed, fecQueue
<1>2. SlicesKept(rexmit)
  <2>1. CASE rexmit # NoSlice /\ Everybody(s.answered)
    <3>1. rexmit \in Slots
      BY <2>1 DEF RingTyped
    <3>2. s \in SliceType
      BY <3>1 DEF SlicesTyped
    <3> DEFINE t == [s EXCEPT !.rxmitId = @ + 1]
    <3>3. t \in SliceType /\ t.state = s.state /\ t.no = s.no /\ t.base = s.base /\ t.bytes = s.bytes
      BY <3>2 DEF SliceType
    <3>4. Asked(rexmit, t)
      BY <2>1 DEF Proceed
    <3>5. s.state \in {"XMITTED", "ACKED"}
      BY <2>1 DEF StateInv
    <3> HIDE DEF t
    <3>6. /\ SlicesTyped' /\ SizingTyped' /\ (pending \in [Receivers -> RequestType])'
          /\ Acknowledged(rexmit) \/ ((\A j \in Slots : SameSlice(j)) /\ freed' = freed)
      BY <3>1, <3>3, <3>4, AskedKeeps
    <3> QED
      BY <3>1, <3>5, <3>6 DEF SlicesKept, Acknowledged
  <2>2. CASE ~(rexmit # NoSlice /\ Everybody(s.answered))
    <3>1. UNCHANGED <<slices, freed, sizing, pending>>
      BY <2>2 DEF Proceed
    <3> QED
      BY <3>1 DEF SlicesKept, SameSlice, SlicesTyped, SizingTyped, sizing
  <2> QED
    BY <2>1, <2>2
<1>3. \A j \in Slots : \/ slices'[j].state = slices[j].state
                       \/ j = rexmit /\ slices'[j].state = "ACKED"
  BY <1>2 DEF SlicesKept, Acknowledged, SameSlice
<1>4. \/ /\ netPc' = "make" /\ xmit = NoSlice /\ ~atEnd
         /\ makePc' = IF mode.fec THEN makePc ELSE "slot"
      \/ /\ netPc' = "send" /\ makePc' = makePc
         /\ ~(xmit = NoSlice /\ ~atEnd /\ (mode.sn \/ rexmit = NoSlice))
  BY DEF Proceed
<1>5. ~mode.fec => makePc = "idle" /\ encoded = 0
  BY <1>1 DEF ControlInv
<1>6. RingInv' /\ StateInv'
  <2>1. ToProduce = 0 /\ ToProduce' = 0 /\ ToResend' = ToResend /\ ToSend' = ToSend /\ ToMake' = ToMake
    BY <1>1, <1>4, <1>5 DEF ToProduce, ToResend, ToSend, ToMake, Making
  <2>2. LastMade' = LastMade /\ UNCHANGED <<freeSlices, freePos>> /\ LastMade \in Slots
    BY <1>1 DEF LastMade, slotQueue, RingTyped
  <2>3. RingInv'
    BY <1>1, <2>1, <2>2 DEF RingInv
  <2>4. makePc' \in {"amount", "end", "encode", "encoded"} => makePc' = makePc
    BY <1>4, <1>5
  <2>5. \A j \in Slots : slices[j].state \in {"NEW", "FREE"} => slices'[j].state = slices[j].state
    BY <1>3 DEF StateInv
  <2>6. xmit # NoSlice /\ rexmit # NoSlice => xmit # rexmit
    BY <2>1 DEF RingInv, RingTyped, ToResend
  <2>7. xmit # NoSlice => slices'[xmit].state \in {"NEW", "XMITTED"}
    BY <1>3, <2>6 DEF StateInv, RingTyped
  <2>8. rexmit # NoSlice => slices'[rexmit].state \in {"ACKED", "XMITTED"}
    BY <1>3 DEF StateInv, RingTyped
  <2>9. StateInv'
    BY <1>1, <2>2, <2>4, <2>5, <2>7, <2>8 DEF StateInv, RingTyped
  <2> QED
    BY <2>3, <2>9
<1>7. ControlInv'
  <2>1. xmit # NoSlice /\ rexmit = NoSlice => slices'[xmit].state = slices[xmit].state
    BY <1>3 DEF RingTyped
  <2> QED
    BY <1>1, <1>4, <1>5, <2>1 DEF ControlInv
<1> QED
  BY <1>2, <1>6, <1>7

LEMMA TakeEncodedRing ==
  ASSUME RingTyped, RingInv, StateInv, ControlInv, TakeEncoded
  PROVE  RingInv' /\ StateInv' /\ ControlInv' /\ xmit' \in Slots /\ xmit' # rexmit
<1> USE DEF NrSlices, Slots, NoSlice
<1>1. /\ netPc = "make" /\ netPc' = "send" /\ mode.fec /\ encoded > 0 /\ encoded' = encoded - 1
      /\ encodedPos' = (encodedPos + 1) % 2 /\ xmit' = encodedPos
      /\ UNCHANGED <<mode, slices, freeSlices, freePos, makePc, makePos, rexmit>>
  BY DEF TakeEncoded, maker, slotQueue
<1>2. xmit = NoSlice /\ encodedPos \in Slots /\ encodedPos' = 1 - encodedPos
  BY <1>1 DEF ControlInv, RingTyped
<1>3. LastMade' = LastMade /\ LastMade \in Slots
  BY <1>1 DEF LastMade, RingTyped
<1>4. slices[encodedPos].state = "NEW"
  BY <1>1 DEF StateInv
<1>5. ToProduce = 0 /\ ToProduce' = 0 /\ ToSend = 0 /\ ToSend' = 1 /\ ToResend' = ToResend
      /\ ToMake' = ToMake /\ ToResend \in 0..1 /\ ToMake \in 0..1
  BY <1>1, <1>2 DEF ToProduce, ToResend, ToSend, ToMake, Making
<1>6. RingInv'
  BY <1>1, <1>2, <1>5 DEF RingInv, RingTyped
<1>7. StateInv'
  BY <1>1, <1>2, <1>3, <1>4 DEF StateInv, RingTyped
<1>8. ControlInv'
  BY <1>1, <1>2, <1>4 DEF ControlInv
<1>9. encodedPos # rexmit
  BY <1>2, <1>4 DEF StateInv
<1> QED
  BY <1>1, <1>2, <1>6, <1>7, <1>8, <1>9

\* A slice is sent again to those who miss it, or its receivers are dropped.
LEMMA TimeOutRing ==
  ASSUME RingTyped, SlicesTyped, SizingTyped, pending \in [Receivers -> RequestType],
         freed \in Nat, rexmit # NoSlice, RingInv, StateInv, ControlInv, TimeOut
  PROVE  RingInv' /\ StateInv' /\ ControlInv' /\ SlicesKept(rexmit)
<1> DEFINE s == slices[rexmit]
<1>1. /\ netPc = "wait" /\ netPc' \in {"top", "exit"} /\ rexmit \in Slots
      /\ UNCHANGED <<mode, slotQueue, makePc, makePos, encoded, encodedPos, xmit, rexmit, atEnd>>
  BY DEF TimeOut, Restart, RingTyped, maker, fecQueue
<1>2. s.state \in {"XMITTED", "ACKED"}
  BY DEF StateInv
<1>3. SlicesKept(rexmit)
  <2>1. CASE s.rxmitId > RetriesUntilDrop
    <3>1. UNCHANGED <<slices, freed, sizing, pending>>
      BY <2>1 DEF TimeOut
    <3> QED
      BY <3>1 DEF SlicesKept, SameSlice, SlicesTyped, SizingTyped, sizing
  <2>2. CASE ~(s.rxmitId > RetriesUntilDrop)
    <3> DEFINE t == [s EXCEPT !.rxmitId = @ + 1]
    <3>1. s \in SliceType
      BY <1>1 DEF SlicesTyped
    <3>2. t \in SliceType /\ t.state = s.state /\ t.no = s.no /\ t.base = s.base /\ t.bytes = s.bytes
      BY <3>1 DEF SliceType
    <3>3. Asked(rexmit, t)
      BY <2>2 DEF TimeOut
    <3> HIDE DEF t
    <3>4. /\ SlicesTyped' /\ SizingTyped' /\ (pending \in [Receivers -> RequestType])'
          /\ Acknowledged(rexmit) \/ ((\A j \in Slots : SameSlice(j)) /\ freed' = freed)
      BY <1>1, <3>2, <3>3, AskedKeeps
    <3> QED
      BY <1>1, <1>2, <3>4 DEF SlicesKept, Acknowledged
  <2> QED
    BY <2>1, <2>2
<1>4. \A j \in Slots : \/ slices'[j].state = slices[j].state
                       \/ j = rexmit /\ slices'[j].state = "ACKED"
  BY <1>3 DEF SlicesKept, Acknowledged, SameSlice
<1> QED
  BY <1>1, <1>3, <1>4, RestartRing

-----------------------------------------------------------------------------
(* The memory of the slices *)

\* Slice i is used as before.
SameUse(i) ==
  /\ i \in InUse' <=> i \in InUse
  /\ i \in InUse => /\ slices'[i].no = slices[i].no /\ slices'[i].base = slices[i].base
                    /\ slices'[i].bytes = slices[i].bytes
                    /\ slices'[i].state = "NEW" => slices[i].state = "NEW"

\* What a step other than making a slice does to the memory: bytes are freed in
\* their order, and no slice becomes one to be sent.
MemoryKept ==
  /\ freed' \in Nat /\ freed' >= freed
  /\ freed' + Held(0)' + Held(1)' = freed + Held(0) + Held(1)
  /\ BaseInv'
  /\ \A i \in Slots : slices'[i].state = "NEW" =>
       /\ slices[i].state = "NEW" /\ slices'[i].no = slices[i].no
       /\ slices'[i].base = slices[i].base /\ slices'[i].bytes = slices[i].bytes

LEMMA OldestSlot == ASSUME RingTyped PROVE Oldest \in Slots /\ 1 - Oldest \in Slots
  BY DEF Oldest, RingTyped, ToProduce, Slots, NrSlices

LEMMA HeldType == ASSUME SlicesTyped PROVE \A i \in Slots : Held(i) \in Nat
  BY DEF SlicesTyped, SliceType, Held

LEMMA SameUseMemory ==
  ASSUME RingTyped, SlicesTyped, SlicesTyped', freed \in Nat, freed' = freed, BaseInv,
         Oldest' = Oldest, \A i \in Slots : SameUse(i)
  PROVE  MemoryKept
<1>1. \A i \in Slots : Held(i)' = Held(i) /\ Held(i) \in Nat
  BY HeldType DEF SameUse, Held
<1>2. 0 \in Slots /\ 1 \in Slots
  BY DEF Slots, NrSlices
<1>3. BaseInv'
  BY <1>1, OldestSlot DEF BaseInv, SameUse
<1>4. \A i \in Slots : slices'[i].state = "NEW" => i \in InUse'
  BY DEF InUse
<1>5. \A i \in Slots : slices'[i].state = "NEW" =>
        /\ slices[i].state = "NEW" /\ slices'[i].no = slices[i].no
        /\ slices'[i].base = slices[i].base /\ slices'[i].bytes = slices[i].bytes
  BY <1>4 DEF SameUse
<1> QED
  BY <1>1, <1>2, <1>3, <1>5 DEF MemoryKept

LEMMA AcknowledgedMemory ==
  ASSUME RingTyped, SlicesTyped, freed \in Nat, BaseInv, Oldest' = Oldest,
         Acknowledged(Oldest), slices[Oldest].state \in {"NEW", "XMITTED"}
  PROVE  MemoryKept
<1> DEFINE i == Oldest
           j == 1 - Oldest
<1>1. i \in Slots /\ j \in Slots /\ i # j /\ {0, 1} = {i, j}
  BY OldestSlot DEF Slots, NrSlices
<1>2. Held(i) = slices[i].bytes /\ Held(i)' = 0 /\ Held(i) \in Nat
  BY <1>1, HeldType DEF Held, InUse, Acknowledged
<1>3. SameSlice(j) /\ Held(j)' = Held(j) /\ Held(j) \in Nat
  BY <1>1, HeldType DEF Held, InUse, Acknowledged, SameSlice
<1>4. freed' = freed + Held(i) /\ i \notin InUse'
  BY <1>1, <1>2 DEF Acknowledged, InUse
<1>5. j \in InUse' <=> j \in InUse
  BY <1>1, <1>3 DEF InUse, SameSlice
<1>6. BaseInv'
  BY <1>2, <1>3, <1>4, <1>5 DEF BaseInv, SameSlice
<1>7. Held(0) + Held(1) = Held(i) + Held(j) /\ Held(0)' + Held(1)' = Held(i)' + Held(j)'
  <2>1. CASE i = 0
    <3>1. j = 1
      BY <2>1
    <3> QED
      BY <2>1, <3>1
  <2>2. CASE i = 1
    <3>1. j = 0
      BY <2>2
    <3> QED
      BY <2>2, <3>1, <1>2, <1>3
  <2> QED
    BY <1>1, <2>1, <2>2 DEF Slots, NrSlices
<1>8. Held(0) \in Nat /\ Held(1) \in Nat /\ Held(0)' \in Nat /\ Held(1)' \in Nat
  BY <1>1, <1>2, <1>3
<1>9. freed' + Held(0)' + Held(1)' = freed + Held(0) + Held(1)
  BY <1>2, <1>3, <1>4, <1>7, <1>8
<1>10. \A k \in Slots : slices'[k].state = "NEW" => SameSlice(k)
  BY <1>1 DEF Acknowledged
<1> QED
  BY <1>2, <1>4, <1>6, <1>9, <1>10 DEF MemoryKept, SameSlice

LEMMA SlicesKeptMemory ==
  ASSUME RingTyped, SlicesTyped, freed \in Nat, BaseInv, NEW i, SlicesKept(i),
         i \in Slots => i = Oldest, Oldest' = Oldest
  PROVE  MemoryKept
<1>1. CASE i \in Slots /\ Acknowledged(i) /\ slices[i].state \in {"NEW", "XMITTED"}
  BY <1>1, AcknowledgedMemory
<1>2. CASE (\A j \in Slots : SameSlice(j)) /\ freed' = freed
  <2>1. \A j \in Slots : SameUse(j)
    BY <1>2 DEF SameSlice, SameUse, InUse
  <2> QED
    BY <1>2, <2>1, SameUseMemory DEF SlicesKept
<1> QED
  BY <1>1, <1>2 DEF SlicesKept

LEMMA PreFreeMemory ==
  ASSUME RingTyped, SlicesTyped, freed \in Nat, BaseInv, RingInv, StateInv, ControlInv, PreFree
  PROVE  MemoryKept /\ SlicesTyped'
<1> USE DEF NrSlices, Slots, NoSlice
<1>1. netPc = "free" /\ netPc' = "give" /\ freed' = freed /\ freePos' = freePos
  BY DEF PreFree, memory, slotQueue
<1>2. rexmit \in Slots /\ slices[rexmit].state = "ACKED" /\ slices'[rexmit].state = "PRE_FREE"
  BY PreFreeRing
<1>3. /\ slices'[rexmit] = [FreeSlice EXCEPT !.state = "PRE_FREE"]
      /\ \A j \in Slots \ {rexmit} : slices'[j] = slices[j]
      /\ slices' \in [Slots -> SliceType]
  <2>1. [FreeSlice EXCEPT !.state = "PRE_FREE"] \in SliceType
    BY DEF FreeSlice, SliceType
  <2> QED
    BY <1>2, <2>1 DEF PreFree, SlicesTyped
<1>4. SlicesTyped'
  <2>1. slices'[rexmit].bytes = 0 /\ 0 <= BlockSize * LargestSize
    BY <1>3, BufSizeType, Sizes, ProductMonotone DEF FreeSlice
  <2> QED
    BY <1>2, <1>3, <2>1 DEF SlicesTyped
<1>5. \A j \in Slots : SameUse(j)
  BY <1>2, <1>3 DEF SameUse, InUse
<1>6. \A j \in Slots : Held(j)' = Held(j) /\ Held(j) \in Nat
  BY <1>5, HeldType DEF SameUse, Held
<1>7. Oldest = freePos /\ Oldest = rexmit /\ Oldest' = 1 - rexmit
  BY <1>1, <1>2 DEF Oldest, RingInv, RingTyped, ToProduce
<1>8. rexmit \notin InUse /\ rexmit \notin InUse' /\ Held(rexmit) = 0
  BY <1>2 DEF InUse, Held
<1>9. BaseInv'
  <2>1. ASSUME 1 - rexmit \in InUse' PROVE slices'[1 - rexmit].base = freed
    BY <1>2, <1>3, <1>5, <1>7, <1>8, <2>1 DEF BaseInv, SameUse
  <2>2. 1 - (1 - rexmit) = rexmit
    BY <1>2
  <2> QED
    BY <1>1, <1>7, <1>8, <2>1, <2>2 DEF BaseInv
<1>10. \A i \in Slots : slices'[i].state = "NEW" =>
        /\ slices[i].state = "NEW" /\ slices'[i].no = slices[i].no
        /\ slices'[i].base = slices[i].base /\ slices'[i].bytes = slices[i].bytes
  BY <1>2, <1>3
<1> QED
  BY <1>1, <1>4, <1>6, <1>9, <1>10 DEF MemoryKept

-----------------------------------------------------------------------------
(* The network thread *)

\* What the lemmas above need, of the invariant.
LEMMA Parts ==
  ASSUME IInv
  PROVE  /\ RingTyped /\ SlicesTyped /\ SizingTyped /\ ChannelTyped
         /\ pending \in [Receivers -> RequestType] /\ freed \in Nat
         /\ RingInv /\ StateInv /\ ControlInv /\ ChannelInv /\ BaseInv
  BY DEF IInv, TypeOK, Typed, RingTyped, SlicesTyped, SizingTyped, ChannelTyped

NetFrame ==
  /\ UNCHANGED <<mode, size, buffer, taken, read, dataEnd, reader, makePos, makeNo, amount, made,
                 cut, parity>>
  /\ makePc' = makePc \/ (makePc = "idle" /\ makePc' = "slot")
  /\ netPc # "done" /\ (freeEnd' = freeEnd \/ netPc' = "done")

NetEffect ==
  /\ SlicesTyped' /\ SizingTyped' /\ (pending \in [Receivers -> RequestType])'
  /\ RingInv' /\ StateInv' /\ ControlInv' /\ ChannelInv' /\ ChannelTyped'
  /\ MemoryKept /\ NetFrame

LEMMA OldestStays ==
  ASSUME freePos' = freePos, netPc \notin {"give", "produce"}, netPc' \notin {"give", "produce"}
  PROVE  Oldest' = Oldest
  BY DEF Oldest, ToProduce

\* Steps that change neither slices nor memory.
LEMMA StillEffect ==
  ASSUME IInv, UNCHANGED <<slices, freed, sizing, pending, freePos>>,
         netPc \notin {"give", "produce"}, netPc' \notin {"give", "produce"}
  PROVE  SlicesTyped' /\ SizingTyped' /\ (pending \in [Receivers -> RequestType])' /\ MemoryKept
<1>1. SlicesTyped' /\ SizingTyped' /\ (pending \in [Receivers -> RequestType])'
  BY Parts DEF SlicesTyped, SizingTyped, sizing
<1>2. \A i \in Slots : SameUse(i)
  BY DEF SameUse, InUse
<1> QED
  BY <1>1, <1>2, Parts, SameUseMemory, OldestStays

LEMMA CleanupEffect == ASSUME IInv, Cleanup PROVE NetEffect
<1>1. /\ netPc = "top" /\ netPc' = "free"
      /\ UNCHANGED <<mode, size, buffer, taken, freeEnd, read, dataEnd, reader, maker, slotQueue,
                     fecQueue, channel, pending>>
  BY DEF Cleanup
<1>2. /\ RingInv' /\ StateInv' /\ ControlInv' /\ rexmit \in Slots
      /\ \/ slices[rexmit].state = "ACKED" /\ UNCHANGED <<slices, freed, sizing>>
         \/ slices[rexmit].state = "XMITTED" /\ Acknowledged(rexmit)
            /\ SlicesTyped' /\ SizingTyped'
  BY CleanupRing, Parts
<1>3. Oldest = rexmit /\ Oldest' = Oldest
  <2>1. freePos' = freePos
    BY <1>1 DEF slotQueue
  <2> QED
    BY <1>1, <1>2, <2>1, OldestStays, Parts DEF RingInv, Oldest, NoSlice, Slots
<1>4. SlicesTyped' /\ SizingTyped' /\ MemoryKept
  BY <1>1, <1>2, <1>3, Parts, AcknowledgedMemory, StillEffect DEF slotQueue
<1>5. ChannelInv' /\ ChannelTyped' /\ (pending \in [Receivers -> RequestType])'
  BY <1>1, Parts, ChannelStays DEF channel
<1>6. NetFrame
  BY <1>1 DEF NetFrame, maker, fecQueue
<1> QED
  BY <1>1, <1>2, <1>4, <1>5, <1>6 DEF NetEffect

LEMMA PreFreeEffect == ASSUME IInv, PreFree PROVE NetEffect
<1>1. /\ netPc = "free" /\ netPc' = "give"
      /\ UNCHANGED <<mode, size, memory, reader, maker, fecQueue, sizing, channel, pending>>
  BY DEF PreFree
<1>2. RingInv' /\ StateInv' /\ ControlInv' /\ MemoryKept /\ SlicesTyped'
  BY PreFreeRing, PreFreeMemory, Parts
<1>3. ChannelInv' /\ ChannelTyped'
  BY <1>1, Parts, ChannelStays DEF channel
<1>4. SizingTyped' /\ (pending \in [Receivers -> RequestType])'
  BY <1>1, Parts DEF SizingTyped, sizing
<1>5. NetFrame
  BY <1>1 DEF NetFrame, maker, fecQueue, memory
<1> QED
  BY <1>1, <1>2, <1>3, <1>4, <1>5 DEF NetEffect

LEMMA GiveSlotsEffect == ASSUME IInv, GiveSlots PROVE NetEffect
<1>1. /\ netPc = "give" /\ netPc' \in {"produce", "shift"}
      /\ UNCHANGED <<mode, size, memory, reader, maker, slotQueue, fecQueue, sizing, channel,
                     pending>>
  BY DEF GiveSlots
<1>2. /\ RingInv' /\ StateInv' /\ ControlInv' /\ SlicesTyped'
      /\ \A i \in Slots : \/ SameSlice(i)
                          \/ slices[i].state = "PRE_FREE" /\ slices'[i].state = "FREE"
  BY GiveSlotsRing, Parts
<1>3. \A i \in Slots : SameUse(i)
  BY <1>2 DEF SameUse, SameSlice, InUse
<1>4. Oldest' = Oldest
  BY <1>1 DEF GiveSlots, Oldest, ToProduce, slotQueue
<1>5. MemoryKept
  BY <1>1, <1>2, <1>3, <1>4, Parts, SameUseMemory DEF memory
<1>6. ChannelInv' /\ ChannelTyped'
  BY <1>1, Parts, ChannelStays DEF channel
<1>7. SizingTyped' /\ (pending \in [Receivers -> RequestType])'
  BY <1>1, Parts DEF SizingTyped, sizing
<1>8. NetFrame
  BY <1>1 DEF NetFrame, maker, fecQueue, memory
<1> QED
  BY <1>1, <1>2, <1>5, <1>6, <1>7, <1>8 DEF NetEffect

LEMMA ProduceSlotEffect == ASSUME IInv, ProduceSlot PROVE NetEffect
<1>1. /\ netPc = "produce" /\ netPc' = "give" /\ freePos' = (freePos + 1) % NrSlices
      /\ UNCHANGED <<mode, size, memory, reader, maker, fecQueue, sizing, slices, channel,
                     pending>>
  BY DEF ProduceSlot
<1>2. RingInv' /\ StateInv' /\ ControlInv'
  BY ProduceSlotRing, Parts
<1>3. \A i \in Slots : SameUse(i)
  BY <1>1 DEF SameUse, InUse
<1>4. Oldest' = Oldest
  <2>1. slices[freePos'].state # "PRE_FREE"
    <3> USE DEF NrSlices, Slots, NoSlice
    <3>1. \/ xmit = freePos' \/ (mode.fec /\ encoded > 0 /\ encodedPos = freePos')
          \/ (Making /\ LastMade = freePos') \/ (freeSlices > 0 /\ makePos = freePos')
      BY <1>1, Parts DEF RingInv, ControlInv, RingTyped, ToProduce, ToResend, ToSend, ToMake,
                         LastMade
    <3>2. freePos' # NoSlice
      BY <1>1, Parts DEF RingTyped
    <3> QED
      BY <3>1, <3>2, Parts DEF StateInv, Making
  <2> QED
    BY <1>1, <2>1, Parts DEF Oldest, ToProduce, RingTyped, Slots, NrSlices
<1>5. MemoryKept /\ SlicesTyped'
  <2>1. SlicesTyped'
    BY <1>1, Parts DEF SlicesTyped
  <2> QED
    BY <1>1, <1>3, <1>4, <2>1, Parts, SameUseMemory DEF memory
<1>6. ChannelInv' /\ ChannelTyped'
  BY <1>1, Parts, ChannelStays DEF channel
<1>7. SizingTyped' /\ (pending \in [Receivers -> RequestType])'
  BY <1>1, Parts DEF SizingTyped, sizing
<1>8. NetFrame
  BY <1>1 DEF NetFrame, maker, fecQueue, memory
<1> QED
  BY <1>1, <1>2, <1>5, <1>6, <1>7, <1>8 DEF NetEffect

LEMMA ShiftEffect == ASSUME IInv, Shift PROVE NetEffect
<1>1. /\ netPc \in {"shift", "top"} /\ netPc' = "messages"
      /\ UNCHANGED <<mode, size, buffer, taken, freeEnd, read, dataEnd, reader, maker, slotQueue,
                     fecQueue, channel>>
  BY DEF Shift
<1>2. RingInv' /\ StateInv' /\ ControlInv' /\ SlicesKept(xmit)
  BY ShiftRing, Parts
<1>3. MemoryKept
  <2>1. Oldest' = Oldest
    BY <1>1, OldestStays DEF slotQueue
  <2>2. CASE Shiftable
    <3>1. rexmit = NoSlice
      BY <2>2 DEF Shiftable
    <3>2. xmit \in Slots => xmit = Oldest
      BY <1>1, <3>1, Parts DEF RingInv, Oldest, ToProduce, ToResend, RingTyped, Slots, NrSlices, NoSlice
    <3> QED
      BY <1>2, <2>1, <3>2, Parts, SlicesKeptMemory
  <2>3. CASE ~Shiftable
    <3>1. UNCHANGED <<slices, freed, sizing, pending>>
      BY <2>3 DEF Shift
    <3> QED
      BY <1>1, <3>1, StillEffect DEF slotQueue
  <2> QED
    BY <2>2, <2>3
<1>4. ChannelInv' /\ ChannelTyped'
  BY <1>1, Parts, ChannelStays DEF channel
<1>5. NetFrame
  BY <1>1 DEF NetFrame, maker, fecQueue
<1> QED
  BY <1>1, <1>2, <1>3, <1>4, <1>5 DEF NetEffect, SlicesKept

LEMMA HandleMessageEffect == ASSUME IInv, HandleMessage PROVE NetEffect
<1>1. /\ netPc = "messages" /\ netPc' = "giveBack"
      /\ UNCHANGED <<mode, size, memory, reader, maker, slotQueue, fecQueue, xmit, rexmit, atEnd,
                     sizing, pending>>
  BY DEF HandleMessage
<1>2. SlicesTyped' /\ \A j \in Slots : SameSlice(j)
  BY HandleKeeps, Parts DEF ChannelTyped, ChannelInv, RingTyped
<1>3. RingInv' /\ StateInv' /\ ControlInv'
  BY <1>1, <1>2, RestartRing, Parts DEF SameSlice, maker, fecQueue
<1>4. MemoryKept
  <2>1. \A j \in Slots : SameUse(j)
    BY <1>2 DEF SameSlice, SameUse, InUse
  <2>2. Oldest' = Oldest
    BY <1>1, OldestStays DEF slotQueue
  <2> QED
    BY <1>1, <1>2, <2>1, <2>2, Parts, SameUseMemory DEF memory
<1>5. ChannelInv' /\ ChannelTyped'
  BY Parts, HandleMessageChannel
<1>6. SizingTyped' /\ (pending \in [Receivers -> RequestType])'
  BY <1>1, Parts DEF SizingTyped, sizing
<1>7. NetFrame
  BY <1>1 DEF NetFrame, maker, fecQueue, memory
<1> QED
  BY <1>2, <1>3, <1>4, <1>5, <1>6, <1>7 DEF NetEffect

LEMMA RetransmitEffect == ASSUME IInv, Retransmit PROVE NetEffect
<1>1. /\ netPc = "messages" /\ netPc' \in {"top", "exit"}
      /\ UNCHANGED <<mode, size, memory, reader, maker, slotQueue, fecQueue, xmit, rexmit, atEnd,
                     sizing, channel, pending>>
  BY DEF Retransmit, Restart
<1>2. SlicesTyped' /\ \A j \in Slots : SameSlice(j)
  BY RetransmitKeeps, Parts DEF RingTyped
<1>3. RingInv' /\ StateInv' /\ ControlInv'
  BY <1>1, <1>2, RestartRing, Parts DEF SameSlice, maker, fecQueue
<1>4. MemoryKept
  <2>1. \A j \in Slots : SameUse(j)
    BY <1>2 DEF SameSlice, SameUse, InUse
  <2>2. Oldest' = Oldest
    BY <1>1, OldestStays DEF slotQueue
  <2> QED
    BY <1>1, <1>2, <2>1, <2>2, Parts, SameUseMemory DEF memory
<1>5. ChannelInv' /\ ChannelTyped'
  BY <1>1, Parts, ChannelStays DEF channel
<1>6. SizingTyped' /\ (pending \in [Receivers -> RequestType])'
  BY <1>1, Parts DEF SizingTyped, sizing
<1>7. NetFrame
  BY <1>1 DEF NetFrame, maker, fecQueue, memory
<1> QED
  BY <1>2, <1>3, <1>4, <1>5, <1>6, <1>7 DEF NetEffect

LEMMA SendSliceEffect == ASSUME IInv, SendSlice PROVE NetEffect
<1>1. /\ netPc = "send" /\ netPc' \in {"top", "exit"}
      /\ UNCHANGED <<mode, size, memory, reader, maker, slotQueue, fecQueue, xmit, rexmit, atEnd,
                     sizing, channel, pending>>
  BY DEF SendSlice, Restart
<1>2. /\ SlicesTyped' /\ xmit \in Slots /\ slices[xmit].state = "NEW"
      /\ slices'[xmit].state \in {"NEW", "XMITTED"}
      /\ slices'[xmit].no = slices[xmit].no /\ slices'[xmit].base = slices[xmit].base
      /\ slices'[xmit].bytes = slices[xmit].bytes
      /\ \A j \in Slots \ {xmit} : SameSlice(j)
  BY SendKeeps, Parts DEF RingTyped
<1>3. RingInv' /\ StateInv' /\ ControlInv'
  <2>1. \A i \in Slots : \/ slices'[i].state = slices[i].state
                         \/ i = xmit /\ slices[i].state = "NEW" /\ slices'[i].state = "XMITTED"
    BY <1>2 DEF SameSlice
  <2> QED
    BY <1>1, <2>1, RestartRing, Parts DEF maker, fecQueue
<1>4. MemoryKept
  <2>1. \A j \in Slots : SameUse(j)
    BY <1>2 DEF SameSlice, SameUse, InUse
  <2>2. Oldest' = Oldest
    BY <1>1, OldestStays DEF slotQueue
  <2> QED
    BY <1>1, <1>2, <2>1, <2>2, Parts, SameUseMemory DEF memory
<1>5. ChannelInv' /\ ChannelTyped'
  BY <1>1, Parts, ChannelStays DEF channel
<1>6. SizingTyped' /\ (pending \in [Receivers -> RequestType])'
  BY <1>1, Parts DEF SizingTyped, sizing
<1>7. NetFrame
  BY <1>1 DEF NetFrame, maker, fecQueue, memory
<1> QED
  BY <1>2, <1>3, <1>4, <1>5, <1>6, <1>7 DEF NetEffect

\* GiveBack, Wait, Wake and Finish.
LEMMA StillStepsEffect == ASSUME IInv, GiveBack \/ Wait \/ Wake \/ Finish PROVE NetEffect
<1>1. /\ netPc \in {"giveBack", "send", "wait", "exit"} /\ netPc' \in {"top", "exit", "wait", "done"}
      /\ UNCHANGED <<mode, size, buffer, taken, freed, read, dataEnd, reader, maker, slices, slotQueue,
                     fecQueue, xmit, rexmit, atEnd, sizing, pending>>
      /\ freeEnd' = freeEnd \/ netPc' = "done"
  BY DEF GiveBack, Wait, Wake, Finish, Restart, memory
<1>2. RingInv' /\ StateInv' /\ ControlInv'
  BY <1>1, RestartRing, Parts DEF maker, fecQueue
<1>3. SlicesTyped' /\ SizingTyped' /\ (pending \in [Receivers -> RequestType])' /\ MemoryKept
  BY <1>1, StillEffect DEF slotQueue
<1>4. ChannelInv' /\ ChannelTyped'
  <2>1. CASE GiveBack
    BY <2>1, Parts, GiveBackChannel
  <2>2. CASE Wait \/ Wake \/ Finish
    <3>1. /\ netPc # "giveBack" /\ netPc' # "giveBack"
          /\ UNCHANGED <<q, rcPos, freeMsgs, incoming, msgPos, arrived>>
          /\ rcPc' = rcPc \/ rcPc' = "cancelled"
      BY <2>2 DEF Wait, Wake, Finish, Restart, channel
    <3> QED
      BY <3>1, Parts, ChannelStays
  <2> QED
    BY <2>1, <2>2
<1>5. NetFrame
  BY <1>1 DEF NetFrame, maker, fecQueue
<1> QED
  BY <1>2, <1>3, <1>4, <1>5 DEF NetEffect

LEMMA ProceedEffect == ASSUME IInv, Proceed PROVE NetEffect
<1>1. /\ netPc = "messages" /\ netPc' \in {"make", "send"}
      /\ UNCHANGED <<mode, size, buffer, taken, freeEnd, read, dataEnd, reader, makePos, makeNo,
                     amount, made, cut, slotQueue, fecQueue, rexmit, channel>>
  BY DEF Proceed
<1>2. RingInv' /\ StateInv' /\ ControlInv' /\ SlicesKept(rexmit)
  BY ProceedRing, Parts
<1>3. MemoryKept
  <2>1. Oldest' = Oldest
    BY <1>1, OldestStays DEF slotQueue
  <2>2. rexmit \in Slots => rexmit = Oldest
    BY <1>1, Parts DEF RingInv, Oldest, Slots, NrSlices, NoSlice
  <2> QED
    BY <1>2, <2>1, <2>2, Parts, SlicesKeptMemory
<1>4. ChannelInv' /\ ChannelTyped'
  BY <1>1, Parts, ChannelStays DEF channel
<1>5. makePc' = makePc \/ (makePc = "idle" /\ makePc' = "slot")
  BY <1>1, Parts DEF Proceed, ControlInv
<1>6. NetFrame
  BY <1>1, <1>5 DEF NetFrame, fecQueue
<1> QED
  BY <1>2, <1>3, <1>4, <1>6 DEF NetEffect, SlicesKept

LEMMA TakeEncodedEffect == ASSUME IInv, TakeEncoded PROVE NetEffect
<1>1. /\ netPc = "make" /\ netPc' = "send"
      /\ UNCHANGED <<mode, size, memory, reader, maker, slices, slotQueue, parity, sizing,
                     channel, pending>>
  BY DEF TakeEncoded
<1>2. RingInv' /\ StateInv' /\ ControlInv'
  BY TakeEncodedRing, Parts
<1>3. SlicesTyped' /\ SizingTyped' /\ (pending \in [Receivers -> RequestType])' /\ MemoryKept
  BY <1>1, StillEffect DEF slotQueue, memory
<1>4. ChannelInv' /\ ChannelTyped'
  BY <1>1, Parts, ChannelStays DEF channel
<1>5. NetFrame
  BY <1>1 DEF NetFrame, maker, memory
<1> QED
  BY <1>2, <1>3, <1>4, <1>5 DEF NetEffect

LEMMA TimeOutEffect == ASSUME IInv, TimeOut PROVE NetEffect
<1>1. /\ netPc = "wait" /\ netPc' \in {"top", "exit"}
      /\ UNCHANGED <<mode, size, buffer, taken, freeEnd, read, dataEnd, reader, maker, slotQueue,
                     fecQueue, xmit, rexmit, channel>>
  BY DEF TimeOut, Restart
<1>2. rexmit # NoSlice
  BY <1>1 DEF IInv, TypeOK
<1>3. RingInv' /\ StateInv' /\ ControlInv' /\ SlicesKept(rexmit)
  BY <1>2, TimeOutRing, Parts
<1>4. MemoryKept
  <2>1. Oldest' = Oldest
    BY <1>1, OldestStays DEF slotQueue
  <2>2. rexmit \in Slots => rexmit = Oldest
    BY <1>1, Parts DEF RingInv, Oldest, Slots, NrSlices, NoSlice
  <2> QED
    BY <1>3, <2>1, <2>2, Parts, SlicesKeptMemory
<1>5. ChannelInv' /\ ChannelTyped'
  BY <1>1, Parts, ChannelStays DEF channel
<1>6. NetFrame
  BY <1>1 DEF NetFrame, maker, fecQueue
<1> QED
  BY <1>3, <1>4, <1>5, <1>6 DEF NetEffect, SlicesKept

LEMMA NetThreadEffect == ASSUME IInv, NetThread PROVE NetEffect
  BY CleanupEffect, PreFreeEffect, GiveSlotsEffect, ProduceSlotEffect, ShiftEffect,
     HandleMessageEffect, StillStepsEffect, RetransmitEffect, ProceedEffect, TakeEncodedEffect,
     SendSliceEffect, TimeOutEffect DEF NetThread

-----------------------------------------------------------------------------
(* Types *)

PlacesTyped ==
  /\ readerPc \in {"wait", "consumed", "produce", "done"}
  /\ makePc \in {"idle", "slot", "amount", "end", "encode", "encoded"}
  /\ netPc \in {"top", "free", "give", "produce", "shift", "messages", "giveBack", "make", "send",
                "wait", "exit", "done"}
  /\ rcPc \in {"wait", "lookup", "cancelled"}
  /\ xmit \in Slots \cup {NoSlice} /\ rexmit \in Slots \cup {NoSlice}
  /\ netPc = "wait" => rexmit # NoSlice
  /\ freePos \in Slots /\ makePos \in Slots /\ encodedPos \in Slots
  /\ encoded \in Nat /\ freeSlices \in Nat
  /\ freeEnd \in BOOLEAN /\ dataEnd \in BOOLEAN /\ atEnd \in BOOLEAN /\ cut \in BOOLEAN
  /\ participants \subseteq Receivers

LEMMA ReaderPlaces == ASSUME IInv, PlacesTyped, Reader PROVE PlacesTyped'
<1>1. /\ readerPc' \in {"wait", "consumed", "produce", "done"}
      /\ dataEnd' \in BOOLEAN
      /\ UNCHANGED <<freeEnd, maker, slotQueue, fecQueue, netPc, xmit, rexmit, atEnd, participants,
                     channel>>
  <2>1. CASE Read
    <3>1. dataEnd' = dataEnd \/ dataEnd' = TRUE
      BY <2>1 DEF Read
    <3>2. dataEnd' \in BOOLEAN
      BY <3>1 DEF PlacesTyped
    <3> QED
      BY <2>1, <3>2 DEF Read
  <2>2. CASE ReaderConsumed \/ ReaderProduces
    BY <2>2 DEF ReaderConsumed, ReaderProduces, PlacesTyped
  <2> QED
    BY <2>1, <2>2 DEF Reader
<1> QED
  BY <1>1 DEF PlacesTyped, maker, slotQueue, fecQueue, channel

LEMMA NextSlot == \A p \in Slots : (p + 1) % NrSlices \in Slots
  BY DEF Slots, NrSlices

LEMMA MakerPlaces == ASSUME IInv, PlacesTyped, Maker PROVE PlacesTyped'
<1>1. CASE TakeSlot
  <2>1. freeSlices - 1 \in Nat
    BY <1>1 DEF TakeSlot, PlacesTyped
  <2> QED
    BY <1>1, <2>1, NextSlot DEF TakeSlot, PlacesTyped, memory, reader, fecQueue, channel
<1>2. CASE LookAtAmount
  BY <1>2 DEF LookAtAmount, PlacesTyped, memory, reader, fecQueue, slotQueue, channel
<1>3. CASE LookAtEnd
  <2>1. LastMade \in Slots
    BY <1>3, Parts, LookAtEndRing
  <2>2. (atEnd \/ SliceBytes(amount) = 0) \in BOOLEAN
        /\ (cut \/ (amount < MinBlocks * BlockSize /\ amount < read - made)) \in BOOLEAN
    OBVIOUS
  <2>3. /\ cut' \in BOOLEAN /\ makePc' \in {"encode", "idle"}
        /\ netPc' = netPc \/ netPc' = "send"
        /\ xmit' = xmit \/ xmit' = LastMade
        /\ atEnd' = atEnd \/ atEnd' \in BOOLEAN
        /\ UNCHANGED <<readerPc, rcPc, rexmit, freePos, makePos, encodedPos, encoded, freeSlices,
                       freeEnd, dataEnd, participants>>
    BY <1>3, <2>2 DEF LookAtEnd, memory, reader, fecQueue, slotQueue, channel
  <2> QED
    BY <2>1, <2>3 DEF PlacesTyped
<1>4. CASE FecEncode
  BY <1>4 DEF FecEncode, PlacesTyped, reader, slotQueue, channel
<1>5. CASE FecProduce
  BY <1>5 DEF FecProduce, PlacesTyped, memory, reader, slotQueue, channel
<1> QED
  BY <1>1, <1>2, <1>3, <1>4, <1>5 DEF Maker

LEMMA ReturnChannelPlaces == ASSUME IInv, PlacesTyped, ReturnChannel PROVE PlacesTyped'
<1>1. /\ rcPc' \in {"wait", "lookup"}
      /\ UNCHANGED <<memory, reader, maker, slotQueue, fecQueue, netPc, xmit, rexmit, atEnd,
                     participants>>
  BY DEF ReturnChannel, RcReceives, RcLooksUp
<1> QED
  BY <1>1 DEF PlacesTyped, memory, reader, maker, slotQueue, fecQueue

LEMMA NetThreadPlaces == ASSUME IInv, PlacesTyped, NetThread PROVE PlacesTyped'
<1> DEFINE Still == UNCHANGED <<readerPc, makePos, dataEnd, cut>>
<1>1. Still /\ makePc' \in {"idle", "slot", "amount", "end", "encode", "encoded"}
  BY NetThreadEffect DEF NetEffect, NetFrame, reader, PlacesTyped
<1>2. CASE Cleanup
  BY <1>1, <1>2 DEF Cleanup, PlacesTyped, slotQueue, fecQueue, channel
<1>3. CASE PreFree
  BY <1>1, <1>3 DEF PreFree, PlacesTyped, memory, slotQueue, fecQueue, channel
<1>4. CASE GiveSlots
  BY <1>1, <1>4 DEF GiveSlots, PlacesTyped, memory, slotQueue, fecQueue, channel
<1>5. CASE ProduceSlot
  <2>1. freeSlices + 1 \in Nat
    BY DEF PlacesTyped
  <2> QED
    BY <1>1, <1>5, <2>1, NextSlot DEF ProduceSlot, PlacesTyped, memory, fecQueue, channel
<1>6. CASE Shift
  BY <1>1, <1>6 DEF Shift, PlacesTyped, slotQueue, fecQueue, channel
<1>7. CASE HandleMessage
  BY <1>1, <1>7, ZenonT(60) DEF HandleMessage, PlacesTyped, memory, slotQueue, fecQueue
<1>8. CASE GiveBack
  BY <1>1, <1>8 DEF GiveBack, Restart, PlacesTyped, memory, slotQueue, fecQueue
<1>9. CASE Retransmit
  BY <1>1, <1>9 DEF Retransmit, Restart, PlacesTyped, memory, slotQueue, fecQueue, channel
<1>10. CASE Proceed
  BY <1>1, <1>10 DEF Proceed, PlacesTyped, slotQueue, fecQueue, channel
<1>11. CASE TakeEncoded
  <2>1. encoded - 1 \in Nat /\ (atEnd \/ slices[encodedPos].bytes = 0) \in BOOLEAN
    BY <1>11 DEF TakeEncoded, PlacesTyped
  <2> QED
    BY <1>1, <1>11, <2>1, NextSlot DEF TakeEncoded, PlacesTyped, memory, slotQueue, channel
<1>12. CASE SendSlice
  BY <1>1, <1>12 DEF SendSlice, Restart, PlacesTyped, memory, slotQueue, fecQueue, channel
<1>13. CASE Wait
  <2>1. ~Finished => rexmit # NoSlice
    BY <1>13, Parts DEF Wait, Finished, Sendable, ControlInv
  <2> QED
    BY <1>1, <1>13, <2>1 DEF Wait, PlacesTyped, memory, slotQueue, fecQueue, channel
<1>14. CASE Wake
  BY <1>1, <1>14 DEF Wake, Restart, PlacesTyped, memory, slotQueue, fecQueue, channel
<1>15. CASE TimeOut
  <2>1. participants' \subseteq Receivers
    BY <1>15 DEF TimeOut, PlacesTyped
  <2>2. netPc' \in {"top", "exit"}
    BY <1>15 DEF TimeOut, Restart
  <2> QED
    BY <1>1, <1>15, <2>1, <2>2 DEF TimeOut, PlacesTyped, slotQueue, fecQueue, channel
<1>16. CASE Finish
  BY <1>1, <1>16 DEF Finish, PlacesTyped, slotQueue, fecQueue
<1> QED
  BY <1>2, <1>3, <1>4, <1>5, <1>6, <1>7, <1>8, <1>9, <1>10, <1>11, <1>12, <1>13, <1>14, <1>15, <1>16
     DEF NetThread

LEMMA PlacesTypes == IInv => PlacesTyped
  BY DEF IInv, TypeOK, Typed, PlacesTyped, NrSlices

-----------------------------------------------------------------------------
(* Memory and its content *)

MemoryTyped ==
  /\ mode \in ModeType /\ size \in Nat
  /\ buffer \in [0..BufSize - 1 -> Int]
  /\ chunk \in Nat /\ taken \in Nat /\ freed \in Nat /\ read \in Nat /\ made \in Nat
  /\ makeNo \in Nat /\ amount \in Nat
  /\ parity \in [Slots -> Int]

MemoryInv == MemoryTyped /\ CountersInv /\ BaseInv /\ ContentInv

LEMMA MemoryParts == IInv => MemoryInv
  BY DEF IInv, Typed, MemoryTyped, MemoryInv

LEMMA SumGrows ==
  ASSUME NEW a \in Nat, NEW b \in Nat, NEW f \in Nat, NEW g \in Nat, f <= g, a <= f + b
  PROVE  a <= g + b
  OBVIOUS

\* The network thread frees memory in order and writes to none.
LEMMA NetThreadMemory == ASSUME IInv, NetThread PROVE MemoryInv'
<1>1. NetEffect /\ MemoryInv
  BY NetThreadEffect, MemoryParts
<1>2. UNCHANGED <<mode, size, buffer, taken, read, dataEnd, readerPc, chunk, makePos, makeNo, amount,
                  made, cut, parity>>
  BY <1>1 DEF NetEffect, NetFrame, reader
<1>3. /\ freed' \in Nat /\ freed' >= freed /\ BaseInv'
      /\ freed' + Held(0)' + Held(1)' = freed + Held(0) + Held(1)
  BY <1>1 DEF NetEffect, MemoryKept
<1>4. /\ makePc' = makePc \/ (makePc = "idle" /\ makePc' = "slot")
      /\ netPc # "done" /\ ~freeEnd
      /\ freeEnd' = freeEnd \/ netPc' = "done"
      /\ LastMade' = LastMade /\ LastMade \in Slots
  BY <1>1, <1>2, Parts DEF NetEffect, NetFrame, MemoryInv, ContentInv, LastMade, RingTyped, Slots,
                           NrSlices
<1>5. MemoryTyped'
  BY <1>1, <1>2, <1>3 DEF MemoryInv, MemoryTyped
<1>6. CountersInv'
  <2>1. CountersInv /\ freed \in Nat /\ taken \in Nat /\ read \in Nat /\ chunk \in Nat /\ made \in Nat
    BY <1>1 DEF MemoryInv, MemoryTyped
  <2>2. made = freed' + Held(0)' + Held(1)'
    BY <1>3, <2>1 DEF CountersInv
  <2>3. taken <= freed' + BufSize /\ (readerPc = "consumed" => read + chunk <= freed' + BufSize)
    <3>1. taken <= freed + BufSize /\ (readerPc = "consumed" => read + chunk <= freed + BufSize)
      BY <2>1 DEF CountersInv
    <3>2. /\ freed \in Nat /\ freed' \in Nat /\ freed' >= freed /\ BufSize \in Nat
          /\ taken \in Nat /\ read + chunk \in Nat
      BY <1>3, <2>1, BufSizeType
    <3>3. ASSUME NEW a \in Nat, a <= freed + BufSize PROVE a <= freed' + BufSize
      BY <3>2, <3>3, SumGrows
    <3> QED
      BY <3>1, <3>2, <3>3
  <2>4. makePc' = "end" => makePc = "end"
    BY <1>4
  <2> QED
    BY <1>2, <2>1, <2>2, <2>3, <2>4 DEF CountersInv
<1>7. ContentInv'
  <2>1. /\ dataEnd => /\ readerPc = "done" /\ read = size
                      /\ read + Page <= freed + BufSize
        /\ ~cut => \A b \in freed..read + chunk - 1 : Holds(b)
    BY <1>1, <1>4 DEF MemoryInv, ContentInv
  <2>2. dataEnd => read + Page <= freed' + BufSize
    <3>1. freed \in Nat /\ read \in Nat /\ freed' \in Nat /\ freed' >= freed
      BY <1>1, <1>3 DEF MemoryInv, MemoryTyped
    <3> QED
      BY <2>1, <3>1, Sizes, BufSizeType
  <2>3. ~cut => \A b \in freed'..read + chunk - 1 : Holds(b)
    BY <1>1, <1>3, <2>1 DEF MemoryInv, MemoryTyped
  <2>4. \A b : Holds(b)' <=> Holds(b)
    BY <1>2 DEF Holds
  <2>5. \A i \in Slots : slices'[i].state = "NEW" =>
          /\ slices[i].state = "NEW" /\ slices'[i].no = slices[i].no
          /\ slices'[i].base = slices[i].base /\ slices'[i].bytes = slices[i].bytes
    BY <1>1 DEF NetEffect, MemoryKept
  <2>6. ASSUME ~cut', makePc' = "encode", LeftOver(slices'[LastMade]) # 0
        PROVE  /\ dataEnd /\ made = read
               /\ slices'[LastMade].base + slices'[LastMade].bytes = made
    <3>1. makePc = "encode" /\ slices'[LastMade].state = "NEW"
      BY <1>1, <1>4, <2>6 DEF NetEffect, StateInv
    <3>2. LeftOver(slices[LastMade]) # 0
      BY <1>4, <2>5, <2>6, <3>1 DEF LeftOver
    <3> QED
      BY <1>1, <1>2, <1>4, <2>5, <2>6, <3>1, <3>2 DEF MemoryInv, ContentInv
  <2>7. mode.fec => \A i \in Slots : slices'[i].state = "NEW" =>
          parity[i] = slices'[i].no \/ (makePc' = "encode" /\ i = LastMade)
    BY <1>1, <1>4, <2>5 DEF MemoryInv, ContentInv
  <2>8. freeEnd' => netPc' = "done"
    BY <1>4
  <2> QED
    BY <1>2, <1>4, <2>1, <2>2, <2>3, <2>4, <2>6, <2>7, <2>8 DEF ContentInv
<1> QED
  BY <1>3, <1>5, <1>6, <1>7 DEF MemoryInv

LEMMA ReadableBounds ==
  ASSUME MemoryInv
  PROVE  /\ FreeMem \in Nat /\ taken % BufSize \in 0..BufSize - 1
         /\ Readable \in 0..FreeMem /\ Readable <= BufSize - (taken % BufSize)
<1>1. FreeMem \in Nat /\ taken % BufSize \in 0..BufSize - 1
  BY BufSizeType DEF MemoryInv, MemoryTyped, CountersInv, FreeMem
<1> DEFINE n == Min({FreeMem, BufSize - (taken % BufSize)})
           extra == ((taken % BufSize) + n) % Page
<1>2. n \in 0..FreeMem /\ n <= BufSize - (taken % BufSize)
  <2>1. BufSize - (taken % BufSize) \in Nat
    BY <1>1, BufSizeType
  <2> QED
    BY <1>1, <2>1, MinOfTwo
<1>3. Readable = IF n > extra THEN n - extra ELSE n
  BY DEF Readable
<1>4. extra \in Nat
  <2> HIDE DEF n
  <2>1. (taken % BufSize) + n \in Nat
    BY <1>1, <1>2
  <2> QED
    BY <2>1, Sizes
<1> HIDE DEF n, extra
<1> QED
  BY <1>1, <1>2, <1>3, <1>4, BufSizeType

LEMMA ModAdd ==
  ASSUME NEW a \in Nat, NEW n \in Nat \ {0}, NEW k \in Nat, (a % n) + k < n
  PROVE  (a + k) % n = (a % n) + k
<1> SUFFICES ASSUME NEW b \in Nat, b = a + k PROVE b % n = (a % n) + k
  OBVIOUS
<1> DEFINE r == (a % n) + k
<1>1. PICK x \in Nat, m \in 0..n - 1 : m = a % n /\ a = n * x + m
  BY DivMod
<1>2. PICK y \in Nat, t \in 0..n - 1 : t = b % n /\ b = n * y + t
  BY DivMod, ZenonT(60)
<1>3. n * x \in Nat /\ n * y \in Nat /\ n * x + r = n * y + t /\ r \in 0..n - 1
  BY <1>1, <1>2
<1>4. n * (x - y) = n * x - n * y /\ n * (y - x) = n * y - n * x
  BY <1>1, <1>2
<1>5. CASE x >= y + 1
  <2>1. n * 1 <= n * (x - y)
    BY <1>5, ProductMonotone
  <2> QED
    BY <1>3, <1>4, <2>1
<1>6. CASE y >= x + 1
  <2>1. n * 1 <= n * (y - x)
    BY <1>6, ProductMonotone
  <2> QED
    BY <1>3, <1>4, <2>1
<1>7. CASE x = y
  BY <1>2, <1>3, <1>7
<1> QED
  BY <1>5, <1>6, <1>7

\* What is read goes to cells that hold nothing that is needed.
LEMMA ReadContent ==
  ASSUME MemoryInv, taken = read, chunk = 0, NEW n \in Nat, n <= FreeMem,
         n <= BufSize - (taken % BufSize),
         buffer' = [c \in DOMAIN buffer |->
           IF c \in (taken % BufSize) .. (taken % BufSize) + n - 1
           THEN read + (c - (taken % BufSize)) ELSE buffer[c]],
         \A b \in freed..read - 1 : Holds(b)
  PROVE  \A b \in freed..read + n - 1 : buffer'[b % BufSize] = b
<1> DEFINE pos == taken % BufSize
<1>1. /\ BufSize \in Nat \ {0} /\ pos \in 0..BufSize - 1 /\ FreeMem = BufSize + freed - read
      /\ DOMAIN buffer = 0..BufSize - 1 /\ freed \in Nat /\ read \in Nat
  BY ReadableBounds, BufSizeType DEF MemoryInv, MemoryTyped, FreeMem
<1> SUFFICES ASSUME NEW b \in freed..read + n - 1 PROVE buffer'[b % BufSize] = b
  OBVIOUS
<1>2. b \in Nat /\ b % BufSize \in DOMAIN buffer
  BY <1>1
<1>3. CASE b >= read
  <2>1. PICK k \in Nat : k = b - read /\ b = read + k /\ k < n
    BY <1>1, <1>2, <1>3
  <2>2. (read + k) % BufSize = pos + k
    <3>1. (read % BufSize) + k < BufSize
      BY <1>1, <2>1
    <3> QED
      BY <1>1, <3>1, ModAdd
  <2> QED
    BY <1>1, <1>2, <2>1, <2>2
<1>4. CASE b < read
  <2>1. b % BufSize \notin pos .. pos + n - 1
    <3> SUFFICES ASSUME b % BufSize \in pos .. pos + n - 1 PROVE FALSE
      OBVIOUS
    <3>1. PICK k \in Nat : k = (b % BufSize) - pos /\ k < n
      BY <1>1, <1>2
    <3>2. (read + k) % BufSize = b % BufSize
      <4>1. (read % BufSize) + k = b % BufSize /\ b % BufSize < BufSize
        BY <1>1, <1>2, <3>1
      <4> QED
        BY <1>1, <4>1, ModAdd
    <3>3. PICK a \in Nat : a = read + k
      BY <1>1, <3>1
    <3>4. b < a /\ a - b < BufSize
      BY <1>1, <1>2, <1>4, <3>1, <3>3
    <3> QED
      BY <1>1, <1>2, <3>2, <3>3, <3>4, ModDistinct
  <2>2. buffer[b % BufSize] = b
    BY <1>2, <1>4, <1>1 DEF Holds
  <2> QED
    BY <1>2, <2>1, <2>2
<1> QED
  BY <1>1, <1>2, <1>3, <1>4

LEMMA BaseStays ==
  ASSUME BaseInv, UNCHANGED <<slices, freed, netPc, slotQueue>>
  PROVE  BaseInv' /\ Held(0)' = Held(0) /\ Held(1)' = Held(1)
  BY DEF BaseInv, Oldest, ToProduce, Held, InUse, slotQueue

LEMMA ReadMemory == ASSUME IInv, Read PROVE MemoryInv'
<1>1. /\ readerPc = "wait" /\ (FreeMem >= Page \/ freeEnd)
      /\ UNCHANGED <<mode, size, taken, freed, freeEnd, read, makePc, makePos, makeNo, amount, made,
                     cut, slices, slotQueue, parity, netPc>>
  BY DEF Read, maker, fecQueue
<1>2. MemoryInv /\ taken = read /\ chunk = 0
  BY <1>1, MemoryParts DEF MemoryInv, CountersInv
<1>3. BaseInv' /\ Held(0)' = Held(0) /\ Held(1)' = Held(1)
  BY <1>1, <1>2, BaseStays DEF MemoryInv
<1>4. LastMade' = LastMade
  BY <1>1 DEF LastMade
<1>5. ~dataEnd
  BY <1>1, <1>2 DEF MemoryInv, ContentInv
<1>6. /\ size \in Nat /\ read \in Nat /\ made \in Nat /\ freed \in Nat /\ taken \in Nat
      /\ BufSize \in Nat \ {0} /\ Page \in Nat
  BY <1>2, BufSizeType, Sizes DEF MemoryInv, MemoryTyped
<1>7. CASE UNCHANGED <<buffer, chunk, dataEnd>> /\ readerPc' = "done"
  <2>1. MemoryTyped' /\ CountersInv'
    BY <1>1, <1>2, <1>3, <1>7 DEF MemoryInv, MemoryTyped, CountersInv
  <2>2. ContentInv'
    BY <1>1, <1>2, <1>4, <1>5, <1>7 DEF MemoryInv, ContentInv, Holds
  <2> QED
    BY <1>3, <2>1, <2>2 DEF MemoryInv
<1>8. CASE read = size /\ readerPc' = "done" /\ dataEnd' = TRUE /\ UNCHANGED <<buffer, chunk>>
  <2>1. MemoryTyped' /\ CountersInv'
    BY <1>1, <1>2, <1>3, <1>8 DEF MemoryInv, MemoryTyped, CountersInv
  <2>2. netPc # "done" => read + Page <= freed + BufSize
    <3>1. netPc # "done" => FreeMem >= Page
      BY <1>1, <1>2 DEF MemoryInv, ContentInv
    <3> QED
      BY <1>2, <1>6, <3>1 DEF FreeMem
  <2>3. ContentInv'
    BY <1>1, <1>2, <1>4, <1>5, <1>8, <2>2 DEF MemoryInv, ContentInv, Holds
  <2> QED
    BY <1>3, <2>1, <2>3 DEF MemoryInv
<1>9. ASSUME NEW n \in {1, Min({Readable, size - read})}, Readable # 0, read # size,
             buffer' = [c \in DOMAIN buffer |->
               IF c \in (taken % BufSize) .. (taken % BufSize) + n - 1
               THEN read + (c - (taken % BufSize)) ELSE buffer[c]],
             chunk' = n, readerPc' = "consumed", dataEnd' = dataEnd
      PROVE  MemoryInv'
  <2>1. /\ FreeMem \in Nat /\ taken % BufSize \in 0..BufSize - 1
        /\ Readable \in 0..FreeMem /\ Readable <= BufSize - (taken % BufSize)
    BY <1>2, ReadableBounds
  <2>2. size - read \in Nat \ {0}
    BY <1>2, <1>6, <1>9 DEF MemoryInv, CountersInv
  <2>3. n \in Nat /\ n <= Readable /\ n <= size - read
    <3>1. Readable \in Nat \ {0}
      BY <1>9, <2>1
    <3>2. Min({Readable, size - read}) = IF Readable <= size - read THEN Readable ELSE size - read
      BY <2>2, <3>1, MinOfTwo
    <3> QED
      BY <1>9, <2>2, <3>1, <3>2
  <2>4. n <= FreeMem /\ n <= BufSize - (taken % BufSize)
    BY <1>6, <2>1, <2>3
  <2>5. read + n <= size /\ read + n <= freed + BufSize
    BY <1>2, <1>6, <2>3, <2>4 DEF FreeMem
  <2>6. buffer' \in [0..BufSize - 1 -> Int]
    BY <1>2, <1>6, <1>9, <2>1 DEF MemoryInv, MemoryTyped
  <2>7. MemoryTyped'
    BY <1>1, <1>2, <1>9, <2>3, <2>6 DEF MemoryInv, MemoryTyped
  <2>8. CountersInv'
    BY <1>1, <1>2, <1>3, <1>9, <2>5 DEF MemoryInv, CountersInv
  <2>9. ~cut /\ netPc # "done" => \A b \in freed..read + n - 1 : buffer'[b % BufSize] = b
    <3> SUFFICES ASSUME ~cut, netPc # "done"
                 PROVE  \A b \in freed..read + n - 1 : buffer'[b % BufSize] = b
      OBVIOUS
    <3>1. read + chunk - 1 = read - 1
      BY <1>2, <1>6
    <3>2. \A b \in freed..read + chunk - 1 : Holds(b)
      BY <1>2 DEF MemoryInv, ContentInv
    <3>3. \A b \in freed..read - 1 : Holds(b)
      BY <3>1, <3>2
    <3>4. MemoryInv /\ taken = read /\ chunk = 0
      BY <1>2
    <3>5. PICK k \in Nat : k = n
      BY <2>3
    <3>6. buffer' = [c \in DOMAIN buffer |->
            IF c \in (taken % BufSize) .. (taken % BufSize) + k - 1
            THEN read + (c - (taken % BufSize)) ELSE buffer[c]]
      BY <1>9, <3>5
    <3>7. k <= FreeMem /\ k <= BufSize - (taken % BufSize)
      BY <2>4, <3>5
    <3>8. \A b \in freed..read + k - 1 : buffer'[b % BufSize] = b
      BY <3>3, <3>4, <3>6, <3>7, ReadContent
    <3> QED
      BY <3>5, <3>8
  <2>10. ContentInv'
    BY <1>1, <1>2, <1>4, <1>5, <1>9, <2>9 DEF MemoryInv, ContentInv, Holds
  <2> QED
    BY <1>3, <2>7, <2>8, <2>10 DEF MemoryInv
<1> QED
  BY <1>7, <1>8, <1>9 DEF Read

LEMMA ReaderMemory == ASSUME IInv, Reader PROVE MemoryInv'
<1>1. CASE ReaderConsumed
  <2>1. /\ readerPc = "consumed" /\ readerPc' = "produce" /\ taken' = taken + chunk
        /\ UNCHANGED <<mode, size, buffer, freed, freeEnd, read, dataEnd, chunk, makePc, makePos,
                       makeNo, amount, made, cut, slices, slotQueue, parity, netPc>>
    BY <1>1 DEF ReaderConsumed, maker, fecQueue
  <2>2. MemoryInv /\ taken = read /\ taken + chunk <= freed + BufSize /\ ~dataEnd
    BY <2>1, MemoryParts DEF MemoryInv, CountersInv, ContentInv
  <2>3. BaseInv' /\ Held(0)' = Held(0) /\ Held(1)' = Held(1)
    BY <2>1, <2>2, BaseStays DEF MemoryInv
  <2>4. MemoryTyped' /\ CountersInv'
    BY <2>1, <2>2, <2>3 DEF MemoryInv, MemoryTyped, CountersInv
  <2>5. ContentInv'
    BY <2>1, <2>2 DEF MemoryInv, ContentInv, Holds, LastMade
  <2> QED
    BY <2>3, <2>4, <2>5 DEF MemoryInv
<1>2. CASE ReaderProduces
  <2>1. /\ readerPc = "produce" /\ readerPc' = "wait" /\ read' = read + chunk /\ chunk' = 0
        /\ UNCHANGED <<mode, size, buffer, freed, freeEnd, taken, dataEnd, makePc, makePos,
                       makeNo, amount, made, cut, slices, slotQueue, parity, netPc>>
    BY <1>2 DEF ReaderProduces, maker, fecQueue
  <2>2. MemoryInv /\ taken = read + chunk /\ ~dataEnd
    BY <2>1, MemoryParts DEF MemoryInv, CountersInv, ContentInv
  <2>3. BaseInv' /\ Held(0)' = Held(0) /\ Held(1)' = Held(1)
    BY <2>1, <2>2, BaseStays DEF MemoryInv
  <2>4. /\ read \in Nat /\ chunk \in Nat /\ size \in Nat /\ made \in Nat /\ read + chunk <= size
        /\ made <= read /\ (makePc = "end" => amount <= read - made) /\ amount \in Nat
    BY <2>2 DEF MemoryInv, MemoryTyped, CountersInv
  <2>5. read' + chunk' = read + chunk /\ read' \in Nat /\ made <= read'
        /\ (makePc = "end" => amount <= read' - made)
    BY <2>1, <2>4
  <2>6. MemoryTyped' /\ CountersInv'
    BY <2>1, <2>2, <2>3, <2>4, <2>5 DEF MemoryInv, MemoryTyped, CountersInv
  <2>7. ~cut /\ netPc # "done" => \A b \in freed..read' + chunk' - 1 : Holds(b)
    <3>1. read' + chunk' - 1 = read + chunk - 1
      BY <2>1, <2>4
    <3>2. ~cut /\ netPc # "done" => \A b \in freed..read + chunk - 1 : Holds(b)
      BY <2>2 DEF MemoryInv, ContentInv
    <3> QED
      BY <3>1, <3>2
  <2>8. ~(~cut /\ makePc = "encode" /\ LeftOver(slices[LastMade]) # 0)
    BY <2>2 DEF MemoryInv, ContentInv
  <2>9. LastMade' = LastMade /\ \A b : Holds(b)' <=> Holds(b)
    BY <2>1 DEF LastMade, Holds
  <2>10. ContentInv'
    BY <2>1, <2>2, <2>7, <2>8, <2>9 DEF MemoryInv, ContentInv
  <2> QED
    BY <2>3, <2>6, <2>10 DEF MemoryInv
<1> QED
  BY <1>1, <1>2, ReadMemory DEF Reader

LEMMA ReturnChannelMemory == ASSUME IInv, ReturnChannel PROVE MemoryInv'
<1>1. UNCHANGED <<mode, size, memory, reader, maker, slices, slotQueue, parity, netPc>>
  BY DEF ReturnChannel, RcReceives, RcLooksUp, fecQueue
<1>2. MemoryInv
  BY MemoryParts
<1>3. BaseInv' /\ Held(0)' = Held(0) /\ Held(1)' = Held(1)
  BY <1>1, <1>2, BaseStays DEF MemoryInv, memory
<1>4. MemoryTyped' /\ CountersInv'
  BY <1>1, <1>2, <1>3 DEF MemoryInv, MemoryTyped, CountersInv, memory, reader, maker
<1>5. ContentInv'
  BY <1>1, <1>2 DEF MemoryInv, ContentInv, Holds, LastMade, memory, reader, maker
<1> QED
  BY <1>3, <1>4, <1>5 DEF MemoryInv

\* A step that makes no slice, writes to no memory, and leaves the encoding.
LEMMA QuietMemory ==
  ASSUME MemoryInv, MemoryTyped', BaseInv', Held(0)' = Held(0), Held(1)' = Held(1),
         UNCHANGED <<mode, size, memory, reader, made, cut, parity, netPc>>,
         makePc # "encode", makePc' # "encode", makePc' = "end" => amount' <= read - made,
         \A i \in Slots : slices'[i].state = "NEW" =>
           slices[i].state = "NEW" /\ slices'[i].no = slices[i].no
  PROVE  MemoryInv'
<1>1. CountersInv'
  BY DEF MemoryInv, CountersInv, memory, reader
<1>2. ContentInv'
  BY DEF MemoryInv, ContentInv, Holds, memory, reader
<1> QED
  BY <1>1, <1>2 DEF MemoryInv

LEMMA TakeSlotMemory == ASSUME IInv, TakeSlot PROVE MemoryInv' /\ SlicesTyped'
<1>1. /\ makePc = "slot" /\ freeSlices > 0 /\ makePc' = "amount"
      /\ slices' = [slices EXCEPT ![makePos] = FreeSlice]
      /\ UNCHANGED <<mode, size, memory, reader, makeNo, amount, made, cut, freePos, parity, netPc>>
  BY DEF TakeSlot, fecQueue
<1>2. MemoryInv /\ RingTyped /\ SlicesTyped /\ BaseInv /\ freed \in Nat /\ freed' = freed
  BY <1>1, Parts, MemoryParts DEF memory
<1>3. slices[makePos].state = "FREE" /\ makePos \in Slots
  BY <1>1, <1>2, Parts DEF StateInv, RingTyped
<1>4. \A i \in Slots : /\ i = makePos => slices'[i] = FreeSlice
                       /\ i # makePos => slices'[i] = slices[i]
  BY <1>1, <1>2, <1>3 DEF SlicesTyped
<1>5. \A i \in Slots : SameUse(i) /\ slices'[i].state = slices[i].state
  BY <1>3, <1>4 DEF SameUse, InUse, FreeSlice
<1>6. SlicesTyped'
  <2>1. FreeSlice.bytes <= BlockSize * LargestSize
    BY Sizes, BufSizeType, ProductMonotone DEF FreeSlice
  <2> QED
    BY <1>1, <1>2, <1>3, <1>4, <2>1, FreeSliceTyped DEF SlicesTyped
<1>7. Oldest' = Oldest
  BY <1>1, <1>2, <1>5 DEF Oldest, ToProduce, RingTyped
<1>8. MemoryKept
  BY <1>2, <1>5, <1>6, <1>7, SameUseMemory
<1>9. Held(0)' = Held(0) /\ Held(1)' = Held(1)
  BY <1>5 DEF SameUse, Held, Slots, NrSlices
<1>10. MemoryTyped'
  BY <1>1, <1>2 DEF MemoryInv, MemoryTyped, memory, reader
<1>11. \A i \in Slots : slices'[i].state = "NEW" =>
         slices[i].state = "NEW" /\ slices'[i].no = slices[i].no
  BY <1>8 DEF MemoryKept
<1>12. BaseInv'
  BY <1>8 DEF MemoryKept
<1>13. MemoryInv'
  BY <1>1, <1>2, <1>9, <1>10, <1>11, <1>12, QuietMemory
<1> QED
  BY <1>6, <1>13

LEMMA LookAtAmountMemory == ASSUME IInv, LookAtAmount PROVE MemoryInv' /\ SlicesTyped'
<1>1. /\ makePc \in {"amount", "end"} /\ makePc' = "end" /\ amount' = read - made
      /\ UNCHANGED <<mode, size, memory, reader, makeNo, made, cut, slices, slotQueue, parity, netPc>>
  BY DEF LookAtAmount, fecQueue
<1>2. MemoryInv /\ SlicesTyped
  BY Parts, MemoryParts
<1>3. BaseInv' /\ Held(0)' = Held(0) /\ Held(1)' = Held(1)
  BY <1>1, <1>2, BaseStays DEF MemoryInv, memory
<1>4. read - made \in Nat
  BY <1>2 DEF MemoryInv, MemoryTyped, CountersInv
<1>5. MemoryTyped' /\ amount' <= read - made
  BY <1>1, <1>2, <1>4 DEF MemoryInv, MemoryTyped, memory, reader
<1>6. MemoryInv'
  BY <1>1, <1>2, <1>3, <1>5, QuietMemory
<1> QED
  BY <1>1, <1>2, <1>6 DEF SlicesTyped

LEMMA FecProduceMemory == ASSUME IInv, FecProduce PROVE MemoryInv' /\ SlicesTyped'
<1>1. /\ makePc = "encoded" /\ makePc' = "slot"
      /\ UNCHANGED <<mode, size, memory, reader, makeNo, amount, made, cut, slices, slotQueue,
                     parity, netPc>>
  BY DEF FecProduce
<1>2. MemoryInv /\ SlicesTyped
  BY Parts, MemoryParts
<1>3. BaseInv' /\ Held(0)' = Held(0) /\ Held(1)' = Held(1)
  BY <1>1, <1>2, BaseStays DEF MemoryInv, memory
<1>4. MemoryTyped'
  BY <1>1, <1>2 DEF MemoryInv, MemoryTyped, memory, reader
<1>5. MemoryInv'
  BY <1>1, <1>2, <1>3, <1>4, QuietMemory
<1> QED
  BY <1>1, <1>2, <1>5 DEF SlicesTyped

\* The padding follows the last byte of the file, and fits.
LEMMA FecEncodeMemory == ASSUME IInv, FecEncode PROVE MemoryInv' /\ SlicesTyped'
<1> DEFINE s == slices[LastMade]
           rest == BlockSize - LeftOver(s)
<1>1. /\ makePc = "encode" /\ makePc' = "encoded"
      /\ buffer' = IF LeftOver(s) = 0 THEN buffer
                   ELSE [c \in DOMAIN buffer |->
                     IF c \in Cells(s.base + s.bytes, rest) THEN Padding ELSE buffer[c]]
      /\ parity' = [parity EXCEPT ![LastMade] = s.no]
      /\ UNCHANGED <<mode, size, taken, freed, freeEnd, read, dataEnd, reader, makePos, makeNo,
                     amount, made, cut, slices, slotQueue, netPc>>
  BY DEF FecEncode
<1>2. MemoryInv /\ RingTyped /\ SlicesTyped /\ LastMade \in Slots /\ LastMade' = LastMade
  BY <1>1, Parts, MemoryParts DEF LastMade, RingTyped, Slots, NrSlices
<1>3. BaseInv' /\ Held(0)' = Held(0) /\ Held(1)' = Held(1)
  BY <1>1, <1>2, BaseStays DEF MemoryInv
<1>4. s \in SliceType /\ s.no \in Nat /\ LeftOver(s) \in 0..BlockSize - 1
  BY <1>2, Sizes DEF SlicesTyped, SliceType, LeftOver
<1>5. MemoryTyped'
  <2>1. buffer' \in [0..BufSize - 1 -> Int]
    BY <1>1, <1>2 DEF MemoryInv, MemoryTyped, Padding
  <2>2. parity' \in [Slots -> Int]
    BY <1>1, <1>2, <1>4 DEF MemoryInv, MemoryTyped
  <2> QED
    BY <1>1, <1>2, <2>1, <2>2 DEF MemoryInv, MemoryTyped, reader
<1>6. CountersInv'
  BY <1>1, <1>2, <1>3 DEF MemoryInv, CountersInv, reader
<1>7. ~cut /\ netPc # "done" => \A b \in freed..read + chunk - 1 : buffer'[b % BufSize] = b
  <2> SUFFICES ASSUME ~cut, netPc # "done", NEW b \in freed..read + chunk - 1
               PROVE  buffer'[b % BufSize] = b
    OBVIOUS
  <2>1. buffer[b % BufSize] = b
    BY <1>2 DEF MemoryInv, ContentInv, Holds
  <2>2. CASE LeftOver(s) # 0
    <3>1. /\ dataEnd /\ made = read /\ s.base + s.bytes = made
          /\ readerPc = "done" /\ read + Page <= freed + BufSize
      BY <1>1, <1>2, <2>2 DEF MemoryInv, ContentInv
    <3>2. chunk = 0 /\ read \in Nat /\ freed \in Nat /\ BufSize \in Nat \ {0} /\ Page \in Nat
      BY <1>2, <3>1, Sizes, BufSizeType DEF MemoryInv, MemoryTyped, CountersInv
    <3>3. rest \in Nat /\ rest <= Page
      BY <1>4, <2>2, Sizes, SizesAssumption
    <3>4. b \in Nat /\ freed <= b /\ b < read
      BY <3>2
    <3>5. b % BufSize \notin Cells(s.base + s.bytes, rest)
      <4> HIDE DEF rest
      <4> SUFFICES ASSUME NEW i \in read..read + rest - 1, i % BufSize = b % BufSize
                   PROVE  FALSE
        BY <3>1 DEF Cells
      <4>1. i \in Nat /\ b < i /\ i - b < BufSize
        BY <3>1, <3>2, <3>3, <3>4
      <4> QED
        BY <3>2, <3>4, <4>1, ModDistinct
    <3>6. b % BufSize \in DOMAIN buffer
      BY <1>2, <3>2, <3>4 DEF MemoryInv, MemoryTyped
    <3> QED
      BY <1>1, <2>1, <2>2, <3>5, <3>6
  <2> QED
    BY <1>1, <2>1, <2>2
<1>8. \A i \in Slots : slices[i].state = "NEW" /\ mode.fec => parity'[i] = slices[i].no
  BY <1>1, <1>2 DEF MemoryInv, MemoryTyped, ContentInv
<1>9. ContentInv'
  <2>1. \A b : Holds(b)' <=> buffer'[b % BufSize] = b
    BY DEF Holds
  <2> QED
    BY <1>1, <1>2, <1>7, <1>8, <2>1 DEF MemoryInv, ContentInv, reader
<1> QED
  BY <1>1, <1>2, <1>3, <1>5, <1>6, <1>9 DEF MemoryInv, SlicesTyped

\* The slot of the slice being made is the oldest only if no other is in use.
LEMMA MakingAlone ==
  ASSUME RingTyped, RingInv, StateInv, Making, Oldest = LastMade
  PROVE  1 - LastMade \notin InUse
<1> USE DEF NrSlices, Slots, NoSlice
<1>1. LastMade = 1 - makePos /\ makePos \in 0..1
  BY DEF LastMade, RingTyped
<1>2. /\ ToProduce + ToResend + ToSend + encoded + freeSlices = 1
      /\ ToProduce \in 0..1 /\ ToResend \in 0..1 /\ ToSend \in 0..1
      /\ encoded \in Nat /\ freeSlices \in Nat /\ freePos \in 0..1
  BY DEF RingInv, RingTyped, ToMake, ToProduce, ToResend, ToSend
<1>3. ToResend + ToSend + encoded = 0
  BY <1>1, <1>2 DEF RingInv, ToMake, Oldest
<1>4. CASE freeSlices = 1
  BY <1>1, <1>4 DEF StateInv, InUse
<1>5. CASE ToProduce = 1
  <2>1. freePos = makePos
    BY <1>1, <1>2, <1>5 DEF Oldest
  <2>2. slices[freePos].state \in {"FREE", "PRE_FREE"}
    BY <1>5 DEF ToProduce, StateInv
  <2> QED
    BY <1>1, <2>1, <2>2 DEF InUse
<1> QED
  BY <1>2, <1>3, <1>4, <1>5

LEMMA LookAtEndMemory == ASSUME IInv, LookAtEnd PROVE MemoryInv' /\ SlicesTyped'
<1> DEFINE k == SliceBytes(amount)
           new == [FreeSlice EXCEPT !.state = "NEW", !.no = makeNo, !.base = made, !.bytes = k]
<1>1. /\ makePc = "end" /\ (amount >= MinBlocks * BlockSize \/ dataEnd)
      /\ slices' = [slices EXCEPT ![LastMade] = new]
      /\ made' = made + k /\ amount' = 0 /\ makeNo' = makeNo + 1
      /\ cut' = (cut \/ (amount < MinBlocks * BlockSize /\ amount < read - made))
      /\ UNCHANGED <<mode, size, memory, reader, makePos, freePos, parity>>
      /\ IF mode.fec THEN makePc' = "encode" /\ netPc' = netPc
         ELSE makePc' = "idle" /\ netPc' = "send"
  BY DEF LookAtEnd, slotQueue, fecQueue
<1>2. /\ MemoryInv /\ RingTyped /\ SlicesTyped /\ SizingTyped
      /\ LastMade \in Slots /\ LastMade' = LastMade /\ slices[LastMade].state = "FREE"
      /\ ~mode.fec => netPc = "make"
  BY <1>1, Parts, MemoryParts, LookAtEndRing DEF LastMade
<1>3. /\ size \in Nat /\ read \in Nat /\ made \in Nat /\ freed \in Nat /\ amount \in Nat
      /\ makeNo \in Nat /\ amount <= read - made /\ made <= read
      /\ made = freed + Held(0) + Held(1)
  BY <1>1, <1>2 DEF MemoryInv, MemoryTyped, CountersInv
<1>4. /\ k \in 0..amount /\ k <= BlockSize * LargestSize
      /\ k % BlockSize # 0 => k = amount /\ amount < BlockSize
  BY <1>2, <1>3, SliceBytesBounds
<1>5. /\ new \in SliceType /\ new.state = "NEW" /\ new.no = makeNo /\ new.base = made
      /\ new.bytes = k
  <2> HIDE DEF k
  <2>1. makeNo \in Nat /\ made \in Nat /\ k \in Nat
    BY <1>3, <1>4
  <2> QED
    BY <2>1 DEF SliceType, FreeSlice
<1> HIDE DEF k, new
<1>6. \A i \in Slots : /\ i = LastMade => slices'[i] = new
                       /\ i # LastMade => slices'[i] = slices[i]
  BY <1>1, <1>2 DEF SlicesTyped
<1>7. SlicesTyped'
  BY <1>1, <1>2, <1>4, <1>5, <1>6 DEF SlicesTyped
<1>8. /\ LastMade \in InUse' /\ LastMade \notin InUse
      /\ 1 - LastMade \in Slots /\ 1 - LastMade # LastMade
      /\ 1 - LastMade \in InUse' <=> 1 - LastMade \in InUse
      /\ slices'[1 - LastMade] = slices[1 - LastMade]
  <2>1. 1 - LastMade \in Slots /\ 1 - LastMade # LastMade
    BY <1>2 DEF Slots, NrSlices
  <2> QED
    BY <1>2, <1>5, <1>6, <2>1 DEF InUse
<1>9. \A i \in Slots : /\ Held(i) \in Nat
                       /\ i = LastMade => Held(i)' = k /\ Held(i) = 0
                       /\ i # LastMade => Held(i)' = Held(i)
  BY <1>2, <1>5, <1>6, <1>8, HeldType DEF Held, InUse
<1>10. /\ Held(0) + Held(1) = Held(1 - LastMade) /\ Held(0)' + Held(1)' = Held(1 - LastMade) + k
       /\ made = freed + Held(1 - LastMade)
       /\ made' = freed + Held(0)' + Held(1)'
  <2>1. CASE LastMade = 0
    <3>1. 1 = 1 - LastMade /\ 0 \in Slots /\ 1 \in Slots
      BY <2>1 DEF Slots, NrSlices
    <3>2. /\ Held(0)' = k /\ Held(0) = 0 /\ Held(1)' = Held(1) /\ Held(1) \in Nat
          /\ Held(1 - LastMade) = Held(1)
      BY <1>9, <2>1, <3>1
    <3> QED
      BY <1>1, <1>3, <1>4, <3>2
  <2>2. CASE LastMade = 1
    <3>1. 0 = 1 - LastMade /\ 1 \in Slots /\ 0 \in Slots
      BY <2>2 DEF Slots, NrSlices
    <3>2. /\ Held(1)' = k /\ Held(1) = 0 /\ Held(0)' = Held(0) /\ Held(0) \in Nat
          /\ Held(1 - LastMade) = Held(0)
      BY <1>9, <2>2, <3>1
    <3> QED
      BY <1>1, <1>3, <1>4, <3>2
  <2> QED
    BY <1>2, <2>1, <2>2 DEF Slots, NrSlices
<1>11. MemoryTyped'
  <2>1. made + k \in Nat /\ makeNo + 1 \in Nat
    BY <1>3, <1>4
  <2> QED
    BY <1>1, <1>2, <2>1 DEF MemoryInv, MemoryTyped, memory, reader
<1>12. CountersInv'
  <2>1. made' <= read /\ read' = read
    BY <1>1, <1>3, <1>4 DEF memory
  <2>2. makePc' # "end" /\ freed' = freed
    BY <1>1 DEF memory
  <2>3. /\ read <= size /\ taken <= freed + BufSize
        /\ readerPc \in {"wait", "done"} => taken = read /\ chunk = 0
        /\ readerPc = "consumed" => taken = read /\ read + chunk <= freed + BufSize
        /\ readerPc = "produce" => taken = read + chunk
        /\ read + chunk <= size
    BY <1>2 DEF MemoryInv, CountersInv
  <2>4. UNCHANGED <<size, taken, freed, read, readerPc, chunk>>
    BY <1>1 DEF memory, reader
  <2>5. /\ read' <= size' /\ taken' <= freed' + BufSize
        /\ readerPc' \in {"wait", "done"} => taken' = read' /\ chunk' = 0
        /\ readerPc' = "consumed" => taken' = read' /\ read' + chunk' <= freed' + BufSize
        /\ readerPc' = "produce" => taken' = read' + chunk'
        /\ read' + chunk' <= size'
    BY <2>3, <2>4
  <2>6. made' <= read' /\ made' = freed' + Held(0)' + Held(1)'
    BY <1>10, <2>1, <2>2
  <2> QED
    BY <2>2, <2>5, <2>6 DEF CountersInv
<1>13. BaseInv'
  <2>1. Oldest \in Slots /\ BaseInv /\ freed' = freed
    BY <1>1, <1>2, OldestSlot DEF MemoryInv, memory
  <2>2. Oldest' = Oldest
    <3>1. netPc' \in {"give", "produce"} <=> netPc \in {"give", "produce"}
      BY <1>1, <1>2
    <3>2. netPc \in {"give", "produce"} => netPc' = netPc
      BY <1>1, <1>2
    <3>3. slices'[freePos].state = "PRE_FREE" <=> slices[freePos].state = "PRE_FREE"
      BY <1>2, <1>5, <1>6 DEF RingTyped
    <3> QED
      BY <1>1, <3>1, <3>2, <3>3 DEF Oldest, ToProduce
  <2>3. CASE Oldest = LastMade
    <3>1. 1 - LastMade \notin InUse
      BY <1>1, <1>2, <2>3, Parts, MakingAlone DEF Making
    <3>2. Held(1 - LastMade) = 0
      BY <3>1 DEF Held
    <3>3. slices'[LastMade].base = freed
      BY <1>2, <1>3, <1>5, <1>6, <1>10, <3>2
    <3> QED
      BY <1>8, <2>1, <2>2, <2>3, <3>1, <3>3 DEF BaseInv
  <2>4. CASE Oldest = 1 - LastMade
    <3>1. 1 - Oldest = LastMade
      BY <1>2, <2>4 DEF Slots, NrSlices
    <3>2. slices'[LastMade].base = freed + Held(Oldest)
      BY <1>2, <1>5, <1>6, <1>10, <2>4
    <3>3. Held(Oldest)' = Held(Oldest)
      BY <1>9, <2>1, <2>2, <2>4, <1>8
    <3> QED
      BY <1>8, <2>1, <2>2, <2>4, <3>1, <3>2, <3>3 DEF BaseInv
  <2> QED
    BY <1>2, <2>1, <2>3, <2>4 DEF Slots, NrSlices
<1>14. ContentInv'
  <2>1. \A b : Holds(b)' <=> Holds(b)
    BY <1>1 DEF Holds, memory
  <2>2. (netPc' = "done" <=> netPc = "done") /\ (~cut' => ~cut)
    BY <1>1, <1>2
  <2>3. ASSUME ~cut', makePc' = "encode", LeftOver(slices'[LastMade]) # 0
        PROVE  /\ dataEnd /\ made' = read
               /\ slices'[LastMade].base + slices'[LastMade].bytes = made'
    <3>1. k % BlockSize # 0
      BY <1>2, <1>5, <1>6, <2>3 DEF LeftOver
    <3>2. k = amount /\ amount < MinBlocks * BlockSize
      <4>1. BlockSize * 1 <= BlockSize * MinBlocks /\ BlockSize * MinBlocks = MinBlocks * BlockSize
            /\ MinBlocks * BlockSize \in Nat
        BY Sizes, ProductMonotone
      <4> QED
        BY <1>3, <1>4, <3>1, <4>1, Sizes
    <3>3. dataEnd /\ amount = read - made
      <4>1. MinBlocks * BlockSize \in Nat
        BY Sizes
      <4> HIDE DEF k
      <4>2. ~(amount < read - made)
        BY <1>1, <2>3, <3>2
      <4>3. ~(amount >= MinBlocks * BlockSize)
        BY <1>3, <3>2, <4>1
      <4> QED
        BY <1>1, <1>3, <4>2, <4>3
    <3> QED
      BY <1>1, <1>2, <1>3, <1>5, <1>6, <3>2, <3>3
  <2>4. mode.fec => \A i \in Slots : slices'[i].state = "NEW" =>
          parity[i] = slices'[i].no \/ (makePc' = "encode" /\ i = LastMade)
    BY <1>1, <1>2, <1>6 DEF MemoryInv, ContentInv
  <2> QED
    BY <1>1, <1>2, <2>1, <2>2, <2>3, <2>4 DEF MemoryInv, ContentInv, memory, reader
<1> QED
  BY <1>7, <1>11, <1>12, <1>13, <1>14 DEF MemoryInv

LEMMA MakerMemory == ASSUME IInv, Maker PROVE MemoryInv' /\ SlicesTyped'
  BY TakeSlotMemory, LookAtAmountMemory, LookAtEndMemory, FecEncodeMemory, FecProduceMemory DEF Maker

-----------------------------------------------------------------------------
(* The invariant and the theorems *)

LEMMA ShareOfTwo ==
  ASSUME NEW a \in 0..1, NEW b \in 0..1, NEW c \in 0..1, NEW d \in Nat, NEW e \in 0..1,
         NEW f \in Nat, a + b + c + d + e + f = 2
  PROVE  d \in 0..2 /\ f \in 0..2
  OBVIOUS

LEMMA NextDiffers ==
  ASSUME NEW x \in {0, 1, -1}, NEW y \in {0, 1, -1}, NEW n \in 0..1, NEW m \in 0..1,
         NEW k \in 0..1, x # -1 => k = 1,
         x # -1 => x = (n + m) % 2, y # -1 => y = (n + m + k) % 2
  PROVE  y = x => y = -1
  OBVIOUS

\* The parts make up the invariant; the rest of the types follows from the ring.
LEMMA Together ==
  ASSUME PlacesTyped', SlicesTyped', SizingTyped', (pending \in [Receivers -> RequestType])',
         RingInv', StateInv', ControlInv', ChannelInv', ChannelTyped', MemoryInv'
  PROVE  IInv'
<1> USE DEF NrSlices, Slots, NoSlice
<1>a. /\ ToProduce' \in 0..1 /\ ToMake' \in 0..1 /\ ToResend' \in 0..1 /\ ToSend' \in 0..1
      /\ rexmit' # -1 => ToResend' = 1
  BY DEF ToProduce, ToResend, ToSend, ToMake
<1>b. /\ freeSlices' \in Nat /\ encoded' \in Nat /\ freePos' \in 0..1
      /\ xmit' \in {0, 1, -1} /\ rexmit' \in {0, 1, -1}
  BY DEF PlacesTyped
<1>c. /\ ToProduce' + ToResend' + ToSend' + encoded' + ToMake' + freeSlices' = 2
      /\ rexmit' # -1 => rexmit' = (freePos' + ToProduce') % 2
      /\ xmit' # -1 => xmit' = (freePos' + ToProduce' + ToResend') % 2
  BY DEF RingInv
<1>1. freeSlices' \in 0..2 /\ encoded' \in 0..2
  BY <1>a, <1>b, <1>c, ShareOfTwo
<1>2. xmit' = rexmit' => xmit' = -1
  BY <1>a, <1>b, <1>c, NextDiffers
<1>3. \A i \in Slots : slices'[i].state \in {"FREE", "NEW", "XMITTED", "ACKED", "PRE_FREE"}
  BY DEF SlicesTyped, SliceType
<1>4. TypeOK'
  BY <1>1, <1>2, <1>3 DEF TypeOK, PlacesTyped, SizingTyped
<1>5. Typed'
  BY DEF Typed, PlacesTyped, SlicesTyped, SizingTyped, ChannelTyped, MemoryInv, MemoryTyped
<1> QED
  BY <1>4, <1>5 DEF IInv, MemoryInv

LEMMA InitInv == Init => IInv
<1> SUFFICES ASSUME Init PROVE IInv
  OBVIOUS
<1> USE DEF NrSlices, Slots, NoSlice
<1>1. /\ mode \in ModeType /\ size \in Nat /\ BufSize \in Nat \ {0} /\ QueueSize \in Nat \ {0}
      /\ BlockSize * LargestSize \in Nat
  BY SizesAssumption, BufSizeType, Sizes DEF Init
<1>2. slices = [i \in 0..1 |-> FreeSlice] /\ FreeSlice.state = "FREE" /\ FreeSlice.bytes = 0
  BY DEF Init, FreeSlice
<1>3. SlicesTyped /\ \A i \in Slots : slices[i].state = "FREE" /\ Held(i) = 0 /\ i \notin InUse
  BY <1>1, <1>2, FreeSliceTyped DEF SlicesTyped, Held, InUse
<1>4. SizingTyped
  <2>1. /\ InitialSize \in 1..MaxSize /\ FecSize \in 1..MaxSize /\ MaxSize \in Nat
        /\ LeastSize \in Nat
    BY SizesAssumption, Sizes
  <2>2. LargestSize = IF MaxSize >= LeastSize THEN MaxSize ELSE LeastSize
    BY <2>1, MaxOfTwo DEF LargestSize
  <2> QED
    BY <2>1, <2>2 DEF Init, SizingTyped
<1>5. TypeOK
  BY <1>3, <1>4 DEF Init, TypeOK, SizingTyped
<1>6. Typed
  <2>1. /\ q \in [0..QueueSize - 1 -> MessageType] /\ arrived \in Seq(MessageType)
        /\ pending \in [Receivers -> RequestType]
    BY FreeSliceTyped DEF Init
  <2>2. buffer \in [0..BufSize - 1 -> Int] /\ parity \in [Slots -> Int]
    BY DEF Init, Padding
  <2>3. discovery \in {"DOUBLING", "REDUCING"}
    BY DEF Init
  <2>4. freeEnd \in BOOLEAN /\ dataEnd \in BOOLEAN /\ atEnd \in BOOLEAN /\ cut \in BOOLEAN
    BY DEF Init
  <2>5. /\ chunk \in Nat /\ taken \in Nat /\ freed \in Nat /\ read \in Nat /\ made \in Nat
        /\ makeNo \in Nat /\ amount \in Nat
        /\ freePos \in Slots /\ makePos \in Slots /\ encodedPos \in Slots
    BY DEF Init
  <2> QED
    BY <1>1, <1>3, <2>1, <2>2, <2>3, <2>4, <2>5 DEF Typed, SlicesTyped
<1>7. CountersInv
  BY <1>1, <1>3 DEF Init, CountersInv
<1>8. ToProduce = 0 /\ ToResend = 0 /\ ToSend = 0 /\ ToMake = 0 /\ Oldest \in Slots
  BY DEF Init, ToProduce, ToResend, ToSend, ToMake, Making, Oldest
<1>9. RingInv
  BY <1>8 DEF Init, RingInv
<1>10. StateInv
  BY <1>3 DEF Init, StateInv
<1>11. ControlInv
  BY DEF Init, ControlInv
<1>12. ChannelInv
  <2>1. 0 % QueueSize = 0
    BY <1>1
  <2> QED
    BY <1>1, <2>1 DEF Init, ChannelInv, MessagesIntact
<1>13. BaseInv
  BY <1>3, <1>8 DEF BaseInv
<1>14. ContentInv
  BY <1>3 DEF Init, ContentInv
<1> QED
  BY <1>5, <1>6, <1>7, <1>9, <1>10, <1>11, <1>12, <1>13, <1>14 DEF IInv

LEMMA MakerRing ==
  ASSUME IInv, Maker
  PROVE  RingInv' /\ StateInv' /\ ControlInv'
  BY Parts, TakeSlotRing, LookAtAmountRing, LookAtEndRing, EncodingRing DEF Maker

LEMMA StepInv == IInv /\ [Next]_vars => IInv'
<1> SUFFICES ASSUME IInv, [Next]_vars PROVE IInv'
  OBVIOUS
<1>1. /\ PlacesTyped /\ RingTyped /\ SlicesTyped /\ SizingTyped /\ ChannelTyped /\ MemoryInv
      /\ pending \in [Receivers -> RequestType]
      /\ RingInv /\ StateInv /\ ControlInv /\ ChannelInv
  BY Parts, PlacesTypes, MemoryParts
<1>2. CASE Reader
  <2>1. UNCHANGED <<mode, maker, slices, slotQueue, fecQueue, netPc, xmit, rexmit, atEnd, sizing,
                    channel, pending>>
    BY <1>2 DEF Reader, Read, ReaderConsumed, ReaderProduces
  <2>2. RingInv' /\ StateInv' /\ ControlInv'
    BY <1>1, <2>1, RingUntouched DEF maker, fecQueue
  <2>3. ChannelInv' /\ ChannelTyped'
    BY <1>1, <2>1, ChannelStays DEF channel
  <2>4. SlicesTyped' /\ SizingTyped' /\ (pending \in [Receivers -> RequestType])'
    BY <1>1, <2>1 DEF SlicesTyped, SizingTyped, sizing
  <2> QED
    BY <1>1, <1>2, <2>2, <2>3, <2>4, ReaderPlaces, ReaderMemory, Together
<1>3. CASE Maker
  <2>1. UNCHANGED <<sizing, channel, pending>> /\ (netPc' = "giveBack" <=> netPc = "giveBack")
    <3>1. CASE LookAtEnd
      <4>1. ~mode.fec => netPc = "make"
        BY <1>1, <3>1, LookAtEndRing
      <4> QED
        BY <3>1, <4>1 DEF LookAtEnd
    <3>2. CASE TakeSlot \/ LookAtAmount \/ FecEncode \/ FecProduce
      BY <3>2 DEF TakeSlot, LookAtAmount, FecEncode, FecProduce
    <3> QED
      BY <1>3, <3>1, <3>2 DEF Maker
  <2>2. ChannelInv' /\ ChannelTyped'
    BY <1>1, <2>1, ChannelStays DEF channel
  <2>3. SizingTyped' /\ (pending \in [Receivers -> RequestType])'
    BY <1>1, <2>1 DEF SizingTyped, sizing
  <2> QED
    BY <1>1, <1>3, <2>2, <2>3, MakerPlaces, MakerRing, MakerMemory, Together
<1>4. CASE ReturnChannel
  <2>1. UNCHANGED <<mode, maker, slices, slotQueue, fecQueue, netPc, xmit, rexmit, atEnd, sizing>>
    BY <1>4 DEF ReturnChannel, RcReceives, RcLooksUp
  <2>2. RingInv' /\ StateInv' /\ ControlInv'
    BY <1>1, <2>1, RingUntouched DEF maker, fecQueue
  <2>3. ChannelInv' /\ ChannelTyped' /\ (pending \in [Receivers -> RequestType])'
    <3>1. CASE RcReceives
      BY <1>1, <3>1, RcReceivesChannel
    <3>2. CASE RcLooksUp
      <4>1. pending' = pending
        BY <3>2 DEF RcLooksUp
      <4> QED
        BY <1>1, <3>2, <4>1, RcLooksUpChannel
    <3> QED
      BY <1>4, <3>1, <3>2 DEF ReturnChannel
  <2>4. SlicesTyped' /\ SizingTyped'
    BY <1>1, <2>1 DEF SlicesTyped, SizingTyped, sizing
  <2> QED
    BY <1>1, <1>4, <2>2, <2>3, <2>4, ReturnChannelPlaces, ReturnChannelMemory, Together
<1>5. CASE NetThread
  BY <1>1, <1>5, NetThreadEffect, NetThreadPlaces, NetThreadMemory, Together DEF NetEffect
<1>6. CASE UNCHANGED vars
  <2> USE DEF vars, memory, reader, maker, slotQueue, fecQueue, sizing, channel
  <2>1. PlacesTyped'
    BY <1>1, <1>6 DEF PlacesTyped
  <2>2. RingInv' /\ StateInv' /\ ControlInv'
    BY <1>1, <1>6, RingUntouched
  <2>3. ChannelInv' /\ ChannelTyped'
    BY <1>1, <1>6, ChannelStays
  <2>4. SlicesTyped' /\ SizingTyped' /\ (pending \in [Receivers -> RequestType])'
    BY <1>1, <1>6 DEF SlicesTyped, SizingTyped
  <2>5. MemoryInv'
    <3>1. BaseInv' /\ Held(0)' = Held(0) /\ Held(1)' = Held(1)
      BY <1>1, <1>6, BaseStays DEF MemoryInv
    <3>2. MemoryTyped' /\ CountersInv'
      BY <1>1, <1>6, <3>1 DEF MemoryInv, MemoryTyped, CountersInv
    <3>3. ContentInv'
      BY <1>1, <1>6 DEF MemoryInv, ContentInv, Holds, LastMade
    <3> QED
      BY <3>1, <3>2, <3>3 DEF MemoryInv
  <2> QED
    BY <2>1, <2>2, <2>3, <2>4, <2>5, Together
<1> QED
  BY <1>2, <1>3, <1>4, <1>5, <1>6 DEF Next

\* Memory and slots are where the invariant says.
LEMMA InvIntact == IInv => MemoryIntact
<1> SUFFICES ASSUME IInv PROVE MemoryIntact
  OBVIOUS
<1>1. /\ RingTyped /\ SlicesTyped /\ MemoryInv /\ StateInv
      /\ size \in Nat /\ read \in Nat /\ made \in Nat /\ freed \in Nat /\ taken \in Nat
      /\ chunk \in Nat
  BY Parts, MemoryParts DEF MemoryInv, MemoryTyped
<1>2. made <= read /\ taken <= freed + BufSize /\ made = freed + Held(0) + Held(1)
  BY <1>1 DEF MemoryInv, CountersInv
<1>3. read <= taken
  BY <1>1, PlacesTypes DEF MemoryInv, CountersInv, PlacesTyped
<1>4. \A i \in InUse : /\ slices[i].base \in Nat /\ slices[i].bytes \in Nat
                       /\ freed <= slices[i].base
                       /\ slices[i].base + slices[i].bytes <= made
  <2> SUFFICES ASSUME NEW i \in InUse
               PROVE  /\ slices[i].base \in Nat /\ slices[i].bytes \in Nat
                      /\ freed <= slices[i].base
                      /\ slices[i].base + slices[i].bytes <= made
    OBVIOUS
  <2>1. i \in Slots /\ slices[i].base \in Nat /\ slices[i].bytes \in Nat /\ Held(i) = slices[i].bytes
    BY <1>1 DEF InUse, SlicesTyped, SliceType, Held
  <2>2. Oldest \in {0, 1} /\ i \in {0, 1} /\ Held(0) \in Nat /\ Held(1) \in Nat
    BY <1>1, <2>1, OldestSlot, HeldType DEF Slots, NrSlices
  <2>3. CASE i = Oldest
    BY <1>1, <1>2, <2>1, <2>2, <2>3 DEF MemoryInv, BaseInv
  <2>4. CASE i = 1 - Oldest
    BY <1>1, <1>2, <2>1, <2>2, <2>4 DEF MemoryInv, BaseInv
  <2> QED
    BY <2>2, <2>3, <2>4
<1>5. ASSUME ~cut, netPc # "done"
      PROVE  /\ \A b \in made..read - 1 : Holds(b)
             /\ \A i \in InUse : \A b \in Bytes(slices[i].base, slices[i].bytes) : Holds(b)
  <2>1. \A b \in freed..read + chunk - 1 : Holds(b)
    BY <1>1, <1>5 DEF MemoryInv, ContentInv
  <2>2. freed <= made
    BY <1>1, <1>2, HeldType DEF Slots, NrSlices
  <2>3. \A b \in freed..read - 1 : Holds(b)
    BY <1>1, <2>1
  <2> QED
    BY <1>1, <1>2, <1>4, <2>2, <2>3 DEF Bytes
<1>6. \A i \in InUse : mode.fec /\ slices[i].state = "NEW" =>
        parity[i] = slices[i].no \/ (makePc = "encode" /\ i = LastMade)
  BY <1>1 DEF MemoryInv, ContentInv, InUse
<1>7. \A k \in 0..freeSlices - 1 : slices[(makePos + k) % NrSlices].state = "FREE"
  BY <1>1 DEF StateInv, RingTyped, NrSlices, Slots
<1> QED
  BY <1>2, <1>3, <1>5, <1>6, <1>7 DEF MemoryIntact

\* The invariant that the rest is proved from holds in every reachable state of
\* the four threads and their queues.
THEOREM Invariant == Spec => []IInv
<1>1. Init => IInv
  BY InitInv
<1>2. IInv /\ [Next]_vars => IInv'
  BY StepInv
<1> QED
  BY <1>1, <1>2, PTL DEF Spec

\* The variables have their types; the size of a slice stays within its limits
\* however it grows (ackSlice) and is reduced (sendReqack), and the network
\* thread waits only for a slice there is.
THEOREM TypeCorrect == Spec => []TypeOK
<1>1. IInv => TypeOK
  BY DEF IInv
<1> QED
  BY <1>1, Invariant, PTL

\* No message of the return channel is lost or written over before the network
\* thread handled it.
THEOREM MessagesKept == Spec => []MessagesIntact
<1>1. IInv => MessagesIntact
  BY DEF IInv, ChannelInv
<1> QED
  BY <1>1, Invariant, PTL

\* The buffer holds all that is still needed, parity is of its slice, and the
\* assertion of makeSlice holds: for all sizes, however the threads interleave.
THEOREM MemoryStaysIntact == Spec => []MemoryIntact
<1>1. IInv => MemoryIntact
  BY InvIntact
<1> QED
  BY <1>1, Invariant, PTL

=============================================================================
